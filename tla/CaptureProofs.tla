---------------------------- MODULE CaptureProofs ----------------------------
(***************************************************************************)
(* Proofs about the capture collectors of CaptureMC for all constants: how *)
(* the focused field is followed (FieldPulls), how the event tap comes     *)
(* back and what it records of keys and copies (EventTap), which           *)
(* applications are observed (AppObservers), how a walk of the tree masks  *)
(* what it could not classify (SnapshotWalk), and how the snapshot worker  *)
(* knows the focus and saves what changed (SnapshotWorker).                *)
(***************************************************************************)
EXTENDS CaptureMC, FiniteSetTheorems, TLAPS

-----------------------------------------------------------------------------
(* FieldPulls: reads in time, and the held field is heard.                 *)

Places == Fields \union {NoField}
FieldKinds == {"text", "other"}
Registrations == {"none", "active", "stale"}
Ways == {"internal", "native", "sampled"}
Posts == [kind : {"focus", "value"}, field : Places]

ProgramTyped ==
  /\ focusNow \in Places
  /\ fieldClass \in [Fields -> FieldKinds]
  /\ posted \in Seq(Posts)
  /\ Len(posted) <= PostLimit

\* ReadInTime is not inductive: unless a submission is due, a key that nothing
\* was read after is no older than the burst that will read it.
PullTimes ==
  /\ submitDue \in BOOLEAN
  /\ settleIn \in Never..SettleSpan
  /\ unreadKeys \in Never..Hold
  /\ burst = Idle \/ burst \in [first : 0..Hold, last : 0..Hold]
  /\ ~submitDue => IF burst = Idle THEN unreadKeys = Never ELSE unreadKeys <= burst.first

\* The observer's registrations, as a predicate of its state: what is active
\* is also sent, and only the held field's is.
Registered(h, class, regs, sent) ==
  /\ h \in Places
  /\ class \in FieldKinds
  /\ sent \subseteq Fields
  /\ regs \in [Fields -> Registrations]
  /\ class = "text" => h \in sent /\ regs[h] = "active"
  /\ \A field \in Fields \ {h} : regs[field] # "active"
  /\ \A field \in Fields : regs[field] = "active" => field \in sent

\* HeldFieldIsHeard is not inductive: only what was never announced to the
\* outside may still be reported by a pull, and it never was.
Reported(h, how, said, count, seen) ==
  /\ how \in Ways
  /\ said \in BOOLEAN /\ seen \in BOOLEAN
  /\ count \in 0..1
  /\ how = "internal" => count = 0
  /\ how # "internal" /\ h # NoField => said
  /\ seen /\ h # NoField => said

PullsHold ==
  /\ ProgramTyped
  /\ PullTimes
  /\ Registered(held, heldClass, registry, registered)
  /\ Reported(held, announcement, announced, sampledKeys, looked)

LEMMA PullSpans ==
  /\ Hold \in Nat /\ Hush \in Nat /\ SettleSpan \in Nat /\ PostLimit \in Nat
  /\ 1 <= Hush /\ Hush <= Hold /\ 1 <= SettleSpan /\ 1 <= PostLimit
  /\ NoField \notin Fields
<1>1. /\ NoField \notin Fields /\ Hush \in Nat \ {0} /\ Hold >= Hush
      /\ Hold \in Nat \ {0} /\ SettleSpan \in Nat \ {0} /\ PostLimit \in Nat \ {0}
  BY PullsAssumption
<1>. QED  BY <1>1

LEMMA PullsStart == PullsInit => PullsHold
<1>. SUFFICES ASSUME PullsInit PROVE PullsHold  OBVIOUS
<1>. USE PullSpans DEF PullsInit
<1>1. ProgramTyped  BY DEF ProgramTyped, Places, FieldKinds, Posts
<1>2. PullTimes
  <2>1. /\ burst = Idle /\ submitDue = FALSE /\ settleIn = -1 /\ unreadKeys = -1
    BY DEF Never
  <2>2. settleIn \in -1..SettleSpan /\ unreadKeys \in -1..Hold  BY <2>1
  <2>. QED  BY <2>1, <2>2 DEF PullTimes, Never
<1>3. Registered(held, heldClass, registry, registered)
  BY DEF Registered, Places, FieldKinds, Registrations
<1>4. Reported(held, announcement, announced, sampledKeys, looked)
  <2>1. /\ held = NoField /\ announcement = "internal" /\ announced = FALSE
        /\ sampledKeys = 0 /\ looked = FALSE
    OBVIOUS
  <2>2. announced \in BOOLEAN /\ looked \in BOOLEAN  BY <2>1
  <2>. QED  BY <2>1, <2>2 DEF Reported, Ways
<1>. QED  BY <1>1, <1>2, <1>3, <1>4 DEF PullsHold

\* What is posted stays within the queue.
LEMMA PostTyped ==
  ASSUME ProgramTyped, NEW kind \in {"focus", "value"}, NEW field \in Places,
         Post(kind, field)
  PROVE  posted' \in Seq(Posts) /\ Len(posted') <= PostLimit
<1>. DEFINE note == [kind |-> kind, field |-> field]
<1>1. note \in Posts  BY DEF Posts
<1>2. posted \in Seq(Posts) /\ Len(posted) <= PostLimit  BY DEF ProgramTyped
<1>3. posted' = IF Len(posted) < PostLimit THEN Append(posted, note) ELSE posted
  BY DEF Post
<1>. HIDE DEF note
<1>. QED  BY <1>1, <1>2, <1>3, PullSpans

\* A field that is given up leaves the others' registrations alone, and is
\* itself no longer heard.
Leaves(field, regs, sent, left, leftSent) ==
  /\ left \in [Fields -> Registrations]
  /\ \A f \in Fields \ {field} : left[f] = regs[f]
  /\ field # NoField => left[field] # "active"
  /\ sent \ {field} \subseteq leftSent /\ leftSent \subseteq sent

LEMMA GivingUp ==
  ASSUME NEW regs \in [Fields -> Registrations], NEW sent \in SUBSET Fields,
         NEW field \in Places, NEW works \in BOOLEAN, NEW left, NEW leftSent,
         left = GivenUp(regs, sent, field, works).regs,
         leftSent \in GivenUp(regs, sent, field, works).sent
  PROVE  Leaves(field, regs, sent, left, leftSent)
<1>. USE DEF Leaves
<1>1. CASE field = NoField \/ regs[field] = "none"
  <2>1. left = regs /\ leftSent = sent
    BY <1>1 DEF GivenUp
  <2>. QED  BY <1>1, <2>1, PullSpans DEF Places
<1>2. CASE field # NoField /\ regs[field] # "none" /\ works
  <2>1. left = [regs EXCEPT ![field] = "none"] /\ leftSent = sent \ {field}
    BY <1>2 DEF GivenUp
  <2>. QED  BY <1>2, <2>1 DEF Places, Registrations
<1>3. CASE field # NoField /\ regs[field] # "none" /\ ~works
  <2>1. left = [regs EXCEPT ![field] = "stale"] /\ leftSent \in {sent, sent \ {field}}
    BY <1>3 DEF GivenUp
  <2>. QED  BY <1>3, <2>1 DEF Places, Registrations
<1>. QED  BY <1>1, <1>2, <1>3

\* A newly held field has been reported as often as the way it was found says.
LEMMA NewlyReported ==
  ASSUME NEW field, NEW class, NEW how \in Ways, NewlyHeld(field, class, how)
  PROVE  /\ held' = field /\ heldClass' = class
         /\ Reported(held', announcement', announced', sampledKeys', looked')
<1>1. /\ held' = field /\ heldClass' = class /\ announcement' = how
      /\ announced' = (how # "internal") /\ looked' = (how = "sampled")
      /\ sampledKeys' = (IF how = "sampled" THEN 1 ELSE 0)
  BY DEF NewlyHeld
<1>2. announced' \in BOOLEAN /\ looked' \in BOOLEAN  BY <1>1
<1>3. sampledKeys' \in 0..1 /\ (how = "internal" => sampledKeys' = 0)  BY <1>1
<1>4. (how # "internal" => announced') /\ (looked' => announced')  BY <1>1
<1>. QED  BY <1>1, <1>2, <1>3, <1>4 DEF Reported

\* clear_focused_target.
LEMMA ClearKeeps ==
  ASSUME PullsHold, Clear
  PROVE  /\ Registered(held', heldClass', registry', registered')
         /\ Reported(held', announcement', announced', sampledKeys', looked')
<1>1. NewlyHeld(NoField, "other", "internal")  BY DEF Clear
<1>2. "internal" \in Ways  BY DEF Ways
<1>3. /\ held' = NoField /\ heldClass' = "other"
      /\ Reported(held', announcement', announced', sampledKeys', looked')
  BY <1>1, <1>2, NewlyReported
<1>4. PICK works \in BOOLEAN :
        /\ registry' = GivenUp(registry, registered, held, works).regs
        /\ registered' \in GivenUp(registry, registered, held, works).sent
  BY DEF Clear
<1>5. /\ registry \in [Fields -> Registrations] /\ registered \in SUBSET Fields
      /\ held \in Places
      /\ \A field \in Fields \ {held} : registry[field] # "active"
  BY DEF PullsHold, Registered
<1>6. Leaves(held, registry, registered, registry', registered')
  BY <1>4, <1>5, GivingUp
<1>7. \A f \in Fields : registry'[f] # "active"
  BY <1>5, <1>6, PullSpans DEF Places, Leaves
<1>8. Registered(held', heldClass', registry', registered')
  BY <1>3, <1>5, <1>6, <1>7 DEF Registered, Places, FieldKinds, Leaves
<1>. QED  BY <1>3, <1>8

\* install_focused_target: the new field is registered before the old one is
\* given up.
LEMMA InstallKeeps ==
  ASSUME PullsHold, NEW how \in Ways, focusNow # held, Install(how)
  PROVE  /\ Registered(held', heldClass', registry', registered')
         /\ Reported(held', announcement', announced', sampledKeys', looked')
<1>. DEFINE class == IF focusNow = NoField THEN "other" ELSE fieldClass[focusNow]
            regs == IF focusNow = NoField THEN registry
                    ELSE IF class = "text" THEN Registering(registry, focusNow)
                    ELSE [registry EXCEPT ![focusNow] = "none"]
            sent == IF class = "text" THEN registered \cup {focusNow} ELSE registered
<1>1. NewlyHeld(focusNow, class, how)  BY DEF Install
<1>2. PICK works \in BOOLEAN :
        /\ registry' = GivenUp(regs, sent, held, works).regs
        /\ registered' \in GivenUp(regs, sent, held, works).sent
  BY DEF Install
<1>3. /\ registry \in [Fields -> Registrations] /\ registered \in SUBSET Fields
      /\ held \in Places
      /\ \A field \in Fields \ {held} : registry[field] # "active"
      /\ \A field \in Fields : registry[field] = "active" => field \in registered
      /\ focusNow \in Places /\ fieldClass \in [Fields -> FieldKinds]
  BY DEF PullsHold, Registered, ProgramTyped
<1>4. /\ class \in FieldKinds
      /\ class = "text" => focusNow \in Fields
  BY <1>3 DEF Places, FieldKinds
<1>5. /\ regs \in [Fields -> Registrations]
      /\ \A f \in Fields \ {focusNow} : regs[f] = registry[f]
      /\ focusNow \in Fields => regs[focusNow] = IF class = "text" THEN "active" ELSE "none"
  BY <1>3, PullSpans DEF Registering, Registrations, Places
<1>6. sent \in SUBSET Fields /\ registered \subseteq sent /\ (class = "text" => focusNow \in sent)
  BY <1>3, <1>4
<1>7. /\ held' = focusNow /\ heldClass' = class
      /\ Reported(held', announcement', announced', sampledKeys', looked')
  <2>. HIDE DEF class
  <2>. QED  BY <1>1, NewlyReported
<1>. HIDE DEF regs, sent, class
<1>8. Leaves(held, regs, sent, registry', registered')
  BY <1>2, <1>3, <1>5, <1>6, GivingUp
<1>9. \A f \in Fields \ {focusNow} : registry'[f] # "active"
  BY <1>3, <1>5, <1>8, PullSpans DEF Places, Leaves
<1>10. class = "text" => registry'[focusNow] = "active" /\ focusNow \in registered'
  BY <1>4, <1>5, <1>6, <1>8 DEF Leaves
<1>11. \A f \in Fields : registry'[f] = "active" => f \in registered'
  <2>1. SUFFICES ASSUME focusNow \in Fields, registry'[focusNow] = "active"
                 PROVE  focusNow \in registered'
    BY <1>9
  <2>2. class = "text"  BY <1>3, <1>5, <1>8, <2>1 DEF Leaves
  <2>. QED  BY <2>2, <1>10
<1>12. Registered(held', heldClass', registry', registered')
  BY <1>3, <1>4, <1>6, <1>7, <1>8, <1>9, <1>10, <1>11 DEF Registered, Leaves
<1>. QED  BY <1>7, <1>12

\* refresh_current_field_class.
LEMMA RefreshKeeps ==
  ASSUME PullsHold, Refresh, held' = held
  PROVE  Registered(held', heldClass', registry', registered')
<1>1. Registered(held, heldClass, registry, registered)  BY DEF PullsHold
<1>2. CASE UNCHANGED <<heldClass, registry, registered>>
  BY <1>1, <1>2
<1>3. CASE /\ held # NoField
           /\ heldClass' = "text" /\ registry' = Registering(registry, held)
           /\ registered' = IF registry[held] = "active" THEN registered
                            ELSE registered \cup {held}
  BY <1>1, <1>3 DEF Registered, Registering, Places, FieldKinds, Registrations
<1>4. CASE /\ held # NoField
           /\ heldClass' = "other"
           /\ \E works \in BOOLEAN :
                LET after == GivenUp(registry, registered, held, works)
                IN registry' = after.regs /\ registered' \in after.sent
  <2>1. PICK works \in BOOLEAN :
          /\ registry' = GivenUp(registry, registered, held, works).regs
          /\ registered' \in GivenUp(registry, registered, held, works).sent
    BY <1>4
  <2>2. Leaves(held, registry, registered, registry', registered')
    <3>1. registry \in [Fields -> Registrations] /\ registered \in SUBSET Fields /\ held \in Places
      BY <1>1 DEF Registered
    <3>. QED  BY <2>1, <3>1, GivingUp
  <2>3. \A f \in Fields : registry'[f] # "active"
    BY <1>1, <1>4, <2>2 DEF Registered, Leaves
  <2>. QED  BY <1>1, <1>4, <2>2, <2>3 DEF Registered, FieldKinds, Leaves
<1>. QED  BY <1>2, <1>3, <1>4 DEF Refresh

\* FocusPullState::observed, after a refresh.
LEMMA ObservedKeeps ==
  ASSUME PullsHold, NEW byNotification \in BOOLEAN, ObservedField(byNotification)
  PROVE  /\ held' = held
         /\ Reported(held', announcement', announced', sampledKeys', looked')
<1>1. Reported(held, announcement, announced, sampledKeys, looked)  BY DEF PullsHold
<1>. DEFINE changed == heldClass' # heldClass
            public == byNotification /\ (announcement # "sampled" \/ changed)
<1>2. /\ announcement' = IF byNotification THEN "native" ELSE announcement
      /\ announced' = (announced \/ (public /\ held # NoField))
      /\ held' = held /\ sampledKeys' = sampledKeys /\ looked' = looked
  BY DEF ObservedField
<1>3. announced' \in BOOLEAN /\ (announced => announced')
  BY <1>1, <1>2 DEF Reported
<1>4. announcement' # "internal" /\ held' # NoField => announced'
  BY <1>1, <1>2 DEF Reported, Ways
<1>. QED  BY <1>1, <1>2, <1>3, <1>4 DEF Reported, Ways

\* focused_element_or_clear.
LEMMA ReadKeeps ==
  ASSUME PullsHold, NEW byNotification \in BOOLEAN, ReadFocus(byNotification)
  PROVE  /\ Registered(held', heldClass', registry', registered')
         /\ Reported(held', announcement', announced', sampledKeys', looked')
<1>1. CASE Clear  BY <1>1, ClearKeeps
<1>2. CASE focusNow # held /\ Install(IF byNotification THEN "native" ELSE "internal")
  <2>1. (IF byNotification THEN "native" ELSE "internal") \in Ways  BY DEF Ways
  <2>. QED  BY <1>2, <2>1, InstallKeeps
<1>3. CASE Refresh /\ ObservedField(byNotification)
  <2>1. /\ held' = held
        /\ Reported(held', announcement', announced', sampledKeys', looked')
    BY <1>3, ObservedKeeps
  <2>. QED  BY <1>3, <2>1, RefreshKeeps
<1>. QED  BY <1>1, <1>2, <1>3 DEF ReadFocus

\* FocusPullState::pulled, after a refresh.
LEMMA PulledKeeps ==
  ASSUME PullsHold, Pulled
  PROVE  /\ held' = held
         /\ Reported(held', announcement', announced', sampledKeys', looked')
<1>1. Reported(held, announcement, announced, sampledKeys, looked)  BY DEF PullsHold
<1>. DEFINE changed == heldClass' # heldClass
            announce == held # NoField /\ announcement = "internal"
<1>2. /\ announcement' = IF announce THEN "sampled" ELSE announcement
      /\ announced' = (announced \/ announce \/ (changed /\ held # NoField))
      /\ sampledKeys' = IF announce THEN sampledKeys + 1 ELSE sampledKeys
      /\ looked' = TRUE /\ held' = held
  BY DEF Pulled
<1>3. announced' \in BOOLEAN /\ (announced => announced') /\ (announce => announced')
  BY <1>1, <1>2 DEF Reported
<1>4. held' # NoField => announced'
  BY <1>1, <1>2, <1>3 DEF Reported
<1>5. sampledKeys' \in 0..1 /\ (announcement' = "internal" => sampledKeys' = 0)
  BY <1>1, <1>2 DEF Reported
<1>. QED  BY <1>1, <1>2, <1>3, <1>4, <1>5 DEF Reported, Ways

-----------------------------------------------------------------------------
LEMMA ProgramFocusesKeeps ==
  ASSUME PullsHold, ProgramFocuses
  PROVE  PullsHold'
<1>. USE DEF pullVars, fieldVars, programVars
<1>1. PICK field \in Places :
        focusNow' = field /\ (Post("focus", field) \/ UNCHANGED posted)
  BY DEF ProgramFocuses, Places
<1>2. posted' \in Seq(Posts) /\ Len(posted') <= PostLimit
  BY <1>1, PostTyped DEF PullsHold, ProgramTyped
<1>. QED  BY <1>1, <1>2 DEF ProgramFocuses, PullsHold, ProgramTyped, PullTimes

LEMMA ProgramReclassifiesKeeps ==
  ASSUME PullsHold, ProgramReclassifies
  PROVE  PullsHold'
<1>. USE DEF pullVars, fieldVars, programVars
<1>1. fieldClass' \in [Fields -> FieldKinds]
  BY DEF ProgramReclassifies, PullsHold, ProgramTyped, FieldKinds
<1>. QED  BY <1>1 DEF ProgramReclassifies, PullsHold, ProgramTyped, PullTimes

LEMMA ProgramChangesValueKeeps ==
  ASSUME PullsHold, ProgramChangesValue
  PROVE  PullsHold'
<1>. USE DEF pullVars, fieldVars, programVars
<1>1. focusNow \in Places /\ ProgramTyped  BY DEF PullsHold, ProgramTyped
<1>2. posted' \in Seq(Posts) /\ Len(posted') <= PostLimit
  BY <1>1, PostTyped DEF ProgramChangesValue
<1>. QED  BY <1>2 DEF ProgramChangesValue, PullsHold, ProgramTyped, PullTimes

LEMMA TakePostedKeeps ==
  ASSUME PullsHold, TakePosted
  PROVE  PullsHold'
<1>. USE DEF pullVars, fieldVars, programVars
<1>1. PullTimes'
  BY DEF TakePosted, PullsHold, PullTimes
<1>2. ProgramTyped'
  <2>1. /\ posted \in Seq(Posts) /\ Len(posted) <= PostLimit
        /\ posted # <<>> /\ posted' = Tail(posted)
        /\ focusNow' = focusNow /\ fieldClass' = fieldClass
    BY DEF TakePosted, PullsHold, ProgramTyped
  <2>2. Tail(posted) \in Seq(Posts) /\ Len(Tail(posted)) = Len(posted) - 1
        /\ Len(posted) \in Nat
    BY <2>1
  <2>3. Len(posted') <= PostLimit
    <3>1. Len(posted') = Len(posted) - 1  BY <2>1, <2>2
    <3>2. PostLimit \in Nat  BY PullSpans
    <3>. QED  BY <2>1, <2>2, <3>1, <3>2
  <2>. QED  BY <2>1, <2>2, <2>3 DEF PullsHold, ProgramTyped
<1>3. CASE ReadFocus(TRUE)
  BY <1>1, <1>2, <1>3, ReadKeeps DEF PullsHold
<1>4. CASE Refresh /\ UNCHANGED <<held, announcement, announced, sampledKeys, looked>>
  BY <1>1, <1>2, <1>4, RefreshKeeps DEF PullsHold
<1>5. CASE UNCHANGED fieldVars
  BY <1>1, <1>2, <1>5 DEF PullsHold
<1>. QED  BY <1>3, <1>4, <1>5 DEF TakePosted

LEMMA ReactivatedKeeps ==
  ASSUME PullsHold, Reactivated
  PROVE  PullsHold'
<1>. USE DEF pullVars, fieldVars, programVars
<1>1. ProgramTyped' /\ PullTimes'
  BY DEF Reactivated, PullsHold, ProgramTyped, PullTimes
<1>. QED  BY <1>1, ReadKeeps DEF Reactivated, PullsHold

LEMMA InputArrivesKeeps ==
  ASSUME PullsHold, NEW age \in 0..1, InputArrives(age)
  PROVE  PullsHold'
<1>. USE DEF pullVars, fieldVars, programVars
<1>1. Hold \in Nat /\ Hush \in Nat /\ 1 <= Hold
  BY PullSpans
<1>2. PullTimes'
  <2>1. PullTimes /\ age <= Hold /\ age >= 0  BY <1>1 DEF PullsHold
  <2>2. /\ unreadKeys' = IF age > unreadKeys THEN age ELSE unreadKeys
        /\ submitDue' = submitDue /\ settleIn' = settleIn
    BY DEF InputArrives
  <2>3. CASE burst = Idle
    <3>1. burst' = [first |-> age, last |-> age]
      BY <2>3 DEF InputArrives, Arm
    <3>2. burst' \in [first : 0..Hold, last : 0..Hold] /\ burst' # Idle /\ burst'.first = age
      BY <1>1, <2>1, <3>1 DEF Idle
    <3>. QED  BY <1>1, <2>1, <2>2, <2>3, <3>2 DEF PullTimes, Never
  <2>4. CASE burst # Idle
    <3>. DEFINE f == burst.first
                l == burst.last
    <3>1. f \in 0..Hold /\ l \in 0..Hold  BY <2>1, <2>4 DEF PullTimes
    <3>2. burst' = [first |-> IF age > f THEN age ELSE f, last |-> IF age < l THEN age ELSE l]
      BY <2>4 DEF InputArrives, Arm
    <3>3. ~submitDue => unreadKeys <= f  BY <2>1, <2>4 DEF PullTimes
    <3>. HIDE DEF f, l
    <3>4. /\ burst' \in [first : 0..Hold, last : 0..Hold] /\ burst' # Idle
          /\ burst'.first = IF age > f THEN age ELSE f
      BY <1>1, <2>1, <3>1, <3>2 DEF Idle
    <3>. QED  BY <1>1, <2>1, <2>2, <3>1, <3>3, <3>4 DEF PullTimes, Never
  <2>. QED  BY <2>3, <2>4
<1>. QED  BY <1>2 DEF InputArrives, PullsHold, ProgramTyped

LEMMA SubmitArrivesKeeps ==
  ASSUME PullsHold, SubmitArrives
  PROVE  PullsHold'
<1>. USE DEF pullVars, fieldVars, programVars
<1>1. PullTimes'
  BY PullSpans DEF SubmitArrives, PullsHold, PullTimes, Never
<1>. QED  BY <1>1 DEF SubmitArrives, PullsHold, ProgramTyped

LEMMA RunPullKeeps ==
  ASSUME PullsHold, RunPull
  PROVE  PullsHold'
<1>. USE DEF pullVars, fieldVars, programVars
<1>1. PullTimes'
  <2>1. PullTimes  BY DEF PullsHold
  <2>2. /\ submitDue' = FALSE
        /\ settleIn' = IF settleIn = 0 THEN Never ELSE settleIn
        /\ burst' = IF BurstDue THEN Idle ELSE burst
        /\ unreadKeys' = IF burst = Idle \/ BurstDue THEN Never ELSE burst.first
    BY DEF RunPull
  <2>3. settleIn' \in Never..SettleSpan
    BY <2>1, <2>2, PullSpans DEF PullTimes, Never
  <2>4. CASE burst = Idle \/ BurstDue
    <3>1. burst' = Idle /\ unreadKeys' = Never  BY <2>2, <2>4 DEF BurstDue
    <3>2. unreadKeys' \in Never..Hold  BY <3>1, PullSpans DEF Never
    <3>. QED  BY <2>2, <2>3, <3>1, <3>2 DEF PullTimes, Idle
  <2>5. CASE burst # Idle /\ ~BurstDue
    <3>1. /\ burst' = burst /\ unreadKeys' = burst.first
          /\ burst \in [first : 0..Hold, last : 0..Hold]
      BY <2>1, <2>2, <2>5 DEF PullTimes
    <3>2. unreadKeys' \in Never..Hold /\ unreadKeys' <= burst'.first
      <4>1. burst.first \in 0..Hold  BY <3>1
      <4>. QED  BY <3>1, <4>1, PullSpans DEF Never
    <3>. QED  BY <2>2, <2>3, <2>5, <3>1, <3>2 DEF PullTimes
  <2>. QED  BY <2>4, <2>5
<1>2. ProgramTyped'
  BY DEF RunPull, PullsHold, ProgramTyped
<1>3. CASE UNCHANGED fieldVars
  BY <1>1, <1>2, <1>3 DEF PullsHold
<1>4. CASE Clear
  BY <1>1, <1>2, <1>4, ClearKeeps DEF PullsHold
<1>5. CASE focusNow # held /\ Install("sampled")
  <2>1. "sampled" \in Ways  BY DEF Ways
  <2>. QED  BY <1>1, <1>2, <1>5, <2>1, InstallKeeps DEF PullsHold
<1>6. CASE (Refresh \/ UNCHANGED <<heldClass, registry, registered, failures>>) /\ Pulled
  <2>1. /\ held' = held
        /\ Reported(held', announcement', announced', sampledKeys', looked')
    BY <1>6, PulledKeeps
  <2>2. Registered(held', heldClass', registry', registered')
    BY <1>6, <2>1, RefreshKeeps DEF PullsHold
  <2>. QED  BY <1>1, <1>2, <2>1, <2>2 DEF PullsHold
<1>. QED  BY <1>3, <1>4, <1>5, <1>6 DEF RunPull

LEMMA PassKeeps ==
  ASSUME PullsHold, Pass
  PROVE  PullsHold'
<1>. USE DEF pullVars, fieldVars, programVars
<1>1. PullTimes'
  <2>1. /\ PullTimes /\ Hold \in Nat /\ Hush \in Nat /\ SettleSpan \in Nat /\ Hush <= Hold
    BY PullSpans DEF PullsHold
  <2>2. /\ ~submitDue /\ submitDue' = submitDue
        /\ settleIn' = IF settleIn > 0 THEN settleIn - 1 ELSE settleIn
        /\ unreadKeys' = IF unreadKeys = Never THEN unreadKeys ELSE unreadKeys + 1
        /\ burst' = IF burst = Idle THEN burst
                    ELSE [first |-> burst.first + 1, last |-> burst.last + 1]
    BY DEF Pass, PullDue
  <2>3. CASE burst = Idle
    BY <2>1, <2>2, <2>3 DEF PullTimes, Never
  <2>4. CASE burst # Idle
    <3>. DEFINE f == burst.first
                l == burst.last
    <3>1. f \in 0..Hold /\ l \in 0..Hold /\ f < Hold /\ l < Hush
      BY <2>1, <2>4 DEF PullTimes, Pass, PullDue, BurstDue
    <3>2. burst' = [first |-> f + 1, last |-> l + 1] /\ unreadKeys <= f
      BY <2>1, <2>2, <2>4 DEF PullTimes
    <3>. HIDE DEF f, l
    <3>3. burst' \in [first : 0..Hold, last : 0..Hold] /\ burst' # Idle /\ burst'.first = f + 1
      BY <2>1, <3>1, <3>2 DEF Idle
    <3>. QED  BY <2>1, <2>2, <3>1, <3>2, <3>3 DEF PullTimes, Never
  <2>. QED  BY <2>3, <2>4
<1>. QED  BY <1>1 DEF Pass, PullsHold, ProgramTyped

LEMMA PullsStep == PullsHold /\ [PullsNext]_pullsVars => PullsHold'
<1>. SUFFICES ASSUME PullsHold, [PullsNext]_pullsVars PROVE PullsHold'  OBVIOUS
<1>1. CASE UNCHANGED pullsVars
  BY <1>1 DEF PullsHold, ProgramTyped, PullTimes, pullsVars, pullVars, fieldVars, programVars
<1>2. CASE PullsNext
  BY <1>2, ProgramFocusesKeeps, ProgramReclassifiesKeeps, ProgramChangesValueKeeps,
     TakePostedKeeps, ReactivatedKeeps, InputArrivesKeeps, SubmitArrivesKeeps, RunPullKeeps,
     PassKeeps
     DEF PullsNext
<1>. QED  BY <1>1, <1>2

LEMMA PullsSafe == PullsHold => PullsTypeOK /\ ReadInTime /\ HeldFieldIsHeard
<1>. SUFFICES ASSUME PullsHold PROVE PullsTypeOK /\ ReadInTime /\ HeldFieldIsHeard  OBVIOUS
<1>1. PullsTypeOK
  BY DEF PullsHold, ProgramTyped, PullTimes, Registered, Reported, PullsTypeOK,
         Places, FieldKinds, Registrations, Ways
<1>2. ReadInTime
  BY PullSpans DEF PullsHold, PullTimes, ReadInTime, Never
<1>3. HeldFieldIsHeard
  BY DEF PullsHold, Registered, Reported, HeldFieldIsHeard
<1>. QED  BY <1>1, <1>2, <1>3

\* Whatever the program focuses, posts and reclassifies, whichever calls fail
\* and however the inputs follow each other: no key waits longer than the hold
\* for a read, a held text field is heard, no other is, and what a pull saw was
\* reported, by pulls at most once (input_pull.rs, focus_pull.rs, observer.rs).
THEOREM FieldsAreHeard == CaptureSpec => []FieldsHeard
<1>. DEFINE Inv == part = "pulls" => PullsHold
<1>1. CaptureInit => Inv
  BY PullsStart DEF CaptureInit
<1>2. Inv /\ [CaptureNext]_captureVars => Inv'
  <2>. SUFFICES ASSUME Inv, [CaptureNext]_captureVars, part' = "pulls" PROVE PullsHold'
    OBVIOUS
  <2>1. part = "pulls"  BY DEF CaptureNext, captureVars
  <2>2. [PullsNext]_pullsVars  BY <2>1 DEF CaptureNext, captureVars
  <2>. QED  BY <2>1, <2>2, PullsStep
<1>3. Inv => FieldsHeard
  BY PullsSafe DEF FieldsHeard
<1>. QED  BY <1>1, <1>2, <1>3, PTL DEF CaptureSpec

-----------------------------------------------------------------------------
(* EventTap: the tap comes back, authorizations settle, bodies stay where   *)
(* they were read.                                                          *)

Spots == Panes \union {Nobody}
Refusals == {"nothing", "enabling", "creating"}
Turns == {"top", "run", "handle", "ended"}
Combos == {"type", "copy", "paste"}
Taps == [tap : {"on", "off", "none"}, state : {"enabled", "degraded"}, wait : 0..RetrySpan]

KeyNotes == [kind : {"key"}, key : Nat, combo : Combos, target : KeyTargets,
             secure : BOOLEAN, place : Nat, window : Spots]
KeyReads == [kind : {"key"}, key : Nat, combo : Combos, target : KeyTargets,
             secure : BOOLEAN, place : Nat, window : Spots, read : BOOLEAN]
TapNotes == [kind : {"pointer", "disabled"}] \union KeyNotes \union KeyReads

TapTyped ==
  /\ refusing \in Refusals
  /\ asleep \in BOOLEAN /\ secureNow \in BOOLEAN /\ secureSeen \in BOOLEAN
  /\ turn \in Turns
  /\ front \in Spots /\ open \subseteq Spots
  /\ board \in Nat /\ counted \in 0..board /\ sampled \in 0..board
  /\ place \in Nat /\ pressed \in Nat

\* NeverDeafForLong is not inductive.  A tap that is off although nothing
\* refuses it is either not yet known to be off, and then was deaf no longer
\* than the watchdog slept, or waits for its retry; the pass that starts after
\* the batch starts with neither due.
TapTimes(m, r, d, u, t) ==
  /\ m \in Taps /\ d \in Nat /\ u \in Nat
  /\ m.state = "enabled" => m.tap # "none" /\ d <= u
  /\ m.state = "degraded" => m.tap # "on" /\ d + m.wait <= RetrySpan
  /\ r # "nothing" \/ m.tap = "on" => d = 0
  /\ u <= WatchSpan
  /\ t \in {"top", "run"} => u < WatchSpan /\ (m.state = "degraded" => m.wait > 0)

\* The keys of a queue come in the order they were pressed, after every key
\* that explained or may explain a copy, and a key of the current focus was
\* pressed in the current window.
Follows(q, n, here, pane, spoken, last) ==
  \A i \in DOMAIN q : q[i].kind = "key" =>
    /\ q[i].key \in 1..n /\ last < q[i].key
    /\ \A key \in spoken : key < q[i].key
    /\ q[i].place <= here /\ (q[i].place = here => q[i].window = pane)
    /\ \A j \in DOMAIN q : j < i /\ q[j].kind = "key" => q[j].key < q[i].key

TapQueues ==
  /\ notices \in Seq(TapNotes) /\ Len(notices) <= QueueLimit
  /\ batch \in Seq(TapNotes) /\ Len(batch) <= QueueLimit
  /\ turn # "run" => notices = <<>>
  /\ turn # "handle" => batch = <<>>

Intents(it, spoken, n) ==
  it = NoIntent \/ /\ it \in [key : 1..n, window : Spots, place : Nat,
                              age : 0..CopySpan + 1, open : BOOLEAN]
                   /\ \A key \in spoken : key < it.key

KeysOf(q) == {q[i].key : i \in {j \in DOMAIN q : q[j].kind = "key"}}

\* AuthorizationsSettle is not inductive: what still waits is a key of the
\* queue, then of the batch.
Settling(w, c, s, n, t, q, b) ==
  /\ w \subseteq 1..n /\ c \subseteq 1..n /\ s \subseteq 1..n
  /\ w \intersect c = {}
  /\ t = "top" => w = {}
  /\ t = "run" => w \subseteq KeysOf(q)
  /\ t = "handle" => w \subseteq KeysOf(b)

TapHold ==
  /\ TapTyped
  /\ TapTimes(machine, refusing, deaf, unwatched, turn)
  /\ TapQueues
  /\ Follows(notices, pressed, place, front, used, intent.key)
  /\ Follows(batch, pressed, place, front, used, intent.key)
  /\ Intents(intent, used, pressed)
  /\ Settling(waiting, confirmed, used, pressed, turn, notices, batch)
  /\ BodiesStayInPlace

LEMMA TapSpans ==
  /\ QueueLimit \in Nat /\ CopySpan \in Nat /\ RetrySpan \in Nat /\ WatchSpan \in Nat
  /\ QueueLimit > 0 /\ RetrySpan > 0 /\ WatchSpan > 0
  /\ Nobody \notin Panes
<1>1. /\ QueueLimit \in Nat \ {0} /\ CopySpan \in Nat \ {0}
      /\ RetrySpan \in Nat \ {0} /\ WatchSpan \in Nat \ {0} /\ Nobody \notin Panes
  BY EventTapAssumption
<1>. QED  BY <1>1

\* What the lifecycle's operators return.
LEMMA MachinesFit ==
  /\ Working("on") \in Taps /\ Working("on").tap = "on" /\ Working("on").state = "enabled"
  /\ \A tap \in {"off", "none"} :
       /\ Broken(tap) \in Taps /\ Broken(tap).tap = tap
       /\ Broken(tap).state = "degraded" /\ Broken(tap).wait = RetrySpan
BY TapSpans DEF Working, Broken, Taps

\* A new tap works unless the system refuses; otherwise it waits a whole retry.
Renewed(m, r) ==
  /\ m \in Taps
  /\ r = "nothing" => m.tap = "on" /\ m.state = "enabled"
  /\ r # "nothing" => m.tap # "on" /\ m.state = "degraded" /\ m.wait = RetrySpan

LEMMA RecreatedFits ==
  ASSUME refusing \in Refusals
  PROVE  Renewed(Recreated, refusing)
<1>1. CASE refusing = "nothing"
  <2>1. Recreated = Working("on")  BY <1>1 DEF Recreated
  <2>. QED  BY <1>1, <2>1, MachinesFit DEF Renewed
<1>2. CASE refusing = "enabling"
  <2>1. Recreated = Broken("off")  BY <1>2 DEF Recreated
  <2>. QED  BY <1>2, <2>1, MachinesFit DEF Renewed
<1>3. CASE refusing = "creating"
  <2>1. Recreated = Broken("none")  BY <1>3 DEF Recreated
  <2>. QED  BY <1>3, <2>1, MachinesFit DEF Renewed
<1>. QED  BY <1>1, <1>2, <1>3 DEF Refusals

\* A known machine that is switched on again works, unless the system refuses.
LEMMA ReenabledFits ==
  ASSUME refusing \in Refusals, NEW m \in Taps
  PROVE  /\ Reenabled(m) \in Taps
         /\ Reenabled(m) = Working("on") \/ Renewed(Reenabled(m), refusing)
         /\ refusing = "nothing" => Reenabled(m).tap = "on"
<1>1. CASE m.tap = "on" \/ (m.tap = "off" /\ refusing = "nothing")
  <2>1. Reenabled(m) = Working("on")  BY <1>1 DEF Reenabled
  <2>. QED  BY <2>1, MachinesFit
<1>2. CASE ~(m.tap = "on" \/ (m.tap = "off" /\ refusing = "nothing"))
  <2>1. Reenabled(m) = Recreated  BY <1>2 DEF Reenabled
  <2>. QED  BY <2>1, RecreatedFits DEF Renewed
<1>. QED  BY <1>1, <1>2

\* Any of these machines keeps the tap's times when it takes over: what works
\* is no longer deaf, what is broken now was refused and so was not deaf.
LEMMA TakesOver ==
  ASSUME NEW m, NEW r, NEW d, NEW u, NEW t, NEW next, NEW v, NEW w,
         TapTimes(m, r, d, u, t),
         next = Working("on") \/ Renewed(next, r),
         v \in Nat, v <= WatchSpan, w \in {"top", "run"} => v < WatchSpan
  PROVE  TapTimes(next, r, IF next.tap = "on" THEN 0 ELSE d, v, w)
<1>1. d \in Nat /\ (r # "nothing" => d = 0)  BY DEF TapTimes
<1>2. CASE next.tap = "on"
  <2>1. next \in Taps /\ next.state = "enabled"
    BY <1>2, MachinesFit DEF Renewed
  <2>. QED  BY <1>2, <2>1 DEF TapTimes
<1>3. CASE next.tap # "on"
  <2>1. /\ next \in Taps /\ next.state = "degraded" /\ next.wait = RetrySpan
        /\ r # "nothing" /\ d = 0
    BY <1>1, <1>3, MachinesFit DEF Renewed
  <2>. QED  BY <1>3, <2>1, TapSpans DEF TapTimes
<1>. QED  BY <1>2, <1>3

-----------------------------------------------------------------------------
(* Facts about the queues. *)

LEMMA NoneFollow ==
  ASSUME NEW n, NEW here, NEW pane, NEW spoken, NEW last
  PROVE  Follows(<<>>, n, here, pane, spoken, last)
BY DEF Follows

LEMMA TailFollows ==
  ASSUME NEW q \in Seq(TapNotes), q # <<>>,
         NEW n, NEW here, NEW pane, NEW spoken, NEW last,
         Follows(q, n, here, pane, spoken, last)
  PROVE  /\ Follows(Tail(q), n, here, pane, spoken, last)
         /\ Head(q).kind = "key" =>
              /\ Head(q).key \in 1..n /\ last < Head(q).key
              /\ \A key \in spoken : key < Head(q).key
              /\ Head(q).place = here => Head(q).window = pane
              /\ Follows(Tail(q), n, here, pane, spoken, Head(q).key)
<1>1. /\ Len(q) \in Nat /\ Len(q) > 0 /\ DOMAIN q = 1..Len(q) /\ Head(q) = q[1]
      /\ DOMAIN Tail(q) = 1..(Len(q) - 1)
      /\ \A i \in DOMAIN Tail(q) : i + 1 \in DOMAIN q /\ Tail(q)[i] = q[i + 1]
  OBVIOUS
<1>. DEFINE s == Tail(q)
<1>2. \A i \in DOMAIN s : i \in Nat /\ i + 1 \in DOMAIN q /\ s[i] = q[i + 1] /\ 1 < i + 1
  BY <1>1
<1>3. 1 \in DOMAIN q /\ Head(q) = q[1] /\ DOMAIN q \subseteq Nat  BY <1>1
<1>. HIDE DEF s
<1>4. Follows(s, n, here, pane, spoken, last)
  BY <1>2, <1>3 DEF Follows
<1>5. ASSUME Head(q).kind = "key"
      PROVE  /\ Head(q).key \in 1..n /\ last < Head(q).key
             /\ \A key \in spoken : key < Head(q).key
             /\ Head(q).place = here => Head(q).window = pane
             /\ Follows(s, n, here, pane, spoken, Head(q).key)
  BY <1>2, <1>3, <1>5 DEF Follows
<1>. QED  BY <1>4, <1>5 DEF s

LEMMA TailKeys ==
  ASSUME NEW q \in Seq(TapNotes), q # <<>>
  PROVE  /\ Tail(q) \in Seq(TapNotes) /\ Len(Tail(q)) = Len(q) - 1
         /\ Head(q) \in TapNotes
         /\ \A key \in KeysOf(q) :
              key \in KeysOf(Tail(q)) \/ (Head(q).kind = "key" /\ key = Head(q).key)
<1>1. /\ Len(q) \in Nat /\ Len(q) > 0 /\ DOMAIN q = 1..Len(q) /\ Head(q) = q[1]
      /\ DOMAIN Tail(q) = 1..(Len(q) - 1)
      /\ \A i \in DOMAIN Tail(q) : Tail(q)[i] = q[i + 1]
      /\ Tail(q) \in Seq(TapNotes) /\ Len(Tail(q)) = Len(q) - 1 /\ Head(q) \in TapNotes
  OBVIOUS
<1>2. ASSUME NEW key \in KeysOf(q)
      PROVE  key \in KeysOf(Tail(q)) \/ (Head(q).kind = "key" /\ key = Head(q).key)
  <2>1. PICK i \in DOMAIN q : q[i].kind = "key" /\ key = q[i].key  BY <1>2 DEF KeysOf
  <2>2. CASE i = 1  BY <1>1, <2>1, <2>2
  <2>3. CASE i # 1
    <3>1. i - 1 \in DOMAIN Tail(q) /\ Tail(q)[i - 1] = q[i]
      BY <1>1, <2>3
    <3>. QED  BY <2>1, <3>1 DEF KeysOf
  <2>. QED  BY <2>2, <2>3
<1>. QED  BY <1>1, <1>2

\* What the next change of the clipboard, or the next intent, leaves behind.
LEMMA FollowsOn ==
  ASSUME NEW q \in Seq(TapNotes), NEW n \in Nat, NEW here, NEW pane, NEW spoken, NEW last,
         Follows(q, n, here, pane, spoken, last),
         NEW more, \A key \in more : key \in spoken \/ key = last
  PROVE  Follows(q, n, here, pane, more, 0)
<1>1. DOMAIN q \subseteq Nat  OBVIOUS
<1>. QED  BY <1>1 DEF Follows

\* A focus that moves leaves the queued keys behind it.
LEMMA FollowsBehind ==
  ASSUME NEW q \in Seq(TapNotes), NEW n \in Nat, NEW here \in Nat, NEW pane, NEW spoken, NEW last,
         Follows(q, n, here, pane, spoken, last), NEW next
  PROVE  Follows(q, n, here + 1, next, spoken, last)
<1>1. \A i \in DOMAIN q : q[i].kind = "key" => q[i].place \in Nat
  BY DEF TapNotes, KeyNotes, KeyReads
<1>. QED  BY <1>1 DEF Follows

\* An event that may be queued next: if it is a key, the newest of all, of the
\* current focus.
Newest(e, n, m, here, pane) ==
  e.kind = "key" => e.key \in (n + 1)..m /\ e.place = here /\ e.window = pane

\* A queued event comes last.
LEMMA AppendFollows ==
  ASSUME NEW q \in Seq(TapNotes), NEW n \in Nat, NEW m \in Nat, n <= m, NEW here \in Nat, NEW pane,
         NEW spoken \in SUBSET (1..n), NEW last \in 0..n,
         Follows(q, n, here, pane, spoken, last), NEW e \in TapNotes,
         Newest(e, n, m, here, pane)
  PROVE  /\ Append(q, e) \in Seq(TapNotes) /\ Len(Append(q, e)) = Len(q) + 1
         /\ Follows(Append(q, e), m, here, pane, spoken, last)
         /\ KeysOf(q) \subseteq KeysOf(Append(q, e))
         /\ e.kind = "key" => e.key \in KeysOf(Append(q, e))
<1>. DEFINE s == Append(q, e)
<1>1. /\ Len(q) \in Nat /\ DOMAIN q = 1..Len(q) /\ DOMAIN s = 1..(Len(q) + 1)
      /\ \A i \in DOMAIN q : i \in DOMAIN s /\ s[i] = q[i]
      /\ s[Len(q) + 1] = e
      /\ s \in Seq(TapNotes) /\ Len(s) = Len(q) + 1
  OBVIOUS
<1>2. \A i \in DOMAIN s : i \in Nat /\ ((i \in DOMAIN q /\ s[i] = q[i]) \/ (i = Len(q) + 1 /\ s[i] = e))
  BY <1>1
<1>. HIDE DEF s
<1>3. Follows(s, m, here, pane, spoken, last)
  <2>1. SUFFICES ASSUME NEW i \in DOMAIN s, s[i].kind = "key"
                 PROVE  /\ s[i].key \in 1..m /\ last < s[i].key
                        /\ \A key \in spoken : key < s[i].key
                        /\ s[i].place <= here /\ (s[i].place = here => s[i].window = pane)
                        /\ \A j \in DOMAIN s : j < i /\ s[j].kind = "key" => s[j].key < s[i].key
    BY DEF Follows
  <2>2. CASE i \in DOMAIN q /\ s[i] = q[i]
    <3>1. \A j \in DOMAIN s : j < i => j \in DOMAIN q /\ s[j] = q[j]
      BY <1>1, <2>2
    <3>2. /\ q[i].key \in 1..n /\ last < q[i].key
          /\ \A key \in spoken : key < q[i].key
          /\ q[i].place <= here /\ (q[i].place = here => q[i].window = pane)
          /\ \A j \in DOMAIN q : j < i /\ q[j].kind = "key" => q[j].key < q[i].key
      BY <2>1, <2>2 DEF Follows
    <3>3. q[i].key \in 1..m  BY <3>2
    <3>4. \A j \in DOMAIN s : j < i /\ s[j].kind = "key" => s[j].key < s[i].key
      BY <2>2, <3>1, <3>2
    <3>. QED  BY <2>2, <3>2, <3>3, <3>4
  <2>3. CASE i = Len(q) + 1 /\ s[i] = e
    <3>1. /\ s[i].key \in (n + 1)..m /\ s[i].place = here /\ s[i].window = pane
      BY <2>1, <2>3 DEF Newest
    <3>2. \A j \in DOMAIN s : j < i => j \in DOMAIN q /\ s[j] = q[j]
      BY <1>1, <2>3
    <3>3. \A j \in DOMAIN s : j < i /\ s[j].kind = "key" => s[j].key \in 1..n
      BY <3>2 DEF Follows
    <3>. QED  BY <3>1, <3>3
  <2>. QED  BY <1>2, <2>2, <2>3
<1>4. KeysOf(q) \subseteq KeysOf(s)
  <2>1. SUFFICES ASSUME NEW key \in KeysOf(q) PROVE key \in KeysOf(s)  OBVIOUS
  <2>2. PICK i \in DOMAIN q : q[i].kind = "key" /\ key = q[i].key  BY DEF KeysOf
  <2>. QED  BY <1>1, <2>2 DEF KeysOf
<1>5. e.kind = "key" => e.key \in KeysOf(s)
  <2>1. Len(q) + 1 \in DOMAIN s  BY <1>1
  <2>. QED  BY <1>1, <2>1 DEF KeysOf
<1>. QED  BY <1>1, <1>3, <1>4, <1>5 DEF s

-----------------------------------------------------------------------------
(* The clipboard. *)

\* A step that records nothing.
LEMMA RecordsNothing ==
  ASSUME out' = NoRecord
  PROVE  BodiesStayInPlace' /\ OneCopyPerShortcut
BY DEF NoRecord, BodiesStayInPlace, OneCopyPerShortcut

\* A change of the pasteboard spends the intent, and what it records is
\* where the intent was and still is.
LEMMA ChangeTaken ==
  ASSUME TapHold, NEW count, NEW secure \in BOOLEAN, TakeChange(count, secure),
         place' = place, front' = front, open' = open, secureSeen' = secure
  PROVE  /\ counted' = count /\ intent' = NoIntent /\ intent'.key = 0
         /\ used' \subseteq 1..pressed
         /\ \A key \in used' : key \in used \/ key = intent.key
         /\ BodiesStayInPlace' /\ OneCopyPerShortcut
<1>1. /\ counted' = count /\ intent' = NoIntent /\ intent'.key = 0
      /\ used' = used \union Naming(CopyRecord(secure)) /\ out' = CopyRecord(secure)
  BY DEF TakeChange, NoIntent
<1>2. /\ used \subseteq 1..pressed /\ pressed \in Nat
      /\ Intents(intent, used, pressed)
  BY DEF TapHold, TapTyped, Settling
<1>3. CASE ~Matched
  <2>1. CopyRecord(secure) = [kind |-> "copy", key |-> 0, text |-> FALSE]
    BY <1>3 DEF CopyRecord
  <2>2. Naming(CopyRecord(secure)) = {}  BY <2>1 DEF Naming
  <2>3. out'.text = FALSE /\ out'.key = 0 /\ used' = used  BY <1>1, <2>1, <2>2
  <2>4. BodiesStayInPlace'  BY <2>3 DEF BodiesStayInPlace
  <2>5. OneCopyPerShortcut
    <3>1. 0 \notin used  BY <1>2
    <3>. QED  BY <2>3, <3>1 DEF OneCopyPerShortcut
  <2>. QED  BY <1>1, <1>2, <2>3, <2>4, <2>5
<1>4. CASE Matched
  <2>1. /\ intent # NoIntent /\ intent.place = place /\ intent.window = front
        /\ intent.age <= CopySpan
    BY <1>4 DEF Matched, SameTarget
  <2>2. /\ intent.key \in 1..pressed /\ intent.open \in BOOLEAN
        /\ \A key \in used : key < intent.key
    BY <1>2, <2>1 DEF Intents
  <2>3. CASE intent.window = Nobody
    <3>1. CopyRecord(secure) = NoRecord  BY <1>4, <2>3 DEF CopyRecord
    <3>2. Naming(CopyRecord(secure)) = {}  BY <3>1 DEF Naming, NoRecord
    <3>. QED  BY <1>1, <1>2, <3>1, <3>2, RecordsNothing
  <2>4. CASE intent.window # Nobody
    <3>1. CopyRecord(secure) =
            [kind |-> "copy", key |-> intent.key, window |-> intent.window,
             place |-> intent.place, age |-> intent.age, begun |-> intent.open,
             text |-> ~secure /\ intent.open /\ intent.window \in open]
      BY <1>4, <2>4 DEF CopyRecord
    <3>2. /\ out'.kind = "copy" /\ out'.key = intent.key /\ out'.window = intent.window
          /\ out'.place = intent.place /\ out'.age = intent.age /\ out'.begun = intent.open
          /\ out'.text = (~secure /\ intent.open /\ intent.window \in open)
      BY <1>1, <3>1
    <3>3. used' = used \union {intent.key}
      BY <1>1, <2>2, <3>1 DEF Naming
    <3>4. BodiesStayInPlace'
      BY <2>1, <3>2 DEF BodiesStayInPlace
    <3>5. OneCopyPerShortcut
      BY <2>2, <3>2 DEF OneCopyPerShortcut
    <3>. QED  BY <1>1, <1>2, <2>2, <3>3, <3>4, <3>5
  <2>. QED  BY <2>3, <2>4
<1>. QED  BY <1>3, <1>4

\* What the queues and the intents make of a change.
LEMMA ChangeFollowed ==
  ASSUME TapHold, NEW count, NEW secure \in BOOLEAN, TakeChange(count, secure),
         place' = place, front' = front, open' = open, secureSeen' = secure,
         pressed' = pressed, notices' = notices, batch' = batch
  PROVE  /\ Follows(notices, pressed, place, front, used, intent.key)'
         /\ Follows(batch, pressed, place, front, used, intent.key)'
         /\ Intents(intent, used, pressed)'
<1>1. /\ intent' = NoIntent /\ intent'.key = 0
      /\ \A key \in used' : key \in used \/ key = intent.key
  BY ChangeTaken
<1>2. /\ notices \in Seq(TapNotes) /\ batch \in Seq(TapNotes) /\ pressed \in Nat
      /\ Follows(notices, pressed, place, front, used, intent.key)
      /\ Follows(batch, pressed, place, front, used, intent.key)
  BY DEF TapHold, TapQueues, TapTyped
<1>3. /\ Follows(notices, pressed, place, front, used', 0)
      /\ Follows(batch, pressed, place, front, used', 0)
  BY <1>1, <1>2, FollowsOn
<1>4. Intents(intent', used', pressed')  BY <1>1 DEF Intents
<1>. QED  BY <1>1, <1>3, <1>4

LEMMA BeforeEventsKeeps ==
  ASSUME TapHold, BeforeEvents
  PROVE  TapHold' /\ OneCopyPerShortcut
<1>. USE DEF surroundings, clipboard, keys
<1>1. /\ turn = "top" /\ turn' = "run" /\ secureSeen' = secureNow
      /\ UNCHANGED <<machine, asleep, notices, batch, sampled, unwatched, deaf, pressed,
                     waiting, confirmed, refusing, secureNow, place, front, open, board>>
  BY DEF BeforeEvents
<1>2. TapTimes(machine, refusing, deaf, unwatched, turn)'
  BY <1>1 DEF TapHold, TapTimes
<1>3. TapQueues'
  BY <1>1 DEF TapHold, TapQueues
<1>4. secureNow \in BOOLEAN /\ board \in Nat /\ notices = <<>> /\ batch = <<>>
  BY <1>1 DEF TapHold, TapTyped, TapQueues
<1>5. CASE board # counted
  <2>1. TakeChange(board, secureNow)  BY <1>5 DEF BeforeEvents
  <2>2. /\ counted' = board /\ used' \subseteq 1..pressed
        /\ BodiesStayInPlace' /\ OneCopyPerShortcut
    BY <1>1, <1>4, <2>1, ChangeTaken
  <2>3. /\ Follows(notices, pressed, place, front, used, intent.key)'
        /\ Follows(batch, pressed, place, front, used, intent.key)'
        /\ Intents(intent, used, pressed)'
    BY <1>1, <1>4, <2>1, ChangeFollowed
  <2>4. TapTyped'
    BY <1>1, <1>4, <2>2 DEF TapHold, TapTyped, Turns
  <2>5. Settling(waiting, confirmed, used, pressed, turn, notices, batch)'
    BY <1>1, <2>2 DEF TapHold, Settling
  <2>. QED  BY <1>2, <1>3, <2>2, <2>3, <2>4, <2>5 DEF TapHold
<1>6. CASE board = counted
  <2>1. out' = NoRecord /\ UNCHANGED <<counted, intent, used>>  BY <1>6 DEF BeforeEvents
  <2>2. BodiesStayInPlace' /\ OneCopyPerShortcut  BY <2>1, RecordsNothing
  <2>3. TapTyped'
    BY <1>1, <2>1 DEF TapHold, TapTyped, Turns
  <2>4. Settling(waiting, confirmed, used, pressed, turn, notices, batch)'
    BY <1>1, <2>1 DEF TapHold, Settling
  <2>. QED  BY <1>1, <1>2, <1>3, <2>1, <2>2, <2>3, <2>4 DEF TapHold
<1>. QED  BY <1>5, <1>6

\* An input that the callback queues or loses.
LEMMA InputQueued ==
  ASSUME TapHold, NEW e \in TapNotes, Queued(e), NEW m \in Nat, pressed <= m,
         Newest(e, pressed, m, place, front)
  PROVE  /\ notices' \in Seq(TapNotes) /\ Len(notices') <= QueueLimit
         /\ Follows(notices', m, place, front, used, intent.key)
         /\ KeysOf(notices) \subseteq KeysOf(notices')
         /\ e.kind = "key" /\ Len(notices) < QueueLimit => e.key \in KeysOf(notices')
<1>1. /\ notices \in Seq(TapNotes) /\ Len(notices) <= QueueLimit
      /\ Follows(notices, pressed, place, front, used, intent.key)
      /\ pressed \in Nat /\ place \in Nat /\ used \in SUBSET (1..pressed)
      /\ QueueLimit \in Nat
  BY TapSpans DEF TapHold, TapQueues, TapTyped, Settling
<1>2. intent.key \in 0..pressed
  BY <1>1 DEF TapHold, Intents, NoIntent
<1>3. CASE Len(notices) < QueueLimit
  <2>1. notices' = Append(notices, e)  BY <1>3 DEF Queued
  <2>2. /\ Append(notices, e) \in Seq(TapNotes) /\ Len(Append(notices, e)) = Len(notices) + 1
        /\ Follows(Append(notices, e), m, place, front, used, intent.key)
        /\ KeysOf(notices) \subseteq KeysOf(Append(notices, e))
        /\ e.kind = "key" => e.key \in KeysOf(Append(notices, e))
    BY <1>1, <1>2, AppendFollows
  <2>3. Len(notices) \in Nat  BY <1>1
  <2>4. Len(notices') <= QueueLimit
    <3>1. Len(notices') = Len(notices) + 1  BY <2>1, <2>2
    <3>. QED  BY <1>1, <1>3, <2>3, <3>1
  <2>. QED  BY <2>1, <2>2, <2>4
<1>4. CASE ~(Len(notices) < QueueLimit)
  <2>1. notices' = notices  BY <1>4 DEF Queued
  <2>2. Follows(notices, m, place, front, used, intent.key)
    BY <1>1 DEF Follows
  <2>. QED  BY <1>1, <1>4, <2>1, <2>2
<1>. QED  BY <1>3, <1>4

\* What an input leaves of the rest, whether its authorization waits or not.
LEMMA InputKeeps ==
  ASSUME TapHold, turn = "run", NEW e \in TapNotes, Queued(e),
         Newest(e, pressed, pressed + 1, place, front),
         pressed' = pressed + 1,
         waiting' = waiting
           \/ /\ waiting' = waiting \union {pressed + 1}
              /\ e.kind = "key" /\ Len(notices) < QueueLimit,
         out' = NoRecord,
         UNCHANGED <<machine, asleep, batch, turn, secureSeen, sampled, unwatched, deaf,
                     confirmed, counted, intent, used,
                     refusing, secureNow, place, front, open, board>>
  PROVE  TapHold' /\ OneCopyPerShortcut
<1>1. /\ notices' \in Seq(TapNotes) /\ Len(notices') <= QueueLimit
      /\ Follows(notices', pressed + 1, place, front, used, intent.key)
      /\ KeysOf(notices) \subseteq KeysOf(notices')
      /\ e.kind = "key" /\ Len(notices) < QueueLimit => e.key \in KeysOf(notices')
  <2>1. pressed + 1 \in Nat /\ pressed <= pressed + 1
    BY DEF TapHold, TapTyped
  <2>. QED  BY <2>1, InputQueued
<1>2. BodiesStayInPlace' /\ OneCopyPerShortcut  BY RecordsNothing
<1>3. pressed \in Nat  BY DEF TapHold, TapTyped
<1>4. TapTyped'  BY <1>3 DEF TapHold, TapTyped
<1>5. TapTimes(machine, refusing, deaf, unwatched, turn)'  BY DEF TapHold
<1>6. TapQueues'  BY <1>1 DEF TapHold, TapQueues
<1>7. Follows(batch, pressed, place, front, used, intent.key)'
  <2>1. batch' = <<>>  BY DEF TapHold, TapQueues
  <2>. QED  BY <2>1, NoneFollow
<1>8. Intents(intent, used, pressed)'
  BY <1>3 DEF TapHold, Intents
<1>9. Settling(waiting, confirmed, used, pressed, turn, notices, batch)'
  <2>1. /\ waiting \subseteq 1..pressed /\ confirmed \subseteq 1..pressed
        /\ used \subseteq 1..pressed
        /\ waiting \intersect confirmed = {} /\ waiting \subseteq KeysOf(notices)
    BY DEF TapHold, Settling
  <2>2. /\ waiting' \subseteq 1..(pressed + 1) /\ confirmed' \subseteq 1..(pressed + 1)
        /\ used' \subseteq 1..(pressed + 1)
        /\ waiting' \intersect confirmed' = {}
    <3>1. 1..pressed \subseteq 1..(pressed + 1) /\ pressed + 1 \in 1..(pressed + 1)
      BY <1>3
    <3>2. pressed + 1 \notin confirmed  BY <1>3, <2>1
    <3>. QED  BY <2>1, <3>1, <3>2
  <2>3. waiting' \subseteq KeysOf(notices')
    <3>1. e.kind = "key" => e.key = pressed + 1  BY <1>3 DEF Newest
    <3>. QED  BY <1>1, <2>1, <3>1
  <2>. QED  BY <2>2, <2>3 DEF Settling
<1>. QED  BY <1>1, <1>2, <1>4, <1>5, <1>6, <1>7, <1>8, <1>9 DEF TapHold

LEMMA KeyArrivesKeeps ==
  ASSUME TapHold, KeyArrives
  PROVE  TapHold' /\ OneCopyPerShortcut
<1>1. PICK combo \in Combos, aim \in KeyTargets :
        /\ turn = "run"
        /\ pressed' = pressed + 1
        /\ Queued([kind |-> "key", key |-> pressed + 1, combo |-> combo, target |-> aim,
                   secure |-> secureNow, place |-> place, window |-> front])
        /\ waiting' = IF MayReserve(aim) /\ Len(notices) < QueueLimit
                      THEN waiting \union {pressed + 1} ELSE waiting
        /\ out' = NoRecord
        /\ UNCHANGED <<machine, asleep, batch, turn, secureSeen, sampled, unwatched, deaf,
                       confirmed, counted, intent, used,
                       refusing, secureNow, place, front, open, board>>
  BY DEF KeyArrives, Combos, clipboard, surroundings
<1>. DEFINE e == [kind |-> "key", key |-> pressed + 1, combo |-> combo, target |-> aim,
                  secure |-> secureNow, place |-> place, window |-> front]
<1>2. /\ e \in TapNotes /\ e.kind = "key" /\ e.key = pressed + 1
      /\ Newest(e, pressed, pressed + 1, place, front)
  BY DEF TapHold, TapTyped, TapNotes, KeyNotes, Newest
<1>3. Queued(e)  BY <1>1
<1>4. waiting' = waiting
        \/ (waiting' = waiting \union {pressed + 1} /\ Len(notices) < QueueLimit)
  BY <1>1
<1>. HIDE DEF e
<1>. QED  BY <1>1, <1>2, <1>3, <1>4, InputKeeps

LEMMA PointerArrivesKeeps ==
  ASSUME TapHold, PointerArrives
  PROVE  TapHold' /\ OneCopyPerShortcut
<1>. DEFINE e == [kind |-> "pointer"]
<1>1. e \in TapNotes /\ e.kind = "pointer" /\ Newest(e, pressed, pressed + 1, place, front)
  BY DEF TapNotes, Newest
<1>2. /\ turn = "run" /\ pressed' = pressed + 1 /\ Queued(e) /\ waiting' = waiting
      /\ out' = NoRecord
      /\ UNCHANGED <<machine, asleep, batch, turn, secureSeen, sampled, unwatched, deaf,
                     confirmed, counted, intent, used,
                     refusing, secureNow, place, front, open, board>>
  BY DEF PointerArrives, clipboard, surroundings
<1>. HIDE DEF e
<1>. QED  BY <1>1, <1>2, InputKeeps

LEMMA TapDisabledKeeps ==
  ASSUME TapHold, TapDisabled
  PROVE  TapHold' /\ OneCopyPerShortcut
<1>. DEFINE e == [kind |-> "disabled"]
<1>1. e \in TapNotes /\ e.kind = "disabled" /\ Newest(e, pressed, pressed, place, front)
  BY DEF TapNotes, Newest
<1>2. /\ turn = "run" /\ machine.tap = "on" /\ Queued(e) /\ out' = NoRecord
      /\ machine' = [machine EXCEPT !.tap = "off"]
      /\ UNCHANGED <<asleep, batch, turn, secureSeen, sampled, unwatched, deaf,
                     pressed, waiting, confirmed, counted, intent, used,
                     refusing, secureNow, place, front, open, board>>
  BY DEF TapDisabled, clipboard, keys
<1>. HIDE DEF e
<1>3. pressed \in Nat  BY DEF TapHold, TapTyped
<1>4. /\ notices' \in Seq(TapNotes) /\ Len(notices') <= QueueLimit
      /\ Follows(notices', pressed, place, front, used, intent.key)
      /\ KeysOf(notices) \subseteq KeysOf(notices')
  BY <1>1, <1>2, <1>3, InputQueued
<1>5. BodiesStayInPlace' /\ OneCopyPerShortcut  BY <1>2, RecordsNothing
<1>6. TapTyped'  BY <1>2 DEF TapHold, TapTyped
<1>7. TapTimes(machine, refusing, deaf, unwatched, turn)'
  <2>1. TapTimes(machine, refusing, deaf, unwatched, turn)  BY DEF TapHold
  <2>2. machine' \in Taps /\ machine'.tap = "off" /\ machine'.state = machine.state
    BY <1>2, <2>1 DEF TapTimes, Taps
  <2>3. machine.state = "enabled" /\ deaf = 0
    BY <1>2, <2>1 DEF TapTimes, Taps
  <2>. QED  BY <1>2, <2>1, <2>2, <2>3 DEF TapTimes
<1>8. TapQueues'  BY <1>2, <1>4 DEF TapHold, TapQueues
<1>9. Settling(waiting, confirmed, used, pressed, turn, notices, batch)'
  BY <1>2, <1>4 DEF TapHold, Settling
<1>. QED  BY <1>2, <1>4, <1>5, <1>6, <1>7, <1>8, <1>9 DEF TapHold

-----------------------------------------------------------------------------
(* The batch. *)

\* Reading the text of a key leaves the key as it is.
LEMMA DecodedFits ==
  ASSUME TapHold, NEW e \in TapNotes
  PROVE  /\ Decoded(e) \in TapNotes /\ Decoded(e).kind = e.kind
         /\ e.kind = "key" => /\ Decoded(e).key = e.key /\ Decoded(e).place = e.place
                              /\ Decoded(e).window = e.window
<1>1. CASE e.kind # "key"
  BY <1>1 DEF Decoded
<1>2. CASE e.kind = "key"
  <2>1. Decoded(e) = [kind |-> "key", key |-> e.key, combo |-> e.combo, target |-> e.target,
                      secure |-> e.secure, place |-> e.place, window |-> e.window,
                      read |-> TextReadable(e)]
    BY <1>2 DEF Decoded
  <2>2. TextReadable(e) \in BOOLEAN  BY DEF TextReadable
  <2>3. e \in KeyNotes \union KeyReads  BY <1>2 DEF TapNotes
  <2>4. /\ e.key \in Nat /\ e.combo \in Combos /\ e.target \in KeyTargets
        /\ e.secure \in BOOLEAN /\ e.place \in Nat /\ e.window \in Spots
    BY <2>3 DEF KeyNotes, KeyReads
  <2>5. Decoded(e) \in KeyReads  BY <2>1, <2>2, <2>4 DEF KeyReads
  <2>. QED  BY <1>2, <2>1, <2>5 DEF TapNotes
<1>. QED  BY <1>1, <1>2

\* The drained queue says the same of the keys.
LEMMA DrainedFits ==
  ASSUME TapHold, NEW b, b = [i \in DOMAIN notices |-> Decoded(notices[i])]
  PROVE  /\ b \in Seq(TapNotes) /\ Len(b) = Len(notices)
         /\ Follows(b, pressed, place, front, used, intent.key)
         /\ KeysOf(b) = KeysOf(notices)
<1>1. /\ notices \in Seq(TapNotes) /\ Len(notices) \in Nat /\ DOMAIN notices = 1..Len(notices)
      /\ \A i \in DOMAIN notices : notices[i] \in TapNotes
      /\ Follows(notices, pressed, place, front, used, intent.key)
  BY DEF TapHold, TapQueues
<1>2. /\ DOMAIN b = DOMAIN notices
      /\ \A i \in DOMAIN notices : b[i] = Decoded(notices[i])
  OBVIOUS
<1>3. \A i \in DOMAIN notices :
        /\ b[i] \in TapNotes /\ b[i].kind = notices[i].kind
        /\ notices[i].kind = "key" =>
             /\ b[i].key = notices[i].key /\ b[i].place = notices[i].place
             /\ b[i].window = notices[i].window
  BY <1>1, <1>2, DecodedFits
<1>4. b \in Seq(TapNotes) /\ Len(b) = Len(notices)
  <2>1. b = [i \in 1..Len(notices) |-> b[i]]  BY <1>1, <1>2
  <2>2. b \in [1..Len(notices) -> TapNotes]  BY <1>1, <1>3, <2>1
  <2>. QED  BY <1>1, <2>2
<1>5. Follows(b, pressed, place, front, used, intent.key)
  BY <1>1, <1>2, <1>3 DEF Follows
<1>6. KeysOf(b) = KeysOf(notices)
  <2>1. \A key : key \in KeysOf(b) <=>
                 \E i \in DOMAIN notices : notices[i].kind = "key" /\ key = notices[i].key
    BY <1>2, <1>3 DEF KeysOf
  <2>2. \A key : key \in KeysOf(notices) <=>
                 \E i \in DOMAIN notices : notices[i].kind = "key" /\ key = notices[i].key
    BY DEF KeysOf
  <2>. QED  BY <2>1, <2>2
<1>. QED  BY <1>4, <1>5, <1>6

LEMMA OneLater ==
  ASSUME NEW d \in Nat, NEW later \in Nat, NEW k \in Nat, NEW r \in Nat,
         later <= d + 1, d + k <= r
  PROVE  later + (k - 1) <= r
OBVIOUS

LEMMA DrainKeeps ==
  ASSUME TapHold, Drain
  PROVE  TapHold' /\ OneCopyPerShortcut
<1>1. /\ turn = "run" /\ turn' = "handle" /\ secureSeen' = secureNow /\ notices' = <<>>
      /\ batch' = [i \in DOMAIN notices |-> Decoded(notices[i])]
      /\ sampled' = board /\ out' = NoRecord
      /\ UNCHANGED <<asleep, counted, used, pressed, waiting, confirmed,
                     refusing, secureNow, place, front, open, board>>
  BY DEF Drain, keys, surroundings
<1>2. /\ batch' \in Seq(TapNotes) /\ Len(batch') = Len(notices)
      /\ Follows(batch', pressed, place, front, used, intent.key)
      /\ KeysOf(batch') = KeysOf(notices)
  BY <1>1, DrainedFits
<1>3. \/ /\ machine' = [machine EXCEPT !.wait = IF @ > 0 THEN @ - 1 ELSE 0]
         /\ unwatched' = Aging(unwatched, WatchSpan)
         /\ deaf' = IF machine.tap # "on" /\ refusing = "nothing"
                    THEN Aging(deaf, WatchSpan + RetrySpan) ELSE 0
         /\ intent' = IF intent = NoIntent THEN intent
                      ELSE [intent EXCEPT !.age = Aging(@, CopySpan)]
      \/ UNCHANGED <<machine, unwatched, deaf, intent>>
  BY DEF Drain
<1>4. BodiesStayInPlace' /\ OneCopyPerShortcut  BY <1>1, RecordsNothing
<1>5. TapTyped'
  BY <1>1 DEF TapHold, TapTyped, Turns
<1>6. TapTimes(machine, refusing, deaf, unwatched, turn)'
  <2>1. TapTimes(machine, refusing, deaf, unwatched, turn)  BY DEF TapHold
  <2>2. CASE UNCHANGED <<machine, unwatched, deaf, intent>>
    BY <1>1, <2>1, <2>2 DEF TapTimes
  <2>3. CASE /\ machine' = [machine EXCEPT !.wait = IF @ > 0 THEN @ - 1 ELSE 0]
             /\ unwatched' = Aging(unwatched, WatchSpan)
             /\ deaf' = IF machine.tap # "on" /\ refusing = "nothing"
                        THEN Aging(deaf, WatchSpan + RetrySpan) ELSE 0
    <3>. DEFINE k == machine.wait
    <3>1. /\ k \in 0..RetrySpan /\ machine \in Taps
          /\ unwatched \in Nat /\ unwatched < WatchSpan /\ deaf \in Nat
          /\ machine.state = "degraded" => k > 0 /\ deaf + k <= RetrySpan
      BY <1>1, <2>1 DEF TapTimes, Taps
    <3>2. machine' = [machine EXCEPT !.wait = IF k > 0 THEN k - 1 ELSE 0]
      BY <2>3
    <3>3. unwatched' = unwatched + 1
      BY <2>3, <3>1, TapSpans DEF Aging
    <3>4. deaf' \in Nat /\ deaf' <= deaf + 1 /\ (refusing # "nothing" \/ machine.tap = "on" => deaf' = 0)
      BY <2>3, <3>1, TapSpans DEF Aging
    <3>. HIDE DEF k
    <3>5. (IF k > 0 THEN k - 1 ELSE 0) \in 0..RetrySpan  BY <3>1, TapSpans
    <3>6. /\ machine' \in Taps /\ machine'.tap = machine.tap /\ machine'.state = machine.state
          /\ machine'.wait = IF k > 0 THEN k - 1 ELSE 0
      BY <3>1, <3>2, <3>5 DEF Taps
    <3>7. machine.state = "enabled" => machine.tap # "none" /\ deaf <= unwatched
      BY <2>1 DEF TapTimes
    <3>8. machine.state = "degraded" => machine.tap # "on"
      BY <2>1 DEF TapTimes
    <3>9. machine'.state = "degraded" => deaf' + machine'.wait <= RetrySpan
      <4>1. SUFFICES ASSUME machine.state = "degraded"
                     PROVE  deaf' + machine'.wait <= RetrySpan
        BY <3>6
      <4>2. machine'.wait = k - 1 /\ k > 0 /\ deaf + k <= RetrySpan  BY <3>1, <3>6, <4>1
      <4>3. k \in Nat /\ deaf \in Nat /\ deaf' \in Nat /\ deaf' <= deaf + 1
        BY <3>1, <3>4, TapSpans
      <4>4. RetrySpan \in Nat  BY TapSpans
      <4>5. deaf' + (k - 1) <= RetrySpan  BY <4>2, <4>3, <4>4, OneLater
      <4>. QED  BY <4>2, <4>5
    <3>10. machine'.state = "enabled" => deaf' <= unwatched'
      BY <3>1, <3>3, <3>4, <3>6, <3>7
    <3>11. unwatched' \in Nat /\ unwatched' <= WatchSpan
      BY <3>1, <3>3, TapSpans
    <3>. QED
      BY <1>1, <3>4, <3>6, <3>7, <3>8, <3>9, <3>10, <3>11 DEF TapTimes
  <2>. QED  BY <1>3, <2>2, <2>3
<1>7. intent'.key = intent.key /\ Intents(intent', used, pressed)
  <2>1. Intents(intent, used, pressed)  BY DEF TapHold
  <2>2. CASE intent' = intent  BY <2>1, <2>2
  <2>3. CASE intent # NoIntent /\ intent' = [intent EXCEPT !.age = Aging(@, CopySpan)]
    <3>. DEFINE a == intent.age
    <3>1. /\ intent \in [key : 1..pressed, window : Spots, place : Nat,
                         age : 0..CopySpan + 1, open : BOOLEAN]
          /\ a \in 0..CopySpan + 1
      BY <2>1, <2>3 DEF Intents
    <3>2. Aging(a, CopySpan) \in 0..CopySpan + 1
      BY <3>1, TapSpans DEF Aging
    <3>3. intent' = [intent EXCEPT !.age = Aging(a, CopySpan)]  BY <2>3
    <3>. HIDE DEF a
    <3>4. /\ intent'.key = intent.key
          /\ intent' \in [key : 1..pressed, window : Spots, place : Nat,
                          age : 0..CopySpan + 1, open : BOOLEAN]
      BY <3>1, <3>2, <3>3
    <3>. QED  BY <2>1, <2>3, <3>4 DEF Intents
  <2>. QED  BY <1>3, <2>2, <2>3
<1>8. TapQueues'
  <2>1. Len(notices) <= QueueLimit  BY DEF TapHold, TapQueues
  <2>2. <<>> \in Seq(TapNotes) /\ Len(<<>>) = 0  OBVIOUS
  <2>. QED  BY <1>1, <1>2, <2>1, <2>2, TapSpans DEF TapQueues
<1>9. Follows(notices, pressed, place, front, used, intent.key)'
  BY <1>1, NoneFollow
<1>10. Follows(batch, pressed, place, front, used, intent.key)'
  BY <1>1, <1>2, <1>7
<1>11. Settling(waiting, confirmed, used, pressed, turn, notices, batch)'
  BY <1>1, <1>2 DEF TapHold, Settling
<1>. QED
  BY <1>1, <1>4, <1>5, <1>6, <1>7, <1>8, <1>9, <1>10, <1>11 DEF TapHold

\* What taking the first event of the batch leaves of the queues, as long as
\* what was said of its key concerns it alone.
LEMMA BatchTaken ==
  ASSUME TapHold, turn = "handle", batch # <<>>
  PROVE  /\ Head(batch) \in TapNotes
         /\ Tail(batch) \in Seq(TapNotes) /\ Len(Tail(batch)) <= QueueLimit
         /\ notices = <<>>
         /\ Follows(Tail(batch), pressed, place, front, used, intent.key)
         /\ Head(batch).kind = "key" =>
              /\ Head(batch).key \in 1..pressed
              /\ \A key \in used : key < Head(batch).key
              /\ Head(batch).place = place => Head(batch).window = front
              /\ Follows(Tail(batch), pressed, place, front, used, Head(batch).key)
         /\ \A key \in waiting :
              key \in KeysOf(Tail(batch)) \/ (Head(batch).kind = "key" /\ key = Head(batch).key)
<1>1. /\ batch \in Seq(TapNotes) /\ Len(batch) <= QueueLimit /\ notices = <<>>
      /\ Follows(batch, pressed, place, front, used, intent.key)
      /\ waiting \subseteq KeysOf(batch)
  BY DEF TapHold, TapQueues, Settling
<1>2. /\ Head(batch) \in TapNotes
      /\ Tail(batch) \in Seq(TapNotes) /\ Len(Tail(batch)) = Len(batch) - 1
      /\ \A key \in KeysOf(batch) :
           key \in KeysOf(Tail(batch)) \/ (Head(batch).kind = "key" /\ key = Head(batch).key)
  BY <1>1, TailKeys
<1>3. /\ Follows(Tail(batch), pressed, place, front, used, intent.key)
      /\ Head(batch).kind = "key" =>
           /\ Head(batch).key \in 1..pressed
           /\ \A key \in used : key < Head(batch).key
           /\ Head(batch).place = place => Head(batch).window = front
           /\ Follows(Tail(batch), pressed, place, front, used, Head(batch).key)
  BY <1>1, TailFollows
<1>4. Len(Tail(batch)) <= QueueLimit
  <2>1. Len(batch) \in Nat  BY <1>1
  <2>. QED  BY <1>1, <1>2, <2>1, TapSpans
<1>. QED  BY <1>1, <1>2, <1>3, <1>4

\* The parts that handling an event of the batch leaves alone.
LEMMA StillHandling ==
  ASSUME TapHold, turn = "handle", batch # <<>>, batch' = Tail(batch),
         UNCHANGED <<asleep, notices, turn, secureSeen, sampled, unwatched, pressed, counted,
                     refusing, secureNow, place, front, open, board>>
  PROVE  TapTyped' /\ TapQueues'
         /\ Follows(notices, pressed, place, front, used, intent.key)'
<1>1. notices = <<>> /\ Tail(batch) \in Seq(TapNotes) /\ Len(Tail(batch)) <= QueueLimit
  BY BatchTaken
<1>2. TapTyped'  BY DEF TapHold, TapTyped
<1>3. TapQueues'  BY <1>1 DEF TapHold, TapQueues
<1>4. Follows(notices, pressed, place, front, used, intent.key)'
  BY <1>1, NoneFollow
<1>. QED  BY <1>2, <1>3, <1>4

LEMMA HandleDisabledKeeps ==
  ASSUME TapHold, HandleDisabled
  PROVE  TapHold' /\ OneCopyPerShortcut
<1>1. /\ turn = "handle" /\ batch # <<>> /\ Head(batch).kind = "disabled"
      /\ batch' = Tail(batch) /\ machine' = DisabledNotice(machine)
      /\ deaf' = IF machine'.tap = "on" THEN 0 ELSE deaf
      /\ out' = NoRecord
      /\ UNCHANGED <<asleep, notices, turn, secureSeen, sampled, unwatched, pressed, waiting,
                     confirmed, counted, intent, used,
                     refusing, secureNow, place, front, open, board>>
  BY DEF HandleDisabled, Handles, clipboard, keys, surroundings
<1>2. /\ Follows(Tail(batch), pressed, place, front, used, intent.key)
      /\ \A key \in waiting : key \in KeysOf(Tail(batch))
  BY <1>1, BatchTaken
<1>3. TapTyped' /\ TapQueues' /\ Follows(notices, pressed, place, front, used, intent.key)'
  BY <1>1, StillHandling
<1>4. TapTimes(machine, refusing, deaf, unwatched, turn)'
  <2>1. TapTimes(machine, refusing, deaf, unwatched, turn) /\ refusing \in Refusals
    BY DEF TapHold, TapTyped
  <2>2. CASE machine.state = "enabled"
    <3>1. machine' = Reenabled(machine)  BY <1>1, <2>2 DEF DisabledNotice
    <3>2. machine \in Taps /\ unwatched \in Nat /\ unwatched <= WatchSpan
      BY <2>1 DEF TapTimes
    <3>3. machine' = Working("on") \/ Renewed(machine', refusing)
      BY <2>1, <3>1, <3>2, ReenabledFits
    <3>4. TapTimes(machine', refusing, IF machine'.tap = "on" THEN 0 ELSE deaf, unwatched, "handle")
      BY <2>1, <3>2, <3>3, TakesOver
    <3>. QED  BY <1>1, <3>4
  <2>3. CASE machine.state # "enabled"
    <3>1. machine' = machine  BY <1>1, <2>3 DEF DisabledNotice
    <3>2. machine.tap = "on" => deaf = 0  BY <2>1 DEF TapTimes
    <3>3. deaf' = deaf  BY <1>1, <3>1, <3>2
    <3>. QED  BY <1>1, <2>1, <3>1, <3>3
  <2>. QED  BY <2>2, <2>3
<1>5. BodiesStayInPlace' /\ OneCopyPerShortcut  BY <1>1, RecordsNothing
<1>6. Settling(waiting, confirmed, used, pressed, turn, notices, batch)'
  BY <1>1, <1>2 DEF TapHold, Settling
<1>. QED  BY <1>1, <1>2, <1>3, <1>4, <1>5, <1>6 DEF TapHold

LEMMA HandlePointerKeeps ==
  ASSUME TapHold, HandlePointer
  PROVE  TapHold' /\ OneCopyPerShortcut
<1>1. /\ turn = "handle" /\ batch # <<>> /\ Head(batch).kind = "pointer"
      /\ batch' = Tail(batch) /\ out' = NoRecord
      /\ UNCHANGED <<machine, deaf, asleep, notices, turn, secureSeen, sampled, unwatched,
                     pressed, waiting, confirmed, counted, intent, used,
                     refusing, secureNow, place, front, open, board>>
  BY DEF HandlePointer, Handles, clipboard, keys, surroundings
<1>2. /\ Follows(Tail(batch), pressed, place, front, used, intent.key)
      /\ \A key \in waiting : key \in KeysOf(Tail(batch))
  BY <1>1, BatchTaken
<1>3. TapTyped' /\ TapQueues' /\ Follows(notices, pressed, place, front, used, intent.key)'
  BY <1>1, StillHandling
<1>4. BodiesStayInPlace' /\ OneCopyPerShortcut  BY <1>1, RecordsNothing
<1>5. Settling(waiting, confirmed, used, pressed, turn, notices, batch)'
  BY <1>1, <1>2 DEF TapHold, Settling
<1>. QED  BY <1>1, <1>2, <1>3, <1>4, <1>5 DEF TapHold

\* A key's authorization is settled with it.
LEMMA ResolveSettles ==
  ASSUME TapHold, turn = "handle", batch # <<>>, Head(batch).kind = "key",
         NEW result, Resolve(Head(batch), result), UNCHANGED <<pressed, used>>
  PROVE  /\ waiting' \subseteq 1..pressed /\ confirmed' \subseteq 1..pressed
         /\ used' \subseteq 1..pressed
         /\ waiting' \intersect confirmed' = {}
         /\ waiting' \subseteq KeysOf(Tail(batch))
<1>. DEFINE k == Head(batch).key
<1>1. /\ waiting' = waiting \ {k}
      /\ confirmed' = confirmed \/ (k \in waiting /\ confirmed' = confirmed \union {k})
  BY DEF Resolve
<1>2. /\ waiting \subseteq 1..pressed /\ confirmed \subseteq 1..pressed /\ used \subseteq 1..pressed
      /\ waiting \intersect confirmed = {}
  BY DEF TapHold, Settling
<1>3. \A key \in waiting : key \in KeysOf(Tail(batch)) \/ key = k
  BY BatchTaken
<1>. HIDE DEF k
<1>. QED  BY <1>1, <1>2, <1>3

LEMMA HandleFilteredKeyKeeps ==
  ASSUME TapHold, HandleFilteredKey
  PROVE  TapHold' /\ OneCopyPerShortcut
<1>1. /\ turn = "handle" /\ batch # <<>> /\ Head(batch).kind = "key"
      /\ Resolve(Head(batch), "filtered")
      /\ batch' = Tail(batch) /\ out' = NoRecord
      /\ UNCHANGED <<machine, deaf, asleep, notices, turn, secureSeen, sampled, unwatched,
                     pressed, counted, intent, used,
                     refusing, secureNow, place, front, open, board>>
  BY DEF HandleFilteredKey, Handles, clipboard, surroundings
<1>2. Follows(Tail(batch), pressed, place, front, used, intent.key)
  BY <1>1, BatchTaken
<1>3. TapTyped' /\ TapQueues' /\ Follows(notices, pressed, place, front, used, intent.key)'
  BY <1>1, StillHandling
<1>4. BodiesStayInPlace' /\ OneCopyPerShortcut  BY <1>1, RecordsNothing
<1>5. Settling(waiting, confirmed, used, pressed, turn, notices, batch)'
  <2>1. /\ waiting' \subseteq 1..pressed /\ confirmed' \subseteq 1..pressed
        /\ used' \subseteq 1..pressed
        /\ waiting' \intersect confirmed' = {}
        /\ waiting' \subseteq KeysOf(Tail(batch))
    BY <1>1, ResolveSettles
  <2>. QED  BY <1>1, <2>1 DEF Settling
<1>. QED  BY <1>1, <1>2, <1>3, <1>4, <1>5 DEF TapHold

\* The body of a key that is recorded is of the focus that is current.
LEMMA KeyInPlace ==
  ASSUME TapHold, NEW e, NEW result, NEW active \in BOOLEAN,
         e.combo \in Combos, e.place = place => e.window = front,
         ~secureSeen, out' = KeyRecord(e, result, active),
         UNCHANGED <<place, front, open, secureSeen>>
  PROVE  BodiesStayInPlace' /\ OneCopyPerShortcut
<1>1. CASE result # "sent"
  <2>1. out' = NoRecord  BY <1>1 DEF KeyRecord
  <2>. QED  BY <2>1, RecordsNothing
<1>2. CASE result = "sent"
  <2>. DEFINE body == CASE e.combo = "type" -> e.read /\ StillHere(e) /\ ~active
                        [] e.combo = "copy" -> FALSE
                        [] e.combo = "paste" -> e.target = "field" /\ StillHere(e)
  <2>1. out' = [kind |-> "key", key |-> e.key, window |-> e.window, place |-> e.place,
                begun |-> TRUE, age |-> 0, text |-> body]
    BY <1>2 DEF KeyRecord
  <2>. HIDE DEF body
  <2>2. /\ out'.kind = "key" /\ out'.window = e.window /\ out'.place = e.place
        /\ out'.begun = TRUE /\ out'.age = 0 /\ out'.text = body
    BY <2>1
  <2>3. OneCopyPerShortcut  BY <2>2 DEF OneCopyPerShortcut
  <2>4. StillHere(e) => BodiesStayInPlace'
    BY <2>2, TapSpans DEF StillHere, BodiesStayInPlace
  <2>5. ~StillHere(e) => BodiesStayInPlace'
    <3>1. ASSUME ~StillHere(e) PROVE ~body
      BY <3>1 DEF body, Combos
    <3>. QED  BY <2>2, <3>1 DEF BodiesStayInPlace
  <2>. QED  BY <2>3, <2>4, <2>5
<1>. QED  BY <1>1, <1>2

LEMMA HandleKeyEventKeeps ==
  ASSUME TapHold, HandleKeyEvent
  PROVE  TapHold' /\ OneCopyPerShortcut
<1>. DEFINE e == Head(batch)
<1>1. PICK result \in {"sent", "dropped", "filtered", "disconnected"}, active \in BOOLEAN :
        /\ turn = "handle" /\ batch # <<>> /\ e.kind = "key"
        /\ ~secureSeen
        /\ Resolve(e, IF e.target = "field" /\ StillHere(e) THEN result ELSE "filtered")
        /\ out' = KeyRecord(e, result, active)
        /\ intent' = IF e.combo = "copy" /\ result # "disconnected"
                     THEN [key |-> e.key, window |-> e.window, place |-> e.place,
                           age |-> 0, open |-> StillHere(e)]
                     ELSE intent
        /\ \/ turn' = "ended" /\ batch' = <<>>
           \/ batch' = Tail(batch) /\ turn' = turn
        /\ UNCHANGED <<machine, deaf, asleep, notices, secureSeen, sampled, unwatched,
                       pressed, counted, used,
                       refusing, secureNow, place, front, open, board>>
  BY DEF HandleKeyEvent, Handles, surroundings
<1>2. /\ e \in TapNotes /\ notices = <<>>
      /\ Tail(batch) \in Seq(TapNotes) /\ Len(Tail(batch)) <= QueueLimit
      /\ Follows(Tail(batch), pressed, place, front, used, intent.key)
      /\ e.key \in 1..pressed
      /\ \A key \in used : key < e.key
      /\ e.place = place => e.window = front
      /\ Follows(Tail(batch), pressed, place, front, used, e.key)
  BY <1>1, BatchTaken
<1>3. /\ waiting' \subseteq 1..pressed /\ confirmed' \subseteq 1..pressed
      /\ used' \subseteq 1..pressed
      /\ waiting' \intersect confirmed' = {}
      /\ waiting' \subseteq KeysOf(Tail(batch))
  BY <1>1, ResolveSettles
<1>4. e.place \in Nat /\ e.window \in Spots /\ e.combo \in Combos
  BY <1>1, <1>2 DEF TapNotes, KeyNotes, KeyReads
<1>. HIDE DEF e
<1>5. BodiesStayInPlace' /\ OneCopyPerShortcut
  BY <1>1, <1>2, <1>4, KeyInPlace
<1>6. Intents(intent', used, pressed) /\ Follows(Tail(batch), pressed, place, front, used, intent'.key)
  <2>1. CASE intent' = intent  BY <1>2, <2>1 DEF TapHold
  <2>2. CASE intent' = [key |-> e.key, window |-> e.window, place |-> e.place,
                        age |-> 0, open |-> StillHere(e)]
    <3>1. StillHere(e) \in BOOLEAN /\ 0 \in 0..CopySpan + 1
      BY TapSpans DEF StillHere
    <3>2. /\ intent' \in [key : 1..pressed, window : Spots, place : Nat,
                          age : 0..CopySpan + 1, open : BOOLEAN]
          /\ intent'.key = e.key
      BY <1>2, <1>4, <2>2, <3>1
    <3>. QED  BY <1>2, <3>2 DEF Intents
  <2>. QED  BY <1>1, <2>1, <2>2
<1>7. Follows(notices, pressed, place, front, used, intent.key)'
  BY <1>1, <1>2, NoneFollow
<1>8. Follows(batch, pressed, place, front, used, intent.key)'
  BY <1>1, <1>6, NoneFollow
<1>9. TapTyped'
  BY <1>1 DEF TapHold, TapTyped, Turns
<1>10. TapTimes(machine, refusing, deaf, unwatched, turn)'
  BY <1>1 DEF TapHold, TapTimes
<1>11. TapQueues'
  <2>1. <<>> \in Seq(TapNotes) /\ Len(<<>>) = 0  OBVIOUS
  <2>. QED  BY <1>1, <1>2, <2>1, TapSpans DEF TapHold, TapQueues
<1>12. Settling(waiting, confirmed, used, pressed, turn, notices, batch)'
  BY <1>1, <1>3 DEF Settling
<1>. QED
  BY <1>1, <1>5, <1>6, <1>7, <1>8, <1>9, <1>10, <1>11, <1>12 DEF TapHold

-----------------------------------------------------------------------------
(* The end of a pass, and new workers. *)

\* What a retry or the watchdog makes of a machine: it works or was refused
\* just now, or nothing was due.
MadeNew(m) == m = Working("on") \/ Renewed(m, refusing)

LEMMA RetriedFits ==
  ASSUME refusing \in Refusals, NEW m
  PROVE  /\ MadeNew(m) => MadeNew(Retried(m))
         /\ MadeNew(Retried(m)) \/ (Retried(m) = m /\ ~(m.state = "degraded" /\ m.wait = 0))
<1>1. MadeNew(Recreated)  BY RecreatedFits DEF MadeNew
<1>. QED  BY <1>1 DEF Retried

LEMMA WatchdogFits ==
  ASSUME refusing \in Refusals, NEW m \in Taps
  PROVE  /\ MadeNew(m) => MadeNew(Watchdog(m))
         /\ \/ MadeNew(Watchdog(m))
            \/ /\ Watchdog(m) = m
               /\ m.state = "enabled" => m.tap = "on"
               /\ ~(m.state = "degraded" /\ m.wait = 0)
<1>1. CASE m.state = "enabled" /\ m.tap # "on"
  <2>1. Watchdog(m) = Reenabled(m)  BY <1>1 DEF Watchdog
  <2>. QED  BY <2>1, ReenabledFits DEF MadeNew
<1>2. CASE ~(m.state = "enabled" /\ m.tap # "on")
  <2>1. Watchdog(m) = Retried(m)  BY <1>2 DEF Watchdog
  <2>. QED  BY <1>2, <2>1, RetriedFits
<1>. QED  BY <1>1, <1>2

\* A pass that ends with nothing due leaves the times to the next.
LEMMA NothingDue ==
  ASSUME NEW m, NEW r, NEW d, NEW u, NEW t, TapTimes(m, r, d, u, t),
         ~(m.state = "degraded" /\ m.wait = 0),
         NEW v, v = u \/ (v = 0 /\ (m.state = "enabled" => m.tap = "on")), v < WatchSpan
  PROVE  TapTimes(m, r, IF m.tap = "on" THEN 0 ELSE d, v, "top")
<1>1. /\ m \in Taps /\ d \in Nat /\ u \in Nat
      /\ m.state = "enabled" => m.tap # "none" /\ d <= u
      /\ m.state = "degraded" => m.tap # "on" /\ d + m.wait <= RetrySpan
      /\ r # "nothing" \/ m.tap = "on" => d = 0
  BY DEF TapTimes
<1>2. (IF m.tap = "on" THEN 0 ELSE d) = d  BY <1>1
<1>3. v \in Nat /\ v <= WatchSpan  BY <1>1, TapSpans
<1>4. m.state = "degraded" => m.wait > 0
  <2>1. m.wait \in 0..RetrySpan  BY <1>1 DEF Taps
  <2>. QED  BY <2>1, TapSpans
<1>5. m.state = "enabled" => d <= v  BY <1>1
<1>. QED  BY <1>1, <1>2, <1>3, <1>4, <1>5 DEF TapTimes

LEMMA AfterEventsKeeps ==
  ASSUME TapHold, AfterEvents
  PROVE  TapHold' /\ OneCopyPerShortcut
<1>1. /\ turn = "handle" /\ batch = <<>> /\ turn' = "top" /\ asleep' = FALSE
      /\ UNCHANGED <<notices, batch, secureSeen, sampled, pressed, waiting, confirmed,
                     refusing, secureNow, place, front, open, board>>
  BY DEF AfterEvents, keys, surroundings
<1>. DEFINE woken == IF asleep THEN Recreated ELSE machine
            due == unwatched >= WatchSpan
            seen == IF due THEN Watchdog(woken) ELSE woken
<1>2. /\ machine' = Retried(seen)
      /\ unwatched' = IF due THEN 0 ELSE unwatched
      /\ deaf' = IF machine'.tap = "on" THEN 0 ELSE deaf
  BY DEF AfterEvents
<1>3. /\ TapTimes(machine, refusing, deaf, unwatched, turn) /\ refusing \in Refusals
      /\ machine \in Taps /\ unwatched \in Nat
  BY DEF TapHold, TapTyped, TapTimes
<1>4. TapTimes(machine, refusing, deaf, unwatched, turn)'
  <2>1. unwatched' \in Nat /\ unwatched' < WatchSpan
    BY <1>2, <1>3, TapSpans
  <2>2. CASE MadeNew(machine')
    <3>1. machine' = Working("on") \/ Renewed(machine', refusing)  BY <2>2 DEF MadeNew
    <3>2. unwatched' <= WatchSpan  BY <2>1, TapSpans
    <3>3. TapTimes(machine', refusing, IF machine'.tap = "on" THEN 0 ELSE deaf, unwatched', "top")
      BY <1>3, <2>1, <3>1, <3>2, TakesOver
    <3>. QED  BY <1>1, <1>2, <3>3
  <2>3. CASE ~MadeNew(machine')
    <3>1. MadeNew(Recreated)  BY <1>3, RecreatedFits DEF MadeNew
    <3>2. /\ ~MadeNew(seen) /\ machine' = seen /\ ~(seen.state = "degraded" /\ seen.wait = 0)
      BY <1>2, <1>3, <2>3, RetriedFits
    <3>3. woken \in Taps  BY <1>3, RecreatedFits DEF Renewed
    <3>4. ~MadeNew(woken)
      BY <1>3, <3>2, <3>3, WatchdogFits
    <3>5. woken = machine  BY <3>1, <3>4
    <3>6. seen = machine /\ (due => (machine.state = "enabled" => machine.tap = "on"))
      BY <1>3, <3>2, <3>3, <3>5, WatchdogFits
    <3>7. \/ unwatched' = unwatched
          \/ unwatched' = 0 /\ (machine.state = "enabled" => machine.tap = "on")
      BY <1>2, <3>6
    <3>8. ~(machine.state = "degraded" /\ machine.wait = 0)  BY <3>2, <3>6
    <3>9. TapTimes(machine, refusing, IF machine.tap = "on" THEN 0 ELSE deaf, unwatched', "top")
      BY <1>3, <2>1, <3>7, <3>8, NothingDue
    <3>. QED  BY <1>1, <1>2, <3>2, <3>6, <3>9
  <2>. QED  BY <2>2, <2>3
<1>5. TapQueues'  BY <1>1 DEF TapHold, TapQueues
<1>6. waiting = {}  BY <1>1 DEF TapHold, Settling, KeysOf
<1>7. secureSeen \in BOOLEAN /\ sampled \in 0..board  BY DEF TapHold, TapTyped
<1>8. CASE sampled # counted
  <2>1. TakeChange(sampled, secureSeen)  BY <1>8 DEF AfterEvents
  <2>2. /\ counted' = sampled /\ used' \subseteq 1..pressed
        /\ BodiesStayInPlace' /\ OneCopyPerShortcut
    BY <1>1, <1>7, <2>1, ChangeTaken
  <2>3. /\ Follows(notices, pressed, place, front, used, intent.key)'
        /\ Follows(batch, pressed, place, front, used, intent.key)'
        /\ Intents(intent, used, pressed)'
    BY <1>1, <1>7, <2>1, ChangeFollowed
  <2>4. TapTyped'
    BY <1>1, <1>7, <2>2 DEF TapHold, TapTyped, Turns
  <2>5. Settling(waiting, confirmed, used, pressed, turn, notices, batch)'
    BY <1>1, <1>6, <2>2 DEF TapHold, Settling
  <2>. QED  BY <1>4, <1>5, <2>2, <2>3, <2>4, <2>5 DEF TapHold
<1>9. CASE sampled = counted
  <2>1. out' = NoRecord /\ UNCHANGED <<counted, intent, used>>
    BY <1>9 DEF AfterEvents, clipboard
  <2>2. BodiesStayInPlace' /\ OneCopyPerShortcut  BY <2>1, RecordsNothing
  <2>3. TapTyped'  BY <1>1, <2>1 DEF TapHold, TapTyped, Turns
  <2>4. Settling(waiting, confirmed, used, pressed, turn, notices, batch)'
    BY <1>1, <1>6, <2>1 DEF TapHold, Settling
  <2>. QED  BY <1>1, <1>4, <1>5, <2>1, <2>2, <2>3, <2>4 DEF TapHold
<1>. QED  BY <1>8, <1>9

LEMMA StopTapKeeps ==
  ASSUME TapHold, StopTap
  PROVE  TapHold' /\ OneCopyPerShortcut
<1>1. /\ turn = "top" /\ turn' = "ended" /\ out' = NoRecord
      /\ UNCHANGED <<machine, asleep, notices, batch, secureSeen, sampled, unwatched, deaf,
                     pressed, waiting, confirmed, counted, intent, used,
                     refusing, secureNow, place, front, open, board>>
  BY DEF StopTap, keys, clipboard
<1>2. BodiesStayInPlace' /\ OneCopyPerShortcut  BY <1>1, RecordsNothing
<1>3. TapTyped'  BY <1>1 DEF TapHold, TapTyped, Turns
<1>4. TapTimes(machine, refusing, deaf, unwatched, turn)'  BY <1>1 DEF TapHold, TapTimes
<1>5. TapQueues'  BY <1>1 DEF TapHold, TapQueues
<1>6. Settling(waiting, confirmed, used, pressed, turn, notices, batch)'
  BY <1>1 DEF TapHold, Settling
<1>. QED  BY <1>1, <1>2, <1>3, <1>4, <1>5, <1>6 DEF TapHold

LEMMA StartTapKeeps ==
  ASSUME TapHold, StartTap
  PROVE  TapHold' /\ OneCopyPerShortcut
<1>1. /\ turn = "ended" /\ turn' = "top" /\ out' = NoRecord
      /\ machine' = Recreated /\ asleep' = FALSE /\ unwatched' = 0 /\ deaf' = 0
      /\ secureSeen' = secureNow /\ counted' = board /\ sampled' = board
      /\ intent' = NoIntent /\ waiting' = {}
      /\ UNCHANGED <<notices, batch, used, pressed, confirmed,
                     refusing, secureNow, place, front, open, board>>
  BY DEF StartTap, surroundings
<1>2. BodiesStayInPlace' /\ OneCopyPerShortcut  BY <1>1, RecordsNothing
<1>3. TapTyped'
  <2>1. asleep' \in BOOLEAN /\ secureNow' \in BOOLEAN /\ secureSeen' \in BOOLEAN
    BY <1>1 DEF TapHold, TapTyped
  <2>2. board' \in Nat /\ counted' \in 0..board' /\ sampled' \in 0..board'
    BY <1>1 DEF TapHold, TapTyped
  <2>. QED  BY <1>1, <2>1, <2>2 DEF TapHold, TapTyped, Turns
<1>4. TapTimes(machine, refusing, deaf, unwatched, turn)'
  <2>1. Renewed(machine', refusing)  BY <1>1, RecreatedFits DEF TapHold, TapTyped
  <2>. QED  BY <1>1, <2>1, TapSpans DEF Renewed, TapTimes, Taps
<1>5. TapQueues' /\ notices' = <<>> /\ batch' = <<>>
  BY <1>1 DEF TapHold, TapQueues
<1>6. /\ Follows(notices, pressed, place, front, used, intent.key)'
      /\ Follows(batch, pressed, place, front, used, intent.key)'
  BY <1>5, NoneFollow
<1>7. Intents(intent, used, pressed)'  BY <1>1 DEF Intents
<1>8. Settling(waiting, confirmed, used, pressed, turn, notices, batch)'
  BY <1>1 DEF TapHold, Settling
<1>. QED  BY <1>2, <1>3, <1>4, <1>5, <1>6, <1>7, <1>8 DEF TapHold

-----------------------------------------------------------------------------
(* The surroundings. *)

\* A step of the surroundings that leaves the focus where it is.
LEMMA SurroundingsKeep ==
  ASSUME TapHold, SystemRefuses \/ SystemWakes \/ BoardChanges \/ RulingMoves \/ SecureMoves
  PROVE  TapHold' /\ OneCopyPerShortcut
<1>1. /\ UNCHANGED <<machine, notices, batch, turn, secureSeen, sampled, unwatched, pressed,
                     waiting, confirmed, counted, intent, used, place, front>>
      /\ out' = NoRecord
      /\ (UNCHANGED <<refusing, deaf>>) \/ (refusing' \in Refusals /\ deaf' = 0)
      /\ asleep' = asleep \/ asleep' = TRUE
      /\ secureNow' = secureNow \/ secureNow' = ~secureNow
      /\ open' = open \/ open' \subseteq open \union Panes
      /\ board' = board \/ board' = board + 1
  BY DEF SystemRefuses, SystemWakes, BoardChanges, RulingMoves, SecureMoves, tapAlone,
         clipboard, keys, Refusals
<1>2. BodiesStayInPlace' /\ OneCopyPerShortcut  BY <1>1, RecordsNothing
<1>3. TapTyped'
  <2>1. TapTyped  BY DEF TapHold
  <2>2. /\ refusing' \in Refusals /\ turn' \in Turns /\ front' \in Spots
        /\ place' \in Nat /\ pressed' \in Nat
    BY <1>1, <2>1 DEF TapTyped
  <2>3. asleep' \in BOOLEAN /\ secureNow' \in BOOLEAN /\ secureSeen' \in BOOLEAN
    BY <1>1, <2>1 DEF TapTyped
  <2>4. open' \subseteq Spots  BY <1>1, <2>1 DEF TapTyped, Spots
  <2>5. board' \in Nat /\ counted' \in 0..board' /\ sampled' \in 0..board'
    BY <1>1, <2>1 DEF TapTyped
  <2>. QED  BY <2>2, <2>3, <2>4, <2>5 DEF TapTyped
<1>4. TapTimes(machine, refusing, deaf, unwatched, turn)'
  <2>1. TapTimes(machine, refusing, deaf, unwatched, turn)  BY DEF TapHold
  <2>2. CASE UNCHANGED <<refusing, deaf>>  BY <1>1, <2>1, <2>2
  <2>3. CASE deaf' = 0
    <3>1. \A k \in 0..RetrySpan : 0 + k <= RetrySpan  BY TapSpans
    <3>2. machine.wait \in 0..RetrySpan  BY <2>1 DEF TapTimes, Taps
    <3>. QED  BY <1>1, <2>1, <2>3, <3>1, <3>2 DEF TapTimes
  <2>. QED  BY <1>1, <2>2, <2>3
<1>5. TapQueues'  BY <1>1 DEF TapHold, TapQueues
<1>. QED  BY <1>1, <1>2, <1>3, <1>4, <1>5 DEF TapHold

LEMMA FrontMovesKeeps ==
  ASSUME TapHold, FrontMoves
  PROVE  TapHold' /\ OneCopyPerShortcut
<1>1. PICK w \in Spots :
        /\ place' = place + 1 /\ front' = w /\ out' = NoRecord
        /\ UNCHANGED <<machine, asleep, notices, batch, turn, secureSeen, sampled, unwatched,
                       deaf, pressed, waiting, confirmed, counted, intent, used,
                       refusing, secureNow, open, board>>
  BY DEF FrontMoves, tapAlone, clipboard, keys, Spots
<1>2. BodiesStayInPlace' /\ OneCopyPerShortcut  BY <1>1, RecordsNothing
<1>3. TapTyped'  BY <1>1 DEF TapHold, TapTyped
<1>4. /\ Follows(notices, pressed, place + 1, w, used, intent.key)
      /\ Follows(batch, pressed, place + 1, w, used, intent.key)
  BY FollowsBehind DEF TapHold, TapQueues, TapTyped
<1>5. TapQueues'  BY <1>1 DEF TapHold, TapQueues
<1>. QED  BY <1>1, <1>2, <1>3, <1>4, <1>5 DEF TapHold

-----------------------------------------------------------------------------
LEMMA TapStart == TapInit => TapHold
<1>. SUFFICES ASSUME TapInit PROVE TapHold  OBVIOUS
<1>. USE DEF TapInit
<1>1. TapTyped
  <2>1. asleep \in BOOLEAN /\ secureNow \in BOOLEAN /\ secureSeen \in BOOLEAN  OBVIOUS
  <2>2. board \in Nat /\ counted \in 0..board /\ sampled \in 0..board  OBVIOUS
  <2>. QED  BY <2>1, <2>2 DEF TapTyped, Refusals, Turns, Spots
<1>2. Renewed(Recreated, refusing)  BY RecreatedFits DEF Refusals
<1>3. TapTimes(machine, refusing, deaf, unwatched, turn)
  BY <1>2, TapSpans DEF Renewed, TapTimes, Taps
<1>4. TapQueues
  <2>1. <<>> \in Seq(TapNotes) /\ Len(<<>>) = 0  OBVIOUS
  <2>. QED  BY <2>1, TapSpans DEF TapQueues
<1>5. /\ Follows(notices, pressed, place, front, used, intent.key)
      /\ Follows(batch, pressed, place, front, used, intent.key)
  BY NoneFollow
<1>6. Intents(intent, used, pressed)  BY DEF Intents
<1>7. Settling(waiting, confirmed, used, pressed, turn, notices, batch)  BY DEF Settling
<1>8. BodiesStayInPlace  BY DEF BodiesStayInPlace, NoRecord
<1>. QED  BY <1>1, <1>3, <1>4, <1>5, <1>6, <1>7, <1>8 DEF TapHold

LEMMA TapStep == TapHold /\ TapNext => TapHold' /\ OneCopyPerShortcut
BY BeforeEventsKeeps, KeyArrivesKeeps, PointerArrivesKeeps, TapDisabledKeeps, DrainKeeps,
   HandleDisabledKeeps, HandlePointerKeeps, HandleFilteredKeyKeeps, HandleKeyEventKeeps,
   AfterEventsKeeps, StopTapKeeps, StartTapKeeps, SurroundingsKeep, FrontMovesKeeps
   DEF TapNext

LEMMA TapStutters == TapHold /\ UNCHANGED tapVars => TapHold'
<1>. SUFFICES ASSUME TapHold, UNCHANGED tapVars PROVE TapHold'  OBVIOUS
<1>. USE DEF tapVars
<1>1. TapTyped' /\ TapQueues' /\ BodiesStayInPlace'
  BY DEF TapHold, TapTyped, TapQueues, BodiesStayInPlace
<1>. QED  BY <1>1 DEF TapHold

LEMMA TapSafe == TapHold => TapTypeOK /\ NeverDeafForLong /\ AuthorizationsSettle
<1>. SUFFICES ASSUME TapHold PROVE TapTypeOK /\ NeverDeafForLong /\ AuthorizationsSettle
  OBVIOUS
<1>1. TapTypeOK
  <2>1. /\ machine \in [tap : {"on", "off", "none"}, state : {"enabled", "degraded"},
                        wait : 0..RetrySpan]
        /\ unwatched \in 0..WatchSpan + 1
    BY TapSpans DEF TapHold, TapTimes, Taps
  <2>2. /\ refusing \in {"nothing", "enabling", "creating"}
        /\ turn \in {"top", "run", "handle", "ended"}
        /\ front \in Panes \union {Nobody} /\ open \subseteq Panes \union {Nobody}
        /\ counted <= board /\ sampled <= board
    BY DEF TapHold, TapTyped, Refusals, Turns, Spots
  <2>3. {asleep, secureNow, secureSeen} \subseteq BOOLEAN  BY DEF TapHold, TapTyped
  <2>4. Len(notices) <= QueueLimit /\ Len(batch) <= QueueLimit  BY DEF TapHold, TapQueues
  <2>5. waiting \union confirmed \union used \subseteq 1..pressed  BY DEF TapHold, Settling
  <2>. QED  BY <2>1, <2>2, <2>3, <2>4, <2>5 DEF TapTypeOK
<1>2. NeverDeafForLong
  <2>1. TapTimes(machine, refusing, deaf, unwatched, turn)  BY DEF TapHold
  <2>. DEFINE k == machine.wait
  <2>2. machine.state \in {"enabled", "degraded"} /\ k \in 0..RetrySpan  BY <2>1 DEF TapTimes, Taps
  <2>3. /\ deaf \in Nat /\ unwatched \in Nat /\ unwatched <= WatchSpan
        /\ machine.state = "enabled" => deaf <= unwatched
        /\ machine.state = "degraded" => deaf + k <= RetrySpan
    BY <2>1 DEF TapTimes
  <2>. HIDE DEF k
  <2>4. deaf <= WatchSpan \/ deaf <= RetrySpan  BY <2>2, <2>3, TapSpans
  <2>. QED  BY <2>3, <2>4, TapSpans DEF NeverDeafForLong
<1>3. AuthorizationsSettle  BY DEF TapHold, Settling, AuthorizationsSettle
<1>. QED  BY <1>1, <1>2, <1>3

\* The tap part of CaptureMC.
TapPart == part = "tap" => TapHold

LEMMA TapPartStart == CaptureInit => TapPart
BY TapStart DEF CaptureInit, TapPart

LEMMA TapPartStep ==
  /\ TapPart /\ [CaptureNext]_captureVars => TapPart'
  /\ TapPart /\ CaptureNext => (part = "tap" => OneCopyPerShortcut)
<1>1. ASSUME TapPart, CaptureNext PROVE TapPart' /\ (part = "tap" => OneCopyPerShortcut)
  <2>1. part' = part /\ (part = "tap" => TapNext)  BY <1>1 DEF CaptureNext
  <2>. QED  BY <1>1, <2>1, TapStep DEF TapPart
<1>2. ASSUME TapPart, UNCHANGED captureVars PROVE TapPart'
  <2>1. part' = part /\ UNCHANGED tapVars  BY <1>2 DEF captureVars
  <2>. QED  BY <1>2, <2>1, TapStutters DEF TapPart
<1>. QED  BY <1>1, <1>2

\* Whatever the system disables, refuses and wakes, and however full the queue
\* was when it said so: a tap that nothing refuses is back within the longer of
\* the two waits, and a pass leaves no authorization open (eventtap/state.rs,
\* eventtap/worker.rs, output.rs).
THEOREM TapComesBack == CaptureSpec => []TapRecovers
<1>1. CaptureInit => TapPart  BY TapPartStart
<1>2. TapPart /\ [CaptureNext]_captureVars => TapPart'  BY TapPartStep
<1>3. TapPart => TapRecovers  BY TapSafe DEF TapPart, TapRecovers
<1>. QED  BY <1>1, <1>2, <1>3, PTL DEF CaptureSpec

\* However the focus, the rulings, secure input and the pasteboard change
\* between the callback, the batch and the sample: the body of a key or a copy
\* stays with the focus it was read in, and a Command-C explains one change
\* (worker.rs, clipboard.rs).
THEOREM ClipboardStays == CaptureSpec => ClipboardInPlace
<1>1. CaptureInit => TapPart  BY TapPartStart
<1>2. TapPart /\ [CaptureNext]_captureVars => TapPart'  BY TapPartStep
<1>3. TapPart => (part = "tap" => BodiesStayInPlace)  BY DEF TapPart, TapHold
<1>4. TapPart /\ [CaptureNext]_captureVars =>
        [part = "tap" => OneCopyPerShortcut]_captureVars
  BY TapPartStep
<1>. QED  BY <1>1, <1>2, <1>3, <1>4, PTL DEF CaptureSpec, ClipboardInPlace

-----------------------------------------------------------------------------
(* AppObservers: the collector's picture of the applications, the tracked   *)
(* one and the accessibility trees.                                         *)

Programs == Apps \union {NoApp}
Flags == {"none", "plain", "tree"}

\* The applications a queue says this of.
Says(kind, q) == {q[i].app : i \in {j \in DOMAIN q : q[j].kind = kind}}

\* Nothing is said of an application after its end.
Final(q) ==
  \A i, j \in DOMAIN q : (i < j /\ q[i].kind = "terminated") => q[i].app # q[j].app

\* The callback queue is behind the batch, and the batch behind the channel.
Departed(c, p, r) == Says("terminated", c) \union Says("terminated", p) \union Says("terminated", r)
Awaited(c, p, r) == Says("launched", c) \union Says("launched", p) \union Mentioned(r)
Aloft(c, p, r) == Mentioned(c) \union Mentioned(p) \union Mentioned(r)

Ordered(c, p, r, live) ==
  /\ Final(c) /\ Final(p) /\ Final(r)
  /\ Says("terminated", r) \intersect (Mentioned(p) \union Mentioned(c)) = {}
  /\ Says("terminated", p) \intersect Mentioned(c) = {}
  /\ live \intersect Departed(c, p, r) = {}

\* The last application a queue says was activated, and the last one heard of
\* from the queues and, once the frontmost was asked for, the thread itself.
LastActivated(q, app) ==
  \E k \in DOMAIN q :
    /\ q[k].kind = "activated" /\ q[k].app = app
    /\ \A j \in DOMAIN q : k < j => q[j].kind # "activated"

Heralded(stage, c, p, t, app) ==
  \/ LastActivated(c, app)
  \/ Says("activated", c) = {} /\ LastActivated(p, app)
  \/ /\ stage = "polling" /\ app = t
     /\ Says("activated", c) = {} /\ Says("activated", p) = {}

\* That the tracked application is in front is not inductive: on its way is
\* the application in front, or the end of what was.
FrontKnown(stage, lost, c, p, t, f) ==
  /\ stage \in {"off", "starting"} => p = <<>>
  /\ stage \in {"starting", "asking"} => t = NoApp
  /\ stage = "asking" => Says("activated", p) = {}
  /\ (stage # "off" /\ ~lost) => \A app \in Programs :
       Heralded(stage, c, p, t, app) =>
         \/ f = app
         \/ f = NoApp /\ app \in Says("terminated", c) \union Says("terminated", p)

\* PictureMatches while notices are under way: the end of what does not run any
\* more, or a reason to attach to what runs, is still to come.
Pictured(live, lost, fl, en, an, obs, una, todo, stage) ==
  /\ \A app \in una : obs[app] = "none"
  /\ stage = "off" => una = {} /\ \A app \in Apps : obs[app] = "none"
  /\ stage \in {"looping", "reconciling"} => todo = {}
  /\ \A app \in Apps \ lost :
       /\ app \notin live /\ app \in fl => app \in en
       /\ stage # "off" /\ app \notin live /\ app \notin fl =>
            obs[app] = "none" /\ app \notin una /\ app \notin todo
       /\ stage # "off" /\ app \in live =>
            app \in todo \/ app \in una \/ app \in an \/ obs[app] # "none"

\* Trees are those of running applications, by the observers that asked.
Grown(live, lost, obs, tr) ==
  /\ \A app \in tr : app \in live /\ obs[app] = "tree"
  /\ \A app \in live \ lost : obs[app] = "tree" => app \in tr

\* The observers' flags are the filter's, except what a pass has still to visit.
Flagged(stage, rest, obs, perm, seen, read, gen, late) ==
  /\ stage = "reconciling" => \A app \in rest : obs[app] # "none"
  /\ (/\ ~late
      /\ \/ stage = "attaching"
         \/ stage = "looping" /\ seen = gen
         \/ stage = "reconciling" /\ read = gen) =>
       \A app \in Apps :
         \/ obs[app] = "none"
         \/ stage = "reconciling" /\ app \in rest
         \/ obs[app] = IF app \in perm THEN "tree" ELSE "plain"

QueuesTyped ==
  /\ watching \in BOOLEAN /\ blind \in BOOLEAN
  /\ callbacks \in Seq(Notices) /\ Len(callbacks) <= CallbackLimit
  /\ polled \in Seq(Notices)
  /\ relayed \in Seq(Notices) /\ Len(relayed) <= ChannelLimit
  /\ wsStage \in {"off", "starting", "asking", "polling"}
  /\ tracked \in Programs /\ unseen \subseteq Apps

AppsTyped ==
  /\ alive \subseteq Apps /\ frontApp \in alive \union {NoApp}
  /\ axStage \in {"off", "attaching", "looping", "reconciling"}
  /\ toAttach \subseteq Apps /\ toReconcile \subseteq Apps
  /\ observers \in [Apps -> Flags]
  /\ appsUsed \subseteq Apps /\ unavailable \subseteq Apps
  /\ ledger \subseteq Apps \X {"attach", "read", "unregister"}
  /\ permitted \subseteq Apps /\ raced \in BOOLEAN

Counted ==
  /\ filterGeneration \in Nat /\ seenGeneration \in Nat /\ readGeneration \in Nat
  /\ seenGeneration <= filterGeneration /\ readGeneration <= filterGeneration
  /\ spent \in [{"moves", "troubles"} -> Nat]
  /\ filterGeneration <= spent["troubles"] /\ spent["troubles"] <= MaxAppTroubles

AppsHold ==
  /\ QueuesTyped /\ AppsTyped /\ Counted
  /\ Ordered(callbacks, polled, relayed, alive)
  /\ FrontKnown(wsStage, blind, callbacks, polled, tracked, frontApp)
  /\ Pictured(alive, unseen, Aloft(callbacks, polled, relayed), Departed(callbacks, polled, relayed),
              Awaited(callbacks, polled, relayed), observers, unavailable, toAttach, axStage)
  /\ Grown(alive, unseen, observers, trees)
  /\ Flagged(axStage, toReconcile, observers, permitted, seenGeneration, readGeneration,
             filterGeneration, raced)

-----------------------------------------------------------------------------
(* What is said in a queue.                                                 *)

LEMMA SaysNothing ==
  ASSUME NEW kind
  PROVE  Says(kind, <<>>) = {} /\ Mentioned(<<>>) = {}
  BY DEF Says, Mentioned

LEMMA SaysMentioned ==
  ASSUME NEW q, NEW kind
  PROVE  Says(kind, q) \subseteq Mentioned(q)
  BY DEF Says, Mentioned

LEMMA SaysAppended ==
  ASSUME NEW q \in Seq(Notices), NEW n \in Notices, NEW kind
  PROVE  /\ Says(kind, Append(q, n)) = Says(kind, q) \union (IF n.kind = kind THEN {n.app} ELSE {})
         /\ Mentioned(Append(q, n)) = Mentioned(q) \union {n.app}
<1>. DEFINE l == Append(q, n)
            k == Len(q) + 1
<1>1. /\ DOMAIN l = DOMAIN q \union {k} /\ k \in DOMAIN l
      /\ \A i \in DOMAIN q : l[i] = q[i]
      /\ l[k] = n
  OBVIOUS
<1>. HIDE DEF l, k
<1>2. Mentioned(l) = Mentioned(q) \union {n.app}
  <2>1. ASSUME NEW a \in Mentioned(l) PROVE a \in Mentioned(q) \union {n.app}
    BY <1>1, <2>1 DEF Mentioned
  <2>2. Mentioned(q) \subseteq Mentioned(l)
    BY <1>1 DEF Mentioned
  <2>3. n.app \in Mentioned(l)
    BY <1>1 DEF Mentioned
  <2>. QED  BY <2>1, <2>2, <2>3
<1>3. Says(kind, l) = Says(kind, q) \union (IF n.kind = kind THEN {n.app} ELSE {})
  <2>1. ASSUME NEW a \in Says(kind, l)
        PROVE  a \in Says(kind, q) \/ (n.kind = kind /\ a = n.app)
    BY <1>1, <2>1 DEF Says
  <2>2. ASSUME NEW a \in Says(kind, q) PROVE a \in Says(kind, l)
    BY <1>1, <2>2 DEF Says
  <2>3. n.kind = kind => n.app \in Says(kind, l)
    BY <1>1 DEF Says
  <2>. QED  BY <2>1, <2>2, <2>3
<1>. QED  BY <1>2, <1>3 DEF l

LEMMA SaysTail ==
  ASSUME NEW q \in Seq(Notices), q # <<>>, NEW kind
  PROVE  /\ Head(q) \in Notices /\ Tail(q) \in Seq(Notices)
         /\ Says(kind, q) = Says(kind, Tail(q))
                              \union (IF Head(q).kind = kind THEN {Head(q).app} ELSE {})
         /\ Mentioned(q) = Mentioned(Tail(q)) \union {Head(q).app}
<1>. DEFINE s == Tail(q)
            h == Head(q)
<1>1. /\ s \in Seq(Notices) /\ h \in Notices /\ h = q[1] /\ 1 \in DOMAIN q
      /\ \A i \in DOMAIN s : i + 1 \in DOMAIN q /\ s[i] = q[i + 1]
      /\ \A j \in DOMAIN q : j = 1 \/ (j - 1 \in DOMAIN s /\ s[j - 1] = q[j])
  OBVIOUS
<1>. HIDE DEF s, h
<1>2. Mentioned(q) = Mentioned(s) \union {h.app}
  <2>1. ASSUME NEW a \in Mentioned(s) PROVE a \in Mentioned(q)
    <3>1. PICK i \in DOMAIN s : a = s[i].app  BY <2>1 DEF Mentioned
    <3>. QED  BY <1>1, <3>1 DEF Mentioned
  <2>2. h.app \in Mentioned(q)
    BY <1>1 DEF Mentioned
  <2>3. ASSUME NEW a \in Mentioned(q) PROVE a \in Mentioned(s) \/ a = h.app
    <3>1. PICK i \in DOMAIN q : a = q[i].app  BY <2>3 DEF Mentioned
    <3>. QED  BY <1>1, <3>1 DEF Mentioned
  <2>. QED  BY <2>1, <2>2, <2>3
<1>3. Says(kind, q) = Says(kind, s) \union (IF h.kind = kind THEN {h.app} ELSE {})
  <2>1. ASSUME NEW a \in Says(kind, s) PROVE a \in Says(kind, q)
    <3>1. PICK i \in DOMAIN s : s[i].kind = kind /\ a = s[i].app  BY <2>1 DEF Says
    <3>. QED  BY <1>1, <3>1 DEF Says
  <2>2. h.kind = kind => h.app \in Says(kind, q)
    BY <1>1 DEF Says
  <2>3. ASSUME NEW a \in Says(kind, q)
        PROVE  a \in Says(kind, s) \/ (h.kind = kind /\ a = h.app)
    <3>1. PICK i \in DOMAIN q : q[i].kind = kind /\ a = q[i].app  BY <2>3 DEF Says
    <3>. QED  BY <1>1, <3>1 DEF Says
  <2>. QED  BY <2>1, <2>2, <2>3
<1>. QED  BY <1>1, <1>2, <1>3 DEF s, h

LEMMA FinalAppended ==
  ASSUME NEW q \in Seq(Notices), NEW n \in Notices, Final(q), n.app \notin Says("terminated", q)
  PROVE  Final(Append(q, n))
<1>. DEFINE l == Append(q, n)
<1>1. /\ DOMAIN l = DOMAIN q \union {Len(q) + 1} /\ DOMAIN q = 1..Len(q) /\ Len(q) \in Nat
      /\ \A i \in DOMAIN q : l[i] = q[i]
      /\ l[Len(q) + 1] = n
  OBVIOUS
<1>. HIDE DEF l
<1>2. \A i \in DOMAIN q : q[i].kind = "terminated" => q[i].app # n.app
  BY DEF Says
<1>3. Final(l)
  BY <1>1, <1>2 DEF Final
<1>. QED  BY <1>3 DEF l

LEMMA FinalTail ==
  ASSUME NEW q \in Seq(Notices), q # <<>>, Final(q)
  PROVE  /\ Final(Tail(q))
         /\ Head(q).kind = "terminated" => Head(q).app \notin Mentioned(Tail(q))
<1>. DEFINE s == Tail(q)
            h == Head(q)
<1>1. /\ h = q[1] /\ 1 \in DOMAIN q /\ DOMAIN s \subseteq Nat \ {0}
      /\ \A i \in DOMAIN s : i + 1 \in DOMAIN q /\ s[i] = q[i + 1]
  OBVIOUS
<1>. HIDE DEF s, h
<1>2. Final(s)
  BY <1>1 DEF Final
<1>3. h.kind = "terminated" => h.app \notin Mentioned(s)
  BY <1>1 DEF Final, Mentioned
<1>. QED  BY <1>2, <1>3 DEF s, h

LEMMA FinalEmpty == Final(<<>>)
  BY DEF Final

LEMMA ActivatedAppended ==
  ASSUME NEW q \in Seq(Notices), NEW n \in Notices, NEW app, LastActivated(Append(q, n), app)
  PROVE  IF n.kind = "activated" THEN app = n.app ELSE LastActivated(q, app)
<1>. DEFINE l == Append(q, n)
<1>1. /\ DOMAIN l = DOMAIN q \union {Len(q) + 1} /\ DOMAIN q = 1..Len(q) /\ Len(q) \in Nat
      /\ \A i \in DOMAIN q : l[i] = q[i]
      /\ l[Len(q) + 1] = n
  OBVIOUS
<1>2. LastActivated(l, app)  OBVIOUS
<1>. HIDE DEF l
<1>. QED  BY <1>1, <1>2 DEF LastActivated

LEMMA ActivatedTail ==
  ASSUME NEW q \in Seq(Notices), q # <<>>
  PROVE  /\ \A app : LastActivated(Tail(q), app) => LastActivated(q, app)
         /\ Says("activated", Tail(q)) = {} /\ Head(q).kind = "activated" =>
              LastActivated(q, Head(q).app)
<1>. DEFINE s == Tail(q)
            h == Head(q)
<1>1. /\ h = q[1] /\ 1 \in DOMAIN q /\ DOMAIN s \subseteq Nat \ {0} /\ DOMAIN q \subseteq Nat
      /\ \A i \in DOMAIN s : i + 1 \in DOMAIN q /\ s[i] = q[i + 1]
      /\ \A j \in DOMAIN q : 1 < j => j - 1 \in DOMAIN s /\ s[j - 1] = q[j]
  OBVIOUS
<1>. HIDE DEF s, h
<1>2. ASSUME NEW app, LastActivated(s, app) PROVE LastActivated(q, app)
  <2>1. PICK k \in DOMAIN s : /\ s[k].kind = "activated" /\ s[k].app = app
                              /\ \A j \in DOMAIN s : k < j => s[j].kind # "activated"
    BY <1>2 DEF LastActivated
  <2>2. k + 1 \in DOMAIN q /\ q[k + 1].kind = "activated" /\ q[k + 1].app = app
    BY <1>1, <2>1
  <2>3. ASSUME NEW j \in DOMAIN q, k + 1 < j PROVE q[j].kind # "activated"
    <3>1. k \in Nat /\ j \in Nat /\ 1 < j /\ k < j - 1  BY <1>1, <2>1, <2>3
    <3>. QED  BY <1>1, <2>1, <3>1
  <2>. QED  BY <2>2, <2>3 DEF LastActivated
<1>3. ASSUME Says("activated", s) = {}, h.kind = "activated" PROVE LastActivated(q, h.app)
  <2>1. \A i \in DOMAIN s : s[i].kind # "activated"  BY <1>3 DEF Says
  <2>2. ASSUME NEW j \in DOMAIN q, 1 < j PROVE q[j].kind # "activated"
    BY <1>1, <2>1, <2>2
  <2>3. 1 \in DOMAIN q /\ q[1].kind = "activated" /\ q[1].app = h.app
    BY <1>1, <1>3
  <2>. QED  BY <2>2, <2>3 DEF LastActivated
<1>. QED  BY <1>2, <1>3 DEF s, h

LEMMA ActivatedSaid ==
  ASSUME NEW q, NEW app, LastActivated(q, app)
  PROVE  app \in Says("activated", q) /\ app \in Mentioned(q)
  BY DEF LastActivated, Says, Mentioned

-----------------------------------------------------------------------------
(* The order of the queues: what each of their moves keeps.                 *)

LEMMA OrderedAppended ==
  ASSUME NEW c \in Seq(Notices), NEW p, NEW r, NEW live, NEW later, NEW n \in Notices,
         Ordered(c, p, r, live), n.app \notin Departed(c, p, r),
         later \intersect Departed(c, p, r) = {},
         n.kind = "terminated" => n.app \notin later
  PROVE  Ordered(Append(c, n), p, r, later)
<1>1. /\ Says("terminated", Append(c, n))
           = Says("terminated", c) \union (IF n.kind = "terminated" THEN {n.app} ELSE {})
      /\ Mentioned(Append(c, n)) = Mentioned(c) \union {n.app}
  BY SaysAppended
<1>2. Final(Append(c, n))
  BY FinalAppended DEF Ordered, Departed
<1>. QED  BY <1>1, <1>2 DEF Ordered, Departed

LEMMA OrderedTaken ==
  ASSUME NEW c, NEW r, NEW live, Ordered(c, <<>>, r, live)
  PROVE  Ordered(<<>>, c, r, live)
  BY SaysNothing, FinalEmpty DEF Ordered, Departed

LEMMA OrderedDropped ==
  ASSUME NEW c, NEW p, NEW r, NEW live, Ordered(c, p, r, live)
  PROVE  Ordered(<<>>, <<>>, r, live)
  BY SaysNothing, FinalEmpty DEF Ordered, Departed

LEMMA OrderedHandled ==
  ASSUME NEW c, NEW p, NEW r \in Seq(Notices), r # <<>>, NEW live, Ordered(c, p, r, live)
  PROVE  Ordered(c, p, Tail(r), live)
<1>1. Says("terminated", Tail(r)) \subseteq Says("terminated", r)  BY SaysTail
<1>2. Final(Tail(r))  BY FinalTail DEF Ordered
<1>. QED  BY <1>1, <1>2 DEF Ordered, Departed

LEMMA OrderedRelayed ==
  ASSUME NEW c, NEW p \in Seq(Notices), NEW r \in Seq(Notices), p # <<>>, NEW live,
         Ordered(c, p, r, live)
  PROVE  /\ Ordered(c, Tail(p), r, live)
         /\ Ordered(c, Tail(p), Append(r, Head(p)), live)
<1>. DEFINE h == Head(p)
<1>1. /\ h \in Notices /\ Final(Tail(p))
      /\ h.kind = "terminated" => h.app \notin Mentioned(Tail(p))
  BY SaysTail, FinalTail DEF Ordered
<1>2. /\ Says("terminated", p)
           = Says("terminated", Tail(p)) \union (IF h.kind = "terminated" THEN {h.app} ELSE {})
      /\ Mentioned(p) = Mentioned(Tail(p)) \union {h.app}
  BY SaysTail
<1>3. /\ Says("terminated", Append(r, h))
           = Says("terminated", r) \union (IF h.kind = "terminated" THEN {h.app} ELSE {})
      /\ Mentioned(Append(r, h)) = Mentioned(r) \union {h.app}
  BY <1>1, SaysAppended
<1>. HIDE DEF h
<1>4. h.app \notin Says("terminated", r)
  BY <1>2 DEF Ordered
<1>5. Final(Append(r, h))
  BY <1>1, <1>4, FinalAppended DEF Ordered
<1>6. Ordered(c, Tail(p), r, live)
  BY <1>1, <1>2 DEF Ordered, Departed
<1>7. Ordered(c, Tail(p), Append(r, h), live)
  BY <1>1, <1>2, <1>3, <1>5 DEF Ordered, Departed
<1>. QED  BY <1>6, <1>7 DEF h

LEMMA OrderedAsked ==
  ASSUME NEW c, NEW p, NEW r \in Seq(Notices), NEW live, NEW n \in Notices,
         Ordered(c, p, r, live), n.kind = "activated", n.app \in live
  PROVE  Ordered(c, p, Append(r, n), live)
<1>1. Says("terminated", Append(r, n)) = Says("terminated", r)
  <2>1. Says("terminated", Append(r, n))
          = Says("terminated", r) \union (IF n.kind = "terminated" THEN {n.app} ELSE {})
    BY SaysAppended
  <2>. QED  BY <2>1
<1>2. Final(Append(r, n))
  BY FinalAppended DEF Ordered, Departed
<1>. QED  BY <1>1, <1>2 DEF Ordered, Departed

-----------------------------------------------------------------------------
(* The application in front: what the queues' moves keep.                   *)

LEMMA FrontAppended ==
  ASSUME NEW c \in Seq(Notices), NEW p, NEW n \in Notices, NEW stage, NEW lost, NEW t,
         NEW f, NEW g, FrontKnown(stage, lost, c, p, t, f),
         n.kind = "activated" => g = n.app,
         n.kind = "launched" => g = f,
         n.kind = "terminated" => g = IF f = n.app THEN NoApp ELSE f
  PROVE  FrontKnown(stage, lost, Append(c, n), p, t, g)
<1>. DEFINE l == Append(c, n)
<1>1. /\ Says("terminated", l)
           = Says("terminated", c) \union (IF n.kind = "terminated" THEN {n.app} ELSE {})
      /\ Says("activated", l)
           = Says("activated", c) \union (IF n.kind = "activated" THEN {n.app} ELSE {})
  BY SaysAppended
<1>2. \A app : LastActivated(l, app) =>
        IF n.kind = "activated" THEN app = n.app ELSE LastActivated(c, app)
  BY ActivatedAppended
<1>3. n.kind \in {"launched", "activated", "terminated"} /\ n.app \in Apps /\ NoApp \notin Apps
  BY AppsAssumption DEF Notices
<1>. HIDE DEF l
<1>4. ASSUME NEW app \in Programs, stage # "off", ~lost, Heralded(stage, l, p, t, app)
      PROVE  g = app \/ (g = NoApp /\ app \in Says("terminated", l) \union Says("terminated", p))
  <2>1. CASE n.kind = "activated"
    BY <1>1, <1>2, <1>4, <2>1 DEF Heralded
  <2>2. CASE n.kind # "activated"
    <3>1. Heralded(stage, c, p, t, app)
      BY <1>1, <1>2, <1>4, <2>2 DEF Heralded
    <3>2. f = app \/ (f = NoApp /\ app \in Says("terminated", c) \union Says("terminated", p))
      BY <1>4, <3>1 DEF FrontKnown
    <3>. QED  BY <1>1, <1>3, <2>2, <3>2
  <2>. QED  BY <2>1, <2>2
<1>5. FrontKnown(stage, lost, l, p, t, g)
  BY <1>4 DEF FrontKnown
<1>. QED  BY <1>5 DEF l

LEMMA FrontTaken ==
  ASSUME NEW c, NEW stage, NEW next, NEW lost, NEW t, NEW f,
         FrontKnown(stage, lost, c, <<>>, t, f),
         \/ stage = "polling" /\ next = "polling"
         \/ stage = "starting" /\ next = IF Says("activated", c) # {} THEN "polling" ELSE "asking"
  PROVE  FrontKnown(next, lost, <<>>, c, t, f)
<1>1. Says("terminated", <<>>) = {} /\ Says("activated", <<>>) = {}  BY SaysNothing
<1>2. \A app : ~LastActivated(<<>>, app)  BY <1>1, ActivatedSaid
<1>3. \A app : LastActivated(c, app) => app \in Says("activated", c)  BY ActivatedSaid
<1>4. ASSUME NEW app \in Programs, ~lost, Heralded(next, <<>>, c, t, app)
      PROVE  Heralded(stage, c, <<>>, t, app)
  BY <1>1, <1>2, <1>3, <1>4 DEF Heralded
<1>. QED  BY <1>1, <1>4 DEF FrontKnown

LEMMA FrontRelayed ==
  ASSUME NEW c, NEW p \in Seq(Notices), NEW r, p # <<>>, NEW live \in SUBSET Apps,
         NEW stage \in {"asking", "polling"}, NEW lost, NEW t \in Programs,
         NEW f \in live \union {NoApp}, NEW u,
         Ordered(c, p, r, live), FrontKnown(stage, lost, c, p, t, f),
         u = IF Head(p).kind = "activated" THEN Head(p).app
             ELSE IF Head(p).kind = "terminated" /\ t = Head(p).app THEN NoApp ELSE t
  PROVE  FrontKnown(stage, lost, c, Tail(p), u, f)
<1>. DEFINE h == Head(p)
            s == Tail(p)
<1>1. /\ h \in Notices /\ s \in Seq(Notices)
      /\ Says("terminated", p) = Says("terminated", s)
           \union (IF h.kind = "terminated" THEN {h.app} ELSE {})
      /\ Says("activated", p) = Says("activated", s)
           \union (IF h.kind = "activated" THEN {h.app} ELSE {})
      /\ Mentioned(p) = Mentioned(s) \union {h.app}
      /\ h.kind = "terminated" => h.app \notin Mentioned(s)
  BY SaysTail, FinalTail DEF Ordered
<1>2. /\ \A app : LastActivated(s, app) => LastActivated(p, app) /\ app \in Mentioned(s)
      /\ \A app : LastActivated(c, app) => app \in Mentioned(c)
      /\ Says("activated", s) = {} /\ h.kind = "activated" => LastActivated(p, h.app)
  BY ActivatedTail, ActivatedSaid
<1>3. h.app \in Apps /\ NoApp \notin Apps /\ h.kind \in {"launched", "activated", "terminated"}
  BY <1>1, AppsAssumption DEF Notices
<1>4. u = IF h.kind = "activated" THEN h.app
          ELSE IF h.kind = "terminated" /\ t = h.app THEN NoApp ELSE t
  OBVIOUS
<1>. HIDE DEF h, s
<1>5. stage = "asking" => u = NoApp /\ Says("activated", s) = {}
  BY <1>1, <1>3, <1>4 DEF FrontKnown
<1>6. ASSUME NEW app \in Programs, ~lost, Heralded(stage, c, s, u, app)
      PROVE  f = app \/ (f = NoApp /\ app \in Says("terminated", c) \union Says("terminated", s))
  <2>1. CASE h.kind = "terminated" /\ t = h.app /\ app = u /\ stage = "polling"
             /\ Says("activated", c) = {} /\ Says("activated", s) = {}
    <3>1. Heralded(stage, c, p, t, t)
      BY <1>1, <2>1 DEF Heralded
    <3>2. f = t \/ f = NoApp
      BY <1>6, <2>1, <3>1 DEF FrontKnown
    <3>3. t \in Says("terminated", p) /\ t \notin live
      BY <1>1, <2>1 DEF Ordered, Departed
    <3>. QED  BY <1>3, <1>4, <2>1, <3>2, <3>3
  <2>2. CASE /\ Heralded(stage, c, p, t, app)
             /\ ~(h.kind = "terminated" /\ app = h.app)
    <3>1. f = app \/ (f = NoApp /\ app \in Says("terminated", c) \union Says("terminated", p))
      BY <1>6, <2>2 DEF FrontKnown
    <3>. QED  BY <1>1, <2>2, <3>1
  <2>3. \/ LastActivated(c, app)
        \/ Says("activated", c) = {} /\ LastActivated(s, app)
        \/ /\ stage = "polling" /\ app = u
           /\ Says("activated", c) = {} /\ Says("activated", s) = {}
    BY <1>6 DEF Heralded
  <2>4. CASE LastActivated(c, app)
    <3>1. Heralded(stage, c, p, t, app)  BY <2>4 DEF Heralded
    <3>2. h.kind = "terminated" => h.app \notin Mentioned(c)  BY <1>1 DEF Ordered
    <3>. QED  BY <1>2, <2>2, <2>4, <3>1, <3>2
  <2>5. CASE Says("activated", c) = {} /\ LastActivated(s, app)
    <3>1. Heralded(stage, c, p, t, app)  BY <1>2, <2>5 DEF Heralded
    <3>. QED  BY <1>1, <1>2, <2>2, <2>5, <3>1
  <2>6. CASE /\ stage = "polling" /\ app = u
             /\ Says("activated", c) = {} /\ Says("activated", s) = {}
    <3>1. CASE h.kind = "activated"
      BY <1>2, <1>4, <2>2, <2>6, <3>1 DEF Heralded
    <3>2. CASE h.kind # "activated" /\ ~(h.kind = "terminated" /\ t = h.app)
      BY <1>1, <1>4, <2>2, <2>6, <3>2 DEF Heralded
    <3>. QED  BY <2>1, <2>6, <3>1, <3>2
  <2>. QED  BY <2>3, <2>4, <2>5, <2>6
<1>7. FrontKnown(stage, lost, c, s, u, f)
  BY <1>5, <1>6 DEF FrontKnown
<1>. QED  BY <1>7 DEF s

LEMMA FrontAsked ==
  ASSUME NEW c, NEW lost, NEW t, NEW f, FrontKnown("asking", lost, c, <<>>, t, f)
  PROVE  FrontKnown("polling", lost, c, <<>>, f, f)
<1>1. \A app : ~LastActivated(<<>>, app)  BY SaysNothing, ActivatedSaid
<1>2. \A app : Heralded("polling", c, <<>>, f, app) =>
        app = f \/ Heralded("asking", c, <<>>, t, app)
  BY <1>1 DEF Heralded
<1>. QED  BY <1>2 DEF FrontKnown

-----------------------------------------------------------------------------
(* The picture: what changes of the queues and of the system keep.          *)

LEMMA AppsBounds ==
  /\ NoApp \notin Apps /\ CallbackLimit \in Nat /\ ChannelLimit \in Nat
  /\ MaxAppMoves \in Nat /\ MaxAppTroubles \in Nat
  BY AppsAssumption

LEMMA SpendCounts ==
  ASSUME Counted, NEW what \in {"moves", "troubles"}, Spend(what)
  PROVE  /\ spent' \in [{"moves", "troubles"} -> Nat]
         /\ spent["troubles"] <= spent'["troubles"] /\ spent'["troubles"] <= MaxAppTroubles
         /\ what = "troubles" => spent'["troubles"] = spent["troubles"] + 1
<1>1. /\ spent \in [{"moves", "troubles"} -> Nat] /\ spent["troubles"] <= MaxAppTroubles
      /\ spent' = [spent EXCEPT ![what] = spent[what] + 1]
      /\ spent[what] < Bounds[what]
  BY DEF Counted, Spend
<1>2. Bounds["troubles"] = MaxAppTroubles /\ MaxAppTroubles \in Nat
  BY AppsBounds DEF Bounds
<1>3. CASE what = "troubles"
  BY <1>1, <1>2, <1>3
<1>4. CASE what = "moves"
  BY <1>1, <1>2, <1>4
<1>. QED  BY <1>3, <1>4

LEMMA PictureQuiet ==
  ASSUME NEW live, NEW lost, NEW fl, NEW en, NEW an, NEW obs, NEW una, NEW todo, NEW stage,
         Pictured(live, lost, fl, en, an, obs, una, todo, stage),
         NEW lostNext, NEW flNext, NEW enNext, NEW anNext,
         lost \subseteq lostNext, enNext \subseteq flNext,
         \A app \in Apps \ lostNext :
           /\ app \in en => app \in enNext
           /\ app \in an => app \in anNext
           /\ app \in flNext => app \in fl \/ app \in live
  PROVE  Pictured(live, lostNext, flNext, enNext, anNext, obs, una, todo, stage)
  BY DEF Pictured

LEMMA SaidAloft ==
  ASSUME NEW c, NEW p, NEW r
  PROVE  Departed(c, p, r) \subseteq Aloft(c, p, r) /\ Awaited(c, p, r) \subseteq Aloft(c, p, r)
  BY SaysMentioned DEF Departed, Awaited, Aloft

LEMMA SaidAppended ==
  ASSUME NEW c \in Seq(Notices), NEW p, NEW r, NEW n \in Notices
  PROVE  /\ Aloft(Append(c, n), p, r) = Aloft(c, p, r) \union {n.app}
         /\ Departed(Append(c, n), p, r) = Departed(c, p, r)
              \union (IF n.kind = "terminated" THEN {n.app} ELSE {})
         /\ Awaited(Append(c, n), p, r) = Awaited(c, p, r)
              \union (IF n.kind = "launched" THEN {n.app} ELSE {})
<1>1. /\ Says("terminated", Append(c, n))
           = Says("terminated", c) \union (IF n.kind = "terminated" THEN {n.app} ELSE {})
      /\ Says("launched", Append(c, n))
           = Says("launched", c) \union (IF n.kind = "launched" THEN {n.app} ELSE {})
      /\ Mentioned(Append(c, n)) = Mentioned(c) \union {n.app}
  BY SaysAppended
<1>. QED  BY <1>1 DEF Aloft, Departed, Awaited

LEMMA SaidTaken ==
  ASSUME NEW c, NEW r
  PROVE  /\ Aloft(<<>>, c, r) = Aloft(c, <<>>, r)
         /\ Departed(<<>>, c, r) = Departed(c, <<>>, r)
         /\ Awaited(<<>>, c, r) = Awaited(c, <<>>, r)
  BY SaysNothing DEF Aloft, Departed, Awaited

\* A notice the thread relays stays aloft; one it does not was an activation of
\* the tracked application or is about an application that is now lost.
LEMMA SaidRelayed ==
  ASSUME NEW c, NEW p \in Seq(Notices), NEW r \in Seq(Notices), p # <<>>
  PROVE  /\ Aloft(c, Tail(p), Append(r, Head(p))) = Aloft(c, p, r)
         /\ Departed(c, Tail(p), Append(r, Head(p))) = Departed(c, p, r)
         /\ Awaited(c, p, r) \subseteq Awaited(c, Tail(p), Append(r, Head(p)))
         /\ Aloft(c, Tail(p), r) \subseteq Aloft(c, p, r)
         /\ \A app : app \in Departed(c, p, r) \ Departed(c, Tail(p), r) =>
              app = Head(p).app /\ Head(p).kind = "terminated"
         /\ \A app : app \in Awaited(c, p, r) \ Awaited(c, Tail(p), r) =>
              app = Head(p).app /\ Head(p).kind = "launched"
<1>. DEFINE h == Head(p)
<1>0. h \in Notices  BY SaysTail
<1>1. /\ Says("terminated", p)
           = Says("terminated", Tail(p)) \union (IF h.kind = "terminated" THEN {h.app} ELSE {})
      /\ Says("launched", p)
           = Says("launched", Tail(p)) \union (IF h.kind = "launched" THEN {h.app} ELSE {})
      /\ Mentioned(p) = Mentioned(Tail(p)) \union {h.app}
  BY SaysTail
<1>2. /\ Says("terminated", Append(r, h))
           = Says("terminated", r) \union (IF h.kind = "terminated" THEN {h.app} ELSE {})
      /\ Mentioned(Append(r, h)) = Mentioned(r) \union {h.app}
  BY <1>0, SaysAppended
<1>. HIDE DEF h
<1>3. /\ Aloft(c, Tail(p), Append(r, h)) = Aloft(c, p, r)
      /\ Aloft(c, Tail(p), r) \subseteq Aloft(c, p, r)
  BY <1>1, <1>2 DEF Aloft
<1>4. /\ Departed(c, Tail(p), Append(r, h)) = Departed(c, p, r)
      /\ \A app : app \in Departed(c, p, r) \ Departed(c, Tail(p), r) =>
           app = h.app /\ h.kind = "terminated"
  BY <1>1, <1>2 DEF Departed
<1>5. /\ Awaited(c, p, r) \subseteq Awaited(c, Tail(p), Append(r, h))
      /\ \A app : app \in Awaited(c, p, r) \ Awaited(c, Tail(p), r) =>
           app = h.app /\ h.kind = "launched"
  BY <1>1, <1>2 DEF Awaited
<1>. QED  BY <1>3, <1>4, <1>5 DEF h

LEMMA SaidAsked ==
  ASSUME NEW c, NEW p, NEW r \in Seq(Notices), NEW n \in Notices, n.kind = "activated"
  PROVE  /\ Aloft(c, p, Append(r, n)) = Aloft(c, p, r) \union {n.app}
         /\ Departed(c, p, Append(r, n)) = Departed(c, p, r)
         /\ Awaited(c, p, r) \subseteq Awaited(c, p, Append(r, n))
<1>1. /\ Says("terminated", Append(r, n))
           = Says("terminated", r) \union (IF n.kind = "terminated" THEN {n.app} ELSE {})
      /\ Mentioned(Append(r, n)) = Mentioned(r) \union {n.app}
  BY SaysAppended
<1>. QED  BY <1>1 DEF Aloft, Departed, Awaited

LEMMA SaidHandled ==
  ASSUME NEW c, NEW p, NEW r \in Seq(Notices), r # <<>>, NEW live, Ordered(c, p, r, live)
  PROVE  /\ Aloft(c, p, r) = Aloft(c, p, Tail(r)) \union {Head(r).app}
         /\ Departed(c, p, r) = Departed(c, p, Tail(r))
              \union (IF Head(r).kind = "terminated" THEN {Head(r).app} ELSE {})
         /\ Awaited(c, p, r) = Awaited(c, p, Tail(r)) \union {Head(r).app}
         /\ Head(r).kind = "terminated" =>
              Head(r).app \notin Aloft(c, p, Tail(r)) /\ Head(r).app \notin live
<1>. DEFINE h == Head(r)
<1>1. /\ Says("terminated", r)
           = Says("terminated", Tail(r)) \union (IF h.kind = "terminated" THEN {h.app} ELSE {})
      /\ Mentioned(r) = Mentioned(Tail(r)) \union {h.app}
      /\ h.kind = "terminated" => h.app \notin Mentioned(Tail(r))
  BY SaysTail, FinalTail DEF Ordered
<1>. HIDE DEF h
<1>2. h.kind = "terminated" => h.app \notin Aloft(c, p, Tail(r)) /\ h.app \notin live
  BY <1>1 DEF Ordered, Aloft, Departed
<1>3. /\ Aloft(c, p, r) = Aloft(c, p, Tail(r)) \union {h.app}
      /\ Departed(c, p, r) = Departed(c, p, Tail(r))
           \union (IF h.kind = "terminated" THEN {h.app} ELSE {})
      /\ Awaited(c, p, r) = Awaited(c, p, Tail(r)) \union {h.app}
  BY <1>1 DEF Aloft, Departed, Awaited
<1>. QED  BY <1>2, <1>3 DEF h

-----------------------------------------------------------------------------
(* The system's moves.                                                      *)

LEMMA Enqueued ==
  ASSUME QueuesTyped, NEW kind \in {"launched", "activated", "terminated"}, NEW app \in Apps,
         Enqueue(kind, app)
  PROVE  /\ QueuesTyped'
         /\ UNCHANGED <<wsStage, polled, tracked, relayed>>
         /\ [kind |-> kind, app |-> app] \in Notices
         /\ \/ /\ callbacks' = Append(callbacks, [kind |-> kind, app |-> app])
               /\ unseen' = unseen /\ blind' = blind
            \/ callbacks' = callbacks /\ unseen' = unseen \union {app} /\ blind' = TRUE
<1>. DEFINE n == [kind |-> kind, app |-> app]
<1>1. n \in Notices  BY DEF Notices
<1>2. UNCHANGED <<watching, wsStage, polled, tracked, relayed>>  BY DEF Enqueue
<1>3. CASE watching /\ Len(callbacks) < CallbackLimit
  <2>1. /\ callbacks' = Append(callbacks, n) /\ unseen' = unseen /\ blind' = blind
    BY <1>3 DEF Enqueue, QueuesTyped
  <2>2. callbacks' \in Seq(Notices) /\ Len(callbacks') <= CallbackLimit
    <3>1. callbacks \in Seq(Notices)  BY DEF QueuesTyped
    <3>2. Append(callbacks, n) \in Seq(Notices) /\ Len(Append(callbacks, n)) = Len(callbacks) + 1
          /\ Len(callbacks) \in Nat
      BY <1>1, <3>1
    <3>. QED  BY <1>3, <2>1, <3>2, AppsBounds
  <2>. QED  BY <1>1, <1>2, <2>1, <2>2 DEF QueuesTyped
<1>4. CASE ~(watching /\ Len(callbacks) < CallbackLimit)
  <2>1. callbacks' = callbacks /\ unseen' = unseen \union {app} /\ blind' = TRUE
    BY <1>4 DEF Enqueue
  <2>. QED  BY <1>1, <1>2, <2>1 DEF QueuesTyped
<1>. QED  BY <1>3, <1>4

LEMMA AppLaunchesKeeps ==
  ASSUME AppsHold, NEW app \in Apps, AppLaunches(app)
  PROVE  AppsHold'
<1>. USE DEF policyVars, healthVars, loopVars
<1>. DEFINE n == [kind |-> "launched", app |-> app]
            fl == Aloft(callbacks, polled, relayed)
            en == Departed(callbacks, polled, relayed)
            an == Awaited(callbacks, polled, relayed)
<1>1. /\ app \notin alive /\ app \notin fl /\ alive' = alive \union {app}
      /\ Spend("moves") /\ Enqueue("launched", app)
      /\ UNCHANGED <<frontApp, policyVars, healthVars, loopVars>>
  BY DEF AppLaunches, InFlight, Aloft
<1>2. /\ QueuesTyped' /\ n \in Notices /\ UNCHANGED <<wsStage, polled, tracked, relayed>>
      /\ \/ callbacks' = Append(callbacks, n) /\ unseen' = unseen /\ blind' = blind
         \/ callbacks' = callbacks /\ unseen' = unseen \union {app} /\ blind' = TRUE
  BY <1>1, Enqueued DEF AppsHold
<1>3. AppsTyped'
  BY <1>1 DEF AppsHold, AppsTyped
<1>4. Counted'
  <2>1. /\ spent' \in [{"moves", "troubles"} -> Nat]
        /\ spent["troubles"] <= spent'["troubles"] /\ spent'["troubles"] <= MaxAppTroubles
    BY <1>1, SpendCounts DEF AppsHold
  <2>2. spent["troubles"] \in Nat /\ spent'["troubles"] \in Nat
    BY <2>1 DEF AppsHold, Counted
  <2>. QED  BY <1>1, <2>1, <2>2 DEF AppsHold, Counted
<1>5. app \notin en /\ app \notin an
  BY <1>1, SaidAloft
<1>6. Ordered(callbacks', polled', relayed', alive')
  <2>1. alive' \intersect en = {}
    BY <1>1, <1>5 DEF AppsHold, Ordered
  <2>2. CASE callbacks' = Append(callbacks, n)
    <3>1. Ordered(Append(callbacks, n), polled, relayed, alive')
      BY <1>2, <1>5, <2>1, OrderedAppended DEF AppsHold, QueuesTyped
    <3>. QED  BY <1>2, <2>2, <3>1
  <2>3. CASE callbacks' = callbacks
    BY <1>2, <2>1, <2>3 DEF AppsHold, Ordered
  <2>. QED  BY <1>2, <2>2, <2>3
<1>7. FrontKnown(wsStage', blind', callbacks', polled', tracked', frontApp')
  <2>1. CASE callbacks' = Append(callbacks, n) /\ blind' = blind
    <3>1. FrontKnown(wsStage, blind, Append(callbacks, n), polled, tracked, frontApp)
      BY <1>2, FrontAppended DEF AppsHold, QueuesTyped
    <3>. QED  BY <1>1, <1>2, <2>1, <3>1
  <2>2. CASE blind' = TRUE
    BY <1>1, <1>2, <2>2 DEF AppsHold, FrontKnown
  <2>. QED  BY <1>2, <2>1, <2>2
<1>8. axStage = "off" \/ app \in unseen' \/ (observers[app] = "none" /\ app \notin trees)
  <2>1. Pictured(alive, unseen, fl, en, an, observers, unavailable, toAttach, axStage)
    BY DEF AppsHold
  <2>. QED  BY <1>1, <1>2, <2>1 DEF Pictured, AppsHold, Grown
<1>9. Pictured(alive', unseen', Aloft(callbacks', polled', relayed'),
               Departed(callbacks', polled', relayed'), Awaited(callbacks', polled', relayed'),
               observers', unavailable', toAttach', axStage')
  <2>1. Pictured(alive, unseen, fl, en, an, observers, unavailable, toAttach, axStage)
    BY DEF AppsHold
  <2>2. CASE callbacks' = Append(callbacks, n) /\ unseen' = unseen
    <3>1. /\ Aloft(callbacks', polled', relayed') = fl \union {app}
          /\ Departed(callbacks', polled', relayed') = en
          /\ Awaited(callbacks', polled', relayed') = an \union {app}
      <4>1. /\ Aloft(Append(callbacks, n), polled, relayed) = fl \union {n.app}
            /\ Departed(Append(callbacks, n), polled, relayed) = en
                 \union (IF n.kind = "terminated" THEN {n.app} ELSE {})
            /\ Awaited(Append(callbacks, n), polled, relayed) = an
                 \union (IF n.kind = "launched" THEN {n.app} ELSE {})
        BY <1>2, SaidAppended DEF AppsHold, QueuesTyped
      <4>. QED  BY <1>2, <2>2, <4>1
    <3>2. Pictured(alive \union {app}, unseen, fl \union {app}, en, an \union {app},
                   observers, unavailable, toAttach, axStage)
      BY <1>1, <2>1 DEF Pictured
    <3>. QED  BY <1>1, <2>2, <3>1, <3>2
  <2>3. CASE callbacks' = callbacks /\ unseen' = unseen \union {app}
    <3>1. Pictured(alive \union {app}, unseen \union {app}, fl, en, an, observers, unavailable,
                   toAttach, axStage)
      BY <2>1 DEF Pictured
    <3>. QED  BY <1>1, <1>2, <2>3, <3>1
  <2>. QED  BY <1>2, <2>2, <2>3
<1>10. Grown(alive', unseen', observers', trees')
  <2>1. axStage = "off" => observers[app] = "none"
    BY DEF AppsHold, Pictured
  <2>2. unseen \subseteq unseen'  BY <1>2
  <2>. QED  BY <1>1, <1>8, <2>1, <2>2 DEF AppsHold, Grown
<1>11. Flagged(axStage, toReconcile, observers, permitted, seenGeneration, readGeneration,
               filterGeneration, raced)'
  BY <1>1 DEF AppsHold
<1>. QED  BY <1>2, <1>3, <1>4, <1>6, <1>7, <1>9, <1>10, <1>11 DEF AppsHold

LEMMA AppActivatesKeeps ==
  ASSUME AppsHold, NEW app \in Apps, AppActivates(app)
  PROVE  AppsHold'
<1>. USE DEF policyVars, healthVars, loopVars
<1>. DEFINE n == [kind |-> "activated", app |-> app]
            fl == Aloft(callbacks, polled, relayed)
            en == Departed(callbacks, polled, relayed)
            an == Awaited(callbacks, polled, relayed)
<1>1. /\ app \in alive /\ frontApp' = app /\ Spend("moves") /\ Enqueue("activated", app)
      /\ UNCHANGED <<alive, policyVars, healthVars, loopVars>>
  BY DEF AppActivates
<1>2. /\ QueuesTyped' /\ n \in Notices /\ UNCHANGED <<wsStage, polled, tracked, relayed>>
      /\ \/ callbacks' = Append(callbacks, n) /\ unseen' = unseen /\ blind' = blind
         \/ callbacks' = callbacks /\ unseen' = unseen \union {app} /\ blind' = TRUE
  BY <1>1, Enqueued DEF AppsHold
<1>3. AppsTyped'
  BY <1>1 DEF AppsHold, AppsTyped
<1>4. Counted'
  <2>1. /\ spent' \in [{"moves", "troubles"} -> Nat]
        /\ spent["troubles"] <= spent'["troubles"] /\ spent'["troubles"] <= MaxAppTroubles
    BY <1>1, SpendCounts DEF AppsHold
  <2>2. spent["troubles"] \in Nat /\ spent'["troubles"] \in Nat
    BY <2>1 DEF AppsHold, Counted
  <2>. QED  BY <1>1, <2>1, <2>2 DEF AppsHold, Counted
<1>5. Ordered(callbacks', polled', relayed', alive')
  <2>1. alive \intersect en = {} /\ app \notin en
    BY <1>1 DEF AppsHold, Ordered
  <2>2. CASE callbacks' = Append(callbacks, n)
    <3>1. Ordered(Append(callbacks, n), polled, relayed, alive)
      BY <1>2, <2>1, OrderedAppended DEF AppsHold, QueuesTyped
    <3>. QED  BY <1>1, <1>2, <2>2, <3>1
  <2>. QED  BY <1>1, <1>2, <2>2 DEF AppsHold
<1>6. FrontKnown(wsStage', blind', callbacks', polled', tracked', frontApp')
  <2>1. CASE callbacks' = Append(callbacks, n) /\ blind' = blind
    <3>1. FrontKnown(wsStage, blind, Append(callbacks, n), polled, tracked, app)
      BY <1>2, FrontAppended DEF AppsHold, QueuesTyped
    <3>. QED  BY <1>1, <1>2, <2>1, <3>1
  <2>2. CASE callbacks' = callbacks /\ blind' = TRUE
    BY <1>2, <2>2 DEF AppsHold, FrontKnown
  <2>. QED  BY <1>2, <2>1, <2>2
<1>7. Pictured(alive', unseen', Aloft(callbacks', polled', relayed'),
               Departed(callbacks', polled', relayed'), Awaited(callbacks', polled', relayed'),
               observers', unavailable', toAttach', axStage')
  <2>1. Pictured(alive, unseen, fl, en, an, observers, unavailable, toAttach, axStage)
    BY DEF AppsHold
  <2>2. CASE callbacks' = Append(callbacks, n) /\ unseen' = unseen
    <3>1. /\ Aloft(Append(callbacks, n), polled, relayed) = fl \union {n.app}
          /\ Departed(Append(callbacks, n), polled, relayed) = en
               \union (IF n.kind = "terminated" THEN {n.app} ELSE {})
          /\ Awaited(Append(callbacks, n), polled, relayed) = an
               \union (IF n.kind = "launched" THEN {n.app} ELSE {})
      BY <1>2, SaidAppended DEF AppsHold, QueuesTyped
    <3>2. /\ Aloft(callbacks', polled', relayed') = fl \union {app}
          /\ Departed(callbacks', polled', relayed') = en
          /\ Awaited(callbacks', polled', relayed') = an
      BY <1>2, <2>2, <3>1
    <3>3. Pictured(alive, unseen, fl \union {app}, en, an, observers, unavailable, toAttach,
                   axStage)
      BY <1>1, <2>1 DEF Pictured
    <3>. QED  BY <1>1, <2>2, <3>2, <3>3
  <2>3. CASE callbacks' = callbacks /\ unseen' = unseen \union {app}
    <3>1. Pictured(alive, unseen \union {app}, fl, en, an, observers, unavailable, toAttach,
                   axStage)
      BY <2>1 DEF Pictured
    <3>. QED  BY <1>1, <1>2, <2>3, <3>1
  <2>. QED  BY <1>2, <2>2, <2>3
<1>8. Grown(alive', unseen', observers', trees')
  <2>1. unseen \subseteq unseen'  BY <1>2
  <2>. QED  BY <1>1, <2>1 DEF AppsHold, Grown
<1>9. Flagged(axStage, toReconcile, observers, permitted, seenGeneration, readGeneration,
              filterGeneration, raced)'
  BY <1>1 DEF AppsHold
<1>. QED  BY <1>2, <1>3, <1>4, <1>5, <1>6, <1>7, <1>8, <1>9 DEF AppsHold

LEMMA AppTerminatesKeeps ==
  ASSUME AppsHold, NEW app \in Apps, AppTerminates(app)
  PROVE  AppsHold'
<1>. USE DEF policyVars, healthVars, loopVars
<1>. DEFINE n == [kind |-> "terminated", app |-> app]
            fl == Aloft(callbacks, polled, relayed)
            en == Departed(callbacks, polled, relayed)
            an == Awaited(callbacks, polled, relayed)
<1>1. /\ app \in alive /\ alive' = alive \ {app} /\ trees' = trees \ {app}
      /\ frontApp' = IF frontApp = app THEN NoApp ELSE frontApp
      /\ Spend("moves") /\ Enqueue("terminated", app)
      /\ UNCHANGED <<policyVars, observers, appsUsed, unavailable, ledger, loopVars>>
  BY DEF AppTerminates
<1>2. /\ QueuesTyped' /\ n \in Notices /\ UNCHANGED <<wsStage, polled, tracked, relayed>>
      /\ \/ callbacks' = Append(callbacks, n) /\ unseen' = unseen /\ blind' = blind
         \/ callbacks' = callbacks /\ unseen' = unseen \union {app} /\ blind' = TRUE
  BY <1>1, Enqueued DEF AppsHold
<1>3. AppsTyped'
  BY <1>1 DEF AppsHold, AppsTyped
<1>4. Counted'
  <2>1. /\ spent' \in [{"moves", "troubles"} -> Nat]
        /\ spent["troubles"] <= spent'["troubles"] /\ spent'["troubles"] <= MaxAppTroubles
    BY <1>1, SpendCounts DEF AppsHold
  <2>2. spent["troubles"] \in Nat /\ spent'["troubles"] \in Nat
    BY <2>1 DEF AppsHold, Counted
  <2>. QED  BY <1>1, <2>1, <2>2 DEF AppsHold, Counted
<1>5. Ordered(callbacks', polled', relayed', alive')
  <2>1. alive' \intersect en = {} /\ app \notin en /\ app \notin alive'
    BY <1>1 DEF AppsHold, Ordered
  <2>2. CASE callbacks' = Append(callbacks, n)
    <3>1. Ordered(Append(callbacks, n), polled, relayed, alive')
      BY <1>2, <2>1, OrderedAppended DEF AppsHold, QueuesTyped
    <3>. QED  BY <1>2, <2>2, <3>1
  <2>3. CASE callbacks' = callbacks
    BY <1>2, <2>1, <2>3 DEF AppsHold, Ordered
  <2>. QED  BY <1>2, <2>2, <2>3
<1>6. FrontKnown(wsStage', blind', callbacks', polled', tracked', frontApp')
  <2>1. CASE callbacks' = Append(callbacks, n) /\ blind' = blind
    <3>1. n.kind = "terminated" /\ frontApp' = IF frontApp = n.app THEN NoApp ELSE frontApp
      BY <1>1
    <3>2. FrontKnown(wsStage, blind, Append(callbacks, n), polled, tracked, frontApp')
      BY <1>2, <3>1, FrontAppended DEF AppsHold, QueuesTyped
    <3>. QED  BY <1>2, <2>1, <3>2
  <2>2. CASE callbacks' = callbacks /\ blind' = TRUE
    BY <1>2, <2>2 DEF AppsHold, FrontKnown
  <2>. QED  BY <1>2, <2>1, <2>2
<1>7. Pictured(alive', unseen', Aloft(callbacks', polled', relayed'),
               Departed(callbacks', polled', relayed'), Awaited(callbacks', polled', relayed'),
               observers', unavailable', toAttach', axStage')
  <2>1. Pictured(alive, unseen, fl, en, an, observers, unavailable, toAttach, axStage)
    BY DEF AppsHold
  <2>2. CASE callbacks' = Append(callbacks, n) /\ unseen' = unseen
    <3>1. /\ Aloft(Append(callbacks, n), polled, relayed) = fl \union {n.app}
          /\ Departed(Append(callbacks, n), polled, relayed) = en
               \union (IF n.kind = "terminated" THEN {n.app} ELSE {})
          /\ Awaited(Append(callbacks, n), polled, relayed) = an
               \union (IF n.kind = "launched" THEN {n.app} ELSE {})
      BY <1>2, SaidAppended DEF AppsHold, QueuesTyped
    <3>2. /\ Aloft(callbacks', polled', relayed') = fl \union {app}
          /\ Departed(callbacks', polled', relayed') = en \union {app}
          /\ Awaited(callbacks', polled', relayed') = an
      BY <1>2, <2>2, <3>1
    <3>3. Pictured(alive \ {app}, unseen, fl \union {app}, en \union {app}, an, observers,
                   unavailable, toAttach, axStage)
      BY <1>1, <2>1 DEF Pictured
    <3>. QED  BY <1>1, <2>2, <3>2, <3>3
  <2>3. CASE callbacks' = callbacks /\ unseen' = unseen \union {app}
    <3>1. Pictured(alive \ {app}, unseen \union {app}, fl, en, an, observers, unavailable,
                   toAttach, axStage)
      BY <2>1 DEF Pictured
    <3>. QED  BY <1>1, <1>2, <2>3, <3>1
  <2>. QED  BY <1>2, <2>2, <2>3
<1>8. Grown(alive', unseen', observers', trees')
  <2>1. unseen \subseteq unseen'  BY <1>2
  <2>. QED  BY <1>1, <2>1 DEF AppsHold, Grown
<1>9. Flagged(axStage, toReconcile, observers, permitted, seenGeneration, readGeneration,
              filterGeneration, raced)'
  BY <1>1 DEF AppsHold
<1>. QED  BY <1>2, <1>3, <1>4, <1>5, <1>6, <1>7, <1>8, <1>9 DEF AppsHold

-----------------------------------------------------------------------------
(* The workspace thread leaves the system and the collector alone.          *)

LEMMA WorkspaceKeeps ==
  ASSUME AppsHold, UNCHANGED <<systemVars, policyVars, healthVars, loopVars>>,
         Counted', QueuesTyped', unseen \subseteq unseen',
         Ordered(callbacks', polled', relayed', alive),
         FrontKnown(wsStage', blind', callbacks', polled', tracked', frontApp),
         Pictured(alive, unseen', Aloft(callbacks', polled', relayed'),
                  Departed(callbacks', polled', relayed'), Awaited(callbacks', polled', relayed'),
                  observers, unavailable, toAttach, axStage)
  PROVE  AppsHold'
<1>. USE DEF systemVars, policyVars, healthVars, loopVars
<1>1. AppsTyped'  BY DEF AppsHold, AppsTyped
<1>2. Grown(alive', unseen', observers', trees')  BY DEF AppsHold, Grown
<1>3. Flagged(axStage, toReconcile, observers, permitted, seenGeneration, readGeneration,
              filterGeneration, raced)'
  BY DEF AppsHold
<1>4. alive' = alive /\ frontApp' = frontApp /\ observers' = observers
      /\ unavailable' = unavailable /\ toAttach' = toAttach /\ axStage' = axStage
  OBVIOUS
<1>. QED  BY <1>1, <1>2, <1>3, <1>4 DEF AppsHold

LEMMA StartWorkspaceKeeps ==
  ASSUME AppsHold, StartWorkspace
  PROVE  AppsHold'
<1>1. /\ wsStage' = "starting" /\ watching' = TRUE /\ callbacks' = <<>> /\ polled' = <<>>
      /\ tracked' = NoApp /\ unseen' = unseen \union Mentioned(callbacks) /\ blind' = FALSE
      /\ relayed' = relayed /\ spent' = spent
      /\ UNCHANGED <<systemVars, policyVars, healthVars, loopVars>>
  BY DEF StartWorkspace
<1>2. polled = <<>>  BY DEF StartWorkspace, AppsHold, FrontKnown
<1>3. Counted'  BY <1>1 DEF AppsHold, Counted, policyVars, loopVars
<1>4. QueuesTyped'
  <2>1. Mentioned(callbacks) \subseteq Apps
    <3>1. callbacks \in Seq(Notices)  BY DEF AppsHold, QueuesTyped
    <3>2. \A i \in DOMAIN callbacks : callbacks[i] \in Notices  BY <3>1
    <3>. QED  BY <3>2 DEF Mentioned, Notices
  <2>2. watching' \in BOOLEAN /\ blind' \in BOOLEAN  BY <1>1
  <2>3. callbacks' \in Seq(Notices) /\ Len(callbacks') <= CallbackLimit /\ polled' \in Seq(Notices)
    BY <1>1, AppsBounds
  <2>. QED  BY <1>1, <2>1, <2>2, <2>3 DEF AppsHold, QueuesTyped, Programs
<1>5. Ordered(<<>>, <<>>, relayed, alive)
  BY OrderedDropped DEF AppsHold
<1>6. FrontKnown("starting", FALSE, <<>>, <<>>, NoApp, frontApp)
  <2>1. \A app : ~LastActivated(<<>>, app)  BY SaysNothing, ActivatedSaid
  <2>. QED  BY <2>1 DEF FrontKnown, Heralded
<1>7. Pictured(alive, unseen', Aloft(<<>>, <<>>, relayed), Departed(<<>>, <<>>, relayed),
               Awaited(<<>>, <<>>, relayed), observers, unavailable, toAttach, axStage)
  <2>1. /\ Says("terminated", <<>>) = {} /\ Says("launched", <<>>) = {} /\ Mentioned(<<>>) = {}
        /\ Says("terminated", callbacks) \subseteq Mentioned(callbacks)
        /\ Says("launched", callbacks) \subseteq Mentioned(callbacks)
    BY SaysNothing, SaysMentioned
  <2>2. \A app \in Apps \ unseen' :
          /\ app \in Departed(callbacks, polled, relayed) => app \in Departed(<<>>, <<>>, relayed)
          /\ app \in Awaited(callbacks, polled, relayed) => app \in Awaited(<<>>, <<>>, relayed)
          /\ app \in Aloft(<<>>, <<>>, relayed) => app \in Aloft(callbacks, polled, relayed)
    BY <1>1, <1>2, <2>1 DEF Departed, Awaited, Aloft
  <2>3. Departed(<<>>, <<>>, relayed) \subseteq Aloft(<<>>, <<>>, relayed)  BY SaidAloft
  <2>. QED  BY <1>1, <2>2, <2>3, PictureQuiet DEF AppsHold
<1>8. unseen \subseteq unseen'  BY <1>1
<1>. QED  BY <1>1, <1>3, <1>4, <1>5, <1>6, <1>7, <1>8, WorkspaceKeeps

LEMMA TakeKeeps ==
  ASSUME AppsHold, polled = <<>>, polled' = callbacks, callbacks' = <<>>,
         \/ wsStage = "polling" /\ wsStage' = "polling"
         \/ /\ wsStage = "starting"
            /\ wsStage' = IF Says("activated", callbacks) # {} THEN "polling" ELSE "asking",
         UNCHANGED <<watching, tracked, relayed, unseen, blind, systemVars, policyVars, healthVars,
                     loopVars, spent>>
  PROVE  AppsHold'
<1>1. Counted'  BY DEF AppsHold, Counted, policyVars, loopVars
<1>2. QueuesTyped'
  <2>1. callbacks' \in Seq(Notices) /\ Len(callbacks') <= CallbackLimit
    BY AppsBounds
  <2>. QED  BY <2>1 DEF AppsHold, QueuesTyped
<1>3. Ordered(<<>>, callbacks, relayed, alive)
  BY OrderedTaken DEF AppsHold
<1>4. FrontKnown(wsStage', blind, <<>>, callbacks, tracked, frontApp)
  BY FrontTaken DEF AppsHold
<1>5. Pictured(alive, unseen, Aloft(<<>>, callbacks, relayed), Departed(<<>>, callbacks, relayed),
               Awaited(<<>>, callbacks, relayed), observers, unavailable, toAttach, axStage)
  BY SaidTaken DEF AppsHold
<1>6. unseen' = unseen /\ tracked' = tracked /\ relayed' = relayed /\ blind' = blind
  OBVIOUS
<1>. QED  BY <1>1, <1>2, <1>3, <1>4, <1>5, <1>6, WorkspaceKeeps

LEMMA FirstPollKeeps ==
  ASSUME AppsHold, FirstPoll
  PROVE  AppsHold'
<1>1. (\E i \in DOMAIN callbacks : callbacks[i].kind = "activated")
        <=> Says("activated", callbacks) # {}
  BY DEF Says
<1>2. polled = <<>>  BY DEF FirstPoll, AppsHold, FrontKnown
<1>. QED  BY <1>1, <1>2, TakeKeeps DEF FirstPoll

LEMMA TakeNoticesKeeps ==
  ASSUME AppsHold, TakeNotices
  PROVE  AppsHold'
  BY TakeKeeps DEF TakeNotices

LEMMA RelayNextKeeps ==
  ASSUME AppsHold, RelayNext
  PROVE  AppsHold'
<1>. DEFINE h == Head(polled)
            s == Tail(polled)
<1>1. /\ wsStage \in {"asking", "polling"} /\ polled # <<>> /\ Relay(h) /\ polled' = s
      /\ UNCHANGED <<watching, callbacks, wsStage, blind, systemVars, policyVars, healthVars,
                     loopVars, spent>>
  BY DEF RelayNext
<1>2. Counted'  BY <1>1 DEF AppsHold, Counted, policyVars, loopVars
<1>3. /\ h \in Notices /\ s \in Seq(Notices) /\ polled \in Seq(Notices) /\ callbacks \in Seq(Notices)
      /\ relayed \in Seq(Notices) /\ Len(relayed) \in Nat
      /\ h.app \in Apps /\ h.kind \in {"launched", "activated", "terminated"}
  <2>1. polled \in Seq(Notices) /\ callbacks \in Seq(Notices) /\ relayed \in Seq(Notices)
    BY DEF AppsHold, QueuesTyped
  <2>2. h \in Notices /\ s \in Seq(Notices)  BY <1>1, <2>1
  <2>. QED  BY <2>1, <2>2 DEF Notices
<1>4. tracked' = IF h.kind = "activated" THEN h.app
                 ELSE IF h.kind = "terminated" /\ tracked = h.app THEN NoApp ELSE tracked
  <2>1. CASE h.kind = "activated"  BY <1>1, <2>1 DEF Relay
  <2>2. CASE h.kind # "activated" /\ h.kind = "terminated" /\ tracked = h.app
    BY <1>1, <2>2 DEF Relay
  <2>3. CASE h.kind # "activated" /\ ~(h.kind = "terminated" /\ tracked = h.app)
    BY <1>1, <2>3 DEF Relay
  <2>. QED  BY <2>1, <2>2, <2>3
<1>5. \/ relayed' = relayed /\ unseen' = unseen /\ h.kind = "activated"
      \/ relayed' = relayed /\ unseen' = unseen \union {h.app}
      \/ relayed' = Append(relayed, h) /\ unseen' = unseen /\ Len(relayed) < ChannelLimit
  BY <1>1, <1>3, AppsBounds DEF Relay
<1>. HIDE DEF h, s
<1>6. QueuesTyped'
  <2>1. relayed' \in Seq(Notices) /\ Len(relayed') <= ChannelLimit
    <3>1. CASE relayed' = relayed  BY <3>1 DEF AppsHold, QueuesTyped
    <3>2. CASE relayed' = Append(relayed, h) /\ Len(relayed) < ChannelLimit
      BY <1>3, <3>2, AppsBounds
    <3>. QED  BY <1>5, <3>1, <3>2
  <2>2. tracked' \in Programs  BY <1>3, <1>4 DEF AppsHold, QueuesTyped, Programs
  <2>3. unseen' \subseteq Apps  BY <1>3, <1>5 DEF AppsHold, QueuesTyped
  <2>. QED  BY <1>1, <1>3, <2>1, <2>2, <2>3 DEF AppsHold, QueuesTyped
<1>7. Ordered(callbacks, s, relayed, alive) /\ Ordered(callbacks, s, Append(relayed, h), alive)
  BY <1>1, <1>3, OrderedRelayed DEF AppsHold, h, s
<1>8. FrontKnown(wsStage, blind, callbacks, s, tracked', frontApp)
  <2>1. alive \in SUBSET Apps /\ frontApp \in alive \union {NoApp} /\ tracked \in Programs
    BY DEF AppsHold, AppsTyped, QueuesTyped
  <2>. QED  BY <1>1, <1>3, <1>4, <2>1, FrontRelayed DEF AppsHold, h, s
<1>9. Pictured(alive, unseen', Aloft(callbacks, s, relayed'), Departed(callbacks, s, relayed'),
               Awaited(callbacks, s, relayed'), observers, unavailable, toAttach, axStage)
  <2>. DEFINE fl == Aloft(callbacks, polled, relayed)
              en == Departed(callbacks, polled, relayed)
              an == Awaited(callbacks, polled, relayed)
  <2>1. /\ Aloft(callbacks, s, Append(relayed, h)) = fl
        /\ Departed(callbacks, s, Append(relayed, h)) = en
        /\ an \subseteq Awaited(callbacks, s, Append(relayed, h))
        /\ Aloft(callbacks, s, relayed) \subseteq fl
        /\ \A app : app \in en \ Departed(callbacks, s, relayed) =>
             app = h.app /\ h.kind = "terminated"
        /\ \A app : app \in an \ Awaited(callbacks, s, relayed) =>
             app = h.app /\ h.kind = "launched"
    BY <1>1, <1>3, SaidRelayed DEF h, s
  <2>2. Departed(callbacks, s, relayed') \subseteq Aloft(callbacks, s, relayed')  BY SaidAloft
  <2>3. Pictured(alive, unseen, fl, en, an, observers, unavailable, toAttach, axStage)
    BY DEF AppsHold
  <2>. HIDE DEF fl, en, an
  <2>4. /\ unseen \subseteq unseen'
        /\ \A app \in Apps \ unseen' :
             /\ app \in en => app \in Departed(callbacks, s, relayed')
             /\ app \in an => app \in Awaited(callbacks, s, relayed')
             /\ app \in Aloft(callbacks, s, relayed') => app \in fl
    <3>1. CASE relayed' = relayed /\ unseen' = unseen /\ h.kind = "activated"
      BY <2>1, <3>1
    <3>2. CASE relayed' = relayed /\ unseen' = unseen \union {h.app}
      BY <2>1, <3>2
    <3>3. CASE relayed' = Append(relayed, h) /\ unseen' = unseen
      BY <2>1, <3>3
    <3>. QED  BY <1>5, <3>1, <3>2, <3>3
  <2>. QED  BY <2>2, <2>3, <2>4, PictureQuiet
<1>10. unseen \subseteq unseen'  BY <1>5
<1>11. Ordered(callbacks', polled', relayed', alive)
  <2>1. callbacks' = callbacks /\ polled' = s  BY <1>1
  <2>. QED  BY <1>5, <1>7, <2>1
<1>. QED  BY <1>1, <1>2, <1>6, <1>8, <1>9, <1>10, <1>11, WorkspaceKeeps

LEMMA AskFrontKeeps ==
  ASSUME AppsHold, AskFront
  PROVE  AppsHold'
<1>. DEFINE n == [kind |-> "activated", app |-> frontApp]
<1>1. /\ wsStage = "asking" /\ polled = <<>> /\ wsStage' = "polling"
      /\ UNCHANGED <<watching, callbacks, polled, blind, systemVars, policyVars, healthVars,
                     loopVars, spent>>
      /\ IF frontApp = NoApp THEN UNCHANGED <<tracked, relayed, unseen>> ELSE Relay(n)
  BY DEF AskFront
<1>2. tracked = NoApp /\ frontApp \in alive \union {NoApp} /\ alive \subseteq Apps /\ NoApp \notin Apps
      /\ relayed \in Seq(Notices)
  BY <1>1, AppsBounds DEF AppsHold, FrontKnown, AppsTyped, QueuesTyped
<1>3. /\ tracked' = frontApp
      /\ \/ relayed' = relayed /\ unseen' = unseen
         \/ frontApp \in alive /\ relayed' = relayed /\ unseen' = unseen \union {frontApp}
         \/ /\ frontApp \in alive /\ relayed' = Append(relayed, n) /\ unseen' = unseen
            /\ Len(relayed) < ChannelLimit
  <2>1. CASE frontApp = NoApp  BY <1>1, <1>2, <2>1
  <2>2. CASE frontApp # NoApp
    <3>1. frontApp \in alive /\ Relay(n) /\ n.kind = "activated" /\ n.app = frontApp
      BY <1>1, <1>2, <2>2
    <3>2. Len(relayed) \in Nat  BY <1>2
    <3>. QED  BY <1>2, <2>2, <3>1, <3>2, AppsBounds DEF Relay
  <2>. QED  BY <2>1, <2>2
<1>4. n.kind = "activated" /\ n.app = frontApp /\ (frontApp \in alive => n \in Notices)
  BY <1>2 DEF Notices
<1>. HIDE DEF n
<1>5. Counted'  BY <1>1 DEF AppsHold, Counted, policyVars, loopVars
<1>6. QueuesTyped'
  <2>1. relayed' \in Seq(Notices) /\ Len(relayed') <= ChannelLimit
    <3>1. CASE relayed' = relayed  BY <3>1 DEF AppsHold, QueuesTyped
    <3>2. CASE frontApp \in alive /\ relayed' = Append(relayed, n) /\ Len(relayed) < ChannelLimit
      BY <1>2, <1>4, <3>2, AppsBounds
    <3>. QED  BY <1>3, <3>1, <3>2
  <2>2. tracked' \in Programs  BY <1>2, <1>3 DEF Programs
  <2>3. unseen' \subseteq Apps  BY <1>2, <1>3 DEF AppsHold, QueuesTyped
  <2>. QED  BY <1>1, <2>1, <2>2, <2>3 DEF AppsHold, QueuesTyped
<1>7. Ordered(callbacks', polled', relayed', alive)
  <2>1. Ordered(callbacks, polled, relayed, alive)  BY DEF AppsHold
  <2>2. CASE relayed' = relayed  BY <1>1, <2>1, <2>2
  <2>3. CASE frontApp \in alive /\ relayed' = Append(relayed, n)
    <3>1. Ordered(callbacks, polled, Append(relayed, n), alive)
      BY <1>2, <1>4, <2>1, <2>3, OrderedAsked
    <3>. QED  BY <1>1, <2>3, <3>1
  <2>. QED  BY <1>3, <2>2, <2>3
<1>8. FrontKnown(wsStage', blind', callbacks', polled', tracked', frontApp)
  <2>1. FrontKnown("polling", blind, callbacks, <<>>, frontApp, frontApp)
    BY <1>1, FrontAsked DEF AppsHold
  <2>. QED  BY <1>1, <1>3, <2>1
<1>9. Pictured(alive, unseen', Aloft(callbacks', polled', relayed'),
               Departed(callbacks', polled', relayed'), Awaited(callbacks', polled', relayed'),
               observers, unavailable, toAttach, axStage)
  <2>. DEFINE fl == Aloft(callbacks, polled, relayed)
              en == Departed(callbacks, polled, relayed)
              an == Awaited(callbacks, polled, relayed)
  <2>1. Pictured(alive, unseen, fl, en, an, observers, unavailable, toAttach, axStage)
    BY DEF AppsHold
  <2>2. en \subseteq fl  BY SaidAloft
  <2>3. CASE relayed' = relayed /\ unseen \subseteq unseen'
    <3>1. Pictured(alive, unseen', fl, en, an, observers, unavailable, toAttach, axStage)
      BY <2>1, <2>2, <2>3, PictureQuiet
    <3>. QED  BY <1>1, <2>3, <3>1
  <2>4. CASE frontApp \in alive /\ relayed' = Append(relayed, n) /\ unseen' = unseen
    <3>1. /\ Aloft(callbacks, polled, Append(relayed, n)) = fl \union {n.app}
          /\ Departed(callbacks, polled, Append(relayed, n)) = en
          /\ an \subseteq Awaited(callbacks, polled, Append(relayed, n))
      BY <1>2, <1>4, <2>4, SaidAsked
    <3>. HIDE DEF fl, en, an
    <3>2. Pictured(alive, unseen, fl \union {n.app}, en,
                   Awaited(callbacks, polled, Append(relayed, n)), observers, unavailable,
                   toAttach, axStage)
      BY <1>4, <2>1, <2>2, <2>4, <3>1, PictureQuiet
    <3>. QED  BY <1>1, <2>4, <3>1, <3>2
  <2>. QED  BY <1>3, <2>3, <2>4
<1>10. unseen \subseteq unseen'  BY <1>3
<1>. QED  BY <1>1, <1>5, <1>6, <1>7, <1>8, <1>9, <1>10, WorkspaceKeeps

LEMMA StopWorkspaceKeeps ==
  ASSUME AppsHold, StopWorkspace
  PROVE  AppsHold'
<1>1. /\ polled = <<>> /\ wsStage' = "off" /\ watching' = FALSE /\ Spend("troubles")
      /\ UNCHANGED <<callbacks, polled, tracked, relayed, unseen, blind, systemVars, policyVars,
                     healthVars, loopVars>>
  BY DEF StopWorkspace
<1>2. Counted'
  <2>1. /\ spent' \in [{"moves", "troubles"} -> Nat]
        /\ spent["troubles"] <= spent'["troubles"] /\ spent'["troubles"] <= MaxAppTroubles
    BY <1>1, SpendCounts DEF AppsHold
  <2>2. spent["troubles"] \in Nat /\ spent'["troubles"] \in Nat
    BY <2>1 DEF AppsHold, Counted
  <2>. QED  BY <1>1, <2>1, <2>2 DEF AppsHold, Counted, policyVars, loopVars
<1>3. QueuesTyped'
  <2>1. watching' \in BOOLEAN  BY <1>1
  <2>. QED  BY <1>1, <2>1 DEF AppsHold, QueuesTyped
<1>4. FrontKnown("off", blind, callbacks, polled, tracked, frontApp)
  BY <1>1 DEF FrontKnown
<1>. QED  BY <1>1, <1>2, <1>3, <1>4, WorkspaceKeeps DEF AppsHold

-----------------------------------------------------------------------------
(* The accessibility thread.                                                *)

\* What an attachment to `app` makes of the collector, whether it succeeds or
\* not: the application is attached, with the filter's flag, or unavailable.
LEMMA Attaching ==
  ASSUME AppsTyped, Counted, Grown(alive, unseen, observers, trees),
         \A a \in unavailable : observers[a] = "none",
         NEW app \in Apps, AttachApp(app)
  PROVE  /\ observers' \in [Apps -> Flags] /\ unavailable' \subseteq Apps
         /\ ledger' \subseteq Apps \X {"attach", "read", "unregister"}
         /\ spent' \in [{"moves", "troubles"} -> Nat]
         /\ spent["troubles"] <= spent'["troubles"] /\ spent'["troubles"] <= MaxAppTroubles
         /\ \A a \in Apps \ {app} : /\ observers'[a] = observers[a]
                                    /\ a \in unavailable' <=> a \in unavailable
                                    /\ a \in trees' <=> a \in trees
         /\ \/ /\ observers'[app] = IF app \in permitted THEN "tree" ELSE "plain"
               /\ app \notin unavailable'
            \/ observers'[app] = "none" /\ app \in unavailable'
         /\ Grown(alive, unseen, observers', trees')
<1>0. /\ observers \in [Apps -> Flags] /\ unavailable \subseteq Apps /\ alive \subseteq Apps
      /\ trees \subseteq Apps
      /\ ledger \subseteq Apps \X {"attach", "read", "unregister"}
      /\ <<app, "attach">> \in Apps \X {"attach", "read", "unregister"}
      /\ Flag(app) = IF app \in permitted THEN "tree" ELSE "plain"
      /\ Flag(app) \in Flags /\ "none" \in Flags /\ Flag(app) # "none"
  BY DEF AppsTyped, Flag, Flags, Grown
<1>1. ASSUME AttachSucceeds(app)
      PROVE  /\ observers' = [observers EXCEPT ![app] = Flag(app)]
             /\ unavailable' = unavailable \ {app}
             /\ ledger' \subseteq ledger /\ spent' = spent
             /\ trees' = IF app \notin alive THEN trees
                         ELSE IF app \in permitted THEN trees \union {app}
                         ELSE IF observers[app] = "tree" THEN trees \ {app} ELSE trees
  BY <1>1 DEF AttachSucceeds, WithTree
<1>2. ASSUME AttachFails(app)
      PROVE  /\ observers[app] = "none" /\ observers' = observers /\ trees' = trees
             /\ unavailable' = unavailable \union {app}
             /\ ledger' = ledger \union {<<app, "attach">>}
             /\ Spend("troubles") \/ spent' = spent
  BY <1>2 DEF AttachFails, Attached
<1>3. CASE AttachSucceeds(app)
  <2>1. /\ observers' \in [Apps -> Flags]
        /\ \A a \in Apps \ {app} : observers'[a] = observers[a]
        /\ observers'[app] = Flag(app)
    BY <1>0, <1>1, <1>3
  <2>2. \A a \in Apps \ {app} : a \in trees' <=> a \in trees
    BY <1>1, <1>3
  <2>3. Grown(alive, unseen, observers', trees')
    <3>1. CASE app \in alive /\ app \in permitted
      BY <1>0, <1>1, <1>3, <2>1, <3>1 DEF Grown
    <3>2. CASE app \in alive /\ app \notin permitted
      BY <1>0, <1>1, <1>3, <2>1, <3>2 DEF Grown
    <3>3. CASE app \notin alive
      BY <1>0, <1>1, <1>3, <2>1, <3>3 DEF Grown
    <3>. QED  BY <3>1, <3>2, <3>3
  <2>. QED  BY <1>0, <1>1, <1>3, <2>1, <2>2, <2>3 DEF Counted
<1>4. CASE AttachFails(app)
  <2>1. /\ spent' \in [{"moves", "troubles"} -> Nat]
        /\ spent["troubles"] <= spent'["troubles"] /\ spent'["troubles"] <= MaxAppTroubles
    BY <1>2, <1>4, SpendCounts DEF Counted
  <2>. QED  BY <1>0, <1>2, <1>4, <2>1
<1>. QED  BY <1>3, <1>4 DEF AttachApp

LEMMA StartAxKeeps ==
  ASSUME AppsHold, StartAx
  PROVE  AppsHold'
<1>. USE DEF systemVars, healthVars
<1>1. /\ axStage = "off" /\ axStage' = "attaching" /\ toAttach' = alive
      /\ unseen' = unseen \intersect Aloft(callbacks, polled, relayed) /\ raced' = FALSE
      /\ UNCHANGED <<watching, callbacks, wsStage, polled, tracked, relayed, blind, systemVars,
                     permitted, filterGeneration, healthVars, seenGeneration, readGeneration,
                     toReconcile, spent>>
  BY DEF StartAx, InFlight, Aloft
<1>2. QueuesTyped' /\ Counted'  BY <1>1 DEF AppsHold, QueuesTyped, Counted
<1>3. AppsTyped'
  <2>1. raced' \in BOOLEAN  BY <1>1
  <2>. QED  BY <1>1, <2>1 DEF AppsHold, AppsTyped
<1>4. unavailable = {} /\ \A app \in Apps : observers[app] = "none"
  BY <1>1 DEF AppsHold, Pictured
<1>5. Pictured(alive, unseen', Aloft(callbacks, polled, relayed), Departed(callbacks, polled, relayed),
               Awaited(callbacks, polled, relayed), observers, unavailable, alive, "attaching")
  <2>1. \A app \in Apps \ unseen' : app \notin alive /\ app \in Aloft(callbacks, polled, relayed)
          => app \in Departed(callbacks, polled, relayed)
    BY <1>1 DEF AppsHold, Pictured
  <2>. QED  BY <1>4, <2>1 DEF Pictured
<1>6. trees = {}
  BY <1>4 DEF AppsHold, Grown, AppsTyped
<1>7. Grown(alive, unseen', observers, trees)
  BY <1>4, <1>6 DEF Grown, AppsHold, AppsTyped
<1>8. Flagged("attaching", toReconcile, observers, permitted, seenGeneration, readGeneration,
              filterGeneration, FALSE)
  BY <1>4 DEF Flagged
<1>. QED  BY <1>1, <1>2, <1>3, <1>5, <1>7, <1>8 DEF AppsHold

LEMMA AttachInitialKeeps ==
  ASSUME AppsHold, AttachInitial
  PROVE  AppsHold'
<1>. USE DEF systemVars, queueVars, policyVars
<1>. DEFINE fl == Aloft(callbacks, polled, relayed)
            en == Departed(callbacks, polled, relayed)
            an == Awaited(callbacks, polled, relayed)
<1>1. PICK app \in toAttach : AttachApp(app) /\ toAttach' = toAttach \ {app}
  BY DEF AttachInitial
<1>2. /\ axStage = "attaching" /\ app \in Apps
      /\ UNCHANGED <<appsUsed, systemVars, queueVars, policyVars, axStage, seenGeneration,
                     readGeneration, toReconcile>>
  BY DEF AttachInitial, AppsHold, AppsTyped
<1>3. Pictured(alive, unseen, fl, en, an, observers, unavailable, toAttach, axStage)
  BY DEF AppsHold
<1>4. /\ observers' \in [Apps -> Flags] /\ unavailable' \subseteq Apps
      /\ ledger' \subseteq Apps \X {"attach", "read", "unregister"}
      /\ spent' \in [{"moves", "troubles"} -> Nat]
      /\ spent["troubles"] <= spent'["troubles"] /\ spent'["troubles"] <= MaxAppTroubles
      /\ \A a \in Apps \ {app} : /\ observers'[a] = observers[a]
                                 /\ a \in unavailable' <=> a \in unavailable
                                 /\ a \in trees' <=> a \in trees
      /\ \/ /\ observers'[app] = IF app \in permitted THEN "tree" ELSE "plain"
            /\ app \notin unavailable'
         \/ observers'[app] = "none" /\ app \in unavailable'
      /\ Grown(alive, unseen, observers', trees')
  BY <1>1, <1>2, <1>3, Attaching DEF AppsHold, Pictured
<1>5. QueuesTyped' /\ AppsTyped'
  BY <1>1, <1>2, <1>4 DEF AppsHold, QueuesTyped, AppsTyped
<1>6. Counted'
  <2>1. spent["troubles"] \in Nat /\ spent'["troubles"] \in Nat
    BY <1>4 DEF AppsHold, Counted
  <2>. QED  BY <1>2, <1>4, <2>1 DEF AppsHold, Counted
<1>7. Pictured(alive, unseen, fl, en, an, observers', unavailable', toAttach', axStage)
  <2>. HIDE DEF fl, en, an
  <2>1. unavailable \subseteq Apps /\ toAttach \subseteq Apps  BY DEF AppsHold, AppsTyped
  <2>. QED  BY <1>1, <1>2, <1>3, <1>4, <2>1 DEF Pictured
<1>8. Flagged(axStage, toReconcile, observers', permitted, seenGeneration, readGeneration,
              filterGeneration, raced)
  <2>1. Flagged(axStage, toReconcile, observers, permitted, seenGeneration, readGeneration,
                filterGeneration, raced)
    BY DEF AppsHold
  <2>. QED  BY <1>2, <1>4, <2>1 DEF Flagged
<1>. QED  BY <1>2, <1>4, <1>5, <1>6, <1>7, <1>8 DEF AppsHold

LEMMA EnterLoopKeeps ==
  ASSUME AppsHold, EnterLoop
  PROVE  AppsHold'
<1>. USE DEF systemVars, queueVars, policyVars, healthVars
<1>1. /\ axStage = "attaching" /\ toAttach = {} /\ axStage' = "looping"
      /\ seenGeneration' = filterGeneration
      /\ UNCHANGED <<systemVars, queueVars, policyVars, healthVars, toAttach, readGeneration,
                     toReconcile, spent>>
  BY DEF EnterLoop
<1>2. QueuesTyped' /\ AppsTyped' /\ Counted'
  BY <1>1 DEF AppsHold, QueuesTyped, AppsTyped, Counted
<1>3. Pictured(alive, unseen, Aloft(callbacks, polled, relayed), Departed(callbacks, polled, relayed),
               Awaited(callbacks, polled, relayed), observers, unavailable, toAttach, "looping")
  <2>1. Pictured(alive, unseen, Aloft(callbacks, polled, relayed),
                 Departed(callbacks, polled, relayed), Awaited(callbacks, polled, relayed),
                 observers, unavailable, toAttach, axStage)
    BY DEF AppsHold
  <2>. QED  BY <1>1, <2>1 DEF Pictured
<1>4. Flagged("looping", toReconcile, observers, permitted, filterGeneration, readGeneration,
              filterGeneration, raced)
  <2>1. Flagged(axStage, toReconcile, observers, permitted, seenGeneration, readGeneration,
                filterGeneration, raced)
    BY DEF AppsHold
  <2>. QED  BY <1>1, <2>1 DEF Flagged
<1>. QED  BY <1>1, <1>2, <1>3, <1>4 DEF AppsHold

\* NativeAx::detach of an application that ended.
LEMMA Detaching ==
  ASSUME AppsTyped, Grown(alive, unseen, observers, trees),
         \A a \in unavailable : observers[a] = "none",
         NEW app \in Apps, app \notin alive, HandleTerminated(app)
  PROVE  /\ UNCHANGED <<alive, frontApp, axStage, toAttach, toReconcile, permitted, raced>> =>
              AppsTyped'
         /\ \A a \in Apps \ {app} : /\ observers'[a] = observers[a]
                                    /\ a \in unavailable' <=> a \in unavailable
                                    /\ a \in trees' <=> a \in trees
         /\ observers'[app] = "none" /\ app \notin unavailable' /\ spent' = spent
         /\ \A a \in unavailable' : observers'[a] = "none"
         /\ Grown(alive, unseen, observers', trees')
<1>1. PICK clean \in BOOLEAN : Detached(app, clean)
  BY DEF HandleTerminated
<1>2. /\ observers' = [observers EXCEPT ![app] = "none"]
      /\ trees' = IF observers[app] = "tree" THEN trees \ {app} ELSE trees
      /\ ledger' = {entry \in ledger : entry[1] # app}
                     \union (IF clean THEN {} ELSE {<<app, "unregister">>})
      /\ appsUsed' = appsUsed \ {app} /\ unavailable' = unavailable \ {app} /\ spent' = spent
  BY <1>1 DEF Detached, HandleTerminated
<1>3. /\ observers' \in [Apps -> Flags] /\ observers'[app] = "none"
      /\ \A a \in Apps \ {app} : observers'[a] = observers[a]
  BY <1>2 DEF AppsTyped, Flags
<1>4. trees \subseteq Apps /\ app \notin trees  BY DEF Grown, AppsTyped
<1>5. ledger' \subseteq Apps \X {"attach", "read", "unregister"}
  <2>1. <<app, "unregister">> \in Apps \X {"attach", "read", "unregister"}  OBVIOUS
  <2>2. ledger' \subseteq ledger \union {<<app, "unregister">>}  BY <1>2
  <2>. QED  BY <2>1, <2>2 DEF AppsTyped
<1>6. Grown(alive, unseen, observers', trees')
  BY <1>2, <1>3, <1>4 DEF Grown, AppsTyped
<1>7. UNCHANGED <<alive, frontApp, axStage, toAttach, toReconcile, permitted, raced>> => AppsTyped'
  BY <1>2, <1>3, <1>5 DEF AppsTyped
<1>8. \A a \in unavailable' : observers'[a] = "none"
  BY <1>2, <1>3 DEF AppsTyped
<1>. QED  BY <1>2, <1>3, <1>4, <1>6, <1>7, <1>8

LEMMA HandleLifecycleKeeps ==
  ASSUME AppsHold, HandleLifecycle
  PROVE  AppsHold'
<1>. USE DEF systemVars, policyVars, loopVars
<1>. DEFINE h == Head(relayed)
            s == Tail(relayed)
            fl == Aloft(callbacks, polled, relayed)
            en == Departed(callbacks, polled, relayed)
            an == Awaited(callbacks, polled, relayed)
            flNext == Aloft(callbacks, polled, s)
            enNext == Departed(callbacks, polled, s)
            anNext == Awaited(callbacks, polled, s)
<1>1. /\ axStage = "looping" /\ relayed # <<>> /\ relayed' = s
      /\ UNCHANGED <<watching, callbacks, wsStage, polled, tracked, unseen, blind, systemVars,
                     policyVars, loopVars>>
      /\ \/ /\ h.kind # "terminated" /\ AttachApp(h.app)
            /\ appsUsed' = appsUsed \/ appsUsed' = appsUsed \union {h.app}
         \/ h.kind = "terminated" /\ HandleTerminated(h.app)
  BY DEF HandleLifecycle
<1>2. /\ relayed \in Seq(Notices) /\ h \in Notices /\ s \in Seq(Notices) /\ h.app \in Apps
      /\ Len(s) <= ChannelLimit
  <2>1. relayed \in Seq(Notices) /\ Len(relayed) <= ChannelLimit  BY DEF AppsHold, QueuesTyped
  <2>2. h \in Notices /\ s \in Seq(Notices) /\ Len(s) = Len(relayed) - 1 /\ Len(relayed) \in Nat
    BY <1>1, <2>1
  <2>. QED  BY <2>1, <2>2, AppsBounds DEF Notices
<1>3. /\ fl = flNext \union {h.app}
      /\ en = enNext \union (IF h.kind = "terminated" THEN {h.app} ELSE {})
      /\ an = anNext \union {h.app}
      /\ h.kind = "terminated" => h.app \notin flNext /\ h.app \notin alive
      /\ enNext \subseteq flNext
  BY <1>1, <1>2, SaidHandled, SaidAloft DEF AppsHold
<1>4. Ordered(callbacks, polled, s, alive)
  BY <1>1, <1>2, OrderedHandled DEF AppsHold
<1>5. Pictured(alive, unseen, fl, en, an, observers, unavailable, toAttach, "looping")
  BY <1>1 DEF AppsHold
<1>6. Flagged("looping", toReconcile, observers, permitted, seenGeneration, readGeneration,
              filterGeneration, raced)
  BY <1>1 DEF AppsHold
<1>7. AppsTyped /\ Counted /\ Grown(alive, unseen, observers, trees) /\ unavailable \subseteq Apps
      /\ \A a \in unavailable : observers[a] = "none"
  BY <1>5 DEF AppsHold, AppsTyped, Pictured
<1>. HIDE DEF h, s, fl, en, an, flNext, enNext, anNext
<1>8. /\ AppsTyped' /\ Counted' /\ Grown(alive, unseen, observers', trees')
      /\ Pictured(alive, unseen, flNext, enNext, anNext, observers', unavailable', toAttach, "looping")
      /\ Flagged("looping", toReconcile, observers', permitted, seenGeneration, readGeneration,
                 filterGeneration, raced)
  <2>1. CASE h.kind # "terminated" /\ AttachApp(h.app)
    <3>1. /\ observers' \in [Apps -> Flags] /\ unavailable' \subseteq Apps
          /\ ledger' \subseteq Apps \X {"attach", "read", "unregister"}
          /\ spent' \in [{"moves", "troubles"} -> Nat]
          /\ spent["troubles"] <= spent'["troubles"] /\ spent'["troubles"] <= MaxAppTroubles
          /\ \A a \in Apps \ {h.app} : /\ observers'[a] = observers[a]
                                       /\ a \in unavailable' <=> a \in unavailable
                                       /\ a \in trees' <=> a \in trees
          /\ \/ /\ observers'[h.app] = IF h.app \in permitted THEN "tree" ELSE "plain"
                /\ h.app \notin unavailable'
             \/ observers'[h.app] = "none" /\ h.app \in unavailable'
          /\ Grown(alive, unseen, observers', trees')
      BY <1>2, <1>7, <2>1, Attaching
    <3>2. AppsTyped'
      <4>1. appsUsed' \subseteq Apps  BY <1>1, <1>2, <1>7, <2>1 DEF AppsTyped, HandleTerminated
      <4>. QED  BY <1>1, <1>7, <3>1, <4>1 DEF AppsTyped
    <3>3. Counted'
      <4>1. spent["troubles"] \in Nat /\ spent'["troubles"] \in Nat
        BY <1>7, <3>1 DEF Counted
      <4>. QED  BY <1>1, <1>7, <3>1, <4>1 DEF Counted
    <3>4. Pictured(alive, unseen, flNext, enNext, anNext, observers', unavailable', toAttach, "looping")
      BY <1>2, <1>3, <1>5, <1>7, <2>1, <3>1 DEF Pictured
    <3>5. Flagged("looping", toReconcile, observers', permitted, seenGeneration, readGeneration,
                  filterGeneration, raced)
      BY <1>2, <1>6, <3>1 DEF Flagged
    <3>. QED  BY <3>1, <3>2, <3>3, <3>4, <3>5
  <2>2. CASE h.kind = "terminated" /\ HandleTerminated(h.app)
    <3>1. /\ AppsTyped'
          /\ \A a \in Apps \ {h.app} : /\ observers'[a] = observers[a]
                                       /\ a \in unavailable' <=> a \in unavailable
                                       /\ a \in trees' <=> a \in trees
          /\ observers'[h.app] = "none" /\ h.app \notin unavailable' /\ spent' = spent
          /\ \A a \in unavailable' : observers'[a] = "none"
          /\ Grown(alive, unseen, observers', trees')
      BY <1>1, <1>2, <1>3, <1>7, <2>2, Detaching
    <3>2. Counted'
      BY <1>1, <1>7, <3>1 DEF Counted
    <3>3. Pictured(alive, unseen, flNext, enNext, anNext, observers', unavailable', toAttach, "looping")
      BY <1>2, <1>3, <1>5, <1>7, <2>2, <3>1 DEF Pictured
    <3>4. Flagged("looping", toReconcile, observers', permitted, seenGeneration, readGeneration,
                  filterGeneration, raced)
      BY <1>2, <1>6, <3>1 DEF Flagged
    <3>. QED  BY <3>1, <3>2, <3>3, <3>4
  <2>. QED  BY <1>1, <2>1, <2>2
<1>9. QueuesTyped'
  BY <1>1, <1>2 DEF AppsHold, QueuesTyped
<1>10. Pictured(alive, unseen, Aloft(callbacks, polled, relayed'),
                Departed(callbacks, polled, relayed'), Awaited(callbacks, polled, relayed'),
                observers', unavailable', toAttach, "looping")
  BY <1>1, <1>8 DEF flNext, enNext, anNext
<1>. QED  BY <1>1, <1>4, <1>8, <1>9, <1>10 DEF AppsHold

LEMMA ReadThroughKeeps ==
  ASSUME AppsHold, NEW app \in Apps, ReadThrough(app)
  PROVE  AppsHold'
<1>. USE DEF systemVars, queueVars, policyVars, loopVars
<1>1. /\ ledger' \subseteq ledger \union {<<app, "read">>}
      /\ Spend("troubles") \/ spent' = spent
      /\ UNCHANGED <<observers, appsUsed, unavailable, trees, systemVars, queueVars, policyVars,
                     loopVars>>
  BY DEF ReadThrough
<1>2. Counted'
  <2>1. /\ spent' \in [{"moves", "troubles"} -> Nat]
        /\ spent["troubles"] <= spent'["troubles"] /\ spent'["troubles"] <= MaxAppTroubles
    BY <1>1, SpendCounts DEF AppsHold, Counted
  <2>2. spent["troubles"] \in Nat /\ spent'["troubles"] \in Nat
    BY <2>1 DEF AppsHold, Counted
  <2>. QED  BY <1>1, <2>1, <2>2 DEF AppsHold, Counted
<1>3. AppsTyped'
  <2>1. ledger' \subseteq Apps \X {"attach", "read", "unregister"}
    <3>1. <<app, "read">> \in Apps \X {"attach", "read", "unregister"}  OBVIOUS
    <3>. QED  BY <1>1, <3>1 DEF AppsHold, AppsTyped
  <2>. QED  BY <1>1, <2>1 DEF AppsHold, AppsTyped
<1>4. QueuesTyped'  BY <1>1 DEF AppsHold, QueuesTyped
<1>. QED  BY <1>1, <1>2, <1>3, <1>4 DEF AppsHold

LEMMA BeginReconcileKeeps ==
  ASSUME AppsHold, BeginReconcile
  PROVE  AppsHold'
<1>. USE DEF systemVars, queueVars, policyVars, healthVars
<1>1. /\ axStage = "looping" /\ axStage' = "reconciling" /\ readGeneration' = filterGeneration
      /\ toReconcile' = {app \in Apps : observers[app] # "none"}
      /\ UNCHANGED <<systemVars, queueVars, policyVars, healthVars, toAttach, seenGeneration, spent>>
  BY DEF BeginReconcile, Attached
<1>2. QueuesTyped' /\ AppsTyped' /\ Counted'
  BY <1>1 DEF AppsHold, QueuesTyped, AppsTyped, Counted
<1>3. Pictured(alive, unseen, Aloft(callbacks, polled, relayed), Departed(callbacks, polled, relayed),
               Awaited(callbacks, polled, relayed), observers, unavailable, toAttach, "reconciling")
  <2>1. Pictured(alive, unseen, Aloft(callbacks, polled, relayed),
                 Departed(callbacks, polled, relayed), Awaited(callbacks, polled, relayed),
                 observers, unavailable, toAttach, axStage)
    BY DEF AppsHold
  <2>. QED  BY <1>1, <2>1 DEF Pictured
<1>4. Flagged("reconciling", toReconcile', observers, permitted, seenGeneration, readGeneration',
              filterGeneration, raced)
  BY <1>1 DEF Flagged
<1>. QED  BY <1>1, <1>2, <1>3, <1>4 DEF AppsHold

LEMMA ReconcileOneKeeps ==
  ASSUME AppsHold, ReconcileOne
  PROVE  AppsHold'
<1>. USE DEF systemVars, queueVars, policyVars
<1>1. PICK app \in toReconcile :
        /\ toReconcile' = toReconcile \ {app}
        /\ observers' = [observers EXCEPT ![app] = Flag(app)]
        /\ WithTree(app)
  BY DEF ReconcileOne
<1>2. /\ axStage = "reconciling" /\ app \in Apps
      /\ UNCHANGED <<appsUsed, unavailable, ledger, systemVars, queueVars, policyVars, axStage,
                     toAttach, seenGeneration, readGeneration, spent>>
      /\ observers \in [Apps -> Flags]
  BY DEF ReconcileOne, AppsHold, AppsTyped
<1>3. /\ Flag(app) \in Flags /\ Flag(app) # "none"
      /\ Flag(app) = IF app \in permitted THEN "tree" ELSE "plain"
  BY DEF Flag, Flags
<1>4. /\ observers' \in [Apps -> Flags] /\ observers'[app] = Flag(app)
      /\ \A a \in Apps \ {app} : observers'[a] = observers[a]
  BY <1>1, <1>2, <1>3
<1>5. QueuesTyped' /\ AppsTyped' /\ Counted'
  BY <1>1, <1>2, <1>4 DEF AppsHold, QueuesTyped, AppsTyped, Counted
<1>6. Flagged(axStage, toReconcile, observers, permitted, seenGeneration, readGeneration,
              filterGeneration, raced)
  BY DEF AppsHold
<1>7. observers[app] # "none"
  BY <1>1, <1>2, <1>6 DEF Flagged
<1>8. Pictured(alive, unseen, Aloft(callbacks, polled, relayed), Departed(callbacks, polled, relayed),
               Awaited(callbacks, polled, relayed), observers', unavailable, toAttach, axStage)
  <2>1. Pictured(alive, unseen, Aloft(callbacks, polled, relayed),
                 Departed(callbacks, polled, relayed), Awaited(callbacks, polled, relayed),
                 observers, unavailable, toAttach, axStage)
    BY DEF AppsHold
  <2>2. unavailable \subseteq Apps  BY DEF AppsHold, AppsTyped
  <2>. QED  BY <1>2, <1>3, <1>4, <1>7, <2>1, <2>2 DEF Pictured
<1>9. Grown(alive, unseen, observers', trees')
  <2>1. Grown(alive, unseen, observers, trees) /\ alive \subseteq Apps  BY DEF AppsHold, AppsTyped
  <2>2. trees' = IF app \notin alive THEN trees
                 ELSE IF app \in permitted THEN trees \union {app}
                 ELSE IF observers[app] = "tree" THEN trees \ {app} ELSE trees
    BY <1>1 DEF WithTree
  <2>3. CASE app \notin alive
    BY <1>4, <2>1, <2>2, <2>3 DEF Grown
  <2>4. CASE app \in alive /\ app \in permitted
    BY <1>3, <1>4, <2>1, <2>2, <2>4 DEF Grown
  <2>5. CASE app \in alive /\ app \notin permitted
    BY <1>3, <1>4, <2>1, <2>2, <2>5 DEF Grown
  <2>. QED  BY <2>3, <2>4, <2>5
<1>10. Flagged(axStage, toReconcile', observers', permitted, seenGeneration, readGeneration,
               filterGeneration, raced)
  <2>1. toReconcile \subseteq Apps  BY DEF AppsHold, AppsTyped
  <2>. QED  BY <1>1, <1>2, <1>3, <1>4, <1>6, <2>1 DEF Flagged
<1>. QED  BY <1>2, <1>5, <1>8, <1>9, <1>10 DEF AppsHold

LEMMA EndReconcileKeeps ==
  ASSUME AppsHold, EndReconcile
  PROVE  AppsHold'
<1>. USE DEF systemVars, queueVars, policyVars, healthVars
<1>1. /\ axStage = "reconciling" /\ toReconcile = {} /\ axStage' = "looping"
      /\ seenGeneration' = readGeneration
      /\ UNCHANGED <<systemVars, queueVars, policyVars, healthVars, toAttach, readGeneration,
                     toReconcile, spent>>
  BY DEF EndReconcile, Reconciled
<1>2. QueuesTyped' /\ AppsTyped' /\ Counted'
  BY <1>1 DEF AppsHold, QueuesTyped, AppsTyped, Counted
<1>3. Pictured(alive, unseen, Aloft(callbacks, polled, relayed), Departed(callbacks, polled, relayed),
               Awaited(callbacks, polled, relayed), observers, unavailable, toAttach, "looping")
  <2>1. Pictured(alive, unseen, Aloft(callbacks, polled, relayed),
                 Departed(callbacks, polled, relayed), Awaited(callbacks, polled, relayed),
                 observers, unavailable, toAttach, axStage)
    BY DEF AppsHold
  <2>. QED  BY <1>1, <2>1 DEF Pictured
<1>4. Flagged("looping", toReconcile, observers, permitted, readGeneration, readGeneration,
              filterGeneration, raced)
  <2>1. Flagged(axStage, toReconcile, observers, permitted, seenGeneration, readGeneration,
                filterGeneration, raced)
    BY DEF AppsHold
  <2>. QED  BY <1>1, <2>1 DEF Flagged
<1>. QED  BY <1>1, <1>2, <1>3, <1>4 DEF AppsHold

LEMMA StopAxKeeps ==
  ASSUME AppsHold, StopAx
  PROVE  AppsHold'
<1>. USE DEF systemVars, queueVars, policyVars
<1>1. /\ axStage = "looping" /\ Spend("troubles") /\ axStage' = "off"
      /\ observers' = [app \in Apps |-> "none"]
      /\ trees' = {app \in trees : observers[app] # "tree"}
      /\ appsUsed' = {} /\ unavailable' = {} /\ ledger' = {}
      /\ UNCHANGED <<systemVars, queueVars, policyVars, toAttach, seenGeneration, readGeneration,
                     toReconcile>>
  BY DEF StopAx
<1>2. Counted'
  <2>1. /\ spent' \in [{"moves", "troubles"} -> Nat]
        /\ spent["troubles"] <= spent'["troubles"] /\ spent'["troubles"] <= MaxAppTroubles
    BY <1>1, SpendCounts DEF AppsHold
  <2>2. spent["troubles"] \in Nat /\ spent'["troubles"] \in Nat
    BY <2>1 DEF AppsHold, Counted
  <2>. QED  BY <1>1, <2>1, <2>2 DEF AppsHold, Counted
<1>3. QueuesTyped'  BY <1>1 DEF AppsHold, QueuesTyped
<1>4. observers' \in [Apps -> Flags] /\ \A app \in Apps : observers'[app] = "none"
  BY <1>1 DEF Flags
<1>5. AppsTyped'
  BY <1>1, <1>4 DEF AppsHold, AppsTyped
<1>6. Pictured(alive, unseen, Aloft(callbacks, polled, relayed), Departed(callbacks, polled, relayed),
               Awaited(callbacks, polled, relayed), observers', unavailable', toAttach, "off")
  <2>1. \A app \in Apps \ unseen : app \notin alive /\ app \in Aloft(callbacks, polled, relayed)
          => app \in Departed(callbacks, polled, relayed)
    BY DEF AppsHold, Pictured
  <2>. QED  BY <1>1, <1>4, <2>1 DEF Pictured
<1>7. Grown(alive, unseen, observers', trees')
  BY <1>1, <1>4 DEF AppsHold, AppsTyped, Grown
<1>8. Flagged("off", toReconcile, observers', permitted, seenGeneration, readGeneration,
              filterGeneration, raced)
  BY DEF Flagged
<1>. QED  BY <1>1, <1>2, <1>3, <1>5, <1>6, <1>7, <1>8 DEF AppsHold

LEMMA ReplacePermittedKeeps ==
  ASSUME AppsHold, ReplacePermitted
  PROVE  AppsHold'
<1>. USE DEF systemVars, queueVars, healthVars, loopVars
<1>1. /\ Spend("troubles") /\ permitted' \subseteq Apps
      /\ filterGeneration' = filterGeneration + 1
      /\ raced' = (raced \/ axStage = "attaching")
      /\ UNCHANGED <<systemVars, queueVars, healthVars, loopVars>>
  BY DEF ReplacePermitted
<1>2. Counted'
  <2>1. /\ spent' \in [{"moves", "troubles"} -> Nat]
        /\ spent'["troubles"] = spent["troubles"] + 1 /\ spent'["troubles"] <= MaxAppTroubles
    BY <1>1, SpendCounts DEF AppsHold
  <2>2. spent["troubles"] \in Nat /\ spent'["troubles"] \in Nat
    BY <2>1 DEF AppsHold, Counted
  <2>. QED  BY <1>1, <2>1, <2>2 DEF AppsHold, Counted
<1>3. QueuesTyped'  BY <1>1 DEF AppsHold, QueuesTyped
<1>4. AppsTyped'
  <2>1. raced' \in BOOLEAN  BY <1>1 DEF AppsHold, AppsTyped
  <2>. QED  BY <1>1, <2>1 DEF AppsHold, AppsTyped
<1>5. Flagged(axStage, toReconcile, observers, permitted', seenGeneration, readGeneration,
              filterGeneration', raced')
  <2>1. /\ seenGeneration # filterGeneration' /\ readGeneration # filterGeneration'
    BY <1>1 DEF AppsHold, Counted
  <2>2. axStage = "reconciling" => \A app \in toReconcile : observers[app] # "none"
    BY DEF AppsHold, Flagged
  <2>. QED  BY <1>1, <2>1, <2>2 DEF Flagged
<1>. QED  BY <1>1, <1>2, <1>3, <1>4, <1>5 DEF AppsHold

LEMMA AppsStart ==
  ASSUME AppsInit
  PROVE  AppsHold
<1>1. QueuesTyped
  <2>1. watching \in BOOLEAN /\ blind \in BOOLEAN  BY DEF AppsInit
  <2>2. <<>> \in Seq(Notices) /\ Len(<<>>) = 0  OBVIOUS
  <2>3. wsStage = "off" /\ tracked = NoApp /\ unseen = {}  BY DEF AppsInit
  <2>4. callbacks = <<>> /\ polled = <<>> /\ relayed = <<>>  BY DEF AppsInit
  <2>. QED  BY <2>1, <2>2, <2>3, <2>4, AppsBounds DEF QueuesTyped, Programs
<1>2. AppsTyped
  BY DEF AppsInit, AppsTyped, Flags
<1>3. Counted
  <2>1. spent \in [{"moves", "troubles"} -> Nat] /\ spent["troubles"] = 0
    BY DEF AppsInit
  <2>. QED  BY <2>1, AppsBounds DEF AppsInit, Counted
<1>4. Ordered(<<>>, <<>>, <<>>, alive)
  BY SaysNothing, FinalEmpty DEF Ordered, Departed
<1>5. FrontKnown("off", blind, <<>>, <<>>, NoApp, frontApp)
  BY DEF FrontKnown
<1>6. Aloft(<<>>, <<>>, <<>>) = {}
  BY SaysNothing DEF Aloft
<1>7. Pictured(alive, {}, Aloft(<<>>, <<>>, <<>>), Departed(<<>>, <<>>, <<>>),
               Awaited(<<>>, <<>>, <<>>), observers, {}, {}, "off")
  BY <1>6 DEF AppsInit, Pictured
<1>8. Grown(alive, {}, observers, {})
  BY DEF AppsInit, Grown
<1>9. Flagged("off", {}, observers, permitted, 0, 0, 0, FALSE)
  BY DEF Flagged
<1>. QED  BY <1>1, <1>2, <1>3, <1>4, <1>5, <1>7, <1>8, <1>9 DEF AppsInit, AppsHold

LEMMA AppsStutter ==
  ASSUME AppsHold, UNCHANGED appVars
  PROVE  AppsHold'
<1>. USE DEF appVars, systemVars, queueVars, policyVars, healthVars, loopVars
<1>1. QueuesTyped' /\ AppsTyped' /\ Counted'
  BY DEF AppsHold, QueuesTyped, AppsTyped, Counted
<1>. QED  BY <1>1 DEF AppsHold

LEMMA AppsStep ==
  ASSUME AppsHold, AppsNext
  PROVE  AppsHold'
<1>1. ASSUME NEW app \in Apps, AppLaunches(app) \/ AppActivates(app) \/ AppTerminates(app)
      PROVE  AppsHold'
  BY <1>1, AppLaunchesKeeps, AppActivatesKeeps, AppTerminatesKeeps
<1>2. CASE StartWorkspace \/ FirstPoll \/ TakeNotices \/ RelayNext \/ AskFront \/ StopWorkspace
  BY <1>2, StartWorkspaceKeeps, FirstPollKeeps, TakeNoticesKeeps, RelayNextKeeps, AskFrontKeeps,
     StopWorkspaceKeeps
<1>3. CASE StartAx \/ AttachInitial \/ EnterLoop \/ HandleLifecycle \/ StopAx
  BY <1>3, StartAxKeeps, AttachInitialKeeps, EnterLoopKeeps, HandleLifecycleKeeps, StopAxKeeps
<1>4. ASSUME NEW app \in Apps, ReadThrough(app) PROVE AppsHold'
  BY <1>4, ReadThroughKeeps
<1>5. CASE BeginReconcile \/ ReconcileOne \/ EndReconcile \/ ReplacePermitted
  BY <1>5, BeginReconcileKeeps, ReconcileOneKeeps, EndReconcileKeeps, ReplacePermittedKeeps
<1>. QED  BY <1>1, <1>2, <1>3, <1>4, <1>5 DEF AppsNext

LEMMA AppsSafe ==
  ASSUME AppsHold
  PROVE  AppsTypeOK /\ PictureMatches /\ TreesFollowFilter
<1>1. AppsTypeOK
  <2>1. trees \subseteq Apps  BY DEF AppsHold, AppsTyped, Grown
  <2>2. {filterGeneration, seenGeneration, readGeneration} \subseteq 0..MaxAppTroubles
    <3>1. spent["troubles"] \in Nat  BY DEF AppsHold, Counted
    <3>. QED  BY <3>1, AppsBounds DEF AppsHold, Counted
  <2>3. /\ {watching, blind, raced} \subseteq BOOLEAN
        /\ {frontApp, tracked} \subseteq Apps \union {NoApp}
    BY DEF AppsHold, QueuesTyped, AppsTyped, Programs
  <2>. QED  BY <2>1, <2>2, <2>3 DEF AppsTypeOK, AppsHold, QueuesTyped, AppsTyped, Flags
<1>2. Pictured(alive, unseen, Aloft(callbacks, polled, relayed), Departed(callbacks, polled, relayed),
               Awaited(callbacks, polled, relayed), observers, unavailable, toAttach, axStage)
  BY DEF AppsHold
<1>3. PictureMatches
  <2>1. ASSUME Settled, NEW app \in Apps \ unseen
        PROVE  /\ (app \in alive) <=> (Attached(app) \/ app \in unavailable)
               /\ ~(Attached(app) /\ app \in unavailable)
    <3>1. axStage = "looping" /\ Aloft(callbacks, polled, relayed) = {}
      BY <2>1 DEF Settled, InFlight, Aloft
    <3>2. Awaited(callbacks, polled, relayed) = {} /\ toAttach = {}
      BY <1>2, <3>1, SaidAloft DEF Pictured
    <3>. QED  BY <1>2, <2>1, <3>1, <3>2 DEF Pictured, Attached
  <2>2. ASSUME wsStage = "polling", callbacks = <<>>, polled = <<>>, ~blind
        PROVE  tracked = frontApp
    <3>1. Says("activated", <<>>) = {} /\ Says("terminated", <<>>) = {}  BY SaysNothing
    <3>2. Heralded("polling", <<>>, <<>>, tracked, tracked)  BY <3>1 DEF Heralded
    <3>. QED  BY <2>2, <3>1, <3>2 DEF AppsHold, FrontKnown, QueuesTyped
  <2>. QED  BY <2>1, <2>2 DEF PictureMatches
<1>4. TreesFollowFilter
  <2>1. axStage = "off" => trees = {}
    BY <1>2 DEF AppsHold, AppsTyped, Grown, Pictured
  <2>2. ASSUME axStage = "looping", seenGeneration = filterGeneration, ~raced,
               NEW app \in Apps \ (unseen \union InFlight)
        PROVE  app \in trees <=> (app \in alive /\ Attached(app) /\ app \in permitted)
    <3>1. observers[app] = "none" \/ observers[app] = IF app \in permitted THEN "tree" ELSE "plain"
      BY <2>2 DEF AppsHold, Flagged
    <3>. QED  BY <2>2, <3>1 DEF AppsHold, Grown, Attached
  <2>. QED  BY <2>1, <2>2 DEF TreesFollowFilter
<1>. QED  BY <1>1, <1>3, <1>4

\* However launches, activations and ends overtake the callback queue, the batch
\* and the channel, and whatever they lose: once they are empty, what runs of the
\* applications the collector could hear about is what it observes or knows as
\* unavailable, the tracked application is in front, and the accessibility trees
\* are those the latest filter allows (workspace.rs, ax.rs, ffi/ax/runtime.rs).
THEOREM AppsAreFollowed == CaptureSpec => []AppsFollowed
<1>. DEFINE Inv == part = "apps" => AppsHold
<1>1. CaptureInit => Inv
  BY AppsStart DEF CaptureInit
<1>2. Inv /\ [CaptureNext]_captureVars => Inv'
  <2>1. ASSUME Inv, CaptureNext PROVE Inv'
    <3>1. part' = part /\ (part = "apps" => AppsNext)  BY <2>1 DEF CaptureNext
    <3>. QED  BY <2>1, <3>1, AppsStep
  <2>2. ASSUME Inv, UNCHANGED captureVars PROVE Inv'
    <3>1. part' = part /\ UNCHANGED appVars  BY <2>2 DEF captureVars
    <3>. QED  BY <2>2, <3>1, AppsStutter
  <2>. QED  BY <2>1, <2>2
<1>3. Inv => AppsFollowed
  BY AppsSafe DEF AppsFollowed
<1>. QED  BY <1>1, <1>2, <1>3, PTL DEF CaptureSpec

-----------------------------------------------------------------------------
(* SnapshotWalk: the masks of a walk are complete, its text is in order,   *)
(* and it reads the right window.                                          *)

Nodes == Seq(1..MaxTree)
VisitItems == [kind : {"visit"}, node : Nodes]
BatchItems == [kind : {"children"}, node : Nodes, index : Nat, count : 0..MaxTree,
               degraded : BOOLEAN]
Items == VisitItems \cup BatchItems

\* The nodes an item of work will bring the walk to, without those below them.
Ahead(item) ==
  IF item.kind = "visit" THEN {item.node}
  ELSE {Append(item.node, k) : k \in item.index + 1..item.count}

\* m comes before n, and n is not below m.
Left(m, n) ==
  \E i \in 1..Len(m) : /\ i <= Len(n)
                       /\ \A j \in 1..i - 1 : m[j] = n[j]
                       /\ m[i] < n[i]

\* TextInOrder is not inductive: the stack is in reading order too, all of it
\* after what was visited.
Preorder(w, seen) ==
  /\ \A i, j \in DOMAIN w : i < j =>
       \A p \in Ahead(w[i]), q \in Ahead(w[j]) : Left(p, q)
  /\ \A v \in seen : \A i \in DOMAIN w : \A p \in Ahead(w[i]) : Earlier(v, p)

\* What the stack remembers of the nodes whose children are being read.
Batches(w, seen, missed, empty) ==
  \A i \in DOMAIN w : w[i].kind = "children" =>
    /\ w[i].index < w[i].count
    /\ w[i].node \in seen \ empty
    /\ w[i].degraded = (w[i].node \in missed)
    /\ \A j \in DOMAIN w : w[j].kind = "children" /\ w[j].node = w[i].node => j = i

\* What the window server can answer of two windows.
Lists == {<<>>, <<1>>, <<2>>, <<1, 2>>, <<2, 1>>}

Chosen(ws, cs, list, c) ==
  /\ ws \in [{1, 2} -> [numbered : BOOLEAN, frame : {0, 1, 2}]]
  /\ cs \in Seq({1, 2})
  /\ list \in Lists \cup {Unasked}
  /\ c \in {0, 1, 2}
  /\ ws[1].frame # ws[2].frame => c \in {0, Expected}

TextOf(t, seen) ==
  /\ t \in Seq(Nodes)
  /\ \A i \in DOMAIN t : t[i] \in seen
  /\ \A i, j \in DOMAIN t : i < j => Earlier(t[i], t[j])

\* MasksComplete is not inductive: until the walk ends, what it owes is still
\* on the stack.
Owed(w, seen, count) ==
  \A n \in owing : n \in DOMAIN count /\ \A k \in 1..count[n] :
    Append(n, k) \in seen \/ \E i \in DOMAIN w : Append(n, k) \in Ahead(w[i])

\* The nodes and the counts.
TreeTyped ==
  /\ visited \subseteq Nodes /\ told \in 0..MaxTree
  /\ DOMAIN kids \subseteq visited /\ \A n \in DOMAIN kids : kids[n] \in 0..MaxTree
  /\ owing \subseteq visited /\ inputs \subseteq visited /\ masks \subseteq visited
  /\ blanks \subseteq visited /\ unread \subseteq visited

Tallied ==
  /\ IsFiniteSet(visited) /\ Cardinality(visited) <= NodeLimit
  /\ IsFiniteSet(unread) /\ degradedNodes = Cardinality(unread)
  /\ blanks \cap unread = {}

Tree ==
  /\ TreeTyped
  /\ work \in Seq(Items)
  /\ Preorder(work, visited)
  /\ Batches(work, visited, unread, blanks)
  /\ TextOf(text, visited)
  /\ Tallied

\* Where the scan is, and what its end means.
Staged ==
  /\ phase \in {"focused", "resolve", "title", "walk", "scanned", "unresolved",
                "denied", "failed"}
  /\ gaps \subseteq {"cutoff", "roleUnreadable", "childrenUnreadable", "childrenShort",
                     "framelessInput"}
  /\ cutoff \in {"none", "time", "stopped", "nodes", "bytes"}
  /\ phase \in {"focused", "resolve", "title"} => work = <<>> /\ visited = {}
  /\ phase = "scanned" /\ gaps = {} => work = <<>> /\ cutoff = "none"

WalkHolds ==
  /\ Staged
  /\ Chosen(windows, candidates, onScreen, chosen)
  /\ Tree
  /\ cutoff = "none" /\ gaps = {} => Owed(work, visited, kids) /\ inputs \subseteq masks

-----------------------------------------------------------------------------
(* The order of the nodes.                                                 *)

LEMMA NodesBelow ==
  ASSUME NEW n \in Nodes, NEW k \in 1..MaxTree
  PROVE  /\ Append(n, k) \in Nodes
         /\ Len(Append(n, k)) = Len(n) + 1
         /\ \A j \in 1..Len(n) : Append(n, k)[j] = n[j]
         /\ Append(n, k)[Len(n) + 1] = k
  BY WalkAssumption DEF Nodes

LEMMA LeftIsEarlier == ASSUME NEW m, NEW n, Left(m, n) PROVE Earlier(m, n)
  BY DEF Left, Earlier

LEMMA NeverBeforeItself == ASSUME NEW n \in Nodes PROVE ~Earlier(n, n)
  BY WalkAssumption DEF Nodes, Earlier

LEMMA ParentIsEarlier ==
  ASSUME NEW n \in Nodes, NEW k \in 1..MaxTree
  PROVE  Earlier(n, Append(n, k))
  BY NodesBelow DEF Nodes, Earlier

LEMMA EarlierThanChildren ==
  ASSUME NEW m \in Nodes, NEW n \in Nodes, NEW k \in 1..MaxTree, Earlier(m, n)
  PROVE  Earlier(m, Append(n, k))
<1>1. CASE Len(m) < Len(n) /\ \A j \in 1..Len(m) : m[j] = n[j]
  BY <1>1, NodesBelow DEF Nodes, Earlier
<1>2. CASE Left(m, n)
  <2>1. PICK i \in 1..Len(m) : /\ i <= Len(n)
                              /\ \A j \in 1..i - 1 : m[j] = n[j]
                              /\ m[i] < n[i]
    BY <1>2 DEF Left
  <2>2. /\ i <= Len(Append(n, k)) /\ Append(n, k)[i] = n[i]
        /\ \A j \in 1..i - 1 : Append(n, k)[j] = n[j]
    BY <2>1, NodesBelow DEF Nodes
  <2> QED
    BY <2>1, <2>2 DEF Earlier
<1> QED
  BY <1>1, <1>2 DEF Earlier, Left

LEMMA ChildrenStayLeft ==
  ASSUME NEW n \in Nodes, NEW q \in Nodes, NEW k \in 1..MaxTree, Left(n, q)
  PROVE  Left(Append(n, k), q)
<1>1. PICK i \in 1..Len(n) : /\ i <= Len(q)
                            /\ \A j \in 1..i - 1 : n[j] = q[j]
                            /\ n[i] < q[i]
  BY DEF Left
<1>2. /\ i \in 1..Len(Append(n, k)) /\ Append(n, k)[i] = n[i]
      /\ \A j \in 1..i - 1 : Append(n, k)[j] = n[j]
  BY <1>1, NodesBelow DEF Nodes
<1> QED
  BY <1>1, <1>2 DEF Left

LEMMA SiblingsInOrder ==
  ASSUME NEW n \in Nodes, NEW a \in 1..MaxTree, NEW b \in 1..MaxTree, a < b
  PROVE  Left(Append(n, a), Append(n, b))
<1>1. /\ Len(n) + 1 \in 1..Len(Append(n, a)) /\ Len(n) + 1 <= Len(Append(n, b))
      /\ \A j \in 1..(Len(n) + 1) - 1 : Append(n, a)[j] = Append(n, b)[j]
      /\ Append(n, a)[Len(n) + 1] < Append(n, b)[Len(n) + 1]
  BY NodesBelow DEF Nodes
<1> QED
  BY <1>1 DEF Left

-----------------------------------------------------------------------------
(* The stack of the walk.                                                  *)

LEMMA AheadAreNodes ==
  ASSUME NEW item \in Items
  PROVE  Ahead(item) \subseteq Nodes
<1>1. CASE item \in VisitItems
  BY <1>1 DEF VisitItems, Ahead
<1>2. CASE item \in BatchItems
  <2>1. item.node \in Nodes /\ item.kind = "children" /\ item.index \in Nat /\ item.count \in 0..MaxTree
    BY <1>2 DEF BatchItems
  <2>2. SUFFICES ASSUME NEW k \in item.index + 1..item.count PROVE Append(item.node, k) \in Nodes
    BY <2>1 DEF Ahead
  <2>3. k \in 1..MaxTree
    BY <2>1, <2>2, WalkAssumption
  <2> QED
    BY <2>1, <2>3, NodesBelow
<1> QED
  BY <1>1, <1>2 DEF Items

LEMMA Concatenated ==
  ASSUME NEW S, NEW f \in Seq(S), NEW t \in Seq(S)
  PROVE  /\ f \o t \in Seq(S) /\ Len(f \o t) = Len(f) + Len(t)
         /\ \A i \in 1..Len(f) : (f \o t)[i] = f[i]
         /\ \A i \in DOMAIN (f \o t) : i \notin 1..Len(f) =>
              i - Len(f) \in 1..Len(t) /\ (f \o t)[i] = t[i - Len(f)]
  OBVIOUS

LEMMA Joined ==
  ASSUME NEW S, NEW f \in Seq(S), NEW t \in Seq(S)
  PROVE  /\ f \o t \in Seq(S) /\ Len(f \o t) = Len(f) + Len(t)
         /\ \A i \in 1..Len(f) : (f \o t)[i] = f[i]
         /\ \A i \in 1..Len(t) : (f \o t)[i + Len(f)] = t[i]
         /\ Len(f) \in Nat /\ Len(t) \in Nat /\ DOMAIN f = 1..Len(f)
  OBVIOUS

LEMMA OneBeyond ==
  ASSUME NEW a \in Nat, NEW b \in Nat, b <= 1, NEW i \in 1..a + b, i \notin 1..a
  PROVE  i = a + 1 /\ b = 1
  OBVIOUS

LEMMA InLonger ==
  ASSUME NEW a \in Nat, NEW b \in Nat
  PROVE  /\ \A i \in 1..a : i \in 1..a + b
         /\ \A i \in 1..b : i + a \in 1..a + b
  OBVIOUS

LEMMA TailOf ==
  ASSUME NEW S, NEW w \in Seq(S), w # <<>>
  PROVE  /\ Tail(w) \in Seq(S) /\ Len(Tail(w)) = Len(w) - 1
         /\ Head(w) = w[1] /\ w[1] \in S /\ 1 \in DOMAIN w
         /\ \A i \in DOMAIN Tail(w) : i + 1 \in DOMAIN w /\ Tail(w)[i] = w[i + 1]
  OBVIOUS

\* The top of the stack is replaced by what lies in front of the rest of it.
LEMMA OrderReplaced ==
  ASSUME NEW w \in Seq(Items), w # <<>>, NEW prefix \in Seq(Items), NEW seen, NEW new,
         Preorder(w, seen),
         \A i, j \in DOMAIN prefix : i < j =>
           \A p \in Ahead(prefix[i]), q \in Ahead(prefix[j]) : Left(p, q),
         \A i \in DOMAIN prefix : \A p \in Ahead(prefix[i]) :
           /\ \A j \in DOMAIN Tail(w) : \A q \in Ahead(Tail(w)[j]) : Left(p, q)
           /\ \A v \in new : Earlier(v, p),
         \A v \in new \ seen : \A j \in DOMAIN Tail(w) : \A q \in Ahead(Tail(w)[j]) : Earlier(v, q)
  PROVE  Preorder(prefix \o Tail(w), new)
<1> DEFINE stack == prefix \o Tail(w)
<1>1. /\ \A i \in 1..Len(prefix) : stack[i] = prefix[i] /\ i \in DOMAIN prefix
      /\ \A i \in DOMAIN stack : i \notin 1..Len(prefix) =>
           i - Len(prefix) \in DOMAIN Tail(w) /\ stack[i] = Tail(w)[i - Len(prefix)]
      /\ DOMAIN stack \subseteq Nat /\ Len(prefix) \in Nat
  BY Concatenated, TailOf
<1>2. /\ \A i \in DOMAIN Tail(w) : i + 1 \in DOMAIN w /\ Tail(w)[i] = w[i + 1]
      /\ DOMAIN Tail(w) \subseteq Nat
  BY TailOf
<1>3. \A i, j \in DOMAIN Tail(w) : i < j =>
        \A p \in Ahead(Tail(w)[i]), q \in Ahead(Tail(w)[j]) : Left(p, q)
  <2> SUFFICES ASSUME NEW i \in DOMAIN Tail(w), NEW j \in DOMAIN Tail(w), i < j,
                      NEW p \in Ahead(Tail(w)[i]), NEW q \in Ahead(Tail(w)[j])
               PROVE  Left(p, q)
    OBVIOUS
  <2>1. i + 1 < j + 1
    BY <1>2
  <2> QED
    BY <2>1, <1>2 DEF Preorder
<1>4. \A v \in new : \A j \in DOMAIN Tail(w) : \A q \in Ahead(Tail(w)[j]) : Earlier(v, q)
  BY <1>2 DEF Preorder
<1> HIDE DEF stack
<1>5. ASSUME NEW i \in DOMAIN stack, NEW j \in DOMAIN stack, i < j,
             NEW p \in Ahead(stack[i]), NEW q \in Ahead(stack[j])
      PROVE  Left(p, q)
  <2>1. CASE j \in 1..Len(prefix)
    <3>1. i \in 1..Len(prefix)
      BY <1>1, <1>5, <2>1
    <3> QED
      BY <1>1, <1>5, <2>1, <3>1
  <2>2. CASE i \in 1..Len(prefix) /\ j \notin 1..Len(prefix)
    BY <1>1, <1>5, <2>2
  <2>3. CASE i \notin 1..Len(prefix) /\ j \notin 1..Len(prefix)
    <3>1. i - Len(prefix) < j - Len(prefix)
      BY <1>1, <1>5
    <3> QED
      BY <1>1, <1>3, <1>5, <2>3, <3>1
  <2> QED
    BY <2>1, <2>2, <2>3
<1>6. ASSUME NEW v \in new, NEW i \in DOMAIN stack, NEW p \in Ahead(stack[i])
      PROVE  Earlier(v, p)
  <2>1. CASE i \in 1..Len(prefix)
    BY <1>1, <2>1, <1>6
  <2>2. CASE i \notin 1..Len(prefix)
    BY <1>1, <1>4, <2>2, <1>6
  <2> QED
    BY <2>1, <2>2
<1>7. Preorder(stack, new)
  BY <1>5, <1>6 DEF Preorder
<1> QED
  BY <1>7 DEF stack

\* What is remembered of the nodes behind the top stays true.
Undisturbed(w, prefix, seen, new, missed, more, empty, blank) ==
  \A j \in DOMAIN Tail(w) : Tail(w)[j].kind = "children" =>
    /\ Tail(w)[j].node \in seen \ empty => Tail(w)[j].node \in new \ blank
    /\ Tail(w)[j].node \in more <=> Tail(w)[j].node \in missed
    /\ \A i \in DOMAIN prefix : prefix[i].kind = "children" => prefix[i].node # Tail(w)[j].node

LEMMA BatchesReplaced ==
  ASSUME NEW w \in Seq(Items), w # <<>>, NEW prefix \in Seq(Items),
         NEW seen, NEW new, NEW missed, NEW more, NEW empty, NEW blank,
         Batches(w, seen, missed, empty), Batches(prefix, new, more, blank),
         Undisturbed(w, prefix, seen, new, missed, more, empty, blank)
  PROVE  Batches(prefix \o Tail(w), new, more, blank)
<1> DEFINE stack == prefix \o Tail(w)
<1>1. /\ \A i \in 1..Len(prefix) : stack[i] = prefix[i] /\ i \in DOMAIN prefix
      /\ \A i \in DOMAIN stack : i \notin 1..Len(prefix) =>
           i - Len(prefix) \in DOMAIN Tail(w) /\ stack[i] = Tail(w)[i - Len(prefix)]
      /\ DOMAIN stack \subseteq Nat /\ Len(prefix) \in Nat
  BY Concatenated, TailOf
<1>2. /\ \A i \in DOMAIN Tail(w) : i + 1 \in DOMAIN w /\ Tail(w)[i] = w[i + 1]
      /\ DOMAIN Tail(w) \subseteq Nat
  BY TailOf
<1>3. ASSUME NEW i \in DOMAIN Tail(w), Tail(w)[i].kind = "children"
      PROVE  /\ Tail(w)[i].index < Tail(w)[i].count
             /\ Tail(w)[i].node \in new \ blank
             /\ Tail(w)[i].degraded = (Tail(w)[i].node \in more)
             /\ \A j \in DOMAIN Tail(w) :
                  Tail(w)[j].kind = "children" /\ Tail(w)[j].node = Tail(w)[i].node => j = i
  <2>1. /\ w[i + 1].kind = "children" /\ i + 1 \in DOMAIN w
        /\ Tail(w)[i] = w[i + 1]
    BY <1>2, <1>3
  <2>2. /\ Tail(w)[i].index < Tail(w)[i].count
        /\ Tail(w)[i].node \in seen \ empty
        /\ Tail(w)[i].degraded = (Tail(w)[i].node \in missed)
    BY <2>1 DEF Batches
  <2>3. ASSUME NEW j \in DOMAIN Tail(w), Tail(w)[j].kind = "children", Tail(w)[j].node = Tail(w)[i].node
        PROVE  j = i
    <3>1. j + 1 \in DOMAIN w /\ w[j + 1].kind = "children" /\ w[j + 1].node = w[i + 1].node
      BY <1>2, <2>1, <2>3
    <3>2. j + 1 = i + 1
      BY <3>1, <2>1 DEF Batches
    <3> QED
      BY <3>2, <1>2
  <2> QED
    BY <2>2, <2>3, <1>3 DEF Undisturbed
<1> HIDE DEF stack
<1>4. ASSUME NEW i \in DOMAIN stack, stack[i].kind = "children"
      PROVE  /\ stack[i].index < stack[i].count
             /\ stack[i].node \in new \ blank
             /\ stack[i].degraded = (stack[i].node \in more)
             /\ \A j \in DOMAIN stack :
                  stack[j].kind = "children" /\ stack[j].node = stack[i].node => j = i
  <2>1. CASE i \in 1..Len(prefix)
    <3>1. /\ prefix[i].kind = "children" /\ i \in DOMAIN prefix /\ stack[i] = prefix[i]
      BY <1>1, <1>4, <2>1
    <3>2. /\ prefix[i].index < prefix[i].count
          /\ prefix[i].node \in new \ blank
          /\ prefix[i].degraded = (prefix[i].node \in more)
          /\ \A j \in DOMAIN prefix :
               prefix[j].kind = "children" /\ prefix[j].node = prefix[i].node => j = i
      BY <3>1 DEF Batches
    <3>3. ASSUME NEW j \in DOMAIN stack, stack[j].kind = "children", stack[j].node = stack[i].node
          PROVE  j = i
      <4>1. CASE j \in 1..Len(prefix)
        BY <1>1, <3>1, <3>2, <3>3, <4>1
      <4>2. CASE j \notin 1..Len(prefix)
        BY <1>1, <3>1, <3>3, <4>2 DEF Undisturbed
      <4> QED
        BY <4>1, <4>2
    <3> QED
      BY <3>1, <3>2, <3>3
  <2>2. CASE i \notin 1..Len(prefix)
    <3>1. i - Len(prefix) \in DOMAIN Tail(w) /\ stack[i] = Tail(w)[i - Len(prefix)]
      BY <1>1, <2>2
    <3>2. ASSUME NEW j \in DOMAIN stack, stack[j].kind = "children", stack[j].node = stack[i].node
          PROVE  j = i
      <4>1. CASE j \in 1..Len(prefix)
        BY <1>1, <3>1, <3>2, <1>4, <4>1 DEF Undisturbed
      <4>2. CASE j \notin 1..Len(prefix)
        <5>1. j - Len(prefix) \in DOMAIN Tail(w) /\ stack[j] = Tail(w)[j - Len(prefix)]
          BY <1>1, <4>2
        <5>2. j - Len(prefix) = i - Len(prefix)
          BY <5>1, <3>1, <3>2, <1>3, <1>4
        <5>3. j \in Nat /\ i \in Nat
          BY <1>1
        <5> QED
          BY <5>2, <5>3, <1>1
      <4> QED
        BY <4>1, <4>2
    <3> QED
      BY <3>1, <3>2, <1>3, <1>4
  <2> QED
    BY <2>1, <2>2
<1>5. Batches(stack, new, more, blank)
  BY <1>4 DEF Batches
<1> QED
  BY <1>5 DEF stack

-----------------------------------------------------------------------------
(* Visiting a node.                                                        *)

LEMMA NodeIsNew ==
  ASSUME Tree, Visiting
  PROVE  /\ Node \in Nodes \ visited
         /\ Node = work[1].node /\ work[1].kind = "visit" /\ 1 \in DOMAIN work
         /\ work[1] \in Items /\ Head(work) = work[1] /\ Ahead(work[1]) = {Node}
<1>1. /\ work \in Seq(Items) /\ work # <<>> /\ Head(work).kind = "visit"
  BY DEF Tree, Visiting, Walking
<1>2. /\ Head(work) = work[1] /\ work[1] \in Items /\ 1 \in DOMAIN work
  BY <1>1, TailOf
<1>3. Ahead(work[1]) = {Node}
  BY <1>1, <1>2 DEF Ahead, Node
<1>4. Node \in Nodes
  BY <1>2, <1>3, AheadAreNodes
<1>5. \A v \in visited : Earlier(v, Node)
  BY <1>2, <1>3 DEF Tree, Preorder
<1> QED
  BY <1>1, <1>2, <1>3, <1>4, <1>5, NeverBeforeItself DEF Node

\* What lies behind the node being visited comes after it.
LEMMA RestIsLater ==
  ASSUME NEW w \in Seq(Items), w # <<>>, NEW seen, Preorder(w, seen)
  PROVE  \A p \in Ahead(w[1]) : \A j \in DOMAIN Tail(w) : \A q \in Ahead(Tail(w)[j]) : Left(p, q)
<1> SUFFICES ASSUME NEW p \in Ahead(w[1]), NEW j \in DOMAIN Tail(w), NEW q \in Ahead(Tail(w)[j])
             PROVE  Left(p, q)
  OBVIOUS
<1>1. j + 1 \in DOMAIN w /\ Tail(w)[j] = w[j + 1] /\ 1 \in DOMAIN w /\ 1 < j + 1
  BY TailOf
<1> QED
  BY <1>1 DEF Preorder

\* The stack after a visit: what it had left, and the children of the node.
Batch0(n, count, degraded) ==
  [kind |-> "children", node |-> n, index |-> 0, count |-> count, degraded |-> degraded]

Fronts(n, count, degraded) == IF count > 0 THEN <<Batch0(n, count, degraded)>> ELSE <<>>

LEMMA PushedIsFront ==
  ASSUME NEW n, NEW count \in Int, NEW degraded, work \in Seq(Items), work # <<>>
  PROVE  Pushed(n, count, degraded) = Fronts(n, count, degraded) \o Tail(work)
<1>1. Tail(work) \in Seq(Items) /\ <<>> \o Tail(work) = Tail(work)
  BY TailOf
<1> QED
  BY <1>1 DEF Pushed, Fronts, Batch0

LEMMA FrontIsTyped ==
  ASSUME NEW n \in Nodes, NEW count \in Int, count <= MaxTree, NEW degraded \in BOOLEAN
  PROVE  /\ Fronts(n, count, degraded) \in Seq(Items)
         /\ DOMAIN Fronts(n, count, degraded) = IF count > 0 THEN {1} ELSE {}
         /\ count > 0 => /\ Fronts(n, count, degraded)[1] = Batch0(n, count, degraded)
                         /\ Ahead(Batch0(n, count, degraded)) = {Append(n, k) : k \in 1..count}
<1>1. CASE count > 0
  <2>1. count \in 0..MaxTree
    BY <1>1, WalkAssumption
  <2>2. Batch0(n, count, degraded) \in Items
    BY <2>1 DEF Batch0, Items, BatchItems
  <2>3. Ahead(Batch0(n, count, degraded)) = {Append(n, k) : k \in 1..count}
    BY DEF Ahead, Batch0
  <2> QED
    BY <1>1, <2>2, <2>3 DEF Fronts
<1>2. CASE ~(count > 0)
  BY <1>2 DEF Fronts
<1> QED
  BY <1>1, <1>2

LEMMA VisitOrdered ==
  ASSUME Tree, Visiting, NEW count \in Int, count <= MaxTree, NEW degraded \in BOOLEAN
  PROVE  /\ Fronts(Node, count, degraded) \o Tail(work) \in Seq(Items)
         /\ Preorder(Fronts(Node, count, degraded) \o Tail(work), visited \cup {Node})
<1> DEFINE prefix == Fronts(Node, count, degraded)
<1>1. /\ Node \in Nodes \ visited /\ Ahead(work[1]) = {Node} /\ 1 \in DOMAIN work
  BY NodeIsNew
<1>2. /\ work \in Seq(Items) /\ work # <<>> /\ Preorder(work, visited) /\ visited \subseteq Nodes
  BY DEF Tree, TreeTyped, Visiting, Walking
<1>3. /\ prefix \in Seq(Items)
      /\ DOMAIN prefix = IF count > 0 THEN {1} ELSE {}
      /\ count > 0 => Ahead(prefix[1]) = {Append(Node, k) : k \in 1..count}
  BY <1>1, FrontIsTyped
<1>4. \A j \in DOMAIN Tail(work) : \A q \in Ahead(Tail(work)[j]) : Left(Node, q) /\ q \in Nodes
  BY <1>1, <1>2, RestIsLater, TailOf, AheadAreNodes
<1>5. \A v \in visited : Earlier(v, Node)
  BY <1>1, <1>2 DEF Preorder
<1>6. ASSUME NEW i \in DOMAIN prefix, NEW p \in Ahead(prefix[i])
      PROVE  /\ \A j \in DOMAIN Tail(work) : \A q \in Ahead(Tail(work)[j]) : Left(p, q)
             /\ \A v \in visited \cup {Node} : Earlier(v, p)
  <2>1. PICK k \in 1..count : p = Append(Node, k)
    BY <1>3, <1>6
  <2>2. k \in 1..MaxTree
    BY <2>1, WalkAssumption
  <2>3. \A j \in DOMAIN Tail(work) : \A q \in Ahead(Tail(work)[j]) : Left(p, q)
    BY <1>1, <1>4, <2>1, <2>2, ChildrenStayLeft
  <2>4. \A v \in visited : Earlier(v, p)
    BY <1>1, <1>2, <1>5, <2>1, <2>2, EarlierThanChildren
  <2>5. Earlier(Node, p)
    BY <1>1, <2>1, <2>2, ParentIsEarlier
  <2> QED
    BY <2>3, <2>4, <2>5
<1>7. \A v \in (visited \cup {Node}) \ visited : \A j \in DOMAIN Tail(work) :
        \A q \in Ahead(Tail(work)[j]) : Earlier(v, q)
  BY <1>4, LeftIsEarlier
<1>8. \A i, j \in DOMAIN prefix : i < j =>
        \A p \in Ahead(prefix[i]), q \in Ahead(prefix[j]) : Left(p, q)
  BY <1>3
<1> HIDE DEF prefix
<1>9. prefix \o Tail(work) \in Seq(Items)
  BY <1>2, <1>3, TailOf, Concatenated
<1>10. Preorder(prefix \o Tail(work), visited \cup {Node})
  BY <1>2, <1>3, <1>6, <1>7, <1>8, OrderReplaced
<1> QED
  BY <1>9, <1>10 DEF prefix

LEMMA VisitBatches ==
  ASSUME Tree, Visiting, NEW count \in Int, count <= MaxTree, NEW degraded \in BOOLEAN,
         NEW more, NEW blank, more \ {Node} = unread \ {Node}, blank \ {Node} = blanks \ {Node},
         count > 0 => Node \notin blank /\ degraded = (Node \in more)
  PROVE  Batches(Fronts(Node, count, degraded) \o Tail(work), visited \cup {Node}, more, blank)
<1> DEFINE prefix == Fronts(Node, count, degraded)
<1>1. Node \in Nodes \ visited
  BY NodeIsNew
<1>2. /\ work \in Seq(Items) /\ work # <<>> /\ Batches(work, visited, unread, blanks)
  BY DEF Tree, Visiting, Walking
<1>3. /\ prefix \in Seq(Items)
      /\ DOMAIN prefix = IF count > 0 THEN {1} ELSE {}
      /\ count > 0 => prefix[1] = Batch0(Node, count, degraded)
  BY <1>1, FrontIsTyped
<1>4. Batches(prefix, visited \cup {Node}, more, blank)
  BY <1>3 DEF Batches, Batch0
<1>5. ASSUME NEW j \in DOMAIN Tail(work), Tail(work)[j].kind = "children"
      PROVE  Tail(work)[j].node \in visited \ blanks
  BY <1>2, <1>5, TailOf DEF Batches
<1>6. \A i \in DOMAIN prefix : prefix[i].node = Node
  BY <1>3 DEF Batch0
<1> HIDE DEF prefix
<1>7. ASSUME NEW j \in DOMAIN Tail(work), Tail(work)[j].kind = "children"
      PROVE  /\ Tail(work)[j].node \in (visited \cup {Node}) \ blank
             /\ Tail(work)[j].node \in more <=> Tail(work)[j].node \in unread
             /\ \A i \in DOMAIN prefix : prefix[i].kind = "children" => prefix[i].node # Tail(work)[j].node
  <2>1. Tail(work)[j].node \in visited \ blanks /\ Tail(work)[j].node # Node
    BY <1>1, <1>5, <1>7
  <2> QED
    BY <2>1, <1>6
<1>8. Undisturbed(work, prefix, visited, visited \cup {Node}, unread, more, blanks, blank)
  BY <1>7 DEF Undisturbed
<1>9. Batches(prefix \o Tail(work), visited \cup {Node}, more, blank)
  BY <1>2, <1>3, <1>4, <1>8, BatchesReplaced
<1> QED
  BY <1>9 DEF prefix

LEMMA VisitTallied ==
  ASSUME Tree, Visiting, visited' = visited \cup {Node}, NEW failed \in BOOLEAN,
         CountUnread(Node, failed), blanks' \subseteq blanks \cup {Node}, failed => Node \notin blanks'
  PROVE  Tallied'
<1>1. Node \notin visited
  BY NodeIsNew
<1>2. /\ IsFiniteSet(visited) /\ Cardinality(visited) < NodeLimit
      /\ IsFiniteSet(unread) /\ degradedNodes = Cardinality(unread)
      /\ blanks \cap unread = {} /\ unread \subseteq visited /\ blanks \subseteq visited
  BY DEF Tree, TreeTyped, Tallied, Visiting
<1>3. /\ IsFiniteSet(visited') /\ Cardinality(visited') = Cardinality(visited) + 1
  BY <1>1, <1>2, FS_AddElement
<1>4. Cardinality(visited') <= NodeLimit
  BY <1>2, <1>3, FS_CardinalityType, WalkAssumption
<1>5. CASE failed
  <2>1. unread' = unread \cup {Node} /\ degradedNodes' = degradedNodes + 1 /\ Node \notin unread
    BY <1>1, <1>2, <1>5 DEF CountUnread
  <2>2. IsFiniteSet(unread') /\ Cardinality(unread') = Cardinality(unread) + 1
    BY <1>2, <2>1, FS_AddElement
  <2> QED
    BY <1>2, <1>3, <1>4, <1>5, <2>1, <2>2 DEF Tallied
<1>6. CASE ~failed
  BY <1>1, <1>2, <1>3, <1>4, <1>6 DEF CountUnread, Tallied
<1> QED
  BY <1>5, <1>6

LEMMA VisitText ==
  ASSUME Tree, Visiting, NEW more, more = text \/ more = Append(text, Node)
  PROVE  TextOf(more, visited \cup {Node})
<1>1. /\ Node \in Nodes /\ 1 \in DOMAIN work /\ Ahead(work[1]) = {Node}
  BY NodeIsNew
<1>2. \A v \in visited : Earlier(v, Node)
  BY <1>1 DEF Tree, Preorder
<1>3. /\ text \in Seq(Nodes)
      /\ \A i \in DOMAIN text : text[i] \in visited
      /\ \A i, j \in DOMAIN text : i < j => Earlier(text[i], text[j])
  BY DEF Tree, TextOf
<1>4. CASE more = text
  BY <1>3, <1>4 DEF TextOf
<1>5. CASE more = Append(text, Node)
  <2>1. /\ more \in Seq(Nodes) /\ DOMAIN more = 1..Len(text) + 1 /\ DOMAIN text = 1..Len(text)
        /\ Len(text) \in Nat
        /\ \A i \in DOMAIN text : more[i] = text[i]
        /\ more[Len(text) + 1] = Node
    BY <1>1, <1>3, <1>5
  <2>2. \A i \in DOMAIN more : more[i] \in visited \cup {Node}
    BY <1>3, <2>1
  <2>3. ASSUME NEW i \in DOMAIN more, NEW j \in DOMAIN more, i < j
        PROVE  Earlier(more[i], more[j])
    <3>1. i \in DOMAIN text
      BY <2>1, <2>3
    <3>2. CASE j \in DOMAIN text
      BY <1>3, <2>1, <2>3, <3>1, <3>2
    <3>3. CASE j = Len(text) + 1
      BY <1>2, <1>3, <2>1, <3>1, <3>3
    <3> QED
      BY <2>1, <3>2, <3>3
  <2> QED
    BY <2>1, <2>2, <2>3 DEF TextOf
<1> QED
  BY <1>4, <1>5

\* A visit: noted is the count the node answered, pushed that of the children
\* that go on the stack.
LEMMA VisitKeepsTree ==
  ASSUME Tree, Visiting, visited' = visited \cup {Node},
         NEW noted \in Int, noted <= MaxTree - told, Note(Node, noted),
         NEW pushed \in Int, pushed <= MaxTree, NEW degraded \in BOOLEAN, NEW failed \in BOOLEAN,
         work' = Fronts(Node, pushed, degraded) \o Tail(work),
         pushed > 0 => Node \notin blanks' /\ degraded = failed,
         CountUnread(Node, failed), failed => Node \notin blanks',
         blanks' = blanks \/ blanks' = blanks \cup {Node},
         owing' \subseteq owing \cup {Node}, inputs' \subseteq inputs \cup {Node},
         masks' \subseteq masks \cup {Node},
         text' = text \/ text' = Append(text, Node)
  PROVE  Tree'
<1>1. /\ Node \in Nodes \ visited
  BY NodeIsNew
<1>2. /\ TreeTyped /\ Tallied
  BY DEF Tree
<1>3. TreeTyped'
  <2>1. /\ told' \in 0..MaxTree
        /\ DOMAIN kids' \subseteq visited'
        /\ \A n \in DOMAIN kids' : kids'[n] \in 0..MaxTree
    BY <1>2, WalkAssumption DEF TreeTyped, Note
  <2>2. unread' \subseteq visited' /\ blanks' \subseteq visited'
    BY <1>2 DEF TreeTyped, CountUnread
  <2> QED
    BY <1>1, <1>2, <2>1, <2>2 DEF TreeTyped
<1>4. work' \in Seq(Items) /\ Preorder(work', visited')
  BY VisitOrdered
<1>5. Batches(work', visited', unread', blanks')
  <2>1. unread' \ {Node} = unread \ {Node} /\ blanks' \ {Node} = blanks \ {Node}
    BY DEF CountUnread
  <2>2. Node \in unread' <=> failed
    BY <1>1, <1>2 DEF CountUnread, TreeTyped
  <2>3. pushed > 0 => Node \notin blanks' /\ degraded = (Node \in unread')
    BY <2>2
  <2> QED
    BY <2>1, <2>3, VisitBatches
<1>6. TextOf(text', visited')
  BY VisitText
<1>7. Tallied'
  BY VisitTallied
<1> QED
  BY <1>3, <1>4, <1>5, <1>6, <1>7 DEF Tree

LEMMA VisitOwes ==
  ASSUME Tree, Visiting, visited' = visited \cup {Node}, Owed(work, visited, kids),
         NEW noted \in Int, Note(Node, noted),
         NEW pushed \in Int, pushed <= MaxTree, NEW degraded \in BOOLEAN,
         work' = Fronts(Node, pushed, degraded) \o Tail(work),
         owing' = owing \/ (owing' = owing \cup {Node} /\ noted >= 0 /\ pushed = noted)
  PROVE  Owed(work, visited, kids)'
<1>1. /\ Node \in Nodes \ visited /\ Ahead(work[1]) = {Node}
  BY NodeIsNew
<1>2. /\ owing \subseteq visited /\ work \in Seq(Items) /\ work # <<>>
  BY DEF Tree, TreeTyped, Visiting, Walking
<1> DEFINE prefix == Fronts(Node, pushed, degraded)
<1>3. /\ prefix \in Seq(Items)
      /\ DOMAIN prefix = IF pushed > 0 THEN {1} ELSE {}
      /\ pushed > 0 => Ahead(prefix[1]) = {Append(Node, k) : k \in 1..pushed}
  BY <1>1, FrontIsTyped
<1>4. /\ Len(work') = Len(prefix) + Len(Tail(work)) /\ work' \in Seq(Items)
      /\ \A i \in 1..Len(prefix) : work'[i] = prefix[i]
      /\ \A i \in 1..Len(Tail(work)) : work'[i + Len(prefix)] = Tail(work)[i]
      /\ Len(prefix) \in Nat /\ Len(Tail(work)) \in Nat
      /\ DOMAIN prefix = 1..Len(prefix)
  <2>1. Tail(work) \in Seq(Items)
    BY <1>2, TailOf
  <2> HIDE DEF prefix
  <2>2. work' = prefix \o Tail(work)
    BY DEF prefix
  <2>3. prefix \in Seq(Items)
    BY <1>3
  <2> DEFINE stack == prefix \o Tail(work)
  <2>4. /\ stack \in Seq(Items) /\ Len(stack) = Len(prefix) + Len(Tail(work))
        /\ \A i \in 1..Len(prefix) : stack[i] = prefix[i]
        /\ \A i \in 1..Len(Tail(work)) : stack[i + Len(prefix)] = Tail(work)[i]
        /\ Len(prefix) \in Nat /\ Len(Tail(work)) \in Nat /\ DOMAIN prefix = 1..Len(prefix)
    BY <2>1, <2>3, Joined
  <2>5. work' = stack
    BY <2>2
  <2> HIDE DEF stack
  <2> QED
    BY <2>4, <2>5
<1> HIDE DEF prefix
<1>5. ASSUME NEW m \in owing', NEW k \in 1..kids'[m], m # Node
      PROVE  Append(m, k) \in visited' \/ \E i \in DOMAIN work' : Append(m, k) \in Ahead(work'[i])
  <2>1. m \in owing /\ m \in DOMAIN kids /\ kids'[m] = kids[m]
    BY <1>5 DEF Owed, Note
  <2>2. Append(m, k) \in visited \/ \E i \in DOMAIN work : Append(m, k) \in Ahead(work[i])
    BY <1>5, <2>1 DEF Owed
  <2>3. ASSUME NEW i \in DOMAIN work, Append(m, k) \in Ahead(work[i]), i # 1
        PROVE  \E j \in DOMAIN work' : Append(m, k) \in Ahead(work'[j])
    <3>1. i - 1 \in 1..Len(Tail(work)) /\ Tail(work)[i - 1] = work[i]
      BY <1>2, <2>3
    <3>2. /\ i - 1 + Len(prefix) \in DOMAIN work'
          /\ work'[i - 1 + Len(prefix)] = work[i]
      BY <1>4, <3>1
    <3> QED
      BY <2>3, <3>2
  <2> QED
    BY <1>1, <2>2, <2>3
<1>6. ASSUME NEW k \in 1..kids'[Node], Node \in owing'
      PROVE  \E i \in DOMAIN work' : Append(Node, k) \in Ahead(work'[i])
  <2>1. noted >= 0 /\ pushed = noted /\ kids'[Node] = noted
    BY <1>1, <1>2, <1>6 DEF Note
  <2>2. pushed > 0 /\ 1 \in DOMAIN prefix
    BY <1>3, <1>6, <2>1
  <2>3. 1 \in DOMAIN work' /\ work'[1] = prefix[1]
    BY <1>4, <2>2
  <2> QED
    BY <1>3, <1>6, <2>1, <2>2, <2>3
<1>7. \A m \in owing' : m \in DOMAIN kids'
  BY DEF Note, Owed
<1> QED
  BY <1>5, <1>6, <1>7 DEF Owed

-----------------------------------------------------------------------------
(* The steps of the scan.                                                  *)


\* The steps that leave the tree as it was.
TreeStands == UNCHANGED <<work, visited, kids, told, owing, found, unread, degradedNodes>>

LEMMA StandingTree ==
  ASSUME WalkHolds, TreeStands
  PROVE  Tree' /\ (Owed(work, visited, kids) => Owed(work, visited, kids)')
                /\ (inputs \subseteq masks => inputs' \subseteq masks')
  BY DEF WalkHolds, TreeStands, Tree, TreeTyped, Tallied, Owed, found

\* The window with the expected number is the one chosen, or one with its frame.
LEMMA FrameIsOfExpected ==
  ASSUME Chosen(windows, candidates, onScreen, chosen), NEW list \in Lists \cup {Unasked},
         NEW w \in {1, 2}, windows[w].frame # NoFrame,
         WindowForFrame(list, windows[w].frame) = Expected
  PROVE  windows[w].frame = windows[Expected].frame
<1> DEFINE same == {i \in DOMAIN list : windows[list[i]].frame = windows[w].frame}
           first == CHOOSE i \in same : \A j \in same : i <= j
<1>1. same # {} /\ list[first] = Expected
  BY DEF WindowForFrame, Expected
<1>3. PICK i \in same : \A j \in same : i <= j
  <2>1. same \subseteq {1, 2}
    BY DEF Unasked, Lists
  <2> HIDE DEF same
  <2>2. CASE 1 \in same
    BY <2>1, <2>2
  <2>3. CASE 1 \notin same
    <3>1. same = {2}
      BY <1>1, <2>1, <2>3
    <3> QED
      BY <3>1
  <2> QED
    BY <2>2, <2>3
<1>4. first \in same
  BY <1>3
<1> QED
  BY <1>1, <1>4

LEMMA ScreenListsAre ==
  ASSUME Chosen(windows, candidates, onScreen, chosen)
  PROVE  ScreenLists \subseteq Lists /\ Lists \subseteq Seq({1, 2}) /\ OnScreenNow \subseteq Lists \cup {Unasked}
<1>1. DOMAIN windows = {1, 2} /\ onScreen \in Lists \cup {Unasked}
  BY DEF Chosen
<1>2. ScreenLists \subseteq Lists
  BY <1>1 DEF ScreenLists, Lists
<1> QED
  BY <1>1, <1>2 DEF Lists, OnScreenNow

LEMMA ResolveKeepsChoice ==
  ASSUME Chosen(windows, candidates, onScreen, chosen), ResolveWindow
  PROVE  Chosen(windows, candidates, onScreen, chosen)'
<1> DEFINE w == Head(candidates)
<1>1. /\ windows \in [{1, 2} -> [numbered : BOOLEAN, frame : {0, 1, 2}]]
      /\ candidates \in Seq({1, 2}) /\ candidates # <<>> /\ onScreen \in Lists \cup {Unasked}
      /\ windows' = windows
  BY DEF Chosen, ResolveWindow
<1>2. w \in {1, 2} /\ Tail(candidates) \in Seq({1, 2})
  BY <1>1, TailOf
<1>3. PICK list \in IF Misses(w) \/ windows[w].numbered THEN {onScreen} ELSE OnScreenNow :
        /\ onScreen' = list
        /\ IF Misses(w) \/ (~windows[w].numbered /\ WindowForFrame(list, windows[w].frame) # Expected)
           THEN /\ candidates' = Tail(candidates)
                /\ UNCHANGED <<phase, chosen>>
           ELSE /\ chosen' = w
                /\ phase' = "title"
                /\ UNCHANGED candidates
  BY DEF ResolveWindow
<1>4. list \in Lists \cup {Unasked}
  BY <1>1, <1>3, ScreenListsAre
<1>5. CASE chosen' = chosen
  BY <1>1, <1>2, <1>3, <1>4, <1>5 DEF Chosen
<1>6. CASE chosen' # chosen
  <2>1. /\ ~Misses(w) /\ chosen' = w /\ candidates' = candidates
        /\ windows[w].numbered \/ WindowForFrame(list, windows[w].frame) = Expected
    BY <1>3, <1>6
  <2>2. windows[w].frame # NoFrame /\ (windows[w].numbered => w = Expected)
    BY <2>1 DEF Misses
  <2>3. windows[w].frame = windows[Expected].frame
    BY <1>2, <1>4, <2>1, <2>2, FrameIsOfExpected
  <2> HIDE DEF w
  <2>4. windows[1].frame # windows[2].frame => w = 1
    BY <1>2, <2>3 DEF Expected
  <2> QED
    BY <1>1, <1>2, <1>3, <1>4, <2>1, <2>4 DEF Chosen, Expected
<1> QED
  BY <1>5, <1>6

LEMMA ChoiceKept ==
  ASSUME WalkHolds, WalkNext
  PROVE  Chosen(windows, candidates, onScreen, chosen)'
<1>1. Chosen(windows, candidates, onScreen, chosen)
  BY DEF WalkHolds
<1>2. CASE ReadFocusedWindow
  <2>1. candidates' \in Seq({1, 2})
    <3>1. candidates' \in {<<>>, <<1>>, <<2>>}
      BY <1>2 DEF ReadFocusedWindow
    <3>2. <<>> \in Seq({1, 2}) /\ <<1>> \in Seq({1, 2}) /\ <<2>> \in Seq({1, 2})
      OBVIOUS
    <3> QED
      BY <3>1, <3>2
  <2> QED
    BY <1>1, <1>2, <2>1 DEF ReadFocusedWindow, Chosen
<1>3. CASE ReadWindows
  <2>1. candidates' \in Seq({1, 2})
    BY <1>1, <1>3, ScreenListsAre DEF ReadWindows
  <2> QED
    BY <1>1, <1>3, <2>1 DEF ReadWindows, Chosen
<1>4. CASE ResolveWindow
  BY <1>1, <1>4, ResolveKeepsChoice
<1>5. CASE ReadTitle
  <2>1. /\ windows' = [w \in {1, 2} |-> [numbered |-> FALSE, frame |-> 0]]
        /\ candidates' = <<>> /\ onScreen' = Unasked /\ chosen' = 0
    BY <1>1, <1>5 DEF ReadTitle, Chosen, NoFrame
  <2> QED
    BY <2>1 DEF Chosen
<1>6. CASE UNCHANGED choice
  BY <1>1, <1>6 DEF choice, Chosen
<1>7. WalkNext => ReadFocusedWindow \/ ReadWindows \/ ResolveWindow \/ ReadTitle \/ UNCHANGED choice
  BY DEF WalkNext, NoWindowMatched, TimeIsUp, SearchFails, NodesAreUp, VisitUnreadable,
         VisitTooLate, VisitFrameless, VisitOffWindow, VisitOverflowing, VisitShown, LoadChildren,
         WindowGone, OutOfBudget, FinishWalk
<1> QED
  BY <1>2, <1>3, <1>4, <1>5, <1>6, <1>7

-----------------------------------------------------------------------------
(* The steps before the walk and after it, which leave the tree alone.     *)

LEMMA TitleKeeps ==
  ASSUME WalkHolds, ReadTitle
  PROVE  WalkHolds'
<1>1. Chosen(windows, candidates, onScreen, chosen)'
  BY ChoiceKept DEF WalkNext
<1>2. /\ work = <<>> /\ visited = {} /\ gaps' = gaps /\ cutoff' = cutoff
      /\ visited' = visited /\ kids' = kids /\ told' = told /\ owing' = owing
      /\ UNCHANGED found /\ unread' = unread /\ degradedNodes' = degradedNodes
      /\ \/ work' = <<[kind |-> "visit", node |-> Root]>> /\ phase' = "walk"
         \/ work' = <<>> /\ phase' = "denied"
  BY DEF ReadTitle, WalkHolds, Staged
<1>3. Staged'
  BY <1>2 DEF WalkHolds, Staged
<1>4. work' \in Seq(Items)
  <2>1. Root \in Nodes
    BY DEF Root, Nodes
  <2>2. [kind |-> "visit", node |-> Root] \in Items
    BY <2>1 DEF Items, VisitItems
  <2>3. <<[kind |-> "visit", node |-> Root]>> \in Seq(Items) /\ <<>> \in Seq(Items)
    BY <2>2
  <2> QED
    BY <1>2, <2>3
<1>5. Preorder(work, visited)'
  BY <1>2 DEF Preorder
<1>6. Batches(work, visited, unread, blanks)'
  BY <1>2 DEF Batches
<1>7. TreeTyped' /\ TextOf(text, visited)' /\ Tallied'
  BY <1>2 DEF WalkHolds, Tree, TreeTyped, Tallied, found
<1>8. owing' = {} /\ inputs' = inputs /\ masks' = masks
  BY <1>2 DEF WalkHolds, Tree, TreeTyped, found
<1> QED
  BY <1>1, <1>2, <1>3, <1>4, <1>5, <1>6, <1>7, <1>8 DEF WalkHolds, Tree, Owed

LEMMA StandingSteps ==
  ASSUME WalkHolds, WalkNext, TreeStands, Staged',
         cutoff' = "none" /\ gaps' = {} => cutoff = "none" /\ gaps = {}
  PROVE  WalkHolds'
  BY StandingTree, ChoiceKept DEF WalkHolds

LEMMA SearchKeeps ==
  ASSUME WalkHolds,
         ReadFocusedWindow \/ ReadWindows \/ ResolveWindow \/ NoWindowMatched \/ TimeIsUp \/ SearchFails
  PROVE  WalkHolds'
<1>1. TreeStands /\ WalkNext
  BY DEF TreeStands, ReadFocusedWindow, ReadWindows, ResolveWindow, NoWindowMatched, TimeIsUp,
         SearchFails, EndScan, WalkNext
<1>2. /\ work' = work /\ visited' = visited
      /\ \/ gaps' = gaps /\ cutoff' = cutoff
         \/ gaps' = {"cutoff"} /\ cutoff' = "time" /\ phase' = "scanned"
  BY <1>1 DEF TreeStands, ReadFocusedWindow, ReadWindows, ResolveWindow, NoWindowMatched, TimeIsUp,
         SearchFails, EndScan
<1>3. /\ phase \in {"focused", "resolve", "title"}
      /\ \/ phase' \in {"focused", "resolve", "title", "unresolved", "failed"}
         \/ phase' = "scanned" /\ gaps' = {"cutoff"} /\ cutoff' = "time"
  <2>1. CASE ReadFocusedWindow
    BY <2>1 DEF ReadFocusedWindow
  <2>4. CASE ReadWindows
    BY <2>4 DEF ReadWindows
  <2>2. CASE ResolveWindow
    BY <2>2 DEF ResolveWindow
  <2>3. CASE NoWindowMatched \/ TimeIsUp \/ SearchFails
    BY <2>3 DEF NoWindowMatched, TimeIsUp, SearchFails, EndScan
  <2> QED
    BY <2>1, <2>2, <2>3, <2>4
<1>4. Staged'
  BY <1>2, <1>3 DEF WalkHolds, Staged
<1> QED
  BY <1>1, <1>2, <1>4, StandingSteps

LEMMA EndKeeps ==
  ASSUME WalkHolds, WindowGone \/ OutOfBudget \/ FinishWalk
  PROVE  WalkHolds'
<1>1. TreeStands /\ WalkNext
  BY DEF TreeStands, WindowGone, OutOfBudget, FinishWalk, EndScan, WalkNext
<1>2. /\ work' = work /\ phase = "walk"
      /\ \/ phase' = "failed" /\ gaps' = gaps /\ cutoff' = cutoff
         \/ phase' = "walk" /\ gaps' = gaps /\ cutoff' \in {"time", "stopped"}
         \/ /\ phase' = "scanned" /\ cutoff' = cutoff
            /\ gaps' = (IF cutoff # "none" THEN gaps \cup {"cutoff"} ELSE gaps)
            /\ work = <<>> \/ cutoff # "none"
  BY <1>1 DEF TreeStands, WindowGone, OutOfBudget, FinishWalk, EndScan, Walking, OutOfTime
<1>3. Staged'
  BY <1>2 DEF WalkHolds, Staged
<1> QED
  BY <1>1, <1>2, <1>3, StandingSteps

-----------------------------------------------------------------------------
(* The steps of the walk.                                                  *)

\* What holds of a count that an application answers.
LEMMA CountsAre ==
  ASSUME Tree, NEW count \in Counts \cup {Uncounted}
  PROVE  count \in Int /\ count <= MaxTree - told /\ count <= MaxTree
         /\ (count >= 0 <=> count \notin {Failed, Late, Uncounted})
  BY WalkAssumption DEF Tree, TreeTyped, Counts, Failed, Late, Uncounted

LEMMA WalkStage ==
  ASSUME WalkHolds, Walking, phase' = "walk",
         gaps' \subseteq gaps \cup {"roleUnreadable", "childrenUnreadable", "childrenShort", "framelessInput"},
         cutoff' \in {"none", "time", "stopped", "nodes", "bytes"}
  PROVE  Staged'
  BY DEF WalkHolds, Staged

LEMMA PopOrdered ==
  ASSUME NEW w \in Seq(Items), w # <<>>, NEW seen, Preorder(w, seen)
  PROVE  Preorder(<<>> \o Tail(w), seen)
<1>1. <<>> \in Seq(Items) /\ DOMAIN <<>> = {}
  OBVIOUS
<1>2. \A v \in seen \ seen : \A j \in DOMAIN Tail(w) : \A q \in Ahead(Tail(w)[j]) : Earlier(v, q)
  OBVIOUS
<1> DEFINE prefix == <<>>
<1>3. prefix \in Seq(Items) /\ DOMAIN prefix = {}
  BY <1>1
<1> HIDE DEF prefix
<1>4. Preorder(prefix \o Tail(w), seen)
  BY <1>2, <1>3, OrderReplaced
<1> QED
  BY <1>4 DEF prefix

LEMMA PopBatches ==
  ASSUME NEW w \in Seq(Items), w # <<>>, NEW seen, NEW missed, NEW empty,
         Batches(w, seen, missed, empty)
  PROVE  Batches(<<>> \o Tail(w), seen, missed, empty)
<1> DEFINE prefix == <<>>
<1>1. prefix \in Seq(Items) /\ DOMAIN prefix = {}
  OBVIOUS
<1> HIDE DEF prefix
<1>2. Batches(prefix, seen, missed, empty)
  BY <1>1 DEF Batches
<1>3. Undisturbed(w, prefix, seen, seen, missed, missed, empty, empty)
  BY <1>1 DEF Undisturbed
<1>4. Batches(prefix \o Tail(w), seen, missed, empty)
  BY <1>1, <1>2, <1>3, BatchesReplaced
<1> QED
  BY <1>4 DEF prefix

LEMMA NodesAreUpKeeps ==
  ASSUME WalkHolds, NodesAreUp
  PROVE  WalkHolds'
<1>1. Chosen(windows, candidates, onScreen, chosen)'
  BY ChoiceKept DEF WalkNext
<1>2. /\ Walking /\ work \in Seq(Items) /\ work # <<>> /\ phase' = "walk"
  BY DEF NodesAreUp, Walking, WalkHolds, Tree
<1>3. Staged'
  BY <1>2, WalkStage DEF NodesAreUp
<1>4. /\ TreeTyped' /\ TextOf(text, visited)' /\ Tallied'
  BY DEF NodesAreUp, WalkHolds, Tree, TreeTyped, Tallied, found
<1>5. /\ work' = <<>> \o Tail(work) /\ work' \in Seq(Items)
  BY <1>2, TailOf DEF NodesAreUp
<1>6. Preorder(<<>> \o Tail(work), visited)
  BY <1>2, PopOrdered DEF WalkHolds, Tree
<1>7. Batches(<<>> \o Tail(work), visited, unread, blanks)
  BY <1>2, PopBatches DEF WalkHolds, Tree
<1>8. visited' = visited /\ unread' = unread /\ blanks' = blanks /\ cutoff' = "nodes"
  BY DEF NodesAreUp, found
<1> QED
  BY <1>1, <1>3, <1>4, <1>5, <1>6, <1>7, <1>8 DEF WalkHolds, Tree

LEMMA NothingPushed ==
  ASSUME NEW n, NEW degraded, work \in Seq(Items), work # <<>>
  PROVE  Tail(work) = Fronts(n, 0, degraded) \o Tail(work)
<1>1. <<>> \o Tail(work) = Tail(work)
  BY TailOf
<1> QED
  BY <1>1 DEF Fronts

\* What every visit has in common.
LEMMA VisitStarts ==
  ASSUME WalkHolds, Visiting
  PROVE  /\ Walking /\ Tree /\ work \in Seq(Items) /\ work # <<>> /\ cutoff = "none"
         /\ gaps = {} => Owed(work, visited, kids) /\ inputs \subseteq masks
         /\ Node \notin visited
  BY NodeIsNew DEF WalkHolds, Visiting, Walking, Tree

\* A visit that leaves no children on the stack.
LEMMA LeafKeepsTree ==
  ASSUME Tree, Visiting, visited' = visited \cup {Node}, work' = Tail(work),
         NEW noted \in Int, noted <= MaxTree - told, Note(Node, noted),
         NEW failed \in BOOLEAN, CountUnread(Node, failed), failed => Node \notin blanks',
         blanks' = blanks \/ blanks' = blanks \cup {Node},
         owing' = owing, inputs' \subseteq inputs \cup {Node}, masks' \subseteq masks \cup {Node},
         text' = text \/ text' = Append(text, Node)
  PROVE  Tree' /\ (Owed(work, visited, kids) => Owed(work, visited, kids)')
<1>1. PICK none \in Int : none = 0
  OBVIOUS
<1>2. PICK no \in BOOLEAN : no = FALSE
  OBVIOUS
<1>3. work' = Fronts(Node, none, no) \o Tail(work)
  BY <1>1, NothingPushed DEF Tree, Visiting, Walking
<1>4. none <= MaxTree /\ ~(none > 0) /\ owing' \subseteq owing \cup {Node}
  BY <1>1, WalkAssumption
<1>5. Tree'
  BY <1>3, <1>4, VisitKeepsTree
<1>6. Owed(work, visited, kids) => Owed(work, visited, kids)'
  BY <1>3, <1>4, VisitOwes
<1> QED
  BY <1>5, <1>6

\* A visit of a node that told nothing more.
LEMMA SilentNote ==
  ASSUME Tree, UNCHANGED <<kids, told>>, UNCHANGED <<unread, degradedNodes>>
  PROVE  \E noted \in Int, failed \in BOOLEAN :
           /\ noted <= MaxTree - told /\ Note(Node, noted)
           /\ ~failed /\ CountUnread(Node, failed)
<1>1. Uncounted \in Int /\ Uncounted <= MaxTree - told /\ ~(Uncounted >= 0)
  BY CountsAre DEF Uncounted
<1>2. PICK failed \in BOOLEAN : failed = FALSE
  OBVIOUS
<1>3. Note(Node, Uncounted)
  BY <1>1 DEF Note
<1>4. CountUnread(Node, failed)
  BY <1>2 DEF CountUnread
<1> QED
  BY <1>1, <1>2, <1>3, <1>4

LEMMA UnreadableKeeps ==
  ASSUME WalkHolds, VisitUnreadable
  PROVE  WalkHolds'
<1>1. Chosen(windows, candidates, onScreen, chosen)'
  BY ChoiceKept DEF WalkNext
<1>2. /\ Walking /\ Tree /\ work \in Seq(Items) /\ work # <<>> /\ cutoff = "none" /\ Visiting
      /\ Node \notin visited
  BY VisitStarts DEF VisitUnreadable
<1>3. PICK count \in Counts :
        /\ Note(Node, count) /\ work' = Pushed(Node, count, TRUE)
        /\ cutoff' \in {"none", "time", "stopped"}
  BY DEF VisitUnreadable, InTime, OutOfTime
<1>4. count \in Int /\ count <= MaxTree - told /\ count <= MaxTree
  BY <1>2, CountsAre
<1>5. work' = Fronts(Node, count, TRUE) \o Tail(work)
  BY <1>2, <1>3, <1>4, PushedIsFront
<1>6. Node \notin blanks' /\ blanks' = blanks /\ text' = text /\ masks' = masks
  BY <1>2 DEF VisitUnreadable, Tree, TreeTyped
<1>7. Tree'
  BY <1>2, <1>3, <1>4, <1>5, <1>6, VisitKeepsTree DEF VisitUnreadable
<1>8. phase' = "walk" /\ gaps' = gaps \cup {"roleUnreadable"}
  BY <1>2 DEF VisitUnreadable, Walking
<1>9. Staged'
  BY <1>2, <1>3, <1>8, WalkStage
<1> QED
  BY <1>1, <1>7, <1>8, <1>9 DEF WalkHolds

LEMMA TooLateKeeps ==
  ASSUME WalkHolds, VisitTooLate
  PROVE  WalkHolds'
<1>1. Chosen(windows, candidates, onScreen, chosen)'
  BY ChoiceKept DEF WalkNext
<1>2. /\ Walking /\ Tree /\ work \in Seq(Items) /\ work # <<>> /\ cutoff = "none" /\ Visiting
  BY VisitStarts DEF VisitTooLate
<1>3. /\ cutoff' \in {"time", "stopped"} /\ phase' = "walk" /\ gaps' = gaps
      /\ inputs' \subseteq inputs \cup {Node}
      /\ UNCHANGED <<owing, masks, blanks, text>>
  BY <1>2 DEF VisitTooLate, Walking, OutOfTime
<1>4. PICK noted \in Int, failed \in BOOLEAN :
        /\ noted <= MaxTree - told /\ Note(Node, noted)
        /\ ~failed /\ CountUnread(Node, failed)
  BY <1>2, SilentNote DEF VisitTooLate
<1>5. work' = Tail(work)
  BY DEF VisitTooLate
<1>6. visited' = visited \cup {Node}
  BY DEF VisitTooLate
<1>7. Tree'
  BY <1>2, <1>3, <1>4, <1>5, <1>6, LeafKeepsTree
<1>8. Staged'
  BY <1>2, <1>3, WalkStage
<1> QED
  BY <1>1, <1>3, <1>7, <1>8 DEF WalkHolds

LEMMA OffWindowKeeps ==
  ASSUME WalkHolds, VisitOffWindow
  PROVE  WalkHolds'
<1>1. Chosen(windows, candidates, onScreen, chosen)'
  BY ChoiceKept DEF WalkNext
<1>2. /\ Walking /\ Tree /\ work \in Seq(Items) /\ work # <<>> /\ cutoff = "none" /\ Visiting
      /\ gaps = {} => Owed(work, visited, kids) /\ inputs \subseteq masks
  BY VisitStarts DEF VisitOffWindow
<1>3. /\ cutoff' = cutoff /\ phase' = "walk" /\ gaps' = gaps
      /\ UNCHANGED <<owing, inputs, masks, blanks, text>>
  BY <1>2 DEF VisitOffWindow, Walking, found
<1>4. PICK noted \in Int, failed \in BOOLEAN :
        /\ noted <= MaxTree - told /\ Note(Node, noted)
        /\ ~failed /\ CountUnread(Node, failed)
  BY <1>2, SilentNote DEF VisitOffWindow
<1>5. work' = Tail(work)
  BY DEF VisitOffWindow
<1>6. visited' = visited \cup {Node}
  BY DEF VisitOffWindow
<1>7. Tree'
  BY <1>2, <1>3, <1>4, <1>5, <1>6, LeafKeepsTree
<1>8. Owed(work, visited, kids) => Owed(work, visited, kids)'
  BY <1>2, <1>3, <1>4, <1>5, <1>6, LeafKeepsTree
<1>9. Staged'
  BY <1>2, <1>3, WalkStage
<1> QED
  BY <1>1, <1>2, <1>3, <1>7, <1>8, <1>9 DEF WalkHolds

LEMMA OverflowingKeeps ==
  ASSUME WalkHolds, VisitOverflowing
  PROVE  WalkHolds'
<1>1. Chosen(windows, candidates, onScreen, chosen)'
  BY ChoiceKept DEF WalkNext
<1>2. /\ Walking /\ Tree /\ work \in Seq(Items) /\ work # <<>> /\ cutoff = "none" /\ Visiting
  BY VisitStarts DEF VisitOverflowing
<1>3. /\ cutoff' = "bytes" /\ phase' = "walk" /\ gaps' = gaps
      /\ inputs' \subseteq inputs \cup {Node} /\ masks' \subseteq masks \cup {Node}
      /\ UNCHANGED <<owing, blanks, text>>
  BY <1>2 DEF VisitOverflowing, Walking
<1>4. PICK noted \in Int, failed \in BOOLEAN :
        /\ noted <= MaxTree - told /\ Note(Node, noted)
        /\ ~failed /\ CountUnread(Node, failed)
  BY <1>2, SilentNote DEF VisitOverflowing
<1>5. work' = Tail(work)
  BY DEF VisitOverflowing
<1>6. visited' = visited \cup {Node}
  BY DEF VisitOverflowing
<1>7. Tree'
  BY <1>2, <1>3, <1>4, <1>5, <1>6, LeafKeepsTree
<1>8. Staged'
  BY <1>2, <1>3, WalkStage
<1> QED
  BY <1>1, <1>3, <1>7, <1>8 DEF WalkHolds

LEMMA FramelessKeeps ==
  ASSUME WalkHolds, VisitFrameless
  PROVE  WalkHolds'
<1>1. Chosen(windows, candidates, onScreen, chosen)'
  BY ChoiceKept DEF WalkNext
<1>2. /\ Walking /\ Tree /\ work \in Seq(Items) /\ work # <<>> /\ cutoff = "none" /\ Visiting
      /\ gaps = {} => Owed(work, visited, kids) /\ inputs \subseteq masks
      /\ Node \notin visited
  BY VisitStarts DEF VisitFrameless
<1>3. PICK class \in Classes, count \in Counts \cup {Uncounted} :
        /\ Descend(Node, class, FALSE, count)
        /\ gaps' = gaps \cup (IF IsInput(class) THEN {"framelessInput"} ELSE {})
                        \cup (IF count = Failed THEN {"childrenUnreadable"} ELSE {})
        /\ inputs' = IF IsInput(class) THEN inputs \cup {Node} ELSE inputs
  BY DEF VisitFrameless
<1>4. /\ count \in Int /\ count <= MaxTree - told /\ count <= MaxTree
      /\ count >= 0 <=> count \notin {Failed, Late, Uncounted}
  BY <1>2, CountsAre
<1>5. /\ work' = Fronts(Node, count, FALSE) \o Tail(work)
      /\ Note(Node, count) /\ CountUnread(Node, count = Failed)
      /\ cutoff' \in {"none", "time", "stopped"} /\ (count = Late => cutoff' # "none")
      /\ owing' = IF count # Uncounted THEN owing \cup {Node} ELSE owing
  BY <1>2, <1>3, <1>4, PushedIsFront DEF Descend, InTime, OutOfTime
<1>6. /\ blanks' = blanks /\ Node \notin blanks' /\ text' = text /\ masks' = masks
      /\ visited' = visited \cup {Node} /\ phase' = "walk"
  BY <1>2 DEF VisitFrameless, Tree, TreeTyped, Walking
<1>7. count > 0 => ~(count = Failed)
  BY DEF Failed
<1>8. /\ owing' \subseteq owing \cup {Node} /\ inputs' \subseteq inputs \cup {Node}
      /\ (count = Failed) \in BOOLEAN
  BY <1>3, <1>5
<1>9. Tree'
  BY <1>2, <1>4, <1>5, <1>6, <1>7, <1>8, VisitKeepsTree
<1>10. ASSUME cutoff' = "none", gaps' = {}
       PROVE  Owed(work, visited, kids)' /\ inputs' \subseteq masks'
  <2>1. /\ gaps = {} /\ ~IsInput(class) /\ count # Failed /\ count # Late
    BY <1>3, <1>5, <1>10
  <2>2. owing' = owing \/ (owing' = owing \cup {Node} /\ count >= 0)
    BY <1>4, <1>5, <2>1
  <2>3. PICK no \in BOOLEAN : no = FALSE
    OBVIOUS
  <2>4. work' = Fronts(Node, count, no) \o Tail(work)
    BY <1>5, <2>3
  <2>5. Owed(work, visited, kids)'
    BY <1>2, <1>4, <1>5, <1>6, <2>1, <2>2, <2>4, VisitOwes
  <2> QED
    BY <1>2, <1>3, <1>6, <2>1, <2>5
<1>11. gaps' \subseteq gaps \cup {"framelessInput", "childrenUnreadable"}
  BY <1>3
<1>12. Staged'
  BY <1>2, <1>5, <1>6, <1>11, WalkStage
<1> QED
  BY <1>1, <1>9, <1>10, <1>12 DEF WalkHolds

\* A node that is shown: what is asked of it, and what goes on the stack.
LEMMA ShownKeeps ==
  ASSUME WalkHolds, VisitShown
  PROVE  WalkHolds'
<1>1. Chosen(windows, candidates, onScreen, chosen)'
  BY ChoiceKept DEF WalkNext
<1>2. /\ Walking /\ Tree /\ work \in Seq(Items) /\ work # <<>> /\ cutoff = "none" /\ Visiting
      /\ gaps = {} => Owed(work, visited, kids) /\ inputs \subseteq masks
      /\ Node \notin visited
  BY VisitStarts DEF VisitShown
<1>3. PICK class \in Classes : \E answer \in TextAnswers(class) :
        \E count \in Counts \cup {Uncounted} :
          /\ LET probed == ~Descends(class) /\ MayBeBlankSlot(class, answer)
             IN  IF probed
                 THEN /\ count # Uncounted
                      /\ Note(Node, count)
                      /\ work' = Tail(work)
                      /\ IF count = Late THEN OutOfTime ELSE InTime
                      /\ CountUnread(Node, count = Failed)
                      /\ UNCHANGED <<owing, gaps>>
                 ELSE /\ Descend(Node, class, answer = "failed", count)
                      /\ gaps' = IF count = Failed THEN gaps \cup {"childrenUnreadable"} ELSE gaps
          /\ text' = IF answer = "text" THEN Append(text, Node) ELSE text
          /\ inputs' = IF IsInput(class) THEN inputs \cup {Node} ELSE inputs
          /\ masks' = IF IsInput(class) THEN masks \cup {Node} ELSE masks
          /\ blanks' = IF MayBeBlankSlot(class, answer) /\ count = 0
                       THEN blanks \cup {Node} ELSE blanks
  BY DEF VisitShown
<1>4. PICK answer \in TextAnswers(class), count \in Counts \cup {Uncounted} :
          /\ LET probed == ~Descends(class) /\ MayBeBlankSlot(class, answer)
             IN  IF probed
                 THEN /\ count # Uncounted
                      /\ Note(Node, count)
                      /\ work' = Tail(work)
                      /\ IF count = Late THEN OutOfTime ELSE InTime
                      /\ CountUnread(Node, count = Failed)
                      /\ UNCHANGED <<owing, gaps>>
                 ELSE /\ Descend(Node, class, answer = "failed", count)
                      /\ gaps' = IF count = Failed THEN gaps \cup {"childrenUnreadable"} ELSE gaps
          /\ text' = IF answer = "text" THEN Append(text, Node) ELSE text
          /\ inputs' = IF IsInput(class) THEN inputs \cup {Node} ELSE inputs
          /\ masks' = IF IsInput(class) THEN masks \cup {Node} ELSE masks
          /\ blanks' = IF MayBeBlankSlot(class, answer) /\ count = 0
                       THEN blanks \cup {Node} ELSE blanks
  BY <1>3
<1>5. /\ count \in Int /\ count <= MaxTree - told /\ count <= MaxTree
      /\ count >= 0 <=> count \notin {Failed, Late, Uncounted}
  BY <1>2, CountsAre
<1>6. /\ visited' = visited \cup {Node} /\ phase' = "walk"
      /\ Node \notin blanks /\ (blanks' = blanks \/ blanks' = blanks \cup {Node})
      /\ (text' = text \/ text' = Append(text, Node))
      /\ inputs' \subseteq inputs \cup {Node} /\ masks' \subseteq masks \cup {Node}
      /\ inputs \subseteq masks => inputs' \subseteq masks'
  BY <1>2, <1>4 DEF VisitShown, Tree, TreeTyped, Walking
<1>7. blanks' # blanks => MayBeBlankSlot(class, answer) /\ count = 0
  BY <1>4
<1>8. CASE ~Descends(class) /\ MayBeBlankSlot(class, answer)
  <2>1. PICK failed \in BOOLEAN : failed <=> count = Failed
    OBVIOUS
  <2>2. /\ Note(Node, count) /\ work' = Tail(work) /\ cutoff' \in {"none", "time", "stopped"}
        /\ CountUnread(Node, failed) /\ owing' = owing /\ gaps' = gaps
    BY <1>4, <1>8, <2>1 DEF InTime, OutOfTime, CountUnread
  <2>3. failed => Node \notin blanks'
    <3>1. failed => count # 0
      BY <2>1 DEF Failed
    <3> QED
      BY <1>6, <1>7, <3>1
  <2>4. Tree' /\ (Owed(work, visited, kids) => Owed(work, visited, kids)')
    BY <1>2, <1>5, <1>6, <2>2, <2>3, LeafKeepsTree
  <2>5. Staged'
    BY <1>2, <1>6, <2>2, WalkStage
  <2> QED
    BY <1>1, <1>2, <1>6, <2>2, <2>4, <2>5 DEF WalkHolds
<1>9. CASE ~(~Descends(class) /\ MayBeBlankSlot(class, answer))
  <2>1. PICK bad \in BOOLEAN : bad = (answer = "failed")
    OBVIOUS
  <2>2. PICK failed \in BOOLEAN : failed <=> bad \/ count = Failed
    OBVIOUS
  <2>3. /\ Descend(Node, class, bad, count)
        /\ gaps' = IF count = Failed THEN gaps \cup {"childrenUnreadable"} ELSE gaps
    BY <1>4, <1>9, <2>1
  <2>4. /\ work' = Fronts(Node, count, bad) \o Tail(work)
        /\ Note(Node, count) /\ CountUnread(Node, failed)
        /\ cutoff' \in {"none", "time", "stopped"} /\ (count = Late => cutoff' # "none")
        /\ owing' = IF count # Uncounted THEN owing \cup {Node} ELSE owing
    BY <1>2, <1>5, <2>2, <2>3, PushedIsFront DEF Descend, InTime, OutOfTime, CountUnread
  <2>5. failed => Node \notin blanks'
    <3>1. bad => answer = "failed"
      BY <2>1
    <3>2. count = Failed => count # 0
      BY DEF Failed
    <3>3. failed => answer = "failed" \/ count # 0
      BY <2>2, <3>1, <3>2
    <3> QED
      BY <1>6, <1>7, <3>3 DEF MayBeBlankSlot
  <2>6. count > 0 => Node \notin blanks' /\ bad = failed
    BY <1>6, <1>7, <2>2 DEF Failed
  <2>7. owing' \subseteq owing \cup {Node}
    BY <2>4
  <2>8. Tree'
    BY <1>2, <1>5, <1>6, <2>4, <2>5, <2>6, <2>7, VisitKeepsTree
  <2>9. ASSUME cutoff' = "none", gaps' = {}
        PROVE  Owed(work, visited, kids)' /\ inputs' \subseteq masks'
    <3>1. /\ gaps = {} /\ count # Failed /\ count # Late
      BY <2>3, <2>4, <2>9
    <3>2. owing' = owing \/ (owing' = owing \cup {Node} /\ count >= 0)
      BY <1>5, <2>4, <3>1
    <3>3. Owed(work, visited, kids)'
      BY <1>2, <1>5, <1>6, <2>4, <3>1, <3>2, VisitOwes
    <3> QED
      BY <1>2, <1>6, <3>1, <3>3
  <2>10. gaps' \subseteq gaps \cup {"childrenUnreadable"}
    BY <2>3
  <2>11. Staged'
    BY <1>2, <1>6, <2>4, <2>10, WalkStage
  <2> QED
    BY <1>1, <2>8, <2>9, <2>11 DEF WalkHolds
<1> QED
  BY <1>8, <1>9

-----------------------------------------------------------------------------
(* Reading a batch of children.                                            *)

Loaded(n, index, got) == [i \in 1..got |-> [kind |-> "visit", node |-> Append(n, index + i)]]

LEMMA LoadedAre ==
  ASSUME NEW n \in Nodes, NEW index \in Nat, NEW got \in Nat, index + got <= MaxTree
  PROVE  /\ Loaded(n, index, got) \in Seq(Items) /\ Len(Loaded(n, index, got)) = got
         /\ \A i \in 1..got : /\ Loaded(n, index, got)[i].kind = "visit"
                              /\ Ahead(Loaded(n, index, got)[i]) = {Append(n, index + i)}
<1>1. ASSUME NEW i \in 1..got
      PROVE  [kind |-> "visit", node |-> Append(n, index + i)] \in Items
  <2>1. index + i \in 1..MaxTree
    BY <1>1, WalkAssumption
  <2>2. Append(n, index + i) \in Nodes
    BY <2>1, NodesBelow
  <2> QED
    BY <2>2 DEF Items, VisitItems
<1>2. Loaded(n, index, got) \in [1..got -> Items]
  BY <1>1 DEF Loaded
<1>3. \A i \in 1..got : Loaded(n, index, got)[i] = [kind |-> "visit", node |-> Append(n, index + i)]
  BY DEF Loaded
<1>4. Loaded(n, index, got) \in Seq(Items) /\ Len(Loaded(n, index, got)) = got
  BY <1>2
<1>5. \A x : [kind |-> "visit", node |-> x].kind = "visit" /\ Ahead([kind |-> "visit", node |-> x]) = {x}
  BY DEF Ahead
<1> QED
  BY <1>3, <1>4, <1>5

\* The batch on top of the stack.
LEMMA BatchIs ==
  ASSUME Tree, Walking, Head(work).kind = "children"
  PROVE  /\ work \in Seq(Items) /\ work # <<>> /\ Head(work) = work[1] /\ 1 \in DOMAIN work
         /\ Head(work) \in BatchItems
         /\ Node \in visited \ blanks
         /\ Head(work).index < Head(work).count
         /\ Head(work).degraded = (Node \in unread)
         /\ \A j \in DOMAIN Tail(work) : Tail(work)[j].kind = "children" => Tail(work)[j].node # Node
<1>1. /\ work \in Seq(Items) /\ work # <<>>
  BY DEF Tree, Walking
<1>2. Head(work) = work[1] /\ 1 \in DOMAIN work /\ work[1] \in Items
  BY <1>1, TailOf
<1>3. Head(work) \in BatchItems
  BY <1>2 DEF Items, VisitItems
<1>4. /\ Head(work).index < Head(work).count
      /\ Node \in visited \ blanks
      /\ Head(work).degraded = (Node \in unread)
  BY <1>2 DEF Tree, Batches, Node
<1>5. ASSUME NEW j \in DOMAIN Tail(work), Tail(work)[j].kind = "children"
      PROVE  Tail(work)[j].node # Node
  <2>1. j + 1 \in DOMAIN work /\ Tail(work)[j] = work[j + 1] /\ j \in Nat /\ j # 0
    BY <1>1, TailOf
  <2>2. j + 1 # 1
    BY <2>1
  <2> QED
    BY <1>2, <1>5, <2>1, <2>2 DEF Tree, Batches, Node
<1> QED
  BY <1>1, <1>2, <1>3, <1>4, <1>5

\* What goes on the stack after got children of the batch.
NextBatch(c, got) == IF c.index + got < c.count THEN <<[c EXCEPT !.index = @ + got]>> ELSE <<>>

LEMMA LoadOrdered ==
  ASSUME Tree, Walking, Head(work).kind = "children",
         NEW got \in Nat, Head(work).index + got <= Head(work).count, NEW rest,
         rest = <<>> \/ rest = NextBatch(Head(work), got)
  PROVE  LET prefix == Loaded(Node, Head(work).index, got) \o rest
         IN  /\ prefix \in Seq(Items) /\ prefix \o Tail(work) \in Seq(Items)
             /\ Preorder(prefix \o Tail(work), visited)
             /\ Batches(prefix, visited, unread, blanks)
             /\ \A i \in DOMAIN prefix : prefix[i].kind = "children" => prefix[i].node = Node
             /\ \A k \in 1..got : /\ Ahead(prefix[k]) = {Append(Node, Head(work).index + k)}
                                  /\ k \in DOMAIN prefix
             /\ rest = NextBatch(Head(work), got) =>
                  \A k \in Head(work).index + got + 1..Head(work).count :
                    \E i \in DOMAIN prefix : Append(Node, k) \in Ahead(prefix[i])
<1> DEFINE c == Head(work)
           a == Loaded(Node, c.index, got)
           prefix == a \o rest
<1>1. /\ work \in Seq(Items) /\ work # <<>> /\ c = work[1] /\ 1 \in DOMAIN work
      /\ c \in BatchItems /\ Node \in visited \ blanks
      /\ c.index < c.count /\ c.degraded = (Node \in unread)
  BY BatchIs
<1>2. /\ c.kind = "children" /\ c.node = Node /\ Node \in Nodes /\ c.index \in Nat /\ c.count \in 0..MaxTree
      /\ c.count <= MaxTree /\ c.count \in Nat
  BY <1>1, WalkAssumption DEF BatchItems, Node
<1>3. /\ a \in Seq(Items) /\ Len(a) = got
      /\ \A i \in 1..got : a[i].kind = "visit" /\ Ahead(a[i]) = {Append(Node, c.index + i)}
  <2>1. c.index + got <= MaxTree
    BY <1>2, WalkAssumption
  <2> QED
    BY <1>2, <2>1, LoadedAre
<1> HIDE DEF a
<1>4. /\ rest \in Seq(Items) /\ Len(rest) <= 1 /\ Len(rest) \in Nat
      /\ Len(rest) = 1 =>
           /\ rest = NextBatch(c, got)
           /\ rest[1].kind = "children" /\ rest[1].node = Node /\ rest[1].degraded = c.degraded
           /\ rest[1].index < rest[1].count
           /\ Ahead(rest[1]) = {Append(Node, k) : k \in c.index + got + 1..c.count}
      /\ rest = NextBatch(c, got) /\ c.index + got < c.count => Len(rest) = 1
  <2>1. CASE rest = <<>>
    <3>1. rest \in Seq(Items) /\ Len(rest) = 0
      BY <2>1
    <3>2. c.index + got < c.count => NextBatch(c, got) # <<>>
      BY DEF NextBatch
    <3> QED
      BY <2>1, <3>1, <3>2
  <2>2. CASE rest # <<>>
    <3> DEFINE next == [c EXCEPT !.index = @ + got]
    <3>1. rest = <<next>> /\ rest = NextBatch(c, got) /\ c.index + got < c.count
      BY <2>2 DEF NextBatch
    <3>2. /\ next \in BatchItems /\ next.kind = "children" /\ next.node = Node
          /\ next.degraded = c.degraded /\ next.index = c.index + got /\ next.count = c.count
      BY <1>1, <1>2 DEF BatchItems
    <3>3. Ahead(next) = {Append(Node, k) : k \in c.index + got + 1..c.count}
      BY <3>2 DEF Ahead
    <3> HIDE DEF next
    <3>4. rest \in Seq(Items) /\ Len(rest) = 1 /\ rest[1] = next
      BY <3>1, <3>2 DEF Items
    <3> QED
      BY <3>1, <3>2, <3>3, <3>4
  <2> QED
    BY <2>1, <2>2
<1>5. /\ prefix \in Seq(Items) /\ Len(prefix) = got + Len(rest)
      /\ \A i \in 1..got : prefix[i] = a[i]
      /\ Len(rest) = 1 => prefix[got + 1] = rest[1]
  <2>1. /\ prefix \in Seq(Items) /\ Len(prefix) = Len(a) + Len(rest)
        /\ \A i \in 1..Len(a) : prefix[i] = a[i]
        /\ \A i \in 1..Len(rest) : prefix[i + Len(a)] = rest[i]
    BY <1>3, <1>4, Joined
  <2>2. ASSUME Len(rest) = 1 PROVE prefix[got + 1] = rest[1]
    <3>1. 1 \in 1..Len(rest) /\ 1 + Len(a) = got + 1
      BY <1>3, <2>2
    <3>2. prefix[1 + Len(a)] = rest[1]
      BY <2>1, <3>1
    <3> QED
      BY <3>1, <3>2
  <2> QED
    BY <1>3, <2>1, <2>2
<1> HIDE DEF prefix
<1>6. DOMAIN prefix = 1..got + Len(rest) /\ 1..got \subseteq DOMAIN prefix
  BY <1>4, <1>5
<1>7. ASSUME NEW i \in DOMAIN prefix
      PROVE  \/ /\ i \in 1..got /\ prefix[i].kind = "visit" /\ Ahead(prefix[i]) = {Append(Node, c.index + i)}
             \/ /\ i = got + 1 /\ Len(rest) = 1 /\ prefix[i] = rest[1]
  <2>1. CASE i \in 1..got
    BY <1>3, <1>5, <2>1
  <2>2. CASE i \notin 1..got
    <3>1. i = got + 1 /\ Len(rest) = 1
      <4>1. i \in 1..got + Len(rest) /\ Len(rest) \in Nat /\ Len(rest) <= 1
        BY <1>4, <1>6
      <4> QED
        BY <2>2, <4>1, OneBeyond
    <3> QED
      BY <1>5, <3>1
  <2> QED
    BY <2>1, <2>2
<1>8. ASSUME NEW i \in DOMAIN prefix, NEW p \in Ahead(prefix[i])
      PROVE  \E k \in c.index + i..c.count : p = Append(Node, k) /\ p \in Ahead(work[1])
  <2>1. /\ i \in 1..got + 1 /\ i \in Nat
    BY <1>6, <1>7
  <2>2. \E k \in c.index + i..c.count : p = Append(Node, k)
    <3>1. CASE i \in 1..got /\ Ahead(prefix[i]) = {Append(Node, c.index + i)}
      <4>1. c.index + i \in c.index + i..c.count
        BY <1>2, <3>1
      <4> QED
        BY <1>8, <3>1, <4>1
    <3>2. CASE i = got + 1 /\ Len(rest) = 1 /\ prefix[i] = rest[1]
      <4>1. PICK k \in c.index + got + 1..c.count : p = Append(Node, k)
        BY <1>4, <1>8, <3>2
      <4>2. k \in c.index + i..c.count
        BY <1>2, <3>2, <4>1
      <4> QED
        BY <4>1, <4>2
    <3> QED
      BY <1>7, <3>1, <3>2
  <2>3. ASSUME NEW k \in c.index + i..c.count
        PROVE  k \in c.index + 1..c.count
    BY <1>2, <2>1, <2>3
  <2>4. Ahead(work[1]) = {Append(Node, k) : k \in c.index + 1..c.count}
    BY <1>1, <1>2 DEF Ahead
  <2> QED
    BY <2>2, <2>3, <2>4
<1>9. Preorder(work, visited)
  BY DEF Tree
<1>10. ASSUME NEW i \in DOMAIN prefix, NEW j \in DOMAIN prefix, i < j,
              NEW p \in Ahead(prefix[i]), NEW q \in Ahead(prefix[j])
       PROVE  Left(p, q)
  <2>1. i \in 1..got /\ p = Append(Node, c.index + i)
    <3>1. i # got + 1
      BY <1>4, <1>6, <1>10
    <3> QED
      BY <1>7, <1>10, <3>1
  <2>2. PICK k \in c.index + j..c.count : q = Append(Node, k)
    BY <1>8, <1>10
  <2>3. c.index + i \in 1..MaxTree /\ k \in 1..MaxTree /\ c.index + i < k
    BY <1>2, <1>6, <1>10, <2>1, <2>2, WalkAssumption
  <2> QED
    BY <1>2, <2>1, <2>2, <2>3, SiblingsInOrder
<1>11. ASSUME NEW i \in DOMAIN prefix, NEW p \in Ahead(prefix[i])
       PROVE  /\ \A j \in DOMAIN Tail(work) : \A q \in Ahead(Tail(work)[j]) : Left(p, q)
              /\ \A v \in visited : Earlier(v, p)
  <2>1. p \in Ahead(work[1])
    BY <1>8, <1>11
  <2> QED
    BY <1>1, <1>9, <2>1, RestIsLater DEF Preorder
<1>12. \A v \in visited \ visited : \A j \in DOMAIN Tail(work) : \A q \in Ahead(Tail(work)[j]) : Earlier(v, q)
  OBVIOUS
<1>13. Preorder(prefix \o Tail(work), visited)
  BY <1>1, <1>5, <1>9, <1>10, <1>11, <1>12, OrderReplaced
<1>14. Batches(prefix, visited, unread, blanks)
  <2>1. ASSUME NEW i \in DOMAIN prefix, prefix[i].kind = "children"
        PROVE  i = got + 1 /\ Len(rest) = 1 /\ prefix[i] = rest[1]
    BY <1>7, <2>1
  <2> QED
    BY <1>1, <1>4, <2>1 DEF Batches
<1>15. \A i \in DOMAIN prefix : prefix[i].kind = "children" => prefix[i].node = Node
  BY <1>4, <1>7
<1>16. \A k \in 1..got : Ahead(prefix[k]) = {Append(Node, c.index + k)} /\ k \in DOMAIN prefix
  BY <1>3, <1>5, <1>6
<1>17. ASSUME rest = NextBatch(c, got), NEW k \in c.index + got + 1..c.count
       PROVE  \E i \in DOMAIN prefix : Append(Node, k) \in Ahead(prefix[i])
  <2>1. c.index + got < c.count
    BY <1>2, <1>17
  <2>2. Len(rest) = 1 /\ prefix[got + 1] = rest[1] /\ got + 1 \in DOMAIN prefix
    BY <1>4, <1>5, <1>6, <1>17, <2>1
  <2> QED
    BY <1>4, <1>17, <2>2
<1>18. prefix \o Tail(work) \in Seq(Items)
  BY <1>1, <1>5, TailOf, Joined
<1> QED
  BY <1>5, <1>13, <1>14, <1>15, <1>16, <1>17, <1>18 DEF prefix, a

\* The gaps of a batch: none only when all that was asked for came.
LEMMA GapsOfBatch ==
  ASSUME NEW asked \in Nat, asked > 0, NEW got \in ChildrenRange(asked)
  PROVE  /\ LoadedGaps(asked, got) = {} => got = asked /\ got # Failed
         /\ LoadedGaps(asked, got) \subseteq {"childrenUnreadable", "childrenShort"}
         /\ got # Failed => got \in 0..asked /\ got \in Nat
BY DEF LoadedGaps, ChildrenRange, Failed

LEMMA PopKeepsTree ==
  ASSUME Tree, Walking, Head(work).kind = "children", work' = Tail(work),
         UNCHANGED <<visited, kids, told, owing, found>>,
         NEW failed \in BOOLEAN,
         unread' = IF failed THEN unread \cup {Node} ELSE unread,
         degradedNodes' = IF failed /\ ~Head(work).degraded THEN degradedNodes + 1 ELSE degradedNodes
  PROVE  Tree'
<1>1. /\ work \in Seq(Items) /\ work # <<>> /\ Node \in visited \ blanks
      /\ Head(work).degraded = (Node \in unread)
      /\ \A j \in DOMAIN Tail(work) : Tail(work)[j].kind = "children" => Tail(work)[j].node # Node
  BY BatchIs
<1>2. /\ TreeTyped /\ Tallied /\ Preorder(work, visited) /\ Batches(work, visited, unread, blanks)
      /\ TextOf(text, visited)
  BY DEF Tree
<1>3. UNCHANGED <<inputs, masks, blanks, text, visited, kids, told, owing>>
  BY DEF found
<1>4. TreeTyped'
  BY <1>1, <1>2, <1>3 DEF TreeTyped
<1>5. Tallied'
  <2>1. CASE failed /\ Node \notin unread
    <3>1. unread' = unread \cup {Node} /\ degradedNodes' = degradedNodes + 1
      BY <1>1, <2>1
    <3>2. IsFiniteSet(unread') /\ Cardinality(unread') = Cardinality(unread) + 1
      BY <1>2, <2>1, <3>1, FS_AddElement DEF Tallied
    <3> QED
      BY <1>1, <1>2, <1>3, <3>1, <3>2 DEF Tallied
  <2>2. CASE ~(failed /\ Node \notin unread)
    <3>1. unread' = unread /\ degradedNodes' = degradedNodes
      BY <1>1, <2>2
    <3> QED
      BY <1>2, <1>3, <3>1 DEF Tallied
  <2> QED
    BY <2>1, <2>2
<1>6. Preorder(<<>> \o Tail(work), visited)
  BY <1>1, <1>2, PopOrdered
<1>7. <<>> \o Tail(work) = work' /\ work' \in Seq(Items)
  BY <1>1, TailOf
<1>8. Batches(<<>> \o Tail(work), visited, unread', blanks)
  <2> DEFINE prefix == <<>>
  <2>1. prefix \in Seq(Items) /\ DOMAIN prefix = {}
    OBVIOUS
  <2> HIDE DEF prefix
  <2>2. Batches(prefix, visited, unread', blanks)
    BY <2>1 DEF Batches
  <2>3. Undisturbed(work, prefix, visited, visited, unread, unread', blanks, blanks)
    BY <1>1, <2>1 DEF Undisturbed
  <2>4. Batches(work, visited, unread, blanks)
    BY <1>2
  <2>5. Batches(prefix \o Tail(work), visited, unread', blanks)
    BY <1>1, <2>1, <2>2, <2>3, <2>4, BatchesReplaced
  <2> QED
    BY <2>5 DEF prefix
<1> QED
  BY <1>2, <1>3, <1>4, <1>5, <1>6, <1>7, <1>8 DEF Tree

LEMMA LoadKeepsTree ==
  ASSUME Tree, Walking, Head(work).kind = "children",
         NEW got \in Nat, Head(work).index + got <= Head(work).count, NEW rest,
         rest = <<>> \/ rest = NextBatch(Head(work), got),
         work' = (Loaded(Node, Head(work).index, got) \o rest) \o Tail(work),
         UNCHANGED <<visited, kids, told, owing, found, unread, degradedNodes>>
  PROVE  Tree'
<1> DEFINE prefix == Loaded(Node, Head(work).index, got) \o rest
<1>1. /\ prefix \in Seq(Items) /\ prefix \o Tail(work) \in Seq(Items)
      /\ Preorder(prefix \o Tail(work), visited)
      /\ Batches(prefix, visited, unread, blanks)
      /\ \A i \in DOMAIN prefix : prefix[i].kind = "children" => prefix[i].node = Node
  BY LoadOrdered
<1> HIDE DEF prefix
<1>2. /\ work \in Seq(Items) /\ work # <<>>
      /\ \A j \in DOMAIN Tail(work) : Tail(work)[j].kind = "children" => Tail(work)[j].node # Node
  BY BatchIs
<1>3. Batches(prefix \o Tail(work), visited, unread, blanks)
  <2>1. Undisturbed(work, prefix, visited, visited, unread, unread, blanks, blanks)
    BY <1>1, <1>2 DEF Undisturbed
  <2>2. Batches(work, visited, unread, blanks)
    BY DEF Tree
  <2> QED
    BY <1>1, <1>2, <2>1, <2>2, BatchesReplaced
<1>4. work' = prefix \o Tail(work)
  BY DEF prefix
<1>5. UNCHANGED <<inputs, masks, blanks, text, visited, kids, told, owing, unread, degradedNodes>>
  BY DEF found
<1>6. TreeTyped' /\ Tallied' /\ TextOf(text, visited)'
  BY <1>5 DEF Tree, TreeTyped, Tallied
<1> QED
  BY <1>1, <1>3, <1>4, <1>5, <1>6 DEF Tree

LEMMA LoadOwes ==
  ASSUME Tree, Walking, Head(work).kind = "children", Owed(work, visited, kids),
         NEW got \in Nat, Head(work).index + got <= Head(work).count,
         work' = (Loaded(Node, Head(work).index, got) \o NextBatch(Head(work), got)) \o Tail(work),
         UNCHANGED <<visited, kids, owing>>
  PROVE  Owed(work, visited, kids)'
<1> DEFINE c == Head(work)
           prefix == Loaded(Node, c.index, got) \o NextBatch(c, got)
<1>1. /\ prefix \in Seq(Items)
      /\ \A k \in 1..got : Ahead(prefix[k]) = {Append(Node, c.index + k)} /\ k \in DOMAIN prefix
      /\ \A k \in c.index + got + 1..c.count :
           \E i \in DOMAIN prefix : Append(Node, k) \in Ahead(prefix[i])
  BY LoadOrdered
<1> HIDE DEF prefix
<1>2. /\ work \in Seq(Items) /\ work # <<>> /\ c = work[1] /\ c \in BatchItems
  BY BatchIs
<1>3. /\ c.kind = "children" /\ c.node = Node /\ c.index \in Nat /\ c.count \in Nat
      /\ Ahead(c) = {Append(Node, k) : k \in c.index + 1..c.count}
  BY <1>2, WalkAssumption DEF BatchItems, Node, Ahead
<1>4. ASSUME NEW k \in c.index + 1..c.count
      PROVE  \E i \in DOMAIN prefix : Append(Node, k) \in Ahead(prefix[i])
  <2>1. CASE k <= c.index + got
    <3>1. k - c.index \in 1..got /\ c.index + (k - c.index) = k
      BY <1>3, <2>1
    <3> QED
      BY <1>1, <3>1
  <2>2. CASE ~(k <= c.index + got)
    <3>1. k \in c.index + got + 1..c.count
      BY <1>3, <2>2
    <3> QED
      BY <1>1, <3>1
  <2> QED
    BY <2>1, <2>2
<1>5. work' = prefix \o Tail(work)
  BY DEF prefix
<1>6. /\ \A i \in 1..Len(prefix) : work'[i] = prefix[i]
      /\ \A i \in 1..Len(Tail(work)) : work'[i + Len(prefix)] = Tail(work)[i]
      /\ Len(prefix) \in Nat /\ Len(Tail(work)) \in Nat /\ DOMAIN prefix = 1..Len(prefix)
      /\ DOMAIN work' = 1..Len(prefix) + Len(Tail(work))
  <2>1. Tail(work) \in Seq(Items)
    BY <1>2, TailOf
  <2> DEFINE stack == prefix \o Tail(work)
  <2>2. /\ stack \in Seq(Items) /\ Len(stack) = Len(prefix) + Len(Tail(work))
        /\ \A i \in 1..Len(prefix) : stack[i] = prefix[i]
        /\ \A i \in 1..Len(Tail(work)) : stack[i + Len(prefix)] = Tail(work)[i]
        /\ Len(prefix) \in Nat /\ Len(Tail(work)) \in Nat /\ DOMAIN prefix = 1..Len(prefix)
    BY <1>1, <2>1, Joined
  <2>3. DOMAIN stack = 1..Len(stack)
    BY <2>2
  <2>4. work' = stack
    BY <1>5
  <2> HIDE DEF stack
  <2> QED
    BY <2>2, <2>3, <2>4
<1>7. ASSUME NEW i \in DOMAIN work, NEW n \in Ahead(work[i])
      PROVE  \E j \in DOMAIN work' : n \in Ahead(work'[j])
  <2>1. CASE i = 1
    <3>1. PICK k \in c.index + 1..c.count : n = Append(Node, k)
      BY <1>2, <1>3, <1>7, <2>1
    <3>2. PICK j \in DOMAIN prefix : n \in Ahead(prefix[j])
      BY <1>4, <3>1
    <3>3. j \in DOMAIN work' /\ work'[j] = prefix[j]
      <4>1. j \in 1..Len(prefix) + Len(Tail(work))
        BY <1>6, <3>2, InLonger
      <4> QED
        BY <1>6, <3>2, <4>1
    <3> QED
      BY <3>2, <3>3
  <2>2. CASE i # 1
    <3>1. i - 1 \in 1..Len(Tail(work)) /\ Tail(work)[i - 1] = work[i]
      BY <1>2, <2>2
    <3>2. work'[(i - 1) + Len(prefix)] = work[i]
      BY <1>6, <3>1
    <3>3. (i - 1) + Len(prefix) \in 1..Len(prefix) + Len(Tail(work))
      BY <1>6, <3>1, InLonger
    <3> QED
      BY <1>6, <1>7, <3>2, <3>3
  <2> QED
    BY <2>1, <2>2
<1> QED
  BY <1>7 DEF Owed

LEMMA LoadKeeps ==
  ASSUME WalkHolds, LoadChildren
  PROVE  WalkHolds'
<1> DEFINE c == Head(work)
           asked == IF c.count - c.index < Batch THEN c.count - c.index ELSE Batch
<1>1. Chosen(windows, candidates, onScreen, chosen)'
  BY ChoiceKept DEF WalkNext
<1>2. /\ Walking /\ c.kind = "children" /\ Tree /\ cutoff = "none"
      /\ gaps = {} => Owed(work, visited, kids) /\ inputs \subseteq masks
      /\ UNCHANGED <<visited, kids, told, owing, found>> /\ phase' = "walk"
  BY DEF WalkHolds, LoadChildren, Walking
<1>3. /\ work \in Seq(Items) /\ work # <<>> /\ c \in BatchItems /\ c.index < c.count
  BY <1>2, BatchIs
<1>4. c.index \in Nat /\ c.count \in Nat /\ asked \in Nat /\ asked > 0 /\ c.index + asked <= c.count
  BY <1>3, WalkAssumption DEF BatchItems
<1>5. PICK got \in ChildrenRange(asked), late \in BOOLEAN :
        /\ gaps' = gaps \cup LoadedGaps(asked, got)
        /\ unread' = IF got = Failed THEN unread \cup {Node} ELSE unread
        /\ degradedNodes' = IF got = Failed /\ ~c.degraded THEN degradedNodes + 1
                            ELSE degradedNodes
        /\ IF got # Failed /\ late THEN OutOfTime ELSE InTime
        /\ work' = IF got = Failed \/ late THEN Tail(work)
                   ELSE [i \in 1..got |-> [kind |-> "visit", node |-> Append(Node, c.index + i)]]
                        \o (IF got = asked /\ c.index + got < c.count
                            THEN <<[c EXCEPT !.index = @ + got]>> ELSE <<>>)
                        \o Tail(work)
  BY DEF LoadChildren
<1> HIDE DEF asked, c
<1>6. /\ LoadedGaps(asked, got) = {} => got = asked /\ got # Failed
      /\ LoadedGaps(asked, got) \subseteq {"childrenUnreadable", "childrenShort"}
      /\ got # Failed => got \in 0..asked /\ got \in Nat
  BY <1>4, GapsOfBatch
<1>7. cutoff' \in {"none", "time", "stopped"} /\ (got # Failed /\ late => cutoff' # "none")
  BY <1>5 DEF InTime, OutOfTime
<1>8. Staged'
  BY <1>2, <1>5, <1>6, <1>7, WalkStage
<1>9. CASE got = Failed \/ late
  <2>1. PICK failed \in BOOLEAN : failed <=> got = Failed
    OBVIOUS
  <2>2. /\ work' = Tail(work)
        /\ unread' = IF failed THEN unread \cup {Node} ELSE unread
        /\ degradedNodes' = IF failed /\ ~Head(work).degraded THEN degradedNodes + 1 ELSE degradedNodes
    BY <1>5, <1>9, <2>1 DEF c
  <2>3. Tree'
    BY <1>2, <2>2, PopKeepsTree DEF c
  <2>4. ~(cutoff' = "none" /\ gaps' = {})
    BY <1>5, <1>6, <1>7, <1>9
  <2> QED
    BY <1>1, <1>8, <2>3, <2>4 DEF WalkHolds
<1>10. CASE ~(got = Failed \/ late)
  <2> DEFINE rest == IF got = asked /\ c.index + got < c.count
                     THEN <<[c EXCEPT !.index = @ + got]>> ELSE <<>>
  <2>1. /\ got \in Nat /\ got <= asked /\ c.index + got <= c.count
        /\ unread' = unread /\ degradedNodes' = degradedNodes
    BY <1>4, <1>5, <1>6, <1>10
  <2>2. work' = Loaded(Node, c.index, got) \o rest \o Tail(work)
    BY <1>5, <1>10 DEF Loaded
  <2>3. /\ rest = <<>> \/ rest = NextBatch(c, got)
        /\ got = asked => rest = NextBatch(c, got)
    BY DEF NextBatch
  <2> HIDE DEF rest
  <2>4. Tree'
    BY <1>2, <2>1, <2>2, <2>3, LoadKeepsTree DEF c
  <2>5. ASSUME cutoff' = "none", gaps' = {}
        PROVE  Owed(work, visited, kids)' /\ inputs' \subseteq masks'
    <3>1. gaps = {} /\ got = asked
      BY <1>5, <1>6, <2>5
    <3>2. work' = Loaded(Node, c.index, got) \o NextBatch(c, got) \o Tail(work)
      BY <2>2, <2>3, <3>1
    <3>3. UNCHANGED <<visited, kids, owing, inputs, masks>> /\ Owed(work, visited, kids)
      BY <1>2, <3>1 DEF found
    <3>4. Owed(work, visited, kids)'
      BY <1>2, <2>1, <3>2, <3>3, LoadOwes DEF c
    <3> QED
      BY <1>2, <3>1, <3>3, <3>4
  <2> QED
    BY <1>1, <1>8, <2>4, <2>5 DEF WalkHolds
<1> QED
  BY <1>9, <1>10

-----------------------------------------------------------------------------
(* The walk, from its first step to its last.                              *)

LEMMA WalkStarts == ASSUME WalkInit PROVE WalkHolds
<1>1. Chosen(windows, candidates, onScreen, chosen)
  BY DEF WalkInit, Chosen, NoFrame, Unasked
<1>2. Staged
  BY DEF WalkInit, Staged
<1>3. TreeTyped
  BY WalkAssumption DEF WalkInit, TreeTyped
<1>4. Tallied
  BY FS_EmptySet, WalkAssumption DEF WalkInit, Tallied
<1>5. /\ work \in Seq(Items) /\ Preorder(work, visited) /\ Batches(work, visited, unread, blanks)
      /\ TextOf(text, visited)
  BY DEF WalkInit, Preorder, Batches, TextOf
<1>6. Owed(work, visited, kids) /\ inputs \subseteq masks
  BY DEF WalkInit, Owed
<1> QED
  BY <1>1, <1>2, <1>3, <1>4, <1>5, <1>6 DEF WalkHolds, Tree

LEMMA WalkStaysSound == ASSUME WalkHolds, WalkNext PROVE WalkHolds'
  BY SearchKeeps, TitleKeeps, EndKeeps, NodesAreUpKeeps, UnreadableKeeps, TooLateKeeps, FramelessKeeps,
     OffWindowKeeps, OverflowingKeeps, ShownKeeps, LoadKeeps DEF WalkNext

LEMMA WalkHeld == ASSUME WalkHolds PROVE WalkTypeOK /\ WalkSound
<1>1. WalkTypeOK
  <2>1. degradedNodes \in Nat
    BY FS_CardinalityType DEF WalkHolds, Tree, Tallied
  <2> QED
    BY <2>1 DEF WalkHolds, Staged, Tree, TreeTyped, WalkTypeOK, Nodes
<1>2. ASSUME phase = "scanned" PROVE MasksComplete
  <2>1. SUFFICES ASSUME gaps = {} PROVE
          /\ \A n \in owing : n \in DOMAIN kids /\ \A i \in 1..kids[n] : Append(n, i) \in visited
          /\ inputs \subseteq masks
    BY DEF MasksComplete
  <2>2. work = <<>> /\ Owed(work, visited, kids) /\ inputs \subseteq masks
    BY <1>2, <2>1 DEF WalkHolds, Staged
  <2> QED
    BY <2>2 DEF Owed
<1>3. TextInOrder
  BY DEF WalkHolds, Tree, Tallied, TextOf, TextInOrder
<1>4. RightWindow
  BY DEF WalkHolds, Chosen, RightWindow
<1> QED
  BY <1>1, <1>2, <1>3, <1>4 DEF WalkSound

-----------------------------------------------------------------------------
(* SnapshotWorker: the focus is known, and what is saved has changed.      *)

Focuses == Windows \cup {Nowhere}
Tidings == [kind : {"wake"}] \cup [kind : {"terminated"}, window : Windows]
Transitions == [kind : {"transition"}, previous : Focuses, current : Focuses, resynced : BOOLEAN]
Messages == Transitions \cup [kind : {"input"}, window : Windows]
Retries == [kind : {"retry"}, trigger : {"settle", "refresh"}, due : Nat]
Watches == [window : Windows, first : 0..MaxSettle, settle : NotDue..Quiet, refresh : Nat,
            index : DOMAIN Refreshes, retry : {NoMessage} \cup Retries, seeded : BOOLEAN]
Departures == [window : Windows, due : Nat, deferred : BOOLEAN]

FitsWatch(c) == c = NoOne \/ (c \in Watches /\ c.refresh <= Refreshes[c.index])

ScheduleTyped == FitsWatch(watched) /\ focusOut \in Seq(Departures)

FocusTyped ==
  /\ focus \in Focuses
  /\ unpublished \in Transitions \cup {NoMessage}
  /\ unpublished # NoMessage => unpublished.current = focus
  /\ announcing \in Tidings \cup {NoMessage}
  /\ axEvents \in Seq(Tidings) /\ lifecycle \in Seq(Tidings)
  /\ triggers \in Seq(Messages) /\ Len(triggers) <= TriggerCapacity /\ lossy \in BOOLEAN
  /\ inputSent \in Focuses /\ inputHeld \in Focuses
  /\ step \in {"receive", "lifecycle", "candidates", "draining", "stopped"}
  /\ message \in Messages \cup {NoMessage}
  /\ message # NoMessage => step = "lifecycle"

\* A save that is remembered is one that was sent.
Remembered ==
  /\ shown \in [Windows -> Nat]
  /\ saved \in [Windows -> [ax : Nat, ocr : Nat, image : Nat, age : Int]]
  /\ delivered \in [Windows -> [ax : Nat, ocr : Nat]]
  /\ globalLeft \in 0..SaveInterval
  /\ \A w \in Windows : /\ saved[w].ax = delivered[w].ax
                        /\ saved[w].ocr = delivered[w].ocr
                        /\ saved[w].image = saved[w].ocr
  /\ recognizing # NoOne =>
       /\ recognizing \in [window : Windows, walked : Nat, stored : Nat,
                           outcome : {"none", "unavailable", "unchanged", "recognized"}, image : Nat]
       /\ delivered[recognizing.window].ocr \in {recognizing.stored, 0}
       /\ recognizing.outcome = "unchanged" => recognizing.stored = recognizing.image

Paced ==
  backoffs \in [Windows -> [left : 0..BackoffMax, span : Nat]]

\* The focus after each trigger, as the triggers tell it.
Trail(f, q, last) ==
  /\ f \in [0..Len(q) -> Focuses]
  /\ f[Len(q)] = last
  /\ \A i \in 1..Len(q) :
       IF q[i].kind = "transition" THEN q[i].previous = f[i - 1] /\ q[i].current = f[i]
       ELSE f[i] = f[i - 1]
  /\ \A i \in 0..Len(q) : f[i] = last \/ \E j \in i + 1..Len(q) :
                                      q[j].kind = "transition" /\ q[j].current = last

MovesIn(m, q, u) == {x \in {m, u} \cup {q[i] : i \in DOMAIN q} : x.kind = "transition"}

\* A wake or the end of w is to be handled by the accessibility worker.
Unsettled(w, a, x) ==
  \E e \in {a} \cup {x[i] : i \in DOMAIN x} :
    e.kind = "wake" \/ (e.kind = "terminated" /\ e.window = w)

\* The window watched once the workspace events are dealt with.
Heading(c, woken, ended) == IF woken \/ c.window \in ended THEN Nowhere ELSE c.window

Knows(h, from, afoot, w, a, x) ==
  /\ (\E t \in afoot : t.current # Nowhere) \/ h \in {from, Nowhere}
  /\ afoot = {} => h = w \/ (h = Nowhere /\ Unsettled(w, a, x))

Traced(f, m, q, u, w) ==
  /\ Trail(f, q, IF u = NoMessage THEN w ELSE u.previous)
  /\ m.kind = "transition" => m.current = f[0]

Begins(f, m) == IF m.kind = "transition" THEN m.previous ELSE f[0]

Tracked ==
  ~lossy =>
  /\ \E f \in [0..Len(triggers) -> Focuses] :
       /\ Traced(f, message, triggers, unpublished, focus)
       /\ step \notin {"draining", "stopped"} =>
            Knows(Heading(watched, Woken, Ended), Begins(f, message),
                  MovesIn(message, triggers, unpublished), focus, announcing, axEvents)
  /\ step = "stopped" /\ MovesIn(message, triggers, unpublished) = {} /\ (Woken \/ focus \in Ended)
       => Unsettled(focus, announcing, axEvents)

WorkerHolds == FocusTyped /\ ScheduleTyped /\ Remembered /\ Paced /\ Tracked

\* What lies below k in a finite set of naturals counts it.
LEMMA BelowGrows ==
  ASSUME NEW I, I \subseteq Int, IsFiniteSet(I), NEW i \in I, NEW k \in I, i < k
  PROVE  Cardinality({j \in I : j < i}) < Cardinality({j \in I : j < k})
<1> DEFINE Lower == {j \in I : j < i}
           Upper == {j \in I : j < k}
<1>1. Lower \subseteq Upper /\ i \in Upper /\ i \notin Lower
  <2>1. i \in Int /\ k \in Int /\ \A j \in I : j \in Int
    OBVIOUS
  <2>2. \A j \in I : j < i => j < k
    BY <2>1
  <2>3. i < k /\ ~(i < i)
    BY <2>1
  <2> QED BY <2>2, <2>3
<1>2. IsFiniteSet(Upper)
  BY FS_Subset
<1> HIDE DEF Lower, Upper
<1>3. IsFiniteSet(Lower) /\ Cardinality(Lower) <= Cardinality(Upper)
      /\ Cardinality(Upper) # Cardinality(Lower)
  BY <1>1, <1>2, FS_Subset
<1>4. Cardinality(Lower) \in Nat /\ Cardinality(Upper) \in Nat
  BY <1>2, <1>3, FS_CardinalityType
<1> QED BY <1>3, <1>4 DEF Lower, Upper

LEMMA BelowCounts ==
  ASSUME NEW I, I \subseteq Int, IsFiniteSet(I), NEW i \in I
  PROVE  Cardinality({j \in I : j < i}) \in 0..Cardinality(I) - 1
<1> DEFINE Lower == {j \in I : j < i}
<1>1. Lower \subseteq I /\ i \notin Lower
  OBVIOUS
<1> HIDE DEF Lower
<1>2. IsFiniteSet(Lower) /\ Cardinality(Lower) <= Cardinality(I) /\ Cardinality(Lower) # Cardinality(I)
  BY <1>1, FS_Subset
<1>3. Cardinality(Lower) \in Nat /\ Cardinality(I) \in Nat
  BY <1>2, FS_CardinalityType
<1> QED BY <1>2, <1>3 DEF Lower

\* Each place of a finite set of naturals has a member.
LEMMA Placed ==
  ASSUME NEW I, I \subseteq Int, IsFiniteSet(I), NEW n \in 1..Cardinality(I)
  PROVE  \E i \in I : Cardinality({j \in I : j < i}) = n - 1
<1> DEFINE N == Cardinality(I)
           rank == [i \in I |-> Cardinality({j \in I : j < i})]
<1>1. N \in Nat
  BY FS_CardinalityType
<1>2. rank \in [I -> 0..N - 1]
  BY BelowCounts
<1>3. ASSUME NEW i \in I, NEW k \in I, rank[i] = rank[k]
      PROVE  i = k
  <2>1. rank[i] \in Int /\ rank[k] \in Int
    BY <1>1, <1>2
  <2>2. i < k => rank[i] < rank[k]
    BY BelowGrows
  <2>3. k < i => rank[k] < rank[i]
    BY BelowGrows
  <2>4. i \in Int /\ k \in Int
    OBVIOUS
  <2> HIDE DEF rank
  <2>5. ~(i < k) /\ ~(k < i)
    BY <1>3, <2>1, <2>2, <2>3
  <2> QED BY <2>4, <2>5
<1>4. /\ IsFiniteSet(0..N - 1) /\ Cardinality(0..N - 1) = N
      /\ n - 1 \in 0..N - 1
  <2>1. 0 \in Int /\ N - 1 \in Int /\ n \in 1..N
    BY <1>1
  <2>2. /\ IsFiniteSet(0..N - 1)
        /\ Cardinality(0..N - 1) = IF 0 > N - 1 THEN 0 ELSE (N - 1) - 0 + 1
    BY <2>1, FS_Interval
  <2> HIDE DEF N
  <2> QED BY <1>1, <2>1, <2>2
<1>5. SUFFICES ASSUME \A i \in I : rank[i] # n - 1
               PROVE  FALSE
  OBVIOUS
<1>6. rank \in [I -> (0..N - 1) \ {n - 1}]
  <2> HIDE DEF rank, N
  <2> QED BY <1>2, <1>5
<1>7. /\ IsFiniteSet((0..N - 1) \ {n - 1})
      /\ Cardinality((0..N - 1) \ {n - 1}) = N - 1
  <2> DEFINE T == 0..N - 1
             m == n - 1
  <2>1. IsFiniteSet(T) /\ Cardinality(T) = N /\ m \in T
    BY <1>4
  <2> HIDE DEF N, T, m
  <2>2. IsFiniteSet(T \ {m}) /\ Cardinality(T \ {m}) = N - 1
    BY <2>1, FS_RemoveElement
  <2> QED BY <2>2 DEF T, m
<1>8. \E i, k \in I : i # k /\ rank[i] = rank[k]
  <2>1. N - 1 < Cardinality(I)
    BY <1>1
  <2> HIDE DEF rank, N
  <2> QED BY <1>6, <1>7, <2>1, FS_PigeonHole
<1> QED BY <1>3, <1>8

LEMMA PlacesFinite ==
  ASSUME NEW S, NEW q \in Seq(S), NEW P, P \subseteq DOMAIN q
  PROVE  IsFiniteSet(P) /\ Cardinality(P) \in Nat /\ P \subseteq Int
<1>1. DOMAIN q = 1..Len(q) /\ Len(q) \in Nat
  OBVIOUS
<1>2. 1 \in Int /\ Len(q) \in Int
  BY <1>1
<1>3. IsFiniteSet(1..Len(q))
  BY <1>2, FS_Interval
<1> QED BY <1>1, <1>3, FS_Subset, FS_CardinalityType

\* What is picked of a queue is a queue of the same.
LEMMA PickedTyped ==
  ASSUME NEW S, NEW q \in Seq(S), NEW P, P \subseteq DOMAIN q
  PROVE  Picked(q, P) \in Seq(S)
<1> DEFINE Place(k) == CHOOSE i \in P : Cardinality({j \in P : j < i}) = k - 1
<1>1. IsFiniteSet(P) /\ Cardinality(P) \in Nat /\ P \subseteq Int
  BY PlacesFinite
<1>2. ASSUME NEW k \in 1..Cardinality(P)
      PROVE  Place(k) \in P
  BY <1>1, Placed
<1>3. \A i \in P : q[i] \in S
  OBVIOUS
<1> HIDE DEF Place
<1>4. [k \in 1..Cardinality(P) |-> q[Place(k)]] \in Seq(S)
  BY <1>1, <1>2, <1>3
<1> QED BY <1>4 DEF Picked, Place

LEMMA WithTyped ==
  ASSUME NEW q \in Seq(Departures), NEW c \in Departures
  PROVE  WithFocusOut(q, c) \in Seq(Departures)
<1> DEFINE sooner == Picked(q, {i \in DOMAIN q : q[i].due <= c.due})
           later == Picked(q, {i \in DOMAIN q : q[i].due > c.due})
<1>1. sooner \in Seq(Departures) /\ later \in Seq(Departures)
  BY PickedTyped
<1> HIDE DEF sooner, later
<1>2. sooner \o <<c>> \o later \in Seq(Departures)
  BY <1>1
<1> QED BY <1>2 DEF WithFocusOut, sooner, later

LEMMA WorkerSpans ==
  /\ Nowhere \notin Windows
  /\ TriggerCapacity \in Nat \ {0}
  /\ Quiet \in Nat \ {0} /\ MaxSettle \in Nat /\ MaxSettle >= Quiet
  /\ Len(Refreshes) \in Nat \ {0} /\ DOMAIN Refreshes = 1..Len(Refreshes)
  /\ \A i \in DOMAIN Refreshes : Refreshes[i] \in Nat \ {0}
  /\ FocusOutInterval \in Nat /\ SaveInterval \in Nat /\ BackoffFirst \in Nat /\ BackoffMax \in Nat
BY WorkerAssumption

Rescheduled(s) == FitsWatch(s[1]) /\ s[2] \in Seq(Departures)

LEMMA ArmTyped ==
  ASSUME NEW c \in Watches, c.refresh <= Refreshes[c.index]
  PROVE  /\ ArmSettle(c) \in Watches /\ ArmSettle(c).window = c.window
         /\ ArmSettle(c).refresh = c.refresh /\ ArmSettle(c).index = c.index
         /\ ArmSettle(c).seeded = c.seeded
<1> DEFINE first == IF c.settle = NotDue THEN 0 ELSE c.first
<1>1. first \in 0..MaxSettle /\ MaxSettle \in Int
  BY WorkerSpans DEF Watches
<1>2. Atmost(Quiet, MaxSettle - first) \in NotDue..Quiet
  BY <1>1, WorkerSpans DEF Atmost, NotDue
<1>3. ArmSettle(c) = [c EXCEPT !.first = first, !.retry = NoMessage,
                               !.settle = Atmost(Quiet, MaxSettle - first)]
  BY DEF ArmSettle
<1> HIDE DEF first
<1> QED BY <1>1, <1>2, <1>3 DEF Watches

LEMMA NewTyped ==
  ASSUME NEW w \in Windows
  PROVE  FitsWatch(NewWatch(w)) /\ NewWatch(w) \in Watches /\ NewWatch(w).window = w
<1>1. Refreshes[1] \in Nat /\ 1 \in DOMAIN Refreshes /\ 0 \in 0..MaxSettle /\ Quiet \in NotDue..Quiet
  BY WorkerSpans DEF NotDue
<1> QED BY <1>1 DEF NewWatch, FitsWatch, Watches

LEMMA ObservedTyped ==
  ASSUME NEW s, Rescheduled(s), NEW w \in Focuses, NEW kind
  PROVE  /\ Rescheduled(Observed(s, w, kind))
         /\ Observed(s, w, kind)[1].window =
              IF w = Nowhere THEN s[1].window
              ELSE IF kind # "focusOut" THEN w
              ELSE IF s[1].window = w THEN Nowhere ELSE s[1].window
<1> DEFINE kept == Picked(s[2], {i \in DOMAIN s[2] : ~(s[2][i].deferred /\ s[2][i].window = w)})
           gone == [window |-> w, due |-> 0, deferred |-> FALSE]
           again == [ArmSettle(s[1]) EXCEPT !.index = 1, !.refresh = Refreshes[1]]
<1>1. kept \in Seq(Departures)
  BY PickedTyped DEF Rescheduled
<1>2. CASE w = Nowhere
  BY <1>2 DEF Observed
<1>3. CASE w # Nowhere /\ kind = "focusOut"
  <2>1. gone \in Departures
    BY <1>3 DEF Departures, Focuses
  <2>2. WithFocusOut(kept, gone) \in Seq(Departures)
    BY <1>1, <2>1, WithTyped
  <2>3. Observed(s, w, kind) = <<IF s[1].window = w THEN NoOne ELSE s[1], WithFocusOut(kept, gone)>>
    BY <1>3 DEF Observed
  <2> HIDE DEF kept, gone
  <2> QED BY <1>3, <2>2, <2>3 DEF Rescheduled, FitsWatch, NoOne
<1>4. CASE w # Nowhere /\ kind # "focusOut" /\ s[1].window = w /\ ~s[1].seeded
  <2>1. s[1] \in Watches /\ s[1].refresh <= Refreshes[s[1].index]
    BY <1>4 DEF Rescheduled, FitsWatch, NoOne
  <2>2. ArmSettle(s[1]) \in Watches /\ ArmSettle(s[1]).window = w
    BY <1>4, <2>1, ArmTyped
  <2>3. Refreshes[1] \in Nat /\ 1 \in DOMAIN Refreshes /\ Refreshes[1] <= Refreshes[1]
    BY WorkerSpans
  <2>4. again \in Watches /\ again.window = w /\ again.index = 1 /\ again.refresh = Refreshes[1]
    BY <2>2, <2>3 DEF Watches
  <2>5. Observed(s, w, kind) = <<again, kept>>
    BY <1>4 DEF Observed
  <2> HIDE DEF kept, again
  <2> QED BY <1>1, <1>4, <2>3, <2>4, <2>5 DEF Rescheduled, FitsWatch
<1>5. CASE w # Nowhere /\ kind # "focusOut" /\ ~(s[1].window = w /\ ~s[1].seeded)
  <2>1. Observed(s, w, kind) = <<NewWatch(w), kept>>
    BY <1>5 DEF Observed
  <2> HIDE DEF kept
  <2> QED BY <1>1, <1>5, <2>1, NewTyped DEF Rescheduled, Focuses
<1> QED BY <1>2, <1>3, <1>4, <1>5

LEMMA TransitionObserved ==
  ASSUME NEW s, Rescheduled(s), NEW t \in Transitions
  PROVE  /\ Rescheduled(ObservedTransition(s, t))
         /\ ObservedTransition(s, t)[1].window =
              IF t.current # Nowhere THEN t.current
              ELSE IF s[1].window = t.previous THEN Nowhere ELSE s[1].window
<1> DEFINE same == t.previous # Nowhere /\ t.current # Nowhere /\ t.previous = t.current
           once == Observed(s, t.previous, "focusOut")
           from == IF same THEN s ELSE once
           kind == IF same /\ ~t.resynced THEN "title" ELSE "focus"
<1>1. t.previous \in Focuses /\ t.current \in Focuses
  BY DEF Transitions
<1>2. /\ Rescheduled(once)
      /\ once[1].window = IF t.previous = Nowhere THEN s[1].window
                         ELSE IF s[1].window = t.previous THEN Nowhere ELSE s[1].window
  BY <1>1, ObservedTyped
<1>3. Rescheduled(from)
  BY <1>2
<1>4. kind # "focusOut"
  OBVIOUS
<1> HIDE DEF once, kind
<1>5. t.current = Nowhere => from = once
  OBVIOUS
<1> HIDE DEF from
<1>6. /\ Rescheduled(Observed(from, t.current, kind))
      /\ Observed(from, t.current, kind)[1].window = IF t.current = Nowhere THEN from[1].window ELSE t.current
  BY <1>1, <1>3, <1>4, ObservedTyped
<1>7. ObservedTransition(s, t) = Observed(from, t.current, kind)
  BY DEF ObservedTransition, from, kind, once
<1> QED BY <1>2, <1>5, <1>6, <1>7

LEMMA InputObserved ==
  ASSUME NEW s, Rescheduled(s), NEW w \in Windows
  PROVE  Rescheduled(ObservedInput(s, w)) /\ ObservedInput(s, w)[1].window = s[1].window
<1>1. CASE s[1].window # w
  BY <1>1 DEF ObservedInput
<1>2. CASE s[1].window = w
  <2> DEFINE c == [s[1] EXCEPT !.seeded = FALSE]
             rearmed == ArmSettle(c)
             r == Atleast(rearmed.refresh, Refreshes[s[1].index])
  <2>1. s[1] \in Watches /\ s[1].refresh <= Refreshes[s[1].index]
    BY <1>2, WorkerSpans DEF Rescheduled, FitsWatch, NoOne
  <2>2. c \in Watches /\ c.refresh = s[1].refresh /\ c.index = s[1].index /\ c.window = w
    BY <1>2, <2>1 DEF Watches
  <2> HIDE DEF c
  <2>3. /\ rearmed \in Watches /\ rearmed.window = w /\ rearmed.refresh = s[1].refresh
        /\ rearmed.index = s[1].index
    BY <2>1, <2>2, ArmTyped
  <2> HIDE DEF rearmed
  <2>4. Refreshes[s[1].index] \in Nat /\ s[1].refresh \in Nat
    BY <2>1, WorkerSpans DEF Watches
  <2>5. r = Refreshes[s[1].index]
    BY <2>1, <2>3, <2>4 DEF Atleast
  <2>6. ObservedInput(s, w) = <<[rearmed EXCEPT !.refresh = r], s[2]>>
    BY <1>2 DEF ObservedInput, rearmed, c
  <2> HIDE DEF r
  <2>7. /\ [rearmed EXCEPT !.refresh = r] \in Watches /\ [rearmed EXCEPT !.refresh = r].window = w
        /\ [rearmed EXCEPT !.refresh = r].refresh = r /\ [rearmed EXCEPT !.refresh = r].index = s[1].index
    BY <2>3, <2>4, <2>5 DEF Watches
  <2> DEFINE n == [rearmed EXCEPT !.refresh = r]
  <2> HIDE DEF n
  <2>8. n \in Watches /\ n.window = w /\ n.refresh <= Refreshes[n.index]
    BY <2>4, <2>5, <2>7 DEF n
  <2>9. ObservedInput(s, w) = <<n, s[2]>>
    BY <2>6 DEF n
  <2> QED BY <1>2, <2>8, <2>9 DEF Rescheduled, FitsWatch
<1> QED BY <1>1, <1>2

LEMMA SparedTyped ==
  ASSUME NEW s, Rescheduled(s)
  PROVE  Rescheduled(Spared(s)) /\ Spared(s)[1].window = Heading(s[1], Woken, Ended)
<1> DEFINE kept == Picked(s[2], {i \in DOMAIN s[2] : s[2][i].window \notin Ended})
<1>1. kept \in Seq(Departures)
  BY PickedTyped DEF Rescheduled
<1>2. Spared(s) = IF Woken THEN <<NoOne, <<>>>>
                  ELSE <<IF s[1].window \in Ended THEN NoOne ELSE s[1], kept>>
  BY DEF Spared
<1> HIDE DEF kept
<1> QED BY <1>1, <1>2 DEF Rescheduled, Heading, FitsWatch, NoOne

LEMMA ServicedTyped ==
  ASSUME NEW s, Rescheduled(s), message \in Messages \cup {NoMessage}
  PROVE  /\ Rescheduled(Serviced(s))
         /\ Serviced(s)[1].window =
              LET h == Heading(s[1], Woken, Ended)
              IN  IF message.kind # "transition" THEN h
                  ELSE IF message.current # Nowhere THEN message.current
                  ELSE IF h = message.previous THEN Nowhere ELSE h
<1> DEFINE r == Spared(s)
<1>1. Rescheduled(r) /\ r[1].window = Heading(s[1], Woken, Ended)
  BY SparedTyped
<1> HIDE DEF r
<1>2. Serviced(s) = Heeded(r)
  BY DEF Serviced, r
<1>3. CASE message = NoMessage
  BY <1>1, <1>2, <1>3 DEF Heeded, NoMessage
<1>4. CASE message \in Transitions
  <2>1. message.kind = "transition" /\ Heeded(r) = ObservedTransition(r, message)
    BY <1>4 DEF Heeded, Transitions
  <2> QED BY <1>1, <1>2, <1>4, <2>1, TransitionObserved
<1>5. CASE message \in [kind : {"input"}, window : Windows]
  <2>1. message.kind = "input" /\ message.window \in Windows
    BY <1>5
  <2>2. Heeded(r) = ObservedInput(r, message.window)
    BY <2>1 DEF Heeded
  <2> QED BY <1>1, <1>2, <2>1, <2>2, InputObserved
<1> QED BY <1>3, <1>4, <1>5 DEF Messages

LEMMA Enters ==
  ASSUME NEW S, NEW q \in Seq(S), NEW m \in S
  PROVE  Append(q, m) \in Seq(S) /\ Len(Append(q, m)) = Len(q) + 1
OBVIOUS

LEMMA OneTaken ==
  ASSUME NEW S, NEW q \in Seq(S), q # <<>>
  PROVE  Head(q) \in S /\ Tail(q) \in Seq(S) /\ Len(Tail(q)) = Len(q) - 1 /\ Len(q) \in Nat
OBVIOUS

LEMMA OfferedTyped ==
  ASSUME FocusTyped, NEW m \in Messages, Offered(m)
  PROVE  triggers' \in Seq(Messages) /\ Len(triggers') <= TriggerCapacity /\ lossy' \in BOOLEAN
<1>1. CASE Len(triggers) < TriggerCapacity
  <2>1. triggers' = Append(triggers, m) /\ lossy' = lossy
    BY <1>1 DEF Offered
  <2>2. triggers \in Seq(Messages) /\ lossy \in BOOLEAN /\ Len(triggers) \in Nat
    BY DEF FocusTyped
  <2>3. triggers' \in Seq(Messages) /\ Len(triggers') = Len(triggers) + 1
    BY <2>1, <2>2, Enters
  <2> QED BY <1>1, <2>1, <2>2, <2>3, WorkerSpans
<1>2. CASE ~(Len(triggers) < TriggerCapacity)
  BY <1>2 DEF Offered, FocusTyped
<1> QED BY <1>1, <1>2

LEMMA InputTyped ==
  ASSUME NEW w \in Windows
  PROVE  InputTo(w) \in Messages /\ InputTo(w).kind = "input" /\ InputTo(w).kind # "transition"
BY DEF InputTo, Messages

LEMMA MovesTyped ==
  ASSUME NEW from \in Focuses, NEW to \in Focuses, NEW b \in BOOLEAN
  PROVE  /\ Transition(from, to, b) \in Transitions /\ Transition(from, to, b).current = to
         /\ Transition(from, to, b).previous = from /\ Transition(from, to, b) # NoMessage
         /\ Transition(from, to, b).kind = "transition"
BY DEF Transition, Transitions, NoMessage

LEMMA FocusStarts == WorkerInit => FocusTyped
<1> SUFFICES ASSUME WorkerInit PROVE FocusTyped
  OBVIOUS
<1>1. <<>> \in Seq(Tidings) /\ <<>> \in Seq(Messages) /\ Len(<<>>) = 0
  OBVIOUS
<1>2. 0 <= TriggerCapacity
  BY WorkerSpans
<1>3. unpublished = NoMessage /\ announcing = NoMessage /\ message = NoMessage
  BY DEF WorkerInit
<1> QED BY <1>1, <1>2, <1>3 DEF WorkerInit, FocusTyped, Focuses

LEMMA AnnounceTyped == FocusTyped /\ Announce => FocusTyped'
<1> SUFFICES ASSUME FocusTyped, Announce PROVE FocusTyped'
  OBVIOUS
<1>1. PICK e \in Tidings : announcing' = e /\ lifecycle' = Append(lifecycle, e)
  BY DEF Announce, Tidings
<1>2. lifecycle' \in Seq(Tidings)
  BY <1>1, Enters DEF FocusTyped
<1> QED BY <1>1, <1>2 DEF FocusTyped, Announce, worker, input

LEMMA AnnounceToAxTyped == FocusTyped /\ AnnounceToAx => FocusTyped'
<1> SUFFICES ASSUME FocusTyped, AnnounceToAx PROVE FocusTyped'
  OBVIOUS
<1>1. axEvents' \in Seq(Tidings)
  BY Enters DEF FocusTyped, AnnounceToAx
<1> QED BY <1>1 DEF FocusTyped, AnnounceToAx, worker, input

LEMMA FocusMovesTyped == FocusTyped /\ FocusMoves => FocusTyped'
<1> SUFFICES ASSUME FocusTyped, FocusMoves PROVE FocusTyped'
  OBVIOUS
<1>1. focus \in Focuses /\ focus' \in Focuses /\ FALSE \in BOOLEAN
  BY DEF FocusTyped, FocusMoves, Focuses
<1>2. unpublished' \in Transitions /\ unpublished'.current = focus'
  BY <1>1, MovesTyped DEF FocusMoves
<1> QED BY <1>1, <1>2 DEF FocusTyped, FocusMoves, worker, input

\* What the handling of an event of the workspace does.
LEMMA EventHandled ==
  ASSUME FocusTyped, HandleWorkspaceEvent
  PROVE  /\ axEvents # <<>> /\ axEvents' = Tail(axEvents) /\ focus' \in Focuses
         /\ unpublished = NoMessage
         /\ \/ /\ unpublished' \in Transitions /\ unpublished'.previous = focus
               /\ unpublished'.current = focus'
            \/ /\ UNCHANGED <<focus, unpublished>>
               /\ Head(axEvents).kind = "terminated" /\ Head(axEvents).window # focus
<1>1. axEvents # <<>> /\ axEvents' = Tail(axEvents) /\ unpublished = NoMessage
  BY DEF HandleWorkspaceEvent
<1>2. focus \in Focuses /\ Nowhere \in Focuses /\ TRUE \in BOOLEAN /\ FALSE \in BOOLEAN
  BY DEF FocusTyped, Focuses
<1>3. CASE focus' \in Windows \cup {Nowhere} /\ unpublished' = Transition(focus, focus', TRUE)
  BY <1>1, <1>2, <1>3, MovesTyped DEF Focuses
<1>4. CASE focus' = Nowhere /\ unpublished' = Transition(focus, Nowhere, FALSE)
  BY <1>1, <1>2, <1>4, MovesTyped
<1>5. CASE UNCHANGED <<focus, unpublished>> /\ Head(axEvents).kind = "terminated"
           /\ Head(axEvents).window # focus
  BY <1>1, <1>2, <1>5
<1> QED BY <1>3, <1>4, <1>5 DEF HandleWorkspaceEvent

LEMMA HandleTyped == FocusTyped /\ HandleWorkspaceEvent => FocusTyped'
<1> SUFFICES ASSUME FocusTyped, HandleWorkspaceEvent PROVE FocusTyped'
  OBVIOUS
<1>1. axEvents' \in Seq(Tidings)
  BY EventHandled, OneTaken DEF FocusTyped
<1>2. focus' \in Focuses /\ unpublished' \in Transitions \cup {NoMessage}
      /\ (unpublished' # NoMessage => unpublished'.current = focus')
  BY EventHandled DEF FocusTyped
<1> QED BY <1>1, <1>2 DEF FocusTyped, HandleWorkspaceEvent, worker, input

LEMMA PublishTyped == FocusTyped /\ PublishTransition => FocusTyped'
<1> SUFFICES ASSUME FocusTyped, PublishTransition PROVE FocusTyped'
  OBVIOUS
<1>1. unpublished \in Messages
  BY DEF FocusTyped, PublishTransition, Messages
<1>2. triggers' \in Seq(Messages) /\ Len(triggers') <= TriggerCapacity /\ lossy' \in BOOLEAN
  BY <1>1, OfferedTyped DEF PublishTransition
<1> QED BY <1>2 DEF FocusTyped, PublishTransition, worker, input

LEMMA ContentsTyped == FocusTyped /\ (\E w \in Windows : ContentsChange(w)) => FocusTyped'
<1> SUFFICES ASSUME FocusTyped, NEW w \in Windows, ContentsChange(w) PROVE FocusTyped'
  OBVIOUS
<1>1. triggers' \in Seq(Messages) /\ Len(triggers') <= TriggerCapacity /\ lossy' \in BOOLEAN
  <2>1. CASE UNCHANGED <<triggers, lossy>>
    BY <2>1 DEF FocusTyped
  <2>2. CASE Offered(InputTo(w))
    BY <2>2, OfferedTyped, InputTyped
  <2> QED BY <2>1, <2>2 DEF ContentsChange, input
<1>2. inputSent' \in Focuses /\ inputHeld' \in Focuses
  BY DEF FocusTyped, ContentsChange, input, Focuses
<1> QED BY <1>1, <1>2 DEF FocusTyped, ContentsChange, worker, focusing

LEMMA PublishHeldTyped == FocusTyped /\ PublishHeldInput => FocusTyped'
<1> SUFFICES ASSUME FocusTyped, PublishHeldInput PROVE FocusTyped'
  OBVIOUS
<1>1. inputHeld \in Windows
  BY DEF FocusTyped, PublishHeldInput, Focuses
<1>2. triggers' \in Seq(Messages) /\ Len(triggers') <= TriggerCapacity /\ lossy' \in BOOLEAN
  BY <1>1, OfferedTyped, InputTyped DEF PublishHeldInput
<1>3. inputSent' \in Focuses /\ inputHeld' \in Focuses
  BY <1>1 DEF PublishHeldInput, Focuses
<1> QED BY <1>2, <1>3 DEF FocusTyped, PublishHeldInput, worker, focusing

LEMMA ReceiveTyped == FocusTyped /\ ReceiveTrigger => FocusTyped'
<1> SUFFICES ASSUME FocusTyped, ReceiveTrigger PROVE FocusTyped'
  OBVIOUS
<1>1. triggers' \in Seq(Messages) /\ Len(triggers') <= TriggerCapacity
      /\ message' \in Messages \cup {NoMessage}
  <2>1. CASE triggers # <<>>
    <3>1. /\ Head(triggers) \in Messages /\ Tail(triggers) \in Seq(Messages)
          /\ Len(Tail(triggers)) = Len(triggers) - 1 /\ Len(triggers) \in Nat
      BY <2>1, OneTaken DEF FocusTyped
    <3>2. triggers' = Tail(triggers) /\ message' = Head(triggers)
      BY <2>1 DEF ReceiveTrigger
    <3>3. Len(triggers) <= TriggerCapacity /\ TriggerCapacity \in Int
      BY WorkerSpans DEF FocusTyped
    <3>4. Len(triggers') <= TriggerCapacity
      BY <3>1, <3>2, <3>3
    <3> QED BY <3>1, <3>2, <3>4
  <2> QED BY <2>1 DEF ReceiveTrigger, FocusTyped
<1> QED BY <1>1 DEF FocusTyped, ReceiveTrigger, focusing, input

LEMMA ServiceTyped == FocusTyped /\ ServiceLifecycle => FocusTyped'
<1> SUFFICES ASSUME FocusTyped, ServiceLifecycle PROVE FocusTyped'
  OBVIOUS
<1>1. <<>> \in Seq(Tidings)
  OBVIOUS
<1> QED BY <1>1 DEF FocusTyped, ServiceLifecycle, focusing, input

\* Steps that neither receive nor publish.
LEMMA QuietTyped ==
  ASSUME FocusTyped, UNCHANGED <<focusing, triggers, lossy, lifecycle, message, inputHeld>>,
         inputSent' \in {inputSent, Nowhere},
         \/ step' = step
         \/ step' \in {"receive", "candidates", "stopped"} /\ step # "lifecycle"
  PROVE  FocusTyped'
BY DEF FocusTyped, focusing, Focuses

LEMMA StopTyped == FocusTyped /\ StopCollector => FocusTyped'
<1> SUFFICES ASSUME FocusTyped, StopCollector PROVE FocusTyped'
  OBVIOUS
<1>1. <<>> \in Seq(Messages) /\ Len(<<>>) = 0
  OBVIOUS
<1>2. 0 <= TriggerCapacity
  BY WorkerSpans
<1> QED BY <1>1, <1>2 DEF FocusTyped, StopCollector, focusing, input

LEMMA DrainedTyped == FocusTyped /\ StopDrained => FocusTyped'
<1> SUFFICES ASSUME FocusTyped, StopDrained PROVE FocusTyped'
  OBVIOUS
<1>1. <<>> \in Seq(Tidings)
  OBVIOUS
<1> QED BY <1>1 DEF FocusTyped, StopDrained, focusing, input

\* The steps of the worker in which nothing comes or goes.
Ponders == Decide \/ Save \/ Recognize \/ ReplaceFilter \/ LoopAgain \/ WorkerTick

LEMMA PonderQuiet ==
  ASSUME Ponders
  PROVE  /\ UNCHANGED <<focusing, triggers, lossy, lifecycle, message, inputHeld>>
         /\ inputSent' \in {inputSent, Nowhere}
         /\ \/ step' = step
            \/ step' = "receive" /\ step = "candidates"
<1>1. CASE Decide
  BY <1>1 DEF Decide, LookIdle, focusing, input, CandidateDropped, CandidateDeferred, ScanFails,
              ScanWithoutEvent, ScanAndRecognize, FinishWithoutEvent
<1>2. CASE Save
  BY <1>2 DEF Save, LookIdle, focusing, input, ScanAndSend, FinishAndSend
<1>3. CASE Recognize \/ ReplaceFilter \/ LoopAgain \/ WorkerTick
  BY <1>3 DEF Recognize, ReplaceFilter, LoopAgain, WorkerTick, focusing, input
<1> QED BY <1>1, <1>2, <1>3 DEF Ponders

LEMMA WorkerSteps ==
  ASSUME WorkerNext
  PROVE  \/ Announce \/ AnnounceToAx \/ FocusMoves \/ HandleWorkspaceEvent \/ PublishTransition
         \/ \E w \in Windows : ContentsChange(w)
         \/ PublishHeldInput \/ ReceiveTrigger \/ ServiceLifecycle
         \/ StopCollector \/ StopDrained \/ StartCollector \/ Ponders
BY DEF WorkerNext, Loop, Ponders

LEMMA FocusStep == FocusTyped /\ WorkerNext => FocusTyped'
<1> SUFFICES ASSUME FocusTyped, WorkerNext PROVE FocusTyped'
  OBVIOUS
<1>1. CASE Announce \/ AnnounceToAx \/ FocusMoves \/ HandleWorkspaceEvent \/ PublishTransition
  BY <1>1, AnnounceTyped, AnnounceToAxTyped, FocusMovesTyped, HandleTyped, PublishTyped
<1>2. CASE (\E w \in Windows : ContentsChange(w)) \/ PublishHeldInput
  BY <1>2, ContentsTyped, PublishHeldTyped
<1>3. CASE ReceiveTrigger \/ ServiceLifecycle \/ StopCollector \/ StopDrained
  BY <1>3, ReceiveTyped, ServiceTyped, StopTyped, DrainedTyped
<1>4. CASE StartCollector
  <2>1. UNCHANGED <<focusing, triggers, lossy, lifecycle, message, inputHeld>>
        /\ inputSent' = inputSent /\ step' = "receive" /\ step = "stopped"
    BY <1>4 DEF StartCollector, input
  <2> QED BY <2>1, QuietTyped
<1>5. CASE Ponders
  BY <1>5, PonderQuiet, QuietTyped
<1> QED BY <1>1, <1>2, <1>3, <1>4, <1>5, WorkerSteps

-----------------------------------------------------------------------------
LEMMA TrailTail ==
  ASSUME NEW q \in Seq(Messages), q # <<>>, NEW f, NEW last, Trail(f, q, last),
         NEW g, g = [i \in 0..Len(Tail(q)) |-> f[i + 1]]
  PROVE  /\ Trail(g, Tail(q), last) /\ g[0] = f[1] /\ f[0] \in Focuses
         /\ IF Head(q).kind = "transition"
            THEN Head(q).previous = f[0] /\ Head(q).current = f[1] ELSE f[1] = f[0]
<1> DEFINE n == Len(q)
           r == Tail(q)
<1>1. n \in Nat \ {0} /\ Len(r) = n - 1 /\ Head(q) = q[1] /\ \A i \in 1..n - 1 : r[i] = q[i + 1]
  OBVIOUS
<1>2. /\ f \in [0..n -> Focuses] /\ f[n] = last
      /\ \A i \in 1..n : IF q[i].kind = "transition" THEN q[i].previous = f[i - 1] /\ q[i].current = f[i]
                         ELSE f[i] = f[i - 1]
      /\ \A i \in 0..n : f[i] = last \/ \E j \in i + 1..n :
                                      q[j].kind = "transition" /\ q[j].current = last
  BY DEF Trail
<1> HIDE DEF n, r
<1>3. g = [i \in 0..n - 1 |-> f[i + 1]]
  BY <1>1 DEF r
<1>4. g \in [0..n - 1 -> Focuses] /\ g[n - 1] = last /\ g[0] = f[1] /\ f[0] \in Focuses
  BY <1>1, <1>2, <1>3
<1>5. ASSUME NEW i \in 1..n - 1
      PROVE  IF r[i].kind = "transition" THEN r[i].previous = g[i - 1] /\ r[i].current = g[i]
             ELSE g[i] = g[i - 1]
  <2>1. i + 1 \in 1..n /\ i \in 0..n - 1 /\ i - 1 \in 0..n - 1 /\ (i + 1) - 1 = i /\ (i - 1) + 1 = i
    BY <1>1
  <2>2. g[i] = f[i + 1] /\ g[i - 1] = f[i] /\ r[i] = q[i + 1]
    BY <1>1, <1>3, <2>1
  <2> QED BY <1>2, <2>1, <2>2
<1>6. ASSUME NEW i \in 0..n - 1
      PROVE  g[i] = last \/ \E j \in i + 1..n - 1 : r[j].kind = "transition" /\ r[j].current = last
  <2>1. i + 1 \in 0..n /\ g[i] = f[i + 1]
    BY <1>1, <1>3
  <2>2. CASE f[i + 1] = last
    BY <2>1, <2>2
  <2>3. CASE f[i + 1] # last
    <3>1. PICK j \in (i + 1) + 1..n : q[j].kind = "transition" /\ q[j].current = last
      BY <1>2, <2>1, <2>3
    <3>2. j - 1 \in i + 1..n - 1 /\ j - 1 \in 1..n - 1 /\ (j - 1) + 1 = j
      BY <1>1, <3>1
    <3>3. r[j - 1] = q[j]
      BY <1>1, <3>2
    <3> QED BY <3>1, <3>2, <3>3
  <2> QED BY <2>2, <2>3
<1>7. 1 \in 1..n /\ 1 - 1 = 0
  BY <1>1
<1>8. IF q[1].kind = "transition" THEN q[1].previous = f[0] /\ q[1].current = f[1] ELSE f[1] = f[0]
  BY <1>2, <1>7
<1>9. Trail(g, r, last)
  BY <1>1, <1>4, <1>5, <1>6 DEF Trail
<1> QED BY <1>1, <1>4, <1>8, <1>9 DEF r

LEMMA TrailGrows ==
  ASSUME NEW q \in Seq(Messages), NEW f, NEW last, Trail(f, q, last), NEW m \in Messages,
         NEW new \in Focuses,
         IF m.kind = "transition" THEN m.previous = last /\ m.current = new ELSE new = last,
         NEW g, g = [i \in 0..Len(Append(q, m)) |-> IF i <= Len(q) THEN f[i] ELSE new]
  PROVE  Trail(g, Append(q, m), new) /\ g[0] = f[0]
<1> DEFINE n == Len(q)
           r == Append(q, m)
<1>1. n \in Nat /\ Len(r) = n + 1 /\ r[n + 1] = m /\ \A i \in 1..n : r[i] = q[i]
  OBVIOUS
<1>2. /\ f \in [0..n -> Focuses] /\ f[n] = last
      /\ \A i \in 1..n : IF q[i].kind = "transition" THEN q[i].previous = f[i - 1] /\ q[i].current = f[i]
                         ELSE f[i] = f[i - 1]
      /\ \A i \in 0..n : f[i] = last \/ \E j \in i + 1..n :
                                      q[j].kind = "transition" /\ q[j].current = last
  BY DEF Trail
<1> HIDE DEF n, r
<1>3. g = [i \in 0..n + 1 |-> IF i <= n THEN f[i] ELSE new]
  BY <1>1 DEF r, n
<1>4. g \in [0..n + 1 -> Focuses] /\ g[n + 1] = new /\ g[n] = last /\ g[0] = f[0]
      /\ \A i \in 0..n : g[i] = f[i]
  <2>1. \A i \in 0..n + 1 : i <= n => i \in 0..n
    BY <1>1
  <2>2. 0 \in 0..n + 1 /\ n \in 0..n + 1 /\ n + 1 \in 0..n + 1 /\ 0 <= n /\ n <= n /\ ~(n + 1 <= n)
    BY <1>1
  <2>3. \A i \in 0..n : i \in 0..n + 1 /\ i <= n
    BY <1>1
  <2>4. \A i \in 0..n : f[i] \in Focuses
    BY <1>2
  <2> QED BY <1>2, <1>3, <2>1, <2>2, <2>3, <2>4
<1>5. ASSUME NEW i \in 1..n + 1
      PROVE  IF r[i].kind = "transition" THEN r[i].previous = g[i - 1] /\ r[i].current = g[i]
             ELSE g[i] = g[i - 1]
  <2>1. CASE i = n + 1
    <3>1. i - 1 = n
      BY <1>1, <2>1
    <3> QED BY <1>1, <1>4, <2>1, <3>1
  <2>2. CASE i # n + 1
    <3>1. i \in 1..n /\ i \in 0..n /\ i - 1 \in 0..n
      BY <1>1, <2>2
    <3> QED BY <1>1, <1>2, <1>4, <3>1
  <2> QED BY <2>1, <2>2
<1>6. ASSUME NEW i \in 0..n + 1
      PROVE  g[i] = new \/ \E j \in i + 1..n + 1 : r[j].kind = "transition" /\ r[j].current = new
  <2>1. CASE i = n + 1
    BY <1>4, <2>1
  <2>2. CASE i # n + 1 /\ m.kind = "transition"
    <3>1. n + 1 \in i + 1..n + 1
      BY <1>1, <2>2
    <3> QED BY <1>1, <2>2, <3>1
  <2>3. CASE i # n + 1 /\ m.kind # "transition" /\ f[i] = last
    <3>1. i \in 0..n
      BY <1>1, <2>3
    <3> QED BY <1>4, <2>3, <3>1
  <2>4. CASE i # n + 1 /\ m.kind # "transition" /\ f[i] # last
    <3>1. i \in 0..n
      BY <1>1, <2>4
    <3>2. PICK j \in i + 1..n : q[j].kind = "transition" /\ q[j].current = last
      BY <1>2, <2>4, <3>1
    <3>3. j \in i + 1..n + 1 /\ j \in 1..n
      BY <1>1, <3>2
    <3> QED BY <1>1, <2>4, <3>2, <3>3
  <2> QED BY <2>1, <2>2, <2>3, <2>4
<1>7. Trail(g, r, new)
  <2>1. g \in [0..Len(r) -> Focuses] /\ g[Len(r)] = new
    BY <1>1, <1>4
  <2>2. \A i \in 1..Len(r) :
          IF r[i].kind = "transition" THEN r[i].previous = g[i - 1] /\ r[i].current = g[i]
          ELSE g[i] = g[i - 1]
    BY <1>1, <1>5
  <2>3. \A i \in 0..Len(r) : g[i] = new \/ \E j \in i + 1..Len(r) :
                                      r[j].kind = "transition" /\ r[j].current = new
    BY <1>1, <1>6
  <2> QED BY <2>1, <2>2, <2>3 DEF Trail
<1> QED BY <1>4, <1>7 DEF r

LEMMA TrailEmpty ==
  ASSUME NEW w \in Focuses, NEW g, g = [i \in 0..0 |-> w]
  PROVE  Trail(g, <<>>, w)
<1>1. Len(<<>>) = 0 /\ g \in [0..0 -> Focuses] /\ g[0] = w
  OBVIOUS
<1>2. \A i \in 0..0 : i = 0
  OBVIOUS
<1>3. \A i \in 1..0 : FALSE
  OBVIOUS
<1> QED BY <1>1, <1>2, <1>3 DEF Trail

\* What is said of the focus does not change as a message goes from one place to the next.
LEMMA MovesReceived ==
  ASSUME NEW q \in Seq(Messages), q # <<>>, NEW u
  PROVE  MovesIn(Head(q), Tail(q), u) = MovesIn(NoMessage, q, u)
<1> DEFINE A == {Tail(q)[i] : i \in DOMAIN Tail(q)}
           B == {q[i] : i \in DOMAIN q}
<1>1. Len(q) \in Nat \ {0} /\ DOMAIN q = 1..Len(q) /\ DOMAIN Tail(q) = 1..Len(q) - 1
      /\ Head(q) = q[1] /\ \A i \in 1..Len(q) - 1 : Tail(q)[i] = q[i + 1]
  OBVIOUS
<1>2. \A x \in A : x \in B
  BY <1>1
<1>3. Head(q) \in B
  BY <1>1
<1>4. ASSUME NEW x \in B
      PROVE  x = Head(q) \/ x \in A
  <2>1. PICK i \in 1..Len(q) : x = q[i]
    BY <1>1
  <2>2. CASE i = 1
    BY <1>1, <2>1, <2>2
  <2>3. CASE i # 1
    <3>1. i - 1 \in 1..Len(q) - 1 /\ (i - 1) + 1 = i
      BY <1>1, <2>3
    <3>2. Tail(q)[i - 1] = x
      BY <1>1, <2>1, <3>1
    <3> QED BY <1>1, <3>1, <3>2
  <2> QED BY <2>2, <2>3
<1>5. NoMessage.kind # "transition"
  BY DEF NoMessage
<1> HIDE DEF A, B
<1>6. \A x : x \in {Head(q), u} \cup A /\ x.kind = "transition"
             <=> x \in {NoMessage, u} \cup B /\ x.kind = "transition"
  BY <1>2, <1>3, <1>4, <1>5
<1> QED BY <1>6 DEF MovesIn, A, B

LEMMA RangeGrows ==
  ASSUME NEW S, NEW q \in Seq(S), NEW m
  PROVE  {Append(q, m)[i] : i \in DOMAIN Append(q, m)} = {q[i] : i \in DOMAIN q} \cup {m}
<1> DEFINE A == {Append(q, m)[i] : i \in DOMAIN Append(q, m)}
           B == {q[i] : i \in DOMAIN q}
<1>1. Len(q) \in Nat /\ DOMAIN q = 1..Len(q) /\ DOMAIN Append(q, m) = 1..Len(q) + 1
      /\ Append(q, m)[Len(q) + 1] = m /\ \A i \in 1..Len(q) : Append(q, m)[i] = q[i]
  OBVIOUS
<1>2. ASSUME NEW x \in A PROVE x \in B \cup {m}
  <2>1. PICK i \in 1..Len(q) + 1 : x = Append(q, m)[i]
    BY <1>1
  <2>2. i = Len(q) + 1 \/ i \in 1..Len(q)
    BY <1>1
  <2> QED BY <1>1, <2>1, <2>2
<1>3. m \in A
  <2>1. Len(q) + 1 \in 1..Len(q) + 1
    BY <1>1
  <2> QED BY <1>1, <2>1
<1>4. ASSUME NEW x \in B PROVE x \in A
  <2>1. PICK i \in 1..Len(q) : x = q[i]
    BY <1>1
  <2>2. i \in 1..Len(q) + 1
    BY <1>1
  <2> QED BY <1>1, <2>1, <2>2
<1> QED BY <1>2, <1>3, <1>4

LEMMA MovesPublished ==
  ASSUME NEW q \in Seq(Messages), NEW m, NEW u
  PROVE  MovesIn(m, Append(q, u), NoMessage) = MovesIn(m, q, u)
<1>1. NoMessage.kind # "transition"
  BY DEF NoMessage
<1>2. {Append(q, u)[i] : i \in DOMAIN Append(q, u)} = {q[i] : i \in DOMAIN q} \cup {u}
  BY RangeGrows
<1> QED BY <1>1, <1>2 DEF MovesIn

LEMMA MovesBesides ==
  ASSUME NEW q \in Seq(Messages), NEW m, NEW u, NEW x, x.kind # "transition"
  PROVE  MovesIn(m, Append(q, x), u) = MovesIn(m, q, u)
<1>1. {Append(q, x)[i] : i \in DOMAIN Append(q, x)} = {q[i] : i \in DOMAIN q} \cup {x}
  BY RangeGrows
<1> QED BY <1>1 DEF MovesIn

-----------------------------------------------------------------------------
LEMMA NoneUnread ==
  ASSUME lifecycle = <<>>
  PROVE  ~Woken /\ Ended = {}
BY DEF Woken, Ended

LEMMA ToldMore ==
  ASSUME lifecycle \in Seq(Tidings), NEW e \in Tidings, lifecycle' = Append(lifecycle, e)
  PROVE  /\ Woken' <=> Woken \/ e.kind = "wake"
         /\ \A w : w \in Ended' <=> w \in Ended \/ (e.kind = "terminated" /\ e.window = w)
<1> DEFINE n == Len(lifecycle)
<1>1. /\ n \in Nat /\ DOMAIN lifecycle = 1..n /\ DOMAIN lifecycle' = 1..n + 1
      /\ lifecycle'[n + 1] = e /\ \A i \in 1..n : lifecycle'[i] = lifecycle[i]
  OBVIOUS
<1> HIDE DEF n
<1>2. \A i \in 1..n + 1 : i = n + 1 \/ i \in 1..n
  BY <1>1
<1>3. n + 1 \in 1..n + 1 /\ \A i \in 1..n : i \in 1..n + 1
  BY <1>1
<1>4. Woken' <=> Woken \/ e.kind = "wake"
  BY <1>1, <1>2, <1>3 DEF Woken
<1>5. \A w : w \in Ended <=> \E i \in 1..n : lifecycle[i].kind = "terminated" /\ lifecycle[i].window = w
  BY <1>1 DEF Ended
<1>6. \A w : w \in Ended' <=> \E i \in 1..n + 1 : lifecycle'[i].kind = "terminated" /\ lifecycle'[i].window = w
  BY <1>1 DEF Ended
<1>7. ASSUME NEW w
      PROVE  w \in Ended' <=> w \in Ended \/ (e.kind = "terminated" /\ e.window = w)
  <2>1. w \in Ended' => w \in Ended \/ (e.kind = "terminated" /\ e.window = w)
    BY <1>1, <1>2, <1>5, <1>6
  <2>2. w \in Ended => w \in Ended'
    BY <1>1, <1>3, <1>5, <1>6
  <2>3. e.kind = "terminated" /\ e.window = w => w \in Ended'
    BY <1>1, <1>3, <1>6
  <2> QED BY <2>1, <2>2, <2>3
<1> QED BY <1>4, <1>7

\* The part of Tracked that a step must find a trail for.
Guided(f) ==
  /\ Traced(f, message, triggers, unpublished, focus)
  /\ step \notin {"draining", "stopped"} =>
       Knows(Heading(watched, Woken, Ended), Begins(f, message),
             MovesIn(message, triggers, unpublished), focus, announcing, axEvents)

Resting ==
  step = "stopped" /\ MovesIn(message, triggers, unpublished) = {} /\ (Woken \/ focus \in Ended)
    => Unsettled(focus, announcing, axEvents)

LEMMA TrackedIs == Tracked <=> (~lossy => (\E f : Guided(f)) /\ Resting)
<1>1. \A f : Guided(f) => f \in [0..Len(triggers) -> Focuses]
  BY DEF Guided, Traced, Trail
<1>2. (\E f \in [0..Len(triggers) -> Focuses] : Guided(f)) <=> \E f : Guided(f)
  BY <1>1
<1> QED BY <1>2 DEF Tracked, Guided, Resting

LEMMA TrackedIsNext == Tracked' <=> (~lossy' => (\E f : Guided(f)') /\ Resting')
<1>1. \A f : Guided(f)' => f \in [0..Len(triggers') -> Focuses]
  BY DEF Guided, Traced, Trail
<1>2. (\E f \in [0..Len(triggers') -> Focuses] : Guided(f)') <=> \E f : Guided(f)'
  BY <1>1
<1> QED BY <1>2 DEF Tracked, Guided, Resting

LEMMA PonderTracked ==
  ASSUME Tracked, Ponders, watched'.window = watched.window
  PROVE  Tracked'
<1>1. UNCHANGED <<focusing, triggers, lossy, lifecycle, message>>
      /\ (step' = step \/ (step' = "receive" /\ step = "candidates"))
  BY PonderQuiet
<1>2. UNCHANGED <<focus, unpublished, axEvents, announcing>> /\ Woken' = Woken /\ Ended' = Ended
  BY <1>1 DEF focusing, Woken, Ended
<1>3. Heading(watched, Woken, Ended)' = Heading(watched, Woken, Ended)
  BY <1>2 DEF Heading
<1>4. (step \in {"draining", "stopped"})' = (step \in {"draining", "stopped"}) /\ (step = "stopped")' = (step = "stopped")
  BY <1>1
<1>5. \A f : Guided(f) => Guided(f)'
  BY <1>1, <1>2, <1>3, <1>4 DEF Guided
<1>6. Resting => Resting'
  BY <1>1, <1>2, <1>4 DEF Resting
<1> QED BY <1>1, <1>5, <1>6, TrackedIs, TrackedIsNext

LEMMA AnnounceTracked == FocusTyped /\ Tracked /\ Announce => Tracked'
<1> SUFFICES ASSUME FocusTyped, Tracked, Announce, ~lossy' PROVE (\E f : Guided(f)') /\ Resting'
  BY TrackedIsNext
<1>1. PICK e \in Tidings : announcing' = e /\ lifecycle' = Append(lifecycle, e)
  BY DEF Announce, Tidings
<1>2. /\ UNCHANGED <<focus, unpublished, axEvents, triggers, lossy, message, step, watched>>
      /\ announcing = NoMessage
  BY DEF Announce, worker, scheduled
<1>3. /\ Woken' <=> Woken \/ e.kind = "wake"
      /\ \A w : w \in Ended' <=> w \in Ended \/ (e.kind = "terminated" /\ e.window = w)
  BY <1>1, ToldMore DEF FocusTyped
<1>4. PICK f : Guided(f)
  BY <1>2, TrackedIs
<1>5. Resting
  BY <1>2, TrackedIs
<1>6. \A w : Unsettled(w, announcing, axEvents) => Unsettled(w, e, axEvents)
  BY <1>2 DEF Unsettled, NoMessage
<1>7. \A w : e.kind = "wake" \/ (e.kind = "terminated" /\ e.window = w) => Unsettled(w, e, axEvents)
  BY DEF Unsettled
<1> DEFINE h == Heading(watched, Woken, Ended)
           k == Heading(watched, Woken', Ended')
           afoot == MovesIn(message, triggers, unpublished)
<1>8. \/ k = h
      \/ /\ k = Nowhere /\ h = watched.window
         /\ e.kind = "wake" \/ (e.kind = "terminated" /\ e.window = watched.window)
  BY <1>3 DEF Heading
<1> HIDE DEF h, k, afoot
<1>9. \A from : Knows(h, from, afoot, focus, announcing, axEvents)
                  => Knows(k, from, afoot, focus, e, axEvents)
  BY <1>6, <1>7, <1>8 DEF Knows
<1>10. Guided(f)'
  BY <1>1, <1>2, <1>4, <1>9 DEF Guided, h, k, afoot
<1>11. Resting'
  BY <1>1, <1>2, <1>3, <1>5, <1>6, <1>7 DEF Resting
<1> QED BY <1>10, <1>11

LEMMA AnnounceToAxTracked == FocusTyped /\ Tracked /\ AnnounceToAx => Tracked'
<1> SUFFICES ASSUME FocusTyped, Tracked, AnnounceToAx, ~lossy' PROVE (\E f : Guided(f)') /\ Resting'
  BY TrackedIsNext
<1>1. /\ UNCHANGED <<focus, unpublished, triggers, lossy, message, step, watched, lifecycle>>
      /\ axEvents' = Append(axEvents, announcing) /\ announcing' = NoMessage
  BY DEF AnnounceToAx, worker, scheduled
<1>2. Woken' = Woken /\ Ended' = Ended
  BY <1>1 DEF Woken, Ended
<1>3. {axEvents'[i] : i \in DOMAIN axEvents'} = {axEvents[i] : i \in DOMAIN axEvents} \cup {announcing}
  <2>1. axEvents \in Seq(Tidings)
    BY DEF FocusTyped
  <2> QED BY <1>1, <2>1, RangeGrows
<1>4. \A w : Unsettled(w, announcing, axEvents) => Unsettled(w, announcing', axEvents')
  BY <1>3 DEF Unsettled
<1>5. (\E f : Guided(f)) /\ Resting
  BY <1>1, TrackedIs
<1>6. \A h, from, afoot : Knows(h, from, afoot, focus, announcing, axEvents)
                            => Knows(h, from, afoot, focus, announcing', axEvents')
  BY <1>4 DEF Knows
<1>7. \A f : Guided(f) => Guided(f)'
  BY <1>1, <1>2, <1>6 DEF Guided
<1>8. Resting'
  BY <1>1, <1>2, <1>4, <1>5 DEF Resting
<1> QED BY <1>5, <1>7, <1>8

\* A transition is to be published.
LEMMA MovesTracked ==
  ASSUME FocusTyped, Tracked, ~lossy', UNCHANGED <<triggers, lossy, lifecycle, message, step, watched>>,
         unpublished = NoMessage, unpublished' \in Transitions, unpublished'.previous = focus,
         unpublished'.current = focus'
  PROVE  (\E f : Guided(f)') /\ Resting'
<1>1. Woken' = Woken /\ Ended' = Ended
  BY DEF Woken, Ended
<1>2. PICK f : Guided(f)
  BY TrackedIs
<1>3. unpublished' # NoMessage /\ unpublished'.kind = "transition" /\ NoMessage.kind # "transition"
  BY DEF Transitions, NoMessage
<1> DEFINE old == MovesIn(message, triggers, unpublished)
           afoot == MovesIn(message, triggers, unpublished')
<1>4. old \subseteq afoot /\ afoot # {}
  BY <1>3 DEF MovesIn
<1>5. Traced(f, message, triggers, unpublished', focus')
  BY <1>2, <1>3 DEF Guided, Traced
<1> HIDE DEF old, afoot
<1>6. \A h, from : Knows(h, from, old, focus, announcing, axEvents)
                            => Knows(h, from, afoot, focus', announcing', axEvents')
  BY <1>4 DEF Knows
<1>7. Guided(f)'
  BY <1>1, <1>2, <1>5, <1>6 DEF Guided, old, afoot
<1>8. Resting'
  BY <1>4 DEF Resting, afoot
<1> QED BY <1>7, <1>8

LEMMA FocusMovesTracked == FocusTyped /\ Tracked /\ FocusMoves => Tracked'
<1> SUFFICES ASSUME FocusTyped, Tracked, FocusMoves, ~lossy' PROVE (\E f : Guided(f)') /\ Resting'
  BY TrackedIsNext
<1>1. focus \in Focuses /\ focus' \in Focuses /\ FALSE \in BOOLEAN
  BY DEF FocusTyped, FocusMoves, Focuses
<1>2. unpublished' \in Transitions /\ unpublished'.previous = focus /\ unpublished'.current = focus'
  BY <1>1, MovesTyped DEF FocusMoves
<1>3. UNCHANGED <<triggers, lossy, lifecycle, message, step, watched>> /\ unpublished = NoMessage
  BY DEF FocusMoves, worker, scheduled
<1> QED BY <1>2, <1>3, MovesTracked

LEMMA HandleTracked == FocusTyped /\ Tracked /\ HandleWorkspaceEvent => Tracked'
<1> SUFFICES ASSUME FocusTyped, Tracked, HandleWorkspaceEvent, ~lossy'
             PROVE  (\E f : Guided(f)') /\ Resting'
  BY TrackedIsNext
<1>1. UNCHANGED <<triggers, lossy, lifecycle, message, step, watched, announcing>> /\ unpublished = NoMessage
  BY DEF HandleWorkspaceEvent, worker, scheduled
<1>2. CASE unpublished' \in Transitions /\ unpublished'.previous = focus /\ unpublished'.current = focus'
  BY <1>1, <1>2, MovesTracked
<1>3. CASE UNCHANGED <<focus, unpublished>> /\ Head(axEvents).kind = "terminated" /\ Head(axEvents).window # focus
  <2>1. axEvents' = Tail(axEvents) /\ axEvents # <<>> /\ axEvents \in Seq(Tidings)
    BY EventHandled DEF FocusTyped
  <2>2. Unsettled(focus, announcing, axEvents) => Unsettled(focus, announcing, axEvents')
    <3>1. /\ Len(axEvents) \in Nat \ {0} /\ DOMAIN axEvents = 1..Len(axEvents)
          /\ DOMAIN axEvents' = 1..Len(axEvents) - 1
          /\ Head(axEvents) = axEvents[1] /\ \A i \in 1..Len(axEvents) - 1 : axEvents'[i] = axEvents[i + 1]
      BY <2>1
    <3>2. ASSUME NEW i \in DOMAIN axEvents, axEvents[i].kind = "wake" \/
                    (axEvents[i].kind = "terminated" /\ axEvents[i].window = focus)
          PROVE  \E j \in DOMAIN axEvents' : axEvents'[j] = axEvents[i]
      <4>1. i # 1
        BY <1>3, <3>1, <3>2
      <4>2. i - 1 \in 1..Len(axEvents) - 1 /\ (i - 1) + 1 = i
        BY <3>1, <4>1
      <4> QED BY <3>1, <4>2
    <3> QED BY <3>2 DEF Unsettled
  <2>3. Woken' = Woken /\ Ended' = Ended
    BY <1>1 DEF Woken, Ended
  <2>4. \A h, from, afoot : Knows(h, from, afoot, focus, announcing, axEvents)
                              => Knows(h, from, afoot, focus, announcing, axEvents')
    BY <2>2 DEF Knows
  <2>5. \A f : Guided(f) => Guided(f)'
    BY <1>1, <1>3, <2>3, <2>4 DEF Guided
  <2>6. (\E f : Guided(f)) /\ Resting
    BY <1>1, TrackedIs
  <2>7. Resting'
    BY <1>1, <1>3, <2>2, <2>3, <2>6 DEF Resting
  <2> QED BY <2>5, <2>6, <2>7
<1> QED BY <1>2, <1>3, EventHandled

\* Nothing but a message is put into the channel, and it is not lost.
LEMMA QueuedTracked ==
  ASSUME FocusTyped, Tracked, ~lossy', NEW m \in Messages, Offered(m),
         UNCHANGED <<focus, axEvents, announcing, lifecycle, message, step, watched>>,
         \/ m.kind # "transition" /\ UNCHANGED unpublished
         \/ m = unpublished /\ unpublished' = NoMessage /\ m.kind = "transition"
  PROVE  (\E f : Guided(f)') /\ Resting'
<1>1. triggers' = Append(triggers, m) /\ ~lossy
  BY DEF Offered
<1>2. Woken' = Woken /\ Ended' = Ended
  BY DEF Woken, Ended
<1>3. PICK f : Guided(f)
  BY <1>1, TrackedIs
<1>4. Resting
  BY <1>1, TrackedIs
<1>5. triggers \in Seq(Messages) /\ focus \in Focuses
  BY DEF FocusTyped
<1>6. MovesIn(message, triggers', unpublished') = MovesIn(message, triggers, unpublished)
  BY <1>1, <1>5, MovesPublished, MovesBesides
<1> DEFINE last == IF unpublished = NoMessage THEN focus ELSE unpublished.previous
           next == IF unpublished' = NoMessage THEN focus ELSE unpublished'.previous
<1>7. NoMessage.kind # "transition"
  BY DEF NoMessage
<1>8. /\ next \in Focuses
      /\ IF m.kind = "transition" THEN m.previous = last /\ m.current = next ELSE next = last
  BY <1>5, <1>7 DEF FocusTyped, Transitions
<1>9. Trail(f, triggers, last) /\ (message.kind = "transition" => message.current = f[0])
  BY <1>3 DEF Guided, Traced
<1> HIDE DEF last, next
<1> PICK g : g = [i \in 0..Len(Append(triggers, m)) |-> IF i <= Len(triggers) THEN f[i] ELSE next]
  OBVIOUS
<1>10. Trail(g, triggers', next) /\ g[0] = f[0]
  BY <1>1, <1>5, <1>8, <1>9, TrailGrows
<1>11. Traced(g, message, triggers', unpublished', focus)
  BY <1>9, <1>10 DEF Traced, next
<1>12. Begins(g, message) = Begins(f, message)
  BY <1>10 DEF Begins
<1>13. Guided(g)'
  BY <1>2, <1>3, <1>6, <1>11, <1>12 DEF Guided
<1>14. Resting'
  BY <1>2, <1>4, <1>6 DEF Resting
<1> QED BY <1>13, <1>14

LEMMA PublishTracked == FocusTyped /\ Tracked /\ PublishTransition => Tracked'
<1> SUFFICES ASSUME FocusTyped, Tracked, PublishTransition, ~lossy'
             PROVE  (\E f : Guided(f)') /\ Resting'
  BY TrackedIsNext
<1>1. unpublished \in Messages /\ unpublished.kind = "transition"
  BY DEF FocusTyped, PublishTransition, Messages, Transitions
<1>2. /\ UNCHANGED <<focus, axEvents, announcing, lifecycle, message, step, watched>>
      /\ Offered(unpublished) /\ unpublished' = NoMessage
  BY DEF PublishTransition, worker, scheduled
<1> QED BY <1>1, <1>2, QueuedTracked

LEMMA ContentsTracked == FocusTyped /\ Tracked /\ (\E w \in Windows : ContentsChange(w)) => Tracked'
<1> SUFFICES ASSUME FocusTyped, Tracked, NEW w \in Windows, ContentsChange(w), ~lossy'
             PROVE  (\E f : Guided(f)') /\ Resting'
  BY TrackedIsNext
<1>1. UNCHANGED <<focus, unpublished, axEvents, announcing, lifecycle, message, step, watched>>
  BY DEF ContentsChange, worker, scheduled, focusing
<1>2. CASE UNCHANGED <<triggers, lossy>>
  <2>1. Woken' = Woken /\ Ended' = Ended
    BY <1>1 DEF Woken, Ended
  <2>2. \A f : Guided(f) => Guided(f)'
    BY <1>1, <1>2, <2>1 DEF Guided
  <2>3. Resting => Resting'
    BY <1>1, <1>2, <2>1 DEF Resting
  <2> QED BY <1>2, <2>2, <2>3, TrackedIs
<1>3. CASE Offered(InputTo(w))
  BY <1>1, <1>3, InputTyped, QueuedTracked
<1> QED BY <1>2, <1>3 DEF ContentsChange, input

LEMMA PublishHeldTracked == FocusTyped /\ Tracked /\ PublishHeldInput => Tracked'
<1> SUFFICES ASSUME FocusTyped, Tracked, PublishHeldInput, ~lossy'
             PROVE  (\E f : Guided(f)') /\ Resting'
  BY TrackedIsNext
<1>1. UNCHANGED <<focus, unpublished, axEvents, announcing, lifecycle, message, step, watched>>
  BY DEF PublishHeldInput, worker, scheduled, focusing
<1>2. inputHeld \in Windows /\ Offered(InputTo(inputHeld))
  BY DEF FocusTyped, PublishHeldInput, Focuses
<1> QED BY <1>1, <1>2, InputTyped, QueuedTracked

LEMMA ReceiveTracked == FocusTyped /\ Tracked /\ ReceiveTrigger => Tracked'
<1> SUFFICES ASSUME FocusTyped, Tracked, ReceiveTrigger, ~lossy'
             PROVE  (\E f : Guided(f)') /\ Resting'
  BY TrackedIsNext
<1>1. /\ UNCHANGED <<focus, unpublished, axEvents, announcing, lifecycle, lossy, watched>>
      /\ step = "receive" /\ step' = "lifecycle" /\ message = NoMessage
  BY DEF ReceiveTrigger, scheduled, focusing, FocusTyped
<1>2. Woken' = Woken /\ Ended' = Ended
  BY <1>1 DEF Woken, Ended
<1>3. PICK f : Guided(f)
  BY <1>1, TrackedIs
<1>4. Resting'
  BY <1>1 DEF Resting
<1>5. CASE triggers = <<>>
  <2>1. message' = message /\ triggers' = triggers
    BY <1>1, <1>5 DEF ReceiveTrigger
  <2>2. Guided(f)'
    BY <1>1, <1>2, <1>3, <2>1 DEF Guided
  <2> QED BY <1>4, <2>2
<1>6. CASE triggers # <<>>
  <2> DEFINE last == IF unpublished = NoMessage THEN focus ELSE unpublished.previous
  <2>1. message' = Head(triggers) /\ triggers' = Tail(triggers) /\ triggers \in Seq(Messages)
    BY <1>6 DEF ReceiveTrigger, FocusTyped
  <2>2. Trail(f, triggers, last)
    BY <1>3 DEF Guided, Traced
  <2> HIDE DEF last
  <2> PICK g : g = [i \in 0..Len(Tail(triggers)) |-> f[i + 1]]
    OBVIOUS
  <2>3. /\ Trail(g, triggers', last) /\ g[0] = f[1]
        /\ IF message'.kind = "transition"
           THEN message'.previous = f[0] /\ message'.current = f[1] ELSE f[1] = f[0]
    BY <1>6, <2>1, <2>2, TrailTail
  <2>4. MovesIn(message', triggers', unpublished) = MovesIn(message, triggers, unpublished)
    BY <1>1, <1>6, <2>1, MovesReceived
  <2>5. Begins(f, message) = f[0] /\ Begins(g, message') = f[0]
    BY <1>1, <2>3 DEF Begins, NoMessage
  <2>6. Traced(g, message', triggers', unpublished, focus)
    BY <2>3 DEF Traced, last
  <2>7. Guided(g)'
    BY <1>1, <1>2, <1>3, <2>4, <2>5, <2>6 DEF Guided
  <2> QED BY <1>4, <2>7
<1> QED BY <1>5, <1>6

LEMMA ServiceTracked ==
  FocusTyped /\ ScheduleTyped /\ Tracked /\ ServiceLifecycle => Tracked'
<1> SUFFICES ASSUME FocusTyped, ScheduleTyped, Tracked, ServiceLifecycle, ~lossy'
             PROVE  (\E f : Guided(f)') /\ Resting'
  BY TrackedIsNext
<1>1. /\ UNCHANGED <<focus, unpublished, axEvents, announcing, triggers, lossy>>
      /\ step = "lifecycle" /\ step' = "candidates" /\ lifecycle' = <<>> /\ message' = NoMessage
      /\ watched' = Serviced(<<watched, focusOut>>)[1]
  BY DEF ServiceLifecycle, Reschedule, focusing
<1>2. ~Woken' /\ Ended' = {}
  BY <1>1 DEF Woken, Ended
<1> DEFINE h == Heading(watched, Woken, Ended)
           afoot == MovesIn(message, triggers, unpublished)
           later == MovesIn(NoMessage, triggers, unpublished)
           last == IF unpublished = NoMessage THEN focus ELSE unpublished.previous
<1>3. watched'.window = IF message.kind # "transition" THEN h
                        ELSE IF message.current # Nowhere THEN message.current
                        ELSE IF h = message.previous THEN Nowhere ELSE h
  <2>1. Rescheduled(<<watched, focusOut>>)
    BY DEF ScheduleTyped, Rescheduled
  <2>2. message \in Messages \cup {NoMessage}
    BY DEF FocusTyped
  <2> QED BY <1>1, <2>1, <2>2, ServicedTyped
<1>4. Heading(watched', Woken', Ended') = watched'.window
  BY <1>2 DEF Heading
<1>5. PICK f : Guided(f)
  BY <1>1, TrackedIs
<1>6. /\ Trail(f, triggers, last) /\ (message.kind = "transition" => message.current = f[0])
      /\ Knows(h, Begins(f, message), afoot, focus, announcing, axEvents)
  BY <1>1, <1>5 DEF Guided, Traced
<1>7. NoMessage.kind # "transition"
  BY DEF NoMessage
<1>8. Traced(f, NoMessage, triggers, unpublished, focus)
  BY <1>6, <1>7 DEF Traced
<1>9. afoot = IF message.kind = "transition" THEN later \cup {message} ELSE later
  BY <1>7 DEF MovesIn
<1>10. Begins(f, NoMessage) = f[0]
  BY <1>7 DEF Begins
<1>11. later = {} => f[0] = focus
  <2> SUFFICES ASSUME later = {} PROVE f[0] = focus
    OBVIOUS
  <2>1. unpublished = NoMessage
    BY DEF MovesIn, FocusTyped, Transitions
  <2>2. Len(triggers) \in Nat /\ DOMAIN triggers = 1..Len(triggers)
    BY DEF FocusTyped
  <2>3. ASSUME NEW j \in 0 + 1..Len(triggers) PROVE triggers[j].kind # "transition"
    BY <2>2 DEF MovesIn
  <2>4. 0 \in 0..Len(triggers)
    BY <2>2
  <2> QED BY <1>6, <2>1, <2>3, <2>4 DEF Trail
<1> HIDE DEF h, afoot, later, last
<1>12. Knows(watched'.window, f[0], later, focus, announcing, axEvents)
  <2>1. CASE message.kind # "transition"
    BY <1>3, <1>6, <1>9, <2>1 DEF Begins
  <2>2. CASE message.kind = "transition" /\ message.current # Nowhere
    BY <1>3, <1>6, <1>11, <2>2 DEF Knows
  <2>3. CASE message.kind = "transition" /\ message.current = Nowhere
    <3>1. (\E t \in later : t.current # Nowhere) \/ watched'.window = Nowhere
      BY <1>3, <1>6, <1>9, <2>3 DEF Knows, Begins
    <3> QED BY <1>6, <1>11, <2>3, <3>1 DEF Knows
  <2> QED BY <2>1, <2>2, <2>3
<1>13. Guided(f)'
  BY <1>1, <1>4, <1>8, <1>10, <1>12 DEF Guided, later
<1>14. Resting'
  BY <1>1 DEF Resting
<1> QED BY <1>13, <1>14

LEMMA StopTracked == FocusTyped /\ StopCollector => Tracked'
<1> SUFFICES ASSUME FocusTyped, StopCollector
             PROVE  (\E f : Guided(f)') /\ Resting'
  BY TrackedIsNext
<1>1. /\ UNCHANGED <<focus, unpublished>> /\ triggers' = <<>> /\ message' = NoMessage /\ step' = "draining"
  BY DEF StopCollector, focusing
<1> DEFINE last == IF unpublished = NoMessage THEN focus ELSE unpublished.previous
<1>2. last \in Focuses
  BY DEF FocusTyped, Transitions
<1> HIDE DEF last
<1> PICK g : g = [i \in 0..0 |-> last]
  OBVIOUS
<1>3. Trail(g, <<>>, last)
  BY <1>2, TrailEmpty
<1>4. Traced(g, NoMessage, <<>>, unpublished, focus)
  BY <1>3 DEF Traced, NoMessage, last
<1>5. Guided(g)'
  BY <1>1, <1>4 DEF Guided
<1>6. Resting'
  BY <1>1 DEF Resting
<1> QED BY <1>5, <1>6

LEMMA DrainedTracked == FocusTyped /\ Tracked /\ StopDrained => Tracked'
<1> SUFFICES ASSUME FocusTyped, Tracked, StopDrained, ~lossy'
             PROVE  (\E f : Guided(f)') /\ Resting'
  BY TrackedIsNext
<1>1. /\ UNCHANGED <<focus, unpublished, triggers, message, lossy>> /\ step' = "stopped" /\ lifecycle' = <<>>
  BY DEF StopDrained, focusing
<1>2. PICK f : Guided(f)
  BY <1>1, TrackedIs
<1>3. Guided(f)'
  BY <1>1, <1>2 DEF Guided
<1>4. ~Woken' /\ Ended' = {}
  BY <1>1 DEF Woken, Ended
<1>5. Resting'
  BY <1>4 DEF Resting
<1> QED BY <1>3, <1>5

LEMMA StartTracked == FocusTyped /\ Tracked /\ StartCollector => Tracked'
<1> SUFFICES ASSUME FocusTyped, Tracked, StartCollector, ~lossy'
             PROVE  (\E f : Guided(f)') /\ Resting'
  BY TrackedIsNext
<1>1. /\ UNCHANGED <<focus, unpublished, axEvents, announcing, triggers, message, lossy, lifecycle>>
      /\ step = "stopped" /\ step' = "receive" /\ message = NoMessage
      /\ watched' = IF focus = Nowhere THEN NoOne ELSE [NewWatch(focus) EXCEPT !.seeded = TRUE]
  BY DEF StartCollector, focusing, FocusTyped
<1>2. watched'.window = focus
  BY <1>1 DEF NoOne, NewWatch
<1>3. Woken' = Woken /\ Ended' = Ended
  BY <1>1 DEF Woken, Ended
<1>4. PICK f : Guided(f)
  BY <1>1, TrackedIs
<1>5. Resting
  BY <1>1, TrackedIs
<1> DEFINE h == Heading(watched', Woken, Ended)
           afoot == MovesIn(message, triggers, unpublished)
           last == IF unpublished = NoMessage THEN focus ELSE unpublished.previous
<1>6. h = focus \/ (h = Nowhere /\ (Woken \/ focus \in Ended))
  BY <1>2 DEF Heading
<1>7. Trail(f, triggers, last)
  BY <1>4 DEF Guided, Traced
<1>8. Begins(f, message) = f[0]
  BY <1>1 DEF Begins, NoMessage
<1>9. (\E t \in afoot : t.current # Nowhere) \/ focus \in {f[0], Nowhere}
  <2>1. CASE unpublished # NoMessage
    <3>1. unpublished.kind = "transition" /\ unpublished.current = focus
      BY <2>1 DEF FocusTyped, Transitions
    <3>2. unpublished \in afoot
      BY <3>1 DEF MovesIn
    <3> QED BY <3>1, <3>2
  <2>2. CASE unpublished = NoMessage /\ f[0] # focus
    <3>1. Len(triggers) \in Nat /\ DOMAIN triggers = 1..Len(triggers) /\ 0 \in 0..Len(triggers)
      BY DEF FocusTyped
    <3>2. last = focus
      BY <2>2
    <3> HIDE DEF last
    <3>3. PICK j \in 0 + 1..Len(triggers) : triggers[j].kind = "transition" /\ triggers[j].current = focus
      BY <1>7, <2>2, <3>1, <3>2 DEF Trail
    <3>4. triggers[j] \in afoot
      BY <3>1, <3>3 DEF MovesIn
    <3> QED BY <3>3, <3>4
  <2> QED BY <2>1, <2>2
<1>10. afoot = {} /\ (Woken \/ focus \in Ended) => Unsettled(focus, announcing, axEvents)
  BY <1>1, <1>5 DEF Resting
<1> HIDE DEF h, afoot, last
<1>11. Knows(h, f[0], afoot, focus, announcing, axEvents)
  BY <1>6, <1>9, <1>10 DEF Knows
<1>12. Guided(f)'
  BY <1>1, <1>3, <1>4, <1>8, <1>11 DEF Guided, h, afoot
<1>13. Resting'
  BY <1>1 DEF Resting
<1> QED BY <1>12, <1>13

LEMMA TrackedStarts == WorkerInit => Tracked
<1> SUFFICES ASSUME WorkerInit PROVE (\E f : Guided(f)) /\ Resting
  BY TrackedIs
<1>1. /\ focus \in Focuses /\ unpublished = NoMessage /\ triggers = <<>> /\ message = NoMessage
      /\ step = "stopped" /\ lifecycle = <<>>
  BY DEF WorkerInit, Focuses
<1> DEFINE g == [i \in 0..0 |-> focus]
<1>2. Trail(g, <<>>, focus)
  BY <1>1, TrailEmpty
<1> HIDE DEF g
<1>3. Guided(g)
  BY <1>1, <1>2 DEF Guided, Traced, NoMessage
<1>4. Resting
  BY <1>1, NoneUnread DEF Resting
<1> QED BY <1>3, <1>4

-----------------------------------------------------------------------------
Candidates == [window : Windows, trigger : {"focusOut", "settle", "refresh"}, deferred : BOOLEAN]

LEMMA RearmedTyped ==
  ASSUME NEW i \in DOMAIN Refreshes
  PROVE  /\ Atmost(i + 1, Len(Refreshes)) \in DOMAIN Refreshes
         /\ Rearmed(i) = Refreshes[Atmost(i + 1, Len(Refreshes))] /\ Rearmed(i) \in Nat
<1>1. Atmost(i + 1, Len(Refreshes)) \in DOMAIN Refreshes
  BY WorkerSpans DEF Atmost
<1> QED BY <1>1, WorkerSpans DEF Rearmed

LEMMA TakenTyped ==
  ASSUME ScheduleTyped, TakenDue.candidate # NoOne
  PROVE  /\ TakenDue.candidate \in Candidates
         /\ FitsWatch(TakenDue.watched) /\ TakenDue.watched.window = watched.window
         /\ TakenDue.focusOut \in Seq(Departures)
         /\ TakenDue.candidate.trigger # "focusOut" => TakenDue.watched # NoOne
<1>1. CASE focusOut # <<>> /\ Head(focusOut).due = 0
  <2>1. Head(focusOut) \in Departures /\ Tail(focusOut) \in Seq(Departures)
    BY <1>1, OneTaken DEF ScheduleTyped
  <2>2. TakenDue = [candidate |-> Candidate(Head(focusOut).window, "focusOut", Head(focusOut).deferred),
                    watched |-> watched, focusOut |-> Tail(focusOut)]
    BY <1>1 DEF TakenDue
  <2>3. Candidate(Head(focusOut).window, "focusOut", Head(focusOut).deferred) \in Candidates
    BY <2>1 DEF Candidate, Candidates, Departures
  <2>4. Candidate(Head(focusOut).window, "focusOut", Head(focusOut).deferred).trigger = "focusOut"
    BY DEF Candidate
  <2> QED BY <2>1, <2>2, <2>3, <2>4 DEF ScheduleTyped
<1>2. CASE ~(focusOut # <<>> /\ Head(focusOut).due = 0) /\ watched = NoOne
  <2>1. TakenDue = [candidate |-> NoOne]
    BY <1>2 DEF TakenDue
  <2> QED BY <2>1
<1>3. CASE ~(focusOut # <<>> /\ Head(focusOut).due = 0) /\ watched # NoOne
  <2>0. watched \in Watches /\ watched.refresh <= Refreshes[watched.index] /\ focusOut \in Seq(Departures)
    BY <1>3 DEF ScheduleTyped, FitsWatch
  <2>w. \A c : c \in Watches => c # NoOne
    BY WorkerSpans DEF Watches, NoOne
  <2>1. CASE watched.retry # NoMessage /\ watched.retry.due = 0
    <3> DEFINE c == Candidate(watched.window, watched.retry.trigger, TRUE)
               n == [watched EXCEPT !.retry = NoMessage]
    <3>1. TakenDue = [candidate |-> c, watched |-> n, focusOut |-> focusOut]
      BY <1>3, <2>1 DEF TakenDue
    <3>2. c \in Candidates
      BY <2>0, <2>1 DEF Candidate, Candidates, Watches, Retries
    <3>3. n \in Watches /\ n.window = watched.window /\ n.refresh <= Refreshes[n.index]
      BY <2>0 DEF Watches
    <3> HIDE DEF c, n
    <3> QED BY <2>0, <2>w, <3>1, <3>2, <3>3 DEF FitsWatch
  <2>2. CASE ~(watched.retry # NoMessage /\ watched.retry.due = 0) /\ watched.settle = 0
    <3> DEFINE c == Candidate(watched.window, "settle", FALSE)
               n == [watched EXCEPT !.settle = NotDue, !.retry = NoMessage]
    <3>1. TakenDue = [candidate |-> c, watched |-> n, focusOut |-> focusOut]
      BY <1>3, <2>2 DEF TakenDue
    <3>2. c \in Candidates
      BY <2>0 DEF Candidate, Candidates, Watches
    <3>3. NotDue \in NotDue..Quiet
      BY WorkerSpans DEF NotDue
    <3>4. n \in Watches /\ n.window = watched.window /\ n.refresh <= Refreshes[n.index]
      BY <2>0, <3>3 DEF Watches
    <3> HIDE DEF c, n
    <3> QED BY <2>0, <2>w, <3>1, <3>2, <3>4 DEF FitsWatch
  <2>3. CASE /\ ~(watched.retry # NoMessage /\ watched.retry.due = 0) /\ watched.settle # 0
             /\ watched.refresh = 0
    <3> DEFINE c == Candidate(watched.window, "refresh", FALSE)
               n == [watched EXCEPT !.index = Atmost(@ + 1, Len(Refreshes)),
                                    !.refresh = Rearmed(watched.index), !.retry = NoMessage]
    <3>1. TakenDue = [candidate |-> c, watched |-> n, focusOut |-> focusOut]
      BY <1>3, <2>3 DEF TakenDue
    <3>2. c \in Candidates
      BY <2>0 DEF Candidate, Candidates, Watches
    <3>3. watched.index \in DOMAIN Refreshes
      BY <2>0 DEF Watches
    <3>4. /\ Atmost(watched.index + 1, Len(Refreshes)) \in DOMAIN Refreshes
          /\ Rearmed(watched.index) = Refreshes[Atmost(watched.index + 1, Len(Refreshes))]
          /\ Rearmed(watched.index) \in Nat
      BY <3>3, RearmedTyped
    <3>5. n \in Watches /\ n.window = watched.window /\ n.index = Atmost(watched.index + 1, Len(Refreshes))
          /\ n.refresh = Rearmed(watched.index)
      BY <2>0, <3>4 DEF Watches
    <3> HIDE DEF c, n
    <3>6. n.refresh <= Refreshes[n.index]
      BY <3>4, <3>5
    <3> QED BY <2>0, <2>w, <3>1, <3>2, <3>5, <3>6 DEF FitsWatch
  <2>4. CASE /\ ~(watched.retry # NoMessage /\ watched.retry.due = 0) /\ watched.settle # 0
             /\ watched.refresh # 0
    <3>1. TakenDue = [candidate |-> NoOne]
      BY <1>3, <2>4 DEF TakenDue
    <3> QED BY <3>1
  <2> QED BY <2>1, <2>2, <2>3, <2>4
<1> QED BY <1>1, <1>2, <1>3

LEMMA DeferredKeeps ==
  ASSUME ScheduleTyped, globalLeft \in Nat, CandidateDeferred
  PROVE  ScheduleTyped' /\ watched'.window = watched.window
<1> DEFINE d == TakenDue
           c == d.candidate
<1>1. /\ c \in Candidates /\ FitsWatch(d.watched) /\ d.watched.window = watched.window
      /\ d.focusOut \in Seq(Departures) /\ (c.trigger # "focusOut" => d.watched # NoOne)
  BY TakenTyped DEF CandidateDeferred, Looking
<1>2. watched' = Deferred(d, c)[1] /\ focusOut' = Deferred(d, c)[2] /\ ~c.deferred
  BY DEF CandidateDeferred, Reschedule
<1> HIDE DEF d
<1>3. CASE c.trigger = "focusOut"
  <2> DEFINE gone == [window |-> c.window, due |-> globalLeft, deferred |-> TRUE]
  <2>1. gone \in Departures
    BY <1>1 DEF Departures, Candidates
  <2>2. Deferred(d, c) = <<d.watched, WithFocusOut(d.focusOut, gone)>>
    BY <1>3 DEF Deferred
  <2> HIDE DEF gone
  <2>3. WithFocusOut(d.focusOut, gone) \in Seq(Departures)
    BY <1>1, <2>1, WithTyped
  <2> QED BY <1>1, <1>2, <2>2, <2>3 DEF ScheduleTyped
<1>4. CASE c.trigger # "focusOut"
  <2> DEFINE again == [kind |-> "retry", trigger |-> c.trigger, due |-> globalLeft]
             n == [d.watched EXCEPT !.retry = again]
  <2>1. d.watched \in Watches /\ d.watched.refresh <= Refreshes[d.watched.index]
    BY <1>1, <1>4 DEF FitsWatch
  <2>2. again \in Retries
    BY <1>1, <1>4 DEF Retries, Candidates
  <2>3. Deferred(d, c) = <<n, d.focusOut>>
    BY <1>4 DEF Deferred
  <2> HIDE DEF again
  <2>4. n \in Watches /\ n.window = watched.window /\ n.refresh <= Refreshes[n.index]
    BY <1>1, <2>1, <2>2 DEF Watches
  <2> HIDE DEF n
  <2> QED BY <1>1, <1>2, <2>3, <2>4 DEF ScheduleTyped, FitsWatch
<1> QED BY <1>3, <1>4

LEMMA TakenKeeps ==
  ASSUME ScheduleTyped, Looking, Taken
  PROVE  ScheduleTyped' /\ watched'.window = watched.window
<1>1. /\ FitsWatch(TakenDue.watched) /\ TakenDue.watched.window = watched.window
      /\ TakenDue.focusOut \in Seq(Departures)
  BY TakenTyped DEF Looking
<1> QED BY <1>1 DEF Taken, ScheduleTyped

LEMMA ReplaceKeeps ==
  ASSUME ScheduleTyped, ReplaceFilter
  PROVE  ScheduleTyped' /\ watched'.window = watched.window
<1>1. focusOut' = focusOut
  BY DEF ReplaceFilter
<1>2. CASE watched = NoOne
  BY <1>1, <1>2 DEF ReplaceFilter, ScheduleTyped
<1>3. CASE watched # NoOne
  <2> DEFINE n == [watched EXCEPT !.first = 0, !.settle = Quiet, !.index = 1,
                                  !.refresh = Refreshes[1], !.retry = NoMessage]
  <2>1. watched \in Watches
    BY <1>3 DEF ScheduleTyped, FitsWatch
  <2>2. 0 \in 0..MaxSettle /\ Quiet \in NotDue..Quiet /\ 1 \in DOMAIN Refreshes /\ Refreshes[1] \in Nat
    BY WorkerSpans DEF NotDue
  <2>3. n \in Watches /\ n.window = watched.window /\ n.refresh = Refreshes[1] /\ n.index = 1
    BY <2>1, <2>2 DEF Watches
  <2>4. watched' = n
    BY <1>3 DEF ReplaceFilter
  <2> HIDE DEF n
  <2>5. n.refresh <= Refreshes[n.index]
    BY <2>2, <2>3
  <2> QED BY <1>1, <2>3, <2>4, <2>5 DEF ScheduleTyped, FitsWatch
<1> QED BY <1>2, <1>3

LEMMA AgedTyped ==
  ASSUME NEW n \in Nat
  PROVE  Aged(n) \in Nat /\ Aged(n) <= n
BY DEF Aged

LEMMA TickKeeps ==
  ASSUME ScheduleTyped, WorkerTick
  PROVE  ScheduleTyped' /\ watched'.window = watched.window
<1>1. focusOut' \in Seq(Departures)
  <2>1. /\ Len(focusOut) \in Nat /\ DOMAIN focusOut = 1..Len(focusOut)
        /\ \A i \in DOMAIN focusOut : focusOut[i] \in Departures
    BY DEF ScheduleTyped
  <2>2. focusOut' = [i \in 1..Len(focusOut) |-> [focusOut[i] EXCEPT !.due = Aged(@)]]
    BY <2>1 DEF WorkerTick
  <2>3. \A x \in Departures : [x EXCEPT !.due = Aged(@)] \in Departures
    <3> TAKE x \in Departures
    <3>1. x.due \in Nat
      BY DEF Departures
    <3>2. Aged(x.due) \in Nat
      BY <3>1, AgedTyped
    <3> QED BY <3>2 DEF Departures
  <2>4. \A i \in 1..Len(focusOut) : [focusOut[i] EXCEPT !.due = Aged(@)] \in Departures
    BY <2>1, <2>3
  <2> QED BY <2>1, <2>2, <2>4
<1>2. CASE watched = NoOne
  BY <1>1, <1>2 DEF WorkerTick, ScheduleTyped, FitsWatch
<1>3. CASE watched # NoOne
  <2> DEFINE retry == Nearer(watched.retry)
             n == [watched EXCEPT !.first = Atmost(@ + 1, MaxSettle), !.settle = Aged(@),
                                  !.refresh = Aged(@), !.retry = retry]
  <2>1. watched \in Watches /\ watched.refresh <= Refreshes[watched.index]
    BY <1>3 DEF ScheduleTyped, FitsWatch
  <2>2. /\ watched.first \in 0..MaxSettle /\ watched.settle \in NotDue..Quiet
        /\ watched.refresh \in Nat /\ watched.retry \in {NoMessage} \cup Retries
        /\ watched.index \in DOMAIN Refreshes
    BY <2>1 DEF Watches
  <2>3. Atmost(watched.first + 1, MaxSettle) \in 0..MaxSettle /\ Aged(watched.settle) \in NotDue..Quiet
    BY <2>2, WorkerSpans DEF Atmost, Aged, NotDue
  <2>4. Aged(watched.refresh) \in Nat /\ Aged(watched.refresh) <= watched.refresh
    BY <2>2, AgedTyped
  <2>5. retry \in {NoMessage} \cup Retries
    <3>1. CASE watched.retry = NoMessage
      BY <3>1 DEF Nearer
    <3>2. CASE watched.retry # NoMessage
      <4>1. watched.retry \in Retries /\ watched.retry.due \in Nat
        BY <2>2, <3>2 DEF Retries
      <4>2. Aged(watched.retry.due) \in Nat
        BY <4>1, AgedTyped
      <4> QED BY <3>2, <4>1, <4>2 DEF Retries, Nearer
    <3> QED BY <3>1, <3>2
  <2>6. watched' = n
    BY <1>3 DEF WorkerTick
  <2> HIDE DEF retry
  <2>7. /\ n \in Watches /\ n.window = watched.window /\ n.refresh = Aged(watched.refresh)
        /\ n.index = watched.index
    BY <2>1, <2>3, <2>4, <2>5 DEF Watches
  <2> HIDE DEF n
  <2>8. Refreshes[watched.index] \in Nat
    BY <2>2, WorkerSpans
  <2>9. n.refresh <= Refreshes[n.index]
    BY <2>1, <2>2, <2>4, <2>7, <2>8
  <2> QED BY <1>1, <2>6, <2>7, <2>9 DEF ScheduleTyped, FitsWatch
<1> QED BY <1>2, <1>3

LEMMA PonderKeeps ==
  ASSUME ScheduleTyped, globalLeft \in Nat, Ponders
  PROVE  ScheduleTyped' /\ watched'.window = watched.window
<1>1. CASE CandidateDropped \/ ScanFails \/ ScanWithoutEvent \/ ScanAndRecognize \/ ScanAndSend
  BY <1>1, TakenKeeps DEF CandidateDropped, ScanFails, ScanWithoutEvent, ScanAndRecognize, ScanAndSend
<1>2. CASE CandidateDeferred
  BY <1>2, DeferredKeeps
<1>3. CASE FinishWithoutEvent \/ FinishAndSend \/ Recognize \/ LoopAgain
  <2>1. UNCHANGED scheduled
    BY <1>3 DEF FinishWithoutEvent, FinishAndSend, Recognize, LoopAgain
  <2> QED BY <2>1 DEF scheduled, ScheduleTyped
<1>4. CASE ReplaceFilter
  BY <1>4, ReplaceKeeps
<1>5. CASE WorkerTick
  BY <1>5, TickKeeps
<1> QED BY <1>1, <1>2, <1>3, <1>4, <1>5 DEF Ponders, Decide, Save

LEMMA ScheduleStep ==
  ASSUME FocusTyped, ScheduleTyped, globalLeft \in Nat, WorkerNext
  PROVE  ScheduleTyped'
<1>1. CASE Announce \/ AnnounceToAx \/ FocusMoves \/ HandleWorkspaceEvent \/ PublishTransition
           \/ (\E w \in Windows : ContentsChange(w)) \/ PublishHeldInput \/ ReceiveTrigger \/ StopDrained
  <2>1. UNCHANGED <<watched, focusOut>>
    BY <1>1 DEF Announce, AnnounceToAx, FocusMoves, HandleWorkspaceEvent, PublishTransition,
                ContentsChange, PublishHeldInput, ReceiveTrigger, StopDrained, worker, scheduled
  <2> QED BY <2>1 DEF ScheduleTyped
<1>2. CASE ServiceLifecycle
  <2>1. Rescheduled(<<watched, focusOut>>)
    BY DEF ScheduleTyped, Rescheduled
  <2>2. message \in Messages \cup {NoMessage}
    BY DEF FocusTyped
  <2>3. Rescheduled(Serviced(<<watched, focusOut>>))
    BY <2>1, <2>2, ServicedTyped
  <2> QED BY <1>2, <2>3 DEF ServiceLifecycle, Reschedule, Rescheduled, ScheduleTyped
<1>3. CASE StopCollector
  <2>1. <<>> \in Seq(Departures)
    OBVIOUS
  <2> QED BY <1>3, <2>1 DEF StopCollector, ScheduleTyped, FitsWatch
<1>4. CASE StartCollector
  <2>1. focusOut' = focusOut
    BY <1>4 DEF StartCollector
  <2>2. CASE focus = Nowhere
    BY <1>4, <2>1, <2>2 DEF StartCollector, ScheduleTyped, FitsWatch
  <2>3. CASE focus # Nowhere
    <3> DEFINE n == NewWatch(focus)
    <3>1. focus \in Windows
      BY <2>3 DEF FocusTyped, Focuses
    <3>2. n \in Watches /\ FitsWatch(n) /\ n # NoOne
      BY <3>1, NewTyped, WorkerSpans DEF NoOne
    <3>3. watched' = [n EXCEPT !.seeded = TRUE]
      BY <1>4, <2>3 DEF StartCollector
    <3> HIDE DEF n
    <3>4. watched' \in Watches /\ watched'.refresh = n.refresh /\ watched'.index = n.index
      BY <3>2, <3>3 DEF Watches
    <3>5. watched'.refresh <= Refreshes[watched'.index]
      BY <3>2, <3>4 DEF FitsWatch
    <3> QED BY <2>1, <3>4, <3>5 DEF ScheduleTyped, FitsWatch
  <2> QED BY <2>2, <2>3
<1>5. CASE Ponders
  BY <1>5, PonderKeeps
<1> QED BY <1>1, <1>2, <1>3, <1>4, <1>5, WorkerSteps

-----------------------------------------------------------------------------
Memories == [ax : Nat, ocr : Nat, image : Nat, age : Int]
Sent == [ax : Nat, ocr : Nat]
Recognitions == [window : Windows, walked : Nat, stored : Nat,
                 outcome : {"none", "unavailable", "unchanged", "recognized"}, image : Nat]

\* The parts of Remembered.
Memory ==
  /\ saved \in [Windows -> Memories] /\ delivered \in [Windows -> Sent]
  /\ \A w \in Windows : /\ saved[w].ax = delivered[w].ax
                        /\ saved[w].ocr = delivered[w].ocr
                        /\ saved[w].image = saved[w].ocr

Recognition ==
  recognizing # NoOne =>
    /\ recognizing \in Recognitions
    /\ delivered[recognizing.window].ocr \in {recognizing.stored, 0}
    /\ recognizing.outcome = "unchanged" => recognizing.stored = recognizing.image

LEMMA RememberedIs ==
  Remembered <=> /\ shown \in [Windows -> Nat] /\ globalLeft \in 0..SaveInterval
                 /\ Memory /\ Recognition
BY DEF Remembered, Memory, Recognition, Memories, Sent, Recognitions

LEMMA RememberedIsNext ==
  Remembered' <=> /\ shown' \in [Windows -> Nat] /\ globalLeft' \in 0..SaveInterval
                  /\ Memory' /\ Recognition'
BY DEF Remembered, Memory, Recognition, Memories, Sent, Recognitions

LEMMA RecordedAs ==
  ASSUME NEW e \in Memories, NEW contents \in Nat, NEW image \in Nat
  PROVE  /\ Recorded(e, "ax", contents, image)
              = [ax |-> contents, ocr |-> e.ocr, image |-> e.image, age |-> 0]
         /\ Recorded(e, "ocr", contents, image)
              = [ax |-> e.ax, ocr |-> contents, image |-> image, age |-> 0]
<1>1. DOMAIN e = {"ax", "ocr", "image", "age"} /\ e = [i \in DOMAIN e |-> e[i]]
  BY DEF Memories
<1>2. Recorded(e, "ax", contents, image) = [ax |-> contents, ocr |-> e.ocr, image |-> e.image, age |-> 0]
  <2> DEFINE r == Recorded(e, "ax", contents, image)
  <2>1. r = [[[e EXCEPT !["ax"] = contents] EXCEPT !["age"] = 0] EXCEPT !["image"] = e.image]
    BY DEF Recorded
  <2>2. DOMAIN r = {"ax", "ocr", "image", "age"} /\ r = [i \in DOMAIN r |-> r[i]]
    BY <1>1, <2>1
  <2>3. r["ax"] = contents /\ r["ocr"] = e.ocr /\ r["image"] = e.image /\ r["age"] = 0
    BY <1>1, <2>1
  <2> DEFINE k == [ax |-> contents, ocr |-> e.ocr, image |-> e.image, age |-> 0]
  <2>4. /\ DOMAIN k = {"ax", "ocr", "image", "age"} /\ k = [i \in DOMAIN k |-> k[i]]
        /\ k["ax"] = r["ax"] /\ k["ocr"] = r["ocr"] /\ k["image"] = r["image"] /\ k["age"] = r["age"]
    BY <2>3
  <2> HIDE DEF r, k
  <2>5. \A i \in {"ax", "ocr", "image", "age"} : r[i] = k[i]
    BY <2>4
  <2>6. r = k
    BY <2>2, <2>4, <2>5
  <2> QED BY <2>6 DEF r, k
<1>3. Recorded(e, "ocr", contents, image) = [ax |-> e.ax, ocr |-> contents, image |-> image, age |-> 0]
  <2> DEFINE r == Recorded(e, "ocr", contents, image)
  <2>1. r = [[[e EXCEPT !["ocr"] = contents] EXCEPT !["age"] = 0] EXCEPT !["image"] = image]
    BY DEF Recorded
  <2>2. DOMAIN r = {"ax", "ocr", "image", "age"} /\ r = [i \in DOMAIN r |-> r[i]]
    BY <1>1, <2>1
  <2>3. r["ax"] = e.ax /\ r["ocr"] = contents /\ r["image"] = image /\ r["age"] = 0
    BY <1>1, <2>1
  <2> DEFINE k == [ax |-> e.ax, ocr |-> contents, image |-> image, age |-> 0]
  <2>4. /\ DOMAIN k = {"ax", "ocr", "image", "age"} /\ k = [i \in DOMAIN k |-> k[i]]
        /\ k["ax"] = r["ax"] /\ k["ocr"] = r["ocr"] /\ k["image"] = r["image"] /\ k["age"] = r["age"]
    BY <2>3
  <2> HIDE DEF r, k
  <2>5. \A i \in {"ax", "ocr", "image", "age"} : r[i] = k[i]
    BY <2>4
  <2>6. r = k
    BY <2>2, <2>4, <2>5
  <2> QED BY <2>6 DEF r, k
<1> QED BY <1>2, <1>3

LEMMA SendsKeeps ==
  ASSUME Memory, NEW w \in Windows, NEW origin \in {"ax", "ocr"}, NEW contents \in Nat,
         NEW image \in Nat, origin = "ocr" => image = contents, Sends(w, origin, contents, image)
  PROVE  Memory' /\ delivered' # delivered /\ globalLeft' \in 0..SaveInterval
<1> DEFINE e == Recorded(saved[w], origin, contents, image)
           d == [delivered[w] EXCEPT ![origin] = contents]
           s == saved[w]
           t == delivered[w]
<1>1. /\ saved[w][origin] # contents /\ saved' = [saved EXCEPT ![w] = e]
      /\ globalLeft' = SaveInterval /\ delivered' = [delivered EXCEPT ![w] = d]
  BY DEF Sends, MaySave
<1>2. /\ saved[w] \in Memories /\ delivered[w] \in Sent /\ saved[w].ax = delivered[w].ax
      /\ saved[w].ocr = delivered[w].ocr /\ saved[w].image = saved[w].ocr
  BY DEF Memory
<1>3. /\ e \in Memories /\ d \in Sent /\ e.ax = d.ax /\ e.ocr = d.ocr /\ e.image = e.ocr
      /\ d # delivered[w]
  <2>1. CASE origin = "ax"
    <3>1. e = [ax |-> contents, ocr |-> s.ocr, image |-> s.image, age |-> 0]
      <4>1. e = Recorded(s, "ax", contents, image)
        BY <2>1
      <4> QED BY <1>2, <4>1, RecordedAs
    <3>2. d = [ax |-> contents, ocr |-> t.ocr] /\ t.ax # contents
      BY <1>1, <1>2, <2>1 DEF Sent, Memories
    <3>3. s.ax \in Nat /\ s.ocr \in Nat /\ s.image \in Nat /\ t.ax \in Nat /\ t.ocr \in Nat
      BY <1>2 DEF Sent, Memories
    <3> HIDE DEF e, d
    <3> QED BY <1>2, <3>1, <3>2, <3>3 DEF Sent, Memories
  <2>2. CASE origin = "ocr"
    <3>1. e = [ax |-> s.ax, ocr |-> contents, image |-> contents, age |-> 0]
      <4>1. e = Recorded(s, "ocr", contents, contents)
        BY <2>2
      <4> QED BY <1>2, <4>1, RecordedAs
    <3>2. d = [ax |-> t.ax, ocr |-> contents] /\ t.ocr # contents
      BY <1>1, <1>2, <2>2 DEF Sent, Memories
    <3>3. s.ax \in Nat /\ s.ocr \in Nat /\ s.image \in Nat /\ t.ax \in Nat /\ t.ocr \in Nat
      BY <1>2 DEF Sent, Memories
    <3> HIDE DEF e, d
    <3> QED BY <1>2, <3>1, <3>2, <3>3 DEF Sent, Memories
  <2> QED BY <2>1, <2>2
<1> HIDE DEF e, d
<1>4. Memory'
  BY <1>1, <1>3 DEF Memory
<1>5. delivered'[w] = d
  BY <1>1 DEF Memory
<1>6. globalLeft' \in 0..SaveInterval
  BY <1>1, WorkerSpans
<1> QED BY <1>3, <1>4, <1>5, <1>6

LEMMA ServiceRemembers ==
  ASSUME Remembered, ServiceLifecycle
  PROVE  Remembered' /\ globalLeft' = globalLeft /\ recognizing' = recognizing
<1>1. /\ UNCHANGED <<shown, globalLeft, recognizing>>
      /\ saved' = [w \in Windows |-> IF w \in Ended THEN NoSave ELSE saved[w]]
      /\ delivered' = [w \in Windows |-> IF w \in Ended THEN NotSent ELSE delivered[w]]
  BY DEF ServiceLifecycle
<1>2. NoSave \in Memories /\ NotSent \in Sent
  BY WorkerSpans DEF NoSave, NotSent, Memories, Sent
<1>3. Memory'
  BY <1>1, <1>2, RememberedIs DEF Memory, NoSave, NotSent
<1>4. Recognition'
  <2>1. recognizing # NoOne => recognizing.window \in Windows
    BY RememberedIs DEF Recognition, Recognitions
  <2>2. recognizing # NoOne => delivered'[recognizing.window].ocr \in {delivered[recognizing.window].ocr, 0}
    BY <1>1, <2>1 DEF NotSent
  <2> QED BY <1>1, <2>2, RememberedIs DEF Recognition
<1> QED BY <1>1, <1>3, <1>4, RememberedIs, RememberedIsNext

LEMMA AgedFits ==
  ASSUME globalLeft \in 0..SaveInterval
  PROVE  Aged(globalLeft) \in 0..SaveInterval /\ ~(Aged(globalLeft) > globalLeft)
BY WorkerSpans DEF Aged

LEMMA TickRemembers ==
  ASSUME Remembered, WorkerTick
  PROVE  Remembered' /\ ~(globalLeft' > globalLeft) /\ recognizing' = recognizing
<1>1. /\ UNCHANGED <<shown, recognizing, delivered>> /\ globalLeft' = Aged(globalLeft)
      /\ saved' = [w \in Windows |-> [saved[w] EXCEPT !.age = Atmost(@ + 1, FocusOutInterval)]]
  BY DEF WorkerTick
<1>2. ASSUME NEW w \in Windows
      PROVE  /\ saved'[w] \in Memories /\ saved'[w].ax = saved[w].ax /\ saved'[w].ocr = saved[w].ocr
             /\ saved'[w].image = saved[w].image
  <2>1. saved[w] \in Memories /\ saved[w].age \in Int
    BY RememberedIs DEF Memory, Memories
  <2>2. Atmost(saved[w].age + 1, FocusOutInterval) \in Int
    BY <2>1, WorkerSpans DEF Atmost
  <2>3. saved'[w] = [saved[w] EXCEPT !.age = Atmost(@ + 1, FocusOutInterval)]
    BY <1>1
  <2> QED BY <2>1, <2>2, <2>3 DEF Memories
<1>3. Memory'
  <2>1. saved' \in [Windows -> Memories]
    BY <1>1, <1>2
  <2> QED BY <1>1, <1>2, <2>1, RememberedIs DEF Memory
<1>4. Recognition'
  BY <1>1, RememberedIs DEF Recognition
<1>5. globalLeft' \in 0..SaveInterval /\ ~(globalLeft' > globalLeft)
  BY <1>1, AgedFits, RememberedIs
<1> QED BY <1>1, <1>3, <1>4, <1>5, RememberedIs, RememberedIsNext

LEMMA ScanSendRemembers ==
  ASSUME ScheduleTyped, Remembered, ScanAndSend
  PROVE  Remembered' /\ delivered' # delivered /\ recognizing' = NoOne
<1> DEFINE w == TakenDue.candidate.window
<1>1. /\ UNCHANGED <<shown, recognizing>> /\ recognizing = NoOne
      /\ Sends(w, "ax", shown[w], 0) /\ TakenDue.candidate # NoOne
  BY DEF ScanAndSend, LookIdle, Looking
<1>2. w \in Windows /\ shown[w] \in Nat
  BY <1>1, TakenTyped, RememberedIs DEF Candidates
<1> HIDE DEF w
<1>3. Memory' /\ delivered' # delivered /\ globalLeft' \in 0..SaveInterval
  <2>1. Memory /\ "ax" \in {"ax", "ocr"} /\ 0 \in Nat /\ "ax" # "ocr"
    BY RememberedIs
  <2> QED BY <1>1, <1>2, <2>1, SendsKeeps
<1>4. Recognition'
  BY <1>1 DEF Recognition
<1> QED BY <1>1, <1>3, <1>4, RememberedIs, RememberedIsNext

LEMMA FinishSendRemembers ==
  ASSUME Remembered, FinishAndSend
  PROVE  Remembered' /\ delivered' # delivered /\ recognizing' = NoOne
<1>1. shown' = shown /\ recognizing' = NoOne /\ recognizing # NoOne
  BY DEF FinishAndSend, LookIdle, Answered
<1>2. recognizing.window \in Windows /\ recognizing.walked \in Nat /\ recognizing.image \in Nat
  BY <1>1, RememberedIs DEF Recognition, Recognitions
<1>3. Memory' /\ delivered' # delivered /\ globalLeft' \in 0..SaveInterval
  <2>1. Memory /\ "ax" \in {"ax", "ocr"} /\ "ocr" \in {"ax", "ocr"} /\ 0 \in Nat /\ "ax" # "ocr"
    BY RememberedIs
  <2>2. CASE Sends(recognizing.window, "ocr", recognizing.image, recognizing.image)
    BY <1>2, <2>1, <2>2, SendsKeeps
  <2>3. CASE Sends(recognizing.window, "ax", recognizing.walked, 0)
    BY <1>2, <2>1, <2>3, SendsKeeps
  <2> QED BY <2>2, <2>3 DEF FinishAndSend
<1>4. Recognition'
  BY <1>1 DEF Recognition
<1> QED BY <1>1, <1>3, <1>4, RememberedIs, RememberedIsNext

LEMMA ScanRecognizeRemembers ==
  ASSUME ScheduleTyped, Remembered, ScanAndRecognize
  PROVE  Remembered' /\ globalLeft' = globalLeft /\ recognizing = NoOne
<1> DEFINE w == TakenDue.candidate.window
<1>1. /\ UNCHANGED <<shown, saved, globalLeft, delivered>> /\ recognizing = NoOne
      /\ recognizing' = [window |-> w, walked |-> shown[w], stored |-> saved[w].image,
                         outcome |-> "none", image |-> 0]
      /\ TakenDue.candidate # NoOne
  BY DEF ScanAndRecognize, LookIdle, Looking
<1>2. w \in Windows
  BY <1>1, TakenTyped DEF Candidates
<1> HIDE DEF w
<1>3. shown[w] \in Nat /\ saved[w].image \in Nat /\ delivered[w].ocr = saved[w].image
  BY <1>2, RememberedIs DEF Memory, Memories
<1>4. Recognition'
  BY <1>1, <1>2, <1>3 DEF Recognition, Recognitions
<1>5. Memory'
  BY <1>1, RememberedIs DEF Memory
<1> QED BY <1>1, <1>4, <1>5, RememberedIs, RememberedIsNext

LEMMA RecognizeRemembers ==
  ASSUME Remembered, Recognize
  PROVE  /\ Remembered' /\ globalLeft' = globalLeft
         /\ recognizing'.outcome = "unchanged"
              => delivered[recognizing.window].ocr \in {recognizing'.image, 0}
<1> DEFINE image == shown[recognizing.window]
           seen == IF recognizing.stored = image THEN "unchanged" ELSE "recognized"
<1>1. /\ UNCHANGED <<shown, saved, globalLeft, delivered>> /\ recognizing # NoOne
      /\ recognizing' \in {[recognizing EXCEPT !.outcome = "unavailable"],
                           [recognizing EXCEPT !.outcome = seen, !.image = image]}
  BY DEF Recognize, state
<1>2. /\ recognizing \in Recognitions /\ delivered[recognizing.window].ocr \in {recognizing.stored, 0}
      /\ image \in Nat
  BY <1>1, RememberedIs DEF Recognition, Recognitions
<1> HIDE DEF image
<1>3. /\ recognizing' \in Recognitions /\ recognizing'.window = recognizing.window
      /\ recognizing'.stored = recognizing.stored
      /\ recognizing'.outcome = "unchanged" => recognizing'.stored = recognizing'.image
  BY <1>1, <1>2 DEF Recognitions
<1>4. Recognition'
  BY <1>1, <1>2, <1>3 DEF Recognition
<1>5. Memory'
  BY <1>1, RememberedIs DEF Memory
<1> QED BY <1>1, <1>2, <1>3, <1>4, <1>5, RememberedIs, RememberedIsNext

\* Steps that change neither what was saved nor what is recognised.
LEMMA IdleRemembers ==
  ASSUME Remembered, UNCHANGED <<saved, delivered, globalLeft>>, shown' \in [Windows -> Nat],
         recognizing' \in {recognizing, NoOne}
  PROVE  Remembered'
<1>1. Memory'
  BY RememberedIs DEF Memory
<1>2. Recognition'
  BY RememberedIs DEF Recognition
<1> QED BY <1>1, <1>2, RememberedIs, RememberedIsNext

LEMMA Idles ==
  ASSUME Remembered,
         \/ Announce \/ AnnounceToAx \/ FocusMoves \/ HandleWorkspaceEvent \/ PublishTransition
         \/ (\E w \in Windows : ContentsChange(w)) \/ PublishHeldInput \/ ReceiveTrigger
         \/ StopDrained \/ StartCollector \/ StopCollector \/ LoopAgain \/ ReplaceFilter
         \/ CandidateDropped \/ CandidateDeferred \/ ScanFails \/ ScanWithoutEvent
         \/ FinishWithoutEvent
  PROVE  Remembered' /\ globalLeft' = globalLeft /\ recognizing' \in {recognizing, NoOne}
<1>1. CASE \/ Announce \/ AnnounceToAx \/ FocusMoves \/ HandleWorkspaceEvent \/ PublishTransition
           \/ (\E w \in Windows : ContentsChange(w)) \/ PublishHeldInput
  <2>1. UNCHANGED <<saved, delivered, globalLeft, recognizing>>
    BY <1>1 DEF Announce, AnnounceToAx, FocusMoves, HandleWorkspaceEvent, PublishTransition,
                ContentsChange, PublishHeldInput, worker, state
  <2>2. shown' \in [Windows -> Nat]
    <3>1. CASE UNCHANGED shown
      BY <3>1, RememberedIs
    <3>2. CASE \E w \in Windows : shown' = [shown EXCEPT ![w] = @ + 1]
      BY <3>2, RememberedIs
    <3> QED BY <1>1, <3>1, <3>2 DEF Announce, AnnounceToAx, FocusMoves, HandleWorkspaceEvent,
                PublishTransition, ContentsChange, PublishHeldInput
  <2> QED BY <2>1, <2>2, IdleRemembers
<1>2. CASE \/ ReceiveTrigger \/ StopDrained \/ StartCollector \/ StopCollector \/ LoopAgain \/ ReplaceFilter
           \/ CandidateDropped \/ CandidateDeferred \/ ScanFails \/ ScanWithoutEvent
           \/ FinishWithoutEvent
  <2>1. UNCHANGED <<saved, delivered, globalLeft, shown>> /\ recognizing' \in {recognizing, NoOne}
    BY <1>2 DEF ReceiveTrigger, StopDrained, StartCollector, StopCollector, LoopAgain, ReplaceFilter,
                CandidateDropped, CandidateDeferred, ScanFails, ScanWithoutEvent, FinishWithoutEvent,
                LookIdle, state
  <2> QED BY <2>1, IdleRemembers, RememberedIs
<1> QED BY <1>1, <1>2

LEMMA SavesQuietly ==
  ASSUME Remembered, ~(globalLeft' > globalLeft), recognizing' \in {recognizing, NoOne}
  PROVE  SavesWhatChanged
<1>1. recognizing # NoOne /\ recognizing.outcome = "unchanged"
        => delivered[recognizing.window].ocr \in {recognizing.image, 0}
  BY RememberedIs DEF Recognition
<1> QED BY <1>1 DEF SavesWhatChanged

LEMMA RememberStep ==
  ASSUME ScheduleTyped, Remembered, WorkerNext
  PROVE  Remembered' /\ SavesWhatChanged
<1>0. ~(globalLeft > globalLeft)
  BY RememberedIs
<1>1. CASE ServiceLifecycle
  BY <1>0, <1>1, ServiceRemembers, SavesQuietly
<1>2. CASE WorkerTick
  BY <1>2, TickRemembers, SavesQuietly
<1>3. CASE ScanAndSend
  BY <1>3, ScanSendRemembers DEF SavesWhatChanged
<1>4. CASE FinishAndSend
  BY <1>4, FinishSendRemembers DEF SavesWhatChanged
<1>5. CASE ScanAndRecognize
  BY <1>0, <1>5, ScanRecognizeRemembers DEF SavesWhatChanged
<1>6. CASE Recognize
  BY <1>0, <1>6, RecognizeRemembers DEF SavesWhatChanged
<1>7. CASE \/ Announce \/ AnnounceToAx \/ FocusMoves \/ HandleWorkspaceEvent \/ PublishTransition
           \/ (\E w \in Windows : ContentsChange(w)) \/ PublishHeldInput \/ ReceiveTrigger
           \/ StopDrained \/ StartCollector \/ StopCollector \/ LoopAgain \/ ReplaceFilter
           \/ CandidateDropped \/ CandidateDeferred \/ ScanFails \/ ScanWithoutEvent
           \/ FinishWithoutEvent
  BY <1>0, <1>7, Idles, SavesQuietly
<1> QED BY <1>1, <1>2, <1>3, <1>4, <1>5, <1>6, <1>7 DEF WorkerNext, Loop, Save, Decide

-----------------------------------------------------------------------------
Backoffs == [left : 0..BackoffMax, span : Nat]

LEMMA DoubledTyped ==
  ASSUME NEW span \in Nat
  PROVE  Doubled(span) \in 0..BackoffMax /\ Doubled(span) \in Nat
BY WorkerSpans DEF Doubled, Atmost

LEMMA FailedTyped ==
  ASSUME NEW b \in Backoffs, NEW timedOut \in BOOLEAN
  PROVE  FailedOnce(b, timedOut) \in Backoffs
<1>1. b.span \in Nat /\ 0 \in Nat
  BY DEF Backoffs
<1>2. Doubled(b.span) \in 0..BackoffMax /\ Doubled(b.span) \in Nat /\ Doubled(0) \in 0..BackoffMax
  BY <1>1, DoubledTyped
<1> QED BY <1>2 DEF FailedOnce, Backoffs

LEMMA PacedStep ==
  ASSUME Paced, WorkerNext
  PROVE  Paced'
<1>0. NoBackoff \in Backoffs /\ backoffs \in [Windows -> Backoffs]
  BY WorkerSpans DEF NoBackoff, Backoffs, Paced
<1>1. CASE UNCHANGED backoffs
  BY <1>1 DEF Paced
<1>2. CASE \E w : backoffs' = Cleared(w)
  BY <1>0, <1>2 DEF Paced, Backoffs, Cleared
<1>3. CASE ServiceLifecycle
  <2>1. backoffs' = [w \in Windows |-> IF w \in Ended THEN NoBackoff ELSE backoffs[w]]
    BY <1>3 DEF ServiceLifecycle
  <2>2. backoffs' \in [Windows -> Backoffs]
    BY <1>0, <2>1
  <2> QED BY <2>2 DEF Paced, Backoffs
<1>4. CASE ScanFails
  <2>1. PICK timedOut \in BOOLEAN :
          backoffs' = [backoffs EXCEPT ![TakenDue.candidate.window] = FailedOnce(@, timedOut)]
    BY <1>4 DEF ScanFails
  <2>2. \A b \in Backoffs : FailedOnce(b, timedOut) \in Backoffs
    BY FailedTyped
  <2>3. backoffs' \in [Windows -> Backoffs]
    BY <1>0, <2>1, <2>2
  <2> QED BY <2>3 DEF Paced, Backoffs
<1>5. CASE WorkerTick
  <2>1. backoffs' = [w \in Windows |-> [backoffs[w] EXCEPT !.left = Aged(@)]]
    BY <1>5 DEF WorkerTick
  <2>2. \A b \in Backoffs : [b EXCEPT !.left = Aged(@)] \in Backoffs
    <3> TAKE b \in Backoffs
    <3>1. b.left \in 0..BackoffMax
      BY DEF Backoffs
    <3>2. Aged(b.left) \in 0..BackoffMax
      BY <3>1, WorkerSpans DEF Aged
    <3> QED BY <3>2 DEF Backoffs
  <2>3. backoffs' \in [Windows -> Backoffs]
    BY <1>0, <2>1, <2>2
  <2> QED BY <2>3 DEF Paced, Backoffs
<1>6. CASE ReplaceFilter
  BY <1>1, <1>2, <1>6 DEF ReplaceFilter, Cleared
<1>7. CASE ScanWithoutEvent \/ ScanAndRecognize \/ Save
  BY <1>2, <1>7 DEF ScanWithoutEvent, ScanAndRecognize, Save, ScanAndSend, FinishAndSend, Sends
<1>8. CASE \/ Announce \/ AnnounceToAx \/ FocusMoves \/ HandleWorkspaceEvent \/ PublishTransition
           \/ (\E w \in Windows : ContentsChange(w)) \/ PublishHeldInput \/ ReceiveTrigger
           \/ StopDrained \/ StartCollector \/ StopCollector \/ LoopAgain \/ Recognize
           \/ CandidateDropped \/ CandidateDeferred \/ FinishWithoutEvent
  <2>1. UNCHANGED backoffs
    BY <1>8 DEF Announce, AnnounceToAx, FocusMoves, HandleWorkspaceEvent, PublishTransition,
                ContentsChange, PublishHeldInput, ReceiveTrigger, StopDrained, StartCollector,
                StopCollector, LoopAgain, Recognize, CandidateDropped, CandidateDeferred,
                FinishWithoutEvent, LookIdle, state, worker
  <2> QED BY <1>1, <2>1
<1> QED BY <1>3, <1>4, <1>5, <1>6, <1>7, <1>8 DEF WorkerNext, Loop, Save, Decide

-----------------------------------------------------------------------------
LEMMA TrackedStep ==
  ASSUME FocusTyped, ScheduleTyped, Tracked, globalLeft \in Nat, WorkerNext
  PROVE  Tracked'
<1>1. CASE Announce \/ AnnounceToAx \/ FocusMoves \/ HandleWorkspaceEvent \/ PublishTransition
  BY <1>1, AnnounceTracked, AnnounceToAxTracked, FocusMovesTracked, HandleTracked, PublishTracked
<1>2. CASE (\E w \in Windows : ContentsChange(w)) \/ PublishHeldInput
  BY <1>2, ContentsTracked, PublishHeldTracked
<1>3. CASE ReceiveTrigger \/ ServiceLifecycle \/ StopCollector \/ StopDrained \/ StartCollector
  BY <1>3, ReceiveTracked, ServiceTracked, StopTracked, DrainedTracked, StartTracked
<1>4. CASE Ponders
  BY <1>4, PonderKeeps, PonderTracked
<1> QED BY <1>1, <1>2, <1>3, <1>4, WorkerSteps

LEMMA WorkerStarts == WorkerInit => WorkerHolds
<1> SUFFICES ASSUME WorkerInit PROVE WorkerHolds
  OBVIOUS
<1>1. ScheduleTyped
  <2>1. <<>> \in Seq(Departures)
    OBVIOUS
  <2> QED BY <2>1 DEF WorkerInit, ScheduleTyped, FitsWatch
<1>2. Remembered
  <2>1. NoSave \in Memories /\ NotSent \in Sent /\ NoSave.ax = NotSent.ax /\ NoSave.ocr = NotSent.ocr
        /\ NoSave.image = NoSave.ocr
    BY WorkerSpans DEF NoSave, NotSent, Memories, Sent
  <2>2. saved = [w \in Windows |-> NoSave] /\ delivered = [w \in Windows |-> NotSent]
        /\ shown = [w \in Windows |-> 1] /\ globalLeft = 0 /\ recognizing = NoOne
    BY DEF WorkerInit
  <2>3. Memory
    BY <2>1, <2>2 DEF Memory
  <2>4. 0 \in 0..SaveInterval /\ shown \in [Windows -> Nat]
    BY <2>2, WorkerSpans
  <2> QED BY <2>2, <2>3, <2>4, RememberedIs DEF Recognition
<1>3. Paced
  <2>1. NoBackoff \in Backoffs
    BY WorkerSpans DEF NoBackoff, Backoffs
  <2> QED BY <2>1 DEF WorkerInit, Paced, Backoffs
<1> QED BY <1>1, <1>2, <1>3, FocusStarts, TrackedStarts DEF WorkerHolds

LEMMA WorkerStep == WorkerHolds /\ WorkerNext => WorkerHolds' /\ SavesWhatChanged
<1> SUFFICES ASSUME WorkerHolds, WorkerNext PROVE WorkerHolds' /\ SavesWhatChanged
  OBVIOUS
<1>1. FocusTyped /\ ScheduleTyped /\ Remembered /\ Paced /\ Tracked
  BY DEF WorkerHolds
<1>2. globalLeft \in Nat
  BY <1>1, RememberedIs, WorkerSpans
<1> QED BY <1>1, <1>2, FocusStep, ScheduleStep, RememberStep, PacedStep, TrackedStep DEF WorkerHolds

LEMMA WorkerStutters == WorkerHolds /\ UNCHANGED workerVars => WorkerHolds' /\ SavesWhatChanged
<1> SUFFICES ASSUME WorkerHolds, UNCHANGED workerVars PROVE WorkerHolds' /\ SavesWhatChanged
  OBVIOUS
<1>1. UNCHANGED <<focus, unpublished, axEvents, announcing, triggers, lossy, lifecycle, inputSent,
                  inputHeld, step, message, watched, focusOut, saved, globalLeft, backoffs,
                  recognizing, shown, delivered>>
  BY DEF workerVars, focusing, input, worker, scheduled, state
<1>2. FocusTyped /\ ScheduleTyped /\ Remembered /\ Paced /\ Tracked
  BY DEF WorkerHolds
<1>3. FocusTyped'
  BY <1>1, <1>2 DEF FocusTyped
<1>4. ScheduleTyped' /\ Paced'
  BY <1>1, <1>2 DEF ScheduleTyped, Paced
<1>5. Remembered' /\ SavesWhatChanged
  <2>1. ~(globalLeft' > globalLeft) /\ shown' \in [Windows -> Nat]
    BY <1>1, <1>2, RememberedIs
  <2> QED BY <1>1, <1>2, <2>1, IdleRemembers, SavesQuietly
<1>6. Tracked'
  <2>1. Woken' = Woken /\ Ended' = Ended
    BY <1>1 DEF Woken, Ended
  <2>2. \A f : Guided(f) => Guided(f)'
    BY <1>1, <2>1 DEF Guided
  <2>3. Resting => Resting'
    BY <1>1, <2>1 DEF Resting
  <2> QED BY <1>1, <1>2, <2>2, <2>3, TrackedIs, TrackedIsNext
<1> QED BY <1>3, <1>4, <1>5, <1>6 DEF WorkerHolds

LEMMA WorkerSafe == WorkerHolds => WorkerTypeOK /\ TracksFocus
<1> SUFFICES ASSUME WorkerHolds PROVE WorkerTypeOK /\ TracksFocus
  OBVIOUS
<1>1. FocusTyped /\ ScheduleTyped /\ Remembered /\ Paced /\ Tracked
  BY DEF WorkerHolds
<1>2. WorkerTypeOK
  <2>1. watched = NoOne \/
         /\ watched.window \in Windows
         /\ watched.settle \in NotDue..Quiet /\ watched.first \in 0..MaxSettle
         /\ watched.index \in DOMAIN Refreshes
         /\ watched.refresh \in 0..Refreshes[watched.index]
    <3> SUFFICES ASSUME watched # NoOne
                 PROVE  /\ watched.window \in Windows
                        /\ watched.settle \in NotDue..Quiet /\ watched.first \in 0..MaxSettle
                        /\ watched.index \in DOMAIN Refreshes
                        /\ watched.refresh \in 0..Refreshes[watched.index]
      OBVIOUS
    <3>1. watched \in Watches /\ watched.refresh <= Refreshes[watched.index]
      BY <1>1 DEF ScheduleTyped, FitsWatch
    <3>2. watched.index \in DOMAIN Refreshes /\ watched.refresh \in Nat
      BY <3>1 DEF Watches
    <3>3. Refreshes[watched.index] \in Nat
      BY <3>2, WorkerSpans
    <3>4. watched.refresh \in 0..Refreshes[watched.index]
      BY <3>1, <3>2, <3>3
    <3> QED BY <3>1, <3>4 DEF Watches
  <2>2. globalLeft \in 0..SaveInterval
    BY <1>1, RememberedIs
  <2>3. \A w \in Windows : backoffs[w].left \in 0..BackoffMax
    BY <1>1 DEF Paced
  <2> QED BY <1>1, <2>1, <2>2, <2>3 DEF WorkerTypeOK, FocusTyped, Focuses
<1>3. TracksFocus
  <2> SUFFICES ASSUME Calm, ~lossy PROVE watched.window = focus
    BY DEF TracksFocus
  <2>1. PICK f : Guided(f)
    BY <1>1, TrackedIs
  <2>2. ~Woken /\ Ended = {}
    BY NoneUnread DEF Calm
  <2>3. Heading(watched, Woken, Ended) = watched.window
    BY <2>2 DEF Heading
  <2>4. MovesIn(message, triggers, unpublished) = {}
    BY DEF Calm, MovesIn, NoMessage
  <2>5. ~Unsettled(focus, announcing, axEvents)
    BY DEF Calm, Unsettled, NoMessage
  <2> QED BY <2>1, <2>3, <2>4, <2>5 DEF Guided, Knows, Calm
<1> QED BY <1>2, <1>3

-----------------------------------------------------------------------------

LEMMA WalkStutters == WalkHolds /\ UNCHANGED walkVars => WalkHolds'
<1> SUFFICES ASSUME WalkHolds, UNCHANGED walkVars PROVE WalkHolds'
  OBVIOUS
<1>1. UNCHANGED <<phase, windows, candidates, listed, onScreen, chosen, work, visited, kids, told,
                  owing, inputs, masks, blanks, text, unread, degradedNodes, gaps, cutoff>>
  BY DEF walkVars, choice, found
<1> QED
  BY <1>1 DEF WalkHolds, Staged, Tree, TreeTyped, Tallied, Owed

\* A walk of a window's accessibility tree that ends without a gap has visited all it was told
\* of and masked every input field; its text is in reading order; and two windows with different
\* frames are never taken for each other (content_snapshot/walker.rs, ffi/window_list.rs). Over
\* wakes, ends of applications and restarts, the snapshot worker watches the window in front
\* once nothing is under way, unless a full channel lost a trigger; two events in a row from one
\* window and origin differ, and a picture is passed over only when its text was sent
\* (content_snapshot/worker.rs, trigger.rs, state.rs).
THEOREM SnapshotsAreSound == CaptureSpec => SnapshotsSound
<1> DEFINE Walk == part = "walk" => WalkHolds
           Worker == part = "worker" => WorkerHolds
           Saved == part = "worker" => SavesWhatChanged
<1>1. CaptureInit => Walk /\ Worker
  BY WalkStarts, WorkerStarts DEF CaptureInit
<1>2. Walk /\ Worker /\ [CaptureNext]_captureVars => (Walk /\ Worker)' /\ Saved
  <2>1. ASSUME Walk, Worker, CaptureNext PROVE (Walk /\ Worker)' /\ Saved
    <3>1. part' = part /\ (part = "walk" => WalkNext) /\ (part = "worker" => WorkerNext)
      BY <2>1 DEF CaptureNext
    <3> QED BY <2>1, <3>1, WalkStaysSound, WorkerStep
  <2>2. ASSUME Walk, Worker, UNCHANGED captureVars PROVE (Walk /\ Worker)' /\ Saved
    <3>1. part' = part /\ UNCHANGED walkVars /\ UNCHANGED workerVars
      BY <2>2 DEF captureVars
    <3> QED BY <2>2, <3>1, WalkStutters, WorkerStutters
  <2> QED BY <2>1, <2>2
<1>3. Walk => (part = "walk" => WalkTypeOK /\ WalkSound)
  BY WalkHeld
<1>4. Worker => (part = "worker" => WorkerTypeOK /\ TracksFocus)
  BY WorkerSafe
<1>5. Walk /\ Worker /\ [CaptureNext]_captureVars => [part = "worker" => SavesWhatChanged]_captureVars
  BY <1>2
<1> HIDE DEF Walk, Worker
<1> QED BY <1>1, <1>2, <1>3, <1>4, <1>5, PTL DEF CaptureSpec, SnapshotsSound
=============================================================================
