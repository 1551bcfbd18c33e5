----------------------------- MODULE FieldPulls -----------------------------
(***************************************************************************)
(* How the observer of one application follows its focused field.          *)
(*                                                                         *)
(* A field is found when the application posts a focus notification, when  *)
(* the application is activated, and - for applications that post nothing  *)
(* - by reading the focused element shortly after user input               *)
(* (ffi/ax/runtime/input_pull.rs, observer/focus_pull.rs).  The observer   *)
(* registers for the value notifications of a text field before it gives   *)
(* up the ones of the field before (observer.rs, observer/                 *)
(* value_registration.rs); a registration that could not be taken back     *)
(* stays behind as stale.  Time is counted in passes of the accessibility  *)
(* loop, which never sleeps longer than one.  What the value reads do is   *)
(* in TypedText.                                                           *)
(***************************************************************************)
EXTENDS Integers, Sequences

CONSTANTS
  Fields, NoField,  \* the elements that can have the focus; none of them
  Hush,             \* PULL_QUIET
  Hold,             \* PULL_MAX_HOLD
  SettleSpan,       \* SUBMIT_SETTLE
  PostLimit,        \* CALLBACK_QUEUE_CAPACITY of ffi/ax/runtime.rs
  MaxShifts,        \* bound on focus and class changes
  MaxFailures       \* bound on failed accessibility calls

ASSUME PullsAssumption ==
  /\ NoField \notin Fields /\ Hush \in Nat \ {0} /\ Hold >= Hush
  /\ {Hold, SettleSpan, PostLimit} \subseteq Nat \ {0}
  /\ {MaxShifts, MaxFailures} \subseteq Nat

VARIABLES
  focusNow, fieldClass,  \* the application: its focused element; what each element is
  registered,            \* the elements whose notifications it sends
  posted,                \* notifications not yet taken
  held, heldClass,       \* FocusedTarget.current and the class it was given
  registry,              \* NotificationRegistry
  announcement,          \* FocusPullState.announcement
  burst, submitDue, settleIn,  \* PidPulls
  unreadKeys,                \* history: age of the oldest input nothing was read after
  announced,             \* history: the held field was reported as ui.focus
  sampledKeys,               \* history: how often pulls reported it
  looked,                \* history: a pull has seen it
  shifts, failures       \* what is spent of the bounds

pullVars == <<burst, submitDue, settleIn, unreadKeys>>
fieldVars == <<held, heldClass, registry, registered, announcement, announced, sampledKeys, looked>>
programVars == <<focusNow, fieldClass, posted>>
pullsVars == <<programVars, fieldVars, pullVars, shifts, failures>>

Idle == [first |-> -1, last |-> -1]
Never == -1
Fails == failures < MaxFailures /\ failures' = failures + 1
Works == UNCHANGED failures

-----------------------------------------------------------------------------
(* The application. *)

Post(kind, field) ==
  posted' = IF Len(posted) < PostLimit THEN Append(posted, [kind |-> kind, field |-> field])
            ELSE posted

ProgramFocuses ==
  /\ shifts < MaxShifts /\ shifts' = shifts + 1
  /\ \E field \in (Fields \cup {NoField}) \ {focusNow} :
       focusNow' = field /\ (Post("focus", field) \/ UNCHANGED posted)
  /\ UNCHANGED <<fieldClass, fieldVars, pullVars, failures>>

ProgramReclassifies ==
  /\ shifts < MaxShifts /\ shifts' = shifts + 1
  /\ \E field \in Fields :
       fieldClass' = [fieldClass EXCEPT ![field] = IF @ = "text" THEN "other" ELSE "text"]
  /\ UNCHANGED <<focusNow, posted, fieldVars, pullVars, failures>>

ProgramChangesValue ==
  /\ focusNow \in registered
  /\ posted = <<>> /\ Post("value", focusNow)
  /\ UNCHANGED <<focusNow, fieldClass, fieldVars, pullVars, shifts, failures>>

-----------------------------------------------------------------------------
(* Registrations: each call may fail, and a removal that failed may or may not *)
(* have taken effect.                                                          *)

\* NotificationRegistry::register after add_notification succeeded or found the
\* notification registered already.
Registering(regs, field) == [regs EXCEPT ![field] = "active"]

\* remove_focused_target: the registration of a field that is given up.
GivenUp(regs, sent, field, works) ==
  IF field = NoField THEN [regs |-> regs, sent |-> {sent}]
  ELSE IF regs[field] = "none" THEN [regs |-> regs, sent |-> {sent}]
  ELSE IF works THEN [regs |-> [regs EXCEPT ![field] = "none"], sent |-> {sent \ {field}}]
  ELSE [regs |-> [regs EXCEPT ![field] = "stale"], sent |-> {sent, sent \ {field}}]

NewlyHeld(field, class, how) ==
  /\ held' = field /\ heldClass' = class
  /\ announcement' = how /\ announced' = (how # "internal")
  /\ sampledKeys' = (IF how = "sampled" THEN 1 ELSE 0) /\ looked' = (how = "sampled")

\* clear_focused_target, after a read that failed.
Clear ==
  /\ \E works \in BOOLEAN :
       LET after == GivenUp(registry, registered, held, works)
       IN registry' = after.regs /\ registered' \in after.sent
  /\ NewlyHeld(NoField, "other", "internal")

\* An observer that gives up the old field's registration by position: it takes
\* back the one it has just made.
InstallThenForget(how) ==
  LET class == IF focusNow = NoField THEN "other" ELSE fieldClass[focusNow]
      sent == IF class = "text" THEN registered \cup {focusNow} ELSE registered
  IN /\ registry' = [field \in Fields |-> "none"] /\ registered' = sent
     /\ NewlyHeld(focusNow, class, how)

\* install_focused_target: the new field is prepared, registered when it is text,
\* before the old one is given up. What is called there to take a stale
\* registration back is `|| Ok(())`: that alone cannot fail.
Install(how) ==
  LET class == IF focusNow = NoField THEN "other" ELSE fieldClass[focusNow]
      regs == IF focusNow = NoField THEN registry
              ELSE IF class = "text" THEN Registering(registry, focusNow)
              ELSE [registry EXCEPT ![focusNow] = "none"]
      sent == IF class = "text" THEN registered \cup {focusNow} ELSE registered
  IN /\ \E works \in BOOLEAN :
          LET after == GivenUp(regs, sent, held, works)
          IN registry' = after.regs /\ registered' \in after.sent
     /\ NewlyHeld(focusNow, class, how)

\* refresh_current_field_class, reconcile_current_value_notification: the held
\* field's class is read again and its registration follows.
Refresh ==
  IF held = NoField THEN UNCHANGED <<heldClass, registry, registered, failures>>
  ELSE \/ /\ fieldClass[held] = "text"
          /\ \/ /\ Works /\ heldClass' = "text"
                /\ registry' = Registering(registry, held)
                /\ registered' = IF registry[held] = "active" THEN registered
                                 ELSE registered \cup {held}
             \/ /\ registry[held] # "active" /\ Fails
                /\ UNCHANGED <<heldClass, registry, registered>>
       \/ /\ fieldClass[held] = "other" /\ heldClass' = "other"
          /\ \E works \in BOOLEAN :
               /\ IF works THEN Works ELSE Fails
               /\ LET after == GivenUp(registry, registered, held, works)
                  IN registry' = after.regs /\ registered' \in after.sent

-----------------------------------------------------------------------------
(* The accessibility loop. *)

\* FocusPullState::observed.
ObservedField(byNotification) ==
  LET changed == heldClass' # heldClass
      public == byNotification /\ (announcement # "sampled" \/ changed)
  IN /\ announcement' = IF byNotification THEN "native" ELSE announcement
     /\ announced' = (announced \/ (public /\ held # NoField))
     /\ UNCHANGED <<held, sampledKeys, looked>>

\* focused_element_or_clear.
ReadFocus(byNotification) ==
  \/ Fails /\ Clear
  \/ /\ focusNow # held /\ Works
     /\ Install(IF byNotification THEN "native" ELSE "internal")
  \/ /\ focusNow # held /\ focusNow # NoField
     /\ fieldClass[focusNow] = "text" /\ Fails /\ Clear   \* the registration failed
  \/ focusNow = held /\ Refresh /\ ObservedField(byNotification)

\* One notification per pass; a value is heard only from the held field while
\* its registration is active.
TakePosted ==
  /\ posted # <<>> /\ posted' = Tail(posted)
  /\ LET note == Head(posted) IN
       \/ note.kind = "focus" /\ ReadFocus(TRUE)
       \/ /\ note.kind = "value"
          /\ IF note.field = held /\ registry[held] = "active"
             THEN Refresh /\ UNCHANGED <<held, announcement, announced, sampledKeys, looked>>
             ELSE UNCHANGED <<fieldVars, failures>>
  /\ UNCHANGED <<focusNow, fieldClass, pullVars, shifts>>

\* The application is activated again: attach reads the focus and reports nothing.
Reactivated ==
  /\ posted = <<>> /\ shifts < MaxShifts /\ shifts' = shifts + 1
  /\ ReadFocus(FALSE)
  /\ UNCHANGED <<programVars, pullVars>>

\* A scheduler that counts the hold from the latest input.
ArmSliding(age) == burst' = [first |-> age, last |-> age]

\* PullScheduler::arm, for an input that happened `age` passes ago.
Arm(age) ==
  burst' = IF burst = Idle THEN [first |-> age, last |-> age]
           ELSE [first |-> IF age > burst.first THEN age ELSE burst.first,
                 last |-> IF age < burst.last THEN age ELSE burst.last]

InputArrives(age) ==
  /\ Arm(age)
  /\ unreadKeys' = IF age > unreadKeys THEN age ELSE unreadKeys
  /\ UNCHANGED <<submitDue, settleIn, programVars, fieldVars, shifts, failures>>

SubmitArrives ==
  /\ burst' = Idle /\ submitDue' = TRUE /\ settleIn' = SettleSpan
  /\ unreadKeys' = IF unreadKeys = Never THEN 0 ELSE unreadKeys
  /\ UNCHANGED <<programVars, fieldVars, shifts, failures>>

BurstDue == burst # Idle /\ (burst.last >= Hush \/ burst.first >= Hold)
PullDue == submitDue \/ settleIn = 0 \/ BurstDue

\* FocusPullState::pulled and the rest of pull_focused_field_with.
Pulled ==
  LET changed == heldClass' # heldClass
      announce == held # NoField /\ announcement = "internal"
  IN /\ announcement' = IF announce THEN "sampled" ELSE announcement
     /\ announced' = (announced \/ announce \/ (changed /\ held # NoField))
     /\ sampledKeys' = IF announce THEN sampledKeys + 1 ELSE sampledKeys
     /\ looked' = TRUE
     /\ UNCHANGED held

RunPull ==
  /\ PullDue
  /\ submitDue' = FALSE
  /\ settleIn' = IF settleIn = 0 THEN Never ELSE settleIn
  /\ burst' = IF BurstDue THEN Idle ELSE burst
  /\ unreadKeys' = IF burst = Idle \/ BurstDue THEN Never ELSE burst.first
  /\ \/ Fails /\ UNCHANGED fieldVars
     \/ focusNow # held /\ Works /\ Install("sampled")
     \/ focusNow # held /\ focusNow # NoField /\ fieldClass[focusNow] = "text" /\ Fails /\ Clear
     \/ /\ focusNow = held
        /\ Refresh \/ UNCHANGED <<heldClass, registry, registered, failures>>
        /\ Pulled
  /\ UNCHANGED <<programVars, shifts>>

\* The loop comes round at least once per pass, so what is due is read first.
Pass ==
  /\ ~PullDue /\ posted = <<>>
  /\ (burst # Idle \/ settleIn > 0)
  /\ burst' = IF burst = Idle THEN burst
              ELSE [first |-> burst.first + 1, last |-> burst.last + 1]
  /\ settleIn' = IF settleIn > 0 THEN settleIn - 1 ELSE settleIn
  /\ unreadKeys' = IF unreadKeys = Never THEN unreadKeys ELSE unreadKeys + 1
  /\ UNCHANGED <<submitDue, programVars, fieldVars, shifts, failures>>

-----------------------------------------------------------------------------
PullsInit ==
  /\ focusNow \in Fields \cup {NoField} /\ fieldClass \in [Fields -> {"text", "other"}]
  /\ registered = {} /\ posted = <<>>
  /\ held = NoField /\ heldClass = "other" /\ registry = [field \in Fields |-> "none"]
  /\ announcement = "internal" /\ announced = FALSE /\ sampledKeys = 0 /\ looked = FALSE
  /\ burst = Idle /\ submitDue = FALSE /\ settleIn = Never /\ unreadKeys = Never
  /\ shifts = 0 /\ failures = 0

PullsNext ==
  \/ ProgramFocuses \/ ProgramReclassifies \/ ProgramChangesValue
  \/ TakePosted \/ Reactivated
  \/ \E age \in 0..1 : InputArrives(age)
  \/ SubmitArrives \/ RunPull \/ Pass

PullsSpec == PullsInit /\ [][PullsNext]_pullsVars

-----------------------------------------------------------------------------
PullsTypeOK ==
  /\ {focusNow, held} \subseteq Fields \cup {NoField}
  /\ fieldClass \in [Fields -> {"text", "other"}] /\ heldClass \in {"text", "other"}
  /\ registered \subseteq Fields /\ registry \in [Fields -> {"none", "active", "stale"}]
  /\ announcement \in {"internal", "native", "sampled"}
  /\ Len(posted) <= PostLimit
  /\ burst = Idle \/ burst \in [first : 0..Hold, last : 0..Hold]
  /\ settleIn \in Never..SettleSpan /\ unreadKeys \in Never..Hold
  /\ {submitDue, announced, looked} \subseteq BOOLEAN

\* No input waits longer than the hold for a read, however the inputs follow each
\* other and whatever a submission cancels (PullScheduler::arm, take_due).
ReadInTime == unreadKeys <= Hold

\* Whatever registrations and removals failed before: a held text field is one
\* whose value notifications are sent and accepted, and no other field's are
\* accepted; and a field a pull has looked at was reported, by pulls only once
\* (install_focused_target, NotificationRegistry, FocusPullState).
HeldFieldIsHeard ==
  /\ heldClass = "text" => held \in registered /\ registry[held] = "active"
  /\ \A field \in Fields \ {held} : registry[field] # "active"
  /\ sampledKeys <= 1
  /\ looked /\ held # NoField => announced
=============================================================================
