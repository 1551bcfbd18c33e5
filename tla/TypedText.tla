------------------------------ MODULE TypedText ------------------------------
(***************************************************************************)
(* Which changes of a text field are recorded as typed.  The event tap     *)
(* reserves an authorization for each key aimed at a known text field and  *)
(* sends it through a bounded channel; it is confirmed when the tap's      *)
(* worker has handled the key.  The accessibility worker reads the field   *)
(* after notifications and after input, matches every change with the keys *)
(* of the last seconds, and records at the end of a pause in the typing    *)
(* what was added since the last change that no key explains.              *)
(***************************************************************************)
EXTENDS Integers, Sequences, FiniteSets, Queues

CONSTANTS
  Elements,        \* text fields of one application
  Rulings,         \* capture decisions
  Denied,          \* those that deny
  VersionOf,       \* the browser page's version in each
  Capacity,        \* of the authorization channel and of the histories behind it
  EventCapacity,   \* of the tap's event queue
  Window,          \* how long a key explains a change
  Debounce,        \* the pause that ends a run of changes
  MaxHold,         \* the longest run of changes
  MaxTime, MaxAttempts, MaxChars, MaxGenerations, MaxTroubles   \* bounds of a run

ASSUME TypedTextAssumption ==
  /\ {Capacity, EventCapacity} \subseteq Nat \ {0}
  /\ {Window, Debounce, MaxHold, MaxTime, MaxAttempts, MaxChars, MaxGenerations,
      MaxTroubles} \subseteq Nat
  /\ Denied \subseteq Rulings /\ DOMAIN VersionOf = Rulings

VARIABLES
  clock,
  content,         \* the characters each field holds, in order; every one is new
  inserted,        \* how many there have been
  focused,         \* the field the application has in focus
  secureInput,     \* whether the system protects what is typed
  ruling,          \* the capture decision in force for the window
  attempts,        \* everything the tap has numbered, by sequence
  channel,         \* sequence numbers on their way to the accessibility worker
  integrityLost,   \* the flag raised after a send that failed
  lossPending,     \* a send has failed and the flag is not raised yet
  tapQueue,        \* keys the tap's worker has not handled
  received,        \* InputAuthorizations::received_sequence
  history,         \* InputAuthorizations::pending
  armed,           \* input was reported, and the field is to be read
  target,          \* the focused field's capture, or NoTarget
  generation,      \* FocusedTarget::generation
  retired,         \* captures that outlived their focus
  published,       \* the focused field as the focus context has it
  emitted,         \* the texts recorded
  withheld,        \* <<generation, character>>: what that capture may not record
  lossKnown,       \* the newest attempt whose loss has been flagged
  restartedAt,     \* attempts numbered when the accessibility worker last restarted
  troubles         \* changes of protection and ruling, edits by programs, and failures

typedVars ==
  <<clock, content, inserted, focused, secureInput, ruling, attempts, channel, integrityLost,
    lossPending, tapQueue, received, history, armed, target, generation, retired, published,
    emitted, withheld, lossKnown, restartedAt, troubles>>

Unread == <<0>>                          \* a value that could not be read
NoTarget == [generation |-> 0]
NoPending == [steps |-> <<>>]
Trouble(some) == /\ some => troubles < MaxTroubles
                 /\ troubles' = IF some THEN troubles + 1 ELSE troubles
NoneFocused == [generation |-> 0, text |-> FALSE, version |-> 0, element |-> 0]

-----------------------------------------------------------------------------
(* The event tap.                                                          *)

Attempt(kind, state, focus) ==
  [kind |-> kind, state |-> state, at |-> clock,
   generation |-> focus.generation, element |-> focus.element]

\* input_activity: input is reported for the application in focus.
Activity == IF secureInput THEN <<>> ELSE <<Attempt("activity", "none", NoneFocused)>>

\* prepare_input_authorization: an authorization is reserved for a key aimed at a known
\* text field; any other key is numbered as rejected.
Reserved(lost, full) ==
  IF secureInput \/ ~published.text THEN Attempt("rejected", "none", NoneFocused)
  ELSE Attempt("key", IF lost THEN "invalidated" ELSE IF full THEN "rejected" ELSE "pending",
               published)

\* The callback of a key: the application inserts a character, and what was numbered goes
\* to the accessibility worker, the key to the tap's worker.  A channel or a queue that
\* is full loses what is sent; the callback's next step raises the flag for it.
KeyDown ==
  LET room == Capacity - Len(channel)
      full == Len(tapQueue) = EventCapacity
      key == Reserved(room <= Len(Activity), full)
      all == attempts \o Append(Activity, key)
      sent == Len(attempts) + (IF room <= Len(Activity) THEN room ELSE Len(Activity) + 1)
  IN /\ ~lossPending /\ inserted < MaxChars /\ Len(all) <= MaxAttempts
     /\ content' = [content EXCEPT ![focused] = Append(@, inserted + 1)]
     /\ inserted' = inserted + 1
     /\ attempts' = all
     /\ channel' = channel \o [i \in 1..sent - Len(attempts) |-> Len(attempts) + i]
     /\ lossPending' = (sent < Len(all))
     /\ tapQueue' = IF full THEN tapQueue
                    ELSE Append(tapQueue, [version |-> published.version, secure |-> secureInput,
                           authorization |-> IF key.state = "pending" THEN Len(all) ELSE 0])
     /\ UNCHANGED <<clock, focused, secureInput, ruling, integrityLost, received, history,
                    armed, target, generation, retired, published, emitted, withheld,
                    lossKnown, restartedAt, troubles>>

\* The flag is stored after the send has failed.
StoreIntegrityLost ==
  /\ lossPending
  /\ lossPending' = FALSE
  /\ integrityLost' = TRUE
  /\ lossKnown' = Len(attempts)
  /\ UNCHANGED <<clock, content, inserted, focused, secureInput, ruling, attempts, channel,
                 tapQueue, received, history, armed, target, generation, retired, published,
                 emitted, withheld, restartedAt, troubles>>

\* Whether the text of a key may be read and recorded: its focus is still the published
\* one, and neither the key nor the moment is protected.
KeyAllowed(key) ==
  ~secureInput /\ ~key.secure /\ key.version = published.version /\ ruling \notin Denied

\* confirm and reject: an authorization that is resolved stays as it is.
Resolved(states, a, outcome) ==
  IF a # 0 /\ states[a].state = "pending" THEN [states EXCEPT ![a].state = outcome] ELSE states

\* The tap's worker handles a key: its authorization is confirmed when the key's text may
\* be recorded and the event was sent.
HandleKey(sent) ==
  LET key == Head(tapQueue)
  IN /\ tapQueue # <<>> /\ Trouble(~sent)
     /\ tapQueue' = Tail(tapQueue)
     /\ attempts' = Resolved(attempts, key.authorization,
                        IF KeyAllowed(key) /\ sent THEN "confirmed" ELSE "rejected")
     /\ UNCHANGED <<clock, content, inserted, focused, secureInput, ruling, channel,
                    integrityLost, lossPending, received, history, armed, target,
                    generation, retired, published, emitted, withheld, lossKnown,
                    restartedAt>>

-----------------------------------------------------------------------------
(* InputAuthorizations.  A book is what a handler of the accessibility     *)
(* worker reads and changes: the attempts' states, the history, and the    *)
(* texts it emits.                                                         *)

Invalidated(states, sequences) ==
  [s \in DOMAIN states |->
     IF s \in sequences /\ states[s].kind = "key"
     THEN [states[s] EXCEPT !.state = "invalidated"] ELSE states[s]]

\* receive_pending: a missing number, or the flag, invalidates every authorization
\* held; a history that is full is invalidated before the next attempt enters it.
Receive(void) ==
  LET all == history \o Picked(channel, {i \in DOMAIN channel : attempts[channel[i]].kind # "activity"})
      kept == IF Len(all) <= Capacity THEN all
              ELSE SubSeq(all, Len(all) - ((Len(all) - 1) % Capacity), Len(all))
  IN [attempts |-> Invalidated(attempts, IF void THEN Entries(all)
                                         ELSE Entries(all) \ Entries(kept)),
      history |-> IF void THEN <<>> ELSE kept,
      emitted |-> emitted]

Gap == \E i \in DOMAIN channel :
         channel[i] # 1 + (IF i = 1 THEN received ELSE channel[i - 1])

ReceivedInTrust == Receive(Gap)                                   \* mutant

Received == Receive(Gap \/ integrityLost)

Opens(states, s) == states[s].kind = "key" /\ states[s].state \in {"pending", "confirmed"}

\* matching: the keys of the same field within the window before the change; what is
\* too old by then, or can open no window, leaves the history.
Matching(book, gen, at) ==
  {s \in Entries(book.history) :
     /\ Opens(book.attempts, s)
     /\ book.attempts[s].generation = gen
     /\ book.attempts[s].at <= at /\ at - book.attempts[s].at <= Window}

Pruned(book, at) ==
  [book EXCEPT !.history = Picked(@, {i \in DOMAIN book.history :
     Opens(book.attempts, book.history[i]) /\ at - book.attempts[book.history[i]].at <= Window})]

\* invalidate: the authorizations of some captures of fields.
InvalidateTargets(book, gens) ==
  LET mine == {s \in Entries(book.history) :
                 book.attempts[s].generation \in gens /\ book.attempts[s].kind = "key"}
  IN [book EXCEPT !.attempts = Invalidated(@, mine),
                  !.history = Picked(@, {i \in DOMAIN book.history : book.history[i] \notin mine})]

InvalidateTarget(book, gen) == InvalidateTargets(book, {gen})

Confirmed(book, matched) == {s \in matched : book.attempts[s].state = "confirmed"}

MatchPending(book, matched) ==
  Confirmed(book, matched) = {} /\ \E s \in matched : book.attempts[s].state = "pending"

-----------------------------------------------------------------------------
(* ValueCapture.                                                           *)

Greatest(S) == CHOOSE n \in S : \A m \in S : m <= n

\* text_delta: the region that changed, if it grew.
TextDelta(baseline, current) ==
  LET Common(n) == SubSeq(baseline, 1, n) = SubSeq(current, 1, n)
      bound == IF Len(baseline) <= Len(current) THEN Len(baseline) ELSE Len(current)
      prefix == Greatest({n \in 0..bound : Common(n)})
      suffix == Greatest({n \in 0..bound - prefix :
                       SubSeq(baseline, Len(baseline) - n + 1, Len(baseline))
                         = SubSeq(current, Len(current) - n + 1, Len(current))})
  IN IF Len(current) <= Len(baseline) THEN <<>>
     ELSE SubSeq(current, prefix + 1, Len(current) - suffix)

NewPending(o, matched) ==
  [first |-> o.at, last |-> o.at, value |-> o.value, decision |-> o.decision,
   steps |-> <<[value |-> o.value, matched |-> matched]>>]

\* capture_boundary: a denial, or another page, ends the run of changes.
Boundary(pending, o) ==
  o.decision \in Denied \/ VersionOf[pending.decision] # VersionOf[o.decision]

Coalesce(pending, o, matched) ==
  LET steps == IF Len(pending.steps) = Capacity
               THEN <<[value |-> o.value, matched |-> {}]>> ELSE pending.steps
  IN [pending EXCEPT !.last = o.at, !.value = o.value,
                     !.steps = Append(steps, [value |-> o.value, matched |-> matched])]

\* The keys a run of changes rests on.
Support(capture, book) ==
  IF capture.pending = NoPending THEN {}
  ELSE Confirmed(book, capture.pending.steps[Len(capture.pending.steps)].matched)

\* flush_pending and emit: what was added to the value of the last change no confirmed
\* key explains, or to an emptied field.
Emission(capture, book, bare) ==
  LET p == capture.pending
      from == IF bare = {} THEN capture.baseline ELSE p.steps[Greatest(bare)].value
      by == Support(capture, book)
  IN [text |-> IF by = {} \/ from = Unread \/ p.value = Unread \/ p.decision \in Denied
               THEN <<>> ELSE TextDelta(from, p.value),
      by |-> by, element |-> capture.element, generation |-> capture.generation]

FlushFrom(capture, book, bare) ==
  LET said == Emission(capture, book, bare)
      next == [capture EXCEPT !.baseline = capture.pending.value, !.pending = NoPending]
  IN IF capture.pending = NoPending THEN <<capture, book>>
     ELSE IF said.text = <<>> THEN <<next, book>>
     ELSE <<next, [book EXCEPT !.emitted = Append(@, said)]>>

FlushUnexplained(capture, book) == FlushFrom(capture, book, {})   \* mutant

FlushAgain(capture, book) ==                                      \* mutant
  LET result == FlushFrom(capture, book, {})
  IN <<[result[1] EXCEPT !.baseline = capture.baseline], result[2]>>

Bare(capture, book) ==
  {i \in DOMAIN capture.pending.steps :
     \/ Confirmed(book, capture.pending.steps[i].matched) = {}
     \/ capture.pending.steps[i].value = <<>>}

FlushPending(capture, book) == FlushFrom(capture, book, Bare(capture, book))

TakeDue(capture, book, at) ==
  IF capture.pending # NoPending
     /\ (at >= capture.pending.last + Debounce \/ at >= capture.pending.first + MaxHold)
  THEN FlushPending(capture, book) ELSE <<capture, book>>

\* transition_class and discard_text_boundary: a field that is not known text forgets
\* its text and the keys aimed at it.
DiscardBoundary(capture, book) ==
  <<[capture EXCEPT !.pending = NoPending, !.baseline = Unread, !.rebaseline = TRUE],
    InvalidateTarget(book, capture.generation)>>

\* stage: an observation of the field enters the run of changes.
Stage(capture, book, o) ==
  LET matched == Matching(book, capture.generation, o.at)
      after == Pruned(book, o.at)
      p == capture.pending
  IN IF ~o.text THEN DiscardBoundary(capture, book)
     ELSE IF capture.rebaseline
     THEN <<[capture EXCEPT !.baseline = o.value, !.rebaseline = FALSE,
                            !.pending = NewPending(o, {})],
            InvalidateTarget(book, capture.generation)>>
     ELSE IF p = NoPending THEN <<[capture EXCEPT !.pending = NewPending(o, matched)], after>>
     ELSE IF Boundary(p, o)
     THEN <<[capture EXCEPT !.baseline = p.value, !.pending = NewPending(o, matched)], after>>
     ELSE <<[capture EXCEPT !.pending = Coalesce(p, o, matched)], after>>

\* observe and observe_sample: a run that is due ends first, an equal value is ignored,
\* and the typed text is taken before an emptied field replaces it.
Observe(capture, book, o) ==
  LET due == TakeDue(capture, book, o.at)
      p == due[1].pending
      same == IF p = NoPending THEN due[1].baseline ELSE p.value
      comparable == p = NoPending \/ ~Boundary(p, o)
      clears == p # NoPending /\ comparable /\ o.value = <<>> /\ p.value \notin {Unread, <<>>}
      settled == IF clears THEN FlushPending(due[1], due[2]) ELSE due
  IN IF ~o.text \/ capture.rebaseline THEN Stage(capture, book, o)
     ELSE IF comparable /\ same = o.value /\ (o.value # Unread \/ o.sampled) THEN due
     ELSE Stage(settled[1], settled[2], o)

-----------------------------------------------------------------------------
(* The observer of the application.                                        *)

\* What a reading of the field finds: a protected field, or one that cannot be read, is
\* not known text; without permission the value is not read.
FieldValue(element) == IF ruling \in Denied THEN Unread ELSE content[element]

Reading(element, at, sampled, readable) ==
  [text |-> readable /\ ~secureInput, at |-> at, sampled |-> sampled,
   value |-> FieldValue(element), decision |-> ruling]

\* The focus context's copy of the focused field; its version changes with the number and
\* the class of the field (the element is history).
Publish(capture) ==
  published' =
    IF capture = NoTarget
    THEN IF published.generation = 0 THEN published
         ELSE [NoneFocused EXCEPT !.version = published.version + 1]
    ELSE IF published.generation = capture.generation /\ published.text = capture.text
    THEN [published EXCEPT !.element = capture.element]
    ELSE [generation |-> capture.generation, text |-> capture.text,
          version |-> published.version + 1, element |-> capture.element]

\* The end of every handler: the book is written back.
Close(book) ==
  /\ attempts' = book.attempts
  /\ history' = book.history
  /\ emitted' = book.emitted
  /\ channel' = <<>>
  /\ received' = IF channel = <<>> THEN received ELSE channel[Len(channel)]
  /\ integrityLost' = FALSE

Unaffected == UNCHANGED <<clock, content, inserted, focused, secureInput, ruling, lossPending, tapQueue, lossKnown, restartedAt>>

\* History: what a capture finds in its field with nothing to explain it.
Pairs(capture, value) == {capture.generation} \X Entries(value)

Unexplained(o, capture, matched) ==
  IF ~o.text \/ o.value = Unread \/ capture.rebaseline THEN Pairs(capture, content[capture.element])
  ELSE IF matched # {} THEN {}
  ELSE Pairs(capture, o.value) \ Pairs(capture, IF capture.pending = NoPending THEN capture.baseline
                                                ELSE capture.pending.value)

\* The tick of the worker: what the tap has sent is taken, and input arms a reading.
Poll ==
  /\ channel # <<>> \/ integrityLost
  /\ Close(Received)
  /\ armed' = (armed \/ \E s \in Entries(channel) : attempts[s].kind = "activity")
  /\ Unaffected
  /\ UNCHANGED <<target, generation, retired, published, withheld, troubles>>

\* A value notification, or a reading after input, of the field in focus; what it says
\* of the field is published when that changes.
ReadValue(at, sampled, readable) ==
  LET o == Reading(target.element, at, sampled, readable)
      result == Observe(target, Received, o)
      next == [result[1] EXCEPT !.notifies = @ \/ ~sampled, !.text = o.text]
  IN /\ target' = next
     /\ Close(result[2])
     /\ withheld' = withheld \union
          Unexplained(o, target, Matching(Received, target.generation, at))
     /\ IF o.text # target.text THEN Publish(next) ELSE UNCHANGED published
     /\ Unaffected

ValueChanged(at, readable) ==
  /\ target # NoTarget
  /\ at \in {clock - 1, clock} \intersect Nat
  /\ Trouble(~readable)
  /\ ReadValue(at, FALSE, readable)
  /\ UNCHANGED <<armed, generation, retired>>

\* resolve_focus_change: the run of changes of the field that loses the focus ends, or
\* waits for keys the tap has not handled.
ResolveFocusChange(capture, book, o, readable) ==
  LET p == capture.pending
      same == IF p # NoPending THEN p.value = o.value /\ ~Boundary(p, o)
              ELSE capture.baseline = o.value \/ Unread \in {capture.baseline, o.value}
      staged == IF ~readable \/ same THEN <<capture, book>> ELSE Stage(capture, book, o)
      waits == \E i \in DOMAIN staged[1].pending.steps :
                 MatchPending(staged[2], staged[1].pending.steps[i].matched)
  IN IF readable /\ (~o.text \/ capture.rebaseline) THEN <<NoTarget, Stage(capture, book, o)[2]>>
     ELSE IF waits THEN staged
     ELSE <<NoTarget, FlushPending(staged[1], staged[2])[2]>>

\* focused_element_snapshot and ValueCapture::new: the field's value when it gets the
\* focus is where its text begins; without one, the first reading is.
Fresh(number) ==
  LET baseline == IF secureInput THEN Unread ELSE FieldValue(focused)
  IN [generation |-> number, element |-> focused, text |-> ~secureInput, baseline |-> baseline,
      rebaseline |-> baseline = Unread, pending |-> NoPending, notifies |-> FALSE]

\* remove_focused_target: a capture that waits is kept.
Retire(capture) == IF capture = NoTarget THEN retired ELSE Append(retired, capture)

\* What becomes of the capture that loses the focus, read for the last time.
Previous(at, readable) ==
  IF target = NoTarget THEN <<NoTarget, Received>>
  ELSE ResolveFocusChange(target, Received, Reading(target.element, at, FALSE, TRUE), readable)

\* install_focused_target: the new field is read, and then the run of the last one ends.
InstallTarget(at, readable) ==
  LET previous == Previous(at, readable)
      fresh == Fresh(generation + 1)
  IN /\ target' = fresh
     /\ generation' = generation + 1
     /\ retired' = Retire(previous[1])
     /\ Close(previous[2])
     /\ Publish(fresh)
     /\ withheld' = withheld \union Pairs(fresh, content[focused])

Same == target # NoTarget /\ target.element = focused

FocusChanged(at, readable) ==
  /\ ~Same
  /\ at \in {clock - 1, clock} \intersect Nat
  /\ Trouble(~readable)
  /\ InstallTarget(at, readable)
  /\ Unaffected /\ UNCHANGED armed

\* A reading after input: the focus is resolved again, and a field that has not been
\* seen to notify is read.
Pull ==
  /\ armed /\ armed' = FALSE
  /\ IF ~Same THEN InstallTarget(clock, TRUE)
     ELSE IF target.notifies
     THEN /\ Close(Received)
          /\ UNCHANGED <<target, generation, retired, published, withheld>>
     ELSE /\ ReadValue(clock, TRUE, TRUE)
          /\ UNCHANGED <<generation, retired>>
  /\ Unaffected /\ UNCHANGED troubles

\* The focused element could not be resolved: the field is let go with its run of changes.
FocusReadFailed ==
  /\ target # NoTarget /\ Trouble(TRUE)
  /\ target' = NoTarget
  /\ generation' = generation + 1
  /\ retired' = Retire(target)
  /\ Close(Received)
  /\ Publish(NoTarget)
  /\ Unaffected /\ UNCHANGED <<armed, withheld>>

\* take_due_value_events for the field in focus; protected input drops its text.
TakeDueFocused ==
  /\ target # NoTarget
  /\ LET dropped == DiscardBoundary([target EXCEPT !.text = FALSE], Received)
         result == IF secureInput THEN dropped ELSE TakeDue(target, Received, clock)
     IN /\ result[1] # target
        /\ target' = result[1]
        /\ Close(result[2])
        /\ withheld' = IF secureInput THEN withheld \union Pairs(target, content[target.element])
                       ELSE withheld
  /\ Unaffected /\ UNCHANGED <<armed, generation, retired, published, troubles>>

\* The same for the oldest field that lost the focus; one with nothing left is dropped.
TakeDueRetired ==
  /\ retired # <<>>
  /\ LET capture == Head(retired)
         result == IF secureInput THEN DiscardBoundary(capture, Received)
                   ELSE TakeDue(capture, Received, clock)
     IN /\ result[1].pending = NoPending
        /\ Close(result[2])
  /\ retired' = Tail(retired)
  /\ Unaffected /\ UNCHANGED <<armed, target, generation, published, withheld, troubles>>

\* The collector stops and starts: every run of changes ends with what is confirmed, the
\* new worker numbers its captures from the beginning, and the authorizations stay.
Restart ==
  LET captures == (IF target = NoTarget THEN <<>> ELSE <<target>>) \o retired
      said == [i \in DOMAIN captures |->
                 Emission(captures[i], Received, Bare(captures[i], Received))]
      flushed == [Received EXCEPT !.emitted =
                    @ \o Picked(said, {i \in DOMAIN said : said[i].text # <<>>})]
      dropped == InvalidateTargets(Received, {c.generation : c \in Entries(captures)})
      fresh == Fresh(1)
  IN /\ Trouble(TRUE)
     /\ Close(IF secureInput THEN dropped ELSE flushed)
     /\ target' = fresh /\ generation' = 1 /\ retired' = <<>> /\ armed' = FALSE
     /\ Publish(fresh)
     /\ withheld' = Pairs(fresh, content[focused])
     /\ restartedAt' = Len(attempts)
     /\ UNCHANGED <<clock, content, inserted, focused, secureInput, ruling, lossPending,
                    tapQueue, lossKnown>>

-----------------------------------------------------------------------------
(* The user, the application and the system.                               *)

Outside == UNCHANGED <<attempts, channel, integrityLost, lossPending, tapQueue, received,
                       history, armed, target, generation, retired, published, emitted, withheld, lossKnown, restartedAt>>

Tick ==
  /\ clock < MaxTime /\ ~lossPending /\ clock' = clock + 1
  /\ Outside /\ UNCHANGED <<content, inserted, focused, secureInput, ruling, troubles>>

\* The application puts text into the field, or empties it, by itself.
ProgramEdits ==
  /\ Trouble(TRUE)
  /\ content' \in {[content EXCEPT ![focused] = v] :
                     v \in {<<>>} \union (IF inserted < MaxChars
                                          THEN {Append(content[focused], inserted + 1)} ELSE {})}
  /\ content' # content
  /\ inserted' = IF content'[focused] = <<>> THEN inserted ELSE inserted + 1
  /\ Outside /\ UNCHANGED <<clock, focused, secureInput, ruling>>

UserMoves ==
  /\ generation < MaxGenerations /\ Same
  /\ focused' \in Elements \ {focused}
  /\ Outside /\ UNCHANGED <<clock, content, inserted, secureInput, ruling, troubles>>

ProtectionChanges ==
  /\ Trouble(TRUE)
  /\ secureInput' = ~secureInput
  /\ Outside /\ UNCHANGED <<clock, content, inserted, focused, ruling>>

RulingChanges ==
  /\ Trouble(TRUE)
  /\ ruling' \in Rulings \ {ruling}
  /\ Outside /\ UNCHANGED <<clock, content, inserted, focused, secureInput>>

-----------------------------------------------------------------------------
\* The state after attach has found the field in focus.
TypedInit ==
  /\ clock = 0
  /\ content = [e \in Elements |-> <<>>] /\ inserted = 0
  /\ focused \in Elements /\ secureInput = FALSE /\ ruling \in Rulings \ Denied
  /\ attempts = <<>> /\ channel = <<>> /\ integrityLost = FALSE
  /\ lossPending = FALSE /\ lossKnown = 0 /\ tapQueue = <<>>
  /\ received = 0 /\ history = <<>> /\ armed = FALSE
  /\ generation = 1 /\ retired = <<>>
  /\ target = [generation |-> 1, element |-> focused, text |-> TRUE, baseline |-> <<>>,
               rebaseline |-> FALSE, pending |-> NoPending, notifies |-> FALSE]
  /\ published = [generation |-> 1, text |-> TRUE, version |-> 1, element |-> focused]
  /\ emitted = <<>> /\ withheld = {} /\ restartedAt = 0 /\ troubles = 0

TypedNext ==
  \/ KeyDown \/ StoreIntegrityLost
  \/ \E sent \in BOOLEAN : HandleKey(sent)
  \/ Poll
  \/ \E at \in 0..clock, readable \in BOOLEAN : ValueChanged(at, readable)
  \/ \E at \in 0..clock, readable \in BOOLEAN : FocusChanged(at, readable)
  \/ Pull \/ FocusReadFailed \/ TakeDueFocused \/ TakeDueRetired \/ Restart
  \/ Tick \/ ProgramEdits \/ UserMoves \/ ProtectionChanges \/ RulingChanges

TypedSpec == TypedInit /\ [][TypedNext]_typedVars

-----------------------------------------------------------------------------
TypedTypeOK ==
  /\ clock \in 0..MaxTime
  /\ content \in [Elements -> Seq(1..MaxChars)]
  /\ focused \in Elements /\ ruling \in Rulings
  /\ \A a \in Entries(attempts) : a.state \in {"none", "pending", "confirmed", "rejected", "invalidated"}
  /\ Entries(channel) \union Entries(history) \subseteq 1..Len(attempts)
  /\ Len(channel) <= Capacity /\ Len(history) <= Capacity /\ Len(tapQueue) <= EventCapacity
  /\ received <= Len(attempts)
  /\ target = NoTarget \/ target.generation = generation
  /\ \A c \in Entries(retired) : c.generation < generation

\* What a capture found in its field when the field got the focus, was protected,
\* unreadable or not to be recorded, or changed with no key to explain it, is not
\* recorded by it as typed.
WithheldStaysOut ==
  \A i \in DOMAIN emitted' \ DOMAIN emitted :
    ({emitted'[i].generation} \X Entries(emitted'[i].text)) \intersect withheld = {}

\* No character is recorded twice, however the runs of changes of a field overlap.
TypedOnce ==
  \A i, j \in DOMAIN emitted :
    i # j => Entries(emitted[i].text) \intersect Entries(emitted[j].text) = {}

\* A text rests on a key that was aimed at the field it is recorded for, the keys from
\* before a restart of the worker apart.
TextFollowsTyping ==
  \A i \in DOMAIN emitted' \ DOMAIN emitted : \E s \in emitted'[i].by :
    s <= restartedAt \/ attempts[s].element = emitted'[i].element

\* The documented rule: a change in a different focused element than the one the input
\* went to is not recorded as text.
SameElementOnly ==
  \A i \in DOMAIN emitted : \E s \in emitted[i].by : attempts[s].element = emitted[i].element

\* A text recorded after a loss was flagged does not rest on a key from before the loss
\* that could still explain a change.
GapVoids ==
  \A i \in DOMAIN emitted' \ DOMAIN emitted : \A s \in emitted'[i].by :
    s > lossKnown \/ clock - attempts[s].at > Window
=============================================================================
