------------------------------ MODULE EventTap ------------------------------
(***************************************************************************)
(* The worker behind the listen-only event tap (crates/zanei-macos/src/    *)
(* eventtap/): the life of the tap under an operating system that disables *)
(* it, refuses it and sleeps; keys whose text may be read; the pasteboard  *)
(* changes matched with Command-C.  A window stands for its application    *)
(* and its field, and the two focus generations are one number, `place`.   *)
(* The operating system calls back only inside CFRunLoopRunInMode, on the  *)
(* worker's thread; focus, rulings, secure input and the pasteboard change *)
(* at any time.  Time is counted in passes of the run loop.                *)
(***************************************************************************)
EXTENDS Integers, Sequences, FiniteSets

CONSTANTS
  Panes,       \* windows that can have the focus
  Nobody,      \* the focused application has no window
  QueueLimit,  \* EVENT_QUEUE_CAPACITY
  CopySpan,    \* COPY_CORRELATION_WINDOW
  RetrySpan,   \* RETRY_BACKOFF
  WatchSpan,   \* WATCHDOG_INTERVAL
  MaxInputs,   \* bound: keys, scrolls and clicks
  MaxTurmoil,  \* bound: what the operating system does to the tap
  MaxMoves,    \* bound: changes of focus, ruling and secure input
  MaxWrites    \* bound: changes of the pasteboard

ASSUME EventTapAssumption ==
  /\ Nobody \notin Panes
  /\ {QueueLimit, CopySpan, RetrySpan, WatchSpan} \subseteq Nat \ {0}
  /\ {MaxInputs, MaxTurmoil, MaxMoves, MaxWrites} \subseteq Nat

VARIABLES
  machine,    \* the tap, the lifecycle's state and the passes until a retry
  refusing,   \* what the operating system refuses: "nothing", "enabling", "creating"
  asleep,     \* a wake notification is waiting
  notices,    \* what the callback queued in this pass
  batch,      \* the drained events still to be handled
  turn,       \* where the worker is in its loop
  secureNow, secureSeen,  \* secure input, and the worker's last sample of it
  place,      \* the number of the current focus
  front,      \* its window
  open,       \* the windows whose text may be recorded
  board,      \* the pasteboard's change count
  counted,    \* the count accounted for last
  sampled,    \* the count sampled in this pass
  intent,     \* the Command-C that no change has used
  unwatched,  \* passes since the last watchdog
  deaf,       \* passes without an enabled tap although nothing refuses one
  pressed,    \* number of inputs, which names the keys
  waiting,    \* keys whose authorization is neither confirmed nor rejected
  confirmed,  \* keys whose authorization was confirmed
  used,       \* the Command-C keys a recorded copy names
  out,        \* what the last step recorded
  turmoil, moves

tapVars == <<machine, refusing, asleep, notices, batch, turn, secureNow, secureSeen,
             place, front, open, board, counted, sampled, intent, unwatched, deaf,
             pressed, waiting, confirmed, used, out, turmoil, moves>>

surroundings == <<refusing, secureNow, place, front, open, board, turmoil, moves>>
clipboard == <<counted, intent, used>>
keys == <<pressed, waiting, confirmed>>

NoIntent == [key |-> 0]
NoRecord == [kind |-> "nothing", text |-> FALSE]
Aging(age, limit) == IF age > limit THEN age ELSE age + 1

-----------------------------------------------------------------------------
(* The tap's lifecycle.  Every effect runs to its end inside one call.     *)

Working(tap) == [tap |-> tap, state |-> "enabled", wait |-> 0]
Broken(tap) == [tap |-> tap, state |-> "degraded", wait |-> RetrySpan]

\* A new tap is enabled unless the system refuses.
Recreated ==
  CASE refusing = "nothing" -> Working("on")
    [] refusing = "enabling" -> Broken("off")
    [] refusing = "creating" -> Broken("none")

Reenabled(m) ==
  IF m.tap = "on" \/ (m.tap = "off" /\ refusing = "nothing")
  THEN Working("on")
  ELSE Recreated

DisabledNotice(m) == IF m.state = "enabled" THEN Reenabled(m) ELSE m

Retried(m) == IF m.state = "degraded" /\ m.wait = 0 THEN Recreated ELSE m

\* A mutant: the watchdog only retries a tap already known to be broken.
WatchdogBlind(m) == Retried(m)

Watchdog(m) ==
  IF m.state = "enabled" /\ m.tap # "on" THEN Reenabled(m) ELSE Retried(m)

-----------------------------------------------------------------------------
(* The pasteboard.                                                         *)

\* A mutant: the focus may have left and come back.
SameWindow == intent.window = front

SameTarget == intent.place = place /\ intent.window = front

Matched == intent # NoIntent /\ SameTarget /\ intent.age <= CopySpan

\* What a change is recorded as.  An application without a window has no
\* attributed event, and its intent is spent.
CopyRecord(secure) ==
  IF ~Matched
  THEN [kind |-> "copy", key |-> 0, text |-> FALSE]
  ELSE IF intent.window = Nobody
  THEN NoRecord
  ELSE [kind |-> "copy", key |-> intent.key, window |-> intent.window,
        place |-> intent.place, age |-> intent.age, begun |-> intent.open,
        text |-> ~secure /\ intent.open /\ intent.window \in open]

Naming(record) ==
  IF record.kind = "copy" /\ record.key > 0 THEN {record.key} ELSE {}

\* A mutant: a matched intent stays for the next change.
TakeChangeKeeping(count, secure) ==
  LET record == CopyRecord(secure)
  IN  /\ counted' = count
      /\ intent' = IF Matched THEN intent ELSE NoIntent
      /\ used' = used \union Naming(record)
      /\ out' = record

\* The intent is spent whether or not it matches, and the count becomes the
\* sample, not what the pasteboard holds by now.
TakeChange(count, secure) ==
  LET record == CopyRecord(secure)
  IN  /\ counted' = count
      /\ intent' = NoIntent
      /\ used' = used \union Naming(record)
      /\ out' = record

-----------------------------------------------------------------------------
(* The worker's loop.                                                      *)

\* Before the run loop: a change the pasteboard shows already.
BeforeEvents ==
  /\ turn = "top"
  /\ turn' = "run"
  /\ secureSeen' = secureNow
  /\ IF board # counted
     THEN TakeChange(board, secureNow)
     ELSE out' = NoRecord /\ UNCHANGED clipboard
  /\ UNCHANGED <<machine, asleep, notices, batch, sampled, unwatched, deaf, keys, surroundings>>

\* The callback.  A queue that is full loses the event; its authorization is
\* rejected.
Queued(event) ==
  IF Len(notices) < QueueLimit
  THEN notices' = Append(notices, event)
  ELSE UNCHANGED notices

\* Where the key went: a process without the focus, an element that is not
\* known to take text, or a text field.
KeyTargets == {"elsewhere", "element", "field"}

MayReserve(target) == target = "field" /\ ~secureNow

KeyArrives ==
  \E combo \in {"type", "copy", "paste"}, target \in KeyTargets :
    /\ turn = "run" /\ machine.tap = "on"
    /\ pressed < MaxInputs
    /\ pressed' = pressed + 1
    /\ Queued([kind |-> "key", key |-> pressed + 1, combo |-> combo, target |-> target,
               secure |-> secureNow, place |-> place, window |-> front])
    /\ waiting' = IF MayReserve(target) /\ Len(notices) < QueueLimit
                  THEN waiting \union {pressed + 1} ELSE waiting
    /\ out' = NoRecord
    /\ UNCHANGED <<machine, asleep, batch, turn, secureSeen, sampled, unwatched, deaf,
                   confirmed, clipboard, surroundings>>

\* A scroll or a click: recorded without content, so only its place in the
\* queue matters.
PointerArrives ==
  /\ turn = "run" /\ machine.tap = "on"
  /\ pressed < MaxInputs
  /\ pressed' = pressed + 1
  /\ Queued([kind |-> "pointer"])
  /\ out' = NoRecord
  /\ UNCHANGED <<machine, asleep, batch, turn, secureSeen, sampled, unwatched, deaf,
                 waiting, confirmed, clipboard, surroundings>>

\* The operating system disables the tap and says so through the callback.
TapDisabled ==
  /\ turn = "run" /\ machine.tap = "on"
  /\ turmoil < MaxTurmoil /\ turmoil' = turmoil + 1
  /\ machine' = [machine EXCEPT !.tap = "off"]
  /\ Queued([kind |-> "disabled"])
  /\ out' = NoRecord
  /\ UNCHANGED <<asleep, batch, turn, secureSeen, sampled, unwatched, deaf, keys, clipboard,
                 refusing, secureNow, place, front, open, board, moves>>

\* Text is read from a key only for a known text field, while the key's focus
\* is still the current one and its window may be recorded.
TextReadable(event) ==
  /\ event.target = "field" /\ ~event.secure
  /\ event.place = place /\ event.window \in open

Decoded(event) ==
  IF event.kind # "key" THEN event
  ELSE [kind |-> "key", key |-> event.key, combo |-> event.combo, target |-> event.target,
        secure |-> event.secure, place |-> event.place, window |-> event.window,
        read |-> TextReadable(event)]

\* The run loop returns, at the latest after one interval; the queue is
\* drained and the pasteboard sampled.
Drain ==
  \E timeout \in BOOLEAN :
    /\ turn = "run"
    /\ turn' = "handle"
    /\ secureSeen' = secureNow
    /\ batch' = [i \in DOMAIN notices |-> Decoded(notices[i])]
    /\ notices' = <<>>
    /\ sampled' = board
    /\ out' = NoRecord
    /\ IF timeout
       THEN /\ machine' = [machine EXCEPT !.wait = IF @ > 0 THEN @ - 1 ELSE 0]
            /\ unwatched' = Aging(unwatched, WatchSpan)
            /\ deaf' = IF machine.tap # "on" /\ refusing = "nothing"
                       THEN Aging(deaf, WatchSpan + RetrySpan) ELSE 0
            /\ intent' = IF intent = NoIntent THEN intent
                         ELSE [intent EXCEPT !.age = Aging(@, CopySpan)]
       ELSE UNCHANGED <<machine, unwatched, deaf, intent>>
    /\ UNCHANGED <<asleep, counted, used, keys, surroundings>>

Handles(kind) == turn = "handle" /\ batch # <<>> /\ Head(batch).kind = kind

HandleDisabled ==
  /\ Handles("disabled")
  /\ batch' = Tail(batch)
  /\ machine' = DisabledNotice(machine)
  /\ deaf' = IF machine'.tap = "on" THEN 0 ELSE deaf
  /\ out' = NoRecord
  /\ UNCHANGED <<asleep, notices, turn, secureSeen, sampled, unwatched, keys, clipboard, surroundings>>

HandlePointer ==
  /\ Handles("pointer")
  /\ batch' = Tail(batch)
  /\ out' = NoRecord
  /\ UNCHANGED <<machine, asleep, notices, turn, secureSeen, sampled, unwatched, deaf, keys,
                 clipboard, surroundings>>

\* A mutant: the ruling is looked up for a focus that has gone.
StillOpen(event) == event.window \in open

\* The focus is still the key's, and its window may be recorded.
StillHere(event) == event.place = place /\ event.window \in open

\* A mutant: a key that is not recorded leaves its authorization open.
ResolveSentOnly(event, result) ==
  /\ waiting' = IF result = "sent" THEN waiting \ {event.key} ELSE waiting
  /\ confirmed' = IF result = "sent" /\ event.key \in waiting
                  THEN confirmed \union {event.key} ELSE confirmed

Resolve(event, result) ==
  /\ waiting' = waiting \ {event.key}
  /\ confirmed' = IF result = "sent" /\ event.key \in waiting
                  THEN confirmed \union {event.key} ELSE confirmed

\* A key under secure input, or whose process does not own the focus.
HandleFilteredKey ==
  /\ Handles("key")
  /\ LET event == Head(batch)
     IN  /\ secureSeen \/ event.secure \/ event.target = "elsewhere"
         /\ Resolve(event, "filtered")
  /\ batch' = Tail(batch)
  /\ out' = NoRecord
  /\ UNCHANGED <<machine, asleep, notices, turn, secureSeen, sampled, unwatched, deaf,
                 pressed, clipboard, surroundings>>

KeyRecord(event, result, active) ==
  IF result # "sent" THEN NoRecord
  ELSE [kind |-> "key", key |-> event.key, window |-> event.window, place |-> event.place,
        begun |-> TRUE, age |-> 0,
        text |-> CASE event.combo = "type" ->
                        event.read /\ StillHere(event) /\ ~active
                   [] event.combo = "copy" -> FALSE
                   [] event.combo = "paste" -> event.target = "field" /\ StillHere(event)]

\* Any other key: recorded, its authorization resolved, then the shortcuts.
\* `active`: an input method composes, so the key has no text of its own.
\* Without a window there is no event; without a reader the worker ends.
HandleKeyEvent ==
  \E result \in {"sent", "dropped", "filtered", "disconnected"}, active \in BOOLEAN :
    /\ Handles("key")
    /\ LET event == Head(batch)
       IN  /\ ~secureSeen /\ ~event.secure /\ event.target # "elsewhere"
           /\ (result = "filtered") = (event.window = Nobody)
           /\ Resolve(event, IF event.target = "field" /\ StillHere(event) THEN result ELSE "filtered")
           /\ out' = KeyRecord(event, result, active)
           /\ intent' = IF event.combo = "copy" /\ result # "disconnected"
                        THEN [key |-> event.key, window |-> event.window, place |-> event.place,
                              age |-> 0, open |-> StillHere(event)]
                        ELSE intent
    /\ IF result = "disconnected"
       THEN turn' = "ended" /\ batch' = <<>>
       ELSE batch' = Tail(batch) /\ UNCHANGED turn
    /\ UNCHANGED <<machine, asleep, notices, secureSeen, sampled, unwatched, deaf, pressed,
                   counted, used, surroundings>>

\* After the batch: the wake, the change sampled before it, the watchdog and
\* the retry.
AfterEvents ==
  /\ turn = "handle" /\ batch = <<>>
  /\ turn' = "top"
  /\ asleep' = FALSE
  /\ LET woken == IF asleep THEN Recreated ELSE machine
         due == unwatched >= WatchSpan
     IN  /\ machine' = Retried(IF due THEN Watchdog(woken) ELSE woken)
         /\ unwatched' = IF due THEN 0 ELSE unwatched
  /\ deaf' = IF machine'.tap = "on" THEN 0 ELSE deaf
  /\ IF sampled # counted
     THEN TakeChange(sampled, secureSeen)
     ELSE out' = NoRecord /\ UNCHANGED clipboard
  /\ UNCHANGED <<notices, batch, secureSeen, sampled, keys, surroundings>>

\* EventTapCollector::stop, honoured at the top of the loop.
StopTap ==
  /\ turn = "top"
  /\ turmoil < MaxTurmoil /\ turmoil' = turmoil + 1
  /\ turn' = "ended"
  /\ out' = NoRecord
  /\ UNCHANGED <<machine, asleep, notices, batch, secureSeen, sampled, unwatched, deaf, keys,
                 clipboard, refusing, secureNow, place, front, open, board, moves>>

\* A new worker: a new tap, a tracker that starts at the current count.
StartTap ==
  /\ turn = "ended"
  /\ turn' = "top"
  /\ machine' = Recreated
  /\ asleep' = FALSE
  /\ unwatched' = 0 /\ deaf' = 0
  /\ secureSeen' = secureNow
  /\ counted' = board /\ sampled' = board /\ intent' = NoIntent
  /\ waiting' = {}
  /\ out' = NoRecord
  /\ UNCHANGED <<notices, batch, used, pressed, confirmed, surroundings>>

-----------------------------------------------------------------------------
(* The surroundings.                                                       *)

tapAlone == <<machine, asleep, notices, batch, turn, secureSeen, sampled, unwatched, keys, clipboard>>

SystemRefuses ==
  \E r \in {"nothing", "enabling", "creating"} :
    /\ turmoil < MaxTurmoil /\ turmoil' = turmoil + 1
    /\ r # refusing /\ refusing' = r
    /\ deaf' = 0
    /\ out' = NoRecord
    /\ UNCHANGED <<tapAlone, secureNow, place, front, open, board, moves>>

SystemWakes ==
  /\ turmoil < MaxTurmoil /\ turmoil' = turmoil + 1
  /\ turn # "ended"
  /\ asleep' = TRUE
  /\ out' = NoRecord
  /\ UNCHANGED <<machine, notices, batch, turn, secureSeen, sampled, unwatched, deaf, keys,
                 clipboard, refusing, secureNow, place, front, open, board, moves>>

BoardChanges ==
  /\ board < MaxWrites /\ board' = board + 1
  /\ out' = NoRecord
  /\ UNCHANGED <<tapAlone, deaf, refusing, secureNow, place, front, open, turmoil, moves>>

FrontMoves ==
  \E w \in Panes \union {Nobody} :
    /\ moves < MaxMoves /\ moves' = moves + 1
    /\ place' = place + 1 /\ front' = w
    /\ out' = NoRecord
    /\ UNCHANGED <<tapAlone, deaf, refusing, secureNow, open, board, turmoil>>

RulingMoves ==
  \E w \in Panes :
    /\ moves < MaxMoves /\ moves' = moves + 1
    /\ open' = (open \ {w}) \union ({w} \ open)
    /\ out' = NoRecord
    /\ UNCHANGED <<tapAlone, deaf, refusing, secureNow, place, front, board, turmoil>>

SecureMoves ==
  /\ moves < MaxMoves /\ moves' = moves + 1
  /\ secureNow' = ~secureNow
  /\ out' = NoRecord
  /\ UNCHANGED <<tapAlone, deaf, refusing, place, front, open, board, turmoil>>

-----------------------------------------------------------------------------

TapInit ==
  /\ refusing \in {"nothing", "enabling", "creating"}
  /\ machine = Recreated
  /\ asleep = FALSE /\ notices = <<>> /\ batch = <<>> /\ turn = "top"
  /\ secureNow = FALSE /\ secureSeen = FALSE
  /\ place = 0 /\ front \in Panes /\ open = Panes \union {Nobody}
  /\ board = 0 /\ counted = 0 /\ sampled = 0 /\ intent = NoIntent
  /\ unwatched = 0 /\ deaf = 0 /\ pressed = 0
  /\ waiting = {} /\ confirmed = {} /\ used = {} /\ out = NoRecord
  /\ turmoil = 0 /\ moves = 0

TapNext ==
  \/ BeforeEvents \/ KeyArrives \/ PointerArrives \/ TapDisabled \/ Drain
  \/ HandleDisabled \/ HandlePointer \/ HandleFilteredKey \/ HandleKeyEvent
  \/ AfterEvents \/ StopTap \/ StartTap
  \/ SystemRefuses \/ SystemWakes \/ BoardChanges
  \/ FrontMoves \/ RulingMoves \/ SecureMoves

TapSpec == TapInit /\ [][TapNext]_tapVars

-----------------------------------------------------------------------------

TapTypeOK ==
  /\ machine \in [tap : {"on", "off", "none"}, state : {"enabled", "degraded"}, wait : 0..RetrySpan]
  /\ refusing \in {"nothing", "enabling", "creating"}
  /\ {asleep, secureNow, secureSeen} \subseteq BOOLEAN
  /\ Len(notices) <= QueueLimit /\ Len(batch) <= QueueLimit
  /\ turn \in {"top", "run", "handle", "ended"}
  /\ front \in Panes \union {Nobody} /\ open \subseteq Panes \union {Nobody}
  /\ counted <= board /\ sampled <= board
  /\ waiting \union confirmed \union used \subseteq 1..pressed
  /\ unwatched \in 0..WatchSpan + 1

\* A tap that is off although nothing refuses it is on again after at most one
\* interval of the watchdog or of the retry, even when the notice that it was
\* disabled found the queue full (state.rs, Lifecycle::transition).
NeverDeafForLong ==
  deaf <= IF WatchSpan > RetrySpan THEN WatchSpan ELSE RetrySpan

\* The body of a key, a paste or a copy belongs to the focus the key was
\* pressed in, which has not changed since, not even away and back; its window
\* may be recorded now and could be when the key was handled; the sample of
\* secure input of this pass was off; a copy is at most CopySpan after its
\* Command-C (worker.rs, handle_native_event; clipboard.rs, take_change).
BodiesStayInPlace ==
  out.text =>
    /\ out.place = place /\ out.window = front
    /\ out.window \in open /\ out.begun
    /\ ~secureSeen
    /\ out.age <= CopySpan

\* One Command-C explains one change of the pasteboard: no later change is
\* attributed to it (clipboard.rs, ClipboardTracker::take_change).
OneCopyPerShortcut ==
  \A key \in used : ~(out'.kind = "copy" /\ out'.key = key)

\* When a pass is over every key of it has had its authorization confirmed or
\* rejected, so no reservation blocks the accessibility collector; none is
\* confirmed for a key the pipeline did not get (output.rs,
\* resolve_input_authorization).
AuthorizationsSettle ==
  /\ turn = "top" => waiting = {}
  /\ waiting \intersect confirmed = {}
=============================================================================
