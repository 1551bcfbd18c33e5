--------------------------- MODULE SnapshotWorker ---------------------------
(***************************************************************************)
(* The content snapshot collector (content_snapshot/): a worker that follows *)
(* the window in front through a bounded channel of triggers, decides when   *)
(* its contents have settled, reads them, and sends an event when they have  *)
(* changed.  What it read may go to a recognition thread first.              *)
(*                                                                           *)
(* The accessibility worker writes the focus and then publishes the          *)
(* transition; wakes and ends of applications reach this worker and the      *)
(* accessibility worker through channels of their own, this one first.       *)
(*                                                                           *)
(* Time is counted in the ticks left of each interval.  A window stands for  *)
(* its application as well.  A ruling, secure input, an idle user and a full *)
(* event channel are gates that may close at any time: a candidate may be    *)
(* dropped whatever the state.                                               *)
(***************************************************************************)
EXTENDS Integers, Sequences, FiniteSets, Queues

CONSTANTS
    Windows,            \* windows a snapshot may be taken of
    Nowhere,            \* no window
    TriggerCapacity,    \* SNAPSHOT_TRIGGER_CAPACITY
    Quiet, MaxSettle,   \* SETTLE_QUIET_INTERVAL, SETTLE_MAX_INTERVAL
    Refreshes,          \* REFRESH_INTERVALS
    FocusOutInterval,   \* FOCUS_OUT_MIN_INTERVAL
    SaveInterval,       \* GLOBAL_SAVE_INTERVAL
    BackoffFirst, BackoffMax,   \* PID_BACKOFF_INITIAL, PID_BACKOFF_MAX
    MaxNews             \* bound: changes of focus and of contents, wakes, ends, restarts

ASSUME WorkerAssumption ==
    /\ Nowhere \notin Windows
    /\ TriggerCapacity \in Nat \ {0}
    /\ Quiet \in Nat \ {0} /\ MaxSettle \in Nat /\ MaxSettle >= Quiet
    /\ Refreshes \in Seq(Nat \ {0}) /\ Refreshes # <<>>
    /\ {FocusOutInterval, SaveInterval, BackoffFirst, BackoffMax} \subseteq Nat

VARIABLES
    focus,        \* FocusContext: the window in front
    unpublished,  \* the transition the accessibility worker is about to publish
    axEvents,     \* workspace events the accessibility worker has not handled
    announcing,   \* an event this worker was told of and that one was not yet
    triggers,     \* the trigger channel
    lossy,        \* a trigger was dropped since the channel was last emptied
    lifecycle,    \* workspace events this worker has not handled
    inputSent,    \* SnapshotInputTriggers: ticks since a window's last input message
    inputHeld,    \* SnapshotInputTriggers: the input held back
    step,         \* where the worker's loop is
    message,      \* the trigger it has received
    watched,      \* SnapshotScheduler: the current window
    focusOut,     \* SnapshotScheduler: windows just left
    saved,        \* SnapshotState: what was saved of each window
    globalLeft,   \* SnapshotState: what is left of the global interval
    backoffs,     \* SnapshotState: backoff of each application
    recognizing,  \* the walked candidate the recognition thread has
    shown,        \* contents of each window
    delivered,    \* history: the last contents sent of each window, by origin
    news

focusing  == <<focus, unpublished, axEvents, announcing>>
input     == <<inputSent, inputHeld>>
scheduled == <<watched, focusOut>>
state     == <<saved, globalLeft, backoffs>>
worker    == <<step, message, scheduled, state, recognizing, delivered>>
workerVars == <<focusing, triggers, lossy, lifecycle, input, worker, shown, news>>

NoMessage == [kind |-> "none"]
NoOne == [window |-> Nowhere]
NoSave == [ax |-> 0, ocr |-> 0, image |-> 0, age |-> FocusOutInterval]
NotSent == [ax |-> 0, ocr |-> 0]
NoBackoff == [left |-> 0, span |-> 0]
NotDue == -1

Atleast(m, n) == IF m >= n THEN m ELSE n
Atmost(m, n) == IF m <= n THEN m ELSE n

(***************************************************************************)
(* The triggers                                                             *)
(***************************************************************************)
\* publish_message: a full channel drops the message and counts it.
Offered(m) ==
    IF Len(triggers) < TriggerCapacity
    THEN triggers' = Append(triggers, m) /\ UNCHANGED lossy
    ELSE lossy' = TRUE /\ UNCHANGED triggers

\* The workspace tells this worker first, so that a wake it is told of is
\* queued before the transition the accessibility worker derives from it.
Announce ==
    /\ announcing = NoMessage /\ news < MaxNews
    /\ \E e \in {[kind |-> "wake"]} \cup [kind : {"terminated"}, window : Windows] :
         /\ announcing' = e
         /\ lifecycle' = Append(lifecycle, e)
    /\ news' = news + 1
    /\ UNCHANGED <<focus, unpublished, axEvents, triggers, lossy, input, worker, shown>>

AnnounceToAx ==
    /\ announcing # NoMessage
    /\ axEvents' = Append(axEvents, announcing)
    /\ announcing' = NoMessage
    /\ UNCHANGED <<focus, unpublished, triggers, lossy, lifecycle, input, worker, shown, news>>

Transition(from, to, resynced) ==
    [kind |-> "transition", previous |-> from, current |-> to, resynced |-> resynced]

\* The focus moves, or the window in front changes its title.
FocusMoves ==
    /\ unpublished = NoMessage /\ news < MaxNews
    /\ focus' \in Windows
    /\ unpublished' = Transition(focus, focus', FALSE)
    /\ news' = news + 1
    /\ UNCHANGED <<axEvents, announcing, triggers, lossy, lifecycle, input, worker, shown>>

\* The accessibility worker handles an end or a wake.
HandleWorkspaceEvent ==
    /\ unpublished = NoMessage /\ axEvents # <<>>
    /\ LET e == Head(axEvents)
       IN  \/ /\ e.kind = "wake"
              /\ focus' \in Windows \cup {Nowhere}
              /\ unpublished' = Transition(focus, focus', TRUE)
           \/ /\ e.kind = "terminated"
              /\ IF focus = e.window
                 THEN focus' = Nowhere /\ unpublished' = Transition(focus, Nowhere, FALSE)
                 ELSE UNCHANGED <<focus, unpublished>>
    /\ axEvents' = Tail(axEvents)
    /\ UNCHANGED <<announcing, triggers, lossy, lifecycle, input, worker, shown, news>>

PublishTransition ==
    /\ unpublished # NoMessage
    /\ Offered(unpublished)
    /\ unpublished' = NoMessage
    /\ UNCHANGED <<focus, axEvents, announcing, lifecycle, input, worker, shown, news>>

InputTo(w) == [kind |-> "input", window |-> w]

\* A window shows something else, the user's input or not.  An input to the
\* window of the last message, within its interval, is held back.
ContentsChange(w) ==
    /\ news < MaxNews /\ news' = news + 1
    /\ shown' = [shown EXCEPT ![w] = @ + 1]
    /\ UNCHANGED <<focusing, lifecycle, worker>>
    /\ \/ UNCHANGED <<triggers, lossy, input>>
       \/ /\ focus = w /\ inputSent # w
          /\ Offered(InputTo(w)) /\ inputSent' = w /\ inputHeld' = Nowhere
       \/ /\ focus = w /\ inputSent = w
          /\ inputHeld' = w
          /\ UNCHANGED <<triggers, lossy, inputSent>>

\* Once the interval is over, what was held back is published.
PublishHeldInput ==
    /\ inputHeld # Nowhere /\ inputSent = Nowhere
    /\ Offered(InputTo(inputHeld))
    /\ inputSent' = inputHeld /\ inputHeld' = Nowhere
    /\ UNCHANGED <<focusing, lifecycle, worker, shown, news>>

(***************************************************************************)
(* The scheduler                                                            *)
(***************************************************************************)
NewWatch(w) ==
    [window |-> w, first |-> 0, settle |-> Quiet, refresh |-> Refreshes[1], index |-> 1,
     retry |-> NoMessage, seeded |-> FALSE]

\* arm_settle: quiet from the last change, but not for ever from the first.
ArmSettle(c) ==
    LET first == IF c.settle = NotDue THEN 0 ELSE c.first
    IN  [c EXCEPT !.first = first, !.retry = NoMessage,
                  !.settle = Atmost(Quiet, MaxSettle - first)]

\* push_focus_out: by due time, after those already queued for the same time.
WithFocusOut(queue, candidate) ==
    LET sooner == Picked(queue, {i \in DOMAIN queue : queue[i].due <= candidate.due})
        later  == Picked(queue, {i \in DOMAIN queue : queue[i].due > candidate.due})
    IN  sooner \o <<candidate>> \o later

Reschedule(s) == watched' = s[1] /\ focusOut' = s[2]

\* observe: what the scheduler makes of a trigger, as <<watched, focusOut>>.
Observed(s, w, kind) ==
    LET kept == Picked(s[2], {i \in DOMAIN s[2] : ~(s[2][i].deferred /\ s[2][i].window = w)})
    IN  IF w = Nowhere THEN s
        ELSE IF kind = "focusOut"
        THEN <<IF s[1].window = w THEN NoOne ELSE s[1],
               WithFocusOut(kept, [window |-> w, due |-> 0, deferred |-> FALSE])>>
        ELSE IF s[1].window = w /\ ~s[1].seeded
        THEN <<[ArmSettle(s[1]) EXCEPT !.index = 1, !.refresh = Refreshes[1]], kept>>
        ELSE <<NewWatch(w), kept>>

ObservedTransition(s, t) ==
    LET same == t.previous # Nowhere /\ t.current # Nowhere /\ t.previous = t.current
    IN  Observed(IF same THEN s ELSE Observed(s, t.previous, "focusOut"), t.current,
                 IF same /\ ~t.resynced THEN "title" ELSE "focus")

ObservedInput(s, w) ==
    IF s[1].window # w THEN s
    ELSE <<[ArmSettle([s[1] EXCEPT !.seeded = FALSE])
              EXCEPT !.refresh = Atleast(@, Refreshes[s[1].index])], s[2]>>

Ended == {lifecycle[i].window : i \in {i \in DOMAIN lifecycle : lifecycle[i].kind = "terminated"}}
Woken == \E i \in DOMAIN lifecycle : lifecycle[i].kind = "wake"

\* What wakes and ends of applications leave of <<watched, focusOut>>, in
\* whatever order they came: a wake leaves nothing, an end nothing of its own.
Spared(s) ==
    IF Woken THEN <<NoOne, <<>>>>
    ELSE <<IF s[1].window \in Ended THEN NoOne ELSE s[1],
           Picked(s[2], {i \in DOMAIN s[2] : s[2][i].window \notin Ended})>>

(***************************************************************************)
(* The worker's loop                                                        *)
(***************************************************************************)
\* The filter was replaced: the wait for the window to settle starts over.
ReplaceFilter ==
    /\ step = "receive" /\ news < MaxNews
    /\ news' = news + 1
    /\ IF watched = NoOne THEN UNCHANGED <<watched, backoffs>>
       ELSE /\ watched' = [watched EXCEPT !.first = 0, !.settle = Quiet, !.index = 1,
                                          !.refresh = Refreshes[1], !.retry = NoMessage]
            /\ backoffs' = [backoffs EXCEPT ![watched.window] = NoBackoff]
    /\ UNCHANGED <<focusing, triggers, lossy, lifecycle, input, step, message, focusOut,
                   saved, globalLeft, recognizing, shown, delivered>>

\* recv_timeout: a trigger, or none in time.
ReceiveTrigger ==
    /\ step = "receive"
    /\ \/ /\ triggers # <<>>
          /\ message' = Head(triggers) /\ triggers' = Tail(triggers)
       \/ /\ triggers = <<>>
          /\ message' = NoMessage /\ UNCHANGED triggers
    /\ step' = "lifecycle"
    /\ UNCHANGED <<focusing, lossy, lifecycle, input, scheduled, state, recognizing,
                   shown, delivered, news>>

Heeded(s) ==
    CASE message.kind = "transition" -> ObservedTransition(s, message)
      [] message.kind = "input" -> ObservedInput(s, message.window)
      [] OTHER -> s

\* Mutant of Serviced: the message is observed before the lifecycle events.
ServicedLate(s) == Spared(Heeded(s))

\* A wake is queued before the transition derived from it, so what came before
\* the message is dealt with before the message.
Serviced(s) == Heeded(Spared(s))

ServiceLifecycle ==
    /\ step = "lifecycle"
    /\ Reschedule(Serviced(<<watched, focusOut>>))
    /\ saved' = [w \in Windows |-> IF w \in Ended THEN NoSave ELSE saved[w]]
    /\ backoffs' = [w \in Windows |-> IF w \in Ended THEN NoBackoff ELSE backoffs[w]]
    /\ delivered' = [w \in Windows |-> IF w \in Ended THEN NotSent ELSE delivered[w]]
    /\ lifecycle' = <<>> /\ message' = NoMessage
    /\ step' = "candidates"
    /\ UNCHANGED <<focusing, triggers, lossy, input, globalLeft, recognizing, shown, news>>

(***************************************************************************)
(* Candidates                                                               *)
(***************************************************************************)
Rearmed(index) == Refreshes[Atmost(index + 1, Len(Refreshes))]

Candidate(w, trigger, deferred) == [window |-> w, trigger |-> trigger, deferred |-> deferred]

\* take_due: the candidate that is due, with what is left of the schedule; a
\* window left first, then a retry, a settled window and a refresh.
TakenDue ==
    IF focusOut # <<>> /\ Head(focusOut).due = 0
    THEN [candidate |-> Candidate(Head(focusOut).window, "focusOut", Head(focusOut).deferred),
          watched |-> watched, focusOut |-> Tail(focusOut)]
    ELSE IF watched = NoOne THEN [candidate |-> NoOne]
    ELSE IF watched.retry # NoMessage /\ watched.retry.due = 0
    THEN [candidate |-> Candidate(watched.window, watched.retry.trigger, TRUE),
          watched |-> [watched EXCEPT !.retry = NoMessage], focusOut |-> focusOut]
    ELSE IF watched.settle = 0
    THEN [candidate |-> Candidate(watched.window, "settle", FALSE),
          watched |-> [watched EXCEPT !.settle = NotDue, !.retry = NoMessage],
          focusOut |-> focusOut]
    ELSE IF watched.refresh = 0
    THEN [candidate |-> Candidate(watched.window, "refresh", FALSE),
          watched |-> [watched EXCEPT !.index = Atmost(@ + 1, Len(Refreshes)),
                                      !.refresh = Rearmed(watched.index),
                                      !.retry = NoMessage],
          focusOut |-> focusOut]
    ELSE [candidate |-> NoOne]

\* defer: what the global interval blocks is tried once more when it ends.
Deferred(due, c) ==
    IF c.trigger = "focusOut"
    THEN <<due.watched, WithFocusOut(due.focusOut, [window |-> c.window, due |-> globalLeft,
                                                    deferred |-> TRUE])>>
    ELSE <<[due.watched EXCEPT !.retry = [kind |-> "retry", trigger |-> c.trigger,
                                          due |-> globalLeft]], due.focusOut>>

\* Not of a window that was left in the meantime, nor again so soon after a save.
Timely(c) ==
    IF c.trigger = "focusOut" THEN saved[c.window].age >= FocusOutInterval
    ELSE focus = c.window

Looking == step = "candidates" /\ recognizing = NoOne /\ TakenDue.candidate # NoOne
Taken == watched' = TakenDue.watched /\ focusOut' = TakenDue.focusOut

LookIdle == UNCHANGED <<focusing, triggers, lossy, lifecycle, input, step, message, shown, news>>

\* A gate before the scan is closed.
CandidateDropped ==
    /\ Looking /\ Taken
    /\ LookIdle /\ UNCHANGED <<state, recognizing, delivered>>

CandidateDeferred ==
    /\ Looking
    /\ LET c == TakenDue.candidate
       IN  /\ Timely(c) /\ globalLeft > 0 /\ ~c.deferred
           /\ Reschedule(Deferred(TakenDue, c))
    /\ LookIdle /\ UNCHANGED <<state, recognizing, delivered>>

\* A candidate that reaches the accessibility tree of its window.
Scans(c) == Timely(c) /\ globalLeft = 0 /\ backoffs[c.window].left = 0

\* The delay after a time-out doubles that of the time-out before it.
Doubled(span) == Atmost(BackoffMax, IF span = 0 THEN BackoffFirst ELSE 2 * span)

\* record_failure: another failure waits as long as the first time-out, and
\* breaks the row of them.
FailedOnce(backoff, timedOut) ==
    IF timedOut THEN [left |-> Doubled(backoff.span), span |-> Doubled(backoff.span)]
    ELSE [left |-> Doubled(0), span |-> 0]

ScanFails ==
    /\ Looking /\ Taken
    /\ Scans(TakenDue.candidate)
    /\ \E timedOut \in BOOLEAN :
         backoffs' = [backoffs EXCEPT ![TakenDue.candidate.window] = FailedOnce(@, timedOut)]
    /\ LookIdle /\ UNCHANGED <<saved, globalLeft, recognizing, delivered>>

Cleared(w) == [backoffs EXCEPT ![w] = NoBackoff]

\* The window was read and nothing came of it: no text, a gate, a full channel.
ScanWithoutEvent ==
    /\ Looking /\ Taken
    /\ Scans(TakenDue.candidate)
    /\ backoffs' = Cleared(TakenDue.candidate.window)
    /\ LookIdle /\ UNCHANGED <<saved, globalLeft, recognizing, delivered>>

\* evaluate_save: not what was last saved from the same origin, and not within
\* the interval of another save.
MaySave(w, origin, contents) == saved[w][origin] # contents /\ globalLeft = 0

\* Mutant of Recorded: the picture is remembered, but not the text it gave.
RecordedImageOnly(entry, origin, contents, image) ==
    [entry EXCEPT !.image = image, !.age = 0]

\* reserve, record_hash, record_recognized_image.
Recorded(entry, origin, contents, image) ==
    [entry EXCEPT ![origin] = contents, !.age = 0,
                  !.image = IF origin = "ocr" THEN image ELSE @]

\* The event goes into the channel, and only then is it remembered.
Sends(w, origin, contents, image) ==
    /\ MaySave(w, origin, contents)
    /\ saved' = [saved EXCEPT ![w] = Recorded(saved[w], origin, contents, image)]
    /\ globalLeft' = SaveInterval
    /\ backoffs' = Cleared(w)
    /\ delivered' = [delivered EXCEPT ![w][origin] = contents]

ScanAndSend ==
    /\ Looking /\ Taken
    /\ LET c == TakenDue.candidate
       IN  Scans(c) /\ Sends(c.window, "ax", shown[c.window], 0)
    /\ LookIdle /\ UNCHANGED recognizing

\* A window without enough text, all of whose input fields are known, goes to
\* the recognition thread, with the picture it need not recognise again.
ScanAndRecognize ==
    /\ Looking /\ Taken
    /\ LET c == TakenDue.candidate
       IN  /\ Scans(c)
           /\ recognizing' = [window |-> c.window, walked |-> shown[c.window],
                              stored |-> saved[c.window].image, outcome |-> "none", image |-> 0]
           /\ backoffs' = Cleared(c.window)
    /\ LookIdle /\ UNCHANGED <<saved, globalLeft, delivered>>

\* recognize_window, on the recognition thread: the window as it is by then.
Recognize ==
    /\ recognizing # NoOne /\ recognizing.outcome = "none"
    /\ LET image == shown[recognizing.window]
       IN  recognizing' \in
             {[recognizing EXCEPT !.outcome = "unavailable"],
              [recognizing EXCEPT !.outcome = IF recognizing.stored = image THEN "unchanged"
                                              ELSE "recognized",
                                  !.image = image]}
    /\ UNCHANGED <<focusing, triggers, lossy, lifecycle, input, step, message, scheduled,
                   state, delivered, shown, news>>

Answered == step = "candidates" /\ recognizing # NoOne /\ recognizing.outcome # "none"

\* finish_recognition: what was recognised, or what was walked when nothing was.
FinishAndSend ==
    /\ Answered
    /\ \/ /\ recognizing.outcome = "recognized"
          /\ Sends(recognizing.window, "ocr", recognizing.image, recognizing.image)
       \/ /\ recognizing.outcome = "unavailable"
          /\ Sends(recognizing.window, "ax", recognizing.walked, 0)
    /\ recognizing' = NoOne
    /\ LookIdle /\ UNCHANGED scheduled

\* The window looks as it did, or a gate is closed by now.
FinishWithoutEvent ==
    /\ Answered
    /\ recognizing' = NoOne
    /\ LookIdle /\ UNCHANGED <<scheduled, state, delivered>>

\* Nothing is due, or the recognition is still under way.
LoopAgain ==
    /\ step = "candidates"
    /\ recognizing # NoOne => recognizing.outcome = "none"
    /\ recognizing # NoOne \/ TakenDue.candidate = NoOne
    /\ step' = "receive"
    /\ UNCHANGED <<focusing, triggers, lossy, lifecycle, input, message, scheduled, state,
                   recognizing, shown, delivered, news>>

(***************************************************************************)
(* Stop, start and time                                                     *)
(***************************************************************************)
\* stop: the thread is joined and both channels are emptied, the triggers first.
StopCollector ==
    /\ step \notin {"stopped", "draining"} /\ news < MaxNews
    /\ step' = "draining" /\ triggers' = <<>> /\ lossy' = FALSE
    /\ message' = NoMessage /\ watched' = NoOne /\ focusOut' = <<>> /\ recognizing' = NoOne
    /\ news' = news + 1
    /\ UNCHANGED <<focusing, lifecycle, input, state, delivered, shown>>

StopDrained ==
    /\ step = "draining"
    /\ step' = "stopped" /\ lifecycle' = <<>>
    /\ UNCHANGED <<focusing, triggers, lossy, input, message, scheduled, state, recognizing,
                   delivered, shown, news>>

\* start: the worker watches the window that is in front now; what it saved is kept.
StartCollector ==
    /\ step = "stopped"
    /\ step' = "receive"
    /\ watched' = IF focus = Nowhere THEN NoOne
                  ELSE [NewWatch(focus) EXCEPT !.seeded = TRUE]
    /\ UNCHANGED <<focusing, triggers, lossy, lifecycle, input, message, focusOut, state,
                   recognizing, delivered, shown, news>>

Aged(n) == IF n > 0 THEN n - 1 ELSE n
Nearer(retry) == IF retry = NoMessage THEN retry ELSE [retry EXCEPT !.due = Aged(@)]

\* Time passes while the worker waits for a trigger; its own work takes little
\* of the intervals counted here.
WorkerTick ==
    /\ step = "receive"
    /\ watched' = IF watched = NoOne THEN NoOne
                  ELSE [watched EXCEPT !.first = Atmost(@ + 1, MaxSettle),
                                       !.settle = Aged(@), !.refresh = Aged(@),
                                       !.retry = Nearer(@)]
    /\ focusOut' = [i \in DOMAIN focusOut |-> [focusOut[i] EXCEPT !.due = Aged(@)]]
    /\ saved' = [w \in Windows |-> [saved[w] EXCEPT !.age = Atmost(@ + 1, FocusOutInterval)]]
    /\ globalLeft' = Aged(globalLeft)
    /\ backoffs' = [w \in Windows |-> [backoffs[w] EXCEPT !.left = Aged(@)]]
    /\ inputSent' = Nowhere
    /\ UNCHANGED <<focusing, triggers, lossy, lifecycle, inputHeld, step, message, recognizing,
                   delivered, shown, news>>

WorkerInit ==
    /\ focus \in Windows /\ unpublished = NoMessage
    /\ axEvents = <<>> /\ announcing = NoMessage
    /\ triggers = <<>> /\ lossy = FALSE /\ lifecycle = <<>>
    /\ inputSent = Nowhere /\ inputHeld = Nowhere
    /\ step = "stopped" /\ message = NoMessage /\ watched = NoOne /\ focusOut = <<>>
    /\ saved = [w \in Windows |-> NoSave] /\ globalLeft = 0
    /\ backoffs = [w \in Windows |-> NoBackoff]
    /\ recognizing = NoOne
    /\ shown = [w \in Windows |-> 1] /\ delivered = [w \in Windows |-> NotSent]
    /\ news = 0

\* The worker's own steps, which its thread takes without waiting for others.
Loop == ReceiveTrigger \/ ServiceLifecycle \/ LoopAgain
Save == ScanAndSend \/ FinishAndSend
Decide == CandidateDropped \/ CandidateDeferred \/ ScanFails \/ ScanWithoutEvent
          \/ ScanAndRecognize \/ FinishWithoutEvent

WorkerNext ==
    \/ Announce \/ AnnounceToAx \/ FocusMoves \/ HandleWorkspaceEvent \/ PublishTransition
    \/ \E w \in Windows : ContentsChange(w)
    \/ PublishHeldInput \/ ReplaceFilter
    \/ Loop \/ Decide \/ Save \/ Recognize
    \/ StopCollector \/ StopDrained \/ StartCollector \/ WorkerTick

WorkerSpec == WorkerInit /\ [][WorkerNext]_workerVars

(***************************************************************************)
(* Properties                                                               *)
(***************************************************************************)
WorkerTypeOK ==
    /\ focus \in Windows \cup {Nowhere}
    /\ Len(triggers) <= TriggerCapacity /\ lossy \in BOOLEAN
    /\ step \in {"receive", "lifecycle", "candidates", "draining", "stopped"}
    /\ watched = NoOne \/
         /\ watched.window \in Windows
         /\ watched.settle \in NotDue..Quiet /\ watched.first \in 0..MaxSettle
         /\ watched.index \in DOMAIN Refreshes
         /\ watched.refresh \in 0..Refreshes[watched.index]
    /\ globalLeft \in 0..SaveInterval
    /\ \A w \in Windows : backoffs[w].left \in 0..BackoffMax

Calm ==
    /\ unpublished = NoMessage /\ axEvents = <<>> /\ announcing = NoMessage
    /\ triggers = <<>> /\ lifecycle = <<>> /\ message = NoMessage
    /\ step \notin {"draining", "stopped"}

\* When nothing is under way and no trigger was lost, the worker watches the
\* window in front, over wakes, ends of applications and restarts that race
\* with the transitions (worker.rs:127, trigger.rs:103).
TracksFocus == Calm /\ ~lossy => watched.window = focus

\* Two events in a row from one window and origin differ, and a picture is
\* passed over only when its text was sent (state.rs:106, ocr_engine.rs:235).
SavesWhatChanged ==
    /\ globalLeft' > globalLeft => delivered' # delivered
    /\ recognizing # NoOne /\ recognizing' # NoOne /\ recognizing'.outcome = "unchanged"
         => delivered[recognizing.window].ocr \in {recognizing'.image, 0}
=============================================================================
