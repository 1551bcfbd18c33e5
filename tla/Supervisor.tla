----------------------------- MODULE Supervisor -----------------------------
(***************************************************************************)
(* The supervised collectors and the relays between them and the pipeline. *)
(* A collector's worker puts its events into a bounded channel of its own; *)
(* a relay thread hands them to the pipeline's queue, one at a time, and   *)
(* tries again while that is full.  The main thread starts collectors,     *)
(* stops them in a fixed order, with or without waiting for their relays,  *)
(* and at each heartbeat restarts those that ended by themselves, after a  *)
(* delay that grows, and when the permissions they need are there.         *)
(***************************************************************************)
EXTENDS Integers, Sequences, FiniteSets, Functions

CONSTANTS
  Collectors,
  StopOrder,    \* STOP_ORDER
  Guarded,      \* collectors that require a permission
  Discarding,   \* collectors whose relay is never drained
  ChannelSize,  \* COLLECTOR_CHANNEL_CAPACITY of a relay
  QueueSize,    \* COLLECTOR_CHANNEL_CAPACITY of the pipeline
  Delays,       \* RESTART_DELAYS, in heartbeats
  StableAfter,  \* RESTART_STABLE_AFTER, in heartbeats
  MaxEvents,    \* bound on the events of all collectors
  MaxFailures,  \* bound on the exits and failed starts of all collectors
  MaxSwitches   \* bound on pauses, suspensions and changes of permission

ASSUME CollectorsAssumption ==
  /\ IsFiniteSet(Collectors)
  /\ StopOrder \in Seq(Collectors)
  /\ \A c \in Collectors : \E i \in 1 .. Len(StopOrder) : StopOrder[i] = c
  /\ Guarded \subseteq Collectors /\ Discarding \subseteq Collectors
ASSUME SizesAssumption == ChannelSize \in Nat \ {0} /\ QueueSize \in Nat \ {0}
ASSUME DelaysAssumption ==
  /\ Delays \in Seq(Nat \ {0}) /\ Len(Delays) > 0
  /\ \A i, j \in 1 .. Len(Delays) : i <= j => Delays[i] <= Delays[j]
  /\ StableAfter \in Nat \ {0}
ASSUME BoundsAssumption == MaxEvents \in Nat /\ MaxFailures \in Nat /\ MaxSwitches \in Nat

VARIABLES
  m,          \* Managed<C> of each collector, with its worker and its relay
  queue,      \* the pipeline's queue of <<collector, event>>
  pipelineUp, \* the pipeline's thread has not ended
  permission, \* the permission snapshot: "pending", "granted" or "denied"
  active,     \* neither paused nor suspended
  stopping,   \* what the main thread is doing: "no", "drain" or "discard"
  remaining,  \* collectors still to be stopped
  joining,    \* the main thread waits for the relay of the first of them
  ended,      \* the main loop has ended
  due,        \* collectors the heartbeat that is due has still to supervise
  dropped,    \* relay_dropped
  produced,   \* events each collector has sent
  failures, switches,
  \* History, read by the properties only.
  out,        \* events the pipeline took, per collector
  past        \* per collector: how long its relay has been open, or was; how long ago
              \* it last failed with its permissions there; such failures in a row

mainVars    == <<active, stopping, remaining, joining, ended, due>>
vars == <<m, queue, pipelineUp, permission, mainVars, dropped, produced,
          failures, switches, out, past>>

None    == -1
Longest == Delays[Len(Delays)]
Capped(n, cap) == IF n < cap THEN n ELSE cap

\* RestartState: next_attempt as the time left, delay_index up to the last delay.
RestartNew == [timer |-> None, index |-> 0, asked |-> FALSE, reason |-> FALSE]

\* Managed::new.
Idle == [running |-> FALSE, worker |-> "none", relay |-> "none", flag |-> FALSE,
         chan |-> <<>>, held |-> <<>>, report |-> 0, restart |-> RestartNew, age |-> None]

Exits == {"source_closed", "pipeline_closed", "stopped"}

Relays == {"none", "wait", "send"} \union Exits
Managed == [running : BOOLEAN, worker : {"none", "alive", "gone"}, relay : Relays, flag : BOOLEAN,
            chan : Seq(Nat), held : Seq(Nat), report : 0 .. ChannelSize + 1,
            restart : [timer : None .. Longest, index : 0 .. Len(Delays),
                       asked : BOOLEAN, reason : BOOLEAN],
            age : None .. StableAfter]

TypeOK ==
  /\ m \in [Collectors -> Managed]
  /\ \A c \in Collectors :
       /\ Len(m[c].chan) <= ChannelSize /\ Len(m[c].held) <= 1
       /\ m[c].relay = "send" => m[c].held # <<>>
       /\ m[c].running <=> m[c].relay # "none" /\ m[c].worker # "none"
  /\ queue \in Seq(Collectors \X Nat) /\ Len(queue) <= QueueSize
  /\ permission \in {"pending", "granted", "denied"}
  /\ stopping \in {"no", "drain", "discard"} /\ remaining \in Seq(Collectors)
  /\ joining => stopping # "no" /\ remaining # <<>>
  /\ {pipelineUp, active, joining, ended} \subseteq BOOLEAN
  /\ due \subseteq Collectors
  /\ dropped \in [Collectors -> Nat] /\ produced \in [Collectors -> Nat]
  /\ out \in [Collectors -> Seq(Nat)]

Init ==
  /\ m = [c \in Collectors |-> Idle]
  /\ queue = <<>> /\ pipelineUp = TRUE
  /\ permission \in {"pending", "denied"}
  /\ active = FALSE /\ stopping = "no" /\ remaining = <<>> /\ joining = FALSE
  /\ ended = FALSE /\ due = {}
  /\ dropped = [c \in Collectors |-> 0] /\ produced = [c \in Collectors |-> 0]
  /\ failures = 0 /\ switches = 0
  /\ out = [c \in Collectors |-> <<>>]
  /\ past = [c \in Collectors |-> [ran |-> 0, since |-> 0, streak |-> 0]]

-----------------------------------------------------------------------------
(* RestartState.                                                           *)

\* Mutant: every failure sets the first delay.
ScheduleForgetful(r, allowed) ==
  IF allowed
    THEN [r EXCEPT !.timer = Delays[1], !.index = Capped(r.index + 1, Len(Delays)), !.asked = FALSE]
    ELSE [r EXCEPT !.timer = None, !.asked = TRUE]

\* schedule: the next delay if the permissions are there, else wait for them.
Schedule(r, allowed) ==
  IF allowed
    THEN [r EXCEPT !.timer = Delays[Capped(r.index + 1, Len(Delays))],
                   !.index = Capped(r.index + 1, Len(Delays)),
                   !.asked = FALSE]
    ELSE [r EXCEPT !.timer = None, !.asked = TRUE]

\* Mutant: a collector that was refused for want of a permission is forgotten.
ReadyTimed(r, allowed) == ~r.asked /\ (r.timer = None \/ (allowed /\ r.timer = 0))

\* ready.
Ready(r, allowed) ==
  \/ ~r.asked /\ r.timer = None
  \/ r.asked /\ allowed
  \/ allowed /\ r.timer = 0

\* started keeps the delay and the reason, stable (RestartNew) drops them.
Started(r) == [r EXCEPT !.timer = None, !.asked = FALSE]

-----------------------------------------------------------------------------
(* The world: workers, relays, the pipeline, permissions, time.            *)

NoMain  == UNCHANGED <<mainVars, dropped>>
Budgets == UNCHANGED <<failures, switches>>

\* A worker sends an event; if the channel is full it counts it itself.
Produce(c) ==
  /\ m[c].worker = "alive" /\ SumFunction(produced) < MaxEvents
  /\ Len(m[c].chan) < ChannelSize /\ m[c].relay \notin Exits
  /\ produced' = [produced EXCEPT ![c] = @ + 1]
  /\ m' = [m EXCEPT ![c].chan = Append(@, produced'[c])]
  /\ NoMain /\ Budgets
  /\ UNCHANGED <<queue, pipelineUp, permission, out, past>>

\* A worker ends by itself.
WorkerExits(c) ==
  /\ m[c].worker = "alive" /\ failures < MaxFailures
  /\ m' = [m EXCEPT ![c].worker = "gone"]
  /\ failures' = failures + 1
  /\ NoMain
  /\ UNCHANGED <<queue, pipelineUp, permission, produced, switches, out, past>>

RelayStep == NoMain /\ Budgets /\ UNCHANGED <<permission, produced, past>>

\* Mutant: the event in hand is not counted.
RelayTakeUncounted(c) ==
  /\ m[c].relay = "wait"
  /\ \/ /\ m[c].flag
        /\ m' = [m EXCEPT ![c].relay = "stopped", ![c].report = Len(m[c].chan),
                          ![c].chan = <<>>, ![c].held = <<>>]
     \/ /\ ~m[c].flag /\ m[c].held # <<>>
        /\ m' = [m EXCEPT ![c].relay = "send"]
     \/ /\ ~m[c].flag /\ m[c].held = <<>> /\ m[c].chan # <<>>
        /\ m' = [m EXCEPT ![c].relay = "send", ![c].held = <<Head(m[c].chan)>>, ![c].chan = Tail(@)]
     \/ /\ ~m[c].flag /\ m[c].held = <<>> /\ m[c].chan = <<>> /\ m[c].worker # "alive"
        /\ m' = [m EXCEPT ![c].relay = "source_closed"]
  /\ UNCHANGED <<queue, pipelineUp, out>> /\ RelayStep

\* The head of forward's loop: the stop flag, the event that did not fit, the
\* next event, or the end of the source.
RelayTake(c) ==
  /\ m[c].relay = "wait"
  /\ \/ /\ m[c].flag
        /\ m' = [m EXCEPT ![c].relay = "stopped",
                          ![c].report = Len(m[c].chan) + Len(m[c].held),
                          ![c].chan = <<>>, ![c].held = <<>>]
     \/ /\ ~m[c].flag /\ m[c].held # <<>>
        /\ m' = [m EXCEPT ![c].relay = "send"]
     \/ /\ ~m[c].flag /\ m[c].held = <<>> /\ m[c].chan # <<>>
        /\ m' = [m EXCEPT ![c].relay = "send", ![c].held = <<Head(m[c].chan)>>,
                          ![c].chan = Tail(@)]
     \/ /\ ~m[c].flag /\ m[c].held = <<>> /\ m[c].chan = <<>> /\ m[c].worker # "alive"
        /\ m' = [m EXCEPT ![c].relay = "source_closed"]
  /\ UNCHANGED <<queue, pipelineUp, out>> /\ RelayStep

\* Mutant: an event that does not fit goes back to the end of the channel.
RelaySendRequeue(c) ==
  /\ m[c].relay = "send"
  /\ \/ /\ pipelineUp /\ Len(queue) < QueueSize
        /\ queue' = Append(queue, <<c, Head(m[c].held)>>)
        /\ m' = [m EXCEPT ![c].relay = "wait", ![c].held = <<>>]
     \/ /\ pipelineUp /\ Len(queue) >= QueueSize
        /\ m' = [m EXCEPT ![c].relay = "wait", ![c].chan = @ \o m[c].held, ![c].held = <<>>]
        /\ UNCHANGED queue
     \/ /\ ~pipelineUp
        /\ m' = [m EXCEPT ![c].relay = "pipeline_closed", ![c].held = <<>>]
        /\ UNCHANGED queue
  /\ UNCHANGED <<pipelineUp, out>> /\ RelayStep

\* Mutant: the relay waits for room without looking at its stop flag.
RelaySendBlocking(c) ==
  /\ m[c].relay = "send"
  /\ \/ /\ pipelineUp /\ Len(queue) < QueueSize
        /\ queue' = Append(queue, <<c, Head(m[c].held)>>)
        /\ m' = [m EXCEPT ![c].relay = "wait", ![c].held = <<>>]
     \/ /\ ~pipelineUp
        /\ m' = [m EXCEPT ![c].relay = "pipeline_closed", ![c].held = <<>>]
        /\ UNCHANGED queue
  /\ UNCHANGED <<pipelineUp, out>> /\ RelayStep

\* try_send: an event that does not fit is kept and tried again.
RelaySend(c) ==
  /\ m[c].relay = "send"
  /\ \/ /\ pipelineUp /\ Len(queue) < QueueSize
        /\ queue' = Append(queue, <<c, Head(m[c].held)>>)
        /\ m' = [m EXCEPT ![c].relay = "wait", ![c].held = <<>>]
     \/ /\ pipelineUp /\ Len(queue) >= QueueSize
        /\ m' = [m EXCEPT ![c].relay = "wait"]
        /\ UNCHANGED queue
     \/ /\ ~pipelineUp
        /\ m' = [m EXCEPT ![c].relay = "pipeline_closed", ![c].held = <<>>]
        /\ UNCHANGED queue
  /\ UNCHANGED <<pipelineUp, out>> /\ RelayStep

\* The pipeline's worker takes an event off its queue.
Consume ==
  /\ pipelineUp /\ queue # <<>>
  /\ LET c == Head(queue)[1] IN out' = [out EXCEPT ![c] = Append(@, Head(queue)[2])]
  /\ queue' = Tail(queue)
  /\ UNCHANGED <<m, pipelineUp>> /\ RelayStep

PipelineEnds ==
  /\ pipelineUp /\ switches < MaxSwitches
  /\ pipelineUp' = FALSE /\ queue' = <<>> /\ switches' = switches + 1
  /\ NoMain /\ UNCHANGED <<m, permission, produced, failures, out, past>>

PermissionChanges ==
  /\ switches < MaxSwitches /\ switches' = switches + 1
  /\ permission' \in {"granted", "denied"} \ {permission}
  /\ NoMain
  /\ UNCHANGED <<m, queue, pipelineUp, produced, failures, out, past>>

\* A heartbeat interval passes.
Tick ==
  /\ ~ended
  /\ m' = [c \in Collectors |->
             [m[c] EXCEPT !.restart.timer = IF @ > 0 THEN @ - 1 ELSE @,
                          !.age = IF @ = None THEN None ELSE Capped(@ + 1, StableAfter)]]
  /\ due' = IF active /\ stopping = "no" THEN Collectors ELSE due
  /\ past' = [c \in Collectors |->
                [past[c] EXCEPT !.ran = IF m[c].relay \in {"wait", "send"} THEN Capped(@ + 1, StableAfter) ELSE @,
                                !.since = IF past[c].streak = 0 THEN 0 ELSE Capped(@ + 1, Longest)]]
  /\ Budgets
  /\ UNCHANGED <<queue, pipelineUp, permission, active, stopping, remaining, joining,
                 ended, dropped, produced, out>>

-----------------------------------------------------------------------------
(* The main thread.                                                        *)

\* start_managed, with the worker's answer.
StartManaged(r, ok, allowed) ==
  IF r.running THEN r
  ELSE IF ok THEN [r EXCEPT !.running = TRUE, !.worker = "alive", !.relay = "wait",
                            !.flag = FALSE, !.report = 0, !.age = 0,
                            !.restart = Started(r.restart)]
  ELSE [r EXCEPT !.restart = Schedule(r.restart, allowed)]

\* The history of a collector after a start, and after a failure.
Streak(p) == IF p.ran >= StableAfter THEN 0 ELSE p.streak
PastStarted(p) == [p EXCEPT !.ran = 0, !.streak = Streak(p)]
PastFailed(p, allowed) ==
  [ran    |-> 0,
   since  |-> IF allowed THEN 0 ELSE p.since,
   streak |-> IF allowed THEN Capped(Streak(p) + 1, Len(Delays)) ELSE Streak(p)]

Free == stopping = "no" /\ ~ended

\* CollectorSet::start, at the start of the daemon and when it may capture again.
StartAll ==
  /\ Free /\ ~active
  /\ active' = TRUE
  /\ \E bad \in SUBSET Collectors :
       /\ failures + Cardinality(bad) <= MaxFailures
       /\ failures' = failures + Cardinality(bad)
       /\ m' = [c \in Collectors |-> StartManaged(m[c], c \notin bad, TRUE)]
       /\ past' = [c \in Collectors |-> IF c \in bad THEN PastFailed(past[c], TRUE)
                                                      ELSE PastStarted(past[c])]
  /\ UNCHANGED <<queue, pipelineUp, permission, stopping, remaining, joining, ended, due,
                 dropped, produced, switches, out>>

\* Mutant: the collector is still taken for running.
ExitedRunning(r, allowed) ==
  [Idle EXCEPT !.running = TRUE, !.restart = [Schedule(r.restart, allowed) EXCEPT !.reason = TRUE]]

\* A collector whose relay has ended is taken down and given a delay.
Exited(r, allowed) ==
  [Idle EXCEPT !.restart = [Schedule(r.restart, allowed) EXCEPT !.reason = TRUE]]

\* Mutant: a collector that runs is taken for stable.
StableAtOnce(r) == IF r.age = None THEN r ELSE [r EXCEPT !.restart = RestartNew, !.age = None]

\* A collector that has run for a minute is stable.
Stable(r) == IF r.age # None /\ r.age >= StableAfter
               THEN [r EXCEPT !.restart = RestartNew, !.age = None] ELSE r

\* supervise_collector_inner, at the heartbeat.
Supervise(c) ==
  /\ Free /\ active /\ c \in due
  /\ due' = due \ {c}
  /\ LET allowed == permission = "granted" \/ c \notin Guarded
         exits   == m[c].running /\ m[c].relay \in Exits
         r       == IF exits THEN Exited(m[c], allowed) ELSE m[c]
         p       == IF exits THEN PastFailed(past[c], allowed) ELSE past[c]
         tries   == ~r.running /\ ~(permission = "pending" /\ c \in Guarded)
                    /\ Ready(r.restart, allowed)
     IN  /\ dropped' = [dropped EXCEPT ![c] = IF exits THEN @ + m[c].report ELSE @]
         /\ \/ /\ ~tries
               /\ m' = [m EXCEPT ![c] = IF r.running THEN Stable(r) ELSE r]
               /\ past' = [past EXCEPT ![c] = p]
               /\ UNCHANGED failures
            \/ /\ tries
               /\ m' = [m EXCEPT ![c] = StartManaged(r, TRUE, allowed)]
               /\ past' = [past EXCEPT ![c] = PastStarted(p)]
               /\ UNCHANGED failures
            \/ /\ tries /\ failures < MaxFailures
               /\ m' = [m EXCEPT ![c] = StartManaged(r, FALSE, allowed)]
               /\ past' = [past EXCEPT ![c] = PastFailed(p, allowed)]
               /\ failures' = failures + 1
  /\ UNCHANGED <<queue, pipelineUp, permission, active, stopping, remaining, joining,
                 ended, produced, switches, out>>

Stopping == UNCHANGED <<queue, pipelineUp, permission, produced, failures, out, past>>

\* CollectorSet::stop for a pause, CollectorSet::suspend while the store recovers.
Stop(mode) ==
  /\ Free /\ active /\ switches < MaxSwitches
  /\ stopping' = mode /\ remaining' = StopOrder /\ due' = {}
  /\ switches' = switches + 1
  /\ UNCHANGED <<m, active, joining, ended, dropped>> /\ Stopping

\* ensure_pipeline_running: a pipeline that has ended ends the daemon.
PipelineMissed ==
  /\ Free /\ ~pipelineUp
  /\ ended' = TRUE
  /\ stopping' = "discard" /\ remaining' = StopOrder /\ due' = {}
  /\ UNCHANGED <<m, active, joining, dropped, switches>> /\ Stopping

\* Mutant: the relay is awaited while its source is open.
StopOneOpen ==
  /\ stopping # "no" /\ remaining # <<>> /\ ~joining
  /\ LET c       == Head(remaining)
         discard == stopping = "discard" \/ c \in Discarding
     IN  IF m[c].relay = "none"
           THEN /\ m' = [m EXCEPT ![c].age = None]
                /\ remaining' = Tail(remaining) /\ UNCHANGED joining
           ELSE /\ m' = [m EXCEPT ![c].age = None, ![c].flag = discard]
                /\ joining' = TRUE /\ UNCHANGED remaining
  /\ UNCHANGED <<active, stopping, ended, due, dropped, switches>> /\ Stopping

\* stop_collector: the worker ends, then its relay is told to stop or left to
\* drain, ...
StopOne ==
  /\ stopping # "no" /\ remaining # <<>> /\ ~joining
  /\ LET c       == Head(remaining)
         discard == stopping = "discard" \/ c \in Discarding
     IN  IF m[c].relay = "none"
           THEN /\ m' = [m EXCEPT ![c].age = None]
                /\ remaining' = Tail(remaining) /\ UNCHANGED joining
           ELSE /\ m' = [m EXCEPT ![c].running = FALSE, ![c].worker = "none",
                                  ![c].age = None, ![c].flag = discard]
                /\ joining' = TRUE /\ UNCHANGED remaining
  /\ UNCHANGED <<active, stopping, ended, due, dropped, switches>> /\ Stopping

\* ... and is waited for; what it could not hand over is counted.
Joined ==
  /\ joining
  /\ LET c == Head(remaining)
     IN  /\ m[c].relay \in Exits
         /\ m' = [m EXCEPT ![c] = [Idle EXCEPT !.restart = m[c].restart]]
         /\ dropped' = [dropped EXCEPT ![c] = @ + m[c].report]
  /\ joining' = FALSE /\ remaining' = Tail(remaining)
  /\ UNCHANGED <<active, stopping, ended, due, switches>> /\ Stopping

StopDone ==
  /\ stopping # "no" /\ remaining = <<>>
  /\ stopping' = "no" /\ active' = FALSE
  /\ UNCHANGED <<m, remaining, joining, ended, due, dropped, switches>> /\ Stopping

Next ==
  \/ \E c \in Collectors : Produce(c) \/ WorkerExits(c) \/ RelayTake(c) \/ RelaySend(c)
  \/ Consume \/ PipelineEnds \/ PermissionChanges \/ Tick
  \/ StartAll \/ (\E c \in Collectors : Supervise(c))
  \/ Stop("drain") \/ Stop("discard") \/ PipelineMissed
  \/ StopOne \/ Joined \/ StopDone

Spec == Init /\ [][Next]_vars

-----------------------------------------------------------------------------
(* What supervision must guarantee.                                        *)

\* Where a collector's events are: taken by the pipeline, in its queue, in the
\* relay's hand, in the channel.
Taken(c)  == Range(out[c])
Mine(c)   == {i \in 1 .. Len(queue) : queue[i][1] = c}
Queued(c) == {queue[i][2] : i \in Mine(c)}
Held(c)   == Range(m[c].held)
Sent(c)   == Range(m[c].chan)
Line(c)   == Taken(c) \union Queued(c) \union Held(c) \union Sent(c)

\* While the pipeline lives, an event a relay has accepted is in the pipeline, on
\* its way there, or counted as dropped: neither a forced stop with an event in
\* hand nor a full queue, an exit or a restart loses one unseen.
EventsAccounted ==
  pipelineUp => \A c \in Collectors :
    Cardinality(Line(c)) + m[c].report + dropped[c] = produced[c]

\* Events of a collector reach the pipeline in the order they were sent, none
\* twice, through any number of retries, stops and restarts.
Rising(s)   == \A i, j \in 1 .. Len(s) : i < j => s[i] < s[j]
Below(S, T) == \A x \in S, y \in T : x < y
EventsInOrder ==
  \A c \in Collectors :
    /\ Rising(out[c]) /\ Rising(m[c].chan)
    /\ \A i, j \in Mine(c) : i < j => queue[i][2] < queue[j][2]
    /\ Below(Taken(c), Queued(c)) /\ Below(Taken(c) \union Queued(c), Held(c))
    /\ Below(Taken(c) \union Queued(c) \union Held(c), Sent(c))

\* A collector that fails again and again is restarted after growing delays: after
\* the n-th failure in a row no supervision starts it before the n-th delay has
\* passed, pauses and other starts in between notwithstanding.  One that waits for
\* a permission is started as soon as that is granted.
RestartsBackOff ==
  [][\A c \in Collectors :
       active /\ ~m[c].running /\ m'[c].running /\ ~m[c].restart.asked /\ past[c].streak > 0
         => past[c].since >= Delays[past[c].streak]]_vars

\* An exit nobody asked for stays reported until the collector, or at least its
\* relay, has run for the stable time; neither a restart nor a pause takes the
\* report back.
ReportedUntilStable ==
  [][\A c \in Collectors :
       m[c].restart.reason /\ ~m'[c].restart.reason => past[c].ran >= StableAfter]_vars

\* A failing collector is restarted after growing delays, and its failure stays
\* reported until it is stable (supervisor/health.rs).
RestartsPaced == RestartsBackOff /\ ReportedUntilStable

\* Fairness: the threads run and time passes; the pipeline may stand still.
FairSpec ==
  /\ Spec
  /\ WF_vars(Tick)
  /\ \A c \in Collectors : WF_vars(RelayTake(c) \/ RelaySend(c)) /\ WF_vars(Supervise(c))
  /\ WF_vars(PipelineMissed) /\ WF_vars(StopOne) /\ WF_vars(Joined) /\ WF_vars(StopDone)

\* "suspend" never waits for the pipeline: it ends while the queue stays full.
SuspendReturns == stopping = "discard" ~> stopping = "no"

\* A pause waits for the relays, and ends if the pipeline takes events.
PauseReturns == WF_vars(Consume) => (stopping = "drain" ~> stopping = "no")

\* Once capture is wanted and permitted for good, and failures stop, every
\* collector runs for good.
CapturesAgain ==
  WF_vars(Consume) =>
    (<>[](active /\ stopping = "no" /\ pipelineUp /\ permission = "granted")
       => \A c \in Collectors : <>[](m[c].running /\ m[c].worker = "alive"))
=============================================================================
