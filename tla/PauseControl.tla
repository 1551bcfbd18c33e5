---------------------------- MODULE PauseControl ----------------------------
(***************************************************************************)
(* The daemon's main loop and the commands that pause, resume, start and   *)
(* stop it from other processes.  The pause request lives in the store and *)
(* is the only thing the commands and the daemon share: a command probes   *)
(* the store's lock and then writes the request, the daemon polls it.      *)
(* Between the polls the loop also stops capture while the store recovers, *)
(* restarts collectors that failed, and starts the event tap when the      *)
(* permission dialogs have been answered.                                  *)
(***************************************************************************)
EXTENDS Naturals, Sequences

CONSTANTS
  Collectors,  \* the collectors the configuration asks for
  StopOrder,   \* STOP_ORDER
  Tap,         \* the collector behind the start gate
  Discarding,  \* collectors whose relay is never drained
  Commands,    \* commands the user issues, each once
  KindOf,      \* what each command does
  MaxTime,     \* bound on the clock
  MaxFailures, \* bound on the store's failures
  MaxDeaths   \* bound on the daemon's deaths

Kinds == {"pause", "pause_for", "resume", "start", "start_paused", "stop"}

ASSUME CollectorsAssumption ==
  /\ StopOrder \in Seq(Collectors)
  /\ \A c \in Collectors : \E i \in 1 .. Len(StopOrder) : StopOrder[i] = c
  /\ Tap \in Collectors /\ Discarding \subseteq Collectors
ASSUME CommandsAssumption == KindOf \in [Commands -> Kinds]
ASSUME TimesAssumption ==
  MaxTime \in Nat /\ MaxFailures \in Nat /\ MaxDeaths \in Nat

VARIABLES
  now,        \* the clock
  request,    \* paused_until in the store
  store,      \* whether the pipeline takes events: "ok" or "backoff"
  pc,         \* where the daemon's main thread is
  stop,       \* the stop flag of its signal handlers
  seen,       \* paused_until as it was read
  wanted,     \* what the main thread decided: "pause" or "capture"
  paused,
  suspended,  \* intake_suspended
  running,    \* collectors that capture
  remaining,  \* collectors still to be stopped
  draining,   \* the main thread waits for a relay to empty
  gate,       \* EventTapStartGate
  permission, \* the permission dialogs: "asked", "answered" or "done"
  cli,        \* each command: [step, value]
  kept,       \* launchd keeps a recorder running
  failures,   \* store failures so far
  deaths,    \* deaths so far
  \* History, read by the properties only.
  standing    \* a pause request has stood in the store since the daemon last decided

timeVars    == <<now, failures, deaths>>
captureVars == <<paused, suspended, running, remaining, draining, gate, permission>>
pollVars    == <<seen, wanted, standing>>
pauseVars == <<timeVars, request, store, pc, stop, pollVars, captureVars, cli, kept>>

\* paused_until: NULL, a time, or "infinity".
None    == 0
Forever == MaxTime + 1

Active(r, t)  == r > t
Expired(r, t) == r # None /\ r <= t

Steps == {"idle", "issued", "probed", "launching", "done", "failed"}
Places == {"down", "owned", "init", "starting", "loop", "sync", "timers", "deciding",
           "applying", "stopping", "flushing", "heartbeat", "closing", "halting", "joining"}

PauseTypeOK ==
  /\ now \in 0 .. MaxTime
  /\ request \in 0 .. Forever /\ seen \in 0 .. Forever
  /\ store \in {"ok", "backoff"}
  /\ pc \in Places
  /\ wanted \in {"pause", "capture"}
  /\ {stop, paused, suspended, draining, gate, standing, kept} \subseteq BOOLEAN
  /\ running \subseteq Collectors
  /\ remaining \in Seq(Collectors)
  /\ draining => pc \in {"stopping", "halting"} /\ remaining # <<>>
  /\ permission \in {"asked", "answered", "done"}
  /\ cli \in [Commands -> [step : Steps, value : 0 .. Forever]]
  /\ failures \in 0 .. MaxFailures /\ deaths \in 0 .. MaxDeaths

\* What a process starts with.
Fresh ==
  /\ stop' = FALSE /\ seen' = None /\ wanted' = "pause"
  /\ paused' = FALSE /\ suspended' = FALSE
  /\ running' = {} /\ remaining' = <<>> /\ draining' = FALSE
  /\ gate' = TRUE /\ permission' = "asked"
  /\ standing' = FALSE /\ store' = "ok"

PauseInit ==
  /\ now = 0 /\ failures = 0 /\ deaths = 0
  /\ request = None /\ store = "ok"
  /\ pc = "down" /\ stop = FALSE
  /\ seen = None /\ wanted = "pause" /\ standing = FALSE
  /\ paused = FALSE /\ suspended = FALSE
  /\ running = {} /\ remaining = <<>> /\ draining = FALSE
  /\ gate = TRUE /\ permission = "asked"
  /\ cli = [c \in Commands |-> [step |-> "idle", value |-> None]] /\ kept = FALSE

-----------------------------------------------------------------------------
(* The world.                                                              *)

Tick ==
  /\ now < MaxTime
  /\ now' = now + 1
  /\ standing' = (standing /\ Active(request, now'))
  /\ UNCHANGED <<failures, deaths, request, store, pc, stop, seen, wanted,
                 captureVars, cli, kept>>

\* The pipeline's worker enters and leaves its backoff.
StoreFails ==
  /\ pc # "down" /\ store = "ok" /\ failures < MaxFailures
  /\ store' = "backoff" /\ failures' = failures + 1
  /\ UNCHANGED <<now, deaths, request, pc, stop, pollVars, captureVars, cli, kept>>

StoreRecovers ==
  /\ store = "backoff"
  /\ store' = "ok"
  /\ UNCHANGED <<timeVars, request, pc, stop, pollVars, captureVars, cli, kept>>

\* The permission request worker has its result.
Answered ==
  /\ pc # "down" /\ permission = "asked"
  /\ permission' = "answered"
  /\ UNCHANGED <<timeVars, request, store, pc, stop, pollVars, paused, suspended,
                 running, remaining, draining, gate, cli, kept>>

DaemonDies ==
  /\ pc # "down" /\ deaths < MaxDeaths
  /\ deaths' = deaths + 1
  /\ pc' = "down" /\ Fresh
  /\ UNCHANGED <<now, failures, request, cli, kept>>

-----------------------------------------------------------------------------
(* The commands, each a process of its own.                                *)

At(c, step)  == cli[c].step = step
Goto(c, step) == cli' = [cli EXCEPT ![c].step = step]

\* `pause` computes its deadline before it looks for a daemon.
Issue(c) ==
  /\ At(c, "idle")
  /\ KindOf[c] = "pause_for" => now < MaxTime
  /\ cli' = [cli EXCEPT ![c] =
       [step |-> "issued",
        value |-> CASE KindOf[c] = "pause_for" -> now + 1
                    [] KindOf[c] \in {"pause", "start_paused"} -> Forever
                    [] OTHER -> None]]
  /\ UNCHANGED <<timeVars, request, store, pc, stop, pollVars, captureVars, kept>>

\* StoreOwnership::probe.  `pause`, `resume` and `stop` need a daemon, `start`
\* needs none.
Probe(c) ==
  /\ At(c, "issued")
  /\ LET found == pc # "down"
         ok    == found = (KindOf[c] \in {"pause", "pause_for", "resume", "stop"})
     IN  Goto(c, IF ~ok THEN "failed"
                 ELSE IF KindOf[c] = "start" THEN "launching" ELSE "probed")
  /\ UNCHANGED <<timeVars, request, store, pc, stop, pollVars, captureVars, kept>>

\* set_paused_until.
Write(c) ==
  /\ At(c, "probed") /\ KindOf[c] # "stop"
  /\ request' = cli[c].value
  /\ standing' = (standing /\ Active(request', now))
  /\ Goto(c, IF KindOf[c] = "start_paused" THEN "launching" ELSE "done")
  /\ UNCHANGED <<timeVars, store, pc, stop, seen, wanted, captureVars, kept>>

\* `stop` takes the recorder out of launchd, which signals the one it runs.
Signal(c) ==
  /\ At(c, "probed") /\ KindOf[c] = "stop"
  /\ stop' = (stop \/ pc # "down") /\ kept' = FALSE
  /\ Goto(c, "done")
  /\ UNCHANGED <<timeVars, request, store, pc, pollVars, captureVars>>

\* The process a start command launched tries to take the store.
Launch(c) ==
  /\ At(c, "launching")
  /\ IF pc = "down"
       THEN pc' = "owned" /\ Fresh /\ kept' = TRUE /\ Goto(c, "done")
       ELSE /\ Goto(c, "failed")
            /\ UNCHANGED <<pc, store, stop, pollVars, captureVars, kept>>
  /\ UNCHANGED <<timeVars, request>>

\* launchd starts the recorder again after it died.
Relaunch ==
  /\ pc = "down" /\ kept
  /\ pc' = "owned" /\ Fresh
  /\ UNCHANGED <<timeVars, request, cli, kept>>

-----------------------------------------------------------------------------
(* The daemon's main thread.                                               *)

Move(from, to) == pc = from /\ pc' = to
Outside == UNCHANGED <<timeVars, store, stop, cli, kept>>
NoPoll  == UNCHANGED <<request, pollVars>>

\* start_collector for each in turn; each may fail, and is tried again later.
Start(tapAllowed) ==
  \E S \in SUBSET (IF tapAllowed THEN Collectors ELSE Collectors \ {Tap}) :
    running' = running \union S

\* run_daemon reads the status once, before the permission dialogs ...
ReadInitial ==
  /\ Move("owned", "init")
  /\ seen' = request /\ standing' = Active(request, now)
  /\ UNCHANGED <<request, wanted, captureVars>> /\ Outside

\* Mutant: the outcome of the clearing is ignored.
NormalizeIgnoring(next) ==
  /\ pc' = next
  /\ wanted' = IF Active(seen, now) THEN "pause" ELSE "capture"
  /\ IF Expired(seen, now)
       THEN /\ request' = IF request = seen THEN None ELSE request
            /\ standing' = Active(request', now)
       ELSE UNCHANGED <<request, standing>>
  /\ UNCHANGED seen

\* Mutant: the request is cleared whatever it is now.
NormalizeBlindly(next) ==
  /\ pc' = next
  /\ wanted' = IF Active(seen, now) THEN "pause" ELSE "capture"
  /\ IF Expired(seen, now)
       THEN request' = None /\ standing' = FALSE
       ELSE UNCHANGED <<request, standing>>
  /\ UNCHANGED seen

\* Mutant: no request leaves the daemon as it is.
NormalizeSticky(next) ==
  /\ pc' = next
  /\ wanted' = IF seen = None THEN wanted ELSE IF Active(seen, now) THEN "pause" ELSE "capture"
  /\ UNCHANGED <<request, standing, seen>>

\* normalize_pause_request: a request that has run out is cleared, unless
\* another has replaced it since it was read.
Normalize(next) ==
  /\ pc' = next
  /\ IF Expired(seen, now)
       THEN /\ IF request = seen
                 THEN request' = None /\ wanted' = "capture"
                 ELSE UNCHANGED request /\ wanted' = "pause"
            /\ standing' = Active(request', now)
       ELSE /\ wanted' = IF Active(seen, now) THEN "pause" ELSE "capture"
            /\ UNCHANGED <<request, standing>>
  /\ UNCHANGED seen

\* ... and ActiveDaemon::run decides by it afterwards, unless a stop came first.
Run ==
  /\ pc = "init"
  /\ \/ stop /\ pc' = "closing" /\ NoPoll
     \/ ~stop /\ Normalize("starting")
  /\ UNCHANGED captureVars /\ Outside

\* The event tap waits for the permission dialogs if it has no permission yet.
Begin ==
  /\ Move("starting", "loop")
  /\ paused' = (wanted = "pause")
  /\ gate' \in BOOLEAN
  /\ IF paused' THEN UNCHANGED running ELSE Start(gate')
  /\ UNCHANGED <<suspended, remaining, draining, permission>>
  /\ NoPoll /\ Outside

\* Mutant: a paused loop does not look at the stop flag.
TopPaused ==
  /\ pc = "loop"
  /\ \/ stop /\ ~paused /\ pc' = "closing"
     \/ (~stop \/ paused) /\ pc' = "sync"
  /\ UNCHANGED captureVars /\ NoPoll /\ Outside

\* The head of the loop: the stop flag, then poll_permission_request.
Top ==
  /\ pc = "loop"
  /\ \/ stop /\ pc' = "closing" /\ UNCHANGED captureVars
     \/ /\ ~stop /\ pc' = "sync"
        /\ IF permission = "answered"
             THEN /\ permission' = "done" /\ gate' = TRUE
                  /\ IF paused \/ suspended
                       THEN UNCHANGED running
                       ELSE \E S \in SUBSET {Tap} : running' = running \union S
             ELSE UNCHANGED <<permission, gate, running>>
        /\ UNCHANGED <<paused, suspended, remaining, draining>>
  /\ NoPoll /\ Outside

\* Mutant: capture restarts with the store, paused or not.
SyncIntakeAlways ==
  /\ Move("sync", "timers")
  /\ \/ /\ store = "backoff" /\ ~suspended
        /\ suspended' = TRUE /\ running' = {}
     \/ /\ store = "ok" /\ suspended
        /\ suspended' = FALSE /\ Start(gate)
     \/ /\ suspended = (store = "backoff")
        /\ UNCHANGED <<suspended, running>>
  /\ UNCHANGED <<paused, remaining, draining, gate, permission>>
  /\ NoPoll /\ Outside

\* sync_store_intake.
SyncIntake ==
  /\ Move("sync", "timers")
  /\ \/ /\ store = "backoff" /\ ~suspended
        /\ suspended' = TRUE /\ running' = {}
     \/ /\ store = "ok" /\ suspended
        /\ suspended' = FALSE
        /\ IF paused THEN UNCHANGED running ELSE Start(gate)
     \/ /\ suspended = (store = "backoff")
        /\ UNCHANGED <<suspended, running>>
  /\ UNCHANGED <<paused, remaining, draining, gate, permission>>
  /\ NoPoll /\ Outside

\* The pause poll is due, or not.
Poll ==
  /\ Move("timers", "deciding")
  /\ seen' = request /\ standing' = Active(request, now)
  /\ UNCHANGED <<request, wanted, captureVars>> /\ Outside

NoPollYet ==
  /\ Move("timers", "heartbeat")
  /\ NoPoll /\ UNCHANGED captureVars /\ Outside

\* A status that cannot be read ends the loop.
PollFails ==
  /\ Move("timers", "closing")
  /\ failures < MaxFailures /\ failures' = failures + 1
  /\ UNCHANGED <<now, deaths, store, stop, cli, kept, captureVars>> /\ NoPoll

Decide ==
  /\ pc = "deciding"
  /\ Normalize("applying")
  /\ UNCHANGED captureVars /\ Outside

\* Mutant: a resume starts capture while the store recovers.
ApplyUnsuspended ==
  /\ pc = "applying"
  /\ IF wanted = "pause" /\ ~paused
       THEN /\ pc' = "stopping" /\ remaining' = StopOrder
            /\ UNCHANGED <<paused, running>>
       ELSE /\ pc' = "heartbeat"
            /\ paused' = (wanted = "pause")
            /\ IF wanted = "capture" /\ paused THEN Start(gate) ELSE UNCHANGED running
            /\ UNCHANGED remaining
  /\ UNCHANGED <<suspended, draining, gate, permission>>
  /\ NoPoll /\ Outside

\* The rest of update_pause_state.
Apply ==
  /\ pc = "applying"
  /\ IF wanted = "pause" /\ ~paused
       THEN /\ pc' = "stopping" /\ remaining' = StopOrder
            /\ UNCHANGED <<paused, running>>
       ELSE /\ pc' = "heartbeat"
            /\ paused' = (wanted = "pause")
            /\ IF wanted = "capture" /\ paused /\ ~suspended
                 THEN Start(gate) ELSE UNCHANGED running
            /\ UNCHANGED remaining
  /\ UNCHANGED <<suspended, draining, gate, permission>>
  /\ NoPoll /\ Outside

\* Mutant: the collector is crossed off before its relay is empty.
StopCollectorEarly ==
  /\ pc \in {"stopping", "halting"}
  /\ remaining # <<>> /\ ~draining
  /\ LET c == Head(remaining)
     IN  /\ running' = running \ {c}
         /\ draining' = (c \in running /\ c \notin Discarding)
         /\ remaining' = Tail(remaining)
  /\ UNCHANGED <<pc, paused, suspended, gate, permission>>
  /\ NoPoll /\ Outside

\* stop_in_order: a collector is stopped, and the main thread waits until its
\* relay has handed over what it holds, for which the pipeline's queue needs room.
StopCollector ==
  /\ pc \in {"stopping", "halting"}
  /\ remaining # <<>> /\ ~draining
  /\ LET c == Head(remaining)
     IN  /\ running' = running \ {c}
         /\ draining' = (c \in running /\ c \notin Discarding)
         /\ remaining' = IF draining' THEN remaining ELSE Tail(remaining)
  /\ UNCHANGED <<pc, paused, suspended, gate, permission>>
  /\ NoPoll /\ Outside

RelayDrained ==
  /\ draining
  /\ draining' = FALSE /\ remaining' = Tail(remaining)
  /\ UNCHANGED <<pc, paused, suspended, running, gate, permission>>
  /\ NoPoll /\ Outside

Stopped ==
  /\ pc \in {"stopping", "halting"}
  /\ remaining = <<>>
  /\ pc' = IF pc = "stopping" THEN "flushing" ELSE "joining"
  /\ UNCHANGED captureVars /\ NoPoll /\ Outside

\* Pipeline::flush returns; the pipeline answers only after a write.
Flushed ==
  /\ Move("flushing", "heartbeat")
  /\ store = "ok"
  /\ paused' = TRUE
  /\ UNCHANGED <<suspended, running, remaining, draining, gate, permission>>
  /\ NoPoll /\ Outside

\* The heartbeat, when it is due, tries collectors that are not running again.
BeatAndRestart ==
  /\ Move("heartbeat", "loop")
  /\ IF paused \/ suspended THEN UNCHANGED running ELSE Start(gate)
  /\ UNCHANGED <<paused, suspended, remaining, draining, gate, permission>>
  /\ NoPoll /\ Outside

\* shutdown_daemon: collectors are drained if the pipeline takes events, ...
Close ==
  /\ pc = "closing"
  /\ IF store = "ok"
       THEN pc' = "halting" /\ remaining' = StopOrder /\ UNCHANGED running
       ELSE pc' = "joining" /\ running' = {} /\ UNCHANGED remaining
  /\ UNCHANGED <<paused, suspended, draining, gate, permission>>
  /\ NoPoll /\ Outside

\* ... the pipeline ends after its last write, and the store is released.
Release ==
  /\ Move("joining", "down")
  /\ store = "ok"
  /\ Fresh
  /\ UNCHANGED <<timeVars, request, cli, kept>>

MainThread ==
  \/ ReadInitial \/ Run \/ Begin \/ Top \/ SyncIntake \/ Poll \/ NoPollYet
  \/ Decide \/ Apply \/ StopCollector \/ Stopped \/ BeatAndRestart \/ Close

PauseNext ==
  \/ Tick \/ StoreFails \/ StoreRecovers \/ Answered \/ DaemonDies
  \/ \E c \in Commands : Issue(c) \/ Probe(c) \/ Write(c) \/ Signal(c) \/ Launch(c)
  \/ Relaunch
  \/ ReadInitial \/ Run \/ Begin
  \/ Top \/ SyncIntake \/ Poll \/ NoPollYet \/ PollFails \/ Decide \/ Apply
  \/ StopCollector \/ RelayDrained \/ Stopped \/ Flushed \/ BeatAndRestart
  \/ Close \/ Release

PauseSpec == PauseInit /\ [][PauseNext]_pauseVars

-----------------------------------------------------------------------------
(* What pausing must mean.                                                 *)

\* While a pause request has stood in the store ever since the daemon last
\* decided by it, nothing is captured, except while that decision is being
\* carried out: no recovery of the store, permission dialog, restart of a
\* collector or start of the daemon brings capture back.
PausedIsQuiet ==
  standing /\ pc \notin {"deciding", "applying", "stopping"} => running = {}

\* "Capture intake is stopped while the store recovers": from the moment the
\* loop has noticed until it notices the recovery, no resume, dialog or
\* restart starts a collector.
SuspendedIsQuiet == suspended => running = {}

\* Neither the user's pause nor the store's recovery is undone by anything else.
PauseHolds == PausedIsQuiet /\ SuspendedIsQuiet

\* A request that is in force leaves the store only by a command of the user:
\* the daemon's clearing of one that has run out never takes a newer one.
PauseIsTheUsers ==
  [][Active(request, now) /\ request' # request => cli' # cli]_pauseVars

\* "--paused fails when another recorder already owns the store, without
\* changing that recorder's pause state": a pause in the store was put there
\* by a command that did not fail.
PauseIsOfASuccess ==
  request # None =>
    \E c \in Commands : KindOf[c] \in {"pause", "pause_for", "start_paused"}
                          /\ cli[c].step \in {"launching", "done"}

\* Fairness: the main thread keeps running and its timers elapse, the store
\* recovers, and a pipeline that takes events empties the relays and answers.
FairPauseSpec ==
  /\ PauseSpec
  /\ WF_pauseVars(MainThread) /\ SF_pauseVars(Poll)
  /\ WF_pauseVars(StoreRecovers)
  /\ WF_pauseVars(RelayDrained /\ store = "ok") /\ WF_pauseVars(Flushed) /\ WF_pauseVars(Release)

\* A pause that is never lifted ends capture for good, whatever else happens.
PauseTakesEffect == <>[]Active(request, now) => <>[](running = {})

\* A resume that is never undone ends the pause and the suspension, if the
\* daemon lives on and the store stays well.
MayCapture == request = None /\ store = "ok" /\ pc \notin {"down", "closing", "halting", "joining"}
ResumeTakesEffect == <>[]MayCapture => <>[](~paused /\ ~suspended)

\* A daemon that is told to stop ends, also from within a pause.
Ended == stop => pc = "down"
StopEnds == []<>Ended
=============================================================================
