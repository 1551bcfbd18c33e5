----------------------------- MODULE LivenessMC -----------------------------
(***************************************************************************)
(* What must eventually happen: a behaviour is one of the pipeline, of the *)
(* main loop, or of the recorders and commands that share a store's lock;  *)
(* the variables of the others stand still.  Two modules may share a       *)
(* variable of one name, since only one of them moves.                     *)
(***************************************************************************)
EXTENDS Ownership, TLC

CONSTANTS
    k1, c1, keys, titles, open, quiet, NoGroup, ax, tap, first, second, third, fourth

VARIABLES
    part,   \* the module whose behaviour this is
    raw, control, waiting, policy, pending, batch, latest, stateDirty,
    health, retryIndex, stored, storedState, ruling, beats, sent, refused,
    lost, goal, promised, heldUnder,
    now, request, store, pc, stop, seen, wanted, paused, suspended,
    running, remaining, draining, gate, permission, cli, kept, failures,
    standing,
    crashes

pipeOnly == <<
    raw, control, waiting, policy, pending, batch, latest, stateDirty,
    health, retryIndex, stored, storedState, ruling, beats, sent, refused,
    lost, goal, promised, heldUnder>>
pauseOnly == <<
    now, request, store, pc, stop, seen, wanted, paused, suspended,
    running, remaining, draining, gate, permission, cli, kept, failures,
    standing>>
ownOnly == <<
    ownLock, ownRecord, recorder, ownBeat, agent, plist, startLock,
    ownCommands, ownCrashes>>

PipeEvents == {k1, c1}

Pipe == INSTANCE Pipeline WITH
    Events <- PipeEvents, Groups <- {keys, titles}, Replacing <- {titles},
    GroupOf <- k1 :> keys @@ c1 :> NoGroup, Ungated <- PipeEvents, Policies <- {open, quiet},
    Admits <- open :> PipeEvents @@ quiet :> {k1},
    ShowsBody <- open :> PipeEvents @@ quiet :> {c1},
    Capacity <- 2, MaxPending <- 2, MaxBatch <- 2, LastDelay <- 0, MaxBeats <- 1,
    MaxCrashes <- 0

\* One command of each kind.
Loop == INSTANCE PauseControl WITH
    Collectors <- {ax, tap}, StopOrder <- <<ax, tap>>, Tap <- tap, Discarding <- {},
    Commands <- {first, second, third, fourth},
    KindOf <- first :> "start" @@ second :> "stop" @@ third :> "pause" @@ fourth :> "resume",
    MaxTime <- 0, MaxFailures <- 1, MaxDeaths <- MaxCrashes, deaths <- crashes

PipeIdle ==
    /\ raw = 0 /\ control = 0 /\ waiting = 0 /\ policy = 0 /\ pending = 0 /\ batch = 0
    /\ latest = 0 /\ stateDirty = 0 /\ health = 0 /\ retryIndex = 0 /\ stored = 0
    /\ storedState = 0 /\ ruling = 0 /\ beats = 0 /\ sent = 0 /\ refused = 0 /\ lost = 0
    /\ goal = 0 /\ promised = 0 /\ heldUnder = 0
LoopIdle ==
    /\ now = 0 /\ request = 0 /\ store = 0 /\ pc = 0 /\ stop = 0 /\ seen = 0
    /\ wanted = 0 /\ paused = 0 /\ suspended = 0 /\ running = 0 /\ remaining = 0
    /\ draining = 0 /\ gate = 0 /\ permission = 0 /\ cli = 0 /\ kept = 0 /\ failures = 0
    /\ standing = 0
OwnIdle ==
    /\ ownLock = 0 /\ ownRecord = 0 /\ recorder = 0 /\ ownBeat = 0 /\ agent = 0
    /\ plist = 0 /\ startLock = 0 /\ ownCommands = 0 /\ ownCrashes = 0

LivenessInit ==
    \/ part = "pipe" /\ Pipe!Init /\ LoopIdle /\ OwnIdle
    \/ part = "loop" /\ Loop!PauseInit /\ PipeIdle /\ OwnIdle /\ client = 0
    \/ part = "own" /\ OwnershipInit /\ PipeIdle /\ LoopIdle /\ crashes = 0

livenessVars == <<part, pipeOnly, pauseOnly, ownOnly, client, crashes>>
pipeVars == <<pipeOnly, client, crashes>>
loopVars == <<pauseOnly, crashes>>

LivenessNext ==
    \/ part = "pipe" /\ Pipe!Next /\ UNCHANGED <<part, pauseOnly, ownOnly>>
    \/ part = "loop" /\ Loop!PauseNext /\ UNCHANGED <<part, pipeOnly, ownOnly, client>>
    \/ part = "own" /\ OwnershipNext /\ UNCHANGED <<part, pipeOnly, pauseOnly, crashes>>

\* The fairness of each module, for its own behaviours.
LivenessSpec == LivenessInit /\ [][LivenessNext]_livenessVars
    /\ WF_pipeVars(part = "pipe" /\ Pipe!Process)
    /\ WF_pipeVars(part = "pipe" /\ Pipe!FlushAndAcknowledge)
    /\ WF_pipeVars(part = "pipe" /\ Pipe!FlushAll)
    /\ WF_pipeVars(part = "pipe" /\ Pipe!HandleWaiter)
    /\ WF_pipeVars(part = "pipe" /\ Pipe!HandleReplace)
    /\ WF_pipeVars(part = "pipe" /\ Pipe!HandleHeartbeat)
    /\ WF_pipeVars(part = "pipe" /\ Pipe!RetryDue)
    /\ SF_pipeVars(part = "pipe" /\ Pipe!Retry /\ Pipe!Accepting')
    /\ WF_loopVars(part = "loop" /\ Loop!MainThread)
    /\ SF_loopVars(part = "loop" /\ Loop!Poll)
    /\ WF_loopVars(part = "loop" /\ Loop!StoreRecovers)
    /\ WF_loopVars(part = "loop" /\ Loop!RelayDrained /\ store = "ok")
    /\ WF_loopVars(part = "loop" /\ Loop!Flushed)
    /\ WF_loopVars(part = "loop" /\ Loop!Release)
    /\ WF_ownVars(part = "own" /\ LaunchdStep)
    /\ WF_ownVars(part = "own" /\ BeatGoesStale)
    /\ \A i \in Instances : WF_ownVars(part = "own" /\ RecorderStep(i))
    /\ \A c \in Clients : WF_ownVars(part = "own" /\ ClientStep(c))

-----------------------------------------------------------------------------
(* The main thread never stays blocked in a flush, a replacement of the    *)
(* filter or the shutdown, and every event a collector sent ends in the    *)
(* store or is refused (module Pipeline; pipeline/worker.rs).              *)
PipelineAnswers ==
    []<>(part = "pipe" => Pipe!Unblocked) /\ []<>(part = "pipe" => Pipe!Settled)

(* A pause that is never lifted ends capture, a resume that is never       *)
(* undone ends the pause, and a daemon told to stop ends (module           *)
(* PauseControl; runtime.rs).                                              *)
RequestsTakeEffect ==
    /\ <>[](part = "loop" /\ Loop!Active(request, now)) => <>[](part = "loop" /\ running = {})
    /\ <>[](part = "loop" /\ Loop!MayCapture) => <>[](part = "loop" /\ ~paused /\ ~suspended)
    /\ []<>(part = "loop" => Loop!Ended)

(* While the service is registered a recorder comes to record (module      *)
(* Ownership; ownership.rs, wait.rs).                                      *)
RecorderComes == []<>(part = "own" => RecorderThere)

(* Probes, refusals, crashes and commands that overlap keep the owner      *)
(* record the holder's and leave no plist without a service; a stop says   *)
(* "stopped" only once it is so, and a start "started" only of a recorder  *)
(* that opened the store and that it watched from first sight (module      *)
(* Ownership; ownership.rs, commands/control.rs, daemon/control/wait.rs).  *)
OwnershipKept ==
    /\ [](part = "own" => OwnershipTypeOK /\ OwnershipSafe)
    /\ [][part = "own" => StopTellsTheTruth /\ StartTellsTheTruth]_livenessVars
=============================================================================
