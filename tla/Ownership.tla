---------------------------- MODULE Ownership ----------------------------
(***************************************************************************)
(* Who may record into a store.  A recorder owns the store while it holds  *)
(* the flock of <store>.lock; the file's text names the owner (the "owner  *)
(* record") and outlives it.  Every command that wants to know the owner   *)
(* probes: it tries the very same exclusive lock, lets it go again, or,    *)
(* when it is refused, reads the owner record.  `zanei start` drives       *)
(* launchd (bootout, removal, plist, bootstrap, wait for the heartbeat)    *)
(* under a start lock of its own; `zanei stop` does not take that lock.    *)
(*                                                                         *)
(* Sources: zanei-cli daemon/ownership.rs, daemon/control.rs and its       *)
(* submodules, commands/control.rs, daemon/runtime.rs (start and end of a  *)
(* recorder), daemon/shutdown.rs.                                          *)
(***************************************************************************)
EXTENDS Naturals, FiniteSets

CONSTANTS Clients,        \* command processes (model values)
          Free, NoFile,   \* model values: lock not held; lock file not created yet
          MaxInstances,   \* recorders that ever claim the store
          Attempts,       \* OWNER_READ_ATTEMPTS
          StartPolls,     \* polls within DAEMON_CONTROL_TIMEOUT
          OpenPolls,      \* polls within STORE_OPEN_TIMEOUT
          MaxCommands,    \* bound: commands the users give
          MaxCrashes      \* bound: recorders that die or fail to open the store

ASSUME OwnershipAssumption ==
    /\ IsFiniteSet(Clients)
    /\ ({Free} \cup Clients) \cap (1 .. MaxInstances) = {} /\ Free \notin Clients
    /\ NoFile \notin 0 .. MaxInstances
    /\ \A n \in {MaxInstances, Attempts, StartPolls, OpenPolls} : n \in Nat \ {0}
    /\ MaxCommands \in Nat /\ MaxCrashes \in Nat /\ StartPolls <= OpenPolls

VARIABLES ownLock,      \* Free, a recorder, or a probing command
          ownRecord,    \* NoFile, 0 (empty or half written), or the recorder it names
          recorder,     \* recorder -> its stage, mode and whether it was told to stop
          ownBeat,      \* the recorder whose heartbeat in the store is fresh, or 0
          agent,        \* launchd's service: absent, registered, leaving
          plist,        \* whether the launch agent's plist is installed
          startLock,    \* Free or the command that holds the start lock
          client,       \* command process -> where it stands
          ownCommands, ownCrashes
ownVars == <<ownLock, ownRecord, recorder, ownBeat, agent, plist, startLock,
             client, ownCommands, ownCrashes>>

Instances == 1 .. MaxInstances
Modes == {"launchd", "foreground"}
Alive(i) == recorder[i].stage \notin {"unborn", "gone"}
HoldsStore(i) == recorder[i].stage \in {"claimed", "truncated", "opening", "recording", "closing"}
Unborn == [stage |-> "unborn", mode |-> "launchd", term |-> FALSE]
AgentRuns == \E i \in Instances : recorder[i].mode = "launchd" /\ Alive(i)

-----------------------------------------------------------------------------
(* The recorder's side *)

Launch(i, mode) ==
    /\ recorder[i].stage = "unborn"
    /\ \A j \in Instances : j < i => recorder[j].stage # "unborn"
    /\ recorder' = [recorder EXCEPT ![i] = [stage |-> "launched", mode |-> mode, term |-> FALSE]]
    /\ UNCHANGED <<ownLock, ownRecord, ownBeat, agent, plist, startLock, client, ownCrashes>>

\* Mutant: RunAtLoad without KeepAlive.
AgentSpawnsOnce == /\ agent = "registered" /\ \A i \in Instances : recorder[i].stage = "unborn"
                   /\ \E i \in Instances : Launch(i, "launchd")
                   /\ UNCHANGED ownCommands

\* KeepAlive: launchd runs the service again whenever it is not running.
AgentSpawns == /\ agent = "registered" /\ ~AgentRuns
               /\ \E i \in Instances : Launch(i, "launchd")
               /\ UNCHANGED ownCommands

\* `zanei start --foreground` becomes the recorder; it does not probe first.
ForegroundStart == /\ ownCommands < MaxCommands
                   /\ ownCommands' = ownCommands + 1
                   /\ \E i \in Instances : Launch(i, "foreground")

StageTo(i, from, to) == /\ recorder[i].stage = from
                        /\ recorder' = [recorder EXCEPT ![i].stage = to]

\* acquire: the lock is taken first, the owner record still names whoever was last.
Claim(i) ==
    /\ ownLock = Free
    /\ StageTo(i, "launched", "claimed")
    /\ ownLock' = i
    /\ ownRecord' = IF ownRecord = NoFile THEN 0 ELSE ownRecord
    /\ UNCHANGED <<ownBeat, agent, plist, startLock, client, ownCommands, ownCrashes>>

\* Mutant: the lock file is opened with truncation, before the lock is tried.
RefusedAfterTruncate(i) ==
    /\ ownLock # Free
    /\ recorder[i].stage = "launched"
    /\ recorder' = [recorder EXCEPT ![i] = Unborn]
    /\ ownRecord' = 0
    /\ UNCHANGED <<ownLock, ownBeat, agent, plist, startLock, client, ownCommands, ownCrashes>>

\* acquire finds the lock taken, by a recorder or by a probe, and gives up.
Refused(i) ==
    /\ ownLock # Free
    /\ recorder[i].stage = "launched"
    /\ recorder' = [recorder EXCEPT ![i] = Unborn]
    /\ UNCHANGED <<ownLock, ownRecord, ownBeat, agent, plist, startLock, client, ownCommands, ownCrashes>>

\* write_owner empties the file, then writes the record.
TruncateOwner(i) ==
    /\ StageTo(i, "claimed", "truncated")
    /\ ownRecord' = 0
    /\ UNCHANGED <<ownLock, ownBeat, agent, plist, startLock, client, ownCommands, ownCrashes>>

WriteOwner(i) ==
    /\ StageTo(i, "truncated", "opening")
    /\ ownRecord' = i
    /\ UNCHANGED <<ownLock, ownBeat, agent, plist, startLock, client, ownCommands, ownCrashes>>

\* The store is opened and the initial heartbeat written.
FirstHeartbeat(i) ==
    /\ StageTo(i, "opening", "recording")
    /\ ownBeat' = i
    /\ UNCHANGED <<ownLock, ownRecord, agent, plist, startLock, client, ownCommands, ownCrashes>>

\* shutdown_daemon: the heartbeat is cleared while the store is still owned ...
ClearHeartbeat(i) ==
    /\ recorder[i].term
    /\ StageTo(i, "recording", "closing")
    /\ ownBeat' = 0
    /\ UNCHANGED <<ownLock, ownRecord, agent, plist, startLock, client, ownCommands, ownCrashes>>

\* ... and the lock let go when the recorder's thread ends.  The record stays.
Release(i) ==
    /\ StageTo(i, "closing", "gone")
    /\ ownLock' = Free
    /\ UNCHANGED <<ownRecord, ownBeat, agent, plist, startLock, client, ownCommands, ownCrashes>>

\* SIGTERM before the handlers are installed ends the process.
DiesUnhandled(i) ==
    /\ recorder[i].term
    /\ recorder[i].stage = "launched"
    /\ recorder' = [recorder EXCEPT ![i] = Unborn]
    /\ UNCHANGED <<ownLock, ownRecord, ownBeat, agent, plist, startLock, client, ownCommands, ownCrashes>>

\* The process dies, or opening the store fails: the kernel (or Drop) frees the lock.
Dies(i) ==
    /\ ownCrashes < MaxCrashes
    /\ HoldsStore(i)
    /\ recorder' = [recorder EXCEPT ![i].stage = "gone"]
    /\ ownLock' = Free
    /\ ownCrashes' = ownCrashes + 1
    /\ UNCHANGED <<ownRecord, ownBeat, agent, plist, startLock, client, ownCommands>>

\* A heartbeat nobody renews stops counting as fresh.
BeatGoesStale ==
    /\ ownBeat # 0 /\ ~Alive(ownBeat)
    /\ ownBeat' = 0
    /\ UNCHANGED <<ownLock, ownRecord, recorder, agent, plist, startLock, client, ownCommands, ownCrashes>>

\* launchd drops the service once its process is gone.
AgentRemoved ==
    /\ agent = "leaving" /\ ~AgentRuns
    /\ agent' = "absent"
    /\ UNCHANGED <<ownLock, ownRecord, recorder, ownBeat, plist, startLock, client, ownCommands, ownCrashes>>

-----------------------------------------------------------------------------
(* The commands.  `at` is where a command stands; a probe returns its      *)
(* answer (0 for no owner) to the place `then` names.                      *)

IdleClient == [at |-> "idle", then |-> "-", tries |-> 0, answer |-> 0, target |-> 0,
               beat |-> 0, seen |-> 0, polls |-> 0, result |-> "-"]
ClientPlaces == {"idle", "try", "held", "read", "found", "confirm", "signal", "bootout", "unlink",
                 "exit", "removal", "fresh", "lock", "prepare", "install", "bootstrap", "wait", "ready"}

Goto(c, fields) ==
    client' = [client EXCEPT ![c] = [k \in DOMAIN @ |-> IF k \in DOMAIN fields THEN fields[k] ELSE @[k]]]
Probing(then) == [at |-> "try", then |-> then, tries |-> 0]
\* A command's process ends, and with it the start lock it may hold.
Leaves(c, result, who) ==
    /\ client' = [client EXCEPT ![c] = [IdleClient EXCEPT !.result = result, !.target = who]]
    /\ startLock' = IF startLock = c THEN Free ELSE startLock
Finish(c, result) == Leaves(c, result, 0)

At(c, place) == client[c].at = place
Starting(c) == startLock = c      \* only `start` passes a bootout with this lock in hand

\* probe: nothing to lock, or the lock is taken for a moment, or it is refused.
ProbeTry(c) ==
    /\ At(c, "try")
    /\ \/ /\ ownRecord = NoFile
          /\ Goto(c, [at |-> client[c].then, answer |-> 0])
          /\ UNCHANGED ownLock
       \/ /\ ownRecord # NoFile /\ ownLock = Free
          /\ ownLock' = c
          /\ Goto(c, [at |-> "held"])
       \/ /\ ownRecord # NoFile /\ ownLock # Free
          /\ Goto(c, [at |-> "read"])
          /\ UNCHANGED ownLock
    /\ UNCHANGED <<ownRecord, recorder, ownBeat, agent, plist, startLock, ownCommands, ownCrashes>>

ProbeUnlock(c) ==
    /\ At(c, "held")
    /\ ownLock' = Free
    /\ Goto(c, [at |-> client[c].then, answer |-> 0])
    /\ UNCHANGED <<ownRecord, recorder, ownBeat, agent, plist, startLock, ownCommands, ownCrashes>>

\* read_owner_with_retry: whatever record is there, however it got there.
ProbeRead(c) ==
    /\ At(c, "read") /\ ownRecord \in Instances
    /\ Goto(c, [at |-> client[c].then, answer |-> ownRecord])
    /\ UNCHANGED <<ownLock, ownRecord, recorder, ownBeat, agent, plist, startLock, ownCommands, ownCrashes>>

ProbeReadsNothing(c) ==
    /\ At(c, "read") /\ ownRecord = 0
    /\ IF client[c].tries + 1 < Attempts
       THEN Goto(c, [tries |-> client[c].tries + 1]) /\ UNCHANGED startLock
       ELSE Finish(c, "invalid_metadata")
    /\ UNCHANGED <<ownLock, ownRecord, recorder, ownBeat, agent, plist, ownCommands, ownCrashes>>

Begin(c, then) ==
    /\ At(c, "idle") /\ ownCommands < MaxCommands
    /\ ownCommands' = ownCommands + 1
    /\ client' = [client EXCEPT ![c] = [IdleClient EXCEPT !.at = "try", !.then = then]]
    /\ UNCHANGED <<ownLock, ownRecord, recorder, ownBeat, agent, plist, startLock, ownCrashes>>

\* `zanei status`, and the check `pause` and `resume` make: one probe.
BeginStatus(c) == Begin(c, "idle")

-----------------------------------------------------------------------------
(* zanei stop *)

BeginStop(c) == Begin(c, "found")

\* Only a command's own place changes.
Steps(c, fields) ==
    /\ Goto(c, fields)
    /\ UNCHANGED <<ownLock, ownRecord, recorder, ownBeat, agent, plist, startLock, ownCommands, ownCrashes>>
EndsWith(c, result, who) ==
    /\ Leaves(c, result, who)
    /\ UNCHANGED <<ownLock, ownRecord, recorder, ownBeat, agent, plist, ownCommands, ownCrashes>>
Ends(c, result) == EndsWith(c, result, 0)

StopFound(c) ==
    /\ At(c, "found")
    /\ IF client[c].answer = 0 THEN Ends(c, "no_daemon")
       ELSE Steps(c, [at |-> "try", then |-> "confirm", tries |-> 0, target |-> client[c].answer])

\* confirm_target: the same instance twice, or nothing is signalled.
StopConfirmed(c) ==
    /\ At(c, "confirm")
    /\ IF client[c].answer # client[c].target THEN Ends(c, "instance_changed")
       ELSE IF recorder[client[c].target].mode = "foreground" THEN Steps(c, [at |-> "signal"])
       ELSE IF agent = "absent" THEN Ends(c, "not_registered")
       ELSE Steps(c, [at |-> "bootout"])

StopSignals(c) ==
    /\ At(c, "signal")
    /\ \/ /\ Alive(client[c].target)
          /\ recorder' = [recorder EXCEPT ![client[c].target].term = TRUE]
          /\ Goto(c, Probing("exit"))
          /\ UNCHANGED <<ownLock, ownRecord, ownBeat, agent, plist, startLock, ownCommands, ownCrashes>>
       \/ /\ ~Alive(client[c].target)
          /\ Ends(c, "command_failed")

\* launchctl bootout: the service leaves, its process is told to stop.
Bootout(c) ==
    /\ At(c, "bootout")
    /\ \/ /\ agent = "registered"
          /\ agent' = "leaving"
          /\ recorder' = [i \in Instances |-> IF recorder[i].mode = "launchd" /\ Alive(i)
                                              THEN [recorder[i] EXCEPT !.term = TRUE] ELSE recorder[i]]
          /\ Goto(c, [at |-> "unlink"])
          /\ UNCHANGED <<ownLock, ownRecord, ownBeat, plist, startLock, ownCommands, ownCrashes>>
       \/ /\ agent # "registered"
          /\ Ends(c, "command_failed")

\* ... and bootout removes the plist, when launchctl is done.
Unlink(c) ==
    /\ At(c, "unlink")
    /\ plist' = FALSE
    /\ IF client[c].result = "locked" THEN Finish(c, "store_locked")
       ELSE /\ Goto(c, IF Starting(c) THEN [at |-> "removal"] ELSE Probing("exit"))
            /\ UNCHANGED startLock
    /\ UNCHANGED <<ownLock, ownRecord, recorder, ownBeat, agent, ownCommands, ownCrashes>>

\* Mutant: the heartbeat is watched instead of the lock.
BeatIsGone(c) == ownBeat # client[c].target

\* wait_for_daemon_exit: no owner, or another one.
Exited(c) == client[c].answer # client[c].target

StopWaits(c) ==
    /\ At(c, "exit")
    /\ IF ~Exited(c)
       THEN IF client[c].polls + 1 < StartPolls
            THEN Steps(c, [at |-> "try", then |-> "exit", tries |-> 0, polls |-> client[c].polls + 1])
            ELSE Ends(c, "stop_timeout")
       ELSE IF recorder[client[c].target].mode = "foreground" THEN EndsWith(c, "stopped", client[c].target)
       ELSE Steps(c, [at |-> "removal"])

\* wait_for_launch_agent_removal, which may give up while launchd still lists the service.
RemovalSeen(c) ==
    /\ At(c, "removal")
    /\ \/ /\ agent = "absent"
          /\ IF Starting(c) THEN Steps(c, [at |-> "install"]) ELSE EndsWith(c, "stopped", client[c].target)
       \/ /\ agent # "absent"
          /\ Ends(c, "still_loaded")

-----------------------------------------------------------------------------
(* zanei start, in the background *)

BeginStart(c) == Begin(c, "fresh")

StartChecked(c) ==
    /\ At(c, "fresh")
    /\ IF client[c].answer # 0 THEN Ends(c, "store_owned") ELSE Steps(c, [at |-> "lock"])

\* validate_owner_only_directory: others could write to the lock's directory, by mode or by
\* an ACL, or the lock file is not the user's.
DirectoryRefused(c) == At(c, "lock") /\ Ends(c, "file_error")

\* open_start_lock never waits: another start in progress fails this one.
StartLocks(c) ==
    /\ At(c, "lock")
    /\ \/ /\ startLock = Free
          /\ startLock' = c
          /\ Goto(c, [at |-> "prepare"])
          /\ UNCHANGED <<ownLock, ownRecord, recorder, ownBeat, agent, plist, ownCommands, ownCrashes>>
       \/ /\ startLock # Free
          /\ Ends(c, "start_in_progress")

\* The plist is written beside its final place before anything is torn down;
\* that may fail.  A registered service is booted out first.
StartPrepares(c) ==
    /\ At(c, "prepare")
    /\ \/ Ends(c, "file_error")
       \/ Steps(c, [at |-> IF agent = "absent" THEN "install" ELSE "bootout"])

InstallPlist(c) ==
    /\ At(c, "install")
    /\ plist' = TRUE
    /\ Goto(c, [at |-> "bootstrap"])
    /\ UNCHANGED <<ownLock, ownRecord, recorder, ownBeat, agent, startLock, ownCommands, ownCrashes>>

\* launchctl bootstrap; when it fails the plist is taken back.
Bootstrap(c) ==
    /\ At(c, "bootstrap")
    /\ \/ /\ agent = "absent" /\ plist
          /\ agent' = "registered"
          /\ Goto(c, [at |-> "wait", polls |-> 0, seen |-> 0])
          /\ UNCHANGED <<plist, startLock>>
       \/ /\ plist' = FALSE
          /\ Finish(c, "command_failed")
          /\ UNCHANGED agent
    /\ UNCHANGED <<ownLock, ownRecord, recorder, ownBeat, ownCommands, ownCrashes>>

\* daemon_readiness: the status row first, the owner after it.
ReadStatus(c) ==
    /\ At(c, "wait")
    /\ Steps(c, [at |-> "try", then |-> "ready", tries |-> 0, beat |-> ownBeat])

\* A locked key store ends the wait and boots the service out again.
StoreLocked(c) ==
    /\ At(c, "wait")
    /\ IF agent = "registered" THEN Steps(c, [at |-> "bootout", result |-> "locked"])
       ELSE Ends(c, "store_locked")

\* wait_for_daemon_start: one recorder, from the first sight of it to its heartbeat.
Owner(c) == client[c].answer
HasFreshHeartbeat(c) == client[c].beat = Owner(c)

\* Mutant: another instance than the one seen will do.
StartPollAny(c) ==
    LET limit == IF client[c].seen # 0 \/ Owner(c) # 0 THEN OpenPolls ELSE StartPolls
    IN  /\ At(c, "ready")
        /\ IF Owner(c) # 0 /\ HasFreshHeartbeat(c) THEN EndsWith(c, "started", Owner(c))
           ELSE IF client[c].polls + 1 < limit
                THEN Steps(c, [at |-> "wait", polls |-> client[c].polls + 1, seen |-> Owner(c)])
           ELSE Ends(c, "did_not_start")

StartPoll(c) ==
    LET seen  == client[c].seen
        limit == IF seen # 0 \/ Owner(c) # 0 THEN OpenPolls ELSE StartPolls
    IN  /\ At(c, "ready")
        /\ IF seen # 0 /\ Owner(c) # seen THEN Ends(c, "did_not_start")
           ELSE IF Owner(c) # 0 /\ HasFreshHeartbeat(c)
                THEN EndsWith(c, "started", Owner(c))
           ELSE IF client[c].polls + 1 < limit
                THEN Steps(c, [at |-> "wait", polls |-> client[c].polls + 1, seen |-> Owner(c)])
           ELSE Ends(c, "did_not_start")

-----------------------------------------------------------------------------

OwnershipInit ==
    /\ ownLock = Free /\ ownRecord \in {NoFile, 0} /\ ownBeat = 0
    /\ recorder = [i \in Instances |-> Unborn]
    /\ agent = "absent" /\ plist = FALSE /\ startLock = Free
    /\ client = [c \in Clients |-> IdleClient]
    /\ ownCommands = 0 /\ ownCrashes = 0

RecorderStep(i) == \/ Claim(i) \/ Refused(i) \/ TruncateOwner(i) \/ WriteOwner(i) \/ FirstHeartbeat(i)
                   \/ ClearHeartbeat(i) \/ Release(i) \/ DiesUnhandled(i)
ClientStep(c) == \/ ProbeTry(c) \/ ProbeUnlock(c) \/ ProbeRead(c) \/ ProbeReadsNothing(c)
                 \/ StopFound(c) \/ StopConfirmed(c) \/ StopSignals(c) \/ Bootout(c) \/ Unlink(c)
                 \/ StopWaits(c) \/ RemovalSeen(c)
                 \/ StartChecked(c) \/ DirectoryRefused(c) \/ StartLocks(c) \/ StartPrepares(c) \/ InstallPlist(c)
                 \/ Bootstrap(c) \/ ReadStatus(c) \/ StoreLocked(c) \/ StartPoll(c)
LaunchdStep == AgentSpawns \/ AgentRemoved

OwnershipNext ==
    \/ LaunchdStep \/ ForegroundStart \/ BeatGoesStale
    \/ \E i \in Instances : RecorderStep(i) \/ Dies(i)
    \/ \E c \in Clients : ClientStep(c) \/ BeginStatus(c) \/ BeginStop(c) \/ BeginStart(c)

OwnershipFairness ==
    /\ WF_ownVars(LaunchdStep) /\ WF_ownVars(BeatGoesStale)
    /\ \A i \in Instances : WF_ownVars(RecorderStep(i))
    /\ \A c \in Clients : WF_ownVars(ClientStep(c))

OwnershipSpec == OwnershipInit /\ [][OwnershipNext]_ownVars /\ OwnershipFairness

-----------------------------------------------------------------------------
(* Properties *)

OwnershipTypeOK ==
    /\ ownLock \in {Free} \cup Instances \cup Clients
    /\ ownRecord \in {NoFile, 0} \cup Instances
    /\ recorder \in [Instances -> [stage : {"unborn", "launched", "claimed", "truncated", "opening",
                                           "recording", "closing", "gone"},
                                  mode : Modes, term : BOOLEAN]]
    /\ ownBeat \in 0 .. MaxInstances
    /\ agent \in {"absent", "registered", "leaving"} /\ plist \in BOOLEAN
    /\ startLock \in {Free} \cup Clients
    /\ \A c \in Clients : client[c].at \in ClientPlaces /\ client[c].answer \in 0 .. MaxInstances

\* Whoever holds the store holds its lock, and once a recorder has written its owner
\* record no other name stands in the file while it lives, so every probe that is refused
\* by an open store reads the recorder that refused it.
RecordNamesHolder ==
    \A i \in Instances : /\ HoldsStore(i) <=> ownLock = i
                         /\ recorder[i].stage \in {"opening", "recording", "closing"} => ownRecord = i

\* A plist that is left behind would start a recorder at the next login: when no command
\* runs, a plist is there only for a service launchd has.
NoOrphanPlist == (\A c \in Clients : At(c, "idle")) /\ plist => agent # "absent"

OwnershipSafe == RecordNamesHolder /\ NoOrphanPlist

\* `zanei stop` says "stopped" only after the recorder it found has given up the store and
\* launchd, when it was launchd's, no longer has the service.
StopTellsTheTruth ==
    \A c \in Clients : client[c].result # "stopped" /\ client'[c].result = "stopped"
     => LET i == client'[c].target
        IN  ~HoldsStore(i) /\ (recorder[i].mode = "launchd" => agent = "absent")

\* Once a start has seen a recorder hold the store, it says "started" of no other: not of
\* one launchd has put in its place meanwhile.  Nor does it name a recorder that has still
\* to open the store (daemon/control/wait.rs, wait_for_daemon_start_with).
Opened(i) == recorder[i].stage \in {"recording", "closing", "gone"}
StartTellsTheTruth ==
    \A c \in Clients : client[c].result # "started" /\ client'[c].result = "started"
     => LET i == client'[c].target
        IN  Opened(i) /\ client[c].seen \in {0, i}

\* While the service is registered a recorder comes to record, whoever probes meanwhile
\* and however often a recorder dies (within the instance's bounds).
RecorderThere ==
    \/ agent # "registered"
    \/ \E i \in Instances : recorder[i].stage = "recording"
    \/ \A i \in Instances : recorder[i].stage # "unborn"
RegisteredRecords == []<>RecorderThere

\* cli.mdx: "`running` when the store lock has an owner; `stopped` when it does not."
\* A probe that goes on to name the owner the record holds was refused by a recorder.
ProbeNamesAnOwner ==
    [][\A c \in Clients : At(c, "try") /\ client'[c].at = "read" /\ ownRecord \in Instances
        => ownLock \in Instances]_ownVars
=============================================================================
