------------------------- MODULE CapabilityReports -------------------------
(***************************************************************************)
(* What the recorder knows of its permissions, and what the commands say   *)
(* of it. The recorder asks the user from a worker thread, checks its      *)
(* permissions before each heartbeat (the browsers' on a thread of its own *)
(* that it waits for a moment) and hands the snapshot to the pipeline,     *)
(* which writes it. `status` and `doctor` ask who owns the store and then  *)
(* read the row; the end of `start` reads the row and then asks who owns   *)
(* the store. Recorders stop, crash and follow one another meanwhile.      *)
(***************************************************************************)
EXTENDS Integers, Sequences, FiniteSets

CONSTANTS Needs,         \* the sets of capabilities a configuration may require
          MaxRecorders,  \* recorders that start, one after another
          MaxSurprises,  \* edits of the filter, decisions of the user, checks that fail, threads that die or do not start
          MaxReports     \* commands of the user

Capabilities  == {"accessibility", "input", "browser"}
Automations   == {"browser"}                 \* asked for by use, never by the worker
Answers       == {"granted", "denied", "undetermined"}
CapabilityStates == {"available", "action_required", "deferred"}

ASSUME NeedsAssumption ==
  /\ Needs \subseteq SUBSET Capabilities /\ Needs # {}
  /\ {MaxRecorders, MaxSurprises, MaxReports} \subseteq Nat

VARIABLES
  permission,   \* what macOS answers the recorder
  wanted,       \* what the configuration file requires
  instances,    \* recorders that have started
  holder,       \* the recorder that holds the store's lock, 0 for none
  activeDaemon, \* its required set, request worker, last snapshot, troubles
  beat,         \* its heartbeat: whether it waits for the browser's answer, and what it has checked
  probe,        \* the thread that asks about the browser, and its mark
  unwritten,    \* the heartbeat the pipeline has not written, or none
  row,          \* daemon_state and daemon_capabilities
  reporter,     \* the command under way
  published,    \* history: the troubles each recorder has published
  surprises, commands

reportVars == <<permission, wanted, instances, holder, activeDaemon, beat, probe, unwritten, row, reporter,
                published, surprises, commands>>

\* `by` and `asking` are history: the recorder that took the snapshot, and whether it was asking the user then.
NoSnapshot == [required |-> {}, state |-> [c \in Capabilities |-> "deferred"], by |-> 0, asking |-> FALSE]
NoBeat     == [instance |-> 0, caps |-> NoSnapshot, troubles |-> {}]
NoWorker   == [state |-> "none", required |-> {}, at |-> 1, late |-> FALSE]
NoCommand  == [kind |-> "none", step |-> 1, since |-> 0, need |-> {}, owner |-> 0]
Idle       == [waiting |-> FALSE, state |-> NoSnapshot.state]
NoRecorder == [phase |-> "gone", required |-> {}, worker |-> NoWorker, pending |-> {},
               last |-> NoSnapshot, troubles |-> {}]
NoProbe    == [thread |-> "none", marked |-> FALSE, answer |-> "undetermined"]

\* The order in which the worker asks.
RequestOrder == <<"accessibility", "input">>

State(answer) == CASE answer = "granted" -> "available"
                   [] answer = "denied"  -> "action_required"
                   [] OTHER              -> "deferred"

\* A browser that has not been asked about yet does not keep a recorder from being ready.
Ready(caps, required) ==
  \A c \in required : caps.state[c] = "available" \/ (c \in Automations /\ caps.state[c] = "deferred")

ReadyForAny(caps, required) ==
  IF caps = NoSnapshot THEN "unknown" ELSE IF Ready(caps, required \cap caps.required) THEN "ready" ELSE "missing"

\* Nothing is said for a requirement the snapshot was not taken for.
ReadyFor(caps, required) ==
  IF caps = NoSnapshot \/ ~(required \subseteq caps.required) THEN "unknown"
  ELSE IF Ready(caps, required) THEN "ready" ELSE "missing"

\* A fresh installation; macOS has no third answer for Accessibility.
NothingGranted == [c \in Capabilities |-> IF c = "accessibility" THEN "denied" ELSE "undetermined"]

ReportsInit ==
  /\ permission \in {NothingGranted, [c \in Capabilities |-> "granted"]}
  /\ wanted \in Needs
  /\ instances = 0 /\ holder = 0
  /\ activeDaemon = NoRecorder
  /\ beat = Idle /\ probe = NoProbe
  /\ unwritten = NoBeat
  /\ row = [beat |-> NoBeat, fresh |-> FALSE]
  /\ reporter = NoCommand
  /\ published = [i \in 1 .. MaxRecorders |-> {}]
  /\ surprises = 0 /\ commands = 0

-----------------------------------------------------------------------------
(* The user and macOS.                                                     *)

EditFilter ==
  /\ surprises < MaxSurprises
  /\ wanted' \in Needs \ {wanted}
  /\ surprises' = surprises + 1
  /\ UNCHANGED <<permission, instances, holder, activeDaemon, beat, probe, unwritten, row, reporter, published, commands>>

\* Accessibility is granted or not: macOS does not tell an answer from a question never put.
Decide ==
  /\ surprises < MaxSurprises
  /\ \E c \in Capabilities, a \in {"granted", "denied"} :
       a # permission[c] /\ permission' = [permission EXCEPT ![c] = a]
  /\ surprises' = surprises + 1
  /\ UNCHANGED <<wanted, instances, holder, activeDaemon, beat, probe, unwritten, row, reporter, published, commands>>

-----------------------------------------------------------------------------
(* A recorder's life.                                                      *)

Acquire ==
  /\ holder = 0 /\ instances < MaxRecorders
  /\ instances' = instances + 1 /\ holder' = instances + 1
  /\ activeDaemon' = [NoRecorder EXCEPT !.phase = "opening", !.required = wanted]
  /\ UNCHANGED <<permission, wanted, beat, probe, unwritten, row, reporter, published,
                 surprises, commands>>

WrittenBeat(b) == [beat |-> b, fresh |-> TRUE]

InitialBeatKeeping == [instance |-> holder, caps |-> row.beat.caps, troubles |-> {}]

InitialBeat == [instance |-> holder, caps |-> NoSnapshot, troubles |-> {}]

\* The first heartbeat has no snapshot, and the row's is deleted with it.
InitializeRuntime ==
  /\ holder # 0 /\ activeDaemon.phase = "opening"
  /\ row' = WrittenBeat(InitialBeat)
  /\ published' = [published EXCEPT ![holder] = {{}}]
  /\ activeDaemon' = [activeDaemon EXCEPT !.phase = "running",
                                  !.worker = [NoWorker EXCEPT !.state = "asking", !.required = activeDaemon.required]]
  /\ UNCHANGED <<permission, wanted, instances, holder, beat, probe, unwritten, reporter, surprises, commands>>

\* A stop clears the row once the pipeline has written what it was given; a crash leaves the row.
RecorderEnds ==
  /\ holder # 0
  /\ \/ row' = row
     \/ /\ activeDaemon.phase = "running" /\ ~beat.waiting
        /\ row' = [WrittenBeat(NoBeat) EXCEPT !.fresh = FALSE]
  /\ holder' = 0 /\ activeDaemon' = NoRecorder /\ beat' = Idle /\ probe' = NoProbe /\ unwritten' = NoBeat
  /\ UNCHANGED <<permission, wanted, instances, reporter, published, surprises, commands>>

\* Fifteen seconds pass without a heartbeat in the row.
GrowsStale ==
  /\ row.fresh
  /\ row' = [row EXCEPT !.fresh = FALSE]
  /\ UNCHANGED <<permission, wanted, instances, holder, activeDaemon, beat, probe, unwritten, reporter, published, surprises, commands>>

-----------------------------------------------------------------------------
(* The request worker.                                                     *)

\* What the worker takes for a question never put.
Undecided(c) == permission[c] = "undetermined" \/ (c = "accessibility" /\ permission[c] = "denied")

Passed(w)   == [w EXCEPT !.state = "asking", !.at = w.at + 1]

\* request_missing_permissions: one question at a time, each with its deadline.
WorkerStep ==
  LET w == activeDaemon.worker IN
  /\ w.state \in {"asking", "waiting"}
  /\ \/ /\ w.state = "asking" /\ w.at > Len(RequestOrder)
        /\ activeDaemon' = [activeDaemon EXCEPT !.worker.state = IF w.late THEN "timed_out" ELSE "completed"]
        /\ UNCHANGED surprises
     \/ /\ w.state = "asking" /\ w.at <= Len(RequestOrder)
        /\ LET c == RequestOrder[w.at] IN
           activeDaemon' = [activeDaemon EXCEPT !.worker = IF c \in w.required /\ Undecided(c)
                                                   THEN [w EXCEPT !.state = "waiting"] ELSE Passed(w)]
        /\ UNCHANGED surprises
     \/ /\ w.state = "waiting"
        /\ activeDaemon' = [activeDaemon EXCEPT !.worker =
             IF permission[RequestOrder[w.at]] = "granted" THEN Passed(w) ELSE [Passed(w) EXCEPT !.late = TRUE]]
        /\ UNCHANGED surprises
     \/ /\ surprises < MaxSurprises
        /\ \E e \in {"error", "stopped"} : activeDaemon' = [activeDaemon EXCEPT !.worker.state = e]
        /\ surprises' = surprises + 1
  /\ UNCHANGED <<permission, wanted, instances, holder, beat, probe, unwritten, row, reporter, published, commands>>

\* The worker of a pending expansion of the requirements; Needs has no empty set in it.
Pending(r) == IF r.worker = NoWorker /\ r.pending # {}
              THEN [r EXCEPT !.worker = [NoWorker EXCEPT !.state = "asking", !.required = r.pending], !.pending = {}]
              ELSE r

\* Its thread may not start: what waited is gone, and the recorder in trouble.
NotStarted(r) == [r EXCEPT !.pending = {}, !.troubles = @ \cup {"permission_request"}]

StartsPending(r) ==
  \/ activeDaemon' = Pending(r) /\ UNCHANGED surprises
  \/ /\ Pending(r) # r /\ activeDaemon' = NotStarted(r)
     /\ surprises < MaxSurprises /\ surprises' = surprises + 1

PollWorker ==
  /\ holder # 0 /\ ~beat.waiting
  /\ activeDaemon.worker.state \in {"completed", "timed_out", "error", "stopped"}
  /\ StartsPending([activeDaemon EXCEPT
       !.worker = NoWorker,
       !.troubles = IF activeDaemon.worker.state = "completed" THEN @ \ {"permission_request"}
                    ELSE @ \cup {"permission_request"}])
  /\ UNCHANGED <<permission, wanted, instances, holder, beat, probe, unwritten, row, reporter, published, commands>>

\* A reload changes which browsers are tracked; the sources are those of the recorder's start.
ReloadFilter ==
  LET now == (activeDaemon.required \ Automations) \cup (wanted \cap Automations) IN
  /\ activeDaemon.phase = "running" /\ ~beat.waiting /\ now # activeDaemon.required
  /\ StartsPending([activeDaemon EXCEPT
       !.required = now,
       !.pending = IF now \subseteq activeDaemon.required THEN {} ELSE now])
  /\ UNCHANGED <<permission, wanted, instances, holder, beat, probe, unwritten, row, reporter, published, commands>>

-----------------------------------------------------------------------------
(* The heartbeat: what the permissions are, and what is published.         *)

Checked(browser) == [c \in Capabilities |-> State(IF c = "browser" THEN browser ELSE permission[c])]

Snapshot(state) == [required |-> activeDaemon.required, state |-> state, by |-> holder,
                    asking |-> activeDaemon.worker # NoWorker]

\* The pipeline takes what the recorder publishes, the newer instead of the older.
Publishes(r, caps) ==
  /\ activeDaemon' = r
  /\ unwritten' = [instance |-> holder, caps |-> caps, troubles |-> r.troubles]
  /\ published' = [published EXCEPT ![holder] = @ \cup {r.troubles}]

\* A check that succeeds clears the trouble of one that failed.
PublishesChecked(state) ==
  Publishes([activeDaemon EXCEPT !.last = Snapshot(state), !.troubles = @ \ {"permissions"}], Snapshot(state))

\* The browser is asked on a thread, never a second time while a question is out.
CheckPermissions ==
  IF "browser" \notin activeDaemon.required
  THEN PublishesChecked(Checked("undetermined")) /\ UNCHANGED <<beat, probe>>
  ELSE IF probe.marked
  THEN PublishesChecked(Checked("undetermined")) /\ UNCHANGED <<beat, probe>>
  ELSE /\ probe' = [thread |-> "asking", marked |-> TRUE, answer |-> "undetermined"]
       /\ beat' = [waiting |-> TRUE, state |-> Checked("undetermined")]
       /\ UNCHANGED <<activeDaemon, unwritten, published>>

\* A check that fails leaves the last snapshot in the heartbeat.
CheckFails ==
  /\ surprises < MaxSurprises /\ surprises' = surprises + 1
  /\ Publishes([activeDaemon EXCEPT !.troubles = @ \cup {"permissions"}], activeDaemon.last)
  /\ UNCHANGED <<beat, probe>>

RefreshWhileAsking == (CheckPermissions /\ UNCHANGED surprises) \/ CheckFails

\* No snapshot while the user is being asked.
RefreshCapabilities ==
  IF activeDaemon.worker # NoWorker
  THEN Publishes(activeDaemon, NoSnapshot) /\ UNCHANGED <<beat, probe, surprises>>
  ELSE (CheckPermissions /\ UNCHANGED surprises) \/ CheckFails

Heartbeat ==
  /\ activeDaemon.phase = "running" /\ ~beat.waiting
  /\ RefreshCapabilities
  /\ UNCHANGED <<permission, wanted, instances, holder, row, reporter, commands>>

AnsweredMarked == [thread |-> IF beat.waiting THEN "handing" ELSE "none", marked |-> beat.waiting,
                   answer |-> permission["browser"]]

\* The thread takes its mark away before it hands the answer over, which nobody takes once the heartbeat
\* has stopped waiting.
Answered == [thread |-> IF beat.waiting THEN "handing" ELSE "none", marked |-> FALSE, answer |-> permission["browser"]]

BrowserAnswers ==
  /\ \/ probe.thread = "asking" /\ probe' = Answered
     \/ probe.thread = "handing" /\ probe' = [probe EXCEPT !.thread = "answered"]
  /\ UNCHANGED <<permission, wanted, instances, holder, activeDaemon, beat, unwritten, row, reporter, published, surprises, commands>>

\* The heartbeat goes on with the answer, or without it after two seconds.
BrowserHeard ==
  /\ beat.waiting
  /\ \/ /\ probe.thread = "answered"
        /\ PublishesChecked([beat.state EXCEPT !["browser"] = State(probe.answer)])
     \/ PublishesChecked(beat.state)
  /\ beat' = Idle
  /\ probe' = [probe EXCEPT !.thread = IF @ = "asking" THEN @ ELSE "none"]
  /\ UNCHANGED <<permission, wanted, instances, holder, row, reporter, surprises, commands>>

\* One transaction for the row and its snapshot.
WriteHeartbeat ==
  /\ unwritten # NoBeat
  /\ row' = WrittenBeat(unwritten)
  /\ unwritten' = NoBeat
  /\ UNCHANGED <<permission, wanted, instances, holder, activeDaemon, beat, probe, reporter, published,
                 surprises, commands>>

-----------------------------------------------------------------------------
(* The commands.                                                           *)

\* `start` goes on once the recorder it replaces is gone.
CommandBegins ==
  /\ reporter = NoCommand /\ commands < MaxReports
  /\ \E kind \in {"status", "doctor", "start"} :
       /\ kind = "start" => holder = 0
       /\ reporter' = [NoCommand EXCEPT !.kind = kind, !.since = instances, !.need = wanted]
  /\ commands' = commands + 1
  /\ UNCHANGED <<permission, wanted, instances, holder, activeDaemon, beat, probe, unwritten, row, published, surprises>>

MatchesAnyone(owner, read) == owner # 0

Matches(owner, read) == owner # 0 /\ owner = read.instance

\* A row that is not fresh has no troubles to tell.
Health(owner, read, fresh) ==
  CASE owner = 0                                            -> "stopped"
    [] owner # 0 /\ ~Matches(owner, read)                   -> "suspected_unavailable"
    [] Matches(owner, read) /\ ~fresh                       -> "stale"
    [] Matches(owner, read) /\ fresh /\ read.troubles = {}  -> "healthy"
    [] OTHER                                                -> "degraded"

Troubles(owner, read, fresh) == IF Matches(owner, read) /\ fresh THEN read.troubles ELSE {}

\* `doctor` takes a fresh row's snapshot, whoever owns the store; `status` a matching one.
Taken(c, owner, read, fresh) ==
  IF (c.kind = "doctor" /\ fresh) \/ (c.kind = "status" /\ Matches(owner, read)) THEN read.caps ELSE NoSnapshot

\* Step 1 of `status` and `doctor` asks who owns the store, step 2 reads the row and reports.
ProbeOwner ==
  /\ reporter.kind \in {"status", "doctor"} /\ reporter.step = 1
  /\ reporter' = [reporter EXCEPT !.owner = holder, !.step = 2]

Report ==
  /\ reporter.kind \in {"status", "doctor"} /\ reporter.step = 2
  /\ reporter' = NoCommand

\* Step 1 of `start` waits for the recorder, step 2 for its snapshot. The row is read before the lock is
\* probed, but a recorder writes the row only while it holds the lock: the two reads are one step.
RecorderAlive == row.fresh /\ Matches(holder, row.beat)

\* What `start` makes of the row: a snapshot that is absent, or not for what it needs, is waited for.
StartState(c) ==
  CASE ~row.fresh -> "error"
    [] row.fresh /\ ReadyFor(row.beat.caps, c.need) = "unknown" -> "pending"
    [] OTHER -> ReadyFor(row.beat.caps, c.need)

\* Alive at last, or given up.
StartSeesRecorder ==
  /\ reporter.kind = "start" /\ reporter.step = 1
  /\ reporter' = IF RecorderAlive THEN [reporter EXCEPT !.step = 2] ELSE NoCommand

\* The verdict, which is the waiting's end or its deadline.
StartConcludes ==
  /\ reporter.kind = "start" /\ reporter.step = 2
  /\ reporter' = NoCommand

ReportStep ==
  /\ ProbeOwner \/ Report \/ StartSeesRecorder \/ StartConcludes
  /\ UNCHANGED <<permission, wanted, instances, holder, activeDaemon, beat, probe, unwritten, row, published, surprises, commands>>

ReportsNext ==
  \/ EditFilter \/ Decide \/ Acquire \/ InitializeRuntime \/ RecorderEnds \/ GrowsStale
  \/ WorkerStep \/ PollWorker \/ ReloadFilter
  \/ Heartbeat \/ BrowserAnswers \/ BrowserHeard \/ WriteHeartbeat
  \/ CommandBegins \/ ReportStep

ReportsSpec == ReportsInit /\ [][ReportsNext]_reportVars

-----------------------------------------------------------------------------

ReportsTypeOK ==
  /\ permission \in [Capabilities -> Answers] /\ wanted \in Needs
  /\ instances \in 0 .. MaxRecorders /\ holder \in {0, instances}
  /\ activeDaemon.phase \in {"gone", "opening", "running"}
  /\ activeDaemon.troubles \subseteq {"permissions", "permission_request"}
  /\ activeDaemon.worker.state \in {"none", "asking", "waiting", "completed", "timed_out", "error", "stopped"}
  /\ (holder = 0) = (activeDaemon = NoRecorder)
  /\ probe.thread \in {"none", "asking", "handing", "answered"} /\ probe.marked \in BOOLEAN
  /\ reporter.step \in 1 .. 2

\* What `status` and `doctor` say of a recorder's health is something that very recorder published,
\* even when one recorder follows another between the question who owns the store and the reading of
\* the row (doctor/health.rs from_status, status/model.rs readable).
HealthNamesTheOwner ==
  Report => LET owner    == reporter.owner
                troubles == Troubles(owner, row.beat, row.fresh)
            IN /\ Health(owner, row.beat, row.fresh) = "healthy" => {} \in published[owner]
               /\ troubles # {} => troubles \in published[owner]

\* A snapshot in the row was taken by the recorder whose heartbeat the row is, when it was not asking
\* the user (runtime.rs initialize_permission_dependent_runtime, heartbeat.rs refresh_capabilities).
SnapshotIsItsRecorders ==
  row.beat.caps # NoSnapshot => row.beat.caps.by = row.beat.instance /\ ~row.beat.caps.asking

\* `start` calls its permissions ready or missing from a snapshot of a recorder that started after the
\* one it replaces was gone, taken for all that this start requires (doctor.rs
\* evaluate_recorder_for_start, capability.rs ready_for).
StartJudgesItsOwn ==
  StartConcludes /\ StartState(reporter) \in {"ready", "missing"} =>
    /\ row.beat.caps.by > reporter.since
    /\ reporter.need \subseteq row.beat.caps.required

\* A browser is marked exactly while a question about it is out: no two questions at once, and none
\* refused once the last was answered (permission.rs automation_status_with_timeout).
MarkedWhileAsked == probe.marked <=> probe.thread = "asking"

\* Doc: `permissions_ok` is the "permission snapshot from a fresh heartbeat whose instance matches the
\* current owner" (docs/content/reference/cli.mdx:390).
PermissionsFromFresh ==
  [][Report /\ reporter.kind = "status" /\ Taken(reporter, reporter.owner, row.beat, row.fresh) # NoSnapshot
       => row.fresh]_reportVars
=============================================================================
