# A TLA+ model of zanei

zanei is a macOS recorder. A daemon collects what the user does (windows, input,
browser pages, screen content), filters it, and appends it to an encrypted event
store; commands and an MCP server read the store. This directory holds TLA+ modules
of the parts whose correctness depends on the order of steps of several threads and
processes, configurations that check them with TLC on small instances, and proofs,
checked with TLAPS, of the main theorems for every value of the constants.

Paths below are relative to `src/crates/`.

## The system and its parts

| Part | State | Operations | Talks to |
|---|---|---|---|
| Recording pipeline `zanei-cli/src/daemon/pipeline*` | raw queue (4096), control channel, coalescing buffer, batch, latest snapshot, health, retry index | `heartbeat`, `flush`, `replace_filter`, `shutdown`; the worker's loop | relays (queue), main thread (control channel with rendezvous), store writer |
| Normalizer `zanei-core/src/normalize*` | pending groups | `push`, `flush_expired`, `flush` | inside the worker |
| Privacy filter `zanei-core/src/privacy*` | rules of one configuration | `process_pending`, `reprocess` | inside the worker; a policy of its own in each collector |
| Store writer `zanei-core/src/store/writer.rs` | SQLite file | `persist` (events and snapshot in one transaction), `set_paused_until`, `clear_expired_pause` | worker, main thread, commands in other processes |
| Main loop `zanei-cli/src/daemon/runtime*` | `paused`, `intake_suspended`, timers, degraded reasons | start, poll of the pause, of the configuration, of the permission dialogs, heartbeat, shutdown | everything in the daemon |
| Supervisor and relays `zanei-cli/src/daemon/supervisor*`, `collectors*` | per collector: worker, relay, restart state, counters | `start`, `stop`, `suspend`, `supervise` | main thread, collectors, pipeline queue |
| Start, stop, pause, resume `zanei-cli/src/commands/control.rs`, `zanei-cli/src/daemon/control*`, `ownership.rs` | the lock on the store, the owner record, launchd | probe, write the request, signal, wait | daemon, through the store and the lock |
| Browser eligibility `zanei-macos/src/chrome*` | one versioned record per window, the front window, policy revision | query, publish, confirm, resynchronize, terminate, retarget | browser (AppleScript), focus context, quarantine |
| Capture policy and quarantine `zanei-macos/src/capture_policy.rs`, `text_capture/*` | held bodies with the decision they were read under | decide, hold, release, expire | eligibility records, collectors |
| Content snapshots `zanei-macos/src/content_snapshot/*` | per window limits and hashes, budget, queue of triggers | trigger, walk, reserve, record hash, terminate | quarantine, relay |
| Focus context `zanei-macos/src/focus_context.rs` | the focus, its generation, bounded subscriber queues | transition, resync, subscribe, receive | accessibility collector (writer), chrome and content workers (readers) |
| Event tap and input authorization `zanei-macos/src/eventtap*`, `text_capture/authorization.rs` | tap state, sequence numbers, open authorizations | callback, authorize, reset | relay, accessibility collector |
| Accessibility, workspace, input source, secure input `zanei-macos/src/{ax,workspace,input_source,secure_input}*` | observers of the running applications | OS callbacks | focus context, relays |
| Store life cycle `zanei-core/src/store/{migration,retired,key*}*`, `writer/adoption.rs` | schema version, key, previous store | migrate, rekey, adopt, retire | daemon start |
| Readers `zanei-core/src/store/{reader,query,context_page,evidence_read}.rs`, `timeline/*`, `zanei-mcp` | a cursor | page, build a timeline, answer a tool call | store, while the daemon writes it |
| Configuration `zanei-core/src/config*`, `zanei-cli/src/commands/{config,filter,apps}*`, `setup/*` | a TOML file | read, validate, edit | main loop (watches it) |
| Diagnosis `zanei-cli/src/commands/{status,doctor}*`, `permissions.rs` | none | report | store, probe, permissions |

### How they interact, and what is hard

Inside the daemon there are a main thread, one pipeline worker, and for each collector
a worker and a relay thread. Events flow collector -> relay -> queue -> worker ->
store. Control flows from the main thread to the worker through a channel and, for a
flush, a replaced filter and the shutdown, back through a rendezvous on which the main
thread blocks. Commands are other processes that share with the daemon only the
store file, its lock and signals. The hard behaviours are

* *failed writes*: the worker keeps its data, backs off and goes on serving control
  messages, some of which move data;
* *configuration reloads* between the capture of an event and its write;
* *confirmations that arrive late*: the browser is asked outside the lock, while the
  user navigates, switches windows and reloads the configuration;
* *two reasons to be quiet* (pause and a recovering store), four code paths that start
  collectors, and commands from other processes in between;
* *threads that wait for each other*: main thread, relay, worker;
* *deaths* of the daemon at any step, and launchd bringing it back.

Beside the daemon's core, the collectors follow applications, fields and windows that
change while they are asked, through queues that may overflow; the store is opened by
several processes while it is created, replaced and purged; and files are edited by
processes that hold no lock.

`PROJECT.json` lists the hazards one by one under `hazards`, with the line where each
bites and the properties that watch it; the two that no property watches say why.

## Modules

The daemon's core, each module with its instance (`...MC`) and its proofs (`...Proofs`;
those of `Pipeline` and `PauseControl` are both in `DaemonProofs`):

| Module | Models | State ~ code |
|---|---|---|
| `Pipeline` | `pipeline.rs`, `pipeline/worker.rs`, `pipeline/store.rs`, the grouping of `normalize.rs`, `PrivacyFilter::reprocess`, `StoreWriter::persist` | `raw`, `control`: the channels; `pending`: `Normalizer::pending`; `batch`, `latest`, `stateDirty`, `health`, `retryIndex`: `StoreDestination`; `stored`, `storedState`: the tables; `client`: what the main thread blocks on |
| `DurableLog` | the promise of the pipeline, with no queue, buffer or retry | abstract; `Pipeline` is shown to implement it |
| `BrowserBodies` | `chrome/eligibility.rs`, `chrome/worker*`, `capture_policy.rs`, `text_capture/quarantine.rs`, `routing.rs`, `content_snapshot/{worker,state,output}.rs` | `record`: `WindowRecord`; `query`: the chrome worker's call outside the lock; `body`: a text or snapshot with its `CaptureDecision`; `reserved`: `SnapshotState` |
| `PauseControl` | `runtime.rs` from the first read of the status to the release of the store, `shutdown.rs`, the stop order, the start gate, the commands pause, resume, start, stop | `pc`: the main thread's place; `request`: `paused_until` in the store; `seen`, `wanted`: the poll; `paused`, `suspended`, `gate`: the fields; `cli`: each command's process |
| `Supervisor` | `supervisor.rs`, `supervisor/health.rs`, `collectors/relay.rs` | `m`: `Managed<C>` with its worker and relay; `queue`: the pipeline's; `stopping`, `remaining`, `joining`: where `stop_in_order` is |
| `FocusTransitions` | `focus_context.rs`, and of `chrome.rs`, `chrome/worker.rs` and `attribution.rs` what follows the focus | `current`, `generation`: `FocusState`; `queue`, `missed`, `lastSeen`: the `FocusTransitionReceiver`; `frontmost`, `apps`, `onDemand`, `seen`: `ChromeWorkerState`; `worker`, `held`, `query`: where its thread is |
| `Ownership` | the lock, the owner record, launchd, and `start`, `stop`, `status` step by step (`ownership.rs`, `commands/control.rs`, `daemon/control/*`) | `ownLock`, `ownRecord`, `plist`, `startLock`: the files; `recorder`, `client`: each process; `agent`: launchd's service |

The collectors on the user's side, instantiated together in `CaptureMC`:

| Module | Models |
|---|---|
| `TypedText` | `text_capture/authorization.rs` and `value.rs`: which changes of a field are recorded as typed |
| `EventTap` | `eventtap/*`: the life of the tap, the keys' authorizations, the pasteboard and the copy shortcut |
| `AppObservers` | `ax.rs`, `ax/health.rs`, `workspace.rs`, `ffi/workspace.rs`, `ffi/ax/runtime.rs`: which applications are observed and asked for a tree |
| `FieldPulls` | `ffi/ax/observer.rs`, `runtime/input_pull.rs`: how one application's focused field is followed and read |
| `SnapshotWalk` | `content_snapshot/worker/scan.rs`, `walker.rs`: one scan of a window, and what of it must be masked |
| `SnapshotWorker` | `content_snapshot/{trigger,scheduler,state,worker}.rs`: when a window's content is saved |

`Queues`, which the last of these, `TypedText` and `FocusTransitions` use, says what is left of a
queue when some of its entries are taken out (`Picked`; `VecDeque::retain` in the code) without
recursion, so that it can be reasoned about.

The store and the files beside it, instantiated together in `StoreMC`:

| Module | Models |
|---|---|
| `StoreOpening` | `store/{retired,writer/adoption,migration}.rs`, `daemon/runtime.rs`, `commands/control.rs`: the change from a plaintext to an encrypted store, with deaths between any two steps |
| `StoreKeys` | `store_access.rs`, `key_store.rs`, `store_key.rs`: who creates and who uses the key |
| `StoreReaders` | `store/{context_page,append_sequence,reader,query,evidence_read}.rs`: cursors over a store that is appended to, purged and replaced |
| `Timeline` | `timeline/{builder,model,render}.rs`: the builder's phases, one action per turn of its loops |
| `ConfigReload` | `config.rs`, `commands/{config,filter}.rs`, the reload and retention of `runtime.rs` |
| `CapabilityReports` | `permissions.rs`, `status/*`, `doctor.rs`: what is concluded from a heartbeat and a probe |
| `SetupPlan` | `setup/plan.rs`: the change of another program's file |

`LivenessMC` holds small instances of `Pipeline`, `PauseControl` and `Ownership` for what
must eventually happen. In `LivenessMC`, `CaptureMC`, `StoreMC` and `BrowserBodiesMC` a
behaviour is one of one `part`: the state space is the sum of the parts', not their
product, and the variables of the other parts stand still. The parts are independent
state machines: nothing is claimed about their composition. Where a run's property is
about a part it names the module's own properties, e.g.
`KeysFit == part = "keys" => KeysTypeOK /\ KeysSafe`.

Every module has one action per operation or per critical section; a call that the code
makes under one lock, or in one turn of a worker that shares nothing meanwhile, is one
action. Some definitions are versions of the one after them with a plausible bug in it
(`StagedInPlace`, `MergedFresh`, `ModeForgotten`, ...); no specification uses them. They
document what each property excludes: with the version in place of the definition, TLC
finds the property violated.

### What the models abstract

* **Pipeline.** Events are identities with a coalescing key; a normalized event is the
  set of raw events merged into it and whether it shows a body. Whether a window has
  expired and whether the byte limits are reached are free choices. A filter revision
  is the set of events it admits and the set whose body it shows; that events of one
  group are treated alike is the assumption `UniformGroups`, which holds because the
  selectors a filter looks at are part of the key (`PendingKind`). Titles are the
  exception: the newer replaces the older, and the model keeps the older one's identity
  with it.
* **BrowserBodies.** One browser process; a page stands for a tab's site. A query's
  beginning, its answer and its publication are three steps. `misread` marks windows
  whose front-window query was answered for another window before the focus context
  heard of the switch; the code accepts this (the query names no window), so
  `ShownAfterHold` excludes it.
* **PauseControl.** Timers fire at any time. A start of a collector succeeds or not.
  The probe and the taking of the lock are atomic. launchd is the flag `kept`. The
  pipeline is the flag `store`, with which a flush waits. The reload of the
  configuration and the retention purge, which share the loop, are in `ConfigReload`. A
  pause whose deadline is malformed cannot be written by the commands and is left out.
* **Supervisor.** Time passes in heartbeats, and `next_attempt` is a countdown. The
  saturating `delay_index` stops at the last delay, which is all it selects. The start
  gate is in PauseControl. The join inside `supervise` never waits because the relay
  has ended.
* **FocusTransitions.** A view stands for what `same_identity` compares: process, window
  and title. The reader is the browser worker; the snapshot worker only reads the
  focus in force. A snapshot of no focus has no generation in the code; the model keeps
  one as history, and no guard looks at it. Taking from the queue, looking at the
  flag again and handling are steps of their own, so that a change of focus falls between
  any two; recovery is one step because it holds the lock the writer needs. The focused
  field (`TypedText`), the versions of the eligibility records (`BrowserBodies`) and the
  comparison of pages in `NavigationTracker` are left out, and the deadlines of
  `on_demand` are its order. Triggers take effect when the worker reads them.
* **Ownership.** A file lock is free or held by a process; a probe takes and releases it.
  A start may name a crashed recorder when its heartbeat is still fresh and another probe
  holds the lock at that moment: the code cannot tell, and the model keeps it. launchd
  removes a service after its process has ended (external). A stop that is late may
  delete the plist of a newer start; `OwnershipSafe` says what remains true. Commands do
  not crash; a store that is locked and a directory that is refused are free choices.
* **TypedText.** A field is the sequence of its characters, and is written at its end. A
  key is known for `Window` ticks. A notification arrives at most one tick late. The
  metadata mode, the check for editors and failed registrations are left out. A ruling
  of a page is allowed or one of `Denied`, and has the page version `VersionOf` it: a change to
  a denied ruling ends what was pending, and so does a change of version. In the instance
  a key is known for as long as a pending value waits (the code: 3 s and 1 s), so a value
  recorded for quiet still rests on a key that a loss may void; a key that has expired is left
  to `TextIsGated`, which holds for any spans.
* **EventTap.** A window stands for its application and field. Time is counted in passes
  of the run loop. The pasteboard's owner is not known, so the copy shortcut is a
  heuristic in the code and in the model. After a disconnect, authorizations still open
  stay open.
* **AppObservers.** Applications without a user interface are left out. A failing
  attribute read is ignored, as in the code. An application launched in the background
  between the sampling and the enabling of notifications is observed when it is
  activated; late lifecycle events may leave an observer of a dead process: both are the
  code's behaviour and exempted by history variables.
* **FieldPulls.** To take back a stale registration cannot fail (`ffi/ax/observer.rs:336`: its
  closure ends in `Ok(())`), so that branch of an installation is unreachable and not modelled.
  The notices a field may not send (`Hush`) are a free choice. A last key
  within the quiet time of a read forced by the hold limit is read with the next key.
* **SnapshotWalk.** What a node is and whether a read fails are chosen when it is read.
  Children of a parent outside the window, and what grows between the count of children
  and their read, are not seen by the code. Geometry, byte counts and recognized text are
  left out.
* **SnapshotWorker.** A window stands for its application; rulings, secure input, an idle
  user and a full channel are gates that may drop a candidate. Time passes only while the
  worker waits. `lossy` exempts a full trigger channel. The daily budget is a free refusal.
* **StoreOpening.** Setting the plaintext store aside is its steps: exclusive connection,
  rename, journal, and the removal of what is left under the live name. A store that cannot be
  read and two set aside in one second are left out. A resume written between the creation of
  the new store and the adoption of the old state is overridden (the code takes the old pause
  where the new store has none).
* **StoreKeys.** Setting aside is one step (`StoreOpening` has its parts). A waiter is one
  poll of `zanei start`. An item that is absent from a locked Keychain is "not found"
  (external). A staging file left by a dead process of the same id blocks one attempt.
* **StoreReaders.** Rows are sequence numbers with an age. A restored backup (external)
  sets `rewound`, which the properties exempt. Wire sizes and UTF-8 slicing are left out.
* **Timeline.** Rows are times and programs; activity labels and rendering are left out.
  Each loop of the builder (`split_sessions`, `assign_content_snapshots`, `absorb_bounces`,
  `merge_adjacent_same_app`) is an action per turn; `pendingIn` is what the loop has still to
  take, and `TimelineSound` holds at every turn. The properties speak of pairs of listed
  events (`Ascending`, `HasEvent`), never of a list put together from all sessions.
* **ConfigReload.** A file is missing, unreadable, or a configuration of three fields.
  Editors are processes without a lock: two of them may lose an update, as in the code,
  and the property is about one save. `config init` may remove another's file. Collector
  switches are fixed until a restart.
* **CapabilityReports.** `readiness` reads the row and then the lock as one step. A
  heartbeat is fresh or stale; future ones, schema versions and counters are left out.
* **SetupPlan.** A file is the set of its entries. What the agent writes between the plan
  and the replacement is lost (`overtaken`), as the code does not look again.

## Runs

| Run | Instance and bounds | Properties |
|---|---|---|
| `pipeline` | 3 events (typed text and two titles), 2 filters, queue, buffer and batch of 2, one retry step, 1 snapshot, 1 death | `TypeOK`, `Conservation`, `PromiseKept`, `StoredWithinPolicies`, `HealthyStoreIsCurrent`, `CommitsObeyRuling`, and `ImplementsLog`: the pipeline implements `DurableLog` |
| `browser` | part "moves": 2 windows on two sites under one filter, a text, 2 moves, 1 trouble; part "rulings": 3 pages (one private), 3 filters, a snapshot, 1 move, 2 troubles (1.5 million states) | `TypeOK`, `ShownAfterHold`, `VersionPinsPage`, `WithinEveryRuling`, `RecordsAreCurrent` |
| `pause_control` | 2 collectors, 5 commands (start paused, pause for a time, pause, resume, stop), clock to 2, 1 store failure, 1 death (3.6 million states) | `PauseTypeOK`, `PauseHolds`, `PauseIsTheUsers` |
| `supervisor` | 1 collector, channel and queue of 1, 3 events, delays 1 and 2, stable after 2, 3 failures, 2 switches (132,000 states) | `TypeOK`, `EventsAccounted`, `EventsInOrder`, `RestartsPaced`, and `StopsReturn` under fairness |
| `focus` | 2 windows of a browser, another browser and an editor, queue of 1, 3 changes of focus, 1 end of an application or of the worker (875,000 states) | `ChainToCurrent`, `RecordsAfterWake`, `HeardWithoutHoles`, and `FocusFollowed`, half of it under fairness |
| `liveness` | pipeline: 2 events (text, click), no death; main loop: start, stop, pause, resume, 1 failure, 1 death; ownership: 2 clients, 3 recorders, 2 commands, 1 death, a start that polls once for the lock and twice once it has seen an owner | `PipelineAnswers`, `RequestsTakeEffect`, `RecorderComes`, `OwnershipKept` |
| `capture` | the six collectors: typed text (2 fields, channels of 2 and 1, 4 numbered inputs, clock to 1; a key and a pending value last 1), tap (1 window, queue of 1, 2 keys, 2 writes), applications (2, queues of 1), pulls (2 fields), walk (3 nodes), worker (2 windows, channel of 2) | `TapRecovers`, `AppsFollowed`, `FieldsHeard`, `TextStaysGated`, `ClipboardInPlace`, `SnapshotsSound` |
| `store` | opening (clock to 3, 2 failures), readers (3 rows, pages of 2), keys (2 processes, 3 openings, 2 keys, 1 deed of the user), timeline (3 rows, 2 programs, 1 snapshot), configuration (2 editors, 3 writes), reports (2 recorders), setup (2 runs, 2 edits) | `UpgradeKeeps`, `KeysFit`, `SessionsExact`, `ReadersToldTruly`, `FilesKept`, `ReportsNameTheirOwner` |
| `snapshot_hash` | 1 window, 1 page, 1 snapshot | violated: see Findings |
| `start_paused_race` | two starts | violated: see Findings |
| `focus_restart` | as `focus` with one browser, queue of 2, 4 changes | violated: see Findings |
| `start_gives_up` | 2 processes | violated: see Findings |

Why the bounds are enough to be interesting: in `pipeline` the queue, the buffer and the batch
can each be full while another request is waiting, a merge, a replacement and a refusal all
happen, and a write can fail, succeed later and be followed by a death. Two filters suffice
for tightening and relaxing, since the properties relate an event to single filters. In
`browser` two moves are a navigation away and back, or a navigation and a switch; the troubles
are a reload, a second one, a failure or a resynchronization; the windows are symmetric. In
`pause_control` a pause that runs out, one that replaces it and a resume meet one failure and
one restart; the collectors differ only in being behind the start gate or not. Collectors
share only the queue and the main thread that stops them, so `supervisor` looks at one of them
before a pipeline that need not take anything; the order of stopping is in `PauseControl`. In
`focus` the second change already finds the queue full, and the third comes before, during or
after the recovery. In `capture` each bounded queue is full at its second message and the
numbers of an interval are the least for which "in time" and "late" differ; the first element,
window and application in focus are fixed, as they are interchangeable. In `store` two
processes meet at every step of an opening; a third opening is by a process that finds what
the first two left. A user who meddles once cannot delete the key and put it back, and one
snapshot never meets another: `KeysAreSafe` and `SessionsAlwaysExact` hold for any number of
either. In `liveness` the second poll of a start finds a recorder that took the place of the
one the first saw, also one that died in between. In the part of the configuration two editors
race only while there is no watcher, and the watcher meets one editor.

Every action of every module fires in a passing run. Deadlock is not checked where a
behaviour ends at a bound or with a shutdown; it is checked in `focus`, and what must not
block for ever elsewhere is stated as liveness (`PipelineAnswers`, `StopsReturn`,
`RequestsTakeEffect`).

### Fairness

* *Pipeline*: its worker runs when it can (weak fairness of its steps), and a store that
  is tried again and again takes a write at some time (strong fairness of a retry that
  succeeds): `PipelineAnswers` is exactly the claim that nothing else is needed.
* *Main loop*: it runs, its poll is due again and again (the timer is part of the loop), a
  recovering store recovers, a pipeline that takes events empties the relays, and a flush
  is answered (that it is, is `PipelineAnswers`).
* *Ownership*: every recorder and every command runs on, launchd acts, and a heartbeat
  nobody renews becomes stale.
* *Supervisor*: threads run and time passes; nothing is assumed of the pipeline for a
  suspension, while the return of a pause and capture again name the pipeline's progress
  as their premise.
* *FocusTransitions*: the browser worker's loop calls `recv_timeout` on every turn whatever
  else a turn does (strong fairness of `Receive`), what it has begun it finishes, because a
  query times out, and a worker that ended is started again by the supervisor.

No fairness is assumed of the user, of permissions, of failures or of deaths.

## Proofs

Eight modules hold theorems, checked with TLAPS for every
value of the constants. Each has an inductive invariant that TLC checked as an invariant
of the run of its module before it was proved, one lemma per action (and under it one step per
conjunct the action can disturb), and theorems that draw the properties from it.

**`DaemonProofs`**, the pipeline - `TypeCorrect`, `ConservationHolds`, `PromiseKeptHolds`, and
`Implements`: the refinement of `DurableLog`. The inductive invariant is `IInv`:
`TypeInv`, `Conservation`, `PromiseKept` and `goal \subseteq sent \ lost`.
`Conservation` alone is not inductive, because that two groups of the normalizer are
disjoint (`Grouped`, in `TypeInv`) is what keeps a merge from duplicating an event;
`PromiseKept` needs to know that the events a request covers have been sent and are not
lost, because the acknowledgement promises them on the ground that queue, normalizer and
batch are empty. The argument goes along the layers of the code: lemmas say what a write
leaves behind (`PersistWrites`, `FlushWrites`, `WriteEventsWrites`), what filtering does
to disjoint items (`ReprocessShrinks`, `ProcessPendingShrinks`), and how a push divides
the pending events into those that stay and those that leave (`PushPartitions`);
`Accounted` turns these into `Conservation'`. The refinement follows because every action
either accepts one event, settles some, kills the process, or leaves the four sets alone.
Assumptions used: `GroupsAssumption`, `PolicyAssumption`, `BoundsAssumption`.

On top of `IInv` the module proves `StoredIsWithinPolicies`, `SnapshotIsCurrent`, and the
action property `CommitsObey`. Three more parts: `Filtered` (what is to be
written satisfies the policies already, and the buffer never outlives the filter its events
came in under: a replacement empties it), `OneRequest` (the main thread has at most one
request on its way, the one it is blocked on, so that outside a replacement the worker's
filter is the one last asked for), `SnapshotKept` (a snapshot not marked dirty is in the
store). That all events of a group are treated alike (`UniformGroups`) is needed here:
a merged event is admitted as its first one was.

**`DaemonProofs`**, the main loop - `PauseTypesHold`, `QuietAlways`, `PauseHoldsAlways`, and the
action property `PauseIsTheUsersAlways`. `PauseHolds` speaks of a pause the daemon has acted
on; the invariant `Quiet` follows it through the loop: which collectors a stop under
way has still to come to (`StopsCover`), that a flag that is set means nothing runs
(`FlagsAreQuiet`), and what the main thread knows at each of its places of a request
that has stood since it last looked (`Knows`). A request that is withdrawn or runs out
in between takes `standing` with it, and that is why the argument survives the commands'
interleaving.

**`BrowserBodiesProofs`** - `TypeCorrect`, `RecordsStayCurrent`, `VersionAlwaysPins`,
`EveryRulingHolds`, `WrittenWasShown`. The invariant has a part for each. `Current`: an
open query that is not marked stale began under the policy in force. `Versions`: versions are
unique, and none is in use that was not handed out. `Pinned`: the version a waiting body
was read under leads to its window and page, if it leads anywhere. `Ruled`:
`WithinEveryRuling` of the undecided, which holds only while their record is in force.
`Seen`: what queries, records and confirmations say was on the screen after the hold, unless
the window was misread.

**`SupervisorProofs`** - `TypeCorrect`, `EveryEventAccounted`, `OrderKept`, and the action
property `RestartsArePaced`.
`EventsAccounted` counts the union of four places, so a step is safe only if the places are
disjoint, which is what `EventsInOrder` gives, and a new event is new only if no event
has a number not given out yet (`Numbered`). A forced stop drops what the relay holds and
reports it; that the report is not lost when the next worker starts needs `Relaying`: a
relay that has ended holds nothing, and only an ended one has a report.
`RestartsPaced` has an invariant of its own, `PaceInv`, for the pace of the restarts must
survive stops and suspensions as well: a delay under way and the next one are at least what
the failures in a row ask for (`Delayed`), a relay's age never exceeds the time it was open
(`Aged`), during a stop only collectors it has still to come to run (`Halting`), and a
wanted collector runs or waits for its restart (`Waits`).

**`FocusTransitionsProofs`** - `TypeCorrect`, `ChainHolds`, `WakesBound`, `FrontFollows`, and
the action property `HeardHolds`. `Chain` states `ChainToCurrent` without its concatenation
(`Linked`), and adds that everything on its way to the reader is newer than what it begins
with and that a reader with the flag set is behind (`Ordered`): without that, a recovery could
return the focus already seen. For `RecordsAfterWake` the invariant `Wakeful` adds that
changes of focus are numbered without gaps and the one that made the last wake is announced as
a new beginning (`Announced`), that an open question bounds what the worker knows (`Behind`),
and that a record from before a wake is left only while the wake has not been heard of
(`Outlived`). For `FrontFollowsFocus` the invariant `Fronted` tells snapshots apart by their
numbers (`Unique`), since what a worker was seeded with may come to it again through the
queue: the browser in front is the focus handled last (`OfSeen`), and of the focus the worker
is at it has handled that or a newer one, or, just started, none at all (`Reached`). What
these invariants leave open of `TypeOK` is `Shaped`; its one difficulty is that the worker's
queue of windows to ask for is filtered when an application ends (`OthersShaped`, by the
lemmas on `Picked`).

**`StoreProofs`** - the six parts of the specification `StoreSpec` of the run `store`, whose
behaviours are each of one module; each part has an invariant of its own.
*Keys*: `KeysAreSafe`, for any number of processes, keys and openings, and `KeysAlwaysFit`.
That the store fits its key is not inductive, for it depends on
what each process has read and not yet acted on. `KeysInv` says for every process that is
opening the store (`Sound`): a key it carries is the item's (`Carries`), and while there is
no item, one that is to create a key saw no encrypted store, and there is none still
(`Awaits`). Both hold until the user deletes the key while a process is at work
(`rushed`), the exception `StoreFitsKey` makes.
*Files*: `FilesAreKept`. The watcher follows what it read some steps ago, so `ConfigHolds`
says what a modification time vouches for (`FileHolds`: a stamp names one content of the
file, so that what was read under the file's stamp is what is in it), what a reload under
way will follow and report (`WatcherHolds`), and that an editor at work differs from the
file it loaded in its own setting (`OnlyItsField`). `SetupHolds` does the same for the setup of
an agent: the plan keeps the other servers of the file it was made from, and the temporary
file is private to the setup that builds it.
*Reports*: `ReportsAlwaysName`. A heartbeat is written by a thread that may be behind
and read by a command that found the owner earlier. `ReportsHold` follows it on its way, still
unwritten and in the row: it names a recorder, its troubles are some that this one published
(`BeatHolds`), and its snapshot is of the recorder that measured it (`SnapshotOf`); a start
that listens does so only to a recorder younger than itself (`StartHolds`).
*Opening*: `UpgradeAlwaysKeeps`. `NothingLost` and `PauseSurvivesUpgrade` speak of states that
the recorder reaches through ten steps, any of which may be its last, while commands open
the same file. `UpgradeHolds` says what it knows at each of them (`RecorderKnows`, `CommandKnows`:
nobody is connected while a store is renamed, and the key somebody carries is the
item's), that two keys are made at most (`KeysMade`), where the last request stands until
the new store has adopted it - in the live store, or in the newest of those set
aside (`Heeds`), which is why none of them may be dropped before (`Numbered`) - and that a
set-aside store holds nothing newer than its name (`AsidesHold`), so that deleting it whole
loses nothing within retention (`EventsKept`).
*Readers*: `ReadersAreToldTruly`. `NothingSkipped` compares what a client was told with
its cursor, over a store that changes between two requests. `ReadersInv` adds what makes a
cursor comparable with the rows: ids and sequences grow together (`RowsHold`), a cursor and a
bound were given by this store or one before it, and neither is ahead of its rows unless a
copy was put back (`ClientHolds`). The lemmas follow an answer on its way: a run of
rows ends where they change from there to gone (`RunHolds`), a range tells of every row it
covers (`RangeTold`), cutting it to the limit keeps that (`PrefixTold`), and the client
either starts over or has learnt of all rows up to its new position (`PageLearnt`). A query
(`QueryHolds`) has listed, in order, what it wants up to its cursor. That a page with `LIMIT`
is *the* first rows is stated by counting the rows before a row; that such a page is full,
has a last row, and leaves out only later ones is a fact about finite ordered sets
(`UnderCounts`, `FirstCounts`, `LastExists`), proved for any such order and applied to
the order by key (`KeysOrder`).
*Timeline*: `SessionsAlwaysExact`. `TimelineSound` holds at every turn of every loop only
together with what the loop has still to take: the events or snapshots numbered last
(`Splitting`, `Assigning`). Grouping needs to know that a session of the builder is one of
events or one of snapshots (`Plain`), because the start of a session that is both, made by a
merger of neighbours, is the lesser of two (`Begun`). The phases share their argument: a list
of sessions with one event more at its end (`OneMoreEvent`), a session of a snapshot put
between others (`InsertKeeps`) or a snapshot counted in one (`CountKeeps`), two neighbours put
together (`JoinKeepsEvents`, `JoinKeepsRest`; a visit and the application around it are two
joins) and the first one dropped (`TailKeeps`) each keep the order of the events, the order of
the sessions and that no snapshot is counted twice. So the builder neither loses nor repeats
an event, whatever the budget; what is dropped at last is the oldest, and says so.
Assumptions used: `StoreKeysAssumption`, `ConfigReloadAssumption`, `NeedsAssumption`,
`StoreOpeningAssumption`, `StoreReadersAssumption`, `TimelineAssumption`.

**`OwnershipProofs`** - `OwnershipIsSafe`, and `OwnershipIsKept` of the specification the run
`liveness` checks: the invariant, and the action properties that a stop and a start speak the
truth. `RecordNamesHolder` is nearly inductive, but a stop's word rests on what a command
found out several probes ago. `Sound` says it for every place a command can be at: who waits
for a recorder's end knows one that had written its name (`Named`), a recorder that had and
whose name the record no longer holds, or whose lock is free, is gone for good, so an answer
other than the target means that the target is gone; and whoever drives launchd without a
target holds the start lock. `PlistFollowed` is what is true of the plist in between: without
a service it is there only while a command is about to remove it or to bootstrap. The
assumption that recorders, commands and the two marks are different things
(`OwnershipAssumption`) is about the model's names only. A start's word (`StartTellsTheTruth`)
rests on `BeatsOpened`: a heartbeat, in the row or read by a command and not yet compared with
the owner, is of a recorder that opened the store; and on the wait's memory of the recorder it
saw first.

**`CaptureProofs`** - `FieldsAreHeard`, `TapComesBack`, `ClipboardStays`,
`AppsAreFollowed` and `SnapshotsAreSound`, all of `CaptureSpec`, the specification of the run
`capture`; each part of its composition has an invariant of its own.
*Fields* (`PullsHold`): that a key is read in time is not inductive, for what is read is
a burst of keys; `PullTimes` bounds the oldest unread key by the burst that will read it.
`Registered` says what the observer's registrations are while a field is held, and
`Reported` that a pull reports only what was never announced otherwise.
*Event tap* (`TapHold`): `TapTimes` bounds how long the tap has been deaf by what
brings it back, the watchdog's sleep or the wait before a retry. The clipboard needs the
order of everything under way: `Follows` says that the keys of the queue and of the batch
are newer than any key that has explained a change or may still explain one, and that
those of the current focus were pressed in its window; `Settling` that a key whose
authorization waits is still in the queue or the batch.
*Applications* (`AppsHold`): `PictureMatches` speaks of the moment at which nothing is
under way, so the invariant has to say what is under way: the end of every application that
does not run any more (`Pictured`), or a reason to attach to one that does, is in one of
the three queues unless the application is marked as lost; for this no notice of an application
may follow its end in any of them (`Ordered`). `FrontKnown` follows the tracked application
without replaying the queues: whatever they say was activated last, or else the tracked
one, is in front or its end is on its way. The trees are those of running applications
by the observers that asked (`Grown`), and an observer's flag is the filter's unless a pass
has still to visit it (`Flagged`).
*Walk* (`WalkHolds`): that the text is in reading order and the masks are complete is known of a
finished walk only. Before, the stack is in reading order too, all of it after what was
visited (`Preorder`), so that what is visited next comes last; and what a node was found to
have below it is visited or still on the stack (`Owed`). A batch of children
remembers whether its parent could be read, and a parent has one batch at most (`Batches`).
*Worker* (`WorkerHolds`): `TracksFocus` speaks of the moment at which nothing is under way.
Before, `Tracked` follows the focus through what is: there is a focus for every place in the
channel of triggers, from what the message in hand found to the transition not yet published
(`Trail`), each transition leads from one to the next, and the last is the focus in force.
What the worker watches once the wakes and ends that wait have been dealt with (`Heading`) is
the first of these or nothing, unless a transition to a window is still to come; with none to
come it is the focus in force, or nothing while the accessibility worker has yet to hear of
the wake or end that it answers with a transition (`Knows`). `Remembered` says that a saved
hash is one of an event that was sent, which makes a comparison with it one with the event.
Queues are filtered by picking places (`Picked`), whose typing is a counting argument about
finite sets of integers (`Placed`).
Assumptions used: `PullsAssumption`, `EventTapAssumption`, `AppsAssumption`, `WalkAssumption`,
`WorkerAssumption`.

**`TypedTextProofs`** - `TextIsGated`, also of `CaptureSpec`. Every property of
`TextStaysGated` speaks of a text at the moment it is recorded, on the ground of changes read
before, of keys pressed before that, and of captures that have since lost the focus.
`TextHolds` collects what is known meanwhile. `KeysKnown`: a key that can still explain a
change is in the history or on its way, and one from before a loss only until the loss is
heard of; this gives `GapVoids`. `TextCaptures` puts the captures in a line, those that lost
the focus (`Behind`) before the one in focus (`InFocus`). What a capture will record starts at
its baseline or after one of its changes (`Starts`), and really after the last that no key
explains (`Heads`); `Seen` says that any character of the value it read that is already
recorded, or is claimed by an earlier capture of the line, stands in every start, and that one
not to be recorded stands in every head. As a text is what follows its start (`DeltaOfMore`,
`DeltaOfOther`, `DeltaIsNew`), it holds neither: `TypedOnce` and `WithheldStaysOut`. `Aimed`
gives `TextFollowsTyping`: a generation is one field, and after a restart of the worker the
keys of a generation were aimed at it. The lemmas follow the code's layers: what recording
does to a capture and to the book of authorizations (`FlushSound`), what staging a change does
(`StageAfter`), what an observation and the resolution of a change of focus do
(`ObserveSound`, `ResolveSound`), then one lemma per action. At a restart all captures record
at once; that no two of these texts share a character is `JoinedOnce`.
Assumptions used: `TypedTextAssumption`.

Model-checked only:

* liveness (`PipelineAnswers`, `RequestsTakeEffect`, `RecorderComes`, `StopsReturn`, and of
  `FocusFollowed` that the newest focus is heard): the prover does not reason about fairness
  and ENABLED;
* that the estimate of a timeline's tokens (`Estimate`) is the sum it is meant to be: the
  proofs take it as any measure of a list of sessions.

## Findings

Runs that TLC finds violated:

* `snapshot_hash`: `content_snapshot/state.rs` documents that recording a hash needs a
  reservation. When the browser ends, `terminate_pid` drops the window's entry while its
  snapshot is still held for confirmation; a confirmation observed just before the end releases
  it afterwards, and recording the hash finds no entry.
* `start_paused_race`: the documentation and a test say that `start --paused` fails,
  when another recorder owns the store, without changing that recorder's pause. The probe and the
  write are two steps; a recorder that takes the store between them is paused by a start
  that then fails.
* `focus_restart`: the documentation says that navigations are observed when the page
  load changes. A browser worker is seeded with the focus in force and skips queued
  transitions that are not newer, but a transition to no focus has no generation and is
  never skipped. Queued before the start, it makes the new worker let go of the browser in
  front; the transition to that browser, queued behind it, is skipped, and page loads
  are ignored until the next change of window or title.
  The proof of `FrontFollowsFocus` found the opposite case, which needs two browsers: the
  receiver, which outlives the worker, recovers with the focus the *old* worker heard last
  as `previous`; if that was another browser than the one the new worker was seeded with
  and no application is in front, `handle_focus_transition` ends the former and the latter
  stays `frontmost` (`chrome/worker.rs:198`). Little follows from it, since a query looks
  at the focus in force again. `FrontFollowsFocus` states what holds otherwise, and
  `overrun` marks the workers either happened to.
* `start_gives_up`: a comment of `wait.rs` says that a store the recorder is still
  creating is not a failure. The wait looks at the store twice: a first look that finds
  none fetches no key, and a second that finds the encrypted one reports it locked, upon
  which the start removes the healthy recorder it has just started.

Disagreements met while modelling, stated as properties of the modules that no run
checks because the code does not satisfy them:

| Property | What the code does | What the documentation says |
|---|---|---|
| `CapabilityReports!PermissionsFromFresh` | `status` takes the permissions from the heartbeat of the right recorder, also when it is stale (`status/model.rs:117`) | `reference/cli.mdx:390`: from a fresh heartbeat, otherwise a local probe |
| `ConfigReload!ConfigTroubleIsCurrent` | a poll that finds the file it already follows returns early: after a bad file was removed again its trouble stays reported (`config.rs:289`) | `guides/recording.mdx:66`: `health.degraded` describes only a problem that is current |
| `AppObservers!FailuresAreCurrent` | a failure to take back a notification of an ended process is recorded after its entries were removed, and nothing removes it (`ax.rs:416`) | `guides/recording.mdx:66` |
| `AppObservers!FilterReachesApps` | a filter replaced while the collector attaches to the running applications does not reach their trees before the next change (`ax.rs:365`) | `guides/privacy.mdx:32`: every app the filters allow |
| `Ownership!ProbeNamesAnOwner` | a probe takes the lock for a moment; another probe then reads the record of an owner that is gone (`ownership.rs:84`) | `reference/cli.mdx:363`: `running` when the store lock has an owner |
| `TypedText!SameElementOnly` | authorizations outlive a stop of the accessibility worker; after a start a change may be matched with keys aimed at another field (`ax.rs:238`) | `reference/events.mdx:116`: a different focused element is not recorded as text |

Not stated as properties: `paused` is reported without a match of owner and heartbeat
(`status/model.rs:131`, `reference/cli.mdx:365`); an expanded filter asks for permissions again
(`guides/permissions.mdx:138`); a request of permissions that timed out stays in the
degraded reasons (`guides/recording.mdx:66`).

## Not modelled

Payloads, redaction and pattern matching (pure string functions); SQL, encryption and the
keychain's own behaviour; the macOS bindings; the text of reports; the `record` command's
output to stdout. The parts listed as `not_modelled` or `partly` in `PROJECT.json` say what
is left out of each.

## Plan

Done: the modules above, their runs, and the proofs of every safety property the passing runs
check. What is left is liveness, which stays with TLC, and the parts under "Not modelled".
