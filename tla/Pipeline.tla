------------------------------ MODULE Pipeline ------------------------------
(***************************************************************************)
(* The recording pipeline of the daemon: collectors put raw events in a    *)
(* bounded queue, one worker thread normalizes and filters them into a     *)
(* batch, and the batch is written to the event store together with the    *)
(* daemon's latest state snapshot.  When a write fails the worker keeps    *)
(* its data and backs off; meanwhile it serves control messages but takes  *)
(* no raw events.                                                          *)
(*                                                                         *)
(* The daemon's main thread is the only client of the control channel: it  *)
(* posts heartbeats without waiting and blocks on a flush, a replacement   *)
(* of the privacy filter, or the shutdown.                                 *)
(***************************************************************************)
EXTENDS Integers, FiniteSets, Sequences

CONSTANTS
  Events,     \* raw events the collectors may send, each at most once
  Groups,     \* coalescing keys of the normalizer (PendingKind)
  NoGroup,    \* stands for an event that is never coalesced
  GroupOf,    \* the coalescing key of each event
  Replacing,  \* the keys whose newer event replaces the pending one (titles)
  Ungated,    \* events of sources the configuration captures
  Policies,   \* privacy filter revisions
  Admits,     \* the events each revision lets into the store
  ShowsBody,  \* the events whose text body each revision lets into the store
  Capacity,   \* COLLECTOR_CHANNEL_CAPACITY
  MaxPending, \* MAX_PENDING_EVENTS of the normalizer
  MaxBatch,   \* MAX_BATCH_EVENTS
  LastDelay,  \* index of the last entry of RETRY_DELAYS
  MaxBeats,   \* bound on the number of snapshots posted
  MaxCrashes  \* bound on the number of process deaths

ASSUME GroupsAssumption ==
  /\ NoGroup \notin Groups
  /\ GroupOf \in [Events -> Groups \union {NoGroup}]
  /\ Replacing \subseteq Groups
  /\ Ungated \subseteq Events

ASSUME PolicyAssumption ==
  /\ Policies # {}
  /\ Admits \in [Policies -> SUBSET Events]
  /\ ShowsBody \in [Policies -> SUBSET Events]

\* The selectors a policy looks at are part of the coalescing key.
ASSUME UniformGroups ==
  \A e, f \in Events, p \in Policies :
    (GroupOf[e] = GroupOf[f] /\ GroupOf[e] \in Groups \ Replacing) =>
      /\ e \in Admits[p] <=> f \in Admits[p]
      /\ e \in ShowsBody[p] <=> f \in ShowsBody[p]

ASSUME BoundsAssumption ==
  /\ Capacity \in Nat \ {0} /\ MaxPending \in Nat \ {0}
  /\ MaxBatch \in Nat \ {0} /\ LastDelay \in Nat
  /\ MaxBeats \in Nat /\ MaxCrashes \in Nat

VARIABLES
  raw,         \* the raw event queue
  control,     \* the control channel
  waiting,     \* what the worker still owes the client: "flush", "shutdown" or "none"
  policy,      \* the worker's privacy filter
  pending,     \* the normalizer's coalescing buffer
  batch,       \* filtered events not yet written
  latest,      \* the newest snapshot the worker received (0: none)
  stateDirty,  \* the newest snapshot is not in the store yet
  health,      \* StoreHealth
  retryIndex,  \* position in RETRY_DELAYS
  stored,      \* events in the store
  storedState, \* the daemon snapshot in the store
  client,      \* what the main thread is blocked on
  ruling,      \* the privacy filter the main thread last asked for
  beats,       \* number of snapshots posted so far
  crashes,     \* number of process deaths so far
  \* History, read by the properties only.
  sent,        \* events a collector put in the queue
  refused,     \* events the gate, the normalizer or a filter let go of
  lost,        \* events that died with the process
  goal,        \* what was sent, and not yet lost, when the client's request was made
  promised,    \* events covered by an acknowledged flush or shutdown
  heldUnder    \* the filters in force while the worker held each event

workerVars  == <<waiting, policy, pending, batch>>
storeVars   == <<latest, stateDirty, health, retryIndex, stored, storedState>>
clientVars  == <<client, ruling, beats, crashes>>
historyVars == <<sent, refused, lost, goal, promised, heldUnder>>
vars == <<raw, control, workerVars, storeVars, clientVars, historyVars>>

\* A normalized event: the raw events merged into it, and whether it still
\* has its text body.
Item == [ids : SUBSET Events, body : BOOLEAN]

Controls == [kind : {"flush", "shutdown"}] \union
            [kind : {"replace"}, filter : Policies] \union
            [kind : {"heartbeat"}, state : Nat]

InSeq(s)      == {s[i] : i \in 1 .. Len(s)}
Ids(items)    == UNION {it.ids : it \in items}
PendingIds    == UNION {pending[g] : g \in Groups}
Held          == PendingIds \union Ids(batch)
Accepting     == health = "Healthy"
NoPending     == [g \in Groups |-> {}]
Waiting(pend) == {g \in Groups : pend[g] # {}}

\* PrivacyFilter::reprocess: drop the event, or drop its body, or keep it.
\* A body that is gone stays gone.
Reprocess(p, items) ==
  {[ids |-> it.ids, body |-> it.body /\ it.ids \subseteq ShowsBody[p]] :
     it \in {i \in items : i.ids \subseteq Admits[p]}}

\* PrivacyFilter::process_pending on what the normalizer emits.
ProcessPending(p, merged) ==
  Reprocess(p, {[ids |-> s, body |-> TRUE] : s \in merged})

TypeOK ==
  /\ raw \in Seq(Events)
  /\ control \in Seq(Controls)
  /\ waiting \in {"none", "flush", "shutdown"}
  /\ policy \in Policies
  /\ pending \in [Groups -> SUBSET Events]
  /\ batch \subseteq Item
  /\ latest \in Nat
  /\ stateDirty \in BOOLEAN
  /\ health \in {"Healthy", "Backoff", "Recovering"}
  /\ retryIndex \in 0 .. LastDelay
  /\ stored \subseteq Item
  /\ storedState \in Nat
  /\ client \in {"idle", "flush", "replace", "shutdown", "stopped"}
  /\ ruling \in Policies
  /\ beats \in Nat
  /\ crashes \in Nat
  /\ sent \subseteq Events
  /\ refused \subseteq Events
  /\ lost \subseteq Events
  /\ goal \subseteq Events
  /\ promised \subseteq Events
  /\ heldUnder \in [Events -> SUBSET Policies]

Init ==
  /\ raw = <<>> /\ control = <<>> /\ waiting = "none"
  /\ policy \in Policies /\ ruling = policy
  /\ pending = NoPending /\ batch = {}
  /\ latest = 0 /\ stateDirty = FALSE
  /\ health = "Healthy" /\ retryIndex = 0
  /\ stored = {} /\ storedState = 0
  /\ client = "idle" /\ beats = 0 /\ crashes = 0
  /\ sent = {} /\ refused = {} /\ lost = {}
  /\ goal = {} /\ promised = {}
  /\ heldUnder = [e \in Events |-> {}]

-----------------------------------------------------------------------------
(* The clients: collectors' relays and the daemon's main thread.           *)

\* A relay's try_send succeeds.  shutdown_daemon stops every relay before it
\* asks for the shutdown.
Send(e) ==
  /\ client \notin {"shutdown", "stopped"}
  /\ e \notin sent
  /\ Len(raw) < Capacity
  /\ raw' = Append(raw, e)
  /\ sent' = sent \union {e}
  /\ UNCHANGED <<control, workerVars, storeVars, clientVars,
                 refused, lost, goal, promised, heldUnder>>

\* Pipeline::heartbeat: posted and not waited for.
Heartbeat ==
  /\ client = "idle"
  /\ beats < MaxBeats
  /\ beats' = beats + 1
  /\ control' = Append(control, [kind |-> "heartbeat", state |-> beats + 1])
  /\ UNCHANGED <<raw, workerVars, storeVars, client, ruling, crashes, historyVars>>

\* Pipeline::flush, Pipeline::replace_filter and Pipeline::shutdown post a
\* request and block until the worker has acknowledged it (or has ended).
Request(message) ==
  /\ client = "idle"
  /\ client' = message.kind
  /\ control' = Append(control, message)
  /\ goal' = sent \ lost
  /\ UNCHANGED <<raw, workerVars, storeVars, beats, crashes,
                 sent, refused, lost, promised, heldUnder>>

Flush            == Request([kind |-> "flush"]) /\ UNCHANGED ruling
ReplaceFilter(p) == Request([kind |-> "replace", filter |-> p]) /\ ruling' = p
Shutdown         == Request([kind |-> "shutdown"]) /\ UNCHANGED ruling

-----------------------------------------------------------------------------
(* The store destination.                                                  *)

Keep(b) ==
  /\ batch' = b
  /\ UNCHANGED <<stateDirty, health, retryIndex, stored, storedState>>

\* StoreDestination::persist: the events and a dirty snapshot in one
\* transaction, or neither.  b is the batch, s the newest snapshot and d
\* whether it is dirty.
PersistNothing(b, d) ==
  /\ b = {} /\ ~d
  /\ health' = "Healthy"
  /\ batch' = b /\ stateDirty' = d
  /\ UNCHANGED <<retryIndex, stored, storedState>>

PersistOk(b, s, d) ==
  /\ b # {} \/ d
  /\ stored' = stored \union b
  /\ storedState' = IF d THEN s ELSE storedState
  /\ batch' = {} /\ stateDirty' = FALSE
  /\ retryIndex' = 0 /\ health' = "Healthy"

\* Mutant: the delay index runs past the table.
EnterBackoffUncapped(b, s, d) ==
  /\ b # {} \/ d
  /\ batch' = b /\ stateDirty' = (s # 0)
  /\ retryIndex' = retryIndex + 1 /\ health' = "Backoff"
  /\ UNCHANGED <<stored, storedState>>

\* Mutant: the batch is cleared although the write failed.
EnterBackoffForgetful(b, s, d) ==
  /\ b # {} \/ d
  /\ batch' = {} /\ stateDirty' = (s # 0)
  /\ retryIndex' = LastDelay /\ health' = "Backoff"
  /\ UNCHANGED <<stored, storedState>>

\* Mutant: events written before the failure are not rolled back.
EnterBackoffHalfWritten(b, s, d) ==
  /\ b # {} \/ d
  /\ batch' = b /\ stateDirty' = (s # 0)
  /\ retryIndex' = LastDelay /\ health' = "Backoff"
  /\ \E half \in SUBSET b : stored' = stored \union half
  /\ UNCHANGED storedState

EnterBackoff(b, s, d) ==
  /\ b # {} \/ d
  /\ batch' = b
  /\ stateDirty' = (s # 0)
  /\ retryIndex' = IF retryIndex < LastDelay THEN retryIndex + 1 ELSE LastDelay
  /\ health' = "Backoff"
  /\ UNCHANGED <<stored, storedState>>

Persist(b, s, d) ==
  PersistNothing(b, d) \/ PersistOk(b, s, d) \/ EnterBackoff(b, s, d)

\* StoreDestination::flush: nothing is written while the store backs off.
FlushDestination(b) ==
  \/ Accepting /\ Persist(b, latest, stateDirty)
  \/ ~Accepting /\ Keep(b)

\* Worker::write_events.  The batch is flushed once it holds MaxBatch events
\* or its bytes reach the limit, which any nonempty batch may.
WriteEvents(b) ==
  \/ b # {} /\ FlushDestination(b)
  \/ Cardinality(b) < MaxBatch /\ Keep(b)

-----------------------------------------------------------------------------
(* The worker.                                                             *)

\* Normalizer::push of the event at the head of the queue.  `expired` are the
\* groups whose coalescing window has passed.  An event that cannot be
\* coalesced drains the buffer; one that can joins its group, and a full
\* buffer (by count, or by bytes) is drained.
AfterPush(e, expired, full) ==
  LET g    == GroupOf[e]
      live == [h \in Groups |-> IF h \in expired THEN {} ELSE pending[h]]
      join == [live EXCEPT ![g] = IF g \in Replacing THEN {e} ELSE @ \union {e}]
  IN  IF g = NoGroup THEN [pend |-> NoPending,
                           out  |-> {pending[h] : h \in Waiting(pending)} \union {{e}}]
      ELSE IF full THEN [pend |-> NoPending,
                         out  |-> {pending[h] : h \in expired}
                                  \union {join[h] : h \in Waiting(join)}]
      ELSE [pend |-> join, out |-> {pending[h] : h \in expired}]

\* Worker::process for an event the source gate closes on, or one that
\* Normalizer::push rejects (its wall clock is out of range).
Refuse(e) ==
  /\ refused' = refused \union {e}
  /\ UNCHANGED <<pending, batch, stateDirty, health, retryIndex, stored,
                 storedState, heldUnder>>

Admit(e) ==
  /\ e \in Ungated
  /\ \E expired \in SUBSET Waiting(pending), full \in BOOLEAN :
       LET after == AfterPush(e, expired, full)
           b     == batch \union ProcessPending(policy, after.out)
       IN  /\ Cardinality(Waiting(after.pend)) < MaxPending
           /\ pending' = after.pend
           /\ WriteEvents(b)
           \* Replaced titles, and what the filter drops, are let go here.
           /\ refused' = refused \union
                ((PendingIds \union {e}) \ (Ids(b) \union UNION {after.pend[g] : g \in Groups}))
  /\ heldUnder' = [heldUnder EXCEPT ![e] = {policy}]

\* One raw event, taken by the main loop or while draining the queue.
Process ==
  /\ Accepting
  /\ raw # <<>>
  /\ raw' = Tail(raw)
  /\ Refuse(Head(raw)) \/ Admit(Head(raw))
  /\ UNCHANGED <<control, waiting, policy, latest, clientVars,
                 sent, lost, goal, promised>>

\* Mutant: the normalizer is not flushed with the batch.
FlushBatchOnly ==
  /\ FlushDestination(batch)
  /\ UNCHANGED <<pending, refused>>

\* Worker::flush_all: what the normalizer holds goes to the batch, and the
\* batch to the store.
FlushBatch ==
  LET b == batch \union ProcessPending(policy, {pending[g] : g \in Waiting(pending)})
  IN  /\ pending' = NoPending
      /\ FlushDestination(b)
      /\ refused' = refused \union (PendingIds \ Ids(b))

\* flush_all without an acknowledgement: the batch interval has elapsed, or
\* the drain turn ended before the queue was empty.
FlushAll ==
  /\ client # "stopped"
  /\ health # "Recovering"
  /\ FlushBatch
  /\ UNCHANGED <<raw, control, waiting, policy, latest, clientVars,
                 sent, lost, goal, promised, heldUnder>>

Acknowledge ==
  /\ waiting' = "none"
  /\ client' = IF waiting = "shutdown" THEN "stopped" ELSE "idle"
  /\ promised' = promised \union goal

\* Mutant: the client is answered although the write failed.
FlushAndAcknowledgeFailure ==
  /\ Accepting /\ waiting # "none" /\ raw = <<>>
  /\ FlushBatch
  /\ Acknowledge
  /\ UNCHANGED <<raw, control, policy, latest, ruling, beats, crashes,
                 sent, lost, goal, heldUnder>>

\* Mutant: the client is answered before the queue is drained.
FlushAndAcknowledgeEarly ==
  /\ Accepting /\ waiting # "none"
  /\ FlushBatch
  /\ IF health' = "Healthy" THEN Acknowledge ELSE UNCHANGED <<waiting, client, promised>>
  /\ UNCHANGED <<raw, control, policy, latest, ruling, beats, crashes,
                 sent, lost, goal, heldUnder>>

\* A turn that found the queue empty: flush, and answer if the write went well.
FlushAndAcknowledge ==
  /\ Accepting
  /\ waiting # "none"
  /\ raw = <<>>
  /\ FlushBatch
  /\ IF health' = "Healthy"
       THEN Acknowledge
       ELSE UNCHANGED <<waiting, client, promised>>
  /\ UNCHANGED <<raw, control, policy, latest, ruling, beats, crashes,
                 sent, lost, goal, heldUnder>>

TakeControl(kind) ==
  /\ health # "Recovering"
  /\ control # <<>>
  /\ Head(control).kind = kind
  /\ control' = Tail(control)

\* The waiter is queued; the request is answered by FlushAndAcknowledge.
HandleWaiter ==
  /\ \E kind \in {"flush", "shutdown"} : TakeControl(kind) /\ waiting' = kind
  /\ UNCHANGED <<raw, policy, pending, batch, storeVars, clientVars, historyVars>>

\* Mutant: only the new revision applies to what the normalizer held.
RefilterNewOnly(p) ==
  Reprocess(p, batch)
    \union ProcessPending(p, {pending[g] : g \in Waiting(pending)})

\* Mutant: the batch crossed the filter before and is not filtered again.
RefilterPendingOnly(p) ==
  batch \union Reprocess(p, ProcessPending(policy, {pending[g] : g \in Waiting(pending)}))

\* What the worker still holds after a filter replacement: both revisions
\* apply to what the normalizer held, the new one to the batch.
Refilter(p) ==
  Reprocess(p, batch)
    \union Reprocess(p, ProcessPending(policy, {pending[g] : g \in Waiting(pending)}))

\* Mutant: a replacement is answered only if the store takes writes.
HandleReplaceHealthy ==
  /\ TakeControl("replace")
  /\ LET p == Head(control).filter
     IN  /\ policy' = p
         /\ pending' = NoPending
         /\ FlushDestination(Refilter(p))
         /\ refused' = refused \union (Held \ Ids(Refilter(p)))
  /\ client' = IF health' = "Healthy" THEN "idle" ELSE client
  /\ UNCHANGED <<raw, waiting, latest, ruling, beats, crashes, sent, lost, goal,
                 promised, heldUnder>>

\* The client is answered even while the store backs off.
HandleReplace ==
  /\ TakeControl("replace")
  /\ LET p == Head(control).filter
         b == Refilter(p)
     IN  /\ policy' = p
         /\ pending' = NoPending
         /\ FlushDestination(b)
         /\ refused' = refused \union (Held \ Ids(b))
         /\ heldUnder' = [e \in Events |->
              IF e \in Held THEN heldUnder[e] \union {p} ELSE heldUnder[e]]
  /\ client' = "idle"
  /\ UNCHANGED <<raw, waiting, latest, ruling, beats, crashes, sent, lost, goal,
                 promised>>

\* Mutant: a snapshot that arrives during a backoff is not marked dirty.
HandleHeartbeatClean ==
  /\ TakeControl("heartbeat")
  /\ latest' = Head(control).state
  /\ \/ Accepting /\ Persist(batch, latest', TRUE)
     \/ ~Accepting /\ UNCHANGED <<batch, stateDirty, health, retryIndex, stored, storedState>>
  /\ UNCHANGED <<raw, waiting, policy, pending, clientVars, historyVars>>

\* StoreDestination::heartbeat.
HandleHeartbeat ==
  /\ TakeControl("heartbeat")
  /\ latest' = Head(control).state
  /\ \/ Accepting /\ Persist(batch, latest', TRUE)
     \/ /\ ~Accepting
        /\ stateDirty' = TRUE
        /\ UNCHANGED <<batch, health, retryIndex, stored, storedState>>
  /\ UNCHANGED <<raw, waiting, policy, pending, clientVars, historyVars>>

\* StoreDestination::retry_if_due, in the two steps other threads can see.
RetryDue ==
  /\ health = "Backoff"
  /\ health' = "Recovering"
  /\ UNCHANGED <<raw, control, workerVars, latest, stateDirty, retryIndex,
                 stored, storedState, clientVars, historyVars>>

Retry ==
  /\ health = "Recovering"
  /\ Persist(batch, latest, stateDirty)
  /\ UNCHANGED <<raw, control, waiting, policy, pending, latest, clientVars,
                 historyVars>>

-----------------------------------------------------------------------------
(* Death and restart of the process.                                       *)

\* What is in memory is gone; a committed transaction is not.  The next
\* daemon builds a new pipeline from the configuration it reads.
Restart(p) ==
  /\ raw' = <<>> /\ control' = <<>> /\ waiting' = "none"
  /\ policy' = p /\ ruling' = p
  /\ pending' = NoPending /\ batch' = {}
  /\ latest' = 0 /\ stateDirty' = FALSE
  /\ health' = "Healthy" /\ retryIndex' = 0
  /\ client' = "idle"
  /\ crashes' = crashes + 1
  /\ lost' = lost \union InSeq(raw) \union Held
  /\ goal' = {}
  /\ UNCHANGED <<stored, storedState, beats, sent, refused, promised, heldUnder>>

Crash ==
  /\ crashes < MaxCrashes
  /\ \E p \in Policies : Restart(p)

-----------------------------------------------------------------------------
Worker == Process \/ FlushAll \/ FlushAndAcknowledge \/ HandleWaiter
            \/ HandleReplace \/ HandleHeartbeat \/ RetryDue \/ Retry

Next ==
  \/ \E e \in Events : Send(e)
  \/ Heartbeat
  \/ Flush
  \/ \E p \in Policies : ReplaceFilter(p)
  \/ Shutdown
  \/ Process
  \/ FlushAll
  \/ FlushAndAcknowledge
  \/ HandleWaiter
  \/ HandleReplace
  \/ HandleHeartbeat
  \/ RetryDue
  \/ Retry
  \/ Crash

Spec == Init /\ [][Next]_vars

-----------------------------------------------------------------------------
(* What the pipeline must guarantee.                                       *)

\* No event the queue accepted is lost, duplicated or both kept and let go:
\* it is in exactly one of the queue, the normalizer, the batch, the store,
\* the refused and the dead, and in one normalized event only (the worker's
\* take, merge, filter, retain, retry and write steps together).
Conservation ==
  /\ sent = InSeq(raw) \union Held \union Ids(stored) \union refused \union lost
  /\ InSeq(raw) \intersect (Held \union Ids(stored) \union refused \union lost) = {}
  /\ PendingIds \intersect (Ids(batch) \union Ids(stored) \union refused \union lost) = {}
  /\ Ids(batch) \intersect (Ids(stored) \union refused \union lost) = {}
  /\ Ids(stored) \intersect (refused \union lost) = {}
  /\ refused \intersect lost = {}
  /\ \A i, j \in 1 .. Len(raw) : raw[i] = raw[j] => i = j
  /\ \A it, jt \in batch \union stored : it = jt \/ it.ids \intersect jt.ids = {}

\* An acknowledged flush (the pause command's) or shutdown means that all
\* that had been sent before it was asked for is settled: in the store or
\* refused, never still in memory and never lost by a later death.
PromiseKept == promised \subseteq Ids(stored) \union refused

\* A stored event satisfies every filter in force while the worker held it,
\* and its body is there only if every one of them shows it: a reload
\* tightens what is held, and a relaxation does not restore it.
StoredWithinPolicies ==
  \A it \in stored : \A e \in it.ids : \A p \in heldUnder[e] :
    e \in Admits[p] /\ (it.body => e \in ShowsBody[p])

\* Once the main thread's replacement of the filter is acknowledged, even
\* while the store backs off, nothing is written that it does not admit.
CommitsObeyRuling ==
  [][client # "replace" =>
       \A it \in stored' \ stored :
         it.ids \subseteq Admits[ruling] /\ (it.body => it.ids \subseteq ShowsBody[ruling])]_vars

\* While the store accepts writes it holds the newest snapshot the worker
\* received: a failed write, also one of events only, leaves the snapshot to
\* be written with the retained events.
HealthyStoreIsCurrent ==
  Accepting /\ latest # 0 => storedState = latest /\ ~stateDirty

\* Fairness: the worker thread keeps running, and a store that is tried
\* again and again eventually takes a write.
FairSpec ==
  /\ Spec
  /\ WF_vars(Process) /\ WF_vars(FlushAndAcknowledge) /\ WF_vars(FlushAll)
  /\ WF_vars(HandleWaiter) /\ WF_vars(HandleReplace) /\ WF_vars(HandleHeartbeat)
  /\ WF_vars(RetryDue) /\ SF_vars(Retry /\ Accepting')

\* The main thread never stays blocked: every flush, filter replacement and
\* shutdown is answered, also when it was asked for during a backoff.
Unblocked == client \in {"idle", "stopped"}
RequestsAnswered == []<>Unblocked

\* Every event a collector sent ends in the store or is refused, unless the
\* process dies.
Settled == sent \subseteq Ids(stored) \union refused \union lost
EventsSettle == []<>Settled

\* The pipeline implements the durable log: what is in flight is what the
\* queue, the normalizer and the batch hold.
Log == INSTANCE DurableLog WITH
         inflight <- InSeq(raw) \union Held,
         durable  <- Ids(stored)

\* Every step of the pipeline is one step of the durable log or none.
ImplementsLog == Log!Spec

=============================================================================
