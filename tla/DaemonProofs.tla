---------------------------- MODULE DaemonProofs ----------------------------
(***************************************************************************)
(* Proofs about the daemon's pipeline and its main loop.  Pipeline, for    *)
(* every set of events, coalescing keys and filters and for every bound:   *)
(* types, Conservation, PromiseKept and the implementation of DurableLog;  *)
(* then the privacy filters and the daemon snapshot.  PauseControl, for    *)
(* any set of collectors and commands, any stop order that leaves no       *)
(* collector out and any bounds: types, PauseHolds and PauseIsTheUsers.    *)
(***************************************************************************)
EXTENDS Pipeline, PauseControl, TLAPS

\* Normalized events that share no raw event.
Apart(items) == \A it, jt \in items : it = jt \/ it.ids \intersect jt.ids = {}

\* What every way of handing the batch b to the store does: b is retained
\* whole or written whole.
Written(b) ==
  /\ \/ batch' = b /\ stored' = stored
     \/ batch' = {} /\ stored' = stored \union b
  /\ stateDirty' \in BOOLEAN
  /\ health' \in {"Healthy", "Backoff", "Recovering"}
  /\ retryIndex' \in 0 .. LastDelay
  /\ storedState' \in Nat

-----------------------------------------------------------------------------
(* Facts about the operators the model is built from.                      *)

\* A persist attempt retains or writes the whole batch, and a store that is
\* healthy afterwards has it.
LEMMA PersistWrites ==
  ASSUME TypeOK, NEW b \in SUBSET Item, NEW s \in Nat, NEW d \in BOOLEAN,
         Persist(b, s, d)
  PROVE  Written(b) /\ (health' = "Healthy" => batch' = {})
<1>1. CASE PersistNothing(b, d)
  BY <1>1 DEF PersistNothing, Written, TypeOK
<1>2. CASE PersistOk(b, s, d)
  <2>1. storedState' \in Nat
    BY <1>2 DEF PersistOk, TypeOK
  <2>2. retryIndex' \in 0 .. LastDelay
    BY <1>2, BoundsAssumption DEF PersistOk, BoundsAssumption
  <2>3. QED
    BY <1>2, <2>1, <2>2 DEF PersistOk, Written
<1>3. CASE EnterBackoff(b, s, d)
  BY <1>3, BoundsAssumption DEF BoundsAssumption, EnterBackoff, Written, TypeOK
<1>4. QED
  BY <1>1, <1>2, <1>3 DEF Persist

\* The same for a flush, which leaves the batch alone during a backoff.
LEMMA FlushWrites ==
  ASSUME TypeOK, NEW b \in SUBSET Item, FlushDestination(b)
  PROVE  Written(b) /\ (health' = "Healthy" => batch' = {})
<1>1. CASE Persist(b, latest, stateDirty)
  BY <1>1, PersistWrites DEF TypeOK
<1>2. CASE ~Accepting /\ Keep(b)
  BY <1>2 DEF Keep, Accepting, Written, TypeOK
<1>3. QED
  BY <1>1, <1>2 DEF FlushDestination

\* The same for write_events, which may keep a batch that is not full.
LEMMA WriteEventsWrites ==
  ASSUME TypeOK, NEW b \in SUBSET Item, WriteEvents(b)
  PROVE  Written(b)
<1>1. CASE FlushDestination(b)
  BY <1>1, FlushWrites
<1>2. CASE Keep(b)
  BY <1>2 DEF Keep, Written, TypeOK
<1>3. QED
  BY <1>1, <1>2 DEF WriteEvents

\* A filter only drops normalized events or their bodies.
LEMMA ReprocessShrinks ==
  ASSUME NEW p \in Policies, NEW X \in SUBSET Item, Apart(X)
  PROVE  /\ Reprocess(p, X) \in SUBSET Item
         /\ Ids(Reprocess(p, X)) \subseteq Ids(X)
         /\ Apart(Reprocess(p, X))
<1> DEFINE F(x) == [ids |-> x.ids, body |-> x.body /\ x.ids \subseteq ShowsBody[p]]
<1>1. \A r \in Reprocess(p, X) : \E x \in X : r = F(x)
  BY Zenon DEF Reprocess
<1>2. \A x \in X : F(x) \in Item /\ F(x).ids = x.ids
  BY DEF Item
<1> HIDE DEF F
<1>3. Ids(Reprocess(p, X)) \subseteq Ids(X)
  BY <1>1, <1>2 DEF Ids
<1>4. Apart(Reprocess(p, X))
  <2> SUFFICES ASSUME NEW q \in Reprocess(p, X), NEW r \in Reprocess(p, X)
               PROVE  q = r \/ q.ids \intersect r.ids = {}
    BY DEF Apart
  <2>1. PICK x \in X : q = F(x)
    BY <1>1
  <2>2. PICK y \in X : r = F(y)
    BY <1>1
  <2>3. CASE x = y
    BY <2>1, <2>2, <2>3
  <2>4. CASE x.ids \intersect y.ids = {}
    BY <1>2, <2>1, <2>2, <2>4
  <2>5. QED
    BY <2>3, <2>4 DEF Apart
<1>5. QED
  BY <1>1, <1>2, <1>3, <1>4

\* What the normalizer emits is filtered the same way.
LEMMA ProcessPendingShrinks ==
  ASSUME NEW p \in Policies, NEW M \in SUBSET SUBSET Events,
         \A s, t \in M : s = t \/ s \intersect t = {}
  PROVE  /\ ProcessPending(p, M) \in SUBSET Item
         /\ Ids(ProcessPending(p, M)) \subseteq UNION M
         /\ Apart(ProcessPending(p, M))
<1> DEFINE X == {[ids |-> s, body |-> TRUE] : s \in M}
<1>1. \A x \in X : \E s \in M : x = [ids |-> s, body |-> TRUE]
  OBVIOUS
<1>2. ASSUME NEW x \in X
      PROVE  x \in Item /\ x.ids \in M
  <2>1. PICK s \in M : x = [ids |-> s, body |-> TRUE]
    BY <1>1
  <2>2. s \in SUBSET Events
    OBVIOUS
  <2>3. QED
    BY <2>1, <2>2 DEF Item
<1>3. X \in SUBSET Item
  BY <1>2
<1>4. Apart(X)
  <2> SUFFICES ASSUME NEW x \in X, NEW y \in X
               PROVE  x = y \/ x.ids \intersect y.ids = {}
    BY DEF Apart
  <2>1. PICK s \in M : x = [ids |-> s, body |-> TRUE]
    BY <1>1
  <2>2. PICK t \in M : y = [ids |-> t, body |-> TRUE]
    BY <1>1
  <2>3. CASE s = t
    BY <2>1, <2>2, <2>3
  <2>4. CASE s \intersect t = {}
    BY <2>1, <2>2, <2>4
  <2>5. QED
    BY <2>3, <2>4
<1>5. Ids(X) \subseteq UNION M
  BY <1>2 DEF Ids
<1>6. ProcessPending(p, M) = Reprocess(p, X)
  BY DEF ProcessPending
<1> HIDE DEF X
<1>7. QED
  BY <1>3, <1>4, <1>5, <1>6, ReprocessShrinks

\* Taking the head of a queue without repetitions removes exactly that event.
LEMMA TailTakesHead ==
  ASSUME NEW s \in Seq(Events), s # <<>>,
         \A i, j \in 1 .. Len(s) : s[i] = s[j] => i = j
  PROVE  /\ Tail(s) \in Seq(Events)
         /\ Head(s) \in InSeq(s)
         /\ InSeq(Tail(s)) = InSeq(s) \ {Head(s)}
         /\ \A i, j \in 1 .. Len(Tail(s)) : Tail(s)[i] = Tail(s)[j] => i = j
<1>1. /\ Len(s) \in Nat /\ Len(s) >= 1 /\ Head(s) = s[1]
      /\ Tail(s) \in Seq(Events) /\ Len(Tail(s)) = Len(s) - 1
  OBVIOUS
<1>2. \A i \in 1 .. Len(Tail(s)) : Tail(s)[i] = s[i + 1]
  OBVIOUS
<1>3. \A i \in 1 .. Len(Tail(s)) : i + 1 \in 1 .. Len(s) /\ i + 1 # 1
  BY <1>1
<1>4. InSeq(Tail(s)) \subseteq InSeq(s) \ {Head(s)}
  BY <1>1, <1>2, <1>3 DEF InSeq
<1>5. ASSUME NEW e \in InSeq(s) \ {Head(s)}
      PROVE  e \in InSeq(Tail(s))
  <2>1. PICK i \in 1 .. Len(s) : e = s[i]
    BY DEF InSeq
  <2>2. i # 1
    BY <1>1, <2>1
  <2>3. i - 1 \in 1 .. Len(Tail(s)) /\ (i - 1) + 1 = i
    BY <1>1, <2>2
  <2>4. QED
    BY <1>2, <2>1, <2>3 DEF InSeq
<1>6. Head(s) \in InSeq(s)
  BY <1>1 DEF InSeq
<1>7. \A i, j \in 1 .. Len(Tail(s)) : Tail(s)[i] = Tail(s)[j] => i = j
  BY <1>1, <1>2, <1>3
<1>8. QED
  BY <1>1, <1>4, <1>5, <1>6, <1>7

\* The coalescing buffer keeps each event under its own key.
Grouped(pend) == \A g \in Groups : \A e \in pend[g] : GroupOf[e] = g

\* The new event e and what was pending are each in at most one place after
\* a push: a merged event that is emitted, or one key of the buffer.
Partition(after, e) ==
  /\ after.pend \in [Groups -> SUBSET Events]
  /\ Grouped(after.pend)
  /\ after.out \in SUBSET SUBSET Events
  /\ \A s, t \in after.out : s = t \/ s \intersect t = {}
  /\ UNION after.out \subseteq PendingIds \union {e}
  /\ UNION {after.pend[g] : g \in Groups} \subseteq PendingIds \union {e}
  /\ (UNION after.out) \intersect UNION {after.pend[g] : g \in Groups} = {}

\* Normalizer::push moves the new event and what was pending either to its
\* output or to the buffer, each event to one place.
LEMMA PushPartitions ==
  ASSUME NEW e \in Events, pending \in [Groups -> SUBSET Events], Grouped(pending),
         e \notin PendingIds,
         NEW expired \in SUBSET Waiting(pending), NEW full \in BOOLEAN,
         NEW after, after = AfterPush(e, expired, full)
  PROVE  Partition(after, e)
<1> DEFINE g0    == GroupOf[e]
           live  == [h \in Groups |-> IF h \in expired THEN {} ELSE pending[h]]
           join  == [live EXCEPT ![g0] = IF g0 \in Replacing THEN {e} ELSE @ \union {e}]
<1>1. g0 \in Groups \/ g0 = NoGroup
  BY GroupsAssumption DEF GroupsAssumption
<1>2. /\ NoPending \in [Groups -> SUBSET Events]
      /\ \A g \in Groups : NoPending[g] = {}
  BY DEF NoPending
<1>3. \A g, h \in Groups : g # h => pending[g] \intersect pending[h] = {}
  BY DEF Grouped
<1>4. \A g \in Groups : pending[g] \subseteq PendingIds /\ e \notin pending[g]
  BY DEF PendingIds
<1>5. CASE g0 = NoGroup
  <2>1. after = [pend |-> NoPending, out |-> {pending[h] : h \in Waiting(pending)} \union {{e}}]
    BY <1>5 DEF AfterPush
  <2>2. after.pend = NoPending /\ after.out = {pending[h] : h \in Waiting(pending)} \union {{e}}
    BY <2>1
  <2>3. \A s \in after.out : s = {e} \/ \E h \in Groups : s = pending[h]
    BY <2>2 DEF Waiting
  <2>4. after.out \in SUBSET SUBSET Events
    BY <2>3
  <2>5. ASSUME NEW s \in after.out, NEW t \in after.out
        PROVE  s = t \/ s \intersect t = {}
    <3>1. CASE s = {e} /\ t = {e}
      BY <3>1
    <3>2. CASE s = {e} /\ \E h \in Groups : t = pending[h]
      BY <3>2, <1>4
    <3>3. CASE t = {e} /\ \E h \in Groups : s = pending[h]
      BY <3>3, <1>4
    <3>4. CASE \E g, h \in Groups : s = pending[g] /\ t = pending[h]
      BY <3>4, <1>3
    <3>5. QED
      BY <2>3, <3>1, <3>2, <3>3, <3>4
  <2>6. UNION after.out \subseteq PendingIds \union {e}
    BY <2>3, <1>4
  <2>7. UNION {after.pend[g] : g \in Groups} = {}
    BY <2>2, <1>2
  <2>8. Grouped(after.pend)
    BY <2>2, <1>2 DEF Grouped
  <2>9. QED
    BY <2>2, <2>4, <2>5, <2>6, <2>7, <2>8, <1>2 DEF Partition
<1>6. CASE g0 \in Groups
  <2>1. live \in [Groups -> SUBSET Events]
    OBVIOUS
  <2>2. join \in [Groups -> SUBSET Events]
    BY <2>1
  <2>3. \A h \in Groups : h # g0 => join[h] = live[h]
    BY <2>1
  <2>4. join[g0] = {e} \/ join[g0] = live[g0] \union {e}
    BY <2>1, <1>6
  <2>5. \A h \in Groups : join[h] \subseteq live[h] \union {e} /\ (h # g0 => e \notin join[h])
    BY <2>3, <2>4, <1>4
  <2>6. \A h \in Groups : join[h] \subseteq PendingIds \union {e}
    BY <2>5, <1>4
  <2>7. Grouped(join)
    <3> SUFFICES ASSUME NEW h \in Groups, NEW f \in join[h]
                 PROVE  GroupOf[f] = h
      BY DEF Grouped
    <3>1. CASE f = e
      BY <3>1, <2>5
    <3>2. CASE f \in pending[h]
      BY <3>2 DEF Grouped
    <3>3. QED
      BY <3>1, <3>2, <2>5
  <2>8. \A g, h \in Groups : g # h => join[g] \intersect join[h] = {}
    BY <2>7 DEF Grouped
  <2>9. \A g \in expired, h \in Groups : pending[g] \intersect join[h] = {}
    BY <2>5, <1>3, <1>4 DEF Waiting
  <2> DEFINE old == {pending[h] : h \in expired}
  <2>10. old \in SUBSET SUBSET Events /\ UNION old \subseteq PendingIds
    BY <1>4 DEF Waiting
  <2>11. \A s \in old : \E h \in expired : s = pending[h]
    OBVIOUS
  <2>12. CASE full
    <3> DEFINE rest == {join[h] : h \in Waiting(join)}
    <3>1. after.pend = NoPending /\ after.out = old \union rest
      BY <2>12, <1>6, GroupsAssumption DEF AfterPush, GroupsAssumption
    <3>2. \A s \in rest : \E h \in Groups : s = join[h]
      BY DEF Waiting
    <3> HIDE DEF old, rest, join, live
    <3>3. after.out \in SUBSET SUBSET Events
      BY <3>1, <3>2, <2>2, <2>10
    <3>4. \A s, t \in after.out : s = t \/ s \intersect t = {}
      <4> SUFFICES ASSUME NEW s \in after.out, NEW t \in after.out
                   PROVE  s = t \/ s \intersect t = {}
        OBVIOUS
      <4>1. CASE s \in old /\ t \in old
        BY <4>1, <2>11, <1>3 DEF Waiting
      <4>2. CASE s \in old /\ t \in rest
        BY <4>2, <2>11, <3>2, <2>9
      <4>3. CASE s \in rest /\ t \in old
        BY <4>3, <2>11, <3>2, <2>9
      <4>4. CASE s \in rest /\ t \in rest
        BY <4>4, <3>2, <2>8
      <4>5. QED
        BY <3>1, <4>1, <4>2, <4>3, <4>4
    <3>5. UNION after.out \subseteq PendingIds \union {e}
      BY <3>1, <3>2, <2>6, <2>10
    <3>6. UNION {after.pend[g] : g \in Groups} = {}
      BY <3>1, <1>2
    <3>7. Grouped(after.pend)
      BY <3>1, <1>2 DEF Grouped
    <3>8. QED
      BY <3>1, <3>3, <3>4, <3>5, <3>6, <3>7, <1>2 DEF Partition
  <2>13. CASE ~full
    <3>1. after.pend = join /\ after.out = old
      BY <2>13, <1>6, GroupsAssumption DEF AfterPush, GroupsAssumption
    <3> HIDE DEF old, join, live
    <3>2. \A s, t \in after.out : s = t \/ s \intersect t = {}
      BY <3>1, <2>11, <1>3 DEF Waiting
    <3>3. (UNION after.out) \intersect UNION {after.pend[g] : g \in Groups} = {}
      BY <3>1, <2>9, <2>11
    <3>4. UNION {after.pend[g] : g \in Groups} \subseteq PendingIds \union {e}
      BY <3>1, <2>6
    <3>5. QED
      BY <3>1, <3>2, <3>3, <3>4, <2>2, <2>7, <2>10 DEF Partition
  <2>14. QED
    BY <2>12, <2>13
<1>7. QED
  BY <1>1, <1>5, <1>6

-----------------------------------------------------------------------------
(* Types.                                                                  *)

\* What the normalizer holds, as normalized events, is well formed.
LEMMA PendingMerged ==
  ASSUME pending \in [Groups -> SUBSET Events], Grouped(pending)
  PROVE  LET merged == {pending[g] : g \in Waiting(pending)}
         IN  /\ merged \in SUBSET SUBSET Events
             /\ \A s, t \in merged : s = t \/ s \intersect t = {}
             /\ UNION merged = PendingIds
<1> DEFINE merged == {pending[g] : g \in Waiting(pending)}
<1>1. \A s \in merged : \E g \in Groups : s = pending[g]
  BY DEF Waiting
<1>2. \A g, h \in Groups : g # h => pending[g] \intersect pending[h] = {}
  BY DEF Grouped
<1>3. UNION merged \subseteq PendingIds
  BY <1>1 DEF PendingIds
<1>4. PendingIds \subseteq UNION merged
  BY DEF PendingIds, Waiting
<1>5. merged \in SUBSET SUBSET Events
  BY <1>1
<1>6. \A s, t \in merged : s = t \/ s \intersect t = {}
  BY <1>1, <1>2
<1> HIDE DEF merged
<1>7. UNION merged = PendingIds
  BY <1>3, <1>4
<1>8. QED
  BY <1>5, <1>6, <1>7 DEF merged

\* The batch after write_events on b is again a set of normalized events.
LEMMA WrittenTypes ==
  ASSUME TypeOK, NEW b \in SUBSET Item, Written(b)
  PROVE  batch' \in SUBSET Item /\ stored' \in SUBSET Item
BY DEF Written, TypeOK

\* The worker's variables stay within their types, and the coalescing buffer
\* stays grouped.
TypeInv == TypeOK /\ Grouped(pending)

\* What Process does when the gate and the normalizer take the event.
LEMMA AdmitFacts ==
  ASSUME TypeInv, Conservation, NEW e \in Events, e \notin Held, Admit(e)
  PROVE  \E b \in SUBSET Item :
           /\ Written(b)
           /\ Apart(b)
           /\ Ids(batch) \subseteq Ids(b)
           /\ Ids(b) \subseteq Ids(batch) \union PendingIds \union {e}
           /\ Ids(b) \intersect PendingIds' = {}
           /\ PendingIds' \subseteq PendingIds \union {e}
           /\ pending' \in [Groups -> SUBSET Events]
           /\ Grouped(pending')
           /\ refused' = refused \union ((PendingIds \union {e}) \ (Ids(b) \union PendingIds'))
<1>1. PICK expired \in SUBSET Waiting(pending), full \in BOOLEAN :
        LET after == AfterPush(e, expired, full)
            b     == batch \union ProcessPending(policy, after.out)
        IN  /\ pending' = after.pend
            /\ WriteEvents(b)
            /\ refused' = refused \union
                 ((PendingIds \union {e}) \ (Ids(b) \union UNION {after.pend[g] : g \in Groups}))
  BY DEF Admit
<1>0. PICK after : after = AfterPush(e, expired, full)
  OBVIOUS
<1> DEFINE new == ProcessPending(policy, after.out)
           b   == batch \union new
<1>2. /\ after.pend \in [Groups -> SUBSET Events]
      /\ Grouped(after.pend)
      /\ after.out \in SUBSET SUBSET Events
      /\ \A s, t \in after.out : s = t \/ s \intersect t = {}
      /\ UNION after.out \subseteq PendingIds \union {e}
      /\ UNION {after.pend[g] : g \in Groups} \subseteq PendingIds \union {e}
      /\ (UNION after.out) \intersect UNION {after.pend[g] : g \in Groups} = {}
  <2>1. e \in Events /\ e \notin PendingIds
    BY DEF Held
  <2>2. pending \in [Groups -> SUBSET Events] /\ Grouped(pending)
    BY DEF TypeInv, TypeOK
  <2>3. QED
    <3>1. Partition(after, e)
      BY <1>0, <2>1, <2>2, PushPartitions
    <3>2. QED
      BY <3>1 DEF Partition
<1>3. new \in SUBSET Item /\ Ids(new) \subseteq UNION after.out /\ Apart(new)
  BY <1>2, ProcessPendingShrinks DEF TypeInv, TypeOK
<1>4. pending' = after.pend /\ PendingIds' = UNION {after.pend[g] : g \in Groups}
  BY <1>0, <1>1 DEF PendingIds
<1>5. /\ WriteEvents(b)
      /\ refused' = refused \union ((PendingIds \union {e}) \ (Ids(b) \union PendingIds'))
  BY <1>0, <1>1, <1>4
<1> HIDE DEF new
<1>6. b \in SUBSET Item
  BY <1>3 DEF TypeInv, TypeOK
<1>7. Ids(b) = Ids(batch) \union Ids(new)
  BY DEF Ids
<1>8. Ids(new) \intersect Ids(batch) = {}
  BY <1>2, <1>3 DEF Conservation, Held
<1>9. Apart(b)
  <2>1. Apart(batch)
    BY DEF Apart, Conservation
  <2>2. \A it \in batch, jt \in new : it.ids \intersect jt.ids = {}
    BY <1>8 DEF Ids
  <2>3. QED
    BY <2>1, <2>2, <1>3 DEF Apart
<1>10. Ids(batch) \intersect PendingIds' = {}
  BY <1>2, <1>4 DEF Conservation, Held
<1>11. Ids(new) \intersect PendingIds' = {}
  BY <1>2, <1>3, <1>4
<1>12. Written(b)
  BY <1>5, <1>6, WriteEventsWrites DEF TypeInv
<1> HIDE DEF b
<1>13. QED
  BY <1>2, <1>3, <1>4, <1>5, <1>6, <1>7, <1>9, <1>10, <1>11, <1>12

-----------------------------------------------------------------------------
(* Accounting.                                                             *)

\* The one argument behind Conservation: a worker step splits what is in
\* flight into the batch b it hands to the store, what stays in the buffer
\* and the queue, and what it refuses (R).
LEMMA Accounted ==
  ASSUME TypeInv, Conservation,
         NEW b \in SUBSET Item, Written(b), Apart(b),
         NEW R, refused' = refused \union R, sent' = sent, lost' = lost,
         \A i, j \in 1 .. Len(raw') : raw'[i] = raw'[j] => i = j,
         Ids(b) \union PendingIds' \union R \union InSeq(raw') = InSeq(raw) \union Held,
         Ids(b) \intersect (PendingIds' \union R \union InSeq(raw')) = {},
         PendingIds' \intersect (R \union InSeq(raw')) = {},
         R \intersect InSeq(raw') = {}
  PROVE  Conservation' /\ Ids(stored) \subseteq Ids(stored')
<1> DEFINE flight == InSeq(raw) \union Held
<1>1. /\ sent = flight \union Ids(stored) \union refused \union lost
      /\ flight \intersect (Ids(stored) \union refused \union lost) = {}
      /\ Ids(stored) \intersect (refused \union lost) = {}
      /\ refused \intersect lost = {}
  BY DEF Conservation, Held
<1>2. Ids(b) \union PendingIds' \union R \union InSeq(raw') = flight
  OBVIOUS
<1>3. Apart(b \union stored)
  <2>1. Apart(stored)
    BY DEF Conservation, Apart
  <2>2. Ids(b) \intersect Ids(stored) = {}
    BY <1>1, <1>2
  <2>3. \A it \in b, jt \in stored : it.ids \intersect jt.ids = {}
    BY <2>2 DEF Ids
  <2>4. QED
    BY <2>1, <2>3 DEF Apart
<1>4. Held' = PendingIds' \union Ids(batch')
  BY DEF Held, Ids
<1>5. batch' \union stored' = b \union stored
  BY DEF Written
<1>6. \A it, jt \in (batch \union stored)' : it = jt \/ it.ids \intersect jt.ids = {}
  BY <1>3, <1>5 DEF Apart
<1>7. \/ Ids(batch') = Ids(b) /\ Ids(stored') = Ids(stored)
      \/ Ids(batch') = {} /\ Ids(stored') = Ids(stored) \union Ids(b)
  BY DEF Written, Ids
<1> HIDE DEF flight
<1>8. /\ sent' = InSeq(raw') \union Held' \union Ids(stored') \union refused' \union lost'
      /\ InSeq(raw') \intersect (Held' \union Ids(stored') \union refused' \union lost') = {}
      /\ PendingIds' \intersect (Ids(batch') \union Ids(stored') \union refused' \union lost') = {}
      /\ Ids(batch') \intersect (Ids(stored') \union refused' \union lost') = {}
      /\ Ids(stored') \intersect (refused' \union lost') = {}
      /\ refused' \intersect lost' = {}
  BY <1>1, <1>2, <1>4, <1>7
<1>9. Ids(stored) \subseteq Ids(stored')
  BY <1>7
<1>10. QED
  BY <1>6, <1>8, <1>9 DEF Conservation, InSeq, Ids

\* Flushing the normalizer with the batch.
LEMMA FlushBatchFacts ==
  ASSUME TypeInv, Conservation, FlushBatch
  PROVE  \E b \in SUBSET Item :
           /\ Written(b)
           /\ health' = "Healthy" => batch' = {}
           /\ Apart(b)
           /\ Ids(batch) \subseteq Ids(b)
           /\ Ids(b) \subseteq Held
           /\ pending' = NoPending
           /\ refused' = refused \union (PendingIds \ Ids(b))
<1> DEFINE merged == {pending[g] : g \in Waiting(pending)}
           new    == ProcessPending(policy, merged)
           b      == batch \union new
<1>1. /\ merged \in SUBSET SUBSET Events
      /\ \A s, t \in merged : s = t \/ s \intersect t = {}
      /\ UNION merged = PendingIds
  BY PendingMerged DEF TypeInv, TypeOK
<1>2. /\ pending' = NoPending
      /\ FlushDestination(b)
      /\ refused' = refused \union (PendingIds \ Ids(b))
  BY DEF FlushBatch
<1> HIDE DEF merged
<1>3. new \in SUBSET Item /\ Ids(new) \subseteq PendingIds /\ Apart(new)
  BY <1>1, ProcessPendingShrinks DEF TypeInv, TypeOK
<1> HIDE DEF new
<1>4. b \in SUBSET Item
  BY <1>3 DEF TypeInv, TypeOK
<1>5. Ids(b) = Ids(batch) \union Ids(new)
  BY DEF Ids
<1>6. Apart(b)
  <2>1. Apart(batch)
    BY DEF Apart, Conservation
  <2>2. Ids(new) \intersect Ids(batch) = {}
    BY <1>3 DEF Conservation
  <2>3. \A it \in batch, jt \in new : it.ids \intersect jt.ids = {}
    BY <2>2 DEF Ids
  <2>4. QED
    BY <2>1, <2>3, <1>3 DEF Apart
<1>7. Written(b) /\ (health' = "Healthy" => batch' = {})
  BY <1>2, <1>4, FlushWrites DEF TypeInv
<1> HIDE DEF b
<1>8. QED
  BY <1>2, <1>3, <1>4, <1>5, <1>6, <1>7 DEF Held

\* Filtering again what the worker holds.
LEMMA RefilterFacts ==
  ASSUME TypeInv, Conservation, NEW p \in Policies
  PROVE  /\ Refilter(p) \in SUBSET Item
         /\ Apart(Refilter(p))
         /\ Ids(Refilter(p)) \subseteq Held
<1> DEFINE merged == {pending[g] : g \in Waiting(pending)}
           once   == ProcessPending(policy, merged)
           new    == Reprocess(p, once)
           old    == Reprocess(p, batch)
<1>1. /\ merged \in SUBSET SUBSET Events
      /\ \A s, t \in merged : s = t \/ s \intersect t = {}
      /\ UNION merged = PendingIds
  BY PendingMerged DEF TypeInv, TypeOK
<1>2. Refilter(p) = old \union new
  BY DEF Refilter
<1> HIDE DEF merged
<1>3. once \in SUBSET Item /\ Ids(once) \subseteq PendingIds /\ Apart(once)
  BY <1>1, ProcessPendingShrinks DEF TypeInv, TypeOK
<1> HIDE DEF once
<1>4. new \in SUBSET Item /\ Ids(new) \subseteq PendingIds /\ Apart(new)
  BY <1>3, ReprocessShrinks
<1>5. old \in SUBSET Item /\ Ids(old) \subseteq Ids(batch) /\ Apart(old)
  <2>1. Apart(batch) /\ batch \in SUBSET Item
    BY DEF Apart, Conservation, TypeInv, TypeOK
  <2>2. QED
    BY <2>1, ReprocessShrinks
<1> HIDE DEF new, old
<1>6. Ids(old) \intersect Ids(new) = {}
  BY <1>4, <1>5 DEF Conservation
<1>7. \A it \in old, jt \in new : it.ids \intersect jt.ids = {}
  BY <1>6 DEF Ids
<1>8. Apart(old \union new)
  BY <1>4, <1>5, <1>7 DEF Apart
<1>9. Ids(old \union new) = Ids(old) \union Ids(new)
  BY DEF Ids
<1>10. QED
  BY <1>2, <1>4, <1>5, <1>8, <1>9 DEF Held

-----------------------------------------------------------------------------
(* The inductive invariant and the actions, one lemma each.                *)

\* PromiseKept alone does not survive an acknowledgement: that needs every
\* event of the request's goal accounted for and not lost since.
IInv ==
  /\ TypeInv
  /\ Conservation
  /\ PromiseKept
  /\ goal \subseteq sent \ lost

\* A worker step that promises nothing new keeps the invariant.
LEMMA WorkerStep ==
  ASSUME IInv, TypeInv', Conservation', Ids(stored) \subseteq Ids(stored'),
         refused \subseteq refused',
         UNCHANGED <<sent, lost, goal, promised>>
  PROVE  IInv'
BY DEF IInv, PromiseKept, Ids

\* A step that touches neither events nor history.
LEMMA QuietStep ==
  ASSUME IInv, TypeInv', UNCHANGED <<raw, pending, batch, stored, historyVars>>
  PROVE  IInv'
<1>1. Conservation'
  BY DEF IInv, Conservation, Held, PendingIds, Ids, InSeq, historyVars
<1>2. QED
  BY <1>1 DEF IInv, PromiseKept, Ids, historyVars

LEMMA HeadOfControl ==
  ASSUME TypeInv, NEW kind, TakeControl(kind)
  PROVE  /\ Head(control) \in Controls
         /\ Head(control).kind = kind
         /\ control' \in Seq(Controls)
BY DEF TakeControl, TypeInv, TypeOK

LEMMA SendStep ==
  ASSUME IInv, NEW e \in Events, Send(e)
  PROVE  IInv'
<1>1. /\ raw \in Seq(Events) /\ raw' = Append(raw, e) /\ e \notin sent
      /\ sent' = sent \union {e}
      /\ UNCHANGED <<pending, batch, stored, refused, lost, goal, promised>>
  BY DEF IInv, TypeInv, TypeOK, Send, workerVars, storeVars
<1>2. TypeInv'
  BY <1>1 DEF Send, IInv, TypeInv, TypeOK, Grouped, workerVars, storeVars, clientVars
<1>3. /\ Len(raw') = Len(raw) + 1 /\ raw'[Len(raw) + 1] = e
      /\ \A i \in 1 .. Len(raw) : raw'[i] = raw[i]
      /\ Len(raw) \in Nat
  BY <1>1
<1>4. \A i \in 1 .. Len(raw') : i \in 1 .. Len(raw) \/ i = Len(raw) + 1
  BY <1>3
<1>5. InSeq(raw') = InSeq(raw) \union {e}
  <2>1. InSeq(raw') \subseteq InSeq(raw) \union {e}
    BY <1>3, <1>4 DEF InSeq
  <2>2. InSeq(raw) \subseteq InSeq(raw')
    BY <1>3 DEF InSeq
  <2>3. e \in InSeq(raw')
    BY <1>3 DEF InSeq
  <2>4. QED
    BY <2>1, <2>2, <2>3
<1>6. e \notin InSeq(raw) \union Held \union Ids(stored) \union refused \union lost
  BY <1>1 DEF IInv, Conservation
<1>7. \A i, j \in 1 .. Len(raw') : raw'[i] = raw'[j] => i = j
  <2>1. \A i \in 1 .. Len(raw) : raw[i] # e
    BY <1>6 DEF InSeq
  <2>2. \A i, j \in 1 .. Len(raw) : raw[i] = raw[j] => i = j
    BY DEF IInv, Conservation
  <2>3. QED
    BY <1>3, <1>4, <2>1, <2>2
<1>8. /\ Held' = Held /\ PendingIds' = PendingIds
      /\ Ids(batch') = Ids(batch) /\ Ids(stored') = Ids(stored)
  BY <1>1 DEF Held, PendingIds, Ids
<1>9. Conservation'
  <2>1. /\ sent = InSeq(raw) \union Held \union Ids(stored) \union refused \union lost
        /\ InSeq(raw) \intersect (Held \union Ids(stored) \union refused \union lost) = {}
        /\ PendingIds \intersect (Ids(batch) \union Ids(stored) \union refused \union lost) = {}
        /\ Ids(batch) \intersect (Ids(stored) \union refused \union lost) = {}
        /\ Ids(stored) \intersect (refused \union lost) = {}
        /\ refused \intersect lost = {}
        /\ \A it, jt \in batch \union stored : it = jt \/ it.ids \intersect jt.ids = {}
    BY DEF IInv, Conservation
  <2>2. (InSeq(raw) = InSeq(raw))' /\ (Ids(stored))' = Ids(stored') /\ (Ids(batch))' = Ids(batch')
    BY DEF Ids
  <2>3. InSeq(raw)' = InSeq(raw')
    BY DEF InSeq
  <2>4. QED
    BY <1>1, <1>5, <1>6, <1>7, <1>8, <2>1, <2>2, <2>3 DEF Conservation
<1>10. QED
  BY <1>1, <1>2, <1>6, <1>8, <1>9 DEF IInv, PromiseKept

LEMMA ProcessStep ==
  ASSUME IInv, Process
  PROVE  IInv'
<1> DEFINE e == Head(raw)
<1>1. /\ raw \in Seq(Events) /\ raw # <<>> /\ raw' = Tail(raw)
      /\ \A i, j \in 1 .. Len(raw) : raw[i] = raw[j] => i = j
      /\ UNCHANGED <<control, waiting, policy, latest, client, ruling, beats, crashes,
                     sent, lost, goal, promised>>
  BY DEF IInv, TypeInv, TypeOK, Process, Conservation, clientVars
<1>2. /\ raw' \in Seq(Events) /\ e \in InSeq(raw) /\ e \in Events
      /\ InSeq(raw') = InSeq(raw) \ {e}
      /\ \A i, j \in 1 .. Len(raw') : raw'[i] = raw'[j] => i = j
  BY <1>1, TailTakesHead
<1>3. /\ InSeq(raw) \intersect Held = {}
      /\ PendingIds \intersect Ids(batch) = {}
      /\ Held = PendingIds \union Ids(batch)
      /\ Apart(batch) /\ batch \in SUBSET Item
  BY DEF IInv, Conservation, Held, Apart, TypeInv, TypeOK
<1>4. CASE Refuse(e)
  <2>1. /\ Written(batch) /\ PendingIds' = PendingIds /\ refused' = refused \union {e}
        /\ pending' = pending
    BY <1>4 DEF Refuse, Written, IInv, TypeInv, TypeOK, PendingIds
  <2> DEFINE R == {e}
  <2>2. /\ Ids(batch) \union PendingIds' \union R \union InSeq(raw') = InSeq(raw) \union Held
        /\ Ids(batch) \intersect (PendingIds' \union R \union InSeq(raw')) = {}
        /\ PendingIds' \intersect (R \union InSeq(raw')) = {}
        /\ R \intersect InSeq(raw') = {}
    BY <1>2, <1>3, <2>1
  <2>3. refused' = refused \union R
    BY <2>1
  <2> HIDE DEF R
  <2>4. Conservation' /\ Ids(stored) \subseteq Ids(stored')
    BY <1>1, <1>2, <1>3, <2>1, <2>2, <2>3, Accounted DEF IInv
  <2>5. TypeInv'
    BY <1>1, <1>2, <1>4 DEF Refuse, IInv, TypeInv, TypeOK, Grouped
  <2>6. QED
    BY <1>1, <2>1, <2>4, <2>5, WorkerStep
<1>5. CASE Admit(e)
  <2>1. e \notin Held
    BY <1>2, <1>3
  <2>2. PICK b \in SUBSET Item :
           /\ Written(b)
           /\ Apart(b)
           /\ Ids(batch) \subseteq Ids(b)
           /\ Ids(b) \subseteq Ids(batch) \union PendingIds \union {e}
           /\ Ids(b) \intersect PendingIds' = {}
           /\ PendingIds' \subseteq PendingIds \union {e}
           /\ pending' \in [Groups -> SUBSET Events]
           /\ Grouped(pending')
           /\ refused' = refused \union ((PendingIds \union {e}) \ (Ids(b) \union PendingIds'))
    BY <1>2, <1>5, <2>1, AdmitFacts DEF IInv
  <2> DEFINE R == (PendingIds \union {e}) \ (Ids(b) \union PendingIds')
  <2>3. /\ Ids(b) \union PendingIds' \union R \union InSeq(raw') = InSeq(raw) \union Held
        /\ Ids(b) \intersect (PendingIds' \union R \union InSeq(raw')) = {}
        /\ PendingIds' \intersect (R \union InSeq(raw')) = {}
        /\ R \intersect InSeq(raw') = {}
    BY <1>2, <1>3, <2>2
  <2>4. Conservation' /\ Ids(stored) \subseteq Ids(stored')
    BY <1>1, <1>2, <2>2, <2>3, Accounted DEF IInv
  <2>5. TypeInv'
    <3>1. batch' \in SUBSET Item /\ stored' \in SUBSET Item
      BY <2>2, WrittenTypes DEF IInv, TypeInv
    <3>2. refused' \subseteq Events
      BY <1>2, <2>2 DEF IInv, TypeInv, TypeOK, PendingIds
    <3>3. heldUnder' \in [Events -> SUBSET Policies]
      BY <1>5 DEF Admit, IInv, TypeInv, TypeOK
    <3>4. QED
      BY <1>1, <1>2, <2>2, <3>1, <3>2, <3>3 DEF Written, IInv, TypeInv, TypeOK, Grouped
  <2>6. QED
    BY <1>1, <2>2, <2>4, <2>5, WorkerStep
<1>6. QED
  BY <1>4, <1>5 DEF Process

\* Flushing the batch, whoever asked for it, keeps everything accounted for;
\* a flush that left the store healthy left nothing with the worker.
LEMMA FlushBatchStep ==
  ASSUME IInv, FlushBatch, UNCHANGED <<raw, sent, lost, goal>>
  PROVE  /\ Conservation'
         /\ Ids(stored) \subseteq Ids(stored')
         /\ refused \subseteq refused'
         /\ pending' \in [Groups -> SUBSET Events] /\ Grouped(pending')
         /\ batch' \in SUBSET Item /\ stored' \in SUBSET Item
         /\ refused' \in SUBSET Events
         /\ stateDirty' \in BOOLEAN
         /\ health' \in {"Healthy", "Backoff", "Recovering"}
         /\ retryIndex' \in 0 .. LastDelay
         /\ storedState' \in Nat
         /\ health' = "Healthy" => Held' = {}
<1>1. PICK b \in SUBSET Item :
           /\ Written(b)
           /\ health' = "Healthy" => batch' = {}
           /\ Apart(b)
           /\ Ids(batch) \subseteq Ids(b)
           /\ Ids(b) \subseteq Held
           /\ pending' = NoPending
           /\ refused' = refused \union (PendingIds \ Ids(b))
  BY FlushBatchFacts DEF IInv
<1> DEFINE R == PendingIds \ Ids(b)
<1>2. PendingIds' = {} /\ pending' \in [Groups -> SUBSET Events] /\ Grouped(pending')
  BY <1>1 DEF PendingIds, NoPending, Grouped
<1>3. /\ Ids(b) \union PendingIds' \union R \union InSeq(raw') = InSeq(raw) \union Held
      /\ Ids(b) \intersect (PendingIds' \union R \union InSeq(raw')) = {}
      /\ PendingIds' \intersect (R \union InSeq(raw')) = {}
      /\ R \intersect InSeq(raw') = {}
  BY <1>1, <1>2 DEF IInv, Conservation, Held
<1>4. \A i, j \in 1 .. Len(raw') : raw'[i] = raw'[j] => i = j
  BY DEF IInv, Conservation
<1>5. refused' = refused \union R
  BY <1>1
<1> HIDE DEF R
<1>6. Conservation' /\ Ids(stored) \subseteq Ids(stored')
  BY <1>1, <1>3, <1>4, <1>5, Accounted DEF IInv
<1>7. batch' \in SUBSET Item /\ stored' \in SUBSET Item
  BY <1>1, WrittenTypes DEF IInv, TypeInv
<1>8. refused' \in SUBSET Events
  BY <1>5 DEF R, IInv, TypeInv, TypeOK, PendingIds
<1>9. health' = "Healthy" => Held' = {}
  BY <1>1, <1>2 DEF Held, Ids
<1>10. QED
  BY <1>1, <1>2, <1>5, <1>6, <1>7, <1>8, <1>9 DEF Written

LEMMA FlushAllStep ==
  ASSUME IInv, FlushAll
  PROVE  IInv'
<1>1. /\ FlushBatch
      /\ UNCHANGED <<raw, control, waiting, policy, latest, client, ruling, beats,
                     crashes, sent, lost, goal, promised, heldUnder>>
  BY DEF FlushAll, clientVars
<1>2. /\ Conservation'
      /\ Ids(stored) \subseteq Ids(stored')
      /\ refused \subseteq refused'
      /\ TypeInv'
  BY <1>1, FlushBatchStep DEF IInv, TypeInv, TypeOK
<1>3. QED
  BY <1>1, <1>2, WorkerStep

\* Where PromiseKept is earned: the queue is empty and the worker holds
\* nothing, so what the goal names is in the store or refused.
LEMMA FlushAndAcknowledgeStep ==
  ASSUME IInv, FlushAndAcknowledge
  PROVE  IInv'
<1>1. /\ FlushBatch /\ raw = <<>>
      /\ UNCHANGED <<raw, control, policy, latest, ruling, beats, crashes,
                     sent, lost, goal, heldUnder>>
      /\ \/ health' = "Healthy" /\ Acknowledge
         \/ UNCHANGED <<waiting, client, promised>>
  BY DEF FlushAndAcknowledge
<1>2. /\ Conservation'
      /\ Ids(stored) \subseteq Ids(stored')
      /\ refused \subseteq refused'
      /\ health' = "Healthy" => Held' = {}
  BY <1>1, FlushBatchStep
<1>3. CASE UNCHANGED <<waiting, client, promised>>
  <2>1. TypeInv'
    BY <1>1, <1>3, FlushBatchStep DEF IInv, TypeInv, TypeOK
  <2>2. QED
    BY <1>1, <1>2, <1>3, <2>1, WorkerStep
<1>4. CASE health' = "Healthy" /\ Acknowledge
  <2>1. /\ waiting' = "none" /\ client' \in {"stopped", "idle"}
        /\ promised' = promised \union goal
    BY <1>4 DEF Acknowledge
  <2>2. TypeInv'
    BY <1>1, <2>1, FlushBatchStep DEF IInv, TypeInv, TypeOK
  <2>3. Held' = {}
    BY <1>2, <1>4
  <2>4. InSeq(raw') = {}
    BY <1>1 DEF InSeq
  <2>5. sent' \ lost' \subseteq Ids(stored') \union refused'
    BY <1>2, <2>3, <2>4 DEF Conservation, Ids, InSeq
  <2>6. goal \subseteq Ids(stored') \union refused'
    BY <1>1, <2>5 DEF IInv
  <2>7. PromiseKept'
    BY <1>2, <2>1, <2>6 DEF IInv, PromiseKept, Ids
  <2>8. QED
    BY <1>1, <1>2, <2>2, <2>7 DEF IInv
<1>5. QED
  BY <1>1, <1>3, <1>4

LEMMA HandleReplaceStep ==
  ASSUME IInv, HandleReplace
  PROVE  IInv'
<1> DEFINE p == Head(control).filter
           b == Refilter(p)
           R == Held \ Ids(b)
<1>1. /\ TakeControl("replace")
      /\ policy' = p
      /\ pending' = NoPending
      /\ FlushDestination(b)
      /\ refused' = refused \union R
      /\ heldUnder' = [e \in Events |->
              IF e \in Held THEN heldUnder[e] \union {p} ELSE heldUnder[e]]
      /\ client' = "idle"
      /\ UNCHANGED <<raw, waiting, latest, ruling, beats, crashes, sent, lost, goal,
                     promised>>
  BY DEF HandleReplace
<1>2. p \in Policies /\ control' \in Seq(Controls)
  <2>1. /\ Head(control) \in Controls /\ Head(control).kind = "replace"
        /\ control' \in Seq(Controls)
    BY <1>1, HeadOfControl DEF IInv
  <2>2. QED
    BY <2>1 DEF Controls
<1> HIDE DEF p
<1>3. b \in SUBSET Item /\ Apart(b) /\ Ids(b) \subseteq Held
  BY <1>2, RefilterFacts DEF IInv
<1>4. Written(b)
  BY <1>1, <1>3, FlushWrites DEF IInv, TypeInv
<1> HIDE DEF b
<1>5. PendingIds' = {} /\ pending' \in [Groups -> SUBSET Events] /\ Grouped(pending')
  BY <1>1 DEF PendingIds, NoPending, Grouped
<1>6. /\ Ids(b) \union PendingIds' \union R \union InSeq(raw') = InSeq(raw) \union Held
      /\ Ids(b) \intersect (PendingIds' \union R \union InSeq(raw')) = {}
      /\ PendingIds' \intersect (R \union InSeq(raw')) = {}
      /\ R \intersect InSeq(raw') = {}
  BY <1>1, <1>3, <1>5 DEF IInv, Conservation
<1>7. \A i, j \in 1 .. Len(raw') : raw'[i] = raw'[j] => i = j
  BY <1>1 DEF IInv, Conservation
<1>8. R \in SUBSET Events
  BY DEF Held, PendingIds, Ids, IInv, TypeInv, TypeOK, Item
<1> HIDE DEF R
<1>9. Conservation' /\ Ids(stored) \subseteq Ids(stored')
  BY <1>1, <1>3, <1>4, <1>6, <1>7, Accounted DEF IInv
<1>10. TypeInv'
  <2>1. batch' \in SUBSET Item /\ stored' \in SUBSET Item
    BY <1>3, <1>4, WrittenTypes DEF IInv, TypeInv
  <2>2. heldUnder' \in [Events -> SUBSET Policies]
    BY <1>1, <1>2 DEF IInv, TypeInv, TypeOK
  <2>3. QED
    BY <1>1, <1>2, <1>4, <1>5, <1>8, <2>1, <2>2 DEF Written, IInv, TypeInv, TypeOK
<1>11. QED
  BY <1>1, <1>9, <1>10, WorkerStep

\* A write of the batch as it stands.
LEMMA PersistStep ==
  ASSUME IInv, Written(batch), UNCHANGED <<raw, pending, historyVars>>, TypeInv'
  PROVE  IInv'
<1> DEFINE R == {}
<1>1. /\ batch \in SUBSET Item /\ Apart(batch) /\ PendingIds' = PendingIds
      /\ refused' = refused \union R /\ sent' = sent /\ lost' = lost
      /\ UNCHANGED <<goal, promised>>
  BY DEF IInv, TypeInv, TypeOK, Conservation, Apart, PendingIds, historyVars
<1>2. /\ Ids(batch) \union PendingIds' \union R \union InSeq(raw') = InSeq(raw) \union Held
      /\ Ids(batch) \intersect (PendingIds' \union R \union InSeq(raw')) = {}
      /\ PendingIds' \intersect (R \union InSeq(raw')) = {}
      /\ R \intersect InSeq(raw') = {}
  BY <1>1 DEF IInv, Conservation, Held
<1>3. \A i, j \in 1 .. Len(raw') : raw'[i] = raw'[j] => i = j
  BY DEF IInv, Conservation
<1> HIDE DEF R
<1>4. Conservation' /\ Ids(stored) \subseteq Ids(stored')
  BY <1>1, <1>2, <1>3, Accounted DEF IInv
<1>5. QED
  BY <1>1, <1>4, WorkerStep

LEMMA HandleHeartbeatStep ==
  ASSUME IInv, HandleHeartbeat
  PROVE  IInv'
<1>1. /\ TakeControl("heartbeat") /\ latest' = Head(control).state
      /\ UNCHANGED <<raw, waiting, policy, pending, clientVars, historyVars>>
  BY DEF HandleHeartbeat
<1>2. latest' \in Nat /\ control' \in Seq(Controls)
  <2>1. /\ Head(control) \in Controls /\ Head(control).kind = "heartbeat"
        /\ control' \in Seq(Controls)
    BY <1>1, HeadOfControl DEF IInv
  <2>2. QED
    BY <1>1, <2>1 DEF Controls
<1>3. Written(batch)
  <2>1. CASE Persist(batch, latest', TRUE)
    BY <1>2, <2>1, PersistWrites DEF IInv, TypeInv, TypeOK
  <2>2. CASE stateDirty' = TRUE /\ UNCHANGED <<batch, health, retryIndex, stored, storedState>>
    BY <2>2 DEF Written, IInv, TypeInv, TypeOK
  <2>3. QED
    BY <2>1, <2>2 DEF HandleHeartbeat
<1>4. TypeInv'
  <2>1. batch' \in SUBSET Item /\ stored' \in SUBSET Item
    BY <1>3, WrittenTypes DEF IInv, TypeInv, TypeOK
  <2>2. QED
    BY <1>1, <1>2, <1>3, <2>1
    DEF Written, IInv, TypeInv, TypeOK, Grouped, clientVars, historyVars
<1>5. QED
  BY <1>1, <1>3, <1>4, PersistStep

LEMMA RetryStep ==
  ASSUME IInv, Retry
  PROVE  IInv'
<1>1. UNCHANGED <<raw, control, waiting, policy, pending, latest, clientVars, historyVars>>
  BY DEF Retry
<1>2. Written(batch)
  BY PersistWrites DEF Retry, IInv, TypeInv, TypeOK
<1>3. TypeInv'
  <2>1. batch' \in SUBSET Item /\ stored' \in SUBSET Item
    BY <1>2, WrittenTypes DEF IInv, TypeInv, TypeOK
  <2>2. QED
    BY <1>1, <1>2, <2>1
    DEF Written, IInv, TypeInv, TypeOK, Grouped, clientVars, historyVars
<1>4. QED
  BY <1>1, <1>2, <1>3, PersistStep

\* The actions that only exchange messages or change the store's health.
LEMMA ClientStep ==
  ASSUME IInv, Heartbeat \/ Flush \/ (\E p \in Policies : ReplaceFilter(p)) \/ Shutdown
  PROVE  IInv'
<1>1. CASE Heartbeat
  <2>1. [kind |-> "heartbeat", state |-> beats + 1] \in Controls /\ beats + 1 \in Nat
    BY DEF Controls, IInv, TypeInv, TypeOK
  <2>2. TypeInv'
    BY <1>1, <2>1 DEF Heartbeat, IInv, TypeInv, TypeOK, Grouped, workerVars, storeVars, historyVars
  <2>3. QED
    BY <1>1, <2>2, QuietStep DEF Heartbeat, workerVars, storeVars
<1>2. ASSUME NEW m \in Controls, Request(m), m.kind \in {"flush", "replace", "shutdown"},
             ruling' \in Policies
      PROVE  IInv'
  <2>1. /\ UNCHANGED <<raw, workerVars, storeVars, beats, crashes,
                       sent, refused, lost, promised, heldUnder>>
        /\ goal' = sent \ lost /\ client' = m.kind /\ control' = Append(control, m)
    BY <1>2 DEF Request
  <2>2. TypeInv'
    BY <1>2, <2>1 DEF IInv, TypeInv, TypeOK, Grouped, workerVars, storeVars
  <2>3. UNCHANGED <<raw, pending, batch, stored, sent, refused, lost, promised>>
    BY <2>1 DEF workerVars, storeVars
  <2>4. /\ InSeq(raw)' = InSeq(raw) /\ Held' = Held /\ PendingIds' = PendingIds
        /\ Ids(batch)' = Ids(batch) /\ Ids(stored)' = Ids(stored)
    BY <2>3 DEF Held, PendingIds, Ids, InSeq
  <2>5. Conservation'
    BY <2>3, <2>4 DEF IInv, Conservation
  <2>6. PromiseKept'
    BY <2>3, <2>4 DEF IInv, PromiseKept
  <2>7. goal' \subseteq sent' \ lost'
    BY <2>1
  <2>8. QED
    BY <2>2, <2>5, <2>6, <2>7 DEF IInv
<1>3. [kind |-> "flush"] \in Controls /\ [kind |-> "shutdown"] \in Controls
  BY DEF Controls
<1>4. \A p \in Policies : [kind |-> "replace", filter |-> p] \in Controls
  BY DEF Controls
<1>5. CASE Flush
  BY <1>2, <1>3, <1>5 DEF Flush, IInv, TypeInv, TypeOK
<1>6. CASE Shutdown
  BY <1>2, <1>3, <1>6 DEF Shutdown, IInv, TypeInv, TypeOK
<1>7. CASE \E p \in Policies : ReplaceFilter(p)
  <2>1. PICK p \in Policies : ReplaceFilter(p)
    BY <1>7
  <2>2. QED
    BY <1>2, <1>4, <2>1 DEF ReplaceFilter
<1>8. QED
  BY <1>1, <1>5, <1>6, <1>7

LEMMA HandleWaiterStep ==
  ASSUME IInv, HandleWaiter
  PROVE  IInv'
<1>1. PICK kind \in {"flush", "shutdown"} : TakeControl(kind) /\ waiting' = kind
  BY DEF HandleWaiter
<1>2. control' \in Seq(Controls)
  BY <1>1, HeadOfControl DEF IInv
<1>3. TypeInv'
  BY <1>1, <1>2 DEF HandleWaiter, IInv, TypeInv, TypeOK, Grouped, storeVars, clientVars, historyVars
<1>4. QED
  BY <1>3, QuietStep DEF HandleWaiter, storeVars

LEMMA RetryDueStep ==
  ASSUME IInv, RetryDue
  PROVE  IInv'
<1>1. TypeInv'
  BY DEF RetryDue, IInv, TypeInv, TypeOK, Grouped, workerVars, clientVars, historyVars
<1>2. QED
  BY <1>1, QuietStep DEF RetryDue, workerVars

LEMMA CrashStep ==
  ASSUME IInv, Crash
  PROVE  IInv'
<1>1. PICK p \in Policies : Restart(p)
  BY DEF Crash
<1>2. /\ raw' = <<>> /\ pending' = NoPending /\ batch' = {} /\ goal' = {}
      /\ lost' = lost \union InSeq(raw) \union Held
      /\ UNCHANGED <<stored, storedState, beats, sent, refused, promised, heldUnder>>
  BY <1>1 DEF Restart
<1>3. InSeq(raw) \in SUBSET Events /\ Held \in SUBSET Events
  BY DEF InSeq, Held, PendingIds, Ids, IInv, TypeInv, TypeOK, Item
<1>4. pending' \in [Groups -> SUBSET Events] /\ Grouped(pending') /\ PendingIds' = {}
  BY <1>2 DEF NoPending, Grouped, PendingIds
<1>5. TypeInv'
  <2>1. raw' \in Seq(Events) /\ control' \in Seq(Controls)
    BY <1>1 DEF Restart
  <2>2. 0 \in 0 .. LastDelay
    BY BoundsAssumption DEF BoundsAssumption
  <2>3. lost' \in SUBSET Events /\ goal' \in SUBSET Events
    BY <1>2, <1>3 DEF IInv, TypeInv, TypeOK
  <2>4. /\ stored' \in SUBSET Item /\ storedState' \in Nat /\ beats' \in Nat
        /\ sent' \in SUBSET Events /\ refused' \in SUBSET Events
        /\ promised' \in SUBSET Events /\ heldUnder' \in [Events -> SUBSET Policies]
        /\ crashes' \in Nat
    BY <1>1, <1>2 DEF Restart, IInv, TypeInv, TypeOK
  <2>5. QED
    BY <1>1, <1>4, <2>1, <2>2, <2>3, <2>4 DEF Restart, TypeInv, TypeOK
<1>6. /\ InSeq(raw)' = {} /\ Held' = {} /\ Ids(batch)' = {} /\ Ids(stored)' = Ids(stored)
  BY <1>2, <1>4 DEF InSeq, Held, Ids
<1>7. Conservation'
  <2>1. \A i, j \in 1 .. Len(raw') : raw'[i] = raw'[j] => i = j
    BY <1>2
  <2>2. \A it, jt \in (batch \union stored)' : it = jt \/ it.ids \intersect jt.ids = {}
    BY <1>2 DEF IInv, Conservation
  <2>3. QED
    BY <1>2, <1>4, <1>6, <2>1, <2>2 DEF IInv, Conservation, Held
<1>8. PromiseKept' /\ goal' \subseteq sent' \ lost'
  BY <1>2, <1>6 DEF IInv, PromiseKept
<1>9. QED
  BY <1>5, <1>7, <1>8 DEF IInv

LEMMA Initially == Init => IInv
<1> SUFFICES ASSUME Init PROVE IInv
  OBVIOUS
<1>1. TypeInv
  <2>1. raw \in Seq(Events) /\ control \in Seq(Controls)
    BY DEF Init
  <2>2. 0 \in 0 .. LastDelay
    BY BoundsAssumption DEF BoundsAssumption
  <2>3. pending \in [Groups -> SUBSET Events] /\ Grouped(pending)
    BY DEF Init, Grouped, NoPending
  <2>4. heldUnder \in [Events -> SUBSET Policies]
    BY DEF Init
  <2>5. QED
    BY <2>1, <2>2, <2>3, <2>4 DEF Init, TypeInv, TypeOK
<1>2. PendingIds = {} /\ Ids(batch) = {} /\ Ids(stored) = {} /\ InSeq(raw) = {}
  BY DEF Init, PendingIds, NoPending, Ids, InSeq
<1>3. Conservation
  BY <1>2 DEF Init, Conservation, Held
<1>4. QED
  BY <1>1, <1>2, <1>3 DEF Init, IInv, PromiseKept

LEMMA Inductive == IInv /\ [Next]_vars => IInv'
<1> SUFFICES ASSUME IInv, [Next]_vars PROVE IInv'
  OBVIOUS
<1>1. CASE \E e \in Events : Send(e)
  BY <1>1, SendStep
<1>2. CASE Heartbeat \/ Flush \/ (\E p \in Policies : ReplaceFilter(p)) \/ Shutdown
  BY <1>2, ClientStep
<1>3. CASE Process
  BY <1>3, ProcessStep
<1>4. CASE FlushAll
  BY <1>4, FlushAllStep
<1>5. CASE FlushAndAcknowledge
  BY <1>5, FlushAndAcknowledgeStep
<1>6. CASE HandleWaiter
  BY <1>6, HandleWaiterStep
<1>7. CASE HandleReplace
  BY <1>7, HandleReplaceStep
<1>8. CASE HandleHeartbeat
  BY <1>8, HandleHeartbeatStep
<1>9. CASE RetryDue
  BY <1>9, RetryDueStep
<1>10. CASE Retry
  BY <1>10, RetryStep
<1>11. CASE Crash
  BY <1>11, CrashStep
<1>12. CASE UNCHANGED vars
  <2>1. TypeInv'
    BY <1>12 DEF vars, IInv, TypeInv, TypeOK, Grouped, workerVars, storeVars, clientVars, historyVars
  <2>2. QED
    BY <1>12, <2>1, QuietStep DEF vars, workerVars, storeVars
<1>13. QED
  BY <1>1, <1>2, <1>3, <1>4, <1>5, <1>6, <1>7, <1>8, <1>9, <1>10, <1>11, <1>12 DEF Next

\* The inductive invariant holds in every reachable state, whatever the
\* events, keys, filters and bounds of worker.rs, store.rs and normalize.rs.
THEOREM Invariant == Spec => []IInv
<1>1. QED
  BY Initially, Inductive, PTL DEF Spec

\* The variables of the worker, the store destination and the clients keep
\* their types; in particular the retry index never leaves RETRY_DELAYS.
THEOREM TypeCorrect == Spec => []TypeOK
<1>1. IInv => TypeOK
  BY DEF IInv, TypeInv
<1>2. QED
  BY Invariant, <1>1, PTL

\* No accepted event is lost or duplicated by taking, merging, filtering,
\* retaining, retrying or writing it, at any size of queue, buffer and batch.
THEOREM ConservationHolds == Spec => []Conservation
<1>1. IInv => Conservation
  BY DEF IInv
<1>2. QED
  BY Invariant, <1>1, PTL

\* An acknowledged flush or shutdown means that every event sent before it
\* was asked for is in the store or refused.
THEOREM PromiseKeptHolds == Spec => []PromiseKept
<1>1. IInv => PromiseKept
  BY DEF IInv
<1>2. QED
  BY Invariant, <1>1, PTL

-----------------------------------------------------------------------------
(* The pipeline implements the durable log.                                *)

\* What a step of the worker, and a request to it, do to the log's variables.
Settling ==
  /\ UNCHANGED <<sent, lost>>
  /\ stored \subseteq stored'
  /\ refused \subseteq refused'
  /\ promised \subseteq promised'

LEMMA PersistGrows ==
  ASSUME NEW b, NEW s, NEW d, Persist(b, s, d)
  PROVE  stored \subseteq stored'
BY DEF Persist, PersistNothing, PersistOk, EnterBackoff

LEMMA FlushGrows ==
  ASSUME NEW b, FlushDestination(b)
  PROVE  stored \subseteq stored'
BY PersistGrows DEF FlushDestination, Keep

LEMMA FlushBatchSettles ==
  ASSUME FlushBatch
  PROVE  stored \subseteq stored' /\ refused \subseteq refused'
BY FlushGrows DEF FlushBatch

LEMMA ProcessSettles == ASSUME Process PROVE Settling
<1>1. UNCHANGED <<sent, lost, promised>>
  BY DEF Process
<1>2. CASE Refuse(Head(raw))
  BY <1>1, <1>2 DEF Refuse, Settling
<1>3. CASE Admit(Head(raw))
  <2>1. PICK b : WriteEvents(b)
    BY <1>3 DEF Admit
  <2>2. stored \subseteq stored'
    BY <2>1, FlushGrows DEF WriteEvents, Keep
  <2>3. refused \subseteq refused'
    BY <1>3 DEF Admit
  <2>4. QED
    BY <1>1, <2>2, <2>3 DEF Settling
<1>4. QED
  BY <1>2, <1>3 DEF Process

LEMMA OthersSettle ==
  ASSUME \/ Heartbeat \/ Flush \/ (\E p \in Policies : ReplaceFilter(p)) \/ Shutdown
         \/ FlushAll \/ FlushAndAcknowledge \/ HandleWaiter \/ HandleReplace
         \/ HandleHeartbeat \/ RetryDue \/ Retry
  PROVE  Settling
<1>1. CASE Heartbeat \/ HandleWaiter \/ RetryDue
  BY <1>1 DEF Heartbeat, HandleWaiter, RetryDue, Settling, storeVars, historyVars
<1>2. CASE Flush \/ (\E p \in Policies : ReplaceFilter(p)) \/ Shutdown
  BY <1>2 DEF Flush, ReplaceFilter, Shutdown, Request, Settling, storeVars
<1>3. CASE FlushAll
  BY <1>3, FlushBatchSettles DEF FlushAll, Settling
<1>4. CASE FlushAndAcknowledge
  <2>1. promised \subseteq promised'
    BY <1>4 DEF FlushAndAcknowledge, Acknowledge
  <2>2. QED
    BY <1>4, <2>1, FlushBatchSettles DEF FlushAndAcknowledge, Settling
<1>5. CASE HandleReplace
  <2>1. FlushDestination(Refilter(Head(control).filter))
    BY <1>5 DEF HandleReplace
  <2>2. stored \subseteq stored'
    BY <2>1, FlushGrows
  <2>3. QED
    BY <1>5, <2>2 DEF HandleReplace, Settling
<1>6. CASE HandleHeartbeat
  <2>1. stored \subseteq stored'
    BY <1>6, PersistGrows DEF HandleHeartbeat
  <2>2. QED
    BY <1>6, <2>1 DEF HandleHeartbeat, Settling, historyVars
<1>7. CASE Retry
  BY <1>7, PersistGrows DEF Retry, Settling, historyVars
<1>8. QED
  BY <1>1, <1>2, <1>3, <1>4, <1>5, <1>6, <1>7

\* With everything accounted for before and after, such a step settles what
\* the store and the refused have gained.
LEMMA SettlingIsSettle ==
  ASSUME IInv, IInv', Settling
  PROVE  Log!Settle
<1> DEFINE U == InSeq(raw) \union Held
           D == Ids(stored)
           S == D' \ D
           R == refused' \ refused
<1>1. /\ sent = U \union D \union refused \union lost
      /\ U \intersect (D \union refused \union lost) = {}
      /\ D \intersect (refused \union lost) = {}
      /\ refused \intersect lost = {}
  BY DEF IInv, Conservation, Held
<1>2. /\ sent' = U' \union D' \union refused' \union lost'
      /\ U' \intersect (D' \union refused' \union lost') = {}
      /\ D' \intersect (refused' \union lost') = {}
      /\ refused' \intersect lost' = {}
  <2>1. Conservation'
    BY DEF IInv
  <2>2. QED
    BY <2>1 DEF Conservation, Held
<1>3. UNCHANGED <<sent, lost>> /\ D \subseteq D' /\ refused \subseteq refused'
  BY DEF Settling, Ids
<1>4. promised' \subseteq D' \union refused' /\ promised \subseteq promised'
  BY DEF IInv, PromiseKept, Settling
<1> HIDE DEF U, D
<1>5. /\ S \in SUBSET U /\ R \in SUBSET (U \ S)
      /\ U' = U \ (S \union R)
      /\ D' = D \union S /\ refused' = refused \union R
  BY <1>1, <1>2, <1>3
<1>6. promised' \in SUBSET (D' \union refused') /\ promised' = promised \union promised'
  BY <1>4
<1> HIDE DEF S, R
<1>7. QED
  BY <1>3, <1>5, <1>6 DEF Log!Settle, U, D

LEMMA StepRefines == IInv /\ IInv' /\ [Next]_vars => [Log!Next]_(Log!vars)
<1> SUFFICES ASSUME IInv, IInv', [Next]_vars PROVE [Log!Next]_(Log!vars)
  OBVIOUS
<1>1. ASSUME NEW e \in Events, Send(e)
      PROVE  Log!Accept(e)
  <2>1. /\ raw \in Seq(Events) /\ raw' = Append(raw, e) /\ e \notin sent
        /\ UNCHANGED <<pending, batch, stored, refused, lost, promised>>
    BY <1>1 DEF IInv, TypeInv, TypeOK, Send, workerVars, storeVars
  <2>2. /\ Len(raw') = Len(raw) + 1 /\ raw'[Len(raw) + 1] = e
        /\ \A i \in 1 .. Len(raw) : raw'[i] = raw[i]
        /\ Len(raw) \in Nat
    BY <2>1
  <2>3. InSeq(raw') \subseteq InSeq(raw) \union {e}
    BY <2>2 DEF InSeq
  <2>4. InSeq(raw) \union {e} \subseteq InSeq(raw')
    BY <2>2 DEF InSeq
  <2>5. /\ (InSeq(raw) \union Held)' = (InSeq(raw) \union Held) \union {e}
        /\ Ids(stored)' = Ids(stored)
    BY <2>1, <2>3, <2>4 DEF Held, PendingIds, Ids, InSeq
  <2>6. e \notin (InSeq(raw) \union Held) \union Ids(stored) \union refused \union lost
    BY <2>1 DEF IInv, Conservation
  <2>7. QED
    BY <2>1, <2>5, <2>6 DEF Log!Accept
<1>2. CASE Crash
  <2>1. PICK p \in Policies : Restart(p)
    BY <1>2 DEF Crash
  <2>2. /\ raw' = <<>> /\ pending' = NoPending /\ batch' = {}
        /\ lost' = lost \union InSeq(raw) \union Held
        /\ UNCHANGED <<stored, refused, promised>>
    BY <2>1 DEF Restart
  <2>3. (InSeq(raw) \union Held)' = {} /\ Ids(stored)' = Ids(stored)
    BY <2>2 DEF InSeq, Held, PendingIds, NoPending, Ids
  <2>4. lost' = lost \union (InSeq(raw) \union Held)
    BY <2>2
  <2>5. QED
    BY <2>2, <2>3, <2>4 DEF Log!Die, Log!Next
<1>3. CASE UNCHANGED vars
  BY <1>3 DEF vars, workerVars, storeVars, historyVars, Log!vars, InSeq, Held, PendingIds, Ids
<1>4. CASE Settling
  BY <1>4, SettlingIsSettle DEF Log!Next
<1>5. QED
  <2>1. \/ \E e \in Events : Send(e)
        \/ Settling
        \/ Crash
        \/ UNCHANGED vars
    BY ProcessSettles, OthersSettle DEF Next
  <2>2. CASE \E e \in Events : Send(e)
    BY <1>1, <2>2 DEF Log!Next
  <2>3. QED
    BY <1>2, <1>3, <1>4, <2>1, <2>2 DEF Log!Next

\* The whole pipeline, at any size, is a durable log: an accepted event is in
\* flight until one step settles it, a settled event stays settled, and a
\* death of the process costs exactly what was in flight.
THEOREM Implements == Spec => ImplementsLog
<1>1. Init => Log!Init
  BY DEF Init, Log!Init, InSeq, Held, PendingIds, NoPending, Ids
<1>2. QED
  BY Invariant, StepRefines, <1>1, PTL DEF Spec, ImplementsLog, Log!Spec

-----------------------------------------------------------------------------
(* The privacy filters (StoredWithinPolicies, CommitsObeyRuling) and the    *)
(* daemon snapshot (HealthyStoreIsCurrent), on top of the invariant above.  *)

\* A filter lets all of these through as they are.
Obeys(p, items) ==
  \A it \in items : it.ids \subseteq Admits[p] /\ (it.body => it.ids \subseteq ShowsBody[p])

\* Every filter that was in force while an event was held lets it through.
Within(items) ==
  \A it \in items : \A e \in it.ids : \A p \in heldUnder[e] :
    e \in Admits[p] /\ (it.body => e \in ShowsBody[p])

\* StoredWithinPolicies is not inductive: what is to be written must satisfy
\* it already, and the coalescing buffer never outlives the filter its events
\* came in under.
Filtered ==
  /\ Within(batch \union stored)
  /\ Obeys(policy, batch)
  /\ \A e \in PendingIds : heldUnder[e] \subseteq {policy}

\* The main thread has at most one request in the channel or at the worker,
\* the one it is blocked on; unless that is a replacement of the filter, the
\* worker's filter is the one it last asked for.
Asks(i) == control[i].kind # "heartbeat"
OneRequest ==
  /\ \A i \in 1 .. Len(control) : Asks(i) =>
       /\ control[i].kind = client /\ waiting = "none"
       /\ control[i].kind = "replace" => control[i].filter = ruling
  /\ \A i, j \in 1 .. Len(control) : Asks(i) /\ Asks(j) => i = j
  /\ waiting # "none" => waiting = client
  /\ client # "replace" => policy = ruling

\* A snapshot that is not marked dirty is in the store, and a store that takes
\* events has none to write.
SnapshotKept ==
  /\ latest # 0 /\ ~stateDirty => storedState = latest
  /\ Accepting => ~stateDirty

-----------------------------------------------------------------------------
(* The snapshot.                                                           *)

LEMMA PersistSnapshot ==
  ASSUME NEW b, NEW s, NEW d \in BOOLEAN, Persist(b, s, d), s # 0 /\ ~d => storedState = s
  PROVE  /\ s # 0 /\ ~stateDirty' => storedState' = s
         /\ health' = "Healthy" => ~stateDirty'
<1>1. CASE PersistNothing(b, d)
  BY <1>1 DEF PersistNothing
<1>2. CASE PersistOk(b, s, d)
  BY <1>2 DEF PersistOk
<1>3. CASE EnterBackoff(b, s, d)
  BY <1>3 DEF EnterBackoff
<1>4. QED
  BY <1>1, <1>2, <1>3 DEF Persist

LEMMA KeepSnapshot ==
  ASSUME SnapshotKept, NEW b, Keep(b), UNCHANGED latest
  PROVE  SnapshotKept'
BY DEF Keep, SnapshotKept, Accepting

LEMMA FlushSnapshot ==
  ASSUME TypeOK, SnapshotKept, NEW b, FlushDestination(b), UNCHANGED latest
  PROVE  SnapshotKept'
<1>1. CASE Persist(b, latest, stateDirty)
  BY <1>1, PersistSnapshot DEF SnapshotKept, Accepting, TypeOK
<1>2. CASE Keep(b)
  BY <1>2, KeepSnapshot
<1>3. QED
  BY <1>1, <1>2 DEF FlushDestination

LEMMA SnapshotNext == TypeOK /\ SnapshotKept /\ [Next]_vars => SnapshotKept'
<1> SUFFICES ASSUME TypeOK, SnapshotKept, [Next]_vars
             PROVE  SnapshotKept'
  OBVIOUS
<1>1. CASE UNCHANGED storeVars
  BY <1>1 DEF storeVars, SnapshotKept, Accepting
<1>2. CASE Process
  <2>1. CASE Refuse(Head(raw))
    BY <1>2, <2>1 DEF Process, Refuse, SnapshotKept, Accepting
  <2>2. CASE Admit(Head(raw))
    <3>1. PICK b : WriteEvents(b)
      BY <2>2 DEF Admit
    <3>2. UNCHANGED latest
      BY <1>2 DEF Process
    <3>3. QED
      BY <3>1, <3>2, FlushSnapshot, KeepSnapshot DEF WriteEvents
  <2>3. QED
    BY <1>2, <2>1, <2>2 DEF Process
<1>3. CASE FlushAll \/ FlushAndAcknowledge \/ HandleReplace
  <2>1. PICK b : FlushDestination(b)
    BY <1>3 DEF FlushAll, FlushAndAcknowledge, HandleReplace, FlushBatch
  <2>2. UNCHANGED latest
    BY <1>3 DEF FlushAll, FlushAndAcknowledge, HandleReplace
  <2>3. QED
    BY <2>1, <2>2, FlushSnapshot
<1>4. CASE HandleHeartbeat
  <2>1. CASE Persist(batch, latest', TRUE)
    BY <2>1, PersistSnapshot DEF SnapshotKept, Accepting
  <2>2. CASE ~Accepting /\ stateDirty' = TRUE /\ UNCHANGED health
    BY <2>2 DEF SnapshotKept, Accepting
  <2>3. QED
    BY <1>4, <2>1, <2>2 DEF HandleHeartbeat
<1>5. CASE RetryDue
  BY <1>5 DEF RetryDue, SnapshotKept, Accepting
<1>6. CASE Retry
  BY <1>6, PersistSnapshot DEF Retry, SnapshotKept, Accepting, TypeOK
<1>7. CASE Crash
  <2>1. PICK p \in Policies : Restart(p)
    BY <1>7 DEF Crash
  <2>2. QED
    BY <2>1 DEF Restart, SnapshotKept
<1>8. QED
  <2>1. ASSUME \/ \E e \in Events : Send(e)
               \/ Heartbeat \/ Flush \/ (\E p \in Policies : ReplaceFilter(p)) \/ Shutdown
               \/ HandleWaiter \/ UNCHANGED vars
        PROVE  UNCHANGED storeVars
    BY <2>1 DEF Send, Heartbeat, Flush, ReplaceFilter, Shutdown, Request, HandleWaiter, vars
  <2>2. QED
    BY <1>1, <1>2, <1>3, <1>4, <1>5, <1>6, <1>7, <2>1 DEF Next

\* While the store accepts writes it holds the newest snapshot the worker has
\* received; a failed write leaves it to be written with the retained events
\* (pipeline/store.rs).
THEOREM SnapshotIsCurrent == Spec => []HealthyStoreIsCurrent
<1>1. Init => SnapshotKept
  BY DEF Init, SnapshotKept
<1>2. SnapshotKept => HealthyStoreIsCurrent
  BY DEF SnapshotKept, HealthyStoreIsCurrent
<1>3. QED
  BY <1>1, <1>2, SnapshotNext, TypeCorrect, PTL DEF Spec
-----------------------------------------------------------------------------
(* What the worker holds and writes has passed the filters.                *)

\* Filtering makes every event satisfy the filter, and spoils no other filter.
LEMMA ReprocessObeys ==
  ASSUME NEW p, NEW X
  PROVE  /\ Obeys(p, Reprocess(p, X))
         /\ \A r \in Reprocess(p, X) : \E x \in X : r.ids = x.ids /\ (r.body => x.body)
<1> DEFINE F(x) == [ids |-> x.ids, body |-> x.body /\ x.ids \subseteq ShowsBody[p]]
<1>1. ASSUME NEW r \in Reprocess(p, X)
      PROVE  \E x \in X : r = F(x) /\ x.ids \subseteq Admits[p]
  BY Zenon DEF Reprocess
<1>2. ASSUME NEW x
      PROVE  F(x).ids = x.ids /\ F(x).body = (x.body /\ x.ids \subseteq ShowsBody[p])
  OBVIOUS
<1> HIDE DEF F
<1>3. ASSUME NEW r \in Reprocess(p, X)
      PROVE  /\ r.ids \subseteq Admits[p] /\ (r.body => r.ids \subseteq ShowsBody[p])
             /\ \E x \in X : r.ids = x.ids /\ (r.body => x.body)
  <2>1. PICK x \in X : r = F(x) /\ x.ids \subseteq Admits[p]
    BY <1>1
  <2>2. r.ids = x.ids /\ r.body = (x.body /\ x.ids \subseteq ShowsBody[p])
    BY <1>2, <2>1
  <2>3. QED
    BY <2>1, <2>2
<1>4. QED
  BY <1>3 DEF Obeys

\* The same for what the normalizer emits.
LEMMA ProcessPendingObeys ==
  ASSUME NEW p, NEW M
  PROVE  /\ Obeys(p, ProcessPending(p, M))
         /\ \A r \in ProcessPending(p, M) : r.ids \in M
<1> DEFINE X == {[ids |-> s, body |-> TRUE] : s \in M}
<1>1. \A x \in X : x.ids \in M
  OBVIOUS
<1>2. ProcessPending(p, M) = Reprocess(p, X)
  BY DEF ProcessPending
<1> HIDE DEF X
<1>3. QED
  BY <1>1, <1>2, ReprocessObeys

\* A worker step that keeps its filter may write what it held and what passed
\* that filter and was held under no other.
LEMMA FilteredWritten ==
  ASSUME TypeOK, Filtered, policy' = policy,
         NEW b, Written(b),
         \A it \in b : \/ it \in batch
                       \/ Obeys(policy, {it}) /\ \A e \in it.ids : heldUnder'[e] \subseteq {policy},
         \A it \in batch \union stored : \A e \in it.ids : heldUnder'[e] \subseteq heldUnder[e],
         \A e \in PendingIds' : heldUnder'[e] \subseteq {policy}
  PROVE  Filtered'
<1>1. /\ batch' \subseteq b
      /\ \A it \in (batch \union stored)' : it \in b \union batch \union stored
  BY DEF Written
<1>2. Obeys(policy, b)
  BY DEF Filtered, Obeys
<1>3. Obeys(policy', batch')
  BY <1>1, <1>2 DEF Obeys
<1>4. ASSUME NEW it \in (batch \union stored)', NEW e \in it.ids, NEW p \in heldUnder'[e]
      PROVE  e \in Admits[p] /\ (it.body => e \in ShowsBody[p])
  <2>1. CASE it \in batch \union stored
    <3>1. p \in heldUnder[e]
      BY <2>1, <1>4
    <3>2. QED
      BY <2>1, <3>1 DEF Filtered, Within
  <2>2. CASE it \in b /\ it \notin batch
    <3>1. p = policy /\ Obeys(policy, {it})
      BY <2>2, <1>4
    <3>2. QED
      BY <3>1 DEF Obeys
  <2>3. QED
    BY <1>1, <2>1, <2>2
<1>5. Within(batch \union stored)'
  BY <1>4 DEF Within
<1>6. QED
  BY <1>3, <1>5 DEF Filtered
\* What a step that takes the event e, or none, may hand to the store: what
\* the batch held and what of the rest passed the filter.
Handed(b, taken) ==
  /\ b \in SUBSET Item /\ Written(b)
  /\ \A it \in b : it \in batch \/ (Obeys(policy, {it}) /\ it.ids \subseteq PendingIds \union taken)
  /\ PendingIds' \subseteq PendingIds \union taken

LEMMA AdmitHands ==
  ASSUME IInv, NEW e \in Events, e \notin Held, Admit(e)
  PROVE  \E b : Handed(b, {e})
<1>1. PICK expired \in SUBSET Waiting(pending), full \in BOOLEAN :
        LET after == AfterPush(e, expired, full)
            b     == batch \union ProcessPending(policy, after.out)
        IN  /\ pending' = after.pend
            /\ WriteEvents(b)
  BY DEF Admit
<1>2. PICK after : after = AfterPush(e, expired, full)
  OBVIOUS
<1> DEFINE new == ProcessPending(policy, after.out)
           b   == batch \union new
<1>3. Partition(after, e)
  BY <1>2, PushPartitions DEF IInv, TypeInv, TypeOK, Held
<1>4. new \in SUBSET Item
  BY <1>3, ProcessPendingShrinks DEF Partition, IInv, TypeInv, TypeOK
<1>5. Obeys(policy, new) /\ \A it \in new : it.ids \in after.out
  BY ProcessPendingObeys
<1>6. WriteEvents(b) /\ pending' = after.pend
  BY <1>1, <1>2
<1> HIDE DEF new
<1>7. b \in SUBSET Item
  BY <1>4 DEF IInv, TypeInv, TypeOK
<1>8. Written(b)
  BY <1>6, <1>7, WriteEventsWrites DEF IInv, TypeInv
<1>9. \A it \in b : it \in batch \/ (Obeys(policy, {it}) /\ it.ids \subseteq PendingIds \union {e})
  BY <1>3, <1>5 DEF Obeys, Partition
<1>10. PendingIds' \subseteq PendingIds \union {e}
  BY <1>3, <1>6 DEF Partition, PendingIds
<1> HIDE DEF b
<1>11. QED
  BY <1>7, <1>8, <1>9, <1>10 DEF Handed

LEMMA FlushHands ==
  ASSUME IInv, FlushBatch
  PROVE  PendingIds' = {} /\ \E b : Handed(b, {})
<1> DEFINE merged == {pending[g] : g \in Waiting(pending)}
           new    == ProcessPending(policy, merged)
           b      == batch \union new
<1>1. /\ merged \in SUBSET SUBSET Events
      /\ \A s, t \in merged : s = t \/ s \intersect t = {}
      /\ UNION merged = PendingIds
  BY PendingMerged DEF IInv, TypeInv, TypeOK
<1>2. FlushDestination(b) /\ pending' = NoPending
  BY DEF FlushBatch
<1> HIDE DEF merged
<1>3. new \in SUBSET Item
  BY <1>1, ProcessPendingShrinks DEF IInv, TypeInv, TypeOK
<1>4. Obeys(policy, new) /\ \A it \in new : it.ids \in merged
  BY ProcessPendingObeys
<1> HIDE DEF new
<1>5. b \in SUBSET Item
  BY <1>3 DEF IInv, TypeInv, TypeOK
<1>6. Written(b)
  BY <1>2, <1>5, FlushWrites DEF IInv, TypeInv
<1>7. PendingIds' = {}
  BY <1>2 DEF PendingIds, NoPending
<1>8. \A it \in b : it \in batch \/ (Obeys(policy, {it}) /\ it.ids \subseteq PendingIds)
  BY <1>1, <1>4 DEF Obeys
<1> HIDE DEF b
<1>9. Handed(b, {})
  BY <1>5, <1>6, <1>7, <1>8 DEF Handed
<1>10. QED
  BY <1>7, <1>9

\* A write of the batch as it stands, by a heartbeat or a retry.
LEMMA BatchHands ==
  ASSUME IInv, HandleHeartbeat \/ Retry
  PROVE  Handed(batch, {})
<1>1. batch \in SUBSET Item /\ UNCHANGED pending
  BY DEF HandleHeartbeat, Retry, IInv, TypeInv, TypeOK
<1>2. CASE Retry
  <2>1. Written(batch)
    BY <1>2, PersistWrites DEF Retry, IInv, TypeInv, TypeOK
  <2>2. QED
    BY <1>1, <2>1 DEF Handed, PendingIds
<1>3. CASE HandleHeartbeat
  <2>1. latest' \in Nat
    <3>1. Head(control) \in Controls /\ Head(control).kind = "heartbeat"
      BY <1>3, HeadOfControl DEF HandleHeartbeat, IInv
    <3>2. QED
      BY <1>3, <3>1 DEF HandleHeartbeat, Controls
  <2>2. CASE Persist(batch, latest', TRUE)
    BY <1>1, <2>1, <2>2, PersistWrites DEF IInv, TypeInv, Handed, PendingIds
  <2>3. CASE stateDirty' = TRUE /\ UNCHANGED <<batch, health, retryIndex, stored, storedState>>
    BY <1>1, <2>3 DEF Written, Handed, PendingIds, IInv, TypeInv, TypeOK
  <2>4. QED
    BY <1>3, <2>2, <2>3 DEF HandleHeartbeat
<1>4. QED
  BY <1>2, <1>3

\* The event at the head of the queue is nowhere else.
LEMMA HeadIsNew ==
  ASSUME IInv, raw # <<>>
  PROVE  Head(raw) \in Events /\ Head(raw) \notin Held /\ Head(raw) \notin Ids(stored)
<1>1. Head(raw) \in InSeq(raw) /\ Head(raw) \in Events
  BY DEF IInv, TypeInv, TypeOK, InSeq
<1>2. QED
  BY <1>1 DEF IInv, Conservation

LEMMA ProcessFiltered ==
  ASSUME IInv, Filtered, Process
  PROVE  Filtered'
<1> DEFINE e == Head(raw)
<1>1. e \in Events /\ e \notin Held /\ e \notin Ids(stored) /\ policy' = policy
  BY HeadIsNew DEF Process
<1> HIDE DEF e
<1>2. CASE Refuse(e)
  <2>1. UNCHANGED <<policy, pending, batch, stored, heldUnder>>
    BY <1>1, <1>2 DEF Refuse
  <2>2. QED
    BY <2>1 DEF Filtered, Within, Obeys, PendingIds
<1>3. CASE Admit(e)
  <2>1. PICK b : Handed(b, {e})
    BY <1>1, <1>3, AdmitHands
  <2>2. heldUnder' = [heldUnder EXCEPT ![e] = {policy}] /\ heldUnder \in [Events -> SUBSET Policies]
    BY <1>3 DEF Admit, IInv, TypeInv, TypeOK
  <2>3. \A f \in PendingIds \union {e} : heldUnder'[f] \subseteq {policy}
    BY <2>2, <1>1 DEF Filtered, PendingIds, IInv, TypeInv, TypeOK
  <2>4. \A it \in batch \union stored : \A f \in it.ids : heldUnder'[f] \subseteq heldUnder[f]
    <3>1. \A it \in batch \union stored : \A f \in it.ids : f # e /\ f \in Events
      BY <1>1 DEF Ids, Held, IInv, TypeInv, TypeOK, Item
    <3>2. QED
      BY <2>2, <3>1
  <2>5. QED
    BY <1>1, <2>1, <2>3, <2>4, FilteredWritten DEF Handed, IInv, TypeInv
<1>4. QED
  BY <1>2, <1>3 DEF Process, e

\* A replacement filters what is held once more; an event it had held before is
\* held under both filters from here on.
LEMMA ReplaceFiltered ==
  ASSUME IInv, Filtered, HandleReplace
  PROVE  Filtered'
<1> DEFINE p      == Head(control).filter
           merged == {pending[g] : g \in Waiting(pending)}
           once   == ProcessPending(policy, merged)
           b      == Refilter(p)
<1>1. /\ TakeControl("replace") /\ policy' = p /\ pending' = NoPending
      /\ FlushDestination(b)
      /\ heldUnder' = [e \in Events |->
              IF e \in Held THEN heldUnder[e] \union {p} ELSE heldUnder[e]]
  BY DEF HandleReplace
<1>2. p \in Policies
  <2>1. Head(control) \in Controls /\ Head(control).kind = "replace"
    BY <1>1, HeadOfControl DEF IInv
  <2>2. QED
    BY <2>1 DEF Controls
<1>3. b = Reprocess(p, batch) \union Reprocess(p, once)
  BY DEF Refilter
<1> HIDE DEF p
<1>4. b \in SUBSET Item /\ Ids(b) \subseteq Held
  BY <1>2, RefilterFacts DEF IInv
<1>5. Written(b)
  BY <1>1, <1>4, FlushWrites DEF IInv, TypeInv
<1>6. Obeys(p, b)
  BY <1>3, ReprocessObeys DEF Obeys
<1>7. UNION merged = PendingIds
  BY PendingMerged DEF IInv, TypeInv, TypeOK
<1>8. Obeys(policy, once) /\ \A y \in once : y.ids \subseteq PendingIds
  BY <1>7, ProcessPendingObeys
<1> HIDE DEF merged, once
<1>9. ASSUME NEW it \in b
      PROVE  \/ \E x \in batch : it.ids = x.ids /\ (it.body => x.body)
             \/ \E y \in once : it.ids = y.ids /\ (it.body => y.body)
  BY <1>3, ReprocessObeys
<1>10. ASSUME NEW it \in b, NEW e \in it.ids, NEW q \in heldUnder[e]
       PROVE  e \in Admits[q] /\ (it.body => e \in ShowsBody[q])
  <2>1. CASE \E x \in batch : it.ids = x.ids /\ (it.body => x.body)
    BY <1>10, <2>1 DEF Filtered, Within
  <2>2. CASE \E y \in once : it.ids = y.ids /\ (it.body => y.body)
    <3>1. PICK y \in once : it.ids = y.ids /\ (it.body => y.body)
      BY <2>2
    <3>2. e \in PendingIds /\ q = policy
      BY <1>8, <1>10, <3>1 DEF Filtered
    <3>3. QED
      BY <1>8, <3>1, <3>2 DEF Obeys
  <2>3. QED
    BY <1>9, <2>1, <2>2
<1> HIDE DEF b
<1>11. /\ batch' \subseteq b
       /\ \A it \in (batch \union stored)' : it \in b \/ it \in stored
  BY <1>5 DEF Written
<1>12. ASSUME NEW it \in (batch \union stored)', NEW e \in it.ids, NEW q \in heldUnder'[e]
       PROVE  e \in Admits[q] /\ (it.body => e \in ShowsBody[q])
  <2>1. CASE it \in b
    <3>1. e \in Events
      BY <1>4, <2>1 DEF Item
    <3>2. q = p \/ q \in heldUnder[e]
      BY <1>1, <1>12, <3>1
    <3>3. QED
      BY <1>6, <1>10, <2>1, <3>2 DEF Obeys
  <2>2. CASE it \in stored
    <3>1. e \in Events /\ e \in Ids(stored)
      BY <2>2 DEF Ids, IInv, TypeInv, TypeOK, Item
    <3>2. e \notin Held
      BY <3>1 DEF IInv, Conservation, Held
    <3>3. q \in heldUnder[e]
      BY <1>1, <1>12, <3>1, <3>2
    <3>4. QED
      BY <2>2, <3>3 DEF Filtered, Within
  <2>3. QED
    BY <1>11, <2>1, <2>2
<1>13. Within(batch \union stored)'
  BY <1>12 DEF Within
<1>14. Obeys(policy', batch')
  BY <1>1, <1>6, <1>11 DEF Obeys
<1>15. PendingIds' = {}
  BY <1>1 DEF PendingIds, NoPending
<1>16. QED
  BY <1>13, <1>14, <1>15 DEF Filtered

LEMMA FilteredNext == IInv /\ Filtered /\ [Next]_vars => Filtered'
<1> SUFFICES ASSUME IInv, Filtered, [Next]_vars
             PROVE  Filtered'
  OBVIOUS
<1>1. CASE UNCHANGED <<policy, pending, batch, stored, heldUnder>>
  BY <1>1 DEF Filtered, Within, Obeys, PendingIds
<1>2. CASE Process
  BY <1>2, ProcessFiltered
<1>3. CASE FlushAll \/ FlushAndAcknowledge \/ HandleHeartbeat \/ Retry
  <2>1. PICK b : Handed(b, {})
    BY <1>3, FlushHands, BatchHands DEF FlushAll, FlushAndAcknowledge
  <2>2. UNCHANGED <<policy, heldUnder>>
    BY <1>3 DEF FlushAll, FlushAndAcknowledge, HandleHeartbeat, Retry, historyVars
  <2>3. \A e \in PendingIds : heldUnder'[e] \subseteq {policy}
    BY <2>2 DEF Filtered
  <2>4. QED
    BY <2>1, <2>2, <2>3, FilteredWritten DEF Handed, IInv, TypeInv
<1>4. CASE HandleReplace
  BY <1>4, ReplaceFiltered
<1>5. CASE Crash
  <2>1. PICK p \in Policies : Restart(p)
    BY <1>5 DEF Crash
  <2>2. batch' = {} /\ stored' = stored /\ heldUnder' = heldUnder /\ PendingIds' = {}
    BY <2>1 DEF Restart, PendingIds, NoPending
  <2>3. QED
    BY <2>2 DEF Filtered, Within, Obeys
<1>6. QED
  <2>1. ASSUME \/ \E e \in Events : Send(e)
               \/ Heartbeat \/ Flush \/ (\E p \in Policies : ReplaceFilter(p)) \/ Shutdown
               \/ HandleWaiter \/ RetryDue \/ UNCHANGED vars
        PROVE  UNCHANGED <<policy, pending, batch, stored, heldUnder>>
    BY <2>1 DEF Send, Heartbeat, Flush, ReplaceFilter, Shutdown, Request, HandleWaiter,
                RetryDue, vars, workerVars, storeVars, historyVars
  <2>2. QED
    BY <1>1, <1>2, <1>3, <1>4, <1>5, <2>1 DEF Next

LEMMA FilteredAlways == Spec => []Filtered
<1>1. Init => Filtered
  BY DEF Init, Filtered, Within, Obeys, PendingIds, NoPending
<1>2. QED
  BY <1>1, FilteredNext, Invariant, PTL DEF Spec

\* A stored event passed every filter that was in force while the worker held
\* it, however often the filter was replaced and however long the store was
\* down (pipeline/worker.rs, replace_filter).
THEOREM StoredIsWithinPolicies == Spec => []StoredWithinPolicies
<1>1. Filtered => StoredWithinPolicies
  BY DEF Filtered, Within, StoredWithinPolicies
<1>2. QED
  BY <1>1, FilteredAlways, PTL
-----------------------------------------------------------------------------
(* What is written obeys the filter last asked for.                        *)

LEMMA TailOf ==
  ASSUME NEW S, NEW s \in Seq(S), s # <<>>
  PROVE  /\ Head(s) = s[1] /\ 1 \in 1 .. Len(s)
         /\ \A i \in 1 .. Len(Tail(s)) :
              Tail(s)[i] = s[i + 1] /\ i + 1 \in 1 .. Len(s) /\ i + 1 # 1
<1>1. Len(s) \in Nat /\ Len(s) >= 1 /\ Len(Tail(s)) = Len(s) - 1
  OBVIOUS
<1>2. \A i \in 1 .. Len(Tail(s)) : Tail(s)[i] = s[i + 1]
  OBVIOUS
<1>3. QED
  BY <1>1, <1>2

\* The main thread posts a request only when none is under way.
LEMMA RequestOne ==
  ASSUME TypeOK, OneRequest, NEW m \in Controls, Request(m), m.kind # "heartbeat",
         IF m.kind = "replace" THEN m.filter = ruling' ELSE ruling' = ruling
  PROVE  OneRequest'
<1>1. /\ client = "idle" /\ client' = m.kind /\ control' = Append(control, m)
      /\ UNCHANGED <<waiting, policy>>
  BY DEF Request, workerVars
<1>2. \A i \in 1 .. Len(control) : ~Asks(i)
  <2> SUFFICES ASSUME NEW i \in 1 .. Len(control), Asks(i)
               PROVE  FALSE
    OBVIOUS
  <2>1. control[i].kind = "idle" /\ control[i] \in Controls
    BY <1>1 DEF OneRequest, TypeOK
  <2>2. QED
    BY <2>1 DEF Controls
<1>3. waiting = "none" /\ policy = ruling
  BY <1>1 DEF OneRequest, TypeOK
<1>4. /\ Len(control') = Len(control) + 1 /\ Len(control) \in Nat
      /\ control'[Len(control) + 1] = m
      /\ \A i \in 1 .. Len(control) : control'[i] = control[i]
  BY <1>1 DEF TypeOK
<1>5. \A i \in 1 .. Len(control') : Asks(i)' => i = Len(control) + 1
  BY <1>2, <1>4 DEF Asks
<1>6. QED
  BY <1>1, <1>3, <1>4, <1>5 DEF OneRequest

\* Taking a message leaves the others in their order.
LEMMA TakenOne ==
  ASSUME TypeOK, OneRequest, NEW kind, TakeControl(kind)
  PROVE  /\ 1 \in 1 .. Len(control) /\ control[1].kind = kind /\ Head(control) = control[1]
         /\ \A i \in 1 .. Len(control') :
              control'[i] = control[i + 1] /\ i + 1 \in 1 .. Len(control) /\ i + 1 # 1
BY TailOf DEF TakeControl, TypeOK

LEMMA OneRequestNext == TypeOK /\ OneRequest /\ [Next]_vars => OneRequest'
<1> SUFFICES ASSUME TypeOK, OneRequest, [Next]_vars
             PROVE  OneRequest'
  OBVIOUS
<1>1. CASE UNCHANGED <<control, waiting, policy, client, ruling>>
  BY <1>1 DEF OneRequest, Asks
<1>2. CASE Heartbeat
  <2> DEFINE m == [kind |-> "heartbeat", state |-> beats + 1]
  <2>1. control' = Append(control, m) /\ UNCHANGED <<waiting, policy, client, ruling>>
    BY <1>2 DEF Heartbeat, workerVars
  <2>2. m.kind = "heartbeat"
    OBVIOUS
  <2> HIDE DEF m
  <2>3. /\ Len(control') = Len(control) + 1 /\ Len(control) \in Nat
        /\ control'[Len(control) + 1] = m
        /\ \A i \in 1 .. Len(control) : control'[i] = control[i]
    BY <2>1 DEF TypeOK
  <2>4. \A i \in 1 .. Len(control') :
          Asks(i)' => i \in 1 .. Len(control) /\ Asks(i) /\ control'[i] = control[i]
    BY <2>2, <2>3 DEF Asks
  <2>5. QED
    BY <2>1, <2>4 DEF OneRequest
<1>3. CASE Flush \/ Shutdown
  <2>1. [kind |-> "flush"] \in Controls /\ [kind |-> "shutdown"] \in Controls
    BY DEF Controls
  <2>2. QED
    BY <1>3, <2>1, RequestOne DEF Flush, Shutdown
<1>4. ASSUME NEW p \in Policies, ReplaceFilter(p)
      PROVE  OneRequest'
  <2>1. [kind |-> "replace", filter |-> p] \in Controls
    BY DEF Controls
  <2>2. QED
    BY <1>4, <2>1, RequestOne DEF ReplaceFilter
<1>5. CASE FlushAndAcknowledge
  <2>1. CASE UNCHANGED <<waiting, client>>
    BY <1>5, <2>1, <1>1 DEF FlushAndAcknowledge
  <2>2. CASE Acknowledge
    <3>1. /\ waiting # "none" /\ waiting' = "none" /\ client' \in {"stopped", "idle"}
          /\ UNCHANGED <<control, policy, ruling>>
      BY <1>5, <2>2 DEF FlushAndAcknowledge, Acknowledge
    <3>2. \A i \in 1 .. Len(control) : ~Asks(i)
      BY <3>1 DEF OneRequest
    <3>3. policy = ruling
      BY <3>1 DEF OneRequest, TypeOK
    <3>4. QED
      BY <3>1, <3>2, <3>3 DEF OneRequest, Asks
  <2>3. QED
    BY <1>5, <2>1, <2>2 DEF FlushAndAcknowledge
<1>6. CASE HandleWaiter
  <2>1. PICK kind \in {"flush", "shutdown"} : TakeControl(kind) /\ waiting' = kind
    BY <1>6 DEF HandleWaiter
  <2>2. UNCHANGED <<policy, client, ruling>>
    BY <1>6 DEF HandleWaiter, clientVars
  <2>3. Asks(1) /\ client = kind
    BY <2>1, TakenOne DEF OneRequest, Asks
  <2>4. \A i \in 1 .. Len(control') : ~Asks(i)'
    BY <2>1, <2>3, TakenOne DEF OneRequest, Asks
  <2>5. QED
    BY <2>1, <2>2, <2>3, <2>4 DEF OneRequest
<1>7. CASE HandleReplace
  <2>1. /\ TakeControl("replace") /\ policy' = Head(control).filter /\ client' = "idle"
        /\ UNCHANGED <<waiting, ruling>>
    BY <1>7 DEF HandleReplace
  <2>2. Asks(1) /\ waiting = "none" /\ Head(control).filter = ruling
    BY <2>1, TakenOne DEF OneRequest, Asks
  <2>3. \A i \in 1 .. Len(control') : ~Asks(i)'
    BY <2>1, <2>2, TakenOne DEF OneRequest, Asks
  <2>4. QED
    BY <2>1, <2>2, <2>3 DEF OneRequest
<1>8. CASE HandleHeartbeat
  <2>1. TakeControl("heartbeat") /\ UNCHANGED <<waiting, policy, client, ruling>>
    BY <1>8 DEF HandleHeartbeat, clientVars
  <2>2. \A i \in 1 .. Len(control') :
          Asks(i)' => i + 1 \in 1 .. Len(control) /\ Asks(i + 1) /\ control'[i] = control[i + 1]
    BY <2>1, TakenOne DEF Asks
  <2>3. \A i, j \in 1 .. Len(control') : Asks(i)' /\ Asks(j)' => i = j
    <3> SUFFICES ASSUME NEW i \in 1 .. Len(control'), NEW j \in 1 .. Len(control'),
                        Asks(i)', Asks(j)'
                 PROVE  i = j
      OBVIOUS
    <3>1. i + 1 = j + 1
      BY <2>2 DEF OneRequest
    <3>2. QED
      BY <3>1
  <2>4. QED
    BY <2>1, <2>2, <2>3 DEF OneRequest
<1>9. CASE Crash
  <2>1. PICK p \in Policies : Restart(p)
    BY <1>9 DEF Crash
  <2>2. QED
    BY <2>1 DEF Restart, OneRequest
<1>10. QED
  <2>1. ASSUME \/ \E e \in Events : Send(e)
               \/ Process \/ FlushAll \/ RetryDue \/ Retry \/ UNCHANGED vars
        PROVE  UNCHANGED <<control, waiting, policy, client, ruling>>
    BY <2>1 DEF Send, Process, FlushAll, RetryDue, Retry, vars, workerVars, clientVars
  <2>2. QED
    BY <1>1, <1>2, <1>3, <1>4, <1>5, <1>6, <1>7, <1>8, <1>9, <2>1 DEF Next

\* A step that writes while the main thread waits for no replacement writes
\* what has passed the filter it last asked for.
LEMMA CommitObeys ==
  ASSUME IInv, Filtered, OneRequest, [Next]_vars, client # "replace"
  PROVE  Obeys(ruling, stored' \ stored)
<1>1. policy = ruling
  BY DEF OneRequest
<1>2. ASSUME NEW b, NEW taken, Handed(b, taken)
      PROVE  Obeys(ruling, stored' \ stored)
  <2>1. Obeys(ruling, b)
    BY <1>1, <1>2 DEF Handed, Obeys, Filtered
  <2>2. stored' \ stored \subseteq b
    BY <1>2 DEF Handed, Written
  <2>3. QED
    BY <2>1, <2>2 DEF Obeys
<1>3. CASE UNCHANGED stored
  BY <1>3 DEF Obeys
<1>4. CASE Process
  <2>1. CASE Refuse(Head(raw))
    BY <1>3, <2>1 DEF Refuse
  <2>2. CASE Admit(Head(raw))
    <3>1. Head(raw) \in Events /\ Head(raw) \notin Held
      BY <1>4, HeadIsNew DEF Process
    <3>2. QED
      BY <1>2, <2>2, <3>1, AdmitHands
  <2>3. QED
    BY <1>4, <2>1, <2>2 DEF Process
<1>5. CASE FlushAll \/ FlushAndAcknowledge \/ HandleHeartbeat \/ Retry
  BY <1>2, <1>5, FlushHands, BatchHands DEF FlushAll, FlushAndAcknowledge
<1>6. ~HandleReplace
  <2> SUFFICES ASSUME HandleReplace
               PROVE  FALSE
    OBVIOUS
  <2>1. TakeControl("replace")
    BY DEF HandleReplace
  <2>2. 1 \in 1 .. Len(control) /\ control[1].kind = "replace"
    BY <2>1, TakenOne DEF IInv, TypeInv
  <2>3. QED
    BY <2>2 DEF OneRequest, Asks
<1>7. QED
  <2>1. ASSUME \/ \E e \in Events : Send(e)
               \/ Heartbeat \/ Flush \/ (\E p \in Policies : ReplaceFilter(p)) \/ Shutdown
               \/ HandleWaiter \/ RetryDue \/ Crash \/ UNCHANGED vars
        PROVE  UNCHANGED stored
    BY <2>1 DEF Send, Heartbeat, Flush, ReplaceFilter, Shutdown, Request, HandleWaiter,
                RetryDue, Crash, Restart, vars, storeVars
  <2>2. QED
    BY <1>3, <1>4, <1>5, <1>6, <2>1 DEF Next

\* Once a replacement of the filter is acknowledged, also during a backoff,
\* nothing is written that the new filter does not admit
\* (pipeline.rs, replace_filter; pipeline/worker.rs).
THEOREM CommitsObey == Spec => CommitsObeyRuling
<1>1. Init => OneRequest
  BY DEF Init, OneRequest
<1>2. Spec => []OneRequest
  BY <1>1, OneRequestNext, TypeCorrect, PTL DEF Spec
<1>3. IInv /\ Filtered /\ OneRequest /\ [Next]_vars =>
        [client # "replace" =>
           \A it \in stored' \ stored :
             it.ids \subseteq Admits[ruling] /\ (it.body => it.ids \subseteq ShowsBody[ruling])]_vars
  BY CommitObeys DEF Obeys
<1>4. QED
  BY <1>2, <1>3, Invariant, FilteredAlways, PTL DEF Spec, CommitsObeyRuling

-----------------------------------------------------------------------------
(* PauseControl.                                                           *)

\* The collectors that a stop has still to come to.
Listed(s) == {s[i] : i \in 1 .. Len(s)}

\* Where the main thread is before it starts a collector.
Early == {"down", "owned", "init", "starting"}

\* Nothing runs before the first start and after a stop, and while a stop is
\* under way only collectors it has not come to yet.
StopsCover ==
  /\ pc \in Early => running = {} /\ ~suspended /\ ~paused
  /\ pc \in {"stopping", "halting"} =>
       \A c \in running : c \in Listed(remaining) /\ (draining => c # Head(remaining))
  /\ pc \in {"flushing", "joining"} => running = {}

\* A pause and a suspension that the main thread has carried out.
FlagsAreQuiet == (paused => running = {}) /\ (suspended => running = {})

\* What the main thread knows of a request that has stood since it looked.
Knows ==
  /\ pc \in {"down", "owned"} => ~standing
  /\ standing /\ pc \in {"init", "deciding"} => seen # None
  /\ standing /\ pc \in {"starting", "applying"} => wanted = "pause"
  /\ standing /\ pc \in {"loop", "sync", "timers", "heartbeat"} => paused
  /\ standing /\ pc \in {"closing", "halting"} => running = {}

\* The inductive invariant.
Quiet == PauseTypeOK /\ StopsCover /\ FlagsAreQuiet /\ Knows

-----------------------------------------------------------------------------
(* Facts about the operators the model is built from.                      *)

\* A list's elements are its head and those of its tail.
LEMMA ListedTail ==
  ASSUME NEW S, NEW s \in Seq(S), s # <<>>
  PROVE  /\ Head(s) \in S /\ Tail(s) \in Seq(S)
         /\ \A x \in Listed(s) : x = Head(s) \/ x \in Listed(Tail(s))
<1>1. Head(s) \in S /\ Tail(s) \in Seq(S) /\ Len(s) \in Nat /\ Len(s) > 0
  OBVIOUS
<1>2. ASSUME NEW i \in 1 .. Len(s), i # 1
      PROVE  s[i] \in Listed(Tail(s))
  <2>1. i - 1 \in 1 .. Len(Tail(s)) /\ s[i] = Tail(s)[i - 1]
    BY <1>1, <1>2
  <2>2. QED
    BY <2>1 DEF Listed
<1>3. s[1] = Head(s)
  BY <1>1
<1>4. QED
  BY <1>1, <1>2, <1>3 DEF Listed

\* The stop order comes to every collector.
LEMMA EveryoneListed == \A c \in Collectors : c \in Listed(StopOrder)
BY CollectorsAssumption DEF CollectorsAssumption, Listed

\* A new process satisfies whatever is asked of its state.
LEMMA FreshTypes ==
  ASSUME Fresh
  PROVE  /\ seen' \in 0 .. Forever /\ store' \in {"ok", "backoff"}
         /\ wanted' \in {"pause", "capture"}
         /\ {stop', paused', suspended', draining', gate', standing'} \subseteq BOOLEAN
         /\ running' = {} /\ remaining' \in Seq(Collectors) /\ ~draining'
         /\ permission' \in {"asked", "answered", "done"}
         /\ ~standing' /\ ~paused' /\ ~suspended'
<1>1. 0 \in 0 .. Forever
  BY TimesAssumption DEF TimesAssumption, Forever
<1>2. <<>> \in Seq(Collectors)
  OBVIOUS
<1>3. QED
  BY <1>1, <1>2 DEF Fresh, None

\* Clearing a request that has run out leaves the variables in their types.
LEMMA NormalizeTypes ==
  ASSUME PauseTypeOK, NEW p, Normalize(p)
  PROVE  /\ pc' = p /\ request' \in 0 .. Forever /\ seen' \in 0 .. Forever
         /\ wanted' \in {"pause", "capture"} /\ standing' \in BOOLEAN
<1>1. 0 \in 0 .. Forever
  BY TimesAssumption DEF TimesAssumption, Forever
<1>2. CASE Expired(seen, now)
  BY <1>1, <1>2 DEF Normalize, PauseTypeOK, Active, None
<1>3. CASE ~Expired(seen, now)
  BY <1>3 DEF Normalize, PauseTypeOK
<1>4. QED
  BY <1>2, <1>3

-----------------------------------------------------------------------------
(* Types.                                                                  *)

LEMMA InitTypes == PauseInit => PauseTypeOK
<1> SUFFICES ASSUME PauseInit
             PROVE  PauseTypeOK
  OBVIOUS
<1>1. 0 \in 0 .. Forever /\ <<>> \in Seq(Collectors)
  BY TimesAssumption DEF TimesAssumption, Forever
<1>2. cli \in [Commands -> [step : Steps, value : 0 .. Forever]]
  BY <1>1 DEF PauseInit, Steps, None
<1>3. remaining \in Seq(Collectors) /\ pc \in Places /\ ~draining
  BY <1>1 DEF PauseInit, Places
<1>4. now \in 0 .. MaxTime /\ failures \in 0 .. MaxFailures /\ deaths \in 0 .. MaxDeaths
  BY TimesAssumption DEF TimesAssumption, PauseInit
<1>5. QED
  BY <1>1, <1>2, <1>3, <1>4 DEF PauseInit, PauseTypeOK, None

\* The world and the commands.
LEMMA OutsideTypes ==
  ASSUME PauseTypeOK,
         \/ Tick \/ StoreFails \/ StoreRecovers \/ Answered \/ DaemonDies \/ Relaunch
         \/ \E c \in Commands : Issue(c) \/ Probe(c) \/ Write(c) \/ Signal(c) \/ Launch(c)
  PROVE  PauseTypeOK'
<1> USE DEF PauseTypeOK, timeVars, captureVars, pollVars, Steps, Places
<1>1. CASE Tick
  BY <1>1, TimesAssumption DEF TimesAssumption, Tick, Active
<1>2. CASE StoreFails
  BY <1>2, TimesAssumption DEF TimesAssumption, StoreFails
<1>3. CASE StoreRecovers
  BY <1>3 DEF StoreRecovers
<1>4. CASE Answered
  BY <1>4 DEF Answered
<1>5. CASE DaemonDies
  BY <1>5, FreshTypes, TimesAssumption DEF TimesAssumption, DaemonDies
<1>6. CASE Relaunch
  BY <1>6, FreshTypes DEF Relaunch
<1>7. ASSUME NEW c \in Commands, Issue(c)
      PROVE  PauseTypeOK'
  <2>1. {None, now + 1, Forever} \subseteq 0 .. Forever
    BY TimesAssumption DEF TimesAssumption, Forever, None
  <2>2. cli' \in [Commands -> [step : Steps, value : 0 .. Forever]]
    BY <1>7, <2>1, CommandsAssumption DEF CommandsAssumption, Kinds, Issue
  <2>3. QED
    BY <1>7, <2>2 DEF Issue
<1>8. ASSUME NEW c \in Commands, Probe(c)
      PROVE  PauseTypeOK'
  BY <1>8 DEF Probe, Goto
<1>9. ASSUME NEW c \in Commands, Write(c)
      PROVE  PauseTypeOK'
  BY <1>9 DEF Write, Goto, Active
<1>10. ASSUME NEW c \in Commands, Signal(c)
       PROVE  PauseTypeOK'
  BY <1>10 DEF Signal, Goto
<1>11. ASSUME NEW c \in Commands, Launch(c)
       PROVE  PauseTypeOK'
  <2>1. cli' \in [Commands -> [step : Steps, value : 0 .. Forever]]
    <3>1. Goto(c, "done") \/ Goto(c, "failed")
      BY <1>11 DEF Launch
    <3>2. cli' = [cli EXCEPT ![c].step = "done"] \/ cli' = [cli EXCEPT ![c].step = "failed"]
      BY <3>1 DEF Goto
    <3>3. QED
      BY <3>2
  <2>2. CASE pc = "down"
    BY <1>11, <2>1, <2>2, FreshTypes DEF Launch
  <2>3. CASE pc # "down"
    BY <1>11, <2>1, <2>3 DEF Launch
  <2>4. QED
    BY <2>2, <2>3
<1>12. QED
  BY <1>1, <1>2, <1>3, <1>4, <1>5, <1>6, <1>7, <1>8, <1>9, <1>10, <1>11

\* The main thread.
LEMMA DaemonTypes ==
  ASSUME PauseTypeOK,
         \/ MainThread \/ PollFails \/ RelayDrained \/ Flushed \/ Release
  PROVE  PauseTypeOK'
<1> USE DEF PauseTypeOK, timeVars, captureVars, pollVars, Places, Move, Outside, NoPoll
<1>1. CASE ReadInitial
  BY <1>1 DEF ReadInitial, Active
<1>2. CASE Run
  BY <1>2, NormalizeTypes DEF Run
<1>3. CASE Begin
  BY <1>3, CollectorsAssumption DEF CollectorsAssumption, Begin, Start
<1>4. CASE Top
  <2>1. CASE stop /\ pc' = "closing" /\ UNCHANGED captureVars
    BY <1>4, <2>1 DEF Top
  <2>2. CASE ~stop /\ pc' = "sync" /\ permission = "answered"
    <3>1. running' \subseteq Collectors
      BY <1>4, <2>2, CollectorsAssumption DEF CollectorsAssumption, Top
    <3>2. QED
      BY <1>4, <2>2, <3>1 DEF Top
  <2>3. CASE ~stop /\ pc' = "sync" /\ permission # "answered"
    BY <1>4, <2>3 DEF Top
  <2>4. QED
    BY <1>4, <2>1, <2>2, <2>3 DEF Top
<1>5. CASE SyncIntake
  BY <1>5, CollectorsAssumption DEF CollectorsAssumption, SyncIntake, Start
<1>6. CASE Poll
  BY <1>6 DEF Poll, Active
<1>7. CASE NoPollYet
  BY <1>7 DEF NoPollYet
<1>8. CASE Decide
  BY <1>8, NormalizeTypes DEF Decide
<1>9. CASE Apply
  BY <1>9, CollectorsAssumption DEF CollectorsAssumption, Apply, Start
<1>10. CASE StopCollector
  <2>1. Tail(remaining) \in Seq(Collectors)
    BY <1>10, ListedTail DEF StopCollector
  <2>2. QED
    BY <1>10, <2>1 DEF StopCollector
<1>11. CASE Stopped
  BY <1>11 DEF Stopped
<1>12. CASE BeatAndRestart
  BY <1>12, CollectorsAssumption DEF CollectorsAssumption, BeatAndRestart, Start
<1>13. CASE Close
  BY <1>13, CollectorsAssumption DEF CollectorsAssumption, Close
<1>14. CASE PollFails
  BY <1>14, TimesAssumption DEF TimesAssumption, PollFails
<1>15. CASE RelayDrained
  <2>1. Tail(remaining) \in Seq(Collectors)
    BY <1>15, ListedTail DEF RelayDrained
  <2>2. QED
    BY <1>15, <2>1 DEF RelayDrained
<1>16. CASE Flushed
  BY <1>16 DEF Flushed
<1>17. CASE Release
  BY <1>17, FreshTypes DEF Release
<1>18. QED
  BY <1>1, <1>2, <1>3, <1>4, <1>5, <1>6, <1>7, <1>8, <1>9, <1>10, <1>11, <1>12, <1>13,
     <1>14, <1>15, <1>16, <1>17 DEF MainThread

LEMMA Types == PauseTypeOK /\ [PauseNext]_pauseVars => PauseTypeOK'
<1> SUFFICES ASSUME PauseTypeOK, [PauseNext]_pauseVars
             PROVE  PauseTypeOK'
  OBVIOUS
<1>1. CASE UNCHANGED pauseVars
  BY <1>1 DEF pauseVars, timeVars, captureVars, pollVars, PauseTypeOK, Steps, Places
<1>2. CASE PauseNext
  BY <1>2, OutsideTypes, DaemonTypes DEF PauseNext, MainThread
<1>3. QED
  BY <1>1, <1>2

\* Every reachable state of the daemon and the commands is well typed.
THEOREM PauseTypesHold == PauseSpec => []PauseTypeOK
<1>1. QED
  BY InitTypes, Types, PTL DEF PauseSpec

-----------------------------------------------------------------------------
(* Pausing is quiet.                                                       *)

LEMMA InitQuiet == PauseInit => Quiet
BY InitTypes DEF PauseInit, Quiet, StopsCover, FlagsAreQuiet, Knows, Early

\* A process that starts or ends has nothing running and knows of no request.
LEMMA FreshQuiet ==
  ASSUME Fresh, pc' \in {"down", "owned"}
  PROVE  StopsCover' /\ FlagsAreQuiet' /\ Knows'
BY DEF Fresh, StopsCover, FlagsAreQuiet, Knows

\* The world and the commands never touch the collectors of a process that
\* lives, and can only end the time a request has stood.
LEMMA OutsideQuiet ==
  ASSUME Quiet,
         \/ Tick \/ StoreFails \/ StoreRecovers \/ Answered \/ DaemonDies \/ Relaunch
         \/ \E c \in Commands : Issue(c) \/ Probe(c) \/ Write(c) \/ Signal(c) \/ Launch(c)
  PROVE  StopsCover' /\ FlagsAreQuiet' /\ Knows'
<1> DEFINE Kept == /\ UNCHANGED <<pc, running, remaining, draining, paused, suspended, seen, wanted>>
                   /\ standing' => standing
<1>1. CASE Kept
  BY <1>1 DEF Quiet, StopsCover, FlagsAreQuiet, Knows, Early, Listed
<1>2. CASE Fresh /\ pc' \in {"down", "owned"}
  BY <1>2, FreshQuiet
<1>3. Kept \/ (Fresh /\ pc' \in {"down", "owned"})
  <2> USE DEF timeVars, captureVars, pollVars
  <2>1. ASSUME Tick \/ StoreFails \/ StoreRecovers \/ Answered
        PROVE  Kept
    <3>1. standing' => standing
      BY <2>1, Zenon DEF Tick, StoreFails, StoreRecovers, Answered
    <3>2. QED
      BY <2>1, <3>1 DEF Tick, StoreFails, StoreRecovers, Answered
  <2>2. ASSUME DaemonDies \/ Relaunch
        PROVE  Fresh /\ pc' \in {"down", "owned"}
    BY <2>2 DEF DaemonDies, Relaunch
  <2>3. ASSUME NEW c \in Commands, Issue(c) \/ Probe(c) \/ Write(c) \/ Signal(c)
        PROVE  Kept
    <3>1. standing' => standing
      BY <2>3, Zenon DEF Issue, Probe, Write, Signal
    <3>2. QED
      BY <2>3, <3>1 DEF Issue, Probe, Write, Signal
  <2>4. ASSUME NEW c \in Commands, Launch(c)
        PROVE  Kept \/ (Fresh /\ pc' \in {"down", "owned"})
    BY <2>4 DEF Launch
  <2>5. QED
    BY <2>1, <2>2, <2>3, <2>4
<1>4. QED
  BY <1>1, <1>2, <1>3

\* Deciding by what was read: a request that still stands is one the daemon
\* obeys, because it had one when it read and clears only what has run out.
LEMMA NormalizeObeys ==
  ASSUME Quiet, pc \in {"init", "deciding"}, NEW p, Normalize(p)
  PROVE  standing' => wanted' = "pause"
<1> SUFFICES ASSUME standing'
             PROVE  wanted' = "pause"
  OBVIOUS
<1> USE DEF Quiet, PauseTypeOK
<1>1. CASE Expired(seen, now)
  <2>1. request # seen
    <3> SUFFICES ASSUME request = seen
                 PROVE  FALSE
      OBVIOUS
    <3>1. request' = None /\ standing' = Active(request', now)
      BY <1>1 DEF Normalize
    <3>2. now \in Nat
      BY TimesAssumption DEF TimesAssumption
    <3>3. QED
      BY <3>1, <3>2 DEF Active, None
  <2>2. QED
    BY <1>1, <2>1 DEF Normalize
<1>2. CASE ~Expired(seen, now)
  <2>1. seen # None
    BY <1>2 DEF Normalize, Knows
  <2>2. seen \in Nat /\ now \in Nat
    BY TimesAssumption DEF TimesAssumption, Forever
  <2>3. Active(seen, now)
    BY <1>2, <2>1, <2>2 DEF Expired, Active
  <2>4. QED
    BY <1>2, <2>3 DEF Normalize
<1>3. QED
  BY <1>1, <1>2

\* The main thread decides and starts.
LEMMA StartsQuiet ==
  ASSUME Quiet,
         \/ ReadInitial \/ Run \/ Begin \/ Top \/ SyncIntake \/ Poll \/ NoPollYet \/ PollFails
         \/ Decide \/ Apply \/ BeatAndRestart
  PROVE  StopsCover' /\ FlagsAreQuiet' /\ Knows'
<1> USE DEF Quiet, StopsCover, FlagsAreQuiet, Knows, Early, captureVars, pollVars, Move,
            Outside, NoPoll
<1>1. CASE ReadInitial
  BY <1>1, TimesAssumption DEF TimesAssumption, ReadInitial, Active, PauseTypeOK, None
<1>2. CASE Run
  BY <1>2, NormalizeObeys, NormalizeTypes DEF Run
<1>3. CASE Begin
  BY <1>3 DEF Begin
<1>4. CASE Top
  BY <1>4 DEF Top
<1>5. CASE SyncIntake
  BY <1>5 DEF SyncIntake
<1>6. CASE Poll
  BY <1>6, TimesAssumption DEF TimesAssumption, Poll, Active, PauseTypeOK, None
<1>7. CASE NoPollYet
  BY <1>7 DEF NoPollYet
<1>8. CASE PollFails
  BY <1>8 DEF PollFails
<1>9. CASE Decide
  BY <1>9, NormalizeObeys, NormalizeTypes DEF Decide
<1>10. CASE Apply
  <2>1. CASE wanted = "pause" /\ ~paused
    BY <1>10, <2>1, EveryoneListed DEF Apply, PauseTypeOK
  <2>2. CASE ~(wanted = "pause" /\ ~paused)
    BY <1>10, <2>2 DEF Apply
  <2>3. QED
    BY <2>1, <2>2
<1>11. CASE BeatAndRestart
  BY <1>11 DEF BeatAndRestart
<1>12. QED
  BY <1>1, <1>2, <1>3, <1>4, <1>5, <1>6, <1>7, <1>8, <1>9, <1>10, <1>11

\* The main thread stops collectors, for a pause or for good.
LEMMA StopsQuiet ==
  ASSUME Quiet,
         StopCollector \/ RelayDrained \/ Stopped \/ Flushed \/ Close \/ Release
  PROVE  StopsCover' /\ FlagsAreQuiet' /\ Knows'
<1> USE DEF Quiet, StopsCover, FlagsAreQuiet, Knows, Early, captureVars, pollVars, Move,
            Outside, NoPoll
<1>1. CASE StopCollector
  <2>1. remaining # <<>> /\ remaining \in Seq(Collectors)
    BY <1>1 DEF StopCollector, PauseTypeOK
  <2>2. \A c \in running' : c \in Listed(remaining)' /\ (draining' => c # Head(remaining)')
    <3> SUFFICES ASSUME NEW c \in running'
                 PROVE  c \in Listed(remaining') /\ (draining' => c # Head(remaining'))
      OBVIOUS
    <3>1. c \in running /\ c # Head(remaining) /\ c \in Listed(remaining)
      BY <1>1 DEF StopCollector
    <3>2. c \in Listed(Tail(remaining))
      BY <2>1, <3>1, ListedTail
    <3>3. QED
      BY <1>1, <3>1, <3>2 DEF StopCollector
  <2>3. QED
    BY <1>1, <2>2 DEF StopCollector
<1>2. CASE RelayDrained
  <2>1. remaining # <<>> /\ remaining \in Seq(Collectors) /\ pc \in {"stopping", "halting"}
    BY <1>2 DEF RelayDrained, PauseTypeOK
  <2>2. \A c \in running' : c \in Listed(remaining)'
    BY <1>2, <2>1, ListedTail DEF RelayDrained, Listed
  <2>3. QED
    BY <1>2, <2>1, <2>2 DEF RelayDrained
<1>3. CASE Stopped
  <2>1. running = {}
    BY <1>3 DEF Stopped, Listed
  <2>2. QED
    BY <1>3, <2>1 DEF Stopped
<1>4. CASE Flushed
  BY <1>4 DEF Flushed
<1>5. CASE Close
  BY <1>5, EveryoneListed DEF Close, PauseTypeOK
<1>6. CASE Release
  BY <1>6, FreshQuiet DEF Release
<1>7. QED
  BY <1>1, <1>2, <1>3, <1>4, <1>5, <1>6

LEMMA QuietNext == Quiet /\ [PauseNext]_pauseVars => Quiet'
<1> SUFFICES ASSUME Quiet, [PauseNext]_pauseVars
             PROVE  Quiet'
  OBVIOUS
<1>1. PauseTypeOK'
  BY Types DEF Quiet
<1>2. CASE UNCHANGED pauseVars
  BY <1>1, <1>2 DEF pauseVars, captureVars, pollVars, Quiet, StopsCover, FlagsAreQuiet, Knows, Early, Listed
<1>3. CASE PauseNext
  <2>1. StopsCover' /\ FlagsAreQuiet' /\ Knows'
    BY <1>3, OutsideQuiet, StartsQuiet, StopsQuiet DEF PauseNext
  <2>2. QED
    BY <1>1, <2>1 DEF Quiet
<1>4. QED
  BY <1>2, <1>3

\* A pause or a suspension that the main thread has carried out, or is about
\* to come out of a decision with, leaves no collector running, at every
\* point of its loop and of a start or stop under way (runtime.rs).
THEOREM QuietAlways == PauseSpec => []Quiet
<1>1. QED
  BY InitQuiet, QuietNext, PTL DEF PauseSpec

\* A pause request that stands keeps every collector quiet from the moment the
\* daemon has acted on it, and a store in recovery does from the moment it has
\* been noticed: no dialog, restart or resume starts one
\* (runtime.rs, update_pause_state and sync_store_intake).
THEOREM PauseHoldsAlways == PauseSpec => []PauseHolds
<1>1. Quiet => PauseHolds
  BY DEF Quiet, StopsCover, FlagsAreQuiet, Knows, Early, PauseHolds, PausedIsQuiet,
         SuspendedIsQuiet, PauseTypeOK, Places
<1>2. QED
  BY <1>1, QuietAlways, PTL

-----------------------------------------------------------------------------
(* The pause is the user's.                                                *)

\* The daemon clears only what has run out; every other change of the request
\* is a step of a command.
LEMMA RequestStep ==
  PauseTypeOK /\ [PauseNext]_pauseVars => (Active(request, now) /\ request' # request => cli' # cli)
<1> SUFFICES ASSUME PauseTypeOK, [PauseNext]_pauseVars, Active(request, now), request' # request
             PROVE  cli' # cli
  OBVIOUS
<1> USE DEF timeVars, captureVars, pollVars, Move, Outside, NoPoll
<1>1. ASSUME NEW p, Normalize(p)
      PROVE  FALSE
  <2>1. Expired(seen, now) /\ request = seen
    BY <1>1 DEF Normalize
  <2>2. QED
    BY <2>1, TimesAssumption DEF TimesAssumption, PauseTypeOK, Expired, Active, Forever
<1>2. ~(Run \/ Decide)
  BY <1>1 DEF Run, Decide
<1>3. \E c \in Commands : Write(c)
  <2>1. ~UNCHANGED pauseVars
    BY DEF pauseVars
  <2>2. ~(Tick \/ StoreFails \/ StoreRecovers \/ Answered \/ DaemonDies \/ Relaunch)
    BY DEF Tick, StoreFails, StoreRecovers, Answered, DaemonDies, Relaunch
  <2>3. ~\E c \in Commands : Issue(c) \/ Probe(c) \/ Signal(c) \/ Launch(c)
    BY DEF Issue, Probe, Signal, Launch
  <2>4. ~(ReadInitial \/ Begin \/ Top \/ SyncIntake \/ Poll \/ NoPollYet \/ PollFails \/ Apply)
    BY DEF ReadInitial, Begin, Top, SyncIntake, Poll, NoPollYet, PollFails, Apply
  <2>5. ~(StopCollector \/ RelayDrained \/ Stopped \/ Flushed \/ BeatAndRestart \/ Close \/ Release)
    BY DEF StopCollector, RelayDrained, Stopped, Flushed, BeatAndRestart, Close, Release
  <2>6. QED
    BY <1>2, <2>1, <2>2, <2>3, <2>4, <2>5 DEF PauseNext
<1>4. PICK c \in Commands : Write(c)
  BY <1>3
<1>5. cli[c].step = "probed" /\ cli'[c].step \in {"launching", "done"}
  BY <1>4 DEF Write, At, Goto, PauseTypeOK
<1>6. QED
  BY <1>5

\* A request in force leaves the store only by a command of the user: the
\* daemon's clearing of one that has run out never takes a newer one
\* (runtime.rs, normalize_pause_request; store/control.rs).
THEOREM PauseIsTheUsersAlways == PauseSpec => PauseIsTheUsers
<1>1. PauseTypeOK /\ [PauseNext]_pauseVars => [Active(request, now) /\ request' # request => cli' # cli]_pauseVars
  BY RequestStep
<1>2. QED
  BY <1>1, PauseTypesHold, PTL DEF PauseSpec, PauseIsTheUsers
=============================================================================
