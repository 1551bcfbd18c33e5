----------------------- MODULE FocusTransitionsProofs -----------------------
(***************************************************************************)
(* What the reader of the focus hears, for any number of views, any        *)
(* capacity of the queue and any number of changes.                        *)
(***************************************************************************)
EXTENDS FocusTransitions, FiniteSetTheorems, TLAPS

\* The part of TypeOK the proofs need.
Typed ==
  /\ current \in Snapshots /\ lastSeen \in Snapshots
  /\ generation \in Nat /\ current.gen = generation
  /\ queue \in Seq(Transitions)
  /\ held \in Transitions
  /\ missed \in BOOLEAN

Newer(t) == t.previous.gen < t.current.gen /\ t.current.gen <= generation

\* Every transition on its way is to a newer focus, and a missed one leaves the reader behind.
Ordered ==
  /\ lastSeen.gen <= generation
  /\ missed => lastSeen.gen < generation
  /\ \A i \in 1 .. Len(queue) : Newer(queue[i])
  /\ worker = "taken" => Newer(held)

\* ChainToCurrent without the sequence Pending: what is queued begins at Last.
Last == IF worker = "taken" THEN held.current ELSE lastSeen
Linked ==
  ~missed =>
    /\ worker = "taken" => held.previous = lastSeen
    /\ queue = <<>> => Last = current
    /\ queue # <<>> => queue[1].previous = Last /\ queue[Len(queue)].current = current
    /\ \A i \in 1 .. Len(queue) - 1 : queue[i].current = queue[i + 1].previous

Chain == Typed /\ Ordered /\ Linked

\* Initially nothing is queued and the reader has seen what there is.
LEMMA ChainInit == Init => Chain
<1> SUFFICES ASSUME Init PROVE Chain
  OBVIOUS
<1>1. Nowhere \in Snapshots /\ Nothing \in Transitions
  BY DEF Nowhere, Nothing, Snapshots, Transitions
<1>2. Typed
  <2>1. current \in Snapshots /\ lastSeen \in Snapshots /\ held \in Transitions
    BY <1>1 DEF Init
  <2>2. generation \in Nat /\ current.gen = generation
    BY DEF Init, Nowhere
  <2>3. queue \in Seq(Transitions)
    BY DEF Init
  <2>4. missed \in BOOLEAN
    BY DEF Init
  <2> QED BY <2>1, <2>2, <2>3, <2>4 DEF Typed
<1>3. Ordered
  BY DEF Init, Ordered, Nowhere
<1>4. Linked
  BY DEF Init, Linked, Last
<1> QED BY <1>2, <1>3, <1>4 DEF Chain

\* Generations are numbers.
LEMMA Generations ==
  ASSUME Typed
  PROVE  /\ lastSeen.gen \in Nat /\ current.gen \in Nat
         /\ held.previous.gen \in Nat /\ held.current.gen \in Nat
         /\ \A i \in 1 .. Len(queue) :
              queue[i].previous.gen \in Nat /\ queue[i].current.gen \in Nat
<1>1. \A s \in Snapshots : s.gen \in Nat
  BY DEF Snapshots
<1>2. \A t \in Transitions : t.previous.gen \in Nat /\ t.current.gen \in Nat
  BY <1>1 DEF Transitions
<1>3. \A i \in 1 .. Len(queue) : queue[i] \in Transitions
  BY DEF Typed
<1> QED BY <1>1, <1>2, <1>3 DEF Typed

\* A transition that is made is linked to the last one, or marked as missed.
LEMMA ChainTransition ==
  ASSUME Chain, NEW view \in Views \union {NoView}, NEW force \in BOOLEAN,
         TransitionTo(view, force), UNCHANGED <<lastSeen, worker, held>>
  PROVE  Chain'
<1> DEFINE t == [previous |-> current, current |-> current', resynced |-> force]
<1>1. current' \in Snapshots /\ generation' = generation + 1 /\ current'.gen = generation + 1
  BY DEF Chain, Typed, TransitionTo, Snapshots
<1>2. t \in Transitions
  BY <1>1 DEF Chain, Typed, Transitions
<1>3. Offer(t)
  BY DEF TransitionTo
<1> HIDE DEF t
<1>4. t.previous = current /\ t.current = current'
  BY DEF t
<1>5. CASE Len(queue) < Capacity
  <2>1. queue' = Append(queue, t) /\ missed' = missed
    BY <1>3, <1>5 DEF Offer
  <2>2. Typed'
    BY <1>1, <1>2, <2>1 DEF Chain, Typed
  <2>3. Ordered'
    <3>1. t.previous.gen < t.current.gen /\ t.current.gen <= generation'
      BY <1>1, <1>4 DEF Chain, Typed
    <3>2. \A i \in 1 .. Len(queue) :
            queue[i].previous.gen < queue[i].current.gen /\ queue[i].current.gen <= generation'
      BY <1>1, Generations DEF Chain, Typed, Ordered, Newer
    <3>3. \A i \in 1 .. Len(queue') : queue'[i] = IF i <= Len(queue) THEN queue[i] ELSE t
      BY <1>2, <2>1 DEF Chain, Typed
    <3>4. (\A i \in 1 .. Len(queue) : Newer(queue[i]))'
      BY <2>1, <3>1, <3>2, <3>3 DEF Chain, Typed, Newer
    <3> QED BY <1>1, <2>1, <3>4, Generations DEF Chain, Typed, Ordered, Newer
  <2>4. Linked'
    BY <1>1, <1>2, <1>4, <2>1 DEF Chain, Typed, Linked, Last
  <2> QED BY <2>2, <2>3, <2>4 DEF Chain
<1>6. CASE ~(Len(queue) < Capacity)
  <2>1. queue' = queue /\ missed' = TRUE
    BY <1>3, <1>6 DEF Offer
  <2>2. Typed'
    BY <1>1, <2>1 DEF Chain, Typed
  <2>3. Ordered'
    BY <1>1, <2>1, Generations DEF Chain, Typed, Ordered, Newer
  <2>4. Linked'
    BY <2>1 DEF Linked
  <2> QED BY <2>2, <2>3, <2>4 DEF Chain
<1> QED BY <1>5, <1>6

LEMMA ChainUnchanged ==
  ASSUME Chain, UNCHANGED <<focusVars, lastSeen, worker, held>>
  PROVE  Chain'
  BY DEF Chain, Typed, Ordered, Linked, Last, Newer, focusVars

LEMMA ChainTake == Chain /\ Take => Chain'
<1> SUFFICES ASSUME Chain, Take PROVE Chain'
  OBVIOUS
<1>1. /\ worker = "idle" /\ worker' = "taken" /\ ~missed /\ queue # <<>>
      /\ held' = queue[1] /\ queue' = Tail(queue)
      /\ UNCHANGED <<current, generation, missed, lastSeen>>
  BY DEF Take, Chain, Typed
<1>2. /\ Len(queue') = Len(queue) - 1 /\ Len(queue) > 0
      /\ \A i \in 1 .. Len(queue') : queue'[i] = queue[i + 1]
  BY <1>1 DEF Chain, Typed
<1>3. Typed'
  BY <1>1 DEF Chain, Typed
<1>4. Ordered'
  BY <1>1, <1>2 DEF Chain, Typed, Ordered, Newer
<1>5. Linked'
  <2>1. held'.previous = lastSeen'
    BY <1>1 DEF Chain, Linked, Last
  <2>2. queue' = <<>> => Last' = current'
    <3>1. SUFFICES ASSUME queue' = <<>> PROVE queue[1].current = current
      BY <1>1 DEF Last
    <3>2. Len(queue') = 0
      BY <3>1
    <3>3. Len(queue) \in Nat
      BY DEF Chain, Typed
    <3>4. Len(queue) = 1
      BY <1>2, <3>2, <3>3
    <3> QED BY <1>1, <3>4 DEF Chain, Linked
  <2>3. queue' # <<>> => queue'[1].previous = Last' /\ queue'[Len(queue')].current = current'
    BY <1>1, <1>2 DEF Chain, Typed, Linked, Last
  <2>4. \A i \in 1 .. Len(queue') - 1 : queue'[i].current = queue'[i + 1].previous
    BY <1>1, <1>2 DEF Chain, Typed, Linked
  <2> QED BY <2>1, <2>2, <2>3, <2>4 DEF Linked
<1> QED BY <1>3, <1>4, <1>5 DEF Chain

LEMMA ChainRecover == Chain /\ Recover => Chain'
<1> SUFFICES ASSUME Chain, Recover PROVE Chain'
  OBVIOUS
<1>1. /\ missed' = FALSE /\ queue' = <<>> /\ lastSeen' = current /\ worker' = "handling"
      /\ held' = [previous |-> lastSeen, current |-> current, resynced |-> TRUE]
      /\ UNCHANGED <<current, generation>>
  BY DEF Recover
<1>2. Typed'
  <2>1. held' \in Transitions
    BY <1>1 DEF Chain, Typed, Transitions
  <2>2. queue' \in Seq(Transitions)
    BY <1>1
  <2> QED BY <1>1, <2>1, <2>2 DEF Chain, Typed
<1>3. Ordered'
  BY <1>1 DEF Chain, Typed, Ordered
<1>4. Linked'
  BY <1>1 DEF Linked, Last
<1> QED BY <1>2, <1>3, <1>4 DEF Chain

LEMMA ChainRemember == Chain /\ Remember => Chain'
<1> SUFFICES ASSUME Chain, Remember PROVE Chain'
  OBVIOUS
<1>1. /\ worker = "taken" /\ worker' = "handling" /\ ~missed /\ lastSeen' = held.current
      /\ UNCHANGED <<focusVars, held>>
  BY DEF Remember
<1>2. Typed'
  BY <1>1 DEF Chain, Typed, Transitions, focusVars
<1>3. Ordered'
  BY <1>1 DEF Chain, Typed, Ordered, Newer, focusVars
<1>4. Linked'
  BY <1>1 DEF Chain, Linked, Last, focusVars
<1> QED BY <1>2, <1>3, <1>4 DEF Chain

\* What the worker does with a transition it was given leaves the chain alone: only the
\* receiver takes one, and nothing interrupts it.
LEMMA ChainElsewhere ==
  ASSUME Chain, UNCHANGED <<focusVars, lastSeen>>, held' \in Transitions,
         worker # "taken", worker' # "taken"
  PROVE  Chain'
  BY DEF Chain, Typed, Ordered, Linked, Last, Newer, focusVars

LEMMA ChainWorker ==
  ASSUME Chain, Start \/ Die \/ Handle \/ (\E app \in Apps : PageLoaded(app)) \/ Serve
                \/ (\E view \in Demanded : Demand(AppOf[view], WindowOf[view]))
                \/ Query \/ Publish
  PROVE  Chain'
<1>1. Nothing \in Transitions
  BY DEF Nothing, Nowhere, Snapshots, Transitions
<1>2. CASE Start
  <2>1. held' \in Transitions
    BY <1>1, <1>2 DEF Start, Chain, Typed, Transitions, Nothing
  <2> QED BY <1>2, <2>1, ChainElsewhere DEF Start
<1>3. CASE Die
  BY <1>1, <1>3, ChainElsewhere DEF Die
<1>4. CASE Handle
  BY <1>1, <1>4, ChainElsewhere DEF Handle, HandleStale, HandleEnd, HandleFocus, Back, Ask
<1>5. CASE \E app \in Apps : PageLoaded(app)
  BY <1>5, ChainElsewhere DEF PageLoaded, Ask, Chain, Typed
<1>6. CASE Serve
  BY <1>6, ChainElsewhere DEF Serve, Ask, Chain, Typed
<1>7. CASE \E view \in Demanded : Demand(AppOf[view], WindowOf[view])
  BY <1>7, ChainElsewhere DEF Demand, Chain, Typed
<1>8. CASE Query
  BY <1>8, ChainElsewhere DEF Query, Back, Chain, Typed
<1>9. CASE Publish
  BY <1>9, ChainElsewhere DEF Publish, Back, Chain, Typed
<1> QED BY <1>2, <1>3, <1>4, <1>5, <1>6, <1>7, <1>8, <1>9

LEMMA ChainWriter ==
  ASSUME Chain, \/ \E view \in Views : Focus(view)
                \/ \E view \in Views \union {NoView} : Wake(view)
                \/ \E app \in Apps : Quit(app) \/ Terminate(app)
  PROVE  Chain'
<1>1. CASE \E view \in Views : Focus(view)
  BY <1>1, ChainTransition DEF Focus, workerVars
<1>2. CASE \E view \in Views \union {NoView} : Wake(view)
  BY <1>2, ChainTransition DEF Wake, workerVars
<1>3. CASE \E app \in Apps : Quit(app)
  BY <1>3, ChainUnchanged DEF Quit, workerVars
<1>4. CASE \E app \in Apps : Terminate(app)
  <2>1. PICK app \in Apps : Terminate(app)
    BY <1>4
  <2>2. UNCHANGED <<lastSeen, worker, held>>
    BY <2>1 DEF Terminate, workerVars
  <2>3. CASE Is(current, app)
    BY <2>1, <2>2, <2>3, ChainTransition DEF Terminate
  <2>4. CASE ~Is(current, app)
    BY <2>1, <2>2, <2>4, ChainUnchanged DEF Terminate
  <2> QED BY <2>3, <2>4
<1> QED BY <1>1, <1>2, <1>3, <1>4

LEMMA ChainNext == Chain /\ [Next]_vars => Chain'
<1> SUFFICES ASSUME Chain, [Next]_vars PROVE Chain'
  OBVIOUS
<1>1. CASE Receive
  BY <1>1, ChainTake, ChainRecover, ChainRemember DEF Receive
<1>2. CASE UNCHANGED vars
  BY <1>2, ChainUnchanged DEF vars, workerVars
<1> QED BY <1>1, <1>2, ChainWorker, ChainWriter DEF Next

LEMMA ChainAlways == Spec => []Chain
  BY ChainInit, ChainNext, PTL DEF Spec

\* The chain from what the reader returned last to the focus in force has no hole, or the
\* reader will be told so, whatever the capacity of its queue.
THEOREM ChainHolds == Spec => []ChainToCurrent
<1>1. Chain => ChainToCurrent
  <2> SUFFICES ASSUME Chain, ~missed PROVE ChainToCurrent
    BY DEF ChainToCurrent
  <2>1. CASE worker # "taken"
    BY <2>1 DEF Chain, Typed, Linked, Last, ChainToCurrent, Pending
  <2>2. CASE worker = "taken"
    <3>1. /\ Pending \in Seq(Transitions) /\ Len(Pending) = Len(queue) + 1
          /\ Pending[1] = held
          /\ \A i \in 1 .. Len(queue) : Pending[i + 1] = queue[i]
      BY <2>2 DEF Chain, Typed, Pending
    <3>2. Pending # <<>> /\ Pending[1].previous = lastSeen
      BY <2>2, <3>1 DEF Chain, Typed, Linked
    <3>3. Pending[Len(Pending)].current = current
      BY <2>2, <3>1 DEF Chain, Typed, Linked, Last
    <3>4. \A i \in 1 .. Len(Pending) - 1 : Pending[i].current = Pending[i + 1].previous
      <4> SUFFICES ASSUME NEW i \in 1 .. Len(queue)
                   PROVE  Pending[i].current = Pending[i + 1].previous
        BY <3>1 DEF Chain, Typed
      <4>1. CASE i = 1
        BY <2>2, <3>1, <4>1 DEF Chain, Typed, Linked, Last
      <4>2. CASE i # 1
        <5>1. i - 1 \in 1 .. Len(queue) - 1 /\ (i - 1) + 1 = i
          BY <4>2 DEF Chain, Typed
        <5>2. queue[i - 1].current = queue[i].previous
          BY <5>1 DEF Chain, Linked
        <5>3. Pending[i] = queue[i - 1] /\ Pending[i + 1] = queue[i]
          BY <3>1, <5>1
        <5> QED BY <5>2, <5>3
      <4> QED BY <4>1, <4>2
    <3> QED BY <3>2, <3>3, <3>4 DEF ChainToCurrent
  <2> QED BY <2>1, <2>2
<1> QED BY <1>1, ChainAlways, PTL

\* Whatever is dropped, each transition the reader returns begins where the last one ended
\* and leads to a newer focus.
THEOREM HeardHolds == Spec => HeardWithoutHoles
<1>1. Chain /\ [Next]_vars
        => [lastSeen' # lastSeen => /\ held'.previous = lastSeen
                                    /\ held'.current = lastSeen'
                                    /\ lastSeen'.gen > lastSeen.gen]_vars
  <2> SUFFICES ASSUME Chain, Next, lastSeen' # lastSeen
               PROVE  /\ held'.previous = lastSeen
                      /\ held'.current = lastSeen'
                      /\ lastSeen'.gen > lastSeen.gen
    OBVIOUS
  <2>1. Recover \/ Remember
    BY DEF Next, Focus, Wake, Quit, Terminate, PageLoaded, Demand, Start, Die, Receive, Take,
           Handle, Serve, Query, Publish, workerVars
  <2>2. CASE Recover
    BY <2>2 DEF Recover, Chain, Typed, Ordered, Snapshots
  <2>3. CASE Remember
    BY <2>3 DEF Remember, Chain, Typed, Ordered, Linked, Newer, Snapshots, Transitions
  <2> QED BY <2>1, <2>2, <2>3
<1> QED BY <1>1, ChainAlways, PTL DEF Spec, HeardWithoutHoles

-----------------------------------------------------------------------------
(* What is left of the records once a wake has been heard of.              *)

\* A question is a record that carries a generation.
Asked == query = [kind |-> query.kind, app |-> query.app, window |-> query.window,
                  gen |-> query.gen, answer |-> query.answer]

\* Changes of focus are numbered without gaps, and the one that made the last wake is
\* announced as a new beginning.
Announces(t, w) == t.current.gen = t.previous.gen + 1 /\ (t.current.gen = w => t.resynced = TRUE)
Announced ==
  /\ \A i \in 1 .. Len(queue) : Announces(queue[i], woke)
  /\ worker = "taken" => Announces(held, woke)

\* What the worker knows is not newer than the question it has open, a new worker knows
\* no record, and what it handles is what it has heard last.
Behind ==
  /\ woke \in Nat /\ woke <= generation /\ seen \in Nat /\ seen <= generation
  /\ held.current.gen <= generation
  /\ worker = "down" => confirmed = {}
  /\ worker = "handling" => held.current = lastSeen \/ confirmed = {}
  /\ worker \in {"asking", "querying"} => Asked
  /\ worker = "querying" => /\ query.gen \in Nat /\ query.answer \in Answers
                            /\ lastSeen.gen <= query.gen /\ seen <= query.gen
  /\ \A r \in confirmed : r.at \in Nat

\* A record from before the last wake is there only while the wake has not been heard of,
\* or has just been returned.
Outlived ==
  \A r \in confirmed :
    r.at < woke => /\ seen < woke
                   /\ lastSeen.gen < woke \/ (worker = "handling" /\ held.resynced)

Wakeful == Chain /\ Announced /\ Behind /\ Outlived

LEMMA WakefulInit == Init => Wakeful
<1> SUFFICES ASSUME Init PROVE Wakeful
  OBVIOUS
<1>1. Announced
  BY DEF Init, Announced
<1>2. Behind
  BY DEF Init, Behind, Nothing, Nowhere
<1>3. Outlived
  BY DEF Init, Outlived
<1> QED BY <1>1, <1>2, <1>3, ChainInit DEF Wakeful

\* A change of focus gets the next number; it wakes the reader exactly if it is forced.
LEMMA WakefulTransition ==
  ASSUME Wakeful, NEW view \in Views \union {NoView}, NEW force \in BOOLEAN,
         TransitionTo(view, force), UNCHANGED workerVars,
         woke' = IF force THEN generation' ELSE woke
  PROVE  Wakeful'
<1>1. Chain'
  BY ChainTransition DEF Wakeful, workerVars
<1>2. /\ generation \in Nat /\ generation' = generation + 1 /\ current'.gen = generation + 1
      /\ current.gen = generation /\ current' \in Snapshots /\ current \in Snapshots
  BY DEF Wakeful, Chain, Typed, TransitionTo, Snapshots
<1>3. PICK t \in Transitions : /\ t = [previous |-> current, current |-> current', resynced |-> force]
                             /\ Offer(t)
  BY <1>2 DEF TransitionTo, Transitions
<1>4. t.previous.gen = generation /\ t.current.gen = generation + 1 /\ t.resynced = force
  BY <1>2, <1>3
<1>5. woke \in Nat /\ woke <= generation /\ woke' \in Nat /\ woke' <= generation'
      /\ (woke' = woke \/ (force /\ woke' = generation + 1))
  BY <1>2 DEF Wakeful, Behind
<1>6. ASSUME NEW x \in Transitions, Announces(x, woke), x.current.gen <= generation
      PROVE  Announces(x, woke')
  <2>1. x.current.gen \in Nat
    BY DEF Transitions, Snapshots
  <2>2. x.current.gen = woke' => woke' = woke
    BY <1>2, <1>5, <1>6, <2>1
  <2>3. QED
    BY <1>6, <2>2 DEF Announces
<1>7. Announces(t, woke')
  BY <1>2, <1>4, <1>5 DEF Announces
<1>8. \A j \in 1 .. Len(queue) : queue[j] \in Transitions /\ Announces(queue[j], woke')
  <2> SUFFICES ASSUME NEW j \in 1 .. Len(queue)
               PROVE  queue[j] \in Transitions /\ Announces(queue[j], woke')
    OBVIOUS
  <2>1. queue[j] \in Transitions /\ Announces(queue[j], woke) /\ queue[j].current.gen <= generation
    BY DEF Wakeful, Chain, Typed, Ordered, Newer, Announced
  <2>2. QED
    BY <1>6, <2>1
<1>9. worker = "taken" => Announces(held, woke')
  <2>1. worker = "taken" => /\ held \in Transitions /\ Announces(held, woke)
                            /\ held.current.gen <= generation
    BY DEF Wakeful, Chain, Typed, Ordered, Newer, Announced
  <2>2. QED
    BY <1>6, <2>1
<1>10. Announced'
  <2>1. CASE queue' = queue
    BY <1>8, <1>9, <2>1 DEF Announced, workerVars
  <2>2. CASE queue' = Append(queue, t)
    <3>1. \A j \in 1 .. Len(queue') : queue'[j] = IF j <= Len(queue) THEN queue[j] ELSE t
      BY <1>3, <2>2 DEF Wakeful, Chain, Typed
    <3>2. \A j \in 1 .. Len(queue') : j <= Len(queue) => j \in 1 .. Len(queue)
      BY <2>2 DEF Wakeful, Chain, Typed
    <3>3. \A j \in 1 .. Len(queue') : Announces(queue'[j], woke')
      BY <1>7, <1>8, <3>1, <3>2
    <3>4. QED
      BY <1>9, <3>3 DEF Announced, workerVars
  <2>3. QED
    BY <1>3, <2>1, <2>2 DEF Offer
<1>11. Behind'
  <2>1. /\ seen \in Nat /\ seen <= generation' /\ held.current.gen <= generation'
    <3>1. held.current.gen \in Nat
      BY Generations DEF Wakeful, Chain
    <3>2. QED
      BY <1>2, <3>1 DEF Wakeful, Behind
  <2>2. QED
    BY <1>5, <2>1 DEF Wakeful, Behind, Asked, workerVars, stateVars
<1>12. Outlived'
  <2>1. CASE woke' = woke
    BY <2>1 DEF Wakeful, Outlived, workerVars, stateVars
  <2>2. CASE woke' = generation + 1
    <3>1. seen < woke' /\ lastSeen.gen < woke'
      <4>1. lastSeen.gen \in Nat /\ lastSeen.gen <= generation
        BY Generations DEF Wakeful, Chain, Ordered
      <4>2. QED
        BY <1>2, <2>2, <4>1 DEF Wakeful, Behind
    <3>2. QED
      BY <3>1 DEF Outlived, workerVars, stateVars
  <2>3. QED
    BY <1>5, <2>1, <2>2
<1> QED BY <1>1, <1>10, <1>11, <1>12 DEF Wakeful

\* Nothing that matters here happens.
LEMMA WakefulUnchanged ==
  ASSUME Wakeful, UNCHANGED <<focusVars, lastSeen, worker, held, query, seen, confirmed, woke>>
  PROVE  Wakeful'
<1>1. Chain'
  BY ChainUnchanged DEF Wakeful
<1>2. Announced' /\ Outlived'
  BY DEF Wakeful, Announced, Outlived, focusVars
<1>3. Behind'
  BY DEF Wakeful, Behind, Asked, focusVars
<1> QED BY <1>1, <1>2, <1>3 DEF Wakeful

LEMMA WakefulWriter ==
  ASSUME Wakeful, \/ \E view \in Views : Focus(view)
                  \/ \E view \in Views \union {NoView} : Wake(view)
                  \/ \E app \in Apps : Quit(app) \/ Terminate(app)
  PROVE  Wakeful'
<1>1. CASE \E view \in Views : Focus(view)
  BY <1>1, WakefulTransition DEF Focus, worldVars
<1>2. CASE \E view \in Views \union {NoView} : Wake(view)
  BY <1>2, WakefulTransition DEF Wake
<1>3. CASE \E app \in Apps : Quit(app)
  BY <1>3, WakefulUnchanged DEF Quit, workerVars, stateVars
<1>4. CASE \E app \in Apps : Terminate(app)
  <2>1. PICK app \in Apps : Terminate(app)
    BY <1>4
  <2>2. UNCHANGED workerVars /\ woke' = woke
    BY <2>1 DEF Terminate
  <2>3. CASE Is(current, app)
    BY <2>1, <2>2, <2>3, WakefulTransition DEF Terminate
  <2>4. CASE ~Is(current, app)
    BY <2>1, <2>2, <2>4, WakefulUnchanged DEF Terminate, workerVars, stateVars
  <2> QED BY <2>3, <2>4
<1> QED BY <1>1, <1>2, <1>3, <1>4

LEMMA WakefulTake ==
  ASSUME Wakeful, Take
  PROVE  Wakeful'
<1>1. /\ worker = "idle" /\ worker' = "taken" /\ queue # <<>>
      /\ held' = queue[1] /\ queue' = Tail(queue)
      /\ UNCHANGED <<generation, lastSeen, seen, confirmed, woke>>
  BY DEF Take, Wakeful, Chain, Typed, stateVars, worldVars
<1>2. /\ Len(queue') = Len(queue) - 1 /\ Len(queue) > 0 /\ Len(queue) \in Nat
      /\ \A i \in 1 .. Len(queue') : queue'[i] = queue[i + 1] /\ i + 1 \in 1 .. Len(queue)
      /\ 1 \in 1 .. Len(queue)
  BY <1>1 DEF Wakeful, Chain, Typed
<1>3. Chain'
  BY ChainTake DEF Wakeful
<1>4. Announced'
  BY <1>1, <1>2 DEF Wakeful, Announced
<1>5. Behind'
  <2>1. held'.current.gen <= generation'
    BY <1>1, <1>2 DEF Wakeful, Chain, Ordered, Newer
  <2>2. QED
    BY <1>1, <2>1 DEF Wakeful, Behind
<1>6. Outlived'
  BY <1>1 DEF Wakeful, Outlived
<1> QED BY <1>3, <1>4, <1>5, <1>6 DEF Wakeful

LEMMA WakefulRecover ==
  ASSUME Wakeful, Recover
  PROVE  Wakeful'
<1>1. /\ queue' = <<>> /\ lastSeen' = current /\ worker' = "handling"
      /\ held' = [previous |-> lastSeen, current |-> current, resynced |-> TRUE]
      /\ worker \in {"idle", "taken"} /\ UNCHANGED <<generation, seen, confirmed, woke>>
  BY DEF Recover, stateVars, worldVars
<1>2. Chain'
  BY ChainRecover DEF Wakeful
<1>3. Announced'
  BY <1>1 DEF Announced
<1>4. Behind'
  BY <1>1 DEF Wakeful, Chain, Typed, Behind
<1>5. Outlived'
  BY <1>1 DEF Wakeful, Outlived
<1> QED BY <1>2, <1>3, <1>4, <1>5 DEF Wakeful

\* The transition remembered is the next one: either before the wake, or the wake itself.
LEMMA WakefulRemember ==
  ASSUME Wakeful, Remember
  PROVE  Wakeful'
<1>1. /\ worker = "taken" /\ worker' = "handling" /\ ~missed /\ lastSeen' = held.current
      /\ UNCHANGED <<focusVars, held, seen, confirmed, woke>>
  BY DEF Remember, stateVars, worldVars
<1>2. Chain'
  BY ChainRemember DEF Wakeful
<1>3. held.current.gen = lastSeen.gen + 1 /\ (held.current.gen = woke => held.resynced = TRUE)
  <2>1. held.previous = lastSeen
    BY <1>1 DEF Wakeful, Chain, Linked
  <2>2. Announces(held, woke)
    BY <1>1 DEF Wakeful, Announced
  <2>3. QED
    BY <2>1, <2>2 DEF Announces
<1>4. Announced'
  BY <1>1 DEF Wakeful, Announced, focusVars
<1>5. Behind'
  BY <1>1 DEF Wakeful, Behind, focusVars
<1>6. Outlived'
  <2> SUFFICES ASSUME NEW r \in confirmed, r.at < woke
               PROVE  seen < woke /\ (held.current.gen < woke \/ held.resynced)
    BY <1>1 DEF Outlived
  <2>1. seen < woke /\ lastSeen.gen < woke
    BY <1>1 DEF Wakeful, Outlived
  <2>2. lastSeen.gen \in Nat /\ woke \in Nat
    BY Generations DEF Wakeful, Chain, Behind
  <2>3. held.current.gen < woke \/ held.current.gen = woke
    BY <1>3, <2>1, <2>2
  <2>4. QED
    BY <1>3, <2>1, <2>3
<1> QED BY <1>2, <1>4, <1>5, <1>6 DEF Wakeful

\* The worker, outside the receiver.
LEMMA WakefulAside ==
  ASSUME Wakeful, UNCHANGED <<focusVars, lastSeen, worldVars>>, worker' # "taken",
         Chain', Behind', Outlived'
  PROVE  Wakeful'
BY DEF Wakeful, Announced, focusVars, worldVars

LEMMA WakefulStart ==
  ASSUME Wakeful, Start
  PROVE  Wakeful'
<1>1. Chain'
  BY ChainWorker DEF Wakeful
<1>2. confirmed = {} /\ UNCHANGED <<focusVars, lastSeen, query, stateVars, worldVars>>
      /\ worker' \in {"idle", "handling"}
  BY DEF Start, Wakeful, Behind
<1>3. held' \in {Nothing, [Nothing EXCEPT !.current = current]}
  BY DEF Start
<1>4. held'.current.gen <= generation
  BY <1>3 DEF Nothing, Nowhere, Wakeful, Chain, Typed
<1>5. Behind'
  BY <1>2, <1>4 DEF Wakeful, Behind, stateVars, focusVars, worldVars
<1>6. Outlived'
  BY <1>2 DEF Outlived, stateVars
<1> QED BY <1>1, <1>2, <1>5, <1>6, WakefulAside

LEMMA WakefulDie ==
  ASSUME Wakeful, Die
  PROVE  Wakeful'
<1>1. Chain'
  BY ChainWorker DEF Wakeful
<1>2. /\ confirmed' = {} /\ seen' = 0 /\ held' = Nothing /\ worker' = "down"
      /\ UNCHANGED <<focusVars, lastSeen, woke>>
  BY DEF Die, NoState
<1>3. Behind'
  BY <1>2 DEF Wakeful, Chain, Typed, Behind, Nothing, Nowhere, focusVars
<1>4. Outlived'
  BY <1>2 DEF Outlived
<1>5. Announced'
  BY <1>2 DEF Wakeful, Announced, focusVars
<1> QED BY <1>1, <1>3, <1>4, <1>5 DEF Wakeful

\* Handling a new beginning lets go of every record; any other transition is one the
\* worker has heard of by now.
LEMMA WakefulHandle ==
  ASSUME Wakeful, Handle
  PROVE  Wakeful'
<1>1. Chain'
  BY ChainWorker DEF Wakeful
<1>2. /\ worker = "handling" /\ held' = Nothing
      /\ UNCHANGED <<focusVars, lastSeen, worldVars>>
      /\ lastSeen.gen \in Nat /\ held.current.gen \in Nat /\ generation \in Nat
      /\ seen \in Nat /\ seen <= generation /\ held.current.gen <= generation
      /\ woke \in Nat /\ woke <= generation
  BY Generations DEF Handle, Wakeful, Chain, Typed, Behind
<1>3. \A r \in confirmed : held.current.gen = lastSeen.gen
  BY <1>2 DEF Wakeful, Behind
<1>4. Nothing.current.gen <= generation
  BY <1>2 DEF Nothing, Nowhere
<1>5. CASE HandleStale
  <2>1. worker' = "idle" /\ seen' = seen /\ confirmed' = confirmed /\ held.current.gen <= seen
    BY <1>5 DEF HandleStale, Stale, Back, stateVars
  <2>2. Behind'
    BY <1>2, <1>4, <2>1 DEF Wakeful, Behind, focusVars, worldVars
  <2>3. Outlived'
    <3> SUFFICES ASSUME NEW r \in confirmed, r.at < woke
                 PROVE  seen < woke /\ lastSeen.gen < woke
      BY <1>2, <2>1 DEF Outlived, worldVars
    <3>1. seen < woke
      BY DEF Wakeful, Outlived
    <3>2. QED
      BY <1>2, <1>3, <2>1, <3>1
  <2>4. QED
    BY <1>1, <1>2, <2>1, <2>2, <2>3, WakefulAside
<1>6. CASE HandleEnd
  <2>1. worker' = "idle" /\ seen' = seen /\ confirmed' \subseteq Kept
    BY <1>6 DEF HandleEnd, Back
  <2>2. Behind'
    <3>1. \A r \in confirmed' : r.at \in Nat
      BY <2>1 DEF Kept, Wakeful, Behind
    <3>2. QED
      BY <1>2, <1>4, <2>1, <3>1 DEF Wakeful, Behind, focusVars, worldVars
  <2>3. Outlived'
    <3> SUFFICES ASSUME NEW r \in Kept, r.at < woke
                 PROVE  seen < woke /\ lastSeen.gen < woke
      BY <1>2, <2>1 DEF Outlived, worldVars
    <3>1. r \in confirmed /\ ~held.resynced
      BY DEF Kept
    <3>2. QED
      BY <3>1 DEF Wakeful, Outlived
  <2>4. QED
    BY <1>1, <1>2, <2>1, <2>2, <2>3, WakefulAside
<1>7. CASE HandleFocus
  <2>1. /\ seen' = held.current.gen /\ confirmed' = Kept /\ worker' \in {"idle", "asking"}
        /\ (worker' = "asking" => Asked')
    BY <1>7 DEF HandleFocus, Back, Ask, Asked
  <2>2. Behind'
    <3>1. \A r \in confirmed' : r.at \in Nat
      BY <2>1 DEF Kept, Wakeful, Behind
    <3>2. QED
      BY <1>2, <1>4, <2>1, <3>1 DEF Wakeful, Behind, focusVars, worldVars
  <2>3. Outlived'
    <3> SUFFICES ASSUME NEW r \in Kept, r.at < woke
                 PROVE  held.current.gen < woke /\ lastSeen.gen < woke
      BY <1>2, <2>1 DEF Outlived, worldVars
    <3>1. r \in confirmed /\ ~held.resynced
      BY DEF Kept
    <3>2. lastSeen.gen < woke
      BY <3>1 DEF Wakeful, Outlived
    <3>3. QED
      BY <1>3, <3>1, <3>2
  <2>4. QED
    BY <1>1, <1>2, <2>1, <2>2, <2>3, WakefulAside
<1> QED BY <1>5, <1>6, <1>7 DEF Handle

LEMMA WakefulAsk ==
  ASSUME Wakeful, \/ \E app \in Apps : PageLoaded(app)
                  \/ Serve
                  \/ \E view \in Demanded : Demand(AppOf[view], WindowOf[view])
  PROVE  Wakeful'
<1>1. Chain'
  BY ChainWorker DEF Wakeful
<1>2. /\ worker = "idle" /\ worker' \in {"idle", "asking"} /\ (worker' = "asking" => Asked')
      /\ UNCHANGED <<focusVars, lastSeen, held, seen, confirmed, worldVars>>
  <2>1. CASE \E app \in Apps : PageLoaded(app)
    BY <2>1 DEF PageLoaded, Ask, Asked, stateVars
  <2>2. CASE \E view \in Demanded : Demand(AppOf[view], WindowOf[view])
    BY <2>2 DEF Demand
  <2>3. CASE Serve
    <3>1. CASE Head(onDemand).app \in apps
      BY <2>3, <3>1 DEF Serve, Ask, Asked
    <3>2. CASE Head(onDemand).app \notin apps
      BY <2>3, <3>2 DEF Serve
    <3>3. QED
      BY <3>1, <3>2
  <2>4. QED
    BY <2>1, <2>2, <2>3
<1>3. Behind'
  BY <1>2 DEF Wakeful, Behind, focusVars, worldVars
<1>4. Outlived'
  BY <1>2 DEF Wakeful, Outlived, worldVars
<1> QED BY <1>1, <1>2, <1>3, <1>4, WakefulAside

\* A question is put when the worker knows no more than what is in force.
LEMMA WakefulQuery ==
  ASSUME Wakeful, Query
  PROVE  Wakeful'
<1>1. Chain'
  BY ChainWorker DEF Wakeful
<1>2. /\ worker = "asking" /\ Asked
      /\ UNCHANGED <<focusVars, lastSeen, held, seen, confirmed, worldVars>>
  BY DEF Query, stateVars, Wakeful, Behind
<1>3. \/ worker' = "idle"
      \/ worker' = "querying" /\ Asked' /\ query'.gen = generation /\ query'.answer \in Answers
  <2>1. CASE Back
    BY <2>1 DEF Back
  <2>2. CASE ~Back
    <3>1. worker' = "querying" /\ \E answer \in Answers :
                                    query' = [query EXCEPT !.gen = generation, !.answer = answer]
      BY <2>2 DEF Query
    <3>2. PICK answer \in Answers : query' = [query EXCEPT !.gen = generation, !.answer = answer]
      BY <3>1
    <3>3. query' = [kind |-> query.kind, app |-> query.app, window |-> query.window,
                    gen |-> generation, answer |-> answer]
      BY <1>2, <3>2 DEF Asked
    <3>4. QED
      BY <3>1, <3>3 DEF Asked
  <2>3. QED
    BY <2>1, <2>2
<1>4. Behind'
  BY <1>2, <1>3 DEF Wakeful, Chain, Typed, Ordered, Behind, focusVars, worldVars
<1>5. Outlived'
  BY <1>2 DEF Wakeful, Outlived, worldVars
<1> QED BY <1>1, <1>2, <1>3, <1>4, <1>5, WakefulAside

\* An answer from before the wake is recorded only while the wake has not been heard of.
LEMMA WakefulPublish ==
  ASSUME Wakeful, Publish
  PROVE  Wakeful'
<1>1. Chain'
  BY ChainWorker DEF Wakeful
<1> DEFINE fresh == [app |-> query.app, window |-> query.window, at |-> query.gen]
<1>2. /\ worker = "querying" /\ worker' = "idle"
      /\ UNCHANGED <<focusVars, lastSeen, held, seen, worldVars>>
      /\ query.gen \in Nat /\ lastSeen.gen <= query.gen /\ seen <= query.gen
  BY DEF Publish, Back, Wakeful, Behind
<1>3. confirmed' \subseteq confirmed \union {fresh}
  <2>1. query.answer \in Answers
    BY <1>2 DEF Wakeful, Behind
  <2>2. CASE query.answer = "outdated"
    BY <2>2 DEF Publish
  <2>3. CASE query.answer # "outdated" /\ (~Attributed \/ query.answer = "no_page")
    BY <2>3 DEF Publish
  <2>4. CASE Attributed /\ query.answer = "page"
    BY <2>4 DEF Publish
  <2>5. CASE Attributed /\ query.answer = "failed"
    BY <2>5 DEF Publish
  <2>6. CASE Attributed /\ query.answer = "not_running"
    BY <2>6 DEF Publish
  <2>7. QED
    BY <2>1, <2>2, <2>3, <2>4, <2>5, <2>6 DEF Answers
<1>4. fresh.at = query.gen
  OBVIOUS
<1> HIDE DEF fresh
<1>5. Behind'
  <2>1. \A r \in confirmed' : r.at \in Nat
    BY <1>2, <1>3, <1>4 DEF Wakeful, Behind
  <2>2. QED
    BY <1>2, <2>1 DEF Wakeful, Behind, focusVars, worldVars
<1>6. Outlived'
  <2> SUFFICES ASSUME NEW r \in confirmed \union {fresh}, r.at < woke
               PROVE  seen < woke /\ lastSeen.gen < woke
    BY <1>2, <1>3 DEF Outlived, worldVars
  <2>1. CASE r \in confirmed
    BY <1>2, <2>1 DEF Wakeful, Outlived
  <2>2. CASE r = fresh
    <3>1. woke \in Nat /\ seen \in Nat /\ lastSeen.gen \in Nat
      BY Generations DEF Wakeful, Chain, Behind
    <3>2. QED
      BY <1>2, <1>4, <2>2, <3>1
  <2>3. QED
    BY <2>1, <2>2
<1> QED BY <1>1, <1>2, <1>5, <1>6, WakefulAside

LEMMA WakefulNext == Wakeful /\ [Next]_vars => Wakeful'
<1> SUFFICES ASSUME Wakeful, [Next]_vars PROVE Wakeful'
  OBVIOUS
<1>1. CASE Receive
  BY <1>1, WakefulTake, WakefulRecover, WakefulRemember DEF Receive
<1>2. CASE UNCHANGED vars
  BY <1>2, WakefulUnchanged DEF vars, workerVars, stateVars, worldVars
<1> QED BY <1>1, <1>2, WakefulWriter, WakefulStart, WakefulDie, WakefulHandle, WakefulAsk,
           WakefulQuery, WakefulPublish DEF Next

LEMMA WakefulAlways == Spec => []Wakeful
  BY WakefulInit, WakefulNext, PTL DEF Spec

\* Once the worker has heard of a wake and handled it, it keeps nothing it read before:
\* also when the wake was dropped from the queue, when the worker had died, and when a
\* question was open across it (chrome/worker.rs, focus_context.rs).
THEOREM WakesBound == Spec => []RecordsAfterWake
<1>1. Wakeful => RecordsAfterWake
  <2> SUFFICES ASSUME Wakeful, worker # "handling", lastSeen.gen >= woke \/ seen >= woke,
                      NEW r \in confirmed
               PROVE  r.at >= woke
    BY DEF RecordsAfterWake
  <2>1. r.at \in Nat /\ woke \in Nat /\ lastSeen.gen \in Nat /\ seen \in Nat
    BY Generations DEF Wakeful, Chain, Behind
  <2>2. ~(r.at < woke)
    BY <2>1 DEF Wakeful, Outlived
  <2> QED BY <2>1, <2>2
<1> QED BY <1>1, WakefulAlways, PTL

-----------------------------------------------------------------------------
(* Which browser the worker takes for the one in front.                    *)

\* The snapshots there is a trace of; their numbers tell them apart.
Snaps == {Nowhere, current, lastSeen, frontmost, held.current, held.previous}
           \union {queue[i].previous : i \in 1 .. Len(queue)}
           \union {queue[i].current : i \in 1 .. Len(queue)}
Unique == /\ \A s \in Snaps : s \in Snapshots /\ s.gen <= generation
          /\ \A s, t \in Snaps : s.gen = t.gen => s = t

\* The browser in front, if there is one, is the focus handled last.
OfSeen ==
  /\ worker = "down" => seen = 0
  /\ frontmost # Nowhere => frontmost.gen = seen /\ IsBrowser(frontmost)
  /\ \A s \in Snaps : s.gen = seen /\ seen # 0 => s.view # NoView

\* What the worker handles is news, and an end of focus is what was heard last.
Handles ==
  worker = "handling" => /\ lastSeen.gen <= held.current.gen /\ held.previous.gen < held.current.gen
                         /\ held.current.view = NoView => held.current = lastSeen

\* The focus the worker is at: it has handled it or a newer one, or none at all; if that
\* was an end, nothing is in front.
Position == IF worker = "handling" THEN held.previous ELSE lastSeen
Reached ==
  /\ Position.view # NoView => Position.gen <= seen \/ seen = 0
  /\ seen < Position.gen /\ ~overrun => frontmost = Nowhere
  /\ worker \notin {"down", "handling"} /\ seen = 0 /\ current.view # NoView => lastSeen # current

\* A focus in force that was handled is in front.
Fits == current.gen = seen /\ seen # 0 /\ ~overrun
          => frontmost = InForce \/ \E app \in dead : Is(current, app)
Ended == worker = "querying" /\ query.answer = "not_running" => query.app \in dead

Fronted == Unique /\ OfSeen /\ Handles /\ Reached /\ Fits /\ Ended

LEMMA FrontedInit == Init => Fronted
<1> SUFFICES ASSUME Init PROVE Fronted
  OBVIOUS
<1>1. Nowhere \in Snapshots /\ Nowhere.gen = 0 /\ Nowhere.view = NoView
  BY DEF Nowhere, Snapshots
<1>2. held.current = Nowhere /\ held.previous = Nowhere
  BY DEF Init, Nothing
<1>3. Snaps = {Nowhere}
  BY <1>2 DEF Init, Snaps
<1> QED BY <1>1, <1>2, <1>3 DEF Init, Fronted, Unique, OfSeen, Handles, Position, Reached, Fits, Ended

\* What is known of the numbers.
LEMMA Numbered ==
  ASSUME Wakeful, Fronted
  PROVE  /\ generation \in Nat /\ seen \in Nat /\ seen <= generation /\ current.gen = generation
         /\ {Nowhere, current, lastSeen, frontmost, held.current, held.previous} \subseteq Snaps
         /\ \A s \in Snaps : s \in Snapshots /\ s.gen \in Nat /\ s.view \in Views \union {NoView}
                             /\ s.gen <= generation
         /\ Nowhere.gen = 0 /\ Nowhere.view = NoView
         /\ held \in Transitions /\ queue \in Seq(Transitions)
BY DEF Wakeful, Chain, Typed, Behind, Fronted, Unique, Snaps, Snapshots, Nowhere

\* No snapshot appears but a new one.
LEMMA UniqueStays ==
  ASSUME Wakeful, Fronted, UNCHANGED <<generation, current>>, Snaps' \subseteq Snaps
  PROVE  Unique'
BY DEF Fronted, Unique

\* Neither the focus nor what the worker has handled of it changes.
LEMMA FrontedAside ==
  ASSUME Wakeful, Fronted, UNCHANGED <<focusVars, lastSeen, held, frontmost, seen, overrun>>,
         dead \subseteq dead',
         worker' = worker \/ {worker, worker'} \subseteq {"idle", "asking", "querying"},
         worker' = "querying" /\ query'.answer = "not_running" => query'.app \in dead'
  PROVE  Fronted'
<1>1. Snaps' = Snaps /\ Position' = Position
  BY DEF Snaps, Position, focusVars
<1>2. Unique'
  BY <1>1, UniqueStays DEF focusVars
<1>3. OfSeen' /\ Handles'
  BY <1>1 DEF Fronted, OfSeen, Handles, IsBrowser
<1>4. Reached'
  BY <1>1 DEF Fronted, Reached, focusVars
<1>5. Fits' /\ Ended'
  BY DEF Fronted, Fits, Ended, focusVars, InForce, IsBrowser, Is
<1> QED BY <1>2, <1>3, <1>4, <1>5 DEF Fronted

LEMMA FrontedTransition ==
  ASSUME Wakeful, Fronted, NEW view \in Views \union {NoView}, NEW force \in BOOLEAN,
         TransitionTo(view, force), UNCHANGED workerVars, UNCHANGED dead
  PROVE  Fronted'
<1>1. /\ generation' = generation + 1 /\ current'.gen = generation + 1 /\ current' \in Snapshots
      /\ UNCHANGED <<lastSeen, worker, held, query, frontmost, seen, overrun>>
  BY Numbered DEF TransitionTo, Snapshots, workerVars, stateVars
<1>2. PICK t \in Transitions : t.previous = current /\ t.current = current' /\ Offer(t)
  <2>1. current \in Snapshots
    BY Numbered
  <2> QED BY <1>1, <2>1 DEF TransitionTo, Transitions
<1>3. Snaps' \subseteq Snaps \union {current'}
  <2>1. queue' = queue \/ queue' = Append(queue, t)
    BY <1>2 DEF Offer
  <2>2. CASE queue' = queue
    BY <1>1, <2>2 DEF Snaps
  <2>3. CASE queue' = Append(queue, t)
    <3>1. /\ Len(queue') = Len(queue) + 1 /\ Len(queue) \in Nat
          /\ \A j \in 1 .. Len(queue') : queue'[j] = IF j <= Len(queue) THEN queue[j] ELSE t
      BY <1>2, <2>3, Numbered
    <3>2. ASSUME NEW j \in 1 .. Len(queue')
          PROVE  {queue'[j].previous, queue'[j].current} \subseteq Snaps \union {current'}
      <4>1. CASE j <= Len(queue)
        BY <3>1, <4>1 DEF Snaps
      <4>2. CASE ~(j <= Len(queue))
        BY <1>2, <3>1, <4>2, Numbered
      <4> QED BY <4>1, <4>2
    <3> QED BY <1>1, <3>2 DEF Snaps
  <2> QED BY <2>1, <2>2, <2>3
<1>4. Unique'
  BY <1>1, <1>3, Numbered DEF Fronted, Unique
<1>5. OfSeen'
  BY <1>1, <1>3, Numbered DEF Fronted, OfSeen, IsBrowser
<1>6. Handles' /\ Ended'
  BY <1>1 DEF Fronted, Handles, Ended
<1>7. Reached'
  <2>1. Position' = Position
    BY <1>1 DEF Position
  <2>2. lastSeen # current'
    BY <1>1, Numbered
  <2> QED BY <1>1, <2>1, <2>2 DEF Fronted, Reached
<1>8. Fits'
  BY <1>1, Numbered DEF Fits
<1> QED BY <1>4, <1>5, <1>6, <1>7, <1>8 DEF Fronted

LEMMA FrontedTake ==
  ASSUME Wakeful, Fronted, Take
  PROVE  Fronted'
<1>1. /\ queue # <<>> /\ held' = queue[1] /\ worker = "idle" /\ worker' = "taken"
      /\ queue' = Tail(queue) /\ Len(queue) \in Nat \ {0}
      /\ UNCHANGED <<current, generation, lastSeen, query, frontmost, seen, overrun, dead>>
  BY Numbered DEF Take, stateVars, worldVars
<1>2. /\ Len(queue') = Len(queue) - 1
      /\ \A j \in 1 .. Len(queue') : queue'[j] = queue[j + 1] /\ j + 1 \in 1 .. Len(queue)
  BY <1>1, Numbered
<1>3. Snaps' \subseteq Snaps
  <2>1. {held'.previous, held'.current} \subseteq Snaps
    <3>1. 1 \in 1 .. Len(queue)
      BY <1>1
    <3> QED BY <1>1, <3>1 DEF Snaps
  <2>2. \A j \in 1 .. Len(queue') : {queue'[j].previous, queue'[j].current} \subseteq Snaps
    BY <1>2 DEF Snaps
  <2> QED BY <1>1, <2>1, <2>2 DEF Snaps
<1>4. Unique'
  BY <1>1, <1>3, UniqueStays
<1>5. OfSeen' /\ Handles' /\ Ended' /\ Fits'
  BY <1>1, <1>3 DEF Fronted, OfSeen, Handles, Ended, Fits, IsBrowser, InForce, Is
<1>6. Reached'
  BY <1>1 DEF Fronted, Reached, Position
<1> QED BY <1>4, <1>5, <1>6 DEF Fronted

\* The receiver returns a transition from what it returned last.
LEMMA FrontedReturn ==
  ASSUME Wakeful, Fronted, Recover \/ Remember
  PROVE  Fronted'
<1>1. /\ worker \in {"idle", "taken"} /\ worker' = "handling"
      /\ held'.previous = lastSeen /\ held'.current = lastSeen' /\ lastSeen.gen < lastSeen'.gen
      /\ UNCHANGED <<current, generation, query, frontmost, seen, overrun, dead>>
  <2>1. CASE Recover
    BY <2>1 DEF Recover, Wakeful, Chain, Typed, Ordered, stateVars, worldVars
  <2>2. CASE Remember
    BY <2>2 DEF Remember, Wakeful, Chain, Linked, Ordered, Newer, focusVars, stateVars, worldVars
  <2> QED BY <2>1, <2>2
<1>2. Snaps' \subseteq Snaps
  <2>1. CASE Recover
    <3>1. held'.current = current /\ lastSeen' = current /\ queue' = <<>>
      BY <2>1 DEF Recover
    <3> QED BY <1>1, <3>1 DEF Snaps
  <2>2. CASE Remember
    <3>1. held' = held /\ lastSeen' = held.current /\ queue' = queue
      BY <2>2 DEF Remember, focusVars
    <3> QED BY <1>1, <3>1 DEF Snaps
  <2> QED BY <2>1, <2>2
<1>3. Unique'
  BY <1>1, <1>2, UniqueStays
<1>4. OfSeen' /\ Ended' /\ Fits'
  BY <1>1, <1>2 DEF Fronted, OfSeen, Ended, Fits, IsBrowser, InForce, Is
<1>5. Handles'
  <2>1. lastSeen'.gen \in Nat
    BY <1>1, <1>2, Numbered DEF Snaps
  <2> QED BY <1>1, <2>1 DEF Handles
<1>6. Reached'
  <2>1. Position' = lastSeen /\ Position = lastSeen
    BY <1>1 DEF Position
  <2> QED BY <1>1, <2>1 DEF Fronted, Reached
<1> QED BY <1>3, <1>4, <1>5, <1>6 DEF Fronted

LEMMA FrontedStart ==
  ASSUME Wakeful, Fronted, Start
  PROVE  Fronted'
<1>1. /\ worker = "down" /\ seen = 0
      /\ UNCHANGED <<focusVars, lastSeen, query, frontmost, seen, overrun, dead>>
  BY DEF Start, stateVars, worldVars, Fronted, OfSeen
<1>2. /\ held'.previous = Nowhere
      /\ \/ worker' = "idle" /\ current.view = NoView /\ held'.current = Nowhere
         \/ worker' = "handling" /\ current.view # NoView /\ held'.current = current
  BY DEF Start, Nothing
<1>3. Snaps' \subseteq Snaps
  BY <1>1, <1>2 DEF Snaps, focusVars
<1>4. Unique'
  BY <1>1, <1>3, UniqueStays DEF focusVars
<1>5. OfSeen' /\ Ended' /\ Fits'
  BY <1>1, <1>2, <1>3 DEF Fronted, OfSeen, Ended, Fits, IsBrowser
<1>6. frontmost = Nowhere
  BY <1>1, Numbered DEF Fronted, OfSeen, Unique
<1>7. Handles' /\ Reached'
  <2>1. CASE current.view = NoView
    BY <1>1, <1>2, <1>6, <2>1 DEF Handles, Reached, Position, focusVars
  <2>2. CASE current.view # NoView
    <3>1. current.gen > 0 /\ lastSeen.gen <= current.gen
      BY <2>2, Numbered DEF Fronted, Unique
    <3> QED BY <1>1, <1>2, <1>6, <2>2, <3>1, Numbered DEF Handles, Reached, Position, focusVars
  <2> QED BY <2>1, <2>2
<1> QED BY <1>4, <1>5, <1>7 DEF Fronted

LEMMA FrontedDie ==
  ASSUME Wakeful, Fronted, Die
  PROVE  Fronted'
<1>1. /\ worker' = "down" /\ held'.previous = Nowhere /\ held'.current = Nowhere
      /\ frontmost' = Nowhere /\ seen' = 0 /\ overrun' = FALSE
      /\ UNCHANGED <<focusVars, lastSeen>>
  BY DEF Die, NoState, Nothing
<1>2. Snaps' \subseteq Snaps
  BY <1>1 DEF Snaps, focusVars
<1>3. Unique'
  BY <1>1, <1>2, UniqueStays DEF focusVars
<1> QED BY <1>1, <1>3 DEF Fronted, OfSeen, Ended, Fits, Handles, Reached, Position

LEMMA FrontedHandle ==
  ASSUME Wakeful, Fronted, Handle
  PROVE  Fronted'
<1>1. /\ worker = "handling" /\ held'.previous = Nowhere /\ held'.current = Nowhere
      /\ UNCHANGED <<focusVars, lastSeen, dead>>
      /\ worker' \in {"idle", "asking"} /\ frontmost' \in {frontmost, Nowhere, held.current}
  BY DEF Handle, HandleStale, HandleEnd, HandleFocus, Nothing, worldVars, stateVars, Back, Ask,
         TerminateBrowser, LeaveFocus
<1>2. /\ held.previous.gen \in Nat /\ held.current.gen \in Nat /\ lastSeen.gen \in Nat
      /\ lastSeen.gen <= held.current.gen /\ held.previous.gen < held.current.gen
      /\ held.current.view = NoView => held.current = lastSeen
      /\ held.current.gen <= generation /\ current.gen = generation
      /\ held.current \in Snaps /\ held.previous \in Snaps /\ current \in Snaps /\ frontmost \in Snaps
  BY <1>1, Numbered DEF Fronted, Handles
<1>3. Snaps' \subseteq Snaps
  BY <1>1 DEF Snaps, focusVars
<1>4. Unique'
  BY <1>1, <1>3, UniqueStays DEF focusVars
<1>5. Handles' /\ Ended' /\ Position' = lastSeen
  BY <1>1 DEF Handles, Ended, Position
<1>6. CASE HandleStale
  <2>1. held.current.gen <= seen /\ UNCHANGED <<frontmost, seen, overrun>>
    BY <1>6 DEF HandleStale, Stale, stateVars
  <2>2. OfSeen' /\ Fits'
    BY <1>1, <1>3, <2>1 DEF Fronted, OfSeen, Fits, focusVars, IsBrowser, InForce, Is
  <2>3. Reached'
    BY <1>1, <1>2, <1>5, <2>1, Numbered DEF Reached
  <2> QED BY <1>4, <1>5, <2>2, <2>3 DEF Fronted
<1>7. CASE HandleEnd
  <2>1. /\ held.current.view = NoView /\ held.current = lastSeen /\ seen' = seen
        /\ overrun' = (\/ held.current.gen < seen
                       \/ IsBrowser(held.previous) /\ held.previous.gen < seen)
        /\ frontmost' \in {frontmost, Nowhere}
    BY <1>2, <1>7 DEF HandleEnd, TerminateBrowser, LeaveFocus
  <2>2. ~overrun' => seen < held.current.gen
    BY <1>2, <2>1, Numbered DEF Fronted, OfSeen
  <2>3. ~overrun' => frontmost' = Nowhere
    <3>1. CASE ~IsBrowser(held.previous)
      BY <1>7, <3>1 DEF HandleEnd, LeaveFocus
    <3>2. CASE IsBrowser(held.previous)
      <4> SUFFICES ASSUME ~overrun', frontmost # Nowhere
                   PROVE  frontmost' = Nowhere
        BY <2>1
      <4>1. held.previous.view # NoView /\ seen <= held.previous.gen
        BY <1>2, <2>1, <3>2, Numbered DEF IsBrowser
      <4>2. held.previous.gen <= seen \/ seen = 0
        BY <1>1, <4>1 DEF Fronted, Reached, Position
      <4>3. frontmost.gen = seen /\ seen # 0
        BY <1>2, Numbered DEF Fronted, OfSeen, Unique
      <4>4. held.previous = frontmost
        BY <1>2, <4>1, <4>2, <4>3, Numbered DEF Fronted, Unique
      <4> QED BY <1>7, <3>2, <4>1, <4>4 DEF HandleEnd, TerminateBrowser, LeaveFocus, Is
    <3> QED BY <3>1, <3>2
  <2>4. OfSeen'
    BY <1>1, <1>3, <2>1 DEF Fronted, OfSeen, IsBrowser
  <2>5. Reached'
    BY <1>1, <1>5, <2>1, <2>3 DEF Reached, focusVars
  <2>6. Fits'
    BY <1>1, <1>2, <2>1, <2>2, Numbered DEF Fits, focusVars
  <2> QED BY <1>4, <1>5, <2>4, <2>5, <2>6 DEF Fronted
<1>8. CASE HandleFocus
  <2>1. /\ held.current.view # NoView /\ seen' = held.current.gen /\ seen' # 0
        /\ overrun' = FALSE
        /\ frontmost' = IF IsBrowser(held.current) THEN held.current ELSE Nowhere
    BY <1>2, <1>8 DEF HandleFocus, LeaveFocus
  <2>2. OfSeen'
    <3>1. ASSUME NEW s \in Snaps, s.gen = held.current.gen
          PROVE  s.view # NoView
      BY <1>2, <2>1, <3>1 DEF Fronted, Unique
    <3> QED BY <1>1, <1>3, <2>1, <3>1 DEF OfSeen, IsBrowser
  <2>3. Reached'
    BY <1>1, <1>2, <1>5, <2>1 DEF Reached, focusVars
  <2>4. Fits'
    <3>1. current.gen = held.current.gen => current = held.current
      BY <1>2 DEF Fronted, Unique
    <3> QED BY <1>1, <2>1, <3>1 DEF Fits, focusVars, InForce, IsBrowser
  <2> QED BY <1>4, <1>5, <2>2, <2>3, <2>4 DEF Fronted
<1> QED BY <1>6, <1>7, <1>8 DEF Handle

\* A browser that is not running any more is let go of.
LEMMA FrontedPublish ==
  ASSUME Wakeful, Fronted, Publish
  PROVE  Fronted'
<1>1. /\ worker = "querying" /\ worker' = "idle"
      /\ UNCHANGED <<focusVars, lastSeen, held, seen, overrun, dead>>
  BY DEF Publish, Back, worldVars
<1>2. \/ frontmost' = frontmost
      \/ /\ frontmost' = Nowhere /\ query.answer = "not_running"
         /\ frontmost # Nowhere /\ Is(frontmost, query.app)
  <2>1. query.answer \in Answers
    BY <1>1 DEF Wakeful, Behind
  <2>2. CASE query.answer = "outdated"
    BY <2>2 DEF Publish
  <2>3. CASE query.answer # "outdated" /\ (~Attributed \/ query.answer = "no_page")
    BY <2>3 DEF Publish
  <2>4. CASE Attributed /\ query.answer = "page"
    BY <2>4 DEF Publish
  <2>5. CASE Attributed /\ query.answer = "failed"
    BY <2>5 DEF Publish
  <2>6. CASE Attributed /\ query.answer = "not_running"
    BY <2>6 DEF Publish, TerminateBrowser, LeaveFocus, Is, Nowhere
  <2> QED BY <2>1, <2>2, <2>3, <2>4, <2>5, <2>6 DEF Answers
<1>3. CASE frontmost' = frontmost
  BY <1>1, <1>3, FrontedAside
<1>4. CASE /\ frontmost' = Nowhere /\ query.answer = "not_running"
           /\ frontmost # Nowhere /\ Is(frontmost, query.app)
  <2>1. Snaps' \subseteq Snaps /\ Position' = Position
    BY <1>1, <1>4 DEF Snaps, focusVars, Position
  <2>2. Unique'
    BY <1>1, <2>1, UniqueStays DEF focusVars
  <2>3. OfSeen' /\ Handles' /\ Ended' /\ Reached'
    BY <1>1, <1>4, <2>1 DEF Fronted, OfSeen, Handles, Ended, Reached, focusVars
  <2>4. query.app \in dead /\ frontmost.gen = seen
    BY <1>1, <1>4 DEF Fronted, Ended, OfSeen
  <2>5. current.gen = seen => Is(current, query.app)
    BY <1>4, <2>4, Numbered DEF Fronted, Unique
  <2>6. Fits'
    BY <1>1, <2>4, <2>5 DEF Fits, focusVars, Is
  <2> QED BY <2>2, <2>3, <2>6 DEF Fronted
<1> QED BY <1>2, <1>3, <1>4

\* The worker asks; it is told that a browser does not run only when it has ended.
LEMMA FrontedAsk ==
  ASSUME Wakeful, Fronted, \/ \E app \in Apps : PageLoaded(app)
                           \/ Serve \/ Query
                           \/ \E view \in Demanded : Demand(AppOf[view], WindowOf[view])
  PROVE  Fronted'
<1>1. CASE Query
  <2>1. /\ worker = "asking" /\ Asked /\ UNCHANGED <<focusVars, lastSeen, held, stateVars, worldVars>>
    BY <1>1 DEF Query, Wakeful, Behind
  <2>2. CASE worker' = "idle"
    BY <2>1, <2>2, FrontedAside DEF stateVars, worldVars
  <2>3. CASE /\ worker' = "querying"
             /\ \E answer \in Answers :
                  /\ answer = "not_running" <=> query.app \in dead /\ answer # "outdated"
                  /\ query' = [query EXCEPT !.gen = generation, !.answer = answer]
    <3>1. PICK answer \in Answers :
            /\ answer = "not_running" <=> query.app \in dead /\ answer # "outdated"
            /\ query' = [query EXCEPT !.gen = generation, !.answer = answer]
      BY <2>3
    <3>2. query' = [kind |-> query.kind, app |-> query.app, window |-> query.window,
                    gen |-> generation, answer |-> answer]
      BY <2>1, <3>1 DEF Asked
    <3>3. query'.answer = answer /\ query'.app = query.app
      BY <3>2
    <3> QED BY <2>1, <2>3, <3>1, <3>3, FrontedAside DEF stateVars, worldVars
  <2> QED BY <1>1, <2>2, <2>3 DEF Query, Back
<1>2. CASE ~Query
  <2>1. /\ worker = "idle" /\ worker' \in {"idle", "asking"}
        /\ UNCHANGED <<focusVars, lastSeen, held, frontmost, seen, overrun, dead>>
    BY <1>2 DEF PageLoaded, Ask, Serve, Demand, stateVars, worldVars
  <2> QED BY <2>1, FrontedAside
<1> QED BY <1>1, <1>2

LEMMA FrontedWriter ==
  ASSUME Wakeful, Fronted, \/ \E view \in Views : Focus(view)
                           \/ \E view \in Views \union {NoView} : Wake(view)
                           \/ \E app \in Apps : Quit(app) \/ Terminate(app)
  PROVE  Fronted'
<1>1. CASE \E view \in Views : Focus(view)
  BY <1>1, FrontedTransition DEF Focus, worldVars
<1>2. CASE \E view \in Views \union {NoView} : Wake(view)
  BY <1>2, FrontedTransition DEF Wake
<1>3. CASE \E app \in Apps : Quit(app)
  BY <1>3, FrontedAside DEF Quit, workerVars, stateVars, Fronted, Ended
<1>4. CASE \E app \in Apps : Terminate(app)
  <2>1. UNCHANGED workerVars /\ UNCHANGED dead
    BY <1>4 DEF Terminate
  <2>2. TransitionTo(NoView, FALSE) \/ UNCHANGED focusVars
    BY <1>4 DEF Terminate
  <2>3. CASE TransitionTo(NoView, FALSE)
    BY <2>1, <2>3, FrontedTransition
  <2>4. CASE UNCHANGED focusVars
    BY <2>1, <2>4, FrontedAside DEF workerVars, stateVars, Fronted, Ended
  <2> QED BY <2>2, <2>3, <2>4
<1> QED BY <1>1, <1>2, <1>3, <1>4

LEMMA FrontedNext == Wakeful /\ Fronted /\ [Next]_vars => Fronted'
<1> SUFFICES ASSUME Wakeful, Fronted, [Next]_vars PROVE Fronted'
  OBVIOUS
<1>1. CASE UNCHANGED vars
  BY <1>1, FrontedAside DEF vars, workerVars, stateVars, worldVars, Fronted, Ended
<1>2. CASE Receive
  BY <1>2, FrontedTake, FrontedReturn DEF Receive
<1> QED BY <1>1, <1>2, FrontedWriter, FrontedStart, FrontedDie, FrontedHandle, FrontedPublish,
           FrontedAsk DEF Next

\* With nothing left to hear, the browser worker has in front what is in front, through
\* deaths of the worker and of browsers and whatever the queue dropped (chrome/worker.rs,
\* focus_context.rs).
THEOREM FrontFollows == Spec => []FrontFollowsFocus
<1>1. Wakeful /\ Fronted => FrontFollowsFocus
  <2> SUFFICES ASSUME Wakeful, Fronted, Settled, ~overrun
               PROVE  frontmost = InForce \/ \E app \in dead : Is(current, app)
    BY DEF FrontFollowsFocus
  <2>1. worker = "idle" /\ lastSeen = current /\ Position = current
    BY DEF Settled, Wakeful, Chain, Linked, Last, Position
  <2>2. CASE current.gen = seen /\ seen # 0
    BY <2>2 DEF Fronted, Fits
  <2>3. CASE seen = 0
    BY <2>1, <2>3, Numbered DEF Fronted, Reached, OfSeen, Unique, InForce, IsBrowser
  <2>4. CASE seen < current.gen /\ seen # 0
    BY <2>1, <2>4, Numbered DEF Fronted, Reached, InForce, IsBrowser
  <2> QED BY <2>2, <2>3, <2>4, Numbered
<1>2. Init => Wakeful /\ Fronted
  BY WakefulInit, FrontedInit
<1>3. Wakeful /\ Fronted /\ [Next]_vars => Wakeful' /\ Fronted'
  BY WakefulNext, FrontedNext
<1> QED BY <1>1, <1>2, <1>3, PTL DEF Spec
-----------------------------------------------------------------------------
(* Types, of what the other invariants leave open.                         *)

Requests == [app : Apps, window : Windows]
Shaped ==
  /\ generation <= MaxGeneration /\ Len(queue) <= Capacity /\ deaths \in 0 .. MaxDeaths
  /\ dead \subseteq Apps /\ unheard \subseteq dead
  /\ frontmost \in Snapshots /\ apps \subseteq Apps /\ overrun \in BOOLEAN
  /\ onDemand \in Seq(Requests)
  /\ confirmed \subseteq [app : Apps, window : Windows, at : Nat]
  /\ IF worker \in {"asking", "querying"} THEN query \in Queries
     ELSE worker \in {"down", "idle", "taken", "handling"} /\ query = NoQuery

\* What lies below k in a finite set of naturals counts it.
LEMMA BelowGrows ==
  ASSUME NEW I, I \subseteq Int, IsFiniteSet(I), NEW i \in I, NEW k \in I, i < k
  PROVE  Cardinality({j \in I : j < i}) < Cardinality({j \in I : j < k})
<1> DEFINE Lower == {j \in I : j < i}
           Upper == {j \in I : j < k}
<1>1. Lower \subseteq Upper /\ i \in Upper /\ i \notin Lower
  <2>1. i \in Int /\ k \in Int /\ \A j \in I : j \in Int
    OBVIOUS
  <2>2. \A j \in I : j < i => j < k
    BY <2>1
  <2>3. i < k /\ ~(i < i)
    BY <2>1
  <2> QED BY <2>2, <2>3
<1>2. IsFiniteSet(Upper)
  BY FS_Subset
<1> HIDE DEF Lower, Upper
<1>3. IsFiniteSet(Lower) /\ Cardinality(Lower) <= Cardinality(Upper)
      /\ Cardinality(Upper) # Cardinality(Lower)
  BY <1>1, <1>2, FS_Subset
<1>4. Cardinality(Lower) \in Nat /\ Cardinality(Upper) \in Nat
  BY <1>2, <1>3, FS_CardinalityType
<1> QED BY <1>3, <1>4 DEF Lower, Upper

LEMMA BelowCounts ==
  ASSUME NEW I, I \subseteq Int, IsFiniteSet(I), NEW i \in I
  PROVE  Cardinality({j \in I : j < i}) \in 0..Cardinality(I) - 1
<1> DEFINE Lower == {j \in I : j < i}
<1>1. Lower \subseteq I /\ i \notin Lower
  OBVIOUS
<1> HIDE DEF Lower
<1>2. IsFiniteSet(Lower) /\ Cardinality(Lower) <= Cardinality(I) /\ Cardinality(Lower) # Cardinality(I)
  BY <1>1, FS_Subset
<1>3. Cardinality(Lower) \in Nat /\ Cardinality(I) \in Nat
  BY <1>2, FS_CardinalityType
<1> QED BY <1>2, <1>3 DEF Lower

\* Each place of a finite set of naturals has a member.
LEMMA Placed ==
  ASSUME NEW I, I \subseteq Int, IsFiniteSet(I), NEW n \in 1..Cardinality(I)
  PROVE  \E i \in I : Cardinality({j \in I : j < i}) = n - 1
<1> DEFINE N == Cardinality(I)
           rank == [i \in I |-> Cardinality({j \in I : j < i})]
<1>1. N \in Nat
  BY FS_CardinalityType
<1>2. rank \in [I -> 0..N - 1]
  BY BelowCounts
<1>3. ASSUME NEW i \in I, NEW k \in I, rank[i] = rank[k]
      PROVE  i = k
  <2>1. rank[i] \in Int /\ rank[k] \in Int
    BY <1>1, <1>2
  <2>2. i < k => rank[i] < rank[k]
    BY BelowGrows
  <2>3. k < i => rank[k] < rank[i]
    BY BelowGrows
  <2>4. i \in Int /\ k \in Int
    OBVIOUS
  <2> HIDE DEF rank
  <2>5. ~(i < k) /\ ~(k < i)
    BY <1>3, <2>1, <2>2, <2>3
  <2> QED BY <2>4, <2>5
<1>4. /\ IsFiniteSet(0..N - 1) /\ Cardinality(0..N - 1) = N
      /\ n - 1 \in 0..N - 1
  <2>1. 0 \in Int /\ N - 1 \in Int /\ n \in 1..N
    BY <1>1
  <2>2. /\ IsFiniteSet(0..N - 1)
        /\ Cardinality(0..N - 1) = IF 0 > N - 1 THEN 0 ELSE (N - 1) - 0 + 1
    BY <2>1, FS_Interval
  <2> HIDE DEF N
  <2> QED BY <1>1, <2>1, <2>2
<1>5. SUFFICES ASSUME \A i \in I : rank[i] # n - 1
               PROVE  FALSE
  OBVIOUS
<1>6. rank \in [I -> (0..N - 1) \ {n - 1}]
  <2> HIDE DEF rank, N
  <2> QED BY <1>2, <1>5
<1>7. /\ IsFiniteSet((0..N - 1) \ {n - 1})
      /\ Cardinality((0..N - 1) \ {n - 1}) = N - 1
  <2> DEFINE T == 0..N - 1
             m == n - 1
  <2>1. IsFiniteSet(T) /\ Cardinality(T) = N /\ m \in T
    BY <1>4
  <2> HIDE DEF N, T, m
  <2>2. IsFiniteSet(T \ {m}) /\ Cardinality(T \ {m}) = N - 1
    BY <2>1, FS_RemoveElement
  <2> QED BY <2>2 DEF T, m
<1>8. \E i, k \in I : i # k /\ rank[i] = rank[k]
  <2>1. N - 1 < Cardinality(I)
    BY <1>1
  <2> HIDE DEF rank, N
  <2> QED BY <1>6, <1>7, <2>1, FS_PigeonHole
<1> QED BY <1>3, <1>8

LEMMA PlacesFinite ==
  ASSUME NEW S, NEW q \in Seq(S), NEW P, P \subseteq DOMAIN q
  PROVE  IsFiniteSet(P) /\ Cardinality(P) \in Nat /\ P \subseteq Int
<1>1. DOMAIN q = 1..Len(q) /\ Len(q) \in Nat
  OBVIOUS
<1>2. 1 \in Int /\ Len(q) \in Int
  BY <1>1
<1>3. IsFiniteSet(1..Len(q))
  BY <1>2, FS_Interval
<1> QED BY <1>1, <1>3, FS_Subset, FS_CardinalityType

\* What is picked of a queue is a queue of the same.
LEMMA PickedTyped ==
  ASSUME NEW S, NEW q \in Seq(S), NEW P, P \subseteq DOMAIN q
  PROVE  Picked(q, P) \in Seq(S)
<1> DEFINE Place(k) == CHOOSE i \in P : Cardinality({j \in P : j < i}) = k - 1
<1>1. IsFiniteSet(P) /\ Cardinality(P) \in Nat /\ P \subseteq Int
  BY PlacesFinite
<1>2. ASSUME NEW k \in 1..Cardinality(P)
      PROVE  Place(k) \in P
  BY <1>1, Placed
<1>3. \A i \in P : q[i] \in S
  OBVIOUS
<1> HIDE DEF Place
<1>4. [k \in 1..Cardinality(P) |-> q[Place(k)]] \in Seq(S)
  BY <1>1, <1>2, <1>3
<1> QED BY <1>4 DEF Picked, Place

LEMMA OthersShaped ==
  ASSUME NEW app, onDemand \in Seq(Requests)
  PROVE  OfOthers(app) \in Seq(Requests)
  BY PickedTyped DEF OfOthers

\* A worker that is down knows nothing.
LEMMA NothingShaped ==
  /\ Nowhere \in Snapshots /\ <<>> \in Seq(Requests)
  /\ {} \subseteq Apps /\ {} \subseteq [app : Apps, window : Windows, at : Nat]
<1>1. Nowhere \in Snapshots
  BY DEF Nowhere, Snapshots
<1> QED BY <1>1

LEMMA ShapedInit == Init => Shaped
<1> SUFFICES ASSUME Init PROVE Shaped
  OBVIOUS
<1>1. generation <= MaxGeneration /\ Len(queue) <= Capacity /\ deaths \in 0 .. MaxDeaths
  BY BoundsAssumption DEF Init
<1>2. /\ dead = {} /\ unheard = {} /\ frontmost = Nowhere /\ apps = {} /\ overrun = FALSE
      /\ onDemand = <<>> /\ confirmed = {} /\ worker = "down" /\ query = NoQuery
  BY DEF Init
<1> QED BY <1>1, <1>2, NothingShaped DEF Shaped

\* A question is of the shape of one.
LEMMA AskShaped ==
  ASSUME NEW kind \in {"front", "window"}, NEW app \in Apps, NEW window \in Windows,
         Ask(kind, app, window)
  PROVE  worker' = "asking" /\ query' \in Queries
  BY DEF Ask, Queries

LEMMA ViewsKnown ==
  ASSUME NEW s \in Snapshots, s.view # NoView
  PROVE  AppOf[s.view] \in Apps /\ WindowOf[s.view] \in Windows
  BY DEF Snapshots, Apps, Windows

\* What the writer does leaves the worker's state alone.
LEMMA ShapedTransition ==
  ASSUME Shaped, Typed, NEW view, NEW force, TransitionTo(view, force), UNCHANGED workerVars,
         dead' = dead, unheard' \subseteq dead, deaths' = deaths
  PROVE  Shaped'
<1>1. generation' <= MaxGeneration
  BY BoundsAssumption DEF TransitionTo, Typed
<1>2. Len(queue') <= Capacity
  <2>1. CASE Len(queue) < Capacity
    BY <2>1, BoundsAssumption DEF TransitionTo, Offer, Typed
  <2>2. CASE ~(Len(queue) < Capacity)
    BY <2>2 DEF TransitionTo, Offer, Shaped
  <2> QED BY <2>1, <2>2
<1> QED BY <1>1, <1>2 DEF Shaped, workerVars, stateVars, Requests

LEMMA ShapedWriter ==
  ASSUME Shaped, Typed, \/ \E view \in Views : Focus(view)
                        \/ \E view \in Views \union {NoView} : Wake(view)
                        \/ \E app \in Apps : Quit(app) \/ Terminate(app)
  PROVE  Shaped'
<1>1. CASE \E view \in Views : Focus(view)
  BY <1>1, ShapedTransition DEF Focus, worldVars, Shaped
<1>2. CASE \E view \in Views \union {NoView} : Wake(view)
  BY <1>2, ShapedTransition DEF Wake, Shaped
<1>3. CASE \E app \in Apps : Quit(app)
  BY <1>3, BoundsAssumption DEF Quit, Shaped, workerVars, stateVars, focusVars
<1>4. CASE \E app \in Apps : Terminate(app)
  <2>1. PICK app \in Apps : Terminate(app)
    BY <1>4
  <2>2. UNCHANGED workerVars /\ dead' = dead /\ deaths' = deaths /\ unheard' \subseteq dead
    BY <2>1 DEF Terminate, Shaped
  <2>3. CASE Is(current, app)
    BY <2>1, <2>2, <2>3, ShapedTransition DEF Terminate
  <2>4. CASE ~Is(current, app)
    BY <2>1, <2>2, <2>4 DEF Terminate, Shaped, workerVars, stateVars, focusVars
  <2> QED BY <2>3, <2>4
<1> QED BY <1>1, <1>2, <1>3, <1>4

LEMMA ShapedReceive == Shaped /\ Typed /\ Receive => Shaped'
<1> SUFFICES ASSUME Shaped, Typed, Receive PROVE Shaped'
  OBVIOUS
<1>1. /\ worker \in {"idle", "taken"} /\ worker' \in {"taken", "handling"} /\ query' = query
      /\ UNCHANGED <<generation, stateVars, worldVars>>
      /\ queue' \in {queue, <<>>} \/ (queue # <<>> /\ queue' = Tail(queue))
  <2>1. CASE Take
    BY <2>1 DEF Take
  <2>2. CASE Recover
    BY <2>2 DEF Recover
  <2>3. CASE Remember
    BY <2>3 DEF Remember, focusVars
  <2> QED BY <2>1, <2>2, <2>3 DEF Receive
<1>2. Len(queue') <= Capacity
  BY <1>1, BoundsAssumption DEF Shaped, Typed
<1> QED BY <1>1, <1>2 DEF Shaped, stateVars, worldVars, Requests

LEMMA ShapedStart == Shaped /\ Start => Shaped'
  BY DEF Shaped, Start, focusVars, stateVars, worldVars, Requests

LEMMA ShapedDie == Shaped /\ Die => Shaped'
<1> SUFFICES ASSUME Shaped, Die PROVE Shaped'
  OBVIOUS
<1>1. /\ worker' = "down" /\ query' = NoQuery /\ deaths' = deaths + 1 /\ deaths < MaxDeaths
      /\ frontmost' = Nowhere /\ apps' = {} /\ onDemand' = <<>> /\ confirmed' = {}
      /\ overrun' = FALSE
      /\ UNCHANGED <<generation, queue, dead, unheard>>
  BY DEF Die, NoState, focusVars
<1>2. deaths' \in 0 .. MaxDeaths
  BY <1>1, BoundsAssumption DEF Shaped
<1> QED BY <1>1, <1>2, NothingShaped DEF Shaped

\* What ends a browser leaves the worker's state in shape.
LEMMA TerminateShaped ==
  ASSUME Shaped, NEW app, TerminateBrowser(app)
  PROVE  frontmost' \in Snapshots /\ apps' \subseteq Apps /\ onDemand' \in Seq(Requests)
<1>1. frontmost' \in Snapshots /\ apps' \subseteq Apps
  BY NothingShaped DEF TerminateBrowser, LeaveFocus, Shaped
<1>2. onDemand' \in Seq(Requests)
  BY OthersShaped DEF TerminateBrowser, Shaped
<1> QED BY <1>1, <1>2

LEMMA ShapedHandle == Shaped /\ Typed /\ Handle => Shaped'
<1> SUFFICES ASSUME Shaped, Typed, Handle PROVE Shaped'
  OBVIOUS
<1>1. worker = "handling" /\ query = NoQuery /\ UNCHANGED <<focusVars, worldVars>>
  BY DEF Handle, Shaped
<1>2. held.current \in Snapshots
  BY DEF Typed, Transitions
<1>3. Kept \subseteq [app : Apps, window : Windows, at : Nat]
  BY NothingShaped DEF Kept, Shaped
<1>4. CASE HandleStale
  BY <1>1, <1>4 DEF HandleStale, Back, Shaped, focusVars, stateVars, worldVars
<1>5. CASE HandleEnd
  <2>1. confirmed' \subseteq Kept /\ overrun' \in BOOLEAN /\ Back
    BY <1>5 DEF HandleEnd
  <2>2. frontmost' \in Snapshots /\ apps' \subseteq Apps /\ onDemand' \in Seq(Requests)
    <3>1. CASE IsBrowser(held.previous)
      BY <1>5, <3>1, TerminateShaped DEF HandleEnd
    <3>2. CASE ~IsBrowser(held.previous)
      BY <1>5, <3>2, NothingShaped DEF HandleEnd, LeaveFocus, Shaped
    <3> QED BY <3>1, <3>2
  <2> QED BY <1>1, <1>3, <2>1, <2>2 DEF Back, Shaped, focusVars, worldVars
<1>6. CASE HandleFocus
  <2>1. confirmed' = Kept /\ overrun' = FALSE /\ onDemand' = onDemand /\ held.current.view # NoView
    BY <1>6 DEF HandleFocus
  <2>2. CASE IsBrowser(held.current)
    <3>1. /\ frontmost' = held.current /\ apps' = apps \union {AppOf[held.current.view]}
          /\ Ask("front", AppOf[held.current.view], WindowOf[held.current.view])
      BY <1>6, <2>2 DEF HandleFocus
    <3>2. AppOf[held.current.view] \in Apps /\ WindowOf[held.current.view] \in Windows
      BY <1>2, <2>1, ViewsKnown
    <3>3. worker' = "asking" /\ query' \in Queries
      BY <3>1, <3>2, AskShaped
    <3> QED BY <1>1, <1>2, <1>3, <2>1, <3>1, <3>2, <3>3 DEF Shaped, focusVars, worldVars
  <2>3. CASE ~IsBrowser(held.current)
    BY <1>1, <1>3, <1>6, <2>1, <2>3, NothingShaped
       DEF HandleFocus, LeaveFocus, Back, Shaped, focusVars, worldVars
  <2> QED BY <2>2, <2>3
<1> QED BY <1>4, <1>5, <1>6 DEF Handle

LEMMA ShapedLoaded ==
  ASSUME Shaped, NEW app \in Apps, PageLoaded(app)
  PROVE  Shaped'
<1>1. WindowOf[frontmost.view] \in Windows
  BY ViewsKnown DEF PageLoaded, Is, Shaped
<1>2. worker' = "asking" /\ query' \in Queries
  BY <1>1, AskShaped DEF PageLoaded
<1> QED BY <1>2 DEF PageLoaded, Shaped, focusVars, stateVars, worldVars

LEMMA ShapedDemand ==
  ASSUME Shaped, NEW view \in Demanded, Demand(AppOf[view], WindowOf[view])
  PROVE  Shaped'
<1>1. [app |-> AppOf[view], window |-> WindowOf[view]] \in Requests
  BY ViewsAssumption DEF Requests, Apps, Windows
<1>2. onDemand' \in Seq(Requests)
  BY <1>1 DEF Demand, Shaped
<1> QED BY <1>2 DEF Demand, Shaped, focusVars, worldVars

LEMMA ShapedServe == Shaped /\ Serve => Shaped'
<1> SUFFICES ASSUME Shaped, Serve PROVE Shaped'
  OBVIOUS
<1>1. onDemand' \in Seq(Requests) /\ Head(onDemand) \in Requests
  BY DEF Serve, Shaped
<1>2. CASE Head(onDemand).app \in apps
  <2>1. PICK kind \in {"front", "window"} : Ask(kind, Head(onDemand).app, Head(onDemand).window)
    BY <1>2 DEF Serve
  <2>2. worker' = "asking" /\ query' \in Queries
    BY <1>1, <2>1, AskShaped DEF Requests
  <2> QED BY <1>1, <2>2 DEF Serve, Shaped, focusVars, worldVars
<1>3. CASE Head(onDemand).app \notin apps
  BY <1>1, <1>3 DEF Serve, Shaped, focusVars, worldVars
<1> QED BY <1>2, <1>3

LEMMA ShapedQuery == Shaped /\ Typed /\ Query => Shaped'
<1> SUFFICES ASSUME Shaped, Typed, Query PROVE Shaped'
  OBVIOUS
<1>1. worker = "asking" /\ query \in Queries /\ UNCHANGED <<focusVars, stateVars, worldVars>>
  BY DEF Query, Shaped
<1>2. CASE Back
  BY <1>1, <1>2 DEF Back, Shaped, focusVars, stateVars, worldVars
<1>3. CASE ~Back
  <2>1. PICK answer \in Answers : query' = [query EXCEPT !.gen = generation, !.answer = answer]
    BY <1>3 DEF Query
  <2>2. worker' = "querying" /\ query' \in Queries
    BY <1>1, <1>3, <2>1 DEF Query, Queries, Typed
  <2> QED BY <1>1, <2>2 DEF Shaped, focusVars, stateVars, worldVars
<1> QED BY <1>2, <1>3

LEMMA ShapedPublish == Shaped /\ Wakeful /\ Publish => Shaped'
<1> SUFFICES ASSUME Shaped, Wakeful, Publish PROVE Shaped'
  OBVIOUS
<1>1. /\ worker' = "idle" /\ query' = NoQuery /\ query \in Queries
      /\ UNCHANGED <<focusVars, overrun, worldVars>>
  BY DEF Publish, Back, Shaped
<1>2. query.answer \in Answers
  BY DEF Publish, Wakeful, Behind
<1> DEFINE fresh == [app |-> query.app, window |-> query.window, at |-> query.gen]
           Same == UNCHANGED <<frontmost, apps, onDemand>>
<1>3. fresh \in [app : Apps, window : Windows, at : Nat]
  BY <1>1 DEF Queries
<1> HIDE DEF fresh
<1>4. /\ confirmed' \subseteq confirmed \union {fresh}
      /\ (Same \/ TerminateBrowser(query.app))
  <2>1. CASE query.answer = "outdated"
    BY <2>1 DEF Publish
  <2>2. CASE query.answer # "outdated" /\ (~Attributed \/ query.answer = "no_page")
    BY <2>2 DEF Publish
  <2>3. CASE Attributed /\ query.answer = "page"
    BY <2>3 DEF Publish, fresh
  <2>4. CASE Attributed /\ query.answer = "failed"
    BY <2>4 DEF Publish
  <2>5. CASE Attributed /\ query.answer = "not_running"
    BY <2>5 DEF Publish
  <2> QED BY <1>2, <2>1, <2>2, <2>3, <2>4, <2>5 DEF Answers
<1>5. frontmost' \in Snapshots /\ apps' \subseteq Apps /\ onDemand' \in Seq(Requests)
  BY <1>4, TerminateShaped DEF Shaped
<1>6. confirmed' \subseteq [app : Apps, window : Windows, at : Nat]
  BY <1>3, <1>4 DEF Shaped
<1> QED BY <1>1, <1>5, <1>6 DEF Shaped, focusVars, worldVars

LEMMA ShapedNext == Shaped /\ Wakeful /\ [Next]_vars => Shaped'
<1> SUFFICES ASSUME Shaped, Wakeful, [Next]_vars PROVE Shaped'
  OBVIOUS
<1>1. Typed
  BY DEF Wakeful, Chain
<1>2. CASE UNCHANGED vars
  BY <1>2 DEF Shaped, vars, focusVars, workerVars, stateVars, worldVars
<1> QED BY <1>1, <1>2, ShapedWriter, ShapedReceive, ShapedStart, ShapedDie, ShapedHandle, ShapedLoaded,
           ShapedDemand, ShapedServe, ShapedQuery, ShapedPublish DEF Next

\* Every reachable state of the focus, its queue, its receiver and the browser worker is well
\* typed: the queue is within its capacity, what the worker has seen is not newer than the
\* focus, and it has a question open exactly while it asks (focus_context.rs,
\* chrome/worker.rs).
THEOREM TypeCorrect == Spec => []TypeOK
<1>1. Wakeful /\ Shaped => TypeOK
  <2> SUFFICES ASSUME Wakeful, Shaped PROVE TypeOK
    OBVIOUS
  <2>1. Typed /\ woke \in Nat /\ woke <= generation /\ seen \in Nat /\ seen <= generation
    BY DEF Wakeful, Chain, Behind
  <2>2. query \in Queries \union {NoQuery} /\ ((query # NoQuery) <=> worker \in {"asking", "querying"})
    BY DEF Shaped, Queries, NoQuery
  <2>3. \A i \in DOMAIN onDemand : onDemand[i].app \in Apps /\ onDemand[i].window \in Windows
    <3>1. onDemand \in Seq(Requests)
      BY DEF Shaped
    <3>2. \A i \in DOMAIN onDemand : onDemand[i] \in Requests
      BY <3>1
    <3> QED BY <3>2 DEF Requests
  <2>4. worker \in {"down", "idle", "taken", "handling", "asking", "querying"}
    BY DEF Shaped
  <2>5. generation \in 0 .. MaxGeneration /\ seen \in 0 .. generation /\ woke \in 0 .. generation
    BY <2>1, BoundsAssumption DEF Shaped, Typed
  <2> QED BY <2>1, <2>2, <2>3, <2>4, <2>5 DEF Shaped, Typed, TypeOK
<1>2. Init => Wakeful /\ Shaped
  BY WakefulInit, ShapedInit
<1>3. Wakeful /\ Shaped /\ [Next]_vars => Wakeful' /\ Shaped'
  BY WakefulNext, ShapedNext
<1> QED BY <1>1, <1>2, <1>3, PTL DEF Spec
=============================================================================
