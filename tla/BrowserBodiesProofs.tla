------------------------ MODULE BrowserBodiesProofs ------------------------
(***************************************************************************)
(* Proofs about BrowserBodies for any windows, pages, filters and bodies   *)
(* and any number of moves and troubles: types, RecordsAreCurrent,         *)
(* VersionPinsPage, WithinEveryRuling and ShownAfterHold.                  *)
(***************************************************************************)
EXTENDS BrowserBodies, TLAPS

\* A query names the window it asks for.
Asks == query # NoQuery /\ query.kind = "window" => query.asked \in Windows
WellFormed == TypeOK /\ Asks

\* A query that is not out of date began under the policy in force.
Current ==
  /\ RecordsAreCurrent
  /\ query # NoQuery /\ ~query.stale => targeted /\ query.under = PolicyOf[filter]

\* A record has a version exactly while it shows a page, no other record has
\* it, and it was handed out.
Versions ==
  /\ \A w \in Windows : record[w].version <= nextVersion
  /\ \A w \in Windows : record[w].version = 0 <=> record[w].state = NoPage
  /\ \A v, w \in Windows : record[v].version = record[w].version => v = w \/ record[v].version = 0

\* Bodies the worker still has to decide about.
Open(b)  == body[b].status \in {"read", "held", "confirmed"}
\* The record a body was read under is still in force.
Bound(b) == record[body[b].window].version = body[b].decision.version

\* The version an undecided body was read under has been handed out, and leads
\* to the window and the page it was read from; a body that waits is allowed.
PinnedBody(b) ==
  /\ body[b].window \in Windows
  /\ body[b].decision.version <= nextVersion
  /\ body[b].decision.allowed => body[b].decision.version # 0
  /\ b \in Waiting => body[b].decision.allowed
  /\ \A w \in Windows :
       record[w].version = body[b].decision.version /\ record[w].version # 0 =>
         w = body[b].window /\ record[w].state = body[b].decision.context
Pinned == \A b \in Bodies : Open(b) => PinnedBody(b)

\* WithinEveryRuling holds of an undecided body only while its record is in
\* force; a body that lost its record may have been held against the filter,
\* and will not be kept.
RuledBody(b) ==
  Kept(b) \/ (Open(b) /\ body[b].decision.allowed /\ Bound(b)) =>
    \A f \in ruledBy[b] : body[b].decision.context \in Allows[f]
Ruled == \A b \in Bodies : RuledBody(b) /\ (body[b].status = "idle" => ruledBy[b] = {})

\* A body that is not held yet is not among those an observation came after.
NotYetHeld ==
  \A b \in Bodies : body[b].status \in {"idle", "read"} =>
    /\ \A w \in Windows : b \notin record[w].since
    /\ query # NoQuery => b \notin query.after

\* A window has shown its page since its waiting bodies were held.
PageIsShown == \A b \in Waiting : page[body[b].window] \in shown[b]

\* A window that was not misread is known by its own AppleScript id.
OwnName == \A w \in Windows \ misread : record[w].named \in {w, NoWindow}

\* A query asks for the window it will be published for, if it is published
\* and that window was not misread; its answer was shown there after the
\* bodies in "after" were held.
QueryIsTrue ==
  query # NoQuery =>
    /\ query.kind = "window" /\ query.window \notin misread => query.asked = query.window
    /\ query.kind = "front" /\ ~query.moved => query.window = focus
    /\ query.kind = "front" /\ ~query.moved /\ ~query.lagged /\ query.answer \in Pages =>
         query.asked = query.window
    /\ query.answer \in Pages =>
         \A b \in Waiting \intersect query.after :
           body[b].window = query.asked => query.answer \in shown[b]

\* The page in a record was shown after the bodies in "since" were held.
RecordIsTrue ==
  \A w \in Windows \ misread : record[w].state # NoPage =>
    \A b \in Waiting \intersect record[w].since :
      body[b].window = w => record[w].state \in shown[b]

\* ShownAfterHold, of the bodies that are confirmed already.
ConfirmedIsTrue ==
  \A b \in Bodies :
    /\ body[b].window \notin misread
    /\ Kept(b) \/ (body[b].status = "confirmed" /\ Bound(b))
    => body[b].decision.context \in shown[b]

Seen == NotYetHeld /\ PageIsShown /\ OwnName /\ QueryIsTrue /\ RecordIsTrue /\ ConfirmedIsTrue

BrowserInv == WellFormed /\ Current /\ Versions /\ Pinned /\ Ruled /\ Seen

-----------------------------------------------------------------------------
(* Types.                                                                  *)

LEMMA InitTypes == Init => WellFormed
<1> SUFFICES ASSUME Init
             PROVE  WellFormed
  OBVIOUS
<1>1. Unseen \in Records /\ Undecided \in Decisions
  BY DEF Unseen, Undecided, Records, Decisions
<1>2. record \in [Windows -> Records] /\ nextVersion \in Nat
  BY <1>1 DEF Init
<1>3. body \in [Bodies -> [status : Statuses, window : Windows \union {NoWindow}, decision : Decisions]]
  BY <1>1 DEF Init, Statuses
<1>4. readUnder \in [Windows -> Owned]
  BY DEF Init, Owned
<1>5. moves \in 0 .. MaxMoves /\ troubles \in 0 .. MaxTroubles
  BY BoundsAssumption DEF BoundsAssumption, Init
<1>6. QED
  BY <1>2, <1>3, <1>4, <1>5 DEF Init, WellFormed, TypeOK, Asks

\* A record that loses its page keeps its type.
LEMMA UnavailableTypes ==
  ASSUME NEW r \in Records, NEW since \in SUBSET Bodies
  PROVE  /\ Unavailable(r, since) \in Records
         /\ Unavailable(r, since).state = NoPage /\ Unavailable(r, since).version = 0
         /\ Unavailable(r, since).named = r.named /\ Unavailable(r, since).since = since
BY DEF Unavailable, Records

LEMMA WaitingTypes == Waiting \in SUBSET Bodies
BY DEF Waiting

LEMMA MarkAllTypes ==
  ASSUME record \in [Windows -> Records], MarkAll
  PROVE  record' \in [Windows -> Records]
BY UnavailableTypes, WaitingTypes DEF MarkAll

\* A query keeps its type when it is marked.
LEMMA QueryMarked ==
  ASSUME NEW q \in Queries
  PROVE  /\ [q EXCEPT !.stale = TRUE] \in Queries /\ [q EXCEPT !.moved = TRUE] \in Queries
         /\ \A a \in Results \union {NoPage} : [q EXCEPT !.answer = a] \in Queries
BY DEF Queries

LEMMA OutdateTypes ==
  ASSUME WellFormed, Outdate
  PROVE  query' \in Queries \union {NoQuery} /\ Asks'
<1>1. CASE query = NoQuery
  BY <1>1 DEF Outdate, WellFormed, TypeOK, Asks
<1>2. CASE query # NoQuery
  <2>1. query \in Queries /\ query' = [query EXCEPT !.stale = TRUE]
    BY <1>2 DEF Outdate, WellFormed, TypeOK
  <2>2. query'.kind = query.kind /\ query'.asked = query.asked
    BY <2>1 DEF Queries
  <2>3. QED
    BY <1>2, <2>1, <2>2, QueryMarked DEF WellFormed, Asks
<1>3. QED
  BY <1>1, <1>2

LEMMA ObserveTypes ==
  ASSUME WellFormed, query \in Queries, NEW w \in Windows, NEW p \in Pages,
         Observe(w, p, query.asked)
  PROVE  record' \in [Windows -> Records] /\ nextVersion' \in Nat
<1> DEFINE r     == record[w]
           named == IF p \in Private /\ query.kind = "front" THEN r.named ELSE query.asked
           same  == r.state = p /\ (r.named = named)
           new   == [state |-> p, named |-> named, since |-> query.after,
                     version |-> IF same THEN r.version ELSE nextVersion + 1]
<1>1. record' = [record EXCEPT ![w] = new] /\ nextVersion' = IF same THEN nextVersion ELSE nextVersion + 1
  BY DEF Observe
<1>2. new \in Records
  BY DEF WellFormed, TypeOK, Queries, Records
<1> HIDE DEF new
<1>3. QED
  BY <1>1, <1>2 DEF WellFormed, TypeOK

\* The user, the browser and the chrome worker.
LEMMA BrowserTypes ==
  ASSUME WellFormed,
         \/ \E w \in Windows, p \in Pages : Navigate(w, p)
         \/ \E w \in Windows : Switch(w)
         \/ Quit \/ HearSwitch \/ BeginFront \/ (\E w \in Windows : BeginConfirm(w)) \/ Answer
         \/ Publish \/ Resync \/ HearQuitChrome
  PROVE  WellFormed'
<1> USE DEF TypeOK, browserVars, recordVars, bodyVars
<1>1. ASSUME NEW w \in Windows, NEW p \in Pages, Navigate(w, p)
      PROVE  WellFormed'
  <2>1. page' \in [Windows -> Pages] /\ moves' \in 0 .. MaxMoves /\ shown' \in [Bodies -> SUBSET Pages]
    BY <1>1, BoundsAssumption DEF BoundsAssumption, Navigate, WellFormed
  <2>2. QED
    BY <1>1, <2>1 DEF Navigate, WellFormed, Asks
<1>2. ASSUME NEW w \in Windows, Switch(w)
      PROVE  WellFormed'
  BY <1>2, BoundsAssumption DEF BoundsAssumption, Switch, WellFormed, Asks
<1>3. CASE Quit
  <2>1. troubles' \in 0 .. MaxTroubles
    BY <1>3, BoundsAssumption DEF BoundsAssumption, Quit, Trouble, WellFormed
  <2>2. unheard' \subseteq {"content", "chrome"} /\ running' \in BOOLEAN
    BY <1>3 DEF Quit
  <2>3. QED
    BY <1>3, <2>1, <2>2 DEF Quit, WellFormed, Asks
<1>4. CASE HearSwitch
  <2>1. query' \in Queries \union {NoQuery} /\ Asks'
    <3>1. CASE query = NoQuery
      BY <1>4, <3>1 DEF HearSwitch, WellFormed, Asks
    <3>2. CASE query # NoQuery
      <4>1. query \in Queries /\ query' = [query EXCEPT !.moved = TRUE]
        BY <1>4, <3>2 DEF HearSwitch, WellFormed
      <4>2. query'.kind = query.kind /\ query'.asked = query.asked
        BY <4>1 DEF Queries
      <4>3. QED
        BY <3>2, <4>1, <4>2, QueryMarked DEF WellFormed, Asks
    <3>3. QED
      BY <3>1, <3>2
  <2>2. QED
    BY <1>4, <2>1 DEF HearSwitch, WellFormed
<1>5. CASE BeginFront
  <2>1. query' \in Queries /\ query'.kind = "front"
    BY <1>5, WaitingTypes DEF BeginFront, WellFormed, Queries, Owned
  <2>2. QED
    BY <1>5, <2>1 DEF BeginFront, WellFormed, Asks
<1>6. ASSUME NEW w \in Windows, BeginConfirm(w)
      PROVE  WellFormed'
  <2>1. record[w].named \in Windows
    BY <1>6 DEF BeginConfirm, WellFormed, Records
  <2>2. query' \in Queries /\ query'.asked \in Windows
    BY <1>6, <2>1, WaitingTypes DEF BeginConfirm, WellFormed, Queries, Owned
  <2>3. QED
    BY <1>6, <2>2 DEF BeginConfirm, WellFormed, Asks
<1>7. CASE Answer
  <2> DEFINE w == IF query.kind = "front" THEN front ELSE query.asked
  <2>1. query \in Queries /\ w \in Windows
    BY <1>7 DEF Answer, WellFormed, Asks, Queries
  <2>2. troubles' \in 0 .. MaxTroubles
    BY <1>7, BoundsAssumption DEF BoundsAssumption, Answer, Trouble, WellFormed
  <2>3. query' \in Queries /\ Asks'
    <3>1. CASE query' = [query EXCEPT !.answer = page[w], !.asked = w,
                                      !.lagged = (query.kind = "front" /\ focus # front)]
      BY <2>1, <3>1 DEF Queries, WellFormed, Asks, Results
    <3>2. CASE query' \in {[query EXCEPT !.answer = a] : a \in {"failed", "no_window", "not_running"}}
      <4>1. PICK a \in {"failed", "no_window", "not_running"} : query' = [query EXCEPT !.answer = a]
        BY <3>2
      <4>2. query'.kind = query.kind /\ query'.asked = query.asked
        BY <2>1, <4>1 DEF Queries
      <4>3. QED
        BY <1>7, <2>1, <4>1, <4>2, QueryMarked DEF Answer, Results, WellFormed, Asks
    <3>3. QED
      BY <1>7, <3>1, <3>2 DEF Answer
  <2>4. QED
    BY <1>7, <2>2, <2>3 DEF Answer, WellFormed
<1>8. CASE Publish
  <2>1. query \in Queries /\ query.window \in Windows /\ query.under \in Owned
    BY <1>8 DEF Publish, WellFormed, Queries
  <2>2. record' \in [Windows -> Records] /\ nextVersion' \in Nat
    <3>1. CASE UNCHANGED recordVars
      BY <3>1 DEF WellFormed
    <3>2. CASE /\ record' = [record EXCEPT ![query.window] = Unavailable(@, query.after)]
               /\ UNCHANGED nextVersion
      BY <2>1, <3>2, UnavailableTypes DEF WellFormed, Queries
    <3>3. CASE /\ record' = [v \in Windows |-> Unavailable(record[v], query.after)]
               /\ UNCHANGED nextVersion
      BY <2>1, <3>3, UnavailableTypes DEF WellFormed, Queries
    <3>4. CASE query.answer \in Pages /\ Observe(query.window, query.answer, query.asked)
      BY <2>1, <3>4, ObserveTypes
    <3>5. QED
      BY <1>8, <3>1, <3>2, <3>3, <3>4 DEF Publish
  <2>3. readUnder' \in [Windows -> Owned] /\ misread' \subseteq Windows
    BY <1>8, <2>1 DEF Publish, WellFormed
  <2>4. QED
    BY <1>8, <2>2, <2>3 DEF Publish, WellFormed, Asks
<1>9. CASE Resync
  BY <1>9, MarkAllTypes, BoundsAssumption DEF BoundsAssumption, Resync, Trouble, WellFormed, Asks
<1>10. CASE HearQuitChrome
  BY <1>10, MarkAllTypes DEF HearQuitChrome, WellFormed, Asks
<1>11. QED
  BY <1>1, <1>2, <1>3, <1>4, <1>5, <1>6, <1>7, <1>8, <1>9, <1>10

\* What a decision says.
LEMMA DecisionFields ==
  ASSUME NEW w \in Windows
  PROVE  /\ Decision(w).allowed <=> record[w].state \in Allows[filter]
         /\ Decision(w).version = record[w].version /\ Decision(w).context = record[w].state
BY DEF Decision

\* A decision about a window is a decision.
LEMMA DecisionTypes ==
  ASSUME TypeOK, NEW w \in Windows
  PROVE  /\ Decision(w) \in Decisions
         /\ \A d \in Decisions :
              /\ DecisionAtSend(w, d) \in Decisions
              /\ DecisionAtSend(w, d).version = d.version
              /\ DecisionAtSend(w, d).context = d.context
              /\ DecisionAtSend(w, d).allowed => d.allowed /\ record[w].state \in Allows[filter]
<1>1. record[w].state \in Pages \union {NoPage} /\ record[w].version \in Nat
  BY DEF TypeOK, Records
<1>2. (record[w].state \in Allows[filter]) \in BOOLEAN
  OBVIOUS
<1>3. Decision(w) \in Decisions
  BY <1>1, <1>2 DEF Decision, Decisions
<1>4. ASSUME NEW d \in Decisions
      PROVE  /\ DecisionAtSend(w, d) \in Decisions
             /\ DecisionAtSend(w, d).version = d.version
             /\ DecisionAtSend(w, d).context = d.context
             /\ DecisionAtSend(w, d).allowed => d.allowed /\ record[w].state \in Allows[filter]
  <2> DEFINE ruling == d.allowed /\ Decision(w).allowed /\ ~(Decision(w).version # 0 /\ d.version = 0)
  <2>1. ruling \in BOOLEAN
    BY <1>2, <1>4 DEF Decision, Decisions
  <2>2. DecisionAtSend(w, d) = [d EXCEPT !.allowed = ruling]
    BY DEF DecisionAtSend
  <2>3. ruling => d.allowed /\ record[w].state \in Allows[filter]
    BY DEF Decision
  <2> HIDE DEF ruling
  <2>4. QED
    BY <2>1, <2>2, <2>3 DEF Decisions
<1>5. QED
  BY <1>3, <1>4

\* The main thread and the workers that read bodies.
LEMMA BodyTypes ==
  ASSUME WellFormed, Pinned,
         \/ \E f \in Filters : Reload(f)
         \/ Retarget
         \/ \E b \in Bodies, w \in Windows : Read(b, w)
         \/ \E b \in Bodies : Route(b) \/ Confirm(b) \/ Resolve(b) \/ Expire(b)
         \/ HearQuitContent
  PROVE  WellFormed'
<1> USE DEF TypeOK, browserVars, recordVars, bodyVars
<1>1. ASSUME NEW f \in Filters, Reload(f)
      PROVE  WellFormed'
  <2>1. record' \in [Windows -> Records]
    BY <1>1, MarkAllTypes DEF Reload, WellFormed
  <2>2. troubles' \in 0 .. MaxTroubles
    BY <1>1, BoundsAssumption DEF BoundsAssumption, Reload, Trouble, WellFormed
  <2>3. QED
    BY <1>1, <2>1, <2>2, OutdateTypes DEF Reload, WellFormed
<1>2. CASE Retarget
  <2>1. record' \in [Windows -> Records]
    BY <1>2, MarkAllTypes DEF Retarget, WellFormed
  <2>2. troubles' \in 0 .. MaxTroubles
    BY <1>2, BoundsAssumption DEF BoundsAssumption, Retarget, Trouble, WellFormed
  <2>3. QED
    BY <1>2, <2>1, <2>2, OutdateTypes DEF Retarget, WellFormed
<1> DEFINE Body == [status : Statuses, window : Windows \union {NoWindow}, decision : Decisions]
<1>3. ASSUME NEW b \in Bodies
      PROVE  /\ body[b] \in Body
             /\ \A s \in Statuses : [body EXCEPT ![b].status = s] \in [Bodies -> Body]
  BY DEF WellFormed
<1>4. ASSUME NEW b \in Bodies, Rule(b)
      PROVE  ruledBy' \in [Bodies -> SUBSET Filters]
  BY <1>4 DEF Rule, WellFormed
<1>5. ASSUME NEW b \in Bodies
      PROVE  Denied(b) \in Statuses
  BY DEF Denied, Statuses
<1>6. ASSUME NEW b \in Bodies, NEW w \in Windows, Read(b, w)
      PROVE  WellFormed'
  <2>1. Decision(w) \in Decisions
    BY DecisionTypes DEF WellFormed
  <2>2. body' \in [Bodies -> Body]
    BY <1>6, <2>1 DEF Read, WellFormed, Statuses
  <2>3. QED
    BY <1>4, <1>6, <2>2 DEF Read, WellFormed, Asks
<1>7. ASSUME NEW b \in Bodies, Route(b)
      PROVE  WellFormed'
  <2> DEFINE d == DecisionAtSend(body[b].window, body[b].decision)
  <2>1. body[b].window \in Windows /\ body[b].decision \in Decisions
    BY <1>3, <1>7 DEF Route, Pinned, PinnedBody, Open
  <2>2. d \in Decisions
    BY <2>1, DecisionTypes DEF WellFormed
  <2> HIDE DEF d
  <2>3. CASE Hold(b, d)
    <3>1. body' \in [Bodies -> Body]
      BY <2>2, <2>3 DEF Hold, WellFormed, Statuses
    <3>2. reserved' \subseteq Windows /\ shown' \in [Bodies -> SUBSET Pages]
      BY <2>1, <2>3 DEF Hold, WellFormed
    <3>3. QED
      BY <1>4, <1>7, <3>1, <3>2 DEF Route, WellFormed, Asks
  <2>4. CASE body' = [body EXCEPT ![b].status = Denied(b)] /\ UNCHANGED <<reserved, shown>>
    <3>1. body' \in [Bodies -> Body]
      BY <1>3, <1>5, <2>4
    <3>2. QED
      BY <1>4, <1>7, <2>4, <3>1 DEF Route, WellFormed, Asks
  <2>5. QED
    BY <1>7, <2>3, <2>4 DEF Route, d
<1>8. ASSUME NEW b \in Bodies, Confirm(b)
      PROVE  WellFormed'
  <2>1. body' \in [Bodies -> Body]
    BY <1>3, <1>8 DEF Confirm, Statuses
  <2>2. QED
    BY <1>8, <2>1 DEF Confirm, WellFormed, Asks
<1>9. ASSUME NEW b \in Bodies, Resolve(b)
      PROVE  WellFormed'
  <2>1. PICK outcome \in {"kept", Denied(b), "dropped"} :
          /\ body' = [body EXCEPT ![b].status = outcome]
          /\ panicked' = (panicked \/ (outcome = "kept" /\ KindOf[b] = "snapshot"
                                        /\ body[b].window \notin reserved))
    BY <1>9 DEF Resolve
  <2>2. body' \in [Bodies -> Body]
    <3>1. outcome \in Statuses
      BY <1>5 DEF Statuses
    <3>2. QED
      BY <1>3, <2>1, <3>1
  <2>3. panicked' \in BOOLEAN
    BY <2>1
  <2>4. QED
    BY <1>4, <1>9, <2>2, <2>3 DEF Resolve, WellFormed, Asks
<1>10. ASSUME NEW b \in Bodies, Expire(b)
       PROVE  WellFormed'
  <2>1. body' \in [Bodies -> Body]
    BY <1>3, <1>5, <1>10 DEF Expire
  <2>2. QED
    BY <1>10, <2>1 DEF Expire, WellFormed, Asks
<1>11. CASE HearQuitContent
  BY <1>11 DEF HearQuitContent, WellFormed, Asks
<1>12. QED
  BY <1>1, <1>2, <1>6, <1>7, <1>8, <1>9, <1>10, <1>11

LEMMA Types == WellFormed /\ Pinned /\ [Next]_vars => WellFormed'
<1>1. ASSUME WellFormed, UNCHANGED vars
      PROVE  WellFormed'
  BY <1>1 DEF vars, browserVars, recordVars, bodyVars, WellFormed, TypeOK, Asks
<1>2. QED
  BY <1>1, BrowserTypes, BodyTypes DEF Next
-----------------------------------------------------------------------------
(* The policy in force: RecordsAreCurrent.                                 *)

LEMMA InitCurrent == Init => Current
BY DEF Init, Current, RecordsAreCurrent, Unseen

LEMMA MarkAllUnknown ==
  ASSUME TypeOK, MarkAll
  PROVE  \A w \in Windows :
           /\ record'[w].state = NoPage /\ record'[w].version = 0
           /\ record'[w].named = record[w].named /\ record'[w].since = Waiting
<1>1. \A w \in Windows : record[w] \in Records
  BY DEF TypeOK
<1>2. QED
  BY <1>1, UnavailableTypes, WaitingTypes DEF MarkAll

\* What a mark leaves of a query.
LEMMA OutdateKeeps ==
  ASSUME TypeOK, Outdate
  PROVE  \/ query = NoQuery /\ query' = NoQuery
         \/ /\ query # NoQuery /\ query' # NoQuery /\ query'.stale
            /\ query'.kind = query.kind /\ query'.window = query.window
            /\ query'.asked = query.asked /\ query'.moved = query.moved
            /\ query'.lagged = query.lagged /\ query'.answer = query.answer
            /\ query'.after = query.after
<1>1. CASE query = NoQuery
  BY <1>1 DEF Outdate
<1>2. CASE query # NoQuery
  <2>1. query \in Queries /\ query' = [query EXCEPT !.stale = TRUE]
    BY <1>2 DEF Outdate, TypeOK
  <2>2. query'.kind # "none" /\ NoQuery.kind = "none"
    BY <2>1 DEF Queries, NoQuery
  <2>3. QED
    BY <1>2, <2>1, <2>2 DEF Queries
<1>3. QED
  BY <1>1, <1>2

LEMMA PublishOutcome ==
  ASSUME WellFormed, Publish
  PROVE  /\ query \in Queries /\ query' = NoQuery
         /\ \/ UNCHANGED <<recordVars, misread>>
            \/ /\ ~query.stale /\ UNCHANGED <<nextVersion, readUnder, misread>>
               /\ \A v \in Windows :
                    \/ record'[v] = record[v]
                    \/ /\ record'[v].state = NoPage /\ record'[v].version = 0
                       /\ record'[v].named = record[v].named /\ record'[v].since = query.after
            \/ /\ ~query.stale /\ ~(query.kind = "front" /\ query.moved) /\ query.answer \in Pages
               /\ Observe(query.window, query.answer, query.asked)
               /\ readUnder' = [readUnder EXCEPT ![query.window] = query.under]
               /\ misread' = IF query.lagged THEN misread \union {query.window} ELSE misread
<1>1. query \in Queries /\ query' = NoQuery
  BY DEF Publish, WellFormed, TypeOK
<1>2. \A v \in Windows : record[v] \in Records
  BY DEF WellFormed, TypeOK
<1>3. query.after \in SUBSET Bodies /\ query.window \in Windows
  BY <1>1 DEF Queries
<1>4. CASE query.stale
  BY <1>1, <1>4 DEF Publish
<1>5. CASE /\ ~query.stale
           /\ record' = [record EXCEPT ![query.window] = Unavailable(@, query.after)]
           /\ UNCHANGED <<nextVersion, readUnder, misread>>
  <2>1. ASSUME NEW v \in Windows
        PROVE  \/ record'[v] = record[v]
               \/ record'[v] = Unavailable(record[v], query.after)
    BY <1>5 DEF WellFormed, TypeOK
  <2>2. QED
    BY <1>1, <1>2, <1>3, <1>5, <2>1, UnavailableTypes
<1>6. CASE /\ ~query.stale
           /\ record' = [v \in Windows |-> Unavailable(record[v], query.after)]
           /\ UNCHANGED <<nextVersion, readUnder, misread>>
  BY <1>1, <1>2, <1>3, <1>6, UnavailableTypes
<1>7. CASE /\ ~query.stale /\ ~(query.kind = "front" /\ query.moved) /\ query.answer \in Pages
           /\ Observe(query.window, query.answer, query.asked)
           /\ readUnder' = [readUnder EXCEPT ![query.window] = query.under]
           /\ misread' = IF query.lagged THEN misread \union {query.window} ELSE misread
  BY <1>1, <1>7
<1>8. QED
  BY <1>1, <1>4, <1>5, <1>6, <1>7 DEF Publish

LEMMA ObserveOutcome ==
  ASSUME WellFormed, query \in Queries, NEW w \in Windows, NEW p \in Pages,
         Observe(w, p, query.asked)
  PROVE  /\ \A v \in Windows \ {w} : record'[v] = record[v]
         /\ record'[w].state = p /\ record'[w].since = query.after
         /\ record'[w].named = record[w].named \/ record'[w].named = query.asked
         /\ \/ /\ record[w].state = p /\ record'[w].version = record[w].version
               /\ nextVersion' = nextVersion
            \/ record'[w].version = nextVersion + 1 /\ nextVersion' = nextVersion + 1
BY DEF Observe, WellFormed, TypeOK

LEMMA CurrentNext == WellFormed /\ Current /\ [Next]_vars => Current'
<1> SUFFICES ASSUME WellFormed, Current, [Next]_vars
             PROVE  Current'
  OBVIOUS
<1> USE DEF Current, RecordsAreCurrent
<1> DEFINE Frame == UNCHANGED <<record, readUnder, targeted, filter>>
<1>1. CASE Frame /\ UNCHANGED query
  BY <1>1
<1>2. CASE HearSwitch
  <2>1. CASE query = NoQuery
    BY <1>2, <2>1 DEF HearSwitch, recordVars
  <2>2. CASE query # NoQuery
    <3>1. query \in Queries /\ query' = [query EXCEPT !.moved = TRUE]
      BY <1>2, <2>2 DEF HearSwitch, WellFormed, TypeOK
    <3>2. query'.stale = query.stale /\ query'.under = query.under
      BY <3>1 DEF Queries
    <3>3. QED
      BY <1>2, <2>2, <3>2 DEF HearSwitch, recordVars
  <2>3. QED
    BY <2>1, <2>2
<1>3. CASE BeginFront \/ \E w \in Windows : BeginConfirm(w)
  <2>1. Frame /\ targeted /\ query'.under = PolicyOf[filter]
    BY <1>3 DEF BeginFront, BeginConfirm, MayQuery, recordVars
  <2>2. QED
    BY <2>1
<1>4. CASE Answer
  <2>1. query # NoQuery /\ query \in Queries /\ Frame
    BY <1>4 DEF Answer, WellFormed, TypeOK, recordVars
  <2>2. query'.stale = query.stale /\ query'.under = query.under
    BY <1>4, <2>1 DEF Answer, Queries
  <2>3. QED
    BY <2>1, <2>2
<1>5. CASE Publish
  <2>1. UNCHANGED <<targeted, filter>> /\ query' = NoQuery /\ query # NoQuery
    BY <1>5 DEF Publish
  <2>2. CASE UNCHANGED recordVars
    BY <2>1, <2>2 DEF recordVars
  <2>3. CASE /\ UNCHANGED readUnder
             /\ \A v \in Windows : record'[v] = record[v] \/ record'[v].state = NoPage
    BY <2>1, <2>3
  <2>4. CASE /\ ~query.stale /\ query \in Queries /\ query.answer \in Pages
             /\ Observe(query.window, query.answer, query.asked)
             /\ readUnder' = [readUnder EXCEPT ![query.window] = query.under]
    <3>1. query.window \in Windows
      BY <2>4 DEF Queries
    <3>2. ASSUME NEW v \in Windows, record'[v].state # NoPage
          PROVE  targeted' /\ readUnder'[v] = PolicyOf[filter']
      <4>1. CASE v = query.window
        BY <2>1, <2>4, <3>1, <4>1 DEF WellFormed, TypeOK
      <4>2. CASE v # query.window
        BY <2>1, <2>4, <3>1, <3>2, <4>2, ObserveOutcome DEF WellFormed, TypeOK
      <4>3. QED
        BY <4>1, <4>2
    <3>3. QED
      BY <2>1, <3>2
  <2>5. QED
    BY <1>5, <2>2, <2>3, <2>4, PublishOutcome
<1>6. CASE Resync \/ HearQuitChrome
  BY <1>6, MarkAllUnknown DEF Resync, HearQuitChrome, WellFormed
<1>7. CASE Retarget
  <2>1. MarkAll /\ Outdate
    BY <1>7 DEF Retarget
  <2>2. QED
    BY <2>1, MarkAllUnknown, OutdateKeeps DEF WellFormed
<1>8. ASSUME NEW f \in Filters, Reload(f)
      PROVE  Current'
  <2>1. query' # NoQuery => query'.stale
    BY <1>8, OutdateKeeps DEF Reload, WellFormed
  <2>2. CASE PolicyOf[f] # PolicyOf[filter]
    BY <1>8, <2>1, <2>2, MarkAllUnknown DEF Reload, WellFormed
  <2>3. CASE PolicyOf[f] = PolicyOf[filter]
    BY <1>8, <2>1, <2>3 DEF Reload
  <2>4. QED
    BY <2>2, <2>3
<1>9. CASE \/ \E w \in Windows, p \in Pages : Navigate(w, p)
           \/ \E w \in Windows : Switch(w)
           \/ Quit \/ HearQuitContent
           \/ \E b \in Bodies, w \in Windows : Read(b, w)
           \/ \E b \in Bodies : Route(b) \/ Confirm(b) \/ Resolve(b) \/ Expire(b)
           \/ UNCHANGED vars
  <2>1. Frame /\ UNCHANGED query
    BY <1>9 DEF Navigate, Switch, Quit, HearQuitContent, Read, Route, Confirm, Resolve, Expire,
                recordVars, vars
  <2>2. QED
    BY <1>1, <2>1
<1>10. QED
  BY <1>2, <1>3, <1>4, <1>5, <1>6, <1>7, <1>8, <1>9 DEF Next

-----------------------------------------------------------------------------
(* Versions.                                                               *)

\* What a step may do to the version and the page of a record.
Stays(w)   == record'[w].version = record[w].version /\ record'[w].state = record[w].state
Lost(w)    == record'[w].version = 0 /\ record'[w].state = NoPage
Renewed(w) == /\ record'[w].version = nextVersion + 1 /\ record'[w].state # NoPage
              /\ nextVersion' = nextVersion + 1
RecordStep ==
  \/ nextVersion' = nextVersion /\ \A w \in Windows : Stays(w) \/ Lost(w)
  \/ \E u \in Windows : Renewed(u) /\ \A w \in Windows \ {u} : Stays(w)

\* A step changes a record in one of these ways, and then decides nothing.
LEMMA RecordSteps ==
  ASSUME WellFormed, [Next]_vars
  PROVE  /\ RecordStep
         /\ UNCHANGED <<body, ruledBy>> \/ UNCHANGED <<record, nextVersion>>
<1> USE DEF RecordStep, Stays, Lost, Renewed
<1>1. CASE UNCHANGED <<record, nextVersion>>
  BY <1>1
<1>2. CASE UNCHANGED <<body, ruledBy, nextVersion>> /\ (MarkAll \/ UNCHANGED record)
  BY <1>2, MarkAllUnknown DEF WellFormed
<1>3. CASE Publish
  <2>1. UNCHANGED <<body, ruledBy>>
    BY <1>3 DEF Publish, bodyVars
  <2>2. CASE UNCHANGED recordVars
    BY <1>1, <2>2 DEF recordVars
  <2>3. CASE /\ UNCHANGED nextVersion
             /\ \A v \in Windows :
                  record'[v] = record[v] \/ (record'[v].state = NoPage /\ record'[v].version = 0)
    BY <2>1, <2>3
  <2>4. CASE /\ query \in Queries /\ query.answer \in Pages
             /\ Observe(query.window, query.answer, query.asked)
    <3>1. query.window \in Windows /\ query.answer # NoPage
      BY <2>4, PagesAssumption DEF PagesAssumption, Queries
    <3>2. QED
      BY <2>1, <2>4, <3>1, ObserveOutcome
  <2>5. QED
    BY <1>3, <2>2, <2>3, <2>4, PublishOutcome
<1>4. CASE Resync \/ HearQuitChrome \/ Retarget \/ \E f \in Filters : Reload(f)
  <2>1. UNCHANGED <<body, ruledBy, nextVersion>> /\ (MarkAll \/ UNCHANGED record)
    BY <1>4 DEF Resync, HearQuitChrome, Retarget, Reload, bodyVars
  <2>2. QED
    BY <1>2, <2>1
<1>5. CASE \/ \E w \in Windows, p \in Pages : Navigate(w, p)
           \/ \E w \in Windows : Switch(w) \/ BeginConfirm(w)
           \/ Quit \/ HearSwitch \/ BeginFront \/ Answer \/ HearQuitContent
           \/ \E b \in Bodies, w \in Windows : Read(b, w)
           \/ \E b \in Bodies : Route(b) \/ Confirm(b) \/ Resolve(b) \/ Expire(b)
           \/ UNCHANGED vars
  <2>1. UNCHANGED <<record, nextVersion>>
    BY <1>5 DEF Navigate, Switch, BeginConfirm, Quit, HearSwitch, BeginFront, Answer,
                HearQuitContent, Read, Route, Confirm, Resolve, Expire, recordVars, vars
  <2>2. QED
    BY <1>1, <2>1
<1>6. QED
  BY <1>3, <1>4, <1>5 DEF Next

LEMMA VersionsNext == WellFormed /\ Versions /\ [Next]_vars => Versions'
<1> SUFFICES ASSUME WellFormed, Versions, [Next]_vars
             PROVE  Versions'
  OBVIOUS
<1>1. nextVersion \in Nat /\ \A w \in Windows : record[w].version \in Nat
  BY DEF WellFormed, TypeOK, Records
<1>2. CASE nextVersion' = nextVersion /\ \A w \in Windows : Stays(w) \/ Lost(w)
  BY <1>1, <1>2 DEF Versions, Stays, Lost
<1>3. ASSUME NEW u \in Windows, Renewed(u), \A w \in Windows \ {u} : Stays(w)
      PROVE  Versions'
  BY <1>1, <1>3 DEF Versions, Stays, Renewed
<1>4. QED
  BY <1>2, <1>3, RecordSteps DEF RecordStep

-----------------------------------------------------------------------------
(* The bodies: VersionPinsPage and WithinEveryRuling.                      *)

\* How a body moves: read, held, confirmed and decided, in this order; its
\* window and its decision's version and page stay from its reading on.
BodyRead(b, w) ==
  /\ body[b].status = "idle"
  /\ body'[b].status \in {"read", "dropped"} /\ body'[b].window = w
  /\ body'[b].decision = Decision(w)
  /\ ruledBy'[b] = ruledBy[b] \union {filter}
BodyHeld(b) ==
  /\ body[b].status = "read" /\ body'[b].status = "held"
  /\ body'[b].decision.version # 0
  /\ body'[b].decision.allowed /\ body[b].decision.allowed
  /\ record[body[b].window].state \in Allows[filter]
  /\ ruledBy'[b] = ruledBy[b] \union {filter}
BodyConfirmed(b) ==
  /\ body[b].status = "held" /\ body'[b].status = "confirmed"
  /\ b \in record[body[b].window].since
  /\ body'[b].decision = body[b].decision /\ ruledBy'[b] = ruledBy[b]
BodyKept(b) ==
  /\ body[b].status = "confirmed" /\ body'[b].status = "kept"
  /\ Bound(b) /\ record[body[b].window].state \in Allows[filter]
  /\ body'[b].decision = body[b].decision
  /\ ruledBy'[b] = ruledBy[b] \union {filter}
BodyGone(b) == Open(b) /\ body'[b].status \in {"bare", "dropped"}

BodyStep(b) ==
  /\ \A c \in Bodies \ {b} : body'[c] = body[c] /\ ruledBy'[c] = ruledBy[c]
  /\ UNCHANGED <<record, nextVersion, filter>>
  /\ \/ \E w \in Windows : BodyRead(b, w)
     \/ /\ BodyHeld(b) \/ BodyConfirmed(b) \/ BodyKept(b) \/ BodyGone(b)
        /\ body'[b].window = body[b].window
        /\ body'[b].decision.version = body[b].decision.version
        /\ body'[b].decision.context = body[b].decision.context

\* The steps of the workers are of this kind.
LEMMA BodySteps ==
  ASSUME WellFormed, Pinned, NEW b \in Bodies,
         (\E w \in Windows : Read(b, w)) \/ Route(b) \/ Confirm(b) \/ Resolve(b) \/ Expire(b)
  PROVE  BodyStep(b)
<1> DEFINE Body == [status : Statuses, window : Windows \union {NoWindow}, decision : Decisions]
<1>1. body \in [Bodies -> Body] /\ ruledBy \in [Bodies -> SUBSET Filters] /\ TypeOK
  BY DEF WellFormed, TypeOK
<1>2. Denied(b) \in {"bare", "dropped"}
  BY DEF Denied
<1>3. ASSUME Rule(b)
      PROVE  /\ ruledBy'[b] = ruledBy[b] \union {filter}
             /\ \A c \in Bodies \ {b} : ruledBy'[c] = ruledBy[c]
  BY <1>1, <1>3 DEF Rule
<1>4. UNCHANGED <<record, nextVersion, filter>>
  BY DEF Read, Route, Confirm, Resolve, Expire, recordVars
<1>5. ASSUME NEW w \in Windows, Read(b, w)
      PROVE  BodyStep(b)
  <2> DEFINE new == [status |-> IF Decision(w).allowed \/ KindOf[b] = "text" THEN "read" ELSE "dropped",
                     window |-> w, decision |-> Decision(w)]
  <2>1. body' = [body EXCEPT ![b] = new] /\ Rule(b) /\ body[b].status = "idle"
    BY <1>5 DEF Read
  <2>2. new.status \in {"read", "dropped"} /\ new.window = w /\ new.decision = Decision(w)
    OBVIOUS
  <2> HIDE DEF new
  <2>3. body'[b] = new /\ \A c \in Bodies \ {b} : body'[c] = body[c]
    BY <1>1, <2>1
  <2>4. BodyRead(b, w)
    BY <1>3, <2>1, <2>2, <2>3 DEF BodyRead
  <2>5. QED
    BY <1>3, <1>4, <2>1, <2>3, <2>4 DEF BodyStep
<1>6. ASSUME NEW s \in Statuses, body' = [body EXCEPT ![b].status = s]
      PROVE  /\ \A c \in Bodies \ {b} : body'[c] = body[c]
             /\ body'[b].status = s /\ body'[b].window = body[b].window
             /\ body'[b].decision = body[b].decision
  BY <1>1, <1>6
<1>7. ASSUME Route(b)
      PROVE  BodyStep(b)
  <2> DEFINE w == body[b].window
             d == DecisionAtSend(w, body[b].decision)
  <2>1. w \in Windows /\ body[b].decision \in Decisions /\ Open(b) /\ Rule(b) /\ body[b].status = "read"
    BY <1>1, <1>7 DEF Route, Pinned, PinnedBody, Open
  <2>2. /\ d.version = body[b].decision.version /\ d.context = body[b].decision.context
        /\ d.allowed => body[b].decision.allowed /\ record[w].state \in Allows[filter]
    BY <1>1, <2>1, DecisionTypes
  <2> HIDE DEF d
  <2>3. CASE d.allowed /\ d.version # 0 /\ Hold(b, d)
    <3>1. /\ \A c \in Bodies \ {b} : body'[c] = body[c]
          /\ body'[b].status = "held" /\ body'[b].window = w /\ body'[b].decision = d
      BY <1>1, <2>3 DEF Hold
    <3>2. BodyHeld(b)
      BY <1>3, <2>1, <2>2, <2>3, <3>1 DEF BodyHeld
    <3>3. QED
      BY <1>3, <1>4, <2>1, <2>2, <3>1, <3>2 DEF BodyStep
  <2>4. CASE body' = [body EXCEPT ![b].status = Denied(b)]
    <3>1. Denied(b) \in Statuses
      BY <1>2 DEF Statuses
    <3>2. BodyGone(b) /\ body'[b].window = body[b].window /\ body'[b].decision = body[b].decision
      BY <1>2, <1>6, <2>1, <2>4, <3>1 DEF BodyGone
    <3>3. QED
      BY <1>3, <1>4, <1>6, <2>1, <2>4, <3>1, <3>2 DEF BodyStep
  <2>5. QED
    BY <1>7, <2>3, <2>4 DEF Route, d
<1>8. ASSUME Confirm(b)
      PROVE  BodyStep(b)
  <2>1. "confirmed" \in Statuses /\ UNCHANGED ruledBy
    BY <1>8 DEF Statuses, Confirm
  <2>2. BodyConfirmed(b) /\ body'[b].window = body[b].window
    BY <1>6, <1>8, <2>1 DEF Confirm, BodyConfirmed
  <2>3. QED
    BY <1>4, <1>6, <1>8, <2>1, <2>2 DEF Confirm, BodyStep, BodyConfirmed
<1>9. ASSUME Resolve(b)
      PROVE  BodyStep(b)
  <2>1. body[b].status = "confirmed" /\ Open(b) /\ Rule(b) /\ body[b].window \in Windows
    BY <1>9 DEF Resolve, Pinned, PinnedBody, Open
  <2> DEFINE w    == body[b].window
             keep == Decision(w).allowed /\ Decision(w).version = body[b].decision.version
  <2>2. keep => Bound(b) /\ record[w].state \in Allows[filter]
    BY DEF Decision, Bound
  <2>3. PICK outcome \in {IF keep THEN "kept" ELSE Denied(b), "dropped"} :
          body' = [body EXCEPT ![b].status = outcome]
    BY <1>9 DEF Resolve
  <2>4. outcome \in Statuses
    BY <1>2 DEF Statuses
  <2>5. \/ keep /\ outcome = "kept"
        \/ outcome \in {"bare", "dropped"}
    BY <1>2
  <2> HIDE DEF keep
  <2>6. BodyKept(b) \/ BodyGone(b)
    BY <1>3, <1>6, <2>1, <2>2, <2>3, <2>4, <2>5 DEF BodyKept, BodyGone
  <2>7. QED
    BY <1>3, <1>4, <1>6, <2>1, <2>3, <2>4, <2>6 DEF BodyStep
<1>10. ASSUME Expire(b)
       PROVE  BodyStep(b)
  <2>1. Denied(b) \in Statuses /\ UNCHANGED ruledBy /\ Open(b)
    BY <1>2, <1>10 DEF Statuses, Expire, Open
  <2>2. BodyGone(b)
    BY <1>2, <1>6, <1>10, <2>1 DEF Expire, BodyGone
  <2>3. QED
    BY <1>4, <1>6, <1>10, <2>1, <2>2 DEF Expire, BodyStep
<1>11. QED
  BY <1>5, <1>7, <1>8, <1>9, <1>10

\* Every step keeps the bodies or is one of these.
LEMMA Steps ==
  ASSUME WellFormed, Pinned, [Next]_vars
  PROVE  UNCHANGED <<body, ruledBy>> \/ \E b \in Bodies : BodyStep(b)
<1>1. CASE \E b \in Bodies :
             (\E w \in Windows : Read(b, w)) \/ Route(b) \/ Confirm(b) \/ Resolve(b) \/ Expire(b)
  BY <1>1, BodySteps
<1>2. CASE \/ \E w \in Windows, p \in Pages : Navigate(w, p)
           \/ \E w \in Windows : Switch(w) \/ BeginConfirm(w)
           \/ Quit \/ HearSwitch \/ BeginFront \/ Answer \/ HearQuitContent
           \/ Publish \/ Resync \/ HearQuitChrome \/ Retarget \/ \E f \in Filters : Reload(f)
           \/ UNCHANGED vars
  BY <1>2 DEF Navigate, Switch, BeginConfirm, Quit, HearSwitch, BeginFront, Answer, Publish,
              HearQuitContent, Resync, HearQuitChrome, Retarget, Reload, bodyVars, vars
<1>3. QED
  BY <1>1, <1>2 DEF Next

\* A version that was handed out is never given to another record, so a body
\* whose record is in force has not lost it before.
LEMMA BoundStays ==
  ASSUME WellFormed, Pinned, [Next]_vars, UNCHANGED body, NEW b \in Bodies, Open(b),
         body[b].decision.version # 0
  PROVE  /\ Bound(b)' => Bound(b)
         /\ \A w \in Windows : record'[w].version = body[b].decision.version => Stays(w)
         /\ nextVersion' >= nextVersion
<1>1. nextVersion \in Nat /\ body[b].decision.version <= nextVersion /\ body[b].window \in Windows
  BY DEF WellFormed, TypeOK, Pinned, PinnedBody
<1>2. body[b].decision.version \in Nat
  BY DEF WellFormed, TypeOK, Decisions
<1>3. CASE nextVersion' = nextVersion /\ \A w \in Windows : Stays(w) \/ Lost(w)
  BY <1>1, <1>2, <1>3 DEF Stays, Lost, Bound
<1>4. ASSUME NEW u \in Windows, Renewed(u), \A w \in Windows \ {u} : Stays(w)
      PROVE  /\ Bound(b)' => Bound(b)
             /\ \A w \in Windows : record'[w].version = body[b].decision.version => Stays(w)
             /\ nextVersion' >= nextVersion
  BY <1>1, <1>2, <1>4 DEF Stays, Renewed, Bound
<1>5. QED
  BY <1>3, <1>4, RecordSteps DEF RecordStep

LEMMA PinnedNext == WellFormed /\ Versions /\ Pinned /\ [Next]_vars => Pinned'
<1> SUFFICES ASSUME WellFormed, Versions, Pinned, [Next]_vars, NEW b \in Bodies, Open(b)'
             PROVE  PinnedBody(b)'
  BY DEF Pinned
<1>1. body[b].decision.version \in Nat /\ nextVersion \in Nat /\ nextVersion' \in Nat
  BY Types DEF WellFormed, TypeOK, Decisions
<1>2. CASE UNCHANGED <<body, ruledBy>>
  <2>1. Open(b) /\ (b \in Waiting' <=> b \in Waiting) /\ PinnedBody(b)
    BY <1>2 DEF Open, Waiting, Pinned
  <2>2. nextVersion' >= nextVersion
    BY <1>1, RecordSteps DEF RecordStep, Renewed
  <2>3. ASSUME NEW w \in Windows, record'[w].version = body[b].decision.version, record'[w].version # 0
        PROVE  w = body[b].window /\ record'[w].state = body[b].decision.context
    BY <1>2, <2>1, <2>3, BoundStays DEF PinnedBody, Stays
  <2>4. QED
    BY <1>1, <1>2, <2>1, <2>2, <2>3 DEF PinnedBody
<1>3. ASSUME NEW c \in Bodies, BodyStep(c)
      PROVE  PinnedBody(b)'
  <2>1. UNCHANGED <<record, nextVersion, filter>>
    BY <1>3 DEF BodyStep
  <2>2. CASE c # b
    <3>1. body'[b] = body[b]
      BY <1>3, <2>2 DEF BodyStep
    <3>2. Open(b) /\ (b \in Waiting' <=> b \in Waiting)
      BY <3>1 DEF Open, Waiting
    <3>3. QED
      BY <2>1, <3>1, <3>2 DEF Pinned, PinnedBody
  <2>3. ASSUME c = b, NEW w \in Windows, BodyRead(b, w)
        PROVE  PinnedBody(b)'
    <3>1. b \notin Waiting'
      BY <2>3 DEF BodyRead, Waiting
    <3>2. /\ body'[b].window = w /\ body'[b].decision.version = record[w].version
          /\ body'[b].decision.context = record[w].state
          /\ body'[b].decision.allowed => record[w].state \in Allows[filter]
      BY <2>3, DecisionFields DEF BodyRead
    <3>3. record[w].state \in Allows[filter] => record[w].version # 0
      BY PagesAssumption, FiltersAssumption
      DEF PagesAssumption, FiltersAssumption, Versions, WellFormed, TypeOK
    <3>4. QED
      BY <2>1, <3>1, <3>2, <3>3 DEF Versions, PinnedBody
  <2>4. CASE c = b /\ (BodyHeld(b) \/ BodyConfirmed(b) \/ BodyKept(b) \/ BodyGone(b))
    <3>1. BodyHeld(b) \/ BodyConfirmed(b)
      BY <2>4 DEF BodyKept, BodyGone, Open
    <3>2. PinnedBody(b) /\ body'[b].decision.allowed /\ body[b].decision.allowed
      <4>1. CASE BodyHeld(b)
        BY <4>1 DEF BodyHeld, Pinned, Open
      <4>2. CASE BodyConfirmed(b)
        BY <4>2 DEF BodyConfirmed, Pinned, PinnedBody, Open, Waiting
      <4>3. QED
        BY <3>1, <4>1, <4>2
    <3>3. /\ body'[b].window = body[b].window
          /\ body'[b].decision.version = body[b].decision.version
          /\ body'[b].decision.context = body[b].decision.context
      BY <1>3, <2>4 DEF BodyStep, BodyRead, BodyHeld, BodyConfirmed, BodyKept, BodyGone, Open
    <3>4. QED
      BY <2>1, <3>2, <3>3 DEF PinnedBody
  <2>5. QED
    BY <1>3, <2>2, <2>3, <2>4 DEF BodyStep
<1>4. QED
  BY <1>2, <1>3, Steps

LEMMA RuledNext == WellFormed /\ Pinned /\ Ruled /\ [Next]_vars => Ruled'
<1> SUFFICES ASSUME WellFormed, Pinned, Ruled, [Next]_vars, NEW b \in Bodies
             PROVE  RuledBody(b)' /\ (body'[b].status = "idle" => ruledBy'[b] = {})
  BY DEF Ruled
<1>1. RuledBody(b) /\ (body[b].status = "idle" => ruledBy[b] = {})
  BY DEF Ruled
<1>2. CASE UNCHANGED <<body, ruledBy>>
  <2>1. ASSUME Open(b), body[b].decision.allowed, Bound(b)'
        PROVE  Bound(b)
    BY <1>2, <2>1, BoundStays DEF Pinned, PinnedBody
  <2>2. QED
    BY <1>1, <1>2, <2>1 DEF RuledBody, Kept, Open
<1>3. ASSUME NEW c \in Bodies, BodyStep(c)
      PROVE  RuledBody(b)' /\ (body'[b].status = "idle" => ruledBy'[b] = {})
  <2>1. UNCHANGED record
    BY <1>3 DEF BodyStep
  <2>2. CASE c # b
    <3>1. body'[b] = body[b] /\ ruledBy'[b] = ruledBy[b]
      BY <1>3, <2>2 DEF BodyStep
    <3>2. QED
      BY <1>1, <2>1, <3>1 DEF RuledBody, Kept, Open, Bound
  <2>3. ASSUME c = b, NEW w \in Windows, BodyRead(b, w)
        PROVE  RuledBody(b)' /\ (body'[b].status = "idle" => ruledBy'[b] = {})
    <3>1. ruledBy'[b] = {filter} /\ ~Kept(b)' /\ body'[b].status # "idle"
      BY <1>1, <2>3 DEF BodyRead, Kept
    <3>2. body'[b].decision.allowed => body'[b].decision.context \in Allows[filter]
      BY <2>3, DecisionFields DEF BodyRead
    <3>3. QED
      BY <3>1, <3>2 DEF RuledBody
  <2>4. ASSUME c = b,
               /\ BodyHeld(b) \/ BodyConfirmed(b) \/ BodyKept(b) \/ BodyGone(b)
               /\ body'[b].window = body[b].window
               /\ body'[b].decision.version = body[b].decision.version
               /\ body'[b].decision.context = body[b].decision.context
        PROVE  RuledBody(b)' /\ (body'[b].status = "idle" => ruledBy'[b] = {})
    <3>1. Open(b) /\ PinnedBody(b) /\ body'[b].status # "idle"
      BY <2>4 DEF BodyHeld, BodyConfirmed, BodyKept, BodyGone, Open, Pinned
    <3>2. Bound(b)' <=> Bound(b)
      BY <2>1, <2>4 DEF Bound
    <3>3. CASE BodyGone(b)
      BY <3>1, <3>3 DEF BodyGone, RuledBody, Kept, Open
    <3>4. body[b].decision.allowed \/ BodyGone(b)
      BY <2>4, <3>1 DEF BodyHeld, BodyConfirmed, BodyKept, PinnedBody, Waiting
    <3>5. ASSUME Bound(b), body[b].decision.allowed
          PROVE  /\ record[body[b].window].state = body[b].decision.context
                 /\ \A f \in ruledBy[b] : body[b].decision.context \in Allows[f]
      BY <1>1, <3>1, <3>5 DEF RuledBody, PinnedBody, Bound
    <3>6. CASE BodyConfirmed(b)
      BY <2>4, <3>1, <3>2, <3>4, <3>5, <3>6 DEF BodyConfirmed, RuledBody, Kept, BodyGone
    <3>7. CASE BodyHeld(b) \/ BodyKept(b)
      <4>1. Bound(b)' \/ Kept(b)' => Bound(b)
        BY <3>2, <3>7 DEF BodyHeld, BodyKept, Kept
      <4>2. /\ record[body[b].window].state \in Allows[filter]
            /\ ruledBy'[b] = ruledBy[b] \union {filter} /\ body[b].decision.allowed
        BY <3>4, <3>7 DEF BodyHeld, BodyKept, BodyGone
      <4>3. QED
        BY <2>4, <3>1, <3>5, <4>1, <4>2 DEF RuledBody
    <3>8. QED
      BY <2>4, <3>1, <3>3, <3>6, <3>7
  <2>5. QED
    BY <1>3, <2>2, <2>3, <2>4 DEF BodyStep
<1>4. QED
  BY <1>2, <1>3, Steps
-----------------------------------------------------------------------------
(* What was shown: ShownAfterHold.                                         *)

\* Seen reads these variables only.
LEMMA SeenFrame ==
  ASSUME Seen, UNCHANGED <<page, focus, record, query, body, shown, misread>>
  PROVE  Seen'
BY DEF Seen, NotYetHeld, PageIsShown, OwnName, QueryIsTrue, RecordIsTrue, ConfirmedIsTrue,
       Waiting, Kept, Bound

LEMMA SeenNavigate ==
  ASSUME WellFormed, Pinned, Seen, NEW w \in Windows, NEW p \in Pages, Navigate(w, p)
  PROVE  Seen'
<1>1. /\ UNCHANGED <<focus, record, query, body, misread>>
      /\ Waiting' = Waiting /\ \A b \in Bodies : shown[b] \subseteq shown'[b]
  BY DEF Navigate, recordVars, bodyVars, Waiting, WellFormed, TypeOK
<1>2. PageIsShown'
  <2> SUFFICES ASSUME NEW b \in Waiting
               PROVE  page'[body[b].window] \in shown'[b]
    BY <1>1 DEF PageIsShown
  <2>1. b \in Bodies /\ body[b].window \in Windows
    BY DEF Waiting, Pinned, PinnedBody, Open
  <2>2. CASE body[b].window = w
    BY <2>1, <2>2 DEF Navigate, WellFormed, TypeOK
  <2>3. CASE body[b].window # w
    BY <1>1, <2>1, <2>3 DEF Navigate, WellFormed, TypeOK, Seen, PageIsShown
  <2>4. QED
    BY <2>2, <2>3
<1>3. NotYetHeld' /\ OwnName'
  BY <1>1 DEF Seen, NotYetHeld, OwnName
<1>4. QueryIsTrue' /\ RecordIsTrue'
  BY <1>1 DEF Seen, QueryIsTrue, RecordIsTrue, Waiting
<1>5. ConfirmedIsTrue'
  BY <1>1 DEF Seen, ConfirmedIsTrue, Kept, Bound
<1>6. QED
  BY <1>2, <1>3, <1>4, <1>5 DEF Seen

\* The steps that only change the query.
LEMMA SeenQuery ==
  ASSUME WellFormed, Seen, HearSwitch \/ BeginFront \/ (\E w \in Windows : BeginConfirm(w)) \/ Answer
  PROVE  Seen'
<1>1. UNCHANGED <<page, record, body, shown, misread>> /\ Waiting' = Waiting
  BY DEF HearSwitch, BeginFront, BeginConfirm, Answer, browserVars, recordVars, bodyVars, Waiting
<1>2. PageIsShown' /\ OwnName' /\ RecordIsTrue' /\ ConfirmedIsTrue'
  BY <1>1 DEF Seen, PageIsShown, OwnName, RecordIsTrue, ConfirmedIsTrue, Kept, Bound
<1>3. \A b \in Bodies : body[b].status \in {"idle", "read"} =>
        b \notin Waiting /\ \A w \in Windows : b \notin record[w].since
  BY DEF Seen, NotYetHeld, Waiting
<1>4. CASE HearSwitch
  <2>1. CASE query = NoQuery
    BY <1>1, <1>2, <1>3, <1>4, <2>1 DEF HearSwitch, NotYetHeld, QueryIsTrue, Seen
  <2>2. CASE query # NoQuery
    <3>1. query \in Queries /\ query' = [query EXCEPT !.moved = TRUE]
      BY <1>4, <2>2 DEF HearSwitch, WellFormed, TypeOK
    <3>2. /\ query'.kind = query.kind /\ query'.window = query.window /\ query'.asked = query.asked
          /\ query'.answer = query.answer /\ query'.after = query.after /\ query'.moved
      BY <3>1 DEF Queries
    <3>3. NotYetHeld'
      BY <1>1, <2>2, <3>2 DEF Seen, NotYetHeld
    <3>4. QueryIsTrue'
      BY <1>1, <2>2, <3>2 DEF Seen, QueryIsTrue
    <3>5. QED
      BY <1>2, <3>3, <3>4 DEF Seen
  <2>3. QED
    BY <2>1, <2>2
<1>5. CASE BeginFront
  <2>1. /\ query'.kind = "front" /\ query'.window = focus /\ ~query'.moved
        /\ query'.after = Waiting /\ query'.answer = NoPage /\ focus' = focus
    BY <1>5 DEF BeginFront
  <2>2. NotYetHeld' /\ QueryIsTrue'
    BY <1>1, <1>3, <2>1, PagesAssumption DEF PagesAssumption, NotYetHeld, QueryIsTrue
  <2>3. QED
    BY <1>2, <2>2 DEF Seen
<1>6. ASSUME NEW w \in Windows, BeginConfirm(w)
      PROVE  Seen'
  <2>1. /\ query'.kind = "window" /\ query'.window = w /\ query'.asked = record[w].named
        /\ query'.after = Waiting /\ query'.answer = NoPage /\ record[w].named # NoWindow
    BY <1>6 DEF BeginConfirm
  <2>2. w \notin misread => query'.asked = w
    BY <2>1 DEF Seen, OwnName
  <2>3. NotYetHeld' /\ QueryIsTrue'
    BY <1>1, <1>3, <2>1, <2>2, PagesAssumption DEF PagesAssumption, NotYetHeld, QueryIsTrue
  <2>4. QED
    BY <1>2, <2>3 DEF Seen
<1>7. CASE Answer
  <2> DEFINE w == IF query.kind = "front" THEN front ELSE query.asked
  <2>1. query # NoQuery /\ query \in Queries /\ focus' = focus
    BY <1>7 DEF Answer, WellFormed, TypeOK
  <2>2. CASE query' = [query EXCEPT !.answer = page[w], !.asked = w,
                                    !.lagged = (query.kind = "front" /\ focus # front)]
    <3>1. /\ query'.kind = query.kind /\ query'.window = query.window /\ query'.moved = query.moved
          /\ query'.after = query.after /\ query'.asked = w /\ query'.answer = page[w]
          /\ query'.lagged = (query.kind = "front" /\ focus # front)
      BY <2>1, <2>2 DEF Queries
    <3>2. NotYetHeld'
      BY <1>1, <2>1, <3>1 DEF Seen, NotYetHeld
    <3>3. \A b \in Waiting \intersect query'.after :
            body[b].window = query'.asked => query'.answer \in shown[b]
      BY <3>1 DEF Seen, PageIsShown
    <3>4. query'.kind = "window" /\ query'.window \notin misread => query'.asked = query'.window
      BY <2>1, <3>1 DEF Seen, QueryIsTrue
    <3>5. /\ query'.kind = "front" /\ ~query'.moved => query'.window = focus
          /\ query'.kind = "front" /\ ~query'.moved /\ ~query'.lagged => query'.asked = query'.window
      BY <2>1, <3>1 DEF Seen, QueryIsTrue
    <3>6. QueryIsTrue'
      BY <1>1, <2>1, <3>3, <3>4, <3>5 DEF QueryIsTrue
    <3>7. QED
      BY <1>2, <3>2, <3>6 DEF Seen
  <2>3. ASSUME NEW a \in {"failed", "no_window", "not_running"}, query' = [query EXCEPT !.answer = a]
        PROVE  Seen'
    <3>1. /\ query'.kind = query.kind /\ query'.window = query.window /\ query'.moved = query.moved
          /\ query'.after = query.after /\ query'.asked = query.asked /\ query'.answer \notin Pages
      BY <2>1, <2>3, PagesAssumption DEF PagesAssumption, Queries
    <3>2. NotYetHeld'
      BY <1>1, <2>1, <3>1 DEF Seen, NotYetHeld
    <3>3. QueryIsTrue'
      BY <1>1, <2>1, <3>1 DEF Seen, QueryIsTrue
    <3>4. QED
      BY <1>2, <3>2, <3>3 DEF Seen
  <2>4. QED
    BY <1>7, <2>2, <2>3 DEF Answer
<1>8. QED
  BY <1>4, <1>5, <1>6, <1>7

\* The steps that take the page from every record, or none.
LEMMA SeenMarked ==
  ASSUME WellFormed, Pinned, Seen, [Next]_vars,
         Resync \/ HearQuitChrome \/ Retarget \/ \E f \in Filters : Reload(f)
  PROVE  Seen'
<1>1. UNCHANGED <<page, focus, body, shown, misread>> /\ Waiting' = Waiting
  BY DEF Resync, HearQuitChrome, Retarget, Reload, browserVars, bodyVars, Waiting
<1>2. \/ query = NoQuery /\ query' = NoQuery
      \/ /\ query # NoQuery /\ query' # NoQuery
         /\ query'.kind = query.kind /\ query'.window = query.window
         /\ query'.asked = query.asked /\ query'.moved = query.moved
         /\ query'.lagged = query.lagged /\ query'.answer = query.answer
         /\ query'.after = query.after
  BY OutdateKeeps DEF Resync, HearQuitChrome, Retarget, Reload, WellFormed
<1>3. \A w \in Windows :
        \/ record'[w] = record[w]
        \/ record'[w].state = NoPage /\ record'[w].named = record[w].named /\ record'[w].since = Waiting
  BY MarkAllUnknown DEF Resync, HearQuitChrome, Retarget, Reload, WellFormed
<1>4. NotYetHeld'
  BY <1>1, <1>2, <1>3 DEF Seen, NotYetHeld, Waiting
<1>5. PageIsShown' /\ OwnName'
  BY <1>1, <1>3 DEF Seen, PageIsShown, OwnName
<1>6. QueryIsTrue'
  BY <1>1, <1>2 DEF Seen, QueryIsTrue
<1>7. RecordIsTrue'
  BY <1>1, <1>3 DEF Seen, RecordIsTrue
<1>8. ConfirmedIsTrue'
  <2>1. ASSUME NEW b \in Bodies, body[b].status = "confirmed", Bound(b)'
        PROVE  Bound(b)
    BY <1>1, <2>1, BoundStays DEF Pinned, PinnedBody, Open, Waiting
  <2>2. QED
    BY <1>1, <2>1 DEF Seen, ConfirmedIsTrue, Kept
<1>9. QED
  BY <1>4, <1>5, <1>6, <1>7, <1>8 DEF Seen

LEMMA SeenPublish ==
  ASSUME WellFormed, Pinned, Seen, [Next]_vars, Publish
  PROVE  Seen'
<1>1. /\ UNCHANGED <<page, focus, body, shown>> /\ Waiting' = Waiting
      /\ query # NoQuery /\ query \in Queries /\ query' = NoQuery
  BY PublishOutcome DEF Publish, browserVars, bodyVars, Waiting
<1>2. misread \subseteq misread'
  BY PublishOutcome
<1>3. PageIsShown' /\ QueryIsTrue'
  BY <1>1 DEF Seen, PageIsShown, QueryIsTrue
<1>4. ConfirmedIsTrue'
  <2>1. ASSUME NEW b \in Bodies, body[b].status = "confirmed", Bound(b)'
        PROVE  Bound(b)
    BY <1>1, <2>1, BoundStays DEF Pinned, PinnedBody, Open, Waiting
  <2>2. QED
    BY <1>1, <1>2, <2>1 DEF Seen, ConfirmedIsTrue, Kept
<1>5. CASE \A v \in Windows :
             \/ record'[v] = record[v]
             \/ /\ record'[v].state = NoPage
                /\ record'[v].named = record[v].named /\ record'[v].since = query.after
  <2>1. NotYetHeld'
    BY <1>1, <1>5 DEF Seen, NotYetHeld
  <2>2. OwnName' /\ RecordIsTrue'
    BY <1>1, <1>2, <1>5 DEF Seen, OwnName, RecordIsTrue
  <2>3. QED
    BY <1>3, <1>4, <2>1, <2>2 DEF Seen
<1>6. CASE /\ ~(query.kind = "front" /\ query.moved) /\ query.answer \in Pages
           /\ Observe(query.window, query.answer, query.asked)
           /\ misread' = IF query.lagged THEN misread \union {query.window} ELSE misread
  <2>1. query.window \in Windows
    BY <1>1 DEF Queries
  <2>2. /\ \A v \in Windows \ {query.window} : record'[v] = record[v]
        /\ record'[query.window].state = query.answer /\ record'[query.window].since = query.after
        /\ \/ record'[query.window].named = record[query.window].named
           \/ record'[query.window].named = query.asked
    BY <1>1, <1>6, <2>1, ObserveOutcome
  <2>3. query.window \notin misread' => query.asked = query.window
    BY <1>1, <1>2, <1>6 DEF Seen, QueryIsTrue, Queries
  <2>4. NotYetHeld'
    BY <1>1, <2>1, <2>2 DEF Seen, NotYetHeld
  <2>5. OwnName'
    BY <1>2, <2>1, <2>2, <2>3 DEF Seen, OwnName
  <2>6. RecordIsTrue'
    <3> SUFFICES ASSUME NEW v \in Windows, v \notin misread', record'[v].state # NoPage,
                        NEW b \in Waiting \intersect record'[v].since, body[b].window = v
                 PROVE  record'[v].state \in shown[b]
      BY <1>1 DEF RecordIsTrue
    <3>1. CASE v = query.window
      BY <1>1, <1>6, <2>2, <2>3, <3>1 DEF Seen, QueryIsTrue
    <3>2. CASE v # query.window
      BY <1>2, <2>2, <3>2 DEF Seen, RecordIsTrue
    <3>3. QED
      BY <3>1, <3>2
  <2>7. QED
    BY <1>3, <1>4, <2>4, <2>5, <2>6 DEF Seen
<1>7. QED
  BY <1>5, <1>6, PublishOutcome DEF recordVars

LEMMA SeenBodies ==
  ASSUME WellFormed, Versions, Pinned, Seen, NEW b \in Bodies,
         (\E w \in Windows : Read(b, w)) \/ Route(b) \/ Confirm(b) \/ Resolve(b) \/ Expire(b)
  PROVE  Seen'
<1>1. UNCHANGED <<page, focus, record, query, misread>>
  BY DEF Read, Route, Confirm, Resolve, Expire, browserVars, recordVars
<1>2. BodyStep(b)
  BY BodySteps
<1>3. /\ \A c \in Bodies \ {b} : body'[c] = body[c]
      /\ \A c \in Bodies \ {b} : shown'[c] = shown[c]
      /\ shown'[b] = shown[b] \/ (body[b].status = "read" /\ shown'[b] = {page[body[b].window]})
  <2>1. UNCHANGED shown \/ (body[b].status = "read" /\ shown' = [shown EXCEPT ![b] = {page[body[b].window]}])
    BY DEF Read, Route, Hold, Confirm, Resolve, Expire
  <2>2. QED
    BY <1>2, <2>1 DEF BodyStep, WellFormed, TypeOK
<1>4. NotYetHeld'
  <2>1. body'[b].status \in {"idle", "read"} => body[b].status = "idle"
    BY <1>2 DEF BodyStep, BodyRead, BodyHeld, BodyConfirmed, BodyKept, BodyGone
  <2>2. QED
    BY <1>1, <1>3, <2>1 DEF Seen, NotYetHeld
<1>5. \A c \in Bodies \ {b} : c \in Waiting' <=> c \in Waiting
  BY <1>3 DEF Waiting
<1>6. b \in Waiting' =>
        /\ body'[b].window = body[b].window
        /\ \/ b \in Waiting /\ shown'[b] = shown[b]
           \/ body[b].status = "read" /\ shown'[b] = {page[body[b].window]}
  <2>1. CASE \E w \in Windows : BodyRead(b, w)
    BY <2>1 DEF BodyRead, Waiting
  <2>2. CASE /\ BodyHeld(b) \/ BodyConfirmed(b) \/ BodyKept(b) \/ BodyGone(b)
             /\ body'[b].window = body[b].window
    <3>1. CASE BodyHeld(b)
      <4>1. Route(b) /\ body'[b].status = "held"
        BY <3>1 DEF BodyHeld, Read, Route, Confirm, Resolve, Expire
      <4>2. Denied(b) # "held"
        BY DEF Denied
      <4>3. shown'[b] = {page[body[b].window]}
        BY <4>1, <4>2 DEF Route, Hold, WellFormed, TypeOK
      <4>4. QED
        BY <2>2, <3>1, <4>3 DEF BodyHeld
    <3>2. CASE BodyConfirmed(b)
      BY <1>3, <2>2, <3>2 DEF BodyConfirmed, Waiting
    <3>3. CASE BodyKept(b) \/ BodyGone(b)
      BY <3>3 DEF BodyKept, BodyGone, Waiting
    <3>4. QED
      BY <2>2, <3>1, <3>2, <3>3
  <2>3. QED
    BY <1>2, <2>1, <2>2 DEF BodyStep
<1>7. PageIsShown'
  <2> SUFFICES ASSUME NEW c \in Waiting'
               PROVE  page[body'[c].window] \in shown'[c]
    BY <1>1 DEF PageIsShown
  <2>1. c \in Bodies
    BY DEF Waiting
  <2>2. CASE c = b
    BY <1>6, <2>2 DEF Seen, PageIsShown
  <2>3. CASE c # b
    BY <1>3, <1>5, <2>1, <2>3 DEF Seen, PageIsShown
  <2>4. QED
    BY <2>2, <2>3
<1>8. OwnName'
  BY <1>1 DEF Seen, OwnName
<1>9. ASSUME NEW c \in Waiting', NEW S, c \in S,
             body[c].status = "read" => c \notin S
      PROVE  c \in Waiting /\ body'[c].window = body[c].window /\ shown'[c] = shown[c]
  BY <1>3, <1>5, <1>6, <1>9 DEF Waiting
<1>10. QueryIsTrue'
  <2> SUFFICES ASSUME query # NoQuery, query.answer \in Pages,
                      NEW c \in Waiting' \intersect query.after, body'[c].window = query.asked
               PROVE  query.answer \in shown'[c]
    BY <1>1 DEF Seen, QueryIsTrue
  <2>1. body[c].status = "read" => c \notin query.after
    BY DEF Seen, NotYetHeld, Waiting
  <2>2. c \in Waiting /\ body'[c].window = body[c].window /\ shown'[c] = shown[c]
    BY <1>9, <2>1
  <2>3. QED
    BY <2>2 DEF Seen, QueryIsTrue
<1>11. RecordIsTrue'
  <2> SUFFICES ASSUME NEW v \in Windows \ misread, record[v].state # NoPage,
                      NEW c \in Waiting' \intersect record[v].since, body'[c].window = v
               PROVE  record[v].state \in shown'[c]
    BY <1>1 DEF RecordIsTrue
  <2>1. body[c].status = "read" => c \notin record[v].since
    BY DEF Seen, NotYetHeld, Waiting
  <2>2. c \in Waiting /\ body'[c].window = body[c].window /\ shown'[c] = shown[c]
    BY <1>9, <2>1
  <2>3. QED
    BY <2>2 DEF Seen, RecordIsTrue
<1>12. ConfirmedIsTrue'
  <2> SUFFICES ASSUME NEW c \in Bodies, body'[c].window \notin misread,
                      Kept(c)' \/ (body'[c].status = "confirmed" /\ Bound(c)')
               PROVE  body'[c].decision.context \in shown'[c]
    BY <1>1 DEF ConfirmedIsTrue
  <2>1. CASE c # b
    BY <1>1, <1>3, <2>1 DEF Seen, ConfirmedIsTrue, Kept, Bound
  <2>2. CASE c = b
    <3>1. /\ BodyConfirmed(b) \/ BodyKept(b)
          /\ body'[b].window = body[b].window
          /\ body'[b].decision.context = body[b].decision.context
          /\ body'[b].decision.version = body[b].decision.version
      BY <1>2, <2>2 DEF BodyStep, BodyRead, BodyHeld, BodyConfirmed, BodyKept, BodyGone, Kept
    <3>2. shown'[b] = shown[b]
      BY <1>3, <3>1 DEF BodyConfirmed, BodyKept
    <3>3. CASE BodyKept(b)
      BY <2>2, <3>1, <3>2, <3>3 DEF BodyKept, Seen, ConfirmedIsTrue
    <3>4. CASE BodyConfirmed(b)
      <4>1. /\ PinnedBody(b) /\ b \in Waiting /\ body[b].window \in Windows
            /\ body[b].decision.version # 0
        BY <3>4 DEF BodyConfirmed, Pinned, PinnedBody, Open, Waiting
      <4>2. Bound(b)
        BY <1>1, <2>2, <3>1, <3>4 DEF Bound, BodyConfirmed, Kept
      <4>3. record[body[b].window].state = body[b].decision.context
            /\ record[body[b].window].state # NoPage
        BY <4>1, <4>2 DEF PinnedBody, Bound, Versions
      <4>4. b \in record[body[b].window].since
        BY <3>4 DEF BodyConfirmed
      <4>5. record[body[b].window].state \in shown[b]
        BY <2>2, <3>1, <4>1, <4>3, <4>4 DEF Seen, RecordIsTrue
      <4>6. QED
        BY <2>2, <3>1, <3>2, <4>3, <4>5
    <3>5. QED
      BY <3>1, <3>3, <3>4
  <2>3. QED
    BY <2>1, <2>2
<1>13. QED
  BY <1>4, <1>7, <1>8, <1>10, <1>11, <1>12 DEF Seen

LEMMA SeenNext == WellFormed /\ Versions /\ Pinned /\ Seen /\ [Next]_vars => Seen'
<1> SUFFICES ASSUME WellFormed, Versions, Pinned, Seen, [Next]_vars
             PROVE  Seen'
  OBVIOUS
<1>1. CASE (\E w \in Windows : Switch(w)) \/ Quit \/ HearQuitContent \/ UNCHANGED vars
  <2>1. UNCHANGED <<page, focus, record, query, body, shown, misread>>
    BY <1>1 DEF Switch, Quit, HearQuitContent, browserVars, recordVars, bodyVars, vars
  <2>2. QED
    BY <2>1, SeenFrame
<1>2. QED
  BY <1>1, SeenNavigate, SeenQuery, SeenMarked, SeenPublish, SeenBodies DEF Next

-----------------------------------------------------------------------------
(* The invariant.                                                          *)

LEMMA InitInv == Init => BrowserInv
<1> SUFFICES ASSUME Init
             PROVE  BrowserInv
  OBVIOUS
<1>1. Waiting = {} /\ \A b \in Bodies : ~Kept(b) /\ ~Open(b)
  BY DEF Init, Waiting, Kept, Open
<1>2. Versions
  BY DEF Init, Versions, Unseen
<1>3. Pinned /\ Ruled
  BY <1>1 DEF Pinned, Ruled, RuledBody, Init
<1>4. Seen
  BY <1>1 DEF Init, Seen, NotYetHeld, PageIsShown, OwnName, QueryIsTrue, RecordIsTrue,
              ConfirmedIsTrue, Unseen
<1>5. QED
  BY <1>2, <1>3, <1>4, InitTypes, InitCurrent DEF BrowserInv

\* The invariant of the records and the bodies: what a record says was asked
\* under the policy in force, its version leads to one page of one window,
\* and what a body waits for was shown after it was held.
THEOREM BrowserInvariant == Spec => []BrowserInv
<1>1. BrowserInv /\ [Next]_vars => BrowserInv'
  BY Types, CurrentNext, VersionsNext, PinnedNext, RuledNext, SeenNext DEF BrowserInv
<1>2. QED
  BY <1>1, InitInv, PTL DEF Spec

\* Every reachable state is well typed.
THEOREM TypeCorrect == Spec => []TypeOK
<1>1. BrowserInv => TypeOK
  BY DEF BrowserInv, WellFormed
<1>2. QED
  BY <1>1, BrowserInvariant, PTL

\* A record that shows a page was read by a query that began under the
\* capture policy and the query targets now in force
\* (eligibility.rs, capture_policy.rs).
THEOREM RecordsStayCurrent == Spec => []RecordsAreCurrent
<1>1. BrowserInv => RecordsAreCurrent
  BY DEF BrowserInv, Current
<1>2. QED
  BY <1>1, BrowserInvariant, PTL

\* While a record has the version that a waiting body was read under, it
\* shows the page the body is labelled with (eligibility.rs).
THEOREM VersionAlwaysPins == Spec => []VersionPinsPage
<1>1. ASSUME BrowserInv, NEW b \in Waiting, NEW w \in Windows,
             record[w].version = body[b].decision.version
      PROVE  w = body[b].window /\ record[w].state = body[b].decision.context
  <2>1. b \in Bodies /\ PinnedBody(b)
    BY <1>1 DEF BrowserInv, Pinned, Open, Waiting
  <2>2. QED
    BY <1>1, <2>1 DEF PinnedBody
<1>2. BrowserInv => VersionPinsPage
  BY <1>1 DEF VersionPinsPage
<1>3. QED
  BY <1>2, BrowserInvariant, PTL

\* No sequence of reloads turns a denial into a written body: every filter in
\* force when a written body was read, routed or resolved allows its page
\* (capture_policy.rs, quarantine.rs).
THEOREM EveryRulingHolds == Spec => []WithinEveryRuling
<1>1. BrowserInv => WithinEveryRuling
  BY DEF BrowserInv, Ruled, RuledBody, WithinEveryRuling
<1>2. QED
  BY <1>1, BrowserInvariant, PTL

\* A body is written only if its window really showed its page after it was
\* held, unless a window was misread before a switch was noticed
\* (quarantine.rs, eligibility.rs).
THEOREM WrittenWasShown == Spec => []ShownAfterHold
<1>1. BrowserInv => ShownAfterHold
  BY DEF BrowserInv, Seen, ConfirmedIsTrue, ShownAfterHold
<1>2. QED
  BY <1>1, BrowserInvariant, PTL
=============================================================================
