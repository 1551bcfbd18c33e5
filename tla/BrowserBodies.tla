--------------------------- MODULE BrowserBodies ----------------------------
(***************************************************************************)
(* Confirm-then-write for browser text and snapshots.  A worker thread     *)
(* asks the browser what each window shows and keeps one versioned record  *)
(* per window.  A text or snapshot body is bound to the version of its     *)
(* window's record when it is read, is then held, and reaches the store    *)
(* only when an observation that began after the hold finds the record     *)
(* unchanged and the current filter allows it.  The user navigates and     *)
(* switches windows, the configuration is reloaded, and the browser fails  *)
(* or quits at any point in between.                                       *)
(***************************************************************************)
EXTENDS Naturals, FiniteSets

CONSTANTS
  Windows,     \* the windows of one browser process
  Pages,       \* what a window can show: a site in a tab, or a private page
  Private,     \* the private pages (Incognito)
  NoPage,      \* stands for a window whose page is not known
  NoWindow,    \* stands for no window
  Filters,     \* filter revisions
  Allows,      \* the pages each revision lets bodies be written for
  PolicyOf,    \* the app-owned capture policy inside each revision
  Queried,     \* the revisions under which the browser may be asked at all
  Bodies,      \* text and snapshots read, each at most once
  KindOf,      \* "text" or "snapshot"
  MaxMoves,    \* bound on navigations and window switches
  MaxTroubles  \* bound on failures, resynchronizations and reloads

ASSUME WindowsAssumption == NoWindow \notin Windows
ASSUME PagesAssumption   ==
  /\ NoPage \notin Pages /\ Private \subseteq Pages
  /\ Pages \intersect {"failed", "no_window", "not_running"} = {}  \* the other answers
ASSUME FiltersAssumption ==
  /\ Filters # {} /\ Queried \subseteq Filters
  /\ Allows \in [Filters -> SUBSET (Pages \ Private)]
  /\ DOMAIN PolicyOf = Filters
ASSUME KindsAssumption   == KindOf \in [Bodies -> {"text", "snapshot"}]
ASSUME BoundsAssumption  == MaxMoves \in Nat /\ MaxTroubles \in Nat

VARIABLES
  page,        \* what each window really shows
  front,       \* the window that is really in front
  focus,       \* the front window FocusContext knows of
  running,     \* the browser process is alive
  unheard,     \* the workers that have not heard of its end
  filter,      \* the filter in force
  targeted,    \* the browser is among the query targets
  record,      \* the eligibility record of each window
  nextVersion, \* the last record version handed out
  query,       \* the chrome worker's query under way
  body,        \* what is known of each body
  reserved,    \* windows with an entry in SnapshotState
  panicked,    \* the content worker found no entry to record a hash in
  moves,       \* moves so far
  troubles,    \* troubles so far
  \* History, read by the properties only.
  shown,       \* pages each body's window really showed from its hold on
  ruledBy,     \* filters in force when the body was read, routed and resolved
  readUnder,   \* the capture policy under which each record was read
  misread      \* windows whose record was read before a switch was noticed

browserVars == <<page, front, running>>
recordVars  == <<record, nextVersion, readUnder>>
bodyVars    == <<body, reserved, panicked, ruledBy>>
vars == <<browserVars, focus, unheard, filter, targeted, recordVars, query,
          bodyVars, moves, troubles, shown, misread>>

\* WindowRecord: the page (NoPage: unavailable) and its version, the window
\* the remembered AppleScript id names, and the bodies held before the
\* record's observed_at.
Records == [state : Pages \union {NoPage}, version : Nat,
            named : Windows \union {NoWindow}, since : SUBSET Bodies]

Owned   == {PolicyOf[f] : f \in Filters}
NoQuery == [kind |-> "none"]
Results == Pages \union {"failed", "no_window", "not_running"}
Queries == [kind : {"front", "window"}, window : Windows, asked : Windows \union {NoWindow},
            stale : BOOLEAN, moved : BOOLEAN, lagged : BOOLEAN,
            after : SUBSET Bodies, under : Owned, answer : Results \union {NoPage}]

\* CaptureDecision.  Version 0 is None.
Decisions == [allowed : BOOLEAN, version : Nat, context : Pages \union {NoPage}]

Statuses == {"idle", "read", "held", "confirmed", "kept", "bare", "dropped"}

TypeOK ==
  /\ page \in [Windows -> Pages]
  /\ front \in Windows /\ focus \in Windows
  /\ running \in BOOLEAN
  /\ unheard \subseteq {"content", "chrome"}
  /\ filter \in Filters
  /\ targeted \in BOOLEAN
  /\ record \in [Windows -> Records]
  /\ nextVersion \in Nat
  /\ query \in Queries \union {NoQuery}
  /\ body \in [Bodies -> [status : Statuses, window : Windows \union {NoWindow},
                          decision : Decisions]]
  /\ reserved \subseteq Windows
  /\ panicked \in BOOLEAN
  /\ moves \in 0 .. MaxMoves /\ troubles \in 0 .. MaxTroubles
  /\ shown \in [Bodies -> SUBSET Pages]
  /\ ruledBy \in [Bodies -> SUBSET Filters]
  /\ readUnder \in [Windows -> Owned]
  /\ misread \subseteq Windows

Unseen == [state |-> NoPage, version |-> 0, named |-> NoWindow, since |-> {}]
Undecided == [allowed |-> FALSE, version |-> 0, context |-> NoPage]

Init ==
  /\ page \in [Windows -> Pages] /\ front \in Windows /\ focus = front
  /\ running = TRUE /\ unheard = {}
  /\ filter \in Filters /\ targeted = TRUE
  /\ record = [w \in Windows |-> Unseen] /\ nextVersion = 0
  /\ query = NoQuery
  /\ body = [b \in Bodies |->
               [status |-> "idle", window |-> NoWindow, decision |-> Undecided]]
  /\ reserved = {} /\ panicked = FALSE
  /\ moves = 0 /\ troubles = 0
  /\ shown = [b \in Bodies |-> {}] /\ ruledBy = [b \in Bodies |-> {}]
  /\ readUnder = [w \in Windows |-> PolicyOf[filter]] /\ misread = {}

Waiting == {b \in Bodies : body[b].status \in {"held", "confirmed"}}
Trouble == troubles < MaxTroubles /\ troubles' = troubles + 1

-----------------------------------------------------------------------------
(* The user and the browser.                                               *)

Navigate(w, p) ==
  /\ running /\ moves < MaxMoves /\ page[w] # p
  /\ moves' = moves + 1
  /\ page' = [page EXCEPT ![w] = p]
  /\ shown' = [b \in Bodies |-> IF b \in Waiting /\ body[b].window = w
                                THEN shown[b] \union {p} ELSE shown[b]]
  /\ UNCHANGED <<front, running, focus, unheard, filter, targeted, recordVars, query,
                 bodyVars, troubles, misread>>

Switch(w) ==
  /\ running /\ moves < MaxMoves /\ front # w
  /\ moves' = moves + 1
  /\ front' = w
  /\ UNCHANGED <<page, running, focus, unheard, filter, targeted, recordVars, query,
                 bodyVars, troubles, shown, misread>>

Quit ==
  /\ running /\ Trouble
  /\ running' = FALSE
  /\ unheard' = {"content", "chrome"}
  /\ UNCHANGED <<page, front, focus, filter, targeted, recordVars, query, bodyVars,
                 moves, shown, misread>>

\* FocusContext hears of the switch, some time after it happened: a new
\* focus generation, also for a window that was in focus before.
HearSwitch ==
  /\ focus # front
  /\ focus' = front
  /\ query' = IF query = NoQuery THEN query ELSE [query EXCEPT !.moved = TRUE]
  /\ UNCHANGED <<browserVars, unheard, filter, targeted, recordVars, bodyVars,
                 moves, troubles, shown, misread>>

-----------------------------------------------------------------------------
(* The chrome worker and the eligibility records.                          *)

Unavailable(r, since) == [r EXCEPT !.state = NoPage, !.version = 0, !.since = since]

\* Every record loses its page, observed now.
MarkAll == record' = [w \in Windows |-> Unavailable(record[w], Waiting)]

MayQuery == targeted /\ filter \in Queried /\ (running \/ "chrome" \in unheard)

\* FrontWindowAttribution::capture and query_revision.  The query asks for
\* whatever is in front and takes it to be the window in focus.
BeginFront ==
  /\ query = NoQuery /\ MayQuery
  /\ query' = [kind |-> "front", window |-> focus, asked |-> NoWindow,
               stale |-> FALSE, moved |-> FALSE, lagged |-> FALSE,
               after |-> Waiting, under |-> PolicyOf[filter], answer |-> NoPage]
  /\ UNCHANGED <<browserVars, focus, unheard, filter, targeted, recordVars, bodyVars,
                 moves, troubles, shown, misread>>

\* observe_confirmation of a window whose AppleScript id is remembered.
BeginConfirm(w) ==
  /\ query = NoQuery /\ MayQuery
  /\ \E b \in Bodies : body[b].window = w /\ body[b].status \notin {"idle", "read"}
  /\ record[w].named # NoWindow
  /\ query' = [kind |-> "window", window |-> w, asked |-> record[w].named,
               stale |-> FALSE, moved |-> FALSE, lagged |-> FALSE,
               after |-> Waiting, under |-> PolicyOf[filter], answer |-> NoPage]
  /\ UNCHANGED <<browserVars, focus, unheard, filter, targeted, recordVars, bodyVars,
                 moves, troubles, shown, misread>>

\* The native query reads what the window shows now, or fails.
Answer ==
  /\ query # NoQuery /\ query.answer = NoPage
  /\ LET w == IF query.kind = "front" THEN front ELSE query.asked
     IN  \/ /\ running
            /\ query' = [query EXCEPT !.answer = page[w], !.asked = w,
                                      !.lagged = (query.kind = "front" /\ focus # front)]
            /\ UNCHANGED troubles
         \/ /\ running /\ Trouble
            /\ query' \in {[query EXCEPT !.answer = a] : a \in {"failed", "no_window"}}
         \/ /\ ~running
            /\ query' = [query EXCEPT !.answer = "not_running"]
            /\ UNCHANGED troubles
  /\ UNCHANGED <<browserVars, focus, unheard, filter, targeted, recordVars, bodyVars,
                 moves, shown, misread>>

\* Mutant: the observation is stamped when it is published.
ObserveStampedLate(w, p, from) ==
  LET r     == record[w]
      named == IF p \in Private /\ query.kind = "front" THEN r.named ELSE from
      same  == r.state = p /\ (r.named = named)
  IN  /\ record' = [record EXCEPT ![w] =
           [state |-> p, named |-> named, since |-> Waiting,
            version |-> IF same THEN r.version ELSE nextVersion + 1]]
      /\ nextVersion' = IF same THEN nextVersion ELSE nextVersion + 1

\* Mutant: a known record keeps its version when its page changes.
ObserveInPlace(w, p, from) ==
  LET r     == record[w]
      named == IF p \in Private /\ query.kind = "front" THEN r.named ELSE from
      same  == r.state # NoPage /\ (r.named = named)
  IN  /\ record' = [record EXCEPT ![w] =
           [state |-> p, named |-> named, since |-> query.after,
            version |-> IF same THEN r.version ELSE nextVersion + 1]]
      /\ nextVersion' = IF same THEN nextVersion ELSE nextVersion + 1

\* EligibilityPublication::observe of a page.  A private page read in front
\* carries no AppleScript id; the remembered one stays.
Observe(w, p, from) ==
  LET r     == record[w]
      named == IF p \in Private /\ query.kind = "front" THEN r.named ELSE from
      same  == r.state = p /\ (r.named = named)
  IN  /\ record' = [record EXCEPT ![w] =
           [state |-> p, named |-> named, since |-> query.after,
            version |-> IF same THEN r.version ELSE nextVersion + 1]]
      /\ nextVersion' = IF same THEN nextVersion ELSE nextVersion + 1

\* Mutant: an unsuccessful answer is recorded like a page.
PublishAnyAnswer ==
  /\ query # NoQuery /\ query.answer # NoPage
  /\ query' = NoQuery
  /\ IF query.stale
       THEN UNCHANGED <<recordVars, misread>>
       ELSE /\ Observe(query.window, query.answer, query.asked)
            /\ readUnder' = [readUnder EXCEPT ![query.window] = query.under]
            /\ misread' = IF query.lagged THEN misread \union {query.window} ELSE misread
  /\ UNCHANGED <<browserVars, focus, unheard, filter, targeted, bodyVars, moves,
                 troubles, shown>>

\* observe_query_once after the query has returned: a result that began under
\* an older filter is discarded, and so is one that began under an older focus.
Publish ==
  /\ query # NoQuery /\ query.answer # NoPage
  /\ query' = NoQuery
  /\ LET w == query.window
     IN  \/ /\ query.stale
            /\ UNCHANGED <<recordVars, misread>>
         \/ /\ ~query.stale
            /\ (query.kind = "front" /\ query.moved) \/ query.answer = "no_window"
            /\ record' = [record EXCEPT ![w] = Unavailable(@, query.after)]
            /\ UNCHANGED <<nextVersion, readUnder, misread>>
         \/ /\ ~query.stale /\ ~(query.kind = "front" /\ query.moved)
            /\ query.answer \in {"failed", "not_running"}
            /\ record' = [v \in Windows |-> Unavailable(record[v], query.after)]
            /\ UNCHANGED <<nextVersion, readUnder, misread>>
         \/ /\ ~query.stale /\ ~(query.kind = "front" /\ query.moved)
            /\ query.answer \in Pages
            /\ Observe(w, query.answer, query.asked)
            /\ readUnder' = [readUnder EXCEPT ![w] = query.under]
            /\ misread' = IF query.lagged THEN misread \union {w} ELSE misread
  /\ UNCHANGED <<browserVars, focus, unheard, filter, targeted, bodyVars, moves,
                 troubles, shown>>

\* handle_focus_transition of a resynchronization (wake, or a missed
\* transition): every record is invalidated.
Resync ==
  /\ query = NoQuery /\ Trouble
  /\ MarkAll
  /\ UNCHANGED <<browserVars, focus, unheard, filter, targeted, nextVersion, readUnder,
                 query, bodyVars, moves, shown, misread>>

\* The end of the browser reaches the chrome worker through FocusContext.
HearQuitChrome ==
  /\ "chrome" \in unheard /\ query = NoQuery
  /\ unheard' = unheard \ {"chrome"}
  /\ MarkAll
  /\ UNCHANGED <<browserVars, focus, filter, targeted, nextVersion, readUnder, query,
                 bodyVars, moves, troubles, shown, misread>>

-----------------------------------------------------------------------------
(* The main thread.                                                        *)

Outdate == query' = IF query = NoQuery THEN query ELSE [query EXCEPT !.stale = TRUE]

\* Mutant: the query under way survives the reload.
ReloadDuringQuery(f) ==
  /\ f # filter /\ Trouble
  /\ filter' = f
  /\ IF PolicyOf[f] # PolicyOf[filter] THEN MarkAll ELSE UNCHANGED record
  /\ UNCHANGED <<browserVars, focus, unheard, targeted, nextVersion, readUnder, query,
                 bodyVars, moves, shown, misread>>

\* CapturePolicy::replace_filter, which replaces the tracker's filter under
\* the same lock: a new app-owned policy invalidates every record, any change
\* the query under way.
Reload(f) ==
  /\ f # filter /\ Trouble
  /\ filter' = f
  /\ Outdate
  /\ IF PolicyOf[f] # PolicyOf[filter] THEN MarkAll ELSE UNCHANGED record
  /\ UNCHANGED <<browserVars, focus, unheard, targeted, nextVersion, readUnder,
                 bodyVars, moves, shown, misread>>

\* set_query_targets: a browser permission was granted or withdrawn.
Retarget ==
  /\ Trouble
  /\ targeted' = ~targeted
  /\ Outdate
  /\ MarkAll
  /\ UNCHANGED <<browserVars, focus, unheard, filter, nextVersion, readUnder,
                 bodyVars, moves, shown, misread>>

-----------------------------------------------------------------------------
(* The workers that read bodies.                                           *)

\* CapturePolicy::decision.
Decision(w) ==
  [allowed |-> record[w].state \in Allows[filter],
   version |-> record[w].version,
   context |-> record[w].state]

Alive(b) == KindOf[b] = "snapshot" => ~panicked
Rule(b)  == ruledBy' = [ruledBy EXCEPT ![b] = @ \union {filter}]
Denied(b) == IF KindOf[b] = "snapshot" THEN "dropped" ELSE "bare"

\* A body is read from a window, after the decision that allows (or denies)
\* reading it: a snapshot that may not be read is not.
Read(b, w) ==
  /\ Alive(b) /\ running
  /\ body[b].status = "idle"
  /\ body' = [body EXCEPT ![b] =
       [status |-> IF Decision(w).allowed \/ KindOf[b] = "text" THEN "read" ELSE "dropped",
        window |-> w, decision |-> Decision(w)]]
  /\ Rule(b)
  /\ UNCHANGED <<browserVars, focus, unheard, filter, targeted, recordVars, query,
                 reserved, panicked, moves, troubles, shown, misread>>

\* Mutant: the decision taken when the body was read is sent.
DecisionAtRead(w, earlier) == earlier

\* CapturePolicy::decision_at_send: the earlier decision only tightens, and
\* it owns the version and the context.
DecisionAtSend(w, earlier) ==
  [earlier EXCEPT !.allowed = @ /\ Decision(w).allowed
                              /\ ~(Decision(w).version # 0 /\ earlier.version = 0)]

\* hold_text and hold_snapshot; the snapshot emit also reserves the limits of
\* the window.
Hold(b, d) ==
  /\ body' = [body EXCEPT ![b].status = "held", ![b].decision = d]
  /\ reserved' = IF KindOf[b] = "snapshot" THEN reserved \union {body[b].window} ELSE reserved
  /\ shown' = [shown EXCEPT ![b] = {page[body[b].window]}]

\* route_text_body: an allowed body is held, any other goes out bare.  A
\* snapshot that is denied, or blocked by the save limits, is dropped.
Route(b) ==
  LET d == DecisionAtSend(body[b].window, body[b].decision)
  IN  /\ Alive(b)
      /\ body[b].status = "read"
      /\ \/ d.allowed /\ d.version # 0 /\ Hold(b, d)
         \/ /\ ~(d.allowed /\ d.version # 0) \/ KindOf[b] = "snapshot"
            /\ body' = [body EXCEPT ![b].status = Denied(b)]
            /\ UNCHANGED <<reserved, shown>>
      /\ Rule(b)
      /\ UNCHANGED <<browserVars, focus, unheard, filter, targeted, recordVars, query,
                     panicked, moves, troubles, misread>>

\* TextQuarantine::release finds an observation later than the hold ...
Confirm(b) ==
  /\ Alive(b)
  /\ body[b].status = "held"
  /\ b \in record[body[b].window].since
  /\ body' = [body EXCEPT ![b].status = "confirmed"]
  /\ UNCHANGED <<browserVars, focus, unheard, filter, targeted, recordVars, query,
                 reserved, panicked, ruledBy, moves, troubles, shown, misread>>

\* ... and resolve_confirmed decides again.  The output may be full; the hash
\* of a snapshot that was sent is recorded.
Resolve(b) ==
  LET w    == body[b].window
      keep == Decision(w).allowed /\ Decision(w).version = body[b].decision.version
  IN  /\ Alive(b)
      /\ body[b].status = "confirmed"
      /\ \E outcome \in {IF keep THEN "kept" ELSE Denied(b), "dropped"} :
           /\ body' = [body EXCEPT ![b].status = outcome]
           /\ panicked' = (panicked \/ (outcome = "kept" /\ KindOf[b] = "snapshot"
                                        /\ w \notin reserved))
      /\ Rule(b)
      /\ UNCHANGED <<browserVars, focus, unheard, filter, targeted, recordVars, query,
                     reserved, moves, troubles, shown, misread>>

\* resolve_unresponsive: the confirmation did not come in time, or the worker
\* stops.
Expire(b) ==
  /\ Alive(b)
  /\ body[b].status = "held"
  /\ body' = [body EXCEPT ![b].status = Denied(b)]
  /\ UNCHANGED <<browserVars, focus, unheard, filter, targeted, recordVars, query,
                 reserved, panicked, ruledBy, moves, troubles, shown, misread>>

\* service_lifecycle: SnapshotState::terminate_pid.  A release runs to its
\* end first.
HearQuitContent ==
  /\ "content" \in unheard /\ ~panicked
  /\ \A b \in Bodies : KindOf[b] = "snapshot" => body[b].status # "confirmed"
  /\ unheard' = unheard \ {"content"}
  /\ reserved' = {}
  /\ UNCHANGED <<browserVars, focus, filter, targeted, recordVars, query, body,
                 panicked, ruledBy, moves, troubles, shown, misread>>

-----------------------------------------------------------------------------
Next ==
  \/ \E w \in Windows, p \in Pages : Navigate(w, p)
  \/ \E w \in Windows : Switch(w)
  \/ Quit
  \/ HearSwitch
  \/ BeginFront
  \/ \E w \in Windows : BeginConfirm(w)
  \/ Answer
  \/ Publish
  \/ Resync
  \/ HearQuitChrome
  \/ \E f \in Filters : Reload(f)
  \/ Retarget
  \/ \E b \in Bodies, w \in Windows : Read(b, w)
  \/ \E b \in Bodies : Route(b)
  \/ \E b \in Bodies : Confirm(b)
  \/ \E b \in Bodies : Resolve(b)
  \/ \E b \in Bodies : Expire(b)
  \/ HearQuitContent

Spec == Init /\ [][Next]_vars

-----------------------------------------------------------------------------
Kept(b) == body[b].status = "kept"

\* A body is written only if its window really showed the page the body is
\* labelled with at some time after it was read and held, whatever the user
\* did meanwhile, unless the browser's front window was read for another
\* window before FocusContext heard of the switch.
ShownAfterHold ==
  \A b \in Bodies :
    Kept(b) /\ body[b].window \notin misread => body[b].decision.context \in shown[b]

\* Every filter in force when the body was read, routed or resolved allows
\* the page it is labelled with: no sequence of reloads turns a denial into
\* a written body.
WithinEveryRuling ==
  \A b \in Bodies : Kept(b) =>
    \A f \in ruledBy[b] : body[b].decision.context \in Allows[f]

\* A record that shows a page was read by a query that began under the
\* capture policy and the query targets now in force.
RecordsAreCurrent ==
  \A w \in Windows : record[w].state # NoPage =>
    targeted /\ readUnder[w] = PolicyOf[filter]

\* A body's version pins its page: while the record still has the version a
\* waiting body was read under, it shows the page the body is labelled with.
VersionPinsPage ==
  \A b \in Waiting : \A w \in Windows :
    record[w].version = body[b].decision.version =>
      w = body[b].window /\ record[w].state = body[b].decision.context

\* The content worker records the hash of a snapshot only after reserving
\* the limits of its window.
HashOnlyAfterReserving == ~panicked
=============================================================================
