-------------------------- MODULE FocusTransitions --------------------------
(***************************************************************************)
(* The application and window in front, from the accessibility worker that *)
(* writes it to the browser worker that follows it.  Every change gets a   *)
(* generation and is offered to a bounded queue; a change that finds the   *)
(* queue full is only marked as missed, and the reader then takes the      *)
(* newest focus instead of what is queued.  The browser worker asks the    *)
(* browser in front, or a window it is asked to confirm, and may die at    *)
(* any point; the queue outlives it, and a new worker starts from the      *)
(* focus it finds.                                                         *)
(***************************************************************************)
EXTENDS Naturals, Sequences, Queues

CONSTANTS
  Views,         \* identities: an application, a window of it and its title
  AppOf,         \* the application of each view
  WindowOf,      \* the window of each view
  Browsers,      \* applications the browser worker may query
  Demanded,      \* views a confirmation is asked for
  NoView,        \* stands for no application in front
  Capacity,      \* TRANSITION_CHANNEL_CAPACITY
  MaxGeneration, \* bound on changes of focus
  MaxDeaths      \* bound on ends of the browser worker and of applications

ASSUME ViewsAssumption ==
  /\ NoView \notin Views /\ Demanded \subseteq Views
  /\ DOMAIN AppOf = Views /\ DOMAIN WindowOf = Views
ASSUME BoundsAssumption ==
  Capacity \in Nat \ {0} /\ MaxGeneration \in Nat /\ MaxDeaths \in Nat

VARIABLES
  current,    \* FocusState: the snapshot in force
  generation, \* FocusState: the last generation given out
  queue,      \* the subscriber's channel of transitions
  missed,     \* the subscriber's flag
  lastSeen,   \* FocusTransitionReceiver: the snapshot it returned last
  worker,     \* where the browser worker is
  held,       \* the transition taken from the queue, or the initial one
  query,      \* the question the browser worker has open
  frontmost,  \* ChromeWorkerState
  apps,       \* ChromeWorkerState
  onDemand,   \* ChromeWorkerState: confirmations asked for, earliest deadline first
  seen,       \* ChromeWorkerState: last_focus_generation, 0 for none
  confirmed,  \* windows with a usable eligibility record
  dead,       \* applications that have ended
  unheard,    \* those of them whose end the accessibility worker has not handled
  deaths,
  \* History, read by the properties only.
  woke,       \* generation of the last wake
  overrun     \* the last end handled was of an older focus than the one the worker has

focusVars  == <<current, generation, queue, missed>>
stateVars  == <<frontmost, apps, onDemand, seen, confirmed, overrun>>
workerVars == <<lastSeen, worker, held, query, stateVars>>
worldVars  == <<dead, unheard, deaths, woke>>
vars       == <<focusVars, workerVars, worldVars>>

Apps    == {AppOf[v] : v \in Views}
Windows == {WindowOf[v] : v \in Views}

\* FocusSnapshot.  That of NoView is None in the code: its generation is history.
Snapshots   == [view : Views \union {NoView}, gen : Nat]
Transitions == [previous : Snapshots, current : Snapshots, resynced : BOOLEAN]
Nowhere     == [view |-> NoView, gen |-> 0]
Nothing     == [previous |-> Nowhere, current |-> Nowhere, resynced |-> FALSE]

\* The window asked about, the focus's generation when the browser was asked, and its answer.
Answers == {"page", "no_page", "failed", "not_running", "outdated"}
Queries == [kind : {"front", "window"}, app : Apps, window : Windows,
            gen : Nat, answer : Answers \union {"none"}]
NoQuery == [kind |-> "none"]

Is(snapshot, app)  == snapshot.view # NoView /\ AppOf[snapshot.view] = app
IsBrowser(snapshot) == snapshot.view # NoView /\ AppOf[snapshot.view] \in Browsers

TypeOK ==
  /\ current \in Snapshots /\ lastSeen \in Snapshots /\ frontmost \in Snapshots
  /\ generation \in 0 .. MaxGeneration /\ current.gen = generation
  /\ queue \in Seq(Transitions) /\ Len(queue) <= Capacity
  /\ missed \in BOOLEAN /\ overrun \in BOOLEAN
  /\ worker \in {"down", "idle", "taken", "handling", "asking", "querying"}
  /\ held \in Transitions
  /\ query \in Queries \union {NoQuery}
  /\ (query # NoQuery) <=> worker \in {"asking", "querying"}
  /\ apps \subseteq Apps /\ dead \subseteq Apps /\ unheard \subseteq dead
  /\ \A i \in DOMAIN onDemand : onDemand[i].app \in Apps /\ onDemand[i].window \in Windows
  /\ seen \in 0 .. generation /\ woke \in 0 .. generation
  /\ confirmed \subseteq [app : Apps, window : Windows, at : Nat]
  /\ deaths \in 0 .. MaxDeaths

\* ChromeWorkerState::default.
NoState == /\ frontmost' = Nowhere /\ apps' = {} /\ onDemand' = <<>> /\ seen' = 0
           /\ confirmed' = {} /\ overrun' = FALSE

Init ==
  /\ current = Nowhere /\ generation = 0 /\ queue = <<>> /\ missed = FALSE
  /\ lastSeen = Nowhere /\ worker = "down" /\ held = Nothing /\ query = NoQuery
  /\ frontmost = Nowhere /\ apps = {} /\ onDemand = <<>> /\ seen = 0 /\ confirmed = {}
  /\ dead = {} /\ unheard = {} /\ deaths = 0
  /\ woke = 0 /\ overrun = FALSE

-----------------------------------------------------------------------------
(* The accessibility worker: the only writer.                              *)

\* Mutant: a transition that finds the queue full is dropped and not marked.
OfferOrDrop(transition) ==
  /\ queue' = IF Len(queue) < Capacity THEN Append(queue, transition) ELSE queue
  /\ UNCHANGED missed

Offer(transition) ==
  IF Len(queue) < Capacity
  THEN queue' = Append(queue, transition) /\ UNCHANGED missed
  ELSE missed' = TRUE /\ UNCHANGED queue

TransitionTo(view, force) ==
  /\ force \/ view # current.view
  /\ generation < MaxGeneration
  /\ generation' = generation + 1
  /\ current' = [view |-> view, gen |-> generation + 1]
  /\ Offer([previous |-> current, current |-> current', resynced |-> force])

\* Applications notifications can still be about.
Known == Apps \ (dead \ unheard)

\* An application comes to the front, or the one in front shows another window or title.
Focus(view) ==
  /\ AppOf[view] \in Known
  /\ TransitionTo(view, FALSE)
  /\ UNCHANGED <<workerVars, worldVars>>

Terminate(app) ==
  /\ app \in unheard
  /\ unheard' = unheard \ {app}
  /\ IF Is(current, app) THEN TransitionTo(NoView, FALSE) ELSE UNCHANGED focusVars
  /\ UNCHANGED <<workerVars, dead, deaths, woke>>

Wake(view) ==
  /\ view # NoView => AppOf[view] \in Known
  /\ TransitionTo(view, TRUE)
  /\ woke' = generation'
  /\ UNCHANGED <<workerVars, dead, unheard, deaths>>

Quit(app) ==
  /\ app \notin dead /\ deaths < MaxDeaths
  /\ dead' = dead \union {app} /\ unheard' = unheard \union {app}
  /\ deaths' = deaths + 1
  /\ UNCHANGED <<focusVars, workerVars, woke>>

-----------------------------------------------------------------------------
(* The receiver.                                                           *)

Take ==
  /\ worker = "idle" /\ ~missed /\ queue # <<>>
  /\ held' = Head(queue) /\ queue' = Tail(queue)
  /\ worker' = "taken"
  /\ UNCHANGED <<current, generation, missed, lastSeen, query, stateVars, worldVars>>

\* Mutant: what is queued is left there.
RecoverUndrained ==
  /\ worker \in {"idle", "taken"} /\ missed
  /\ missed' = FALSE
  /\ held' = [previous |-> lastSeen, current |-> current, resynced |-> TRUE]
  /\ lastSeen' = current
  /\ worker' = "handling"
  /\ UNCHANGED <<current, generation, queue, query, stateVars, worldVars>>

\* Mutant: a wake among what was dropped is not announced as one.
RecoverSilently ==
  /\ worker \in {"idle", "taken"} /\ missed
  /\ missed' = FALSE /\ queue' = <<>>
  /\ held' = [previous |-> lastSeen, current |-> current, resynced |-> FALSE]
  /\ lastSeen' = current
  /\ worker' = "handling"
  /\ UNCHANGED <<current, generation, query, stateVars, worldVars>>

\* The newest focus in place of what is queued and of what was taken.  The lock it is
\* read under keeps the writer out.
Recover ==
  /\ worker \in {"idle", "taken"} /\ missed
  /\ missed' = FALSE /\ queue' = <<>>
  /\ held' = [previous |-> lastSeen, current |-> current, resynced |-> TRUE]
  /\ lastSeen' = current
  /\ worker' = "handling"
  /\ UNCHANGED <<current, generation, query, stateVars, worldVars>>

Remember ==
  /\ worker = "taken" /\ ~missed
  /\ lastSeen' = held.current
  /\ worker' = "handling"
  /\ UNCHANGED <<focusVars, held, query, stateVars, worldVars>>

-----------------------------------------------------------------------------
(* The browser worker.                                                     *)

\* Mutant: a new worker waits for the next transition.
StartUnseeded ==
  /\ worker = "down"
  /\ worker' = "idle"
  /\ UNCHANGED <<focusVars, lastSeen, held, query, stateVars, worldVars>>

\* A new worker starts from the focus it finds, if any.
Start ==
  /\ worker = "down"
  /\ held' = IF current.view = NoView THEN Nothing ELSE [Nothing EXCEPT !.current = current]
  /\ worker' = IF current.view = NoView THEN "idle" ELSE "handling"
  /\ UNCHANGED <<focusVars, lastSeen, query, stateVars, worldVars>>

\* A failed send, a panic or a stop, none of them inside the receiver.
\* EligibilityClearGuard; the receiver stays.
Die ==
  /\ worker \notin {"down", "taken"} /\ deaths < MaxDeaths
  /\ worker' = "down" /\ query' = NoQuery /\ held' = Nothing
  /\ deaths' = deaths + 1
  /\ NoState
  /\ UNCHANGED <<focusVars, lastSeen, dead, unheard, woke>>

Of(app)     == {r \in confirmed : r.app = app}
At(app, w)  == {r \in Of(app) : r.window = w}
Back        == worker' = "idle" /\ query' = NoQuery
Ask(kind, app, window) ==
  /\ query' = [kind |-> kind, app |-> app, window |-> window,
               gen |-> 0, answer |-> "none"]
  /\ worker' = "asking"

LeaveFocus == frontmost' = Nowhere

\* The confirmations asked for of other applications, in their order.
OfOthers(app) == Picked(onDemand, {i \in DOMAIN onDemand : onDemand[i].app # app})

TerminateBrowser(app) ==
  /\ IF Is(frontmost, app) THEN LeaveFocus ELSE UNCHANGED frontmost
  /\ apps' = apps \ {app}
  /\ onDemand' = OfOthers(app)

\* Records that are left when the transition has been announced.
Kept == IF held.resynced THEN {} ELSE confirmed

\* The generation of a focus handled already.  The end of a focus carries none.
Stale == held.current.view # NoView /\ held.current.gen <= seen

HandleStale ==
  /\ Stale
  /\ Back
  /\ UNCHANGED stateVars

HandleEnd ==
  /\ held.current.view = NoView
  /\ IF IsBrowser(held.previous)
     THEN /\ confirmed' = Kept \ Of(AppOf[held.previous.view])
          /\ TerminateBrowser(AppOf[held.previous.view])
     ELSE /\ confirmed' = Kept
          /\ LeaveFocus
          /\ UNCHANGED <<apps, onDemand>>
  /\ overrun' = (\/ held.current.gen < seen
                 \/ IsBrowser(held.previous) /\ held.previous.gen < seen)
  /\ Back
  /\ UNCHANGED seen

HandleFocus ==
  /\ held.current.view # NoView /\ ~Stale
  /\ seen' = held.current.gen
  /\ confirmed' = Kept /\ overrun' = FALSE
  /\ IF IsBrowser(held.current)
     THEN /\ frontmost' = held.current
          /\ apps' = apps \union {AppOf[held.current.view]}
          /\ Ask("front", AppOf[held.current.view], WindowOf[held.current.view])
     ELSE LeaveFocus /\ Back /\ UNCHANGED apps
  /\ UNCHANGED onDemand

Handle ==
  /\ worker = "handling"
  /\ HandleStale \/ HandleEnd \/ HandleFocus
  /\ held' = Nothing
  /\ UNCHANGED <<focusVars, lastSeen, worldVars>>

\* The page in front has loaded.
PageLoaded(app) ==
  /\ worker = "idle" /\ Is(frontmost, app)
  /\ Ask("front", app, WindowOf[frontmost.view])
  /\ UNCHANGED <<focusVars, lastSeen, held, stateVars, worldVars>>

\* A confirmation already asked for keeps its deadline.
Demand(app, window) ==
  /\ worker = "idle"
  /\ \A i \in DOMAIN onDemand : onDemand[i] # [app |-> app, window |-> window]
  /\ onDemand' = Append(onDemand, [app |-> app, window |-> window])
  /\ UNCHANGED <<focusVars, lastSeen, worker, held, query, frontmost, apps, seen,
                 confirmed, overrun, worldVars>>

\* The earliest deadline has passed.
Serve ==
  /\ worker = "idle" /\ onDemand # <<>>
  /\ onDemand' = Tail(onDemand)
  /\ IF Head(onDemand).app \in apps
     THEN \E kind \in {"front", "window"} : Ask(kind, Head(onDemand).app, Head(onDemand).window)
     ELSE UNCHANGED <<worker, query>>
  /\ UNCHANGED <<focusVars, lastSeen, held, frontmost, apps, seen, confirmed, overrun, worldVars>>

InFront(app, window) == Is(current, app) /\ WindowOf[current.view] = window

\* The answer is read from the browser here and used in Publish.
Query ==
  /\ worker = "asking"
  /\ IF query.kind = "front" /\ ~InFront(query.app, query.window)
     THEN Back
     ELSE /\ worker' = "querying"
          /\ \E answer \in Answers :
               /\ answer = "not_running" <=> query.app \in dead /\ answer # "outdated"
               /\ query' = [query EXCEPT !.gen = generation, !.answer = answer]
  /\ UNCHANGED <<focusVars, lastSeen, held, stateVars, worldVars>>

Attributed == query.kind = "front" => current.gen = query.gen

Publish ==
  /\ worker = "querying"
  /\ Back
  /\ LET app    == query.app
         window == At(app, query.window)
         fresh  == [app |-> app, window |-> query.window, at |-> query.gen]
     IN CASE query.answer = "outdated" -> UNCHANGED <<confirmed, frontmost, apps, onDemand>>
          [] query.answer # "outdated" /\ (~Attributed \/ query.answer = "no_page") ->
               confirmed' = confirmed \ window /\ UNCHANGED <<frontmost, apps, onDemand>>
          [] Attributed /\ query.answer = "page" ->
               confirmed' = (confirmed \ window) \union {fresh}
               /\ UNCHANGED <<frontmost, apps, onDemand>>
          [] Attributed /\ query.answer = "failed" ->
               confirmed' = confirmed \ Of(app) /\ UNCHANGED <<frontmost, apps, onDemand>>
          [] Attributed /\ query.answer = "not_running" ->
               confirmed' = confirmed \ Of(app) /\ TerminateBrowser(app)
  /\ UNCHANGED <<focusVars, lastSeen, held, seen, overrun, worldVars>>

-----------------------------------------------------------------------------

Receive == Take \/ Recover \/ Remember

Next ==
  \/ \E view \in Views : Focus(view)
  \/ \E view \in Views \union {NoView} : Wake(view)
  \/ \E app \in Apps : Quit(app) \/ Terminate(app) \/ PageLoaded(app)
  \/ \E view \in Demanded : Demand(AppOf[view], WindowOf[view])
  \/ Start \/ Die \/ Receive \/ Handle \/ Serve \/ Query \/ Publish

Spec == Init /\ [][Next]_vars

\* The worker's loop receives on every turn, whatever else a turn does, and the
\* supervisor starts a worker again that has ended.
FairSpec ==
  /\ Spec
  /\ WF_vars(Start) /\ SF_vars(Receive)
  /\ WF_vars(Handle) /\ WF_vars(Query) /\ WF_vars(Publish)

-----------------------------------------------------------------------------
(* Properties.                                                             *)

\* From what the reader returned last through what it has taken and what is queued,
\* each transition begins where the one before ended, and the last ends at the focus
\* in force; only a missed one breaks this, and then the flag is set.
Pending == IF worker = "taken" THEN <<held>> \o queue ELSE queue
ChainToCurrent ==
  ~missed =>
    /\ Pending = <<>> => lastSeen = current
    /\ Pending # <<>> => /\ Pending[1].previous = lastSeen
                         /\ Pending[Len(Pending)].current = current
    /\ \A i \in 1 .. Len(Pending) - 1 : Pending[i].current = Pending[i + 1].previous

\* FocusTransitionReceiver: what is returned begins at what was returned before, whatever
\* was dropped in between, and is newer.
HeardWithoutHoles ==
  [][lastSeen' # lastSeen => /\ held'.previous = lastSeen
                             /\ held'.current = lastSeen'
                             /\ lastSeen'.gen > lastSeen.gen]_vars

\* "A wake resync is the single ordering boundary for Chrome state": once the worker has
\* handled a wake, or started after it, no record is left of what it read before.
RecordsAfterWake ==
  worker # "handling" /\ (lastSeen.gen >= woke \/ seen >= woke)
    => \A r \in confirmed : r.at >= woke

\* With nothing left to hear, the worker takes for the one in front the browser that is,
\* so that the pages it loads are recorded; unless a new worker has handled the end of a
\* focus that was over before it started, alone or in a recovery.
Settled == worker = "idle" /\ ~missed /\ queue = <<>>
InForce == IF IsBrowser(current) THEN current ELSE Nowhere
FrontFollowsFocus ==
  Settled /\ ~overrun => frontmost = InForce \/ \E app \in dead : Is(current, app)

\* The newest focus is heard of, however many transitions were dropped.
NewestHeard == <>[](lastSeen = current)

\* "Navigations are observed when the tab, window, title, or page load changes" (reference
\* of events): with nothing left to hear, a page the browser in front loads is asked about.
PageLoadsObserved ==
  Settled /\ IsBrowser(current) /\ AppOf[current.view] \notin dead
    => Is(frontmost, AppOf[current.view])
=============================================================================
