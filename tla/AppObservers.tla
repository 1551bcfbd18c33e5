---------------------------- MODULE AppObservers ----------------------------
(***************************************************************************)
(* Which applications the recorder watches.                                *)
(*                                                                         *)
(* AppKit tells the main thread that an application was launched,          *)
(* activated or terminated; the callback puts the notification in a        *)
(* bounded queue (ffi/workspace.rs).  The workspace thread takes them in   *)
(* batches, drops an activation of the application it already tracks and   *)
(* sends the rest into the bounded channel of the accessibility collector  *)
(* (workspace.rs).  That collector's thread (ax.rs, ffi/ax/runtime.rs)     *)
(* attaches an observer to every application that runs when it starts and  *)
(* to every one it hears of, takes it away on termination, keeps a ledger  *)
(* of the failures nothing has resolved yet (ax/health.rs), and asks the   *)
(* applications the content filter allows to build their accessibility     *)
(* tree (ffi/ax/accessibility.rs), again whenever the daemon replaces the  *)
(* filter.                                                                 *)
(*                                                                         *)
(* An application is its process: one that is launched again has a new     *)
(* process, whose number may be an old one only after every notification   *)
(* about the old process is handled.  Wake notifications only move the     *)
(* focus (module FocusTransitions); what observers read is in TypedText    *)
(* and FieldPulls.                                                         *)
(***************************************************************************)
EXTENDS Integers, Sequences, FiniteSets

CONSTANTS
  Apps,              \* the applications that can show a window
  NoApp,            \* no application
  CallbackLimit,     \* CALLBACK_QUEUE_CAPACITY of ffi/workspace.rs
  ChannelLimit,      \* WORKSPACE_CHANNEL_CAPACITY
  MaxAppMoves,          \* bound on launches, activations and terminations
  MaxAppTroubles        \* bound on failed calls, replaced filters and stopped collectors

ASSUME AppsAssumption ==
  /\ NoApp \notin Apps
  /\ {CallbackLimit, ChannelLimit} \subseteq Nat \ {0}
  /\ {MaxAppMoves, MaxAppTroubles} \subseteq Nat

VARIABLES
  alive, frontApp,     \* the applications that run; the frontmost one
  trees,               \* those that were asked to build a tree (AXManualAccessibility)
  watching, callbacks, \* whether notifications are taken; the callback queue
  wsStage, polled,     \* the workspace thread; the batch it took
  tracked,             \* ActivationTracker.current_pid
  relayed,             \* the channel to the accessibility collector
  axStage, toAttach,   \* the accessibility thread; applications left of its list
  observers,           \* NativeAx.observers, with the flag of each
  appsUsed, unavailable,   \* ObserverHealth
  ledger,              \* FailureLedger.unresolved, as <<application, site>>
  permitted, filterGeneration,        \* ManualAccessibilityPolicy
  seenGeneration, readGeneration, toReconcile,
  unseen,              \* history: something about them never reached the collector
  blind,               \* history: the callback queue lost something since it was opened
  raced,               \* history: the filter changed while the collector attached
  spent                \* how often each bounded thing happened

systemVars == <<alive, frontApp>>
queueVars == <<watching, callbacks, wsStage, polled, tracked, relayed, unseen, blind>>
policyVars == <<permitted, filterGeneration, raced>>
healthVars == <<observers, appsUsed, unavailable, ledger, trees>>
loopVars == <<axStage, toAttach, seenGeneration, readGeneration, toReconcile>>
appVars == <<systemVars, queueVars, policyVars, healthVars, loopVars, spent>>

Notices == [kind : {"launched", "activated", "terminated"}, app : Apps]
Bounds == [moves |-> MaxAppMoves, troubles |-> MaxAppTroubles]
Spend(what) == spent[what] < Bounds[what] /\ spent' = [spent EXCEPT ![what] = @ + 1]

\* The applications a queue says something about.
Mentioned(queue) == {queue[i].app : i \in DOMAIN queue}
InFlight == Mentioned(callbacks) \cup Mentioned(polled) \cup Mentioned(relayed)

-----------------------------------------------------------------------------
(* The system and its notifications. *)

\* The callback: a queue that is full, or not taken, loses the notification.
Enqueue(kind, app) ==
  LET taken == watching /\ Len(callbacks) < CallbackLimit
  IN /\ callbacks' = IF taken THEN Append(callbacks, [kind |-> kind, app |-> app]) ELSE callbacks
     /\ unseen' = IF taken THEN unseen ELSE unseen \cup {app}
     /\ blind' = (blind \/ ~taken)
     /\ UNCHANGED <<watching, wsStage, polled, tracked, relayed>>

AppLaunches(app) ==
  /\ app \notin alive \cup InFlight /\ Spend("moves")
  /\ alive' = alive \cup {app}
  /\ Enqueue("launched", app)
  /\ UNCHANGED <<frontApp, policyVars, healthVars, loopVars>>

AppActivates(app) ==
  /\ app \in alive \ {frontApp} /\ Spend("moves")
  /\ frontApp' = app
  /\ Enqueue("activated", app)
  /\ UNCHANGED <<alive, policyVars, healthVars, loopVars>>

AppTerminates(app) ==
  /\ app \in alive /\ Spend("moves")
  /\ alive' = alive \ {app}
  /\ trees' = trees \ {app}
  /\ frontApp' = IF frontApp = app THEN NoApp ELSE frontApp
  /\ Enqueue("terminated", app)
  /\ UNCHANGED <<policyVars, observers, appsUsed, unavailable, ledger, loopVars>>

-----------------------------------------------------------------------------
(* The workspace thread. *)

\* WorkspaceCollector::start: what the queue still holds is thrown away.
StartWorkspace ==
  /\ wsStage = "off"
  /\ wsStage' = "starting" /\ watching' = TRUE
  /\ callbacks' = <<>> /\ polled' = <<>> /\ tracked' = NoApp
  /\ unseen' = unseen \cup Mentioned(callbacks) /\ blind' = FALSE
  /\ UNCHANGED <<relayed, systemVars, policyVars, healthVars, loopVars, spent>>

\* The first poll does not wait.  Without an activation in it the thread asks
\* for the frontmost application once the batch is handled.
FirstPoll ==
  /\ wsStage = "starting"
  /\ polled' = callbacks /\ callbacks' = <<>>
  /\ wsStage' = IF \E i \in DOMAIN callbacks : callbacks[i].kind = "activated"
                THEN "polling" ELSE "asking"
  /\ UNCHANGED <<watching, tracked, relayed, unseen, blind, systemVars, policyVars, healthVars,
                 loopVars, spent>>

TakeNotices ==
  /\ wsStage = "polling" /\ polled = <<>> /\ callbacks # <<>>
  /\ polled' = callbacks /\ callbacks' = <<>>
  /\ UNCHANGED <<watching, wsStage, tracked, relayed, unseen, blind, systemVars, policyVars,
                 healthVars, loopVars, spent>>

\* A collector that forgets that the tracked application ended.
RelayKeepingTracked(notice) ==
  LET repeated == notice.kind = "activated" /\ tracked = notice.app
      full == Len(relayed) >= ChannelLimit
  IN /\ tracked' = IF notice.kind = "activated" THEN notice.app ELSE tracked
     /\ relayed' = IF repeated \/ full THEN relayed ELSE Append(relayed, notice)
     /\ unseen' = IF full /\ ~repeated THEN unseen \cup {notice.app} ELSE unseen

\* process_workspace_event: an activation of the tracked application is dropped.
Relay(notice) ==
  LET repeated == notice.kind = "activated" /\ tracked = notice.app
      full == Len(relayed) >= ChannelLimit
  IN /\ tracked' = CASE notice.kind = "activated" -> notice.app
                     [] notice.kind = "terminated" /\ tracked = notice.app -> NoApp
                     [] OTHER -> tracked
     /\ relayed' = IF repeated \/ full THEN relayed ELSE Append(relayed, notice)
     /\ unseen' = IF full /\ ~repeated THEN unseen \cup {notice.app} ELSE unseen

RelayNext ==
  /\ wsStage \in {"asking", "polling"} /\ polled # <<>>
  /\ Relay(Head(polled))
  /\ polled' = Tail(polled)
  /\ UNCHANGED <<watching, callbacks, wsStage, blind, systemVars, policyVars, healthVars, loopVars,
                 spent>>

AskFront ==
  /\ wsStage = "asking" /\ polled = <<>>
  /\ wsStage' = "polling"
  /\ IF frontApp = NoApp THEN UNCHANGED <<tracked, relayed, unseen>>
     ELSE Relay([kind |-> "activated", app |-> frontApp])
  /\ UNCHANGED <<watching, callbacks, polled, blind, systemVars, policyVars, healthVars, loopVars,
                 spent>>

\* A batch polled when the stop is seen is thrown away: here it stays queued,
\* which StartWorkspace throws away too.
StopWorkspace ==
  /\ wsStage = "polling" /\ polled = <<>> /\ Spend("troubles")
  /\ wsStage' = "off" /\ watching' = FALSE
  /\ UNCHANGED <<callbacks, polled, tracked, relayed, unseen, blind, systemVars, policyVars, healthVars,
                 loopVars>>

-----------------------------------------------------------------------------
(* The accessibility thread. *)

Attached(app) == observers[app] # "none"

\* The flag an observer of `app` gets now, and the tree that follows from it.
Flag(app) == IF app \in permitted THEN "tree" ELSE "plain"

\* A collector that never takes the request back.
WithTreeOnlyOn(app) ==
  trees' = IF app \in alive /\ app \in permitted THEN trees \cup {app} ELSE trees

\* reconcile_manual_accessibility, which switches off what it switched on.
WithTree(app) ==
  trees' = IF app \notin alive THEN trees
           ELSE IF app \in permitted THEN trees \cup {app}
           ELSE IF observers[app] = "tree" THEN trees \ {app} ELSE trees

\* attach_app, of an application that can show a window.  Attaching to what is
\* attached only refreshes it; attaching to a process that is gone fails; any
\* other attachment may fail.
AttachSucceeds(app) ==
  /\ Attached(app) \/ app \in alive
  /\ observers' = [observers EXCEPT ![app] = Flag(app)]
  /\ WithTree(app)
  /\ unavailable' = unavailable \ {app}
  /\ ledger' = ledger \ {<<app, "attach">>}
  /\ UNCHANGED spent

AttachFails(app) ==
  /\ ~Attached(app)
  /\ IF app \in alive THEN Spend("troubles") ELSE UNCHANGED spent
  /\ unavailable' = unavailable \cup {app}
  /\ ledger' = ledger \cup {<<app, "attach">>}
  /\ UNCHANGED <<observers, trees>>

AttachApp(app) == AttachSucceeds(app) \/ AttachFails(app)

\* AxCollector::start and the list of running applications.
StartAx ==
  /\ axStage = "off"
  /\ axStage' = "attaching" /\ toAttach' = alive
  /\ unseen' = unseen \cap InFlight /\ raced' = FALSE
  /\ UNCHANGED <<watching, callbacks, wsStage, polled, tracked, relayed, blind, systemVars, permitted,
                 filterGeneration, healthVars, seenGeneration, readGeneration, toReconcile, spent>>

AttachInitial ==
  /\ axStage = "attaching"
  /\ \E app \in toAttach : AttachApp(app) /\ toAttach' = toAttach \ {app}
  /\ UNCHANGED <<appsUsed, systemVars, queueVars, policyVars, axStage, seenGeneration,
                 readGeneration, toReconcile>>

\* The generation to compare with is read once all are attached.
EnterLoop ==
  /\ axStage = "attaching" /\ toAttach = {}
  /\ axStage' = "looping" /\ seenGeneration' = filterGeneration
  /\ UNCHANGED <<systemVars, queueVars, policyVars, healthVars, toAttach, readGeneration,
                 toReconcile, spent>>

\* A collector that leaves the observer of an ended application in place.
DetachedNever(app, clean) ==
  /\ UNCHANGED <<observers, trees>>
  /\ ledger' = {entry \in ledger : entry[1] # app}

\* NativeAx::detach.  Taking the field's notification back fails for a process
\* that is gone, or may fail, and is recorded after the ledger forgot the process.
Detached(app, clean) ==
  /\ observers' = [observers EXCEPT ![app] = "none"]
  /\ trees' = IF observers[app] = "tree" THEN trees \ {app} ELSE trees
  /\ ledger' = {entry \in ledger : entry[1] # app}
                 \cup (IF clean THEN {} ELSE {<<app, "unregister">>})

HandleTerminated(app) ==
  /\ appsUsed' = appsUsed \ {app} /\ unavailable' = unavailable \ {app}
  /\ \E clean \in BOOLEAN :
       /\ clean \/ Attached(app)
       /\ Detached(app, clean)
  /\ UNCHANGED spent

\* The lifecycle loop of run_ax_loop.
HandleLifecycle ==
  /\ axStage = "looping" /\ relayed # <<>>
  /\ relayed' = Tail(relayed)
  /\ LET notice == Head(relayed) IN
       \/ notice.kind = "launched" /\ AttachApp(notice.app) /\ UNCHANGED appsUsed
       \/ notice.kind = "activated" /\ AttachApp(notice.app) /\ appsUsed' = appsUsed \cup {notice.app}
       \/ notice.kind = "terminated" /\ HandleTerminated(notice.app)
  /\ UNCHANGED <<watching, callbacks, wsStage, polled, tracked, unseen, blind, systemVars, policyVars,
                 loopVars>>

\* A poll reads through an observer; what it could not do is recorded until it can.
ReadThrough(app) ==
  /\ axStage = "looping" /\ Attached(app)
  /\ \/ app \in alive /\ ledger' = ledger \ {<<app, "read">>} /\ UNCHANGED spent
     \/ app \in alive /\ Spend("troubles") /\ ledger' = ledger \cup {<<app, "read">>}
     \/ app \notin alive /\ ledger' = ledger \cup {<<app, "read">>} /\ UNCHANGED spent
  /\ UNCHANGED <<observers, appsUsed, unavailable, trees, systemVars, queueVars, policyVars, loopVars>>

\* The top of the loop: the generation is read first, then every observer asks
\* the filter, and only then the generation read counts as seen.
BeginReconcile ==
  /\ axStage = "looping" /\ filterGeneration # seenGeneration
  /\ axStage' = "reconciling" /\ readGeneration' = filterGeneration
  /\ toReconcile' = {app \in Apps : Attached(app)}
  /\ UNCHANGED <<systemVars, queueVars, policyVars, healthVars, toAttach, seenGeneration, spent>>

ReconcileOne ==
  /\ axStage = "reconciling"
  /\ \E app \in toReconcile :
       /\ toReconcile' = toReconcile \ {app}
       /\ observers' = [observers EXCEPT ![app] = Flag(app)]
       /\ WithTree(app)
  /\ UNCHANGED <<appsUsed, unavailable, ledger, systemVars, queueVars, policyVars, axStage, toAttach,
                 seenGeneration, readGeneration, spent>>

Reconciled == seenGeneration' = readGeneration

EndReconcile ==
  /\ axStage = "reconciling" /\ toReconcile = {}
  /\ axStage' = "looping" /\ Reconciled
  /\ UNCHANGED <<systemVars, queueVars, policyVars, healthVars, toAttach, readGeneration,
                 toReconcile, spent>>

\* AxCollector::stop: every observer is dropped, which takes its tree request back.
StopAx ==
  /\ axStage = "looping" /\ Spend("troubles")
  /\ axStage' = "off"
  /\ observers' = [app \in Apps |-> "none"]
  /\ trees' = {app \in trees : observers[app] # "tree"}
  /\ appsUsed' = {} /\ unavailable' = {} /\ ledger' = {}
  /\ UNCHANGED <<systemVars, queueVars, policyVars, toAttach, seenGeneration, readGeneration,
                 toReconcile>>

\* ManualAccessibilityPolicy::replace_filter, by the daemon's main loop.
ReplacePermitted ==
  /\ Spend("troubles")
  /\ \E apps \in SUBSET Apps : permitted' = apps
  /\ filterGeneration' = filterGeneration + 1
  /\ raced' = (raced \/ axStage = "attaching")
  /\ UNCHANGED <<systemVars, queueVars, healthVars, loopVars>>

-----------------------------------------------------------------------------
AppsInit ==
  /\ alive \in SUBSET Apps /\ frontApp \in alive \cup {NoApp}
  /\ trees = {} /\ watching = FALSE /\ callbacks = <<>> /\ wsStage = "off" /\ polled = <<>>
  /\ tracked = NoApp /\ relayed = <<>> /\ axStage = "off" /\ toAttach = {}
  /\ observers = [app \in Apps |-> "none"]
  /\ appsUsed = {} /\ unavailable = {} /\ ledger = {}
  /\ permitted = Apps /\ filterGeneration = 0
  /\ seenGeneration = 0 /\ readGeneration = 0 /\ toReconcile = {}
  /\ unseen = {} /\ blind = FALSE /\ raced = FALSE
  /\ spent = [moves |-> 0, troubles |-> 0]

AppsNext ==
  \/ \E app \in Apps : AppLaunches(app) \/ AppActivates(app) \/ AppTerminates(app)
  \/ StartWorkspace \/ FirstPoll \/ TakeNotices \/ RelayNext \/ AskFront \/ StopWorkspace
  \/ StartAx \/ AttachInitial \/ EnterLoop \/ HandleLifecycle \/ StopAx
  \/ \E app \in Apps : ReadThrough(app)
  \/ BeginReconcile \/ ReconcileOne \/ EndReconcile
  \/ ReplacePermitted

AppsSpec == AppsInit /\ [][AppsNext]_appVars

-----------------------------------------------------------------------------
AppsTypeOK ==
  /\ {alive, trees, toAttach, appsUsed, unavailable, permitted, toReconcile, unseen} \subseteq SUBSET Apps
  /\ {frontApp, tracked} \subseteq Apps \cup {NoApp}
  /\ {watching, blind, raced} \subseteq BOOLEAN
  /\ callbacks \in Seq(Notices) /\ Len(callbacks) <= CallbackLimit
  /\ polled \in Seq(Notices)
  /\ relayed \in Seq(Notices) /\ Len(relayed) <= ChannelLimit
  /\ wsStage \in {"off", "starting", "asking", "polling"}
  /\ axStage \in {"off", "attaching", "looping", "reconciling"}
  /\ observers \in [Apps -> {"none", "plain", "tree"}]
  /\ ledger \subseteq Apps \X {"attach", "read", "unregister"}
  /\ {filterGeneration, seenGeneration, readGeneration} \subseteq 0..MaxAppTroubles

\* Every notification that was taken has been handled.
Settled ==
  axStage = "looping" /\ wsStage = "polling" /\ InFlight = {}

\* Once the notifications are handled, the collector's picture is the system's:
\* of the applications it could hear about, exactly those that run are observed
\* or known as unavailable, none as both; and the workspace thread tracks the
\* frontmost one unless its queue overflowed (process_workspace_event, attach_app, the Terminated arm of run_ax_loop).
PictureMatches ==
  /\ Settled =>
       \A app \in Apps \ unseen :
         /\ (app \in alive) <=> (Attached(app) \/ app \in unavailable)
         /\ ~(Attached(app) /\ app \in unavailable)
  /\ (wsStage = "polling" /\ callbacks = <<>> /\ polled = <<>> /\ ~blind) => tracked = frontApp

\* Between two passes of the loop the running applications asked to build a
\* tree are exactly the observed ones the latest filter allows, and none is left
\* asked once the collector has stopped (reconcile_manual_accessibility,
\* AppObserver's drop).  The filter changing while the collector attaches is left
\* out: see FilterReachesApps.
TreesFollowFilter ==
  /\ axStage = "off" => trees = {}
  /\ (axStage = "looping" /\ seenGeneration = filterGeneration /\ ~raced) =>
       \A app \in Apps \ (unseen \cup InFlight) :
         app \in trees <=> (app \in alive /\ Attached(app) /\ app \in permitted)

\* What the privacy guide says without that exception: the recorder asks every
\* application the filters allow.  The generation read after the initial
\* attachments hides a filter that was replaced during them.
FilterReachesApps ==
  (axStage = "looping" /\ seenGeneration = filterGeneration) =>
    \A app \in Apps \ (unseen \cup InFlight) :
      (app \in alive /\ Attached(app)) => (app \in trees <=> app \in permitted)

\* What the recording guide says of the reported degradation: it is about a
\* problem that is current.  A failure to take back a notification of an ended
\* process is recorded after its entries are removed and nothing removes it.
FailuresAreCurrent ==
  Settled => \A entry \in ledger : entry[1] \in alive \cup unseen
=============================================================================
