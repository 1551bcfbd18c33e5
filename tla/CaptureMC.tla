----------------------------- MODULE CaptureMC ------------------------------
(***************************************************************************)
(* Small instances of the modules of the accessibility collector, the      *)
(* event tap and the content snapshots, in one run: a behaviour is one of  *)
(* one part, and the variables of the others stand still.                  *)
(***************************************************************************)
EXTENDS TypedText, EventTap, AppObservers, FieldPulls, SnapshotWalk, SnapshotWorker, TLC

VARIABLE part   \* the module whose behaviour this is

TypedIdle ==
    /\ clock = 0 /\ content = 0 /\ inserted = 0 /\ focused = 0 /\ secureInput = 0
    /\ ruling = 0 /\ attempts = 0 /\ channel = 0 /\ integrityLost = 0 /\ lossPending = 0
    /\ tapQueue = 0 /\ received = 0 /\ history = 0 /\ armed = 0 /\ target = 0
    /\ generation = 0 /\ retired = 0 /\ published = 0 /\ emitted = 0 /\ withheld = 0
    /\ lossKnown = 0 /\ restartedAt = 0 /\ troubles = 0
TapIdle ==
    /\ machine = 0 /\ refusing = 0 /\ asleep = 0 /\ notices = 0 /\ batch = 0 /\ turn = 0
    /\ secureNow = 0 /\ secureSeen = 0 /\ place = 0 /\ front = 0 /\ open = 0 /\ board = 0
    /\ counted = 0 /\ sampled = 0 /\ intent = 0 /\ unwatched = 0 /\ deaf = 0
    /\ pressed = 0 /\ waiting = 0 /\ confirmed = 0 /\ used = 0 /\ out = 0 /\ turmoil = 0
    /\ moves = 0
AppsIdle ==
    /\ alive = 0 /\ frontApp = 0 /\ trees = 0 /\ watching = 0 /\ callbacks = 0
    /\ wsStage = 0 /\ polled = 0 /\ tracked = 0 /\ relayed = 0 /\ axStage = 0
    /\ toAttach = 0 /\ observers = 0 /\ appsUsed = 0 /\ unavailable = 0 /\ ledger = 0
    /\ permitted = 0 /\ filterGeneration = 0 /\ seenGeneration = 0 /\ readGeneration = 0
    /\ toReconcile = 0 /\ unseen = 0 /\ blind = 0 /\ raced = 0 /\ spent = 0
PullsIdle ==
    /\ focusNow = 0 /\ fieldClass = 0 /\ registered = 0 /\ posted = 0 /\ held = 0
    /\ heldClass = 0 /\ registry = 0 /\ announcement = 0 /\ burst = 0 /\ submitDue = 0
    /\ settleIn = 0 /\ unreadKeys = 0 /\ announced = 0 /\ sampledKeys = 0 /\ looked = 0
    /\ shifts = 0 /\ failures = 0
WalkIdle ==
    /\ phase = 0 /\ windows = 0 /\ candidates = 0 /\ listed = 0 /\ onScreen = 0
    /\ chosen = 0 /\ work = 0 /\ visited = 0 /\ kids = 0 /\ told = 0 /\ owing = 0 /\ inputs = 0
    /\ masks = 0 /\ blanks = 0 /\ text = 0 /\ unread = 0 /\ degradedNodes = 0 /\ gaps = 0
    /\ cutoff = 0
WorkerIdle ==
    /\ focus = 0 /\ unpublished = 0 /\ axEvents = 0 /\ announcing = 0 /\ triggers = 0
    /\ lossy = 0 /\ lifecycle = 0 /\ inputSent = 0 /\ inputHeld = 0 /\ step = 0
    /\ message = 0 /\ watched = 0 /\ focusOut = 0 /\ saved = 0 /\ globalLeft = 0
    /\ backoffs = 0 /\ recognizing = 0 /\ shown = 0 /\ delivered = 0 /\ news = 0

(* The elements, windows and applications are interchangeable, so a        *)
(* behaviour may start with the first of each in focus.                    *)
First(S) == CHOOSE x \in S : TRUE

CaptureInit ==
    \/ /\ part = "typed" /\ TypedInit /\ focused = First(Elements)
       /\ TapIdle /\ AppsIdle /\ PullsIdle /\ WalkIdle /\ WorkerIdle
    \/ /\ part = "tap" /\ TapInit
       /\ TypedIdle /\ AppsIdle /\ PullsIdle /\ WalkIdle /\ WorkerIdle
    \/ /\ part = "apps" /\ AppsInit /\ frontApp \in {First(Apps), NoApp}
       /\ TypedIdle /\ TapIdle /\ PullsIdle /\ WalkIdle /\ WorkerIdle
    \/ /\ part = "pulls" /\ PullsInit
       /\ TypedIdle /\ TapIdle /\ AppsIdle /\ WalkIdle /\ WorkerIdle
    \/ /\ part = "walk" /\ WalkInit
       /\ TypedIdle /\ TapIdle /\ AppsIdle /\ PullsIdle /\ WorkerIdle
    \/ /\ part = "worker" /\ WorkerInit /\ focus = First(Windows)
       /\ TypedIdle /\ TapIdle /\ AppsIdle /\ PullsIdle /\ WalkIdle

CaptureNext ==
    /\ UNCHANGED part
    /\ \/ part = "typed" /\ TypedNext /\ UNCHANGED <<tapVars, appVars, pullsVars, walkVars, workerVars>>
       \/ part = "tap" /\ TapNext /\ UNCHANGED <<typedVars, appVars, pullsVars, walkVars, workerVars>>
       \/ part = "apps" /\ AppsNext /\ UNCHANGED <<typedVars, tapVars, pullsVars, walkVars, workerVars>>
       \/ part = "pulls" /\ PullsNext /\ UNCHANGED <<typedVars, tapVars, appVars, walkVars, workerVars>>
       \/ part = "walk" /\ WalkNext /\ UNCHANGED <<typedVars, tapVars, appVars, pullsVars, workerVars>>
       \/ part = "worker" /\ WorkerNext /\ UNCHANGED <<typedVars, tapVars, appVars, pullsVars, walkVars>>

captureVars == <<part, typedVars, tapVars, appVars, pullsVars, walkVars, workerVars>>
CaptureSpec == CaptureInit /\ [][CaptureNext]_captureVars

-----------------------------------------------------------------------------
RefreshSteps == <<1, 2>>
PageVersions == [r \in Rulings |-> IF r \in Denied THEN 0 ELSE 1]

-----------------------------------------------------------------------------
(* Typed text (module TypedText) is recorded once, never from a time some  *)
(* of whose keys are unexplained, never withheld text, and only text whose *)
(* field followed the keys (authorization.rs, value.rs).                   *)
TextStaysGated ==
    /\ [](part = "typed" => TypedTypeOK /\ TypedOnce)
    /\ [][part = "typed" => GapVoids /\ WithheldStaysOut /\ TextFollowsTyping]_captureVars

(* The clipboard and the keys (module EventTap): a copied body is recorded *)
(* where it was copied, once for each shortcut (eventtap/clipboard.rs).    *)
ClipboardInPlace ==
    /\ [](part = "tap" => BodiesStayInPlace)
    /\ [][part = "tap" => OneCopyPerShortcut]_captureVars

(* The event tap (module EventTap) comes back after the system turned it   *)
(* off, and every input authorization is settled (eventtap/state.rs,       *)
(* eventtap/worker.rs).                                                    *)
TapRecovers == part = "tap" => TapTypeOK /\ NeverDeafForLong /\ AuthorizationsSettle

(* The applications that are observed (module AppObservers) are those that *)
(* run, and their accessibility trees follow the filter (ax.rs,            *)
(* workspace.rs).                                                          *)
AppsFollowed == part = "apps" => AppsTypeOK /\ PictureMatches /\ TreesFollowFilter

(* Fields are read in time after typing, and the focused field is heard    *)
(* (module FieldPulls; runtime/input_pull.rs, ffi/ax/observer.rs).         *)
FieldsHeard == part = "pulls" => PullsTypeOK /\ ReadInTime /\ HeldFieldIsHeard

(* A walk of the accessibility tree masks or blanks what it could not      *)
(* classify (module SnapshotWalk; content_snapshot/walker.rs); the worker  *)
(* of the snapshots (module SnapshotWorker) knows the focus and saves what *)
(* changed (content_snapshot/trigger.rs, content_snapshot/state.rs).       *)
SnapshotsSound ==
    /\ [](part = "walk" => WalkTypeOK /\ WalkSound)
    /\ [](part = "worker" => WorkerTypeOK /\ TracksFocus)
    /\ [][part = "worker" => SavesWhatChanged]_captureVars
=============================================================================
