------------------------------- MODULE StoreMC ------------------------------
(***************************************************************************)
(* Small instances of the modules of the store and of the files beside it, *)
(* in one run: a behaviour is one of one part, and the variables of the    *)
(* others stand still.                                                     *)
(***************************************************************************)
EXTENDS StoreOpening, StoreReaders, StoreKeys, Timeline, ConfigReload, CapabilityReports,
        SetupPlan, TLC

VARIABLE part   \* the module whose behaviour this is

OpeningIdle ==
    /\ live = 0 /\ walEvents = 0 /\ retired = 0 /\ keyItem = 0 /\ keysMade = 0
    /\ opener = 0 /\ command = 0 /\ clock = 0 /\ openFailures = 0 /\ openRequests = 0
    /\ everRecorded = 0 /\ asked = 0
ReadersIdle ==
    /\ storeId = 0 /\ appended = 0 /\ present = 0 /\ eventIds = 0 /\ today = 0
    /\ hours = 0 /\ beats = 0 /\ deletions = 0 /\ upheavals = 0 /\ settings = 0
    /\ reader = 0 /\ request = 0 /\ answer = 0 /\ returned = 0 /\ missing = 0
    /\ rewound = 0 /\ query = 0
KeysIdle ==
    /\ place = 0 /\ item = 0 /\ staging = 0 /\ door = 0 /\ store = 0 /\ opening = 0
    /\ lost = 0 /\ rushed = 0 /\ keyWork = 0
TimelineIdle ==
    /\ rows = 0 /\ content = 0 /\ options = 0 /\ phase = 0 /\ base = 0 /\ pendingIn = 0
    /\ raw = 0 /\ ids = 0 /\ truncated = 0
ConfigIdle ==
    /\ confFile = 0 /\ writes = 0 /\ editors = 0 /\ watcher = 0
ReportsIdle ==
    /\ permission = 0 /\ wanted = 0 /\ instances = 0 /\ holder = 0 /\ activeDaemon = 0
    /\ beat = 0 /\ probe = 0 /\ unwritten = 0 /\ row = 0 /\ reporter = 0 /\ published = 0
    /\ surprises = 0 /\ commands = 0
SetupIdle ==
    /\ agentFile = 0 /\ temporary = 0 /\ installer = 0 /\ theirs = 0 /\ overtaken = 0
    /\ setupWork = 0

FirstEditor == CHOOSE c \in Editors : TRUE

AllIdleBut(name) ==
    /\ name # "opening" => OpeningIdle
    /\ name # "readers" => ReadersIdle
    /\ name # "keys" => KeysIdle
    /\ name # "timeline" => TimelineIdle
    /\ name # "config" => ConfigIdle
    /\ name # "reports" => ReportsIdle
    /\ name # "setup" => SetupIdle

StoreInit ==
    \/ part = "opening" /\ OpeningInit /\ AllIdleBut("opening")
    \/ part = "readers" /\ ReadersInit /\ AllIdleBut("readers")
    \/ part = "keys" /\ KeysInit /\ AllIdleBut("keys")
    \/ part = "timeline" /\ TimelineInit /\ AllIdleBut("timeline")
    \/ part = "config" /\ ConfigInit /\ AllIdleBut("config")
    \/ part = "reports" /\ ReportsInit /\ AllIdleBut("reports")
    \/ part = "setup" /\ SetupInit /\ AllIdleBut("setup")

(* The daemon's watcher only reads the file: it meets one editor, and two   *)
(* editors race while there is no watcher.                                 *)
OneEditor == \A c \in Editors \ {FirstEditor} : editors'[c] = editors[c] /\ editors[c].at = "idle"

StoreNext ==
    /\ UNCHANGED part
    /\ \/ /\ part = "opening" /\ OpeningNext
          /\ UNCHANGED <<readerVars, keyVars, timelineVars, configVars, reportVars, setupVars>>
       \/ /\ part = "readers" /\ ReadersNext
          /\ UNCHANGED <<openingVars, keyVars, timelineVars, configVars, reportVars, setupVars>>
       \/ /\ part = "keys" /\ KeysNext
          /\ UNCHANGED <<openingVars, readerVars, timelineVars, configVars, reportVars, setupVars>>
       \/ /\ part = "timeline" /\ TimelineNext
          /\ UNCHANGED <<openingVars, readerVars, keyVars, configVars, reportVars, setupVars>>
       \/ /\ part = "config" /\ ConfigNext /\ (OneEditor \/ watcher' = WatcherOff)
          /\ UNCHANGED <<openingVars, readerVars, keyVars, timelineVars, reportVars, setupVars>>
       \/ /\ part = "reports" /\ ReportsNext
          /\ UNCHANGED <<openingVars, readerVars, keyVars, timelineVars, configVars, setupVars>>
       \/ /\ part = "setup" /\ SetupNext
          /\ UNCHANGED <<openingVars, readerVars, keyVars, timelineVars, configVars, reportVars>>

storeMCVars == <<part, openingVars, readerVars, keyVars, timelineVars, configVars,
    reportVars, setupVars>>
StoreSpec == StoreInit /\ [][StoreNext]_storeMCVars

-----------------------------------------------------------------------------
TwoNeeds == {{"accessibility", "input"}, Capabilities}

-----------------------------------------------------------------------------
(* The change to an encrypted store (module StoreOpening) loses no event   *)
(* and no pause of the user, and what was set aside stays readable and     *)
(* private (store/writer/adoption.rs, store/retired.rs).                   *)
UpgradeKeeps ==
    part = "opening" => OpeningTypeOK /\ NothingLost /\ PauseSurvivesUpgrade /\ RetiredArePrivate

(* A reader (module StoreReaders) is told of every row it did not get, its *)
(* answers are right when they are given, and a query is exact             *)
(* (store/context_page.rs, store/query.rs).                                *)
ReadersToldTruly ==
    /\ [](part = "readers" => ReadersTypeOK /\ NothingSkipped /\ QueryExact)
    /\ [][part = "readers" => AnswersHold]_storeMCVars

(* A store is opened by the key it was made with (module StoreKeys;        *)
(* store_access.rs, key_store.rs).                                         *)
KeysFit == part = "keys" => KeysTypeOK /\ KeysSafe

(* The sessions of a timeline are those of its rows (module Timeline;      *)
(* timeline/builder.rs).                                                   *)
SessionsExact == part = "timeline" => TimelineTypeOK /\ TimelineSound

(* A recorder follows the configuration file and its retention, a save of  *)
(* one setting keeps the others (module ConfigReload; runtime.rs,          *)
(* commands/config.rs), and the setup of an agent keeps the other servers  *)
(* of its file (module SetupPlan; setup/plan.rs).                          *)
FilesKept ==
    /\ [](part = "config" => ConfigTypeOK /\ FollowsFile /\ RetentionReported)
    /\ [][part = "config" => SaveKeepsTheRest]_storeMCVars
    /\ [](part = "setup" => SetupTypeOK /\ SetupKeepsTheirs)

(* What status, doctor and start conclude from a heartbeat is about the    *)
(* recorder they name (module CapabilityReports; status.rs, doctor.rs,     *)
(* permission.rs).                                                         *)
ReportsNameTheirOwner ==
    /\ [](part = "reports" => ReportsTypeOK /\ SnapshotIsItsRecorders /\ MarkedWhileAsked)
    /\ [][part = "reports" => HealthNamesTheOwner /\ StartJudgesItsOwn]_storeMCVars
=============================================================================
