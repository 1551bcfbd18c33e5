--------------------------- MODULE ConfigReload ---------------------------
(***************************************************************************)
(* The configuration file between the commands that edit it and the        *)
(* recorder that watches it.  `zanei filter`, `config set`, `config init`  *)
(* and `config edit` are processes of their own without a lock: each reads *)
(* the file, and some time later puts a new one in its place.  The         *)
(* recorder compares the modification time about every two seconds, loads  *)
(* the file again when it differs, replaces the filter of the pipeline and *)
(* of the collectors, and purges with the new retention before that        *)
(* retention becomes the active one.                                       *)
(*                                                                         *)
(* A configuration is the exclude list, the snapshot switch and the        *)
(* retention; a file is missing, unreadable (unparsable, or refused by     *)
(* Config::validate), or a configuration.  An empty file is the default.   *)
(* Modification times count the writes, and are 0 for a missing file.      *)
(*                                                                         *)
(* Sources: zanei-core config.rs, config/{edit,scalar_file,validation}.rs; *)
(* zanei-cli commands/config.rs, commands/filter/mod.rs, daemon/runtime.rs,*)
(* daemon/runtime/config_reload.rs, daemon/collectors.rs; zanei-macos      *)
(* browser_context.rs.                                                     *)
(***************************************************************************)
EXTENDS Naturals

CONSTANTS Editors,           \* processes that edit the file
          Listed,            \* what an exclude list may name
          Browser,           \* the entry that excludes the browser
          RetentionChoices,  \* values of output.retention_hours
          DefaultRetention,
          MaxWrites          \* bound: writes of the file

ASSUME ConfigReloadAssumption ==
    /\ Browser \in Listed
    /\ RetentionChoices \subseteq Nat \ {0} /\ DefaultRetention \in RetentionChoices
    /\ MaxWrites \in Nat

VARIABLES confFile,  \* what is at the configuration path
          writes,    \* writes so far, the last modification time given
          editors,   \* each editing process: where it stands
          watcher    \* the recorder
configVars == <<confFile, writes, editors, watcher>>

Configs == [filter : SUBSET Listed, snapshot : BOOLEAN, retention : RetentionChoices]
DefaultConfig == [filter |-> {}, snapshot |-> FALSE, retention |-> DefaultRetention]
Fields == DOMAIN DefaultConfig

Stamps == 0 .. MaxWrites
NoConfigFile == [kind |-> "missing", config |-> DefaultConfig, stamp |-> 0]

\* Config::load: a missing file is the default configuration.
Loads == confFile.kind # "bad"
Loaded == confFile.config

\* required_browser_targets, for sources that include the browser: the one target unless
\* the filter excludes it.
Targets(filter) == {Browser} \ filter

-----------------------------------------------------------------------------
(* The commands *)

EditorIdle == [at |-> "idle", field |-> "-", doc |-> DefaultConfig, seen |-> 0]
EditorGoes(c, e) == editors' = [editors EXCEPT ![c] = e]
EditorStops(c) == EditorGoes(c, EditorIdle)
WrittenConfig(kind, config) ==
    /\ writes < MaxWrites
    /\ writes' = writes + 1
    /\ confFile' = [kind |-> kind, config |-> config, stamp |-> writes + 1]

\* apply_filter_edit: adds what is not listed, removes what is.
Toggled(filter, entry) == IF entry \in filter THEN filter \ {entry} ELSE filter \cup {entry}

\* edit_filter and `config set output.retention_hours`: load, change one value, and save
\* the whole configuration if that changed it.
WholeFileEdit(c, field, doc) ==
    /\ editors[c].at = "idle" /\ Loads
    /\ EditorGoes(c, [at |-> "save", field |-> field, doc |-> doc, seen |-> confFile.stamp])
    /\ UNCHANGED <<confFile, writes, watcher>>
FilterEdit(c, entry) ==
    WholeFileEdit(c, "filter", [Loaded EXCEPT !.filter = Toggled(@, entry)])
RetentionEdit(c, hours) ==
    /\ hours # Loaded.retention
    /\ WholeFileEdit(c, "retention", [Loaded EXCEPT !.retention = hours])

\* `config set capture.content_snapshot`: turning it on asks first unless --quiet is given.
SnapshotEdit(c, on, quiet) ==
    /\ editors[c].at = "idle" /\ Loads
    /\ EditorGoes(c, [at |-> IF on /\ ~Loaded.snapshot /\ ~quiet THEN "prompt" ELSE "reread",
                      field |-> "snapshot", doc |-> [Loaded EXCEPT !.snapshot = on],
                      seen |-> confFile.stamp])
    /\ UNCHANGED <<confFile, writes, watcher>>
PromptAnswered(c) ==
    /\ editors[c].at = "prompt"
    /\ \/ EditorGoes(c, [editors[c] EXCEPT !.at = "reread"])
       \/ EditorStops(c)
    /\ UNCHANGED <<confFile, writes, watcher>>

\* Mutant: the configuration loaded before the question is saved.
RewrittenFromMemory(c) == editors[c].doc
\* rewrite_capture_bool: only the switch in the file's current text.
Rewritten(c) == [Loaded EXCEPT !.snapshot = editors[c].doc.snapshot]

\* save_capture_bool reads the file once more; an absent key is added even when its value
\* is the default, text that is the same is not written.
SwitchReread(c) ==
    /\ editors[c].at = "reread"
    /\ \/ /\ Loads
          /\ EditorGoes(c, [editors[c] EXCEPT !.at = "save", !.doc = Rewritten(c),
                                              !.seen = confFile.stamp])
       \/ /\ ~Loads \/ (confFile.kind = "good" /\ Rewritten(c) = Loaded)
          /\ EditorStops(c)
    /\ UNCHANGED <<confFile, writes, watcher>>

\* write_and_replace: a temporary file renamed over the path. `config edit` then opens
\* the default it has just saved.
Replaced(c) ==
    /\ editors[c].at = "save"
    /\ WrittenConfig("good", editors[c].doc)
    /\ EditorGoes(c, IF editors[c].field = "edit" THEN [EditorIdle EXCEPT !.at = "editor"]
                     ELSE EditorIdle)
    /\ UNCHANGED watcher
\* Any step of it fails: the temporary file is removed, the old file stays.
ReplaceFails(c) ==
    /\ editors[c].at = "save"
    /\ EditorStops(c)
    /\ UNCHANGED <<confFile, writes, watcher>>

\* init: create_new makes an empty file, then the template of the defaults is written
\* into it (into nothing visible if the path holds another file by then).
InitCreates(c) ==
    /\ editors[c].at = "idle" /\ confFile.kind = "missing"
    /\ WrittenConfig("good", DefaultConfig)
    /\ EditorGoes(c, [EditorIdle EXCEPT !.at = "template", !.seen = writes + 1])
    /\ UNCHANGED watcher
TemplateWritten(c) ==
    /\ editors[c].at = "template"
    /\ IF confFile.stamp = editors[c].seen THEN WrittenConfig("good", DefaultConfig)
       ELSE UNCHANGED <<confFile, writes>>
    /\ EditorStops(c)
    /\ UNCHANGED watcher
\* remove_partial_config removes whatever is at the path.
TemplateFails(c) ==
    /\ editors[c].at = "template"
    /\ confFile' = NoConfigFile
    /\ EditorStops(c)
    /\ UNCHANGED <<writes, watcher>>

\* edit: saves the default if there is no file and starts the user's editor, which writes
\* the file, some truncating it first; what it leaves may not parse.
EditBegins(c) ==
    /\ editors[c].at = "idle"
    /\ EditorGoes(c, IF confFile.kind = "missing"
                     THEN [EditorIdle EXCEPT !.at = "save", !.field = "edit"]
                     ELSE [EditorIdle EXCEPT !.at = "editor"])
    /\ UNCHANGED <<confFile, writes, watcher>>
EditorTruncates(c) ==
    /\ editors[c].at = "editor"
    /\ WrittenConfig("good", DefaultConfig)
    /\ EditorGoes(c, [EditorIdle EXCEPT !.at = "editing"])
    /\ UNCHANGED watcher
EditorSaves(c) ==
    /\ editors[c].at \in {"editor", "editing"}
    /\ \/ \E config \in Configs : WrittenConfig("good", config)
       \/ WrittenConfig("bad", DefaultConfig)
    /\ EditorStops(c)
    /\ UNCHANGED watcher

\* The user removes the file.
FileDeleted ==
    /\ confFile.kind # "missing"
    /\ confFile' = NoConfigFile
    /\ UNCHANGED <<writes, editors, watcher>>

CommandStep ==
    \E c \in Editors :
        \/ \E entry \in Listed : FilterEdit(c, entry)
        \/ \E hours \in RetentionChoices : RetentionEdit(c, hours)
        \/ \E on, quiet \in BOOLEAN : SnapshotEdit(c, on, quiet)
        \/ PromptAnswered(c) \/ SwitchReread(c) \/ Replaced(c) \/ ReplaceFails(c)
        \/ InitCreates(c) \/ TemplateWritten(c) \/ TemplateFails(c)
        \/ EditBegins(c) \/ EditorTruncates(c) \/ EditorSaves(c)

-----------------------------------------------------------------------------
(* The recorder *)

WatcherOff == [at |-> "off", since |-> "start", watched |-> 0, stat |-> 0, read |-> 0,
               downstream |-> {}, upstream |-> {}, targets |-> {}, chrome |-> FALSE,
               captures |-> FALSE, active |-> DefaultRetention, pending |-> 0,
               trouble |-> {}, purged |-> TRUE]
WatcherGoes(w) == watcher' = w /\ UNCHANGED <<confFile, writes, editors>>

\* run_daemon loads the configuration first (an unreadable one refuses the start) ...
WatcherLoads ==
    /\ watcher.at = "off" /\ Loads
    /\ WatcherGoes([WatcherOff EXCEPT
            !.at = "loaded", !.read = confFile.stamp,
            !.downstream = Loaded.filter, !.upstream = Loaded.filter,
            !.targets = Targets(Loaded.filter), !.chrome = Targets(Loaded.filter) # {},
            !.captures = Loaded.snapshot, !.active = Loaded.retention])
\* ... and takes the modification time afterwards. The purge of the start is fatal if it
\* fails (WatcherStops).
WatcherBegins ==
    /\ watcher.at = "loaded"
    /\ WatcherGoes([watcher EXCEPT !.at = "polling", !.watched = confFile.stamp,
                                   !.stat = confFile.stamp])

\* retry_pending_retention: the requested retention becomes active once a purge with it
\* has succeeded.
Retried(w) ==
    IF w.pending = 0 THEN {w}
    ELSE {[w EXCEPT !.active = w.pending, !.pending = 0, !.trouble = @ \ {"retention"}, !.purged = TRUE],
          [w EXCEPT !.trouble = @ \cup {"retention"}, !.purged = FALSE]}
\* request_retention_reload
Requested(w, hours) ==
    IF hours = w.active THEN {[w EXCEPT !.pending = 0, !.trouble = @ \ {"retention"}]}
    ELSE Retried([w EXCEPT !.pending = hours])

\* reload_if_changed: the modification time is taken before the file is read.
PollUnchanged ==
    /\ watcher.at = "polling" /\ confFile.stamp = watcher.watched
    /\ \E w \in Retried([watcher EXCEPT !.stat = confFile.stamp]) : WatcherGoes(w)
PollChanged ==
    /\ watcher.at = "polling" /\ confFile.stamp # watcher.watched
    /\ WatcherGoes([watcher EXCEPT !.at = "reading", !.stat = confFile.stamp])

\* CollectorSet::replace_filter: the chrome collector is dropped when the targets change
\* and there is one exactly when a target is left.
WithFilter(w, filter) ==
    [w EXCEPT !.downstream = filter, !.upstream = filter,
              !.targets = Targets(filter), !.chrome = Targets(filter) # {}]

\* The file is read and applied: the pipeline's filter, the collectors', the retention.
\* What the recorder captures stays as it started.
Reloaded ==
    /\ watcher.at = "reading" /\ Loads
    /\ \E w \in Requested([WithFilter(watcher, Loaded.filter) EXCEPT
                              !.trouble = @ \ {"config"}], Loaded.retention) :
          WatcherGoes([w EXCEPT !.at = "polling", !.since = "reload",
                                !.watched = watcher.stat, !.read = confFile.stamp])
\* Mutant: the modification time is remembered before the file has been read.
ReloadFailsForGood ==
    /\ watcher.at = "reading" /\ ~Loads
    /\ WatcherGoes([watcher EXCEPT !.at = "polling", !.watched = watcher.stat,
                                   !.trouble = @ \cup {"config"}])
\* An unreadable file leaves everything as it is; the next poll tries again.
ReloadFails ==
    /\ watcher.at = "reading" /\ ~Loads
    /\ WatcherGoes([watcher EXCEPT !.at = "polling", !.trouble = @ \cup {"config"}])

\* Mutant: a purge that succeeds takes the report away, whatever is still pending.
AfterPurgeCleared(w) == [w EXCEPT !.trouble = @ \ {"retention"}, !.purged = TRUE]
AfterPurge(w) ==
    [w EXCEPT !.trouble = IF w.pending = 0 THEN @ \ {"retention"} ELSE @, !.purged = TRUE]

\* purge_active_retention, about every hour.
PeriodicPurge ==
    /\ watcher.at = "polling"
    /\ \/ WatcherGoes(AfterPurge(watcher))
       \/ WatcherGoes([watcher EXCEPT !.trouble = @ \cup {"retention"}, !.purged = FALSE])

\* Stopped, crashed, or refused by the purge of the start.
WatcherStops ==
    /\ watcher.at # "off"
    /\ WatcherGoes(WatcherOff)

-----------------------------------------------------------------------------
ConfigInit ==
    /\ confFile = NoConfigFile
    /\ writes = 0
    /\ editors = [c \in Editors |-> EditorIdle]
    /\ watcher = WatcherOff

ConfigNext ==
    \/ CommandStep \/ FileDeleted
    \/ WatcherLoads \/ WatcherBegins \/ PollUnchanged \/ PollChanged
    \/ Reloaded \/ ReloadFails \/ PeriodicPurge \/ WatcherStops

ConfigSpec == ConfigInit /\ [][ConfigNext]_configVars

-----------------------------------------------------------------------------
(* Properties *)

\* The type of the state.
ConfigTypeOK ==
    /\ confFile \in [kind : {"missing", "good", "bad"}, config : Configs, stamp : Stamps]
    /\ writes \in Stamps
    /\ \A c \in Editors :
          editors[c] \in [at : {"idle", "prompt", "reread", "save", "template", "editor", "editing"},
                          field : Fields \cup {"edit", "-"}, doc : Configs, seen : Stamps]
    /\ watcher \in [at : {"off", "loaded", "polling", "reading"}, since : {"start", "reload"},
                    watched : Stamps, stat : Stamps, read : Stamps,
                    downstream : SUBSET Listed, upstream : SUBSET Listed,
                    targets : SUBSET {Browser}, chrome : BOOLEAN, captures : BOOLEAN,
                    active : RetentionChoices, pending : RetentionChoices \cup {0},
                    trouble : SUBSET {"config", "retention"}, purged : BOOLEAN]

\* Once the recorder has reloaded, a modification time it takes for known belongs to a
\* file it follows: the filter of the pipeline and of the collectors, the browser it
\* queries and the retention that is active or waiting for its purge are those of the
\* file, whatever was written between its look at the time and its reading. Left out: a
\* deletion that gives the path back the state (no file) the recorder had looked at
\* before it read a file written in between.
FollowsFile ==
    (/\ watcher.at = "polling" /\ watcher.since = "reload"
     /\ watcher.watched = confFile.stamp /\ watcher.read <= watcher.watched) =>
        /\ Loads
        /\ watcher.downstream = Loaded.filter /\ watcher.upstream = Loaded.filter
        /\ watcher.targets = Targets(Loaded.filter) /\ watcher.chrome = (watcher.targets # {})
        /\ Loaded.retention = (IF watcher.pending = 0 THEN watcher.active ELSE watcher.pending)

\* A retention that is not yet in force is reported as a problem, and a reported
\* retention problem is a purge that failed or a retention still pending: `zanei status`
\* does not show the requested retention as kept while nothing was purged with it.
RetentionReported ==
    /\ watcher.pending # 0 => "retention" \in watcher.trouble
    /\ "retention" \in watcher.trouble => ~watcher.purged \/ watcher.pending # 0

\* A command that nobody overtook changes what it was asked to change and nothing else:
\* when the file is still the one the command read last, every other setting survives
\* the replacement, also if the file was edited while the command waited for an answer.
SaveKeepsTheRest ==
    \A c \in Editors :
       (editors[c].at = "save" /\ editors'[c] # editors[c] /\ writes' # writes
           /\ editors[c].seen = confFile.stamp) =>
         \A f \in Fields \ {editors[c].field} : confFile'.config[f] = Loaded[f]

\* "health.degraded describes only a problem that is current": after a poll that found
\* the file the recorder already follows, a reported configuration problem means that
\* the file cannot be read (docs/content/guides/recording.mdx:66).
ConfigTroubleIsCurrent ==
    (/\ watcher.at = "polling" /\ "config" \in watcher.trouble
     /\ watcher.stat = confFile.stamp /\ watcher.watched = confFile.stamp) => ~Loads
=============================================================================
