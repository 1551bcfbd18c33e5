------------------------------ MODULE SetupPlan ------------------------------
(***************************************************************************)
(* `zanei setup` (setup/plan.rs): the file of a coding agent is read and   *)
(* the change planned, then the whole file is replaced.  The agent's skill *)
(* is written as it is; the configuration of Claude Desktop belongs to the *)
(* user and that program, and only gets an entry of its own.  A file is    *)
(* the set of entries it holds.                                            *)
(***************************************************************************)
EXTENDS Naturals, FiniteSets

CONSTANTS
    Setups,   \* `zanei setup` processes, and their process ids
    Servers,  \* the other programs' entries of the configuration
    Zanei,    \* the entry setup adds
    MaxEdits, \* bound: how often the user or the agent writes the file
    MaxRuns   \* bound: how many setups are begun

ASSUME SetupAssumption ==
    IsFiniteSet(Servers) /\ Zanei \notin Servers /\ {MaxEdits, MaxRuns} \subseteq Nat

VARIABLES
    agentFile,  \* each file: its form, entries and mode
    temporary,  \* the temporary file of each process, beside each file
    installer,  \* what each process is doing
    theirs,     \* the entries the user and the agent last wrote into each file
    overtaken,  \* the files written by others between a plan and its application
    setupWork   \* the edits and runs so far

setupVars == <<agentFile, temporary, installer, theirs, overtaken, setupWork>>

AgentFiles == {"skill", "config"}
Forms == {"none", "whole", "part", "broken"}
NoAgentFile == [form |-> "none", entries |-> {}, mode |-> "private"]
NoPlan == [at |-> "idle", file |-> "skill", change |-> "unchanged", entries |-> {}]

MovesTo(p, place) == installer' = [installer EXCEPT ![p].at = place]

(* merge_json keeps every other field and server of the file. *)
MergedFresh(current) == {Zanei}
Merged(current) == current \cup {Zanei}
Desired(f) == IF f = "config" THEN Merged(agentFile[f].entries) ELSE {Zanei}
Change(f) ==
    CASE agentFile[f].form = "none"            -> "create"
      [] agentFile[f].entries = Desired(f)     -> "unchanged"
      [] OTHER                                 -> "update"

(* build: a configuration that is not a JSON object refuses the setup. *)
Build(p, f, printOnly) ==
    /\ installer[p].at = "idle" /\ setupWork.runs < MaxRuns
    /\ setupWork' = [setupWork EXCEPT !.runs = @ + 1]
    /\ IF printOnly \/ (f = "config" /\ agentFile[f].form = "broken") \/ Change(f) = "unchanged"
       THEN UNCHANGED installer
       ELSE installer' = [installer EXCEPT ![p] =
                [at |-> "create", file |-> f, change |-> Change(f), entries |-> Desired(f)]]
    /\ UNCHANGED <<agentFile, temporary, theirs, overtaken>>

(* atomic_write: a temporary file of the process's own is created anew,    *)
(* written, given the old file's mode and renamed into place.              *)
Kept == <<theirs, overtaken, setupWork>>
CreateTemporary(p) ==
    /\ installer[p].at = "create"
    /\ IF temporary[p][installer[p].file].form = "none"
       THEN /\ temporary' = [temporary EXCEPT ![p][installer[p].file].form = "part"]
            /\ MovesTo(p, "write")
       ELSE UNCHANGED temporary /\ MovesTo(p, "clean")
    /\ UNCHANGED <<agentFile, Kept>>
WriteTemporary(p) ==
    /\ installer[p].at = "write"
    /\ \/ /\ temporary' = [temporary EXCEPT ![p][installer[p].file] =
                             [form |-> "whole", entries |-> installer[p].entries, mode |-> "private"]]
          /\ MovesTo(p, "mode")
       \/ UNCHANGED temporary /\ MovesTo(p, "clean")   \* the disk is full
    /\ UNCHANGED <<agentFile, Kept>>
ModeForgotten(p) == "private"
ModeOf(p) ==
    LET old == agentFile[installer[p].file]
    IN IF old.form = "none" THEN "private" ELSE old.mode
PreserveMode(p) ==
    /\ installer[p].at = "mode"
    /\ \/ /\ temporary' = [temporary EXCEPT ![p][installer[p].file].mode = ModeOf(p)]
          /\ MovesTo(p, "rename")
       \/ UNCHANGED temporary /\ MovesTo(p, "clean")
    /\ UNCHANGED <<agentFile, Kept>>
RenameIntoPlace(p) ==
    /\ installer[p].at = "rename"
    /\ LET f == installer[p].file
       IN \/ /\ agentFile' = [agentFile EXCEPT ![f] = temporary[p][f]]
             /\ temporary' = [temporary EXCEPT ![p][f] = NoAgentFile]
             /\ installer' = [installer EXCEPT ![p] = NoPlan]
          \/ UNCHANGED <<agentFile, temporary>> /\ MovesTo(p, "clean")
    /\ UNCHANGED Kept
(* A failure removes the temporary file, also one an earlier process of    *)
(* the same id left: the next setup succeeds. The removal may fail too.    *)
CleanUp(p) ==
    /\ installer[p].at = "clean"
    /\ \/ temporary' = [temporary EXCEPT ![p][installer[p].file] = NoAgentFile]
       \/ UNCHANGED temporary
    /\ installer' = [installer EXCEPT ![p] = NoPlan]
    /\ UNCHANGED <<agentFile, Kept>>
Killed(p) ==
    /\ installer[p].at # "idle"
    /\ installer' = [installer EXCEPT ![p] = NoPlan]
    /\ UNCHANGED <<agentFile, temporary, Kept>>

(* The user and the agent write the file whenever they like. *)
Planned(f) == \E p \in Setups : installer[p].at # "idle" /\ installer[p].file = f
OthersWrite(f, form, entries, mode) ==
    /\ setupWork.edits < MaxEdits /\ setupWork' = [setupWork EXCEPT !.edits = @ + 1]
    /\ agentFile' = [agentFile EXCEPT ![f] = [form |-> form, entries |-> entries, mode |-> mode]]
    /\ theirs' = [theirs EXCEPT ![f] = [entries |-> entries, mode |-> mode]]
    /\ overtaken' = IF Planned(f) THEN overtaken \cup {f} ELSE overtaken \ {f}
    /\ UNCHANGED <<temporary, installer>>

SetupInit ==
    /\ agentFile = [f \in AgentFiles |-> NoAgentFile]
    /\ temporary = [p \in Setups |-> [f \in AgentFiles |-> NoAgentFile]]
    /\ installer = [p \in Setups |-> NoPlan]
    /\ theirs = [f \in AgentFiles |-> [entries |-> {}, mode |-> "private"]]
    /\ overtaken = {}
    /\ setupWork = [edits |-> 0, runs |-> 0]

SetupNext ==
    \/ \E p \in Setups :
         \/ \E f \in AgentFiles, printOnly \in BOOLEAN : Build(p, f, printOnly)
         \/ CreateTemporary(p) \/ WriteTemporary(p) \/ PreserveMode(p) \/ RenameIntoPlace(p)
         \/ CleanUp(p) \/ Killed(p)
    \/ \E f \in AgentFiles, form \in {"whole", "broken"}, entries \in SUBSET Servers, mode \in {"private", "open"} :
         OthersWrite(f, form, entries, mode)

SetupSpec == SetupInit /\ [][SetupNext]_setupVars

-----------------------------------------------------------------------------
(* Type invariant of the files, the temporaries and the plans (plan.rs). *)
SetupTypeOK ==
    LET Files == [form : Forms, entries : SUBSET (Servers \cup {Zanei}), mode : {"private", "open"}]
    IN /\ agentFile \in [AgentFiles -> Files]
       /\ temporary \in [Setups -> [AgentFiles -> Files]]
       /\ \A p \in Setups : installer[p].at \in {"idle", "create", "write", "mode", "rename", "clean"}
       /\ overtaken \subseteq AgentFiles

(* However setups overlap, fail or die half-way, the agent never reads a   *)
(* half-written file, and its configuration keeps every entry and the mode *)
(* its owner gave it (plan.rs merge_json, atomic_write), unless the owner  *)
(* wrote it between the plan and the replacement.                          *)
SetupKeepsTheirs ==
    /\ \A f \in AgentFiles : agentFile[f].form # "part"
    /\ "config" \notin overtaken =>
         /\ theirs["config"].entries \subseteq agentFile["config"].entries
         /\ agentFile["config"].mode = theirs["config"].mode

=============================================================================
