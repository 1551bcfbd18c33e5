--------------------------- MODULE StoreOpening ---------------------------
(***************************************************************************)
(* How a recorder opens its store: the format probe, the key it loads or   *)
(* creates, the plaintext store of an earlier version set aside under      *)
(* another name, the new encrypted store in its place, the state carried   *)
(* over once, and retention over the live and the set-aside stores.  The   *)
(* recorder may die between any two steps and is then started again;       *)
(* `zanei start --paused`, `pause` and `resume` open the same store from   *)
(* processes of their own.                                                 *)
(*                                                                         *)
(* Sources: zanei-cli daemon/runtime.rs (open_encrypted_store,             *)
(* adopt_previous_state_once, apply_retention), store_access.rs,           *)
(* commands/control.rs; zanei-core store/{key,key_store,retired,writer,    *)
(* writer/adoption,migration,mod}.rs.                                      *)
(***************************************************************************)
EXTENDS Integers, FiniteSets

CONSTANTS Retention,     \* retention_hours, in ticks
          MaxClock,      \* bound: the clock
          MaxFailures,   \* bound: recorders that die or are refused
          MaxRequests    \* bound: commands that open the store

ASSUME StoreOpeningAssumption ==
    /\ Retention \in Nat \ {0} /\ MaxClock \in Nat
    /\ MaxFailures \in Nat /\ MaxRequests \in Nat

VARIABLES live,        \* the file at the store path
          walEvents,   \* events committed to its journal only
          retired,     \* set-aside plaintext stores, by their place in the listing, oldest first
          keyItem,     \* the key the key store holds, 0 for none
          keysMade,    \* keys generated so far
          opener,      \* the recorder: where it stands in opening the store
          command,     \* the command process: likewise
          clock, openFailures, openRequests,
          everRecorded,  \* history: every event committed, by its time
          asked          \* history: the last pause request committed
openingVars == <<live, walEvents, retired, keyItem, keysMade, opener, command,
                 clock, openFailures, openRequests, everRecorded, asked>>

Times == 0 .. MaxClock
Keys == 0 .. 2
NoStore == [format |-> "missing", key |-> 0, tables |-> FALSE, owed |-> FALSE,
            paused |-> FALSE, events |-> {}]
Nobody == [at |-> "idle", kind |-> "-", format |-> "-", key |-> 0, previous |-> FALSE]
Guarded == opener.at = "rename"      \* set_aside_plaintext's exclusive lock, which goes with the file it renames
Connected == command.at = "write"                   \* a command's open connection

RecorderGoes(fields) == opener' = [k \in DOMAIN opener |-> IF k \in DOMAIN fields THEN fields[k] ELSE opener[k]]
CommandGoes(fields) == command' = [k \in DOMAIN command |-> IF k \in DOMAIN fields THEN fields[k] ELSE command[k]]
Bounds == <<clock, openFailures, openRequests>>
History == <<everRecorded, asked>>

\* StoreFormat::probe: a missing or empty file is a store still to be created.
Probed == live.format

-----------------------------------------------------------------------------
(* Keys: load_or_create *)

\* An encrypted store only ever gets the key that exists; a key is made for a new store
\* or for one about to be replaced.
MayCreateKey(format) == format \in {"missing", "plaintext"}

\* Mutant: the key just generated is used all the same.
GeneratedAnyway == keysMade + 1
\* The key store's item was created by somebody else in between: theirs is used.
Generated == IF keyItem = 0 THEN keysMade + 1 ELSE keyItem

-----------------------------------------------------------------------------
(* The recorder: open_encrypted_store *)

OpenBegins ==
    /\ opener.at = "idle"
    /\ RecorderGoes([at |-> "key", format |-> Probed])
    /\ UNCHANGED <<live, walEvents, retired, keyItem, keysMade, command, Bounds, History>>

\* The process is killed, or the key store is locked, or a step reports an error: the
\* next start begins anew with what is on disk.
OpenFails ==
    /\ opener.at # "idle" /\ openFailures < MaxFailures
    /\ opener' = Nobody
    /\ openFailures' = openFailures + 1
    /\ UNCHANGED <<live, walEvents, retired, keyItem, keysMade, command, clock, openRequests, History>>

\* Mutant: only the start that sets a store aside makes it private.
AfterKeyFresh(format) == IF format = "plaintext" THEN "guard" ELSE "create"
AfterKey(format) == IF format = "plaintext" THEN "guard" ELSE "restrict"

LoadKey ==
    /\ opener.at = "key"
    /\ \/ /\ keyItem # 0
          /\ RecorderGoes([at |-> AfterKey(opener.format), key |-> keyItem])
       \/ /\ keyItem = 0 /\ MayCreateKey(opener.format)
          /\ RecorderGoes([at |-> "generate"])
    /\ UNCHANGED <<live, walEvents, retired, keyItem, keysMade, command, Bounds, History>>

CreateKey ==
    /\ opener.at = "generate"
    /\ keysMade' = keysMade + 1
    /\ keyItem' = IF keyItem = 0 THEN keysMade + 1 ELSE keyItem
    /\ RecorderGoes([at |-> AfterKey(opener.format), key |-> Generated])
    /\ UNCHANGED <<live, walEvents, retired, command, Bounds, History>>

\* Mutant: the store is renamed with its journal as it stands.
GuardWithoutCheckpoint ==
    /\ opener.at = "guard" /\ ~Connected
    /\ RecorderGoes([at |-> IF live.format = "plaintext" THEN "rename" ELSE "restrict"])
    /\ UNCHANGED <<live, walEvents, retired, keyItem, keysMade, command, Bounds, History>>

\* set_aside_plaintext probes again, takes the store for itself (no other connection may
\* be open) and moves the journal's contents into the file.
GuardPlaintext ==
    /\ opener.at = "guard" /\ ~Connected
    /\ \/ /\ live.format = "plaintext"
          /\ live' = [live EXCEPT !.events = @ \cup walEvents]
          /\ walEvents' = {}
          /\ RecorderGoes([at |-> "rename"])
       \/ /\ live.format # "plaintext"
          /\ RecorderGoes([at |-> "restrict"])
          /\ UNCHANGED <<live, walEvents>>
    /\ UNCHANGED <<retired, keyItem, keysMade, command, Bounds, History>>

\* The listing sorts the set-aside stores by the time in their names, then by the suffix
\* that tells those of one second apart: a new one comes last.
Newest(stores) == IF DOMAIN stores = {} THEN 0
                  ELSE CHOOSE n \in DOMAIN stores : \A m \in DOMAIN stores : m <= n
AsideOf(store) == [at |-> clock, paused |-> store.paused, events |-> store.events, private |-> FALSE]
SetAside ==
    /\ opener.at = "rename"
    /\ LET new == Newest(retired) + 1
       IN  retired' = [n \in DOMAIN retired \cup {new} |-> IF n = new THEN AsideOf(live) ELSE retired[n]]
    /\ live' = NoStore
    /\ RecorderGoes([at |-> "companions", format |-> "missing"])
    /\ UNCHANGED <<walEvents, keyItem, keysMade, command, Bounds, History>>

\* The journal follows its store ...
SetJournalAside ==
    /\ opener.at = "companions"
    /\ retired' = [retired EXCEPT ![Newest(retired)].events = @ \cup walEvents]
    /\ walEvents' = {}
    /\ RecorderGoes([at |-> "leftovers"])
    /\ UNCHANGED <<live, keyItem, keysMade, command, Bounds, History>>

\* ... and what is left at the old name is removed, although a command that found no store
\* there may have made one.  (A connection still reaches its own journal, which its close
\* moves into the store.)
RemoveLeftovers ==
    /\ opener.at = "leftovers"
    /\ walEvents' = {}
    /\ RecorderGoes([at |-> "restrict"])
    /\ UNCHANGED <<live, retired, keyItem, keysMade, command, Bounds, History>>

\* Every start makes every set-aside store private, before anything that can fail.
RestrictRetired ==
    /\ opener.at = "restrict"
    /\ retired' = [n \in DOMAIN retired |-> [retired[n] EXCEPT !.private = TRUE]]
    /\ RecorderGoes([at |-> "create"])
    /\ UNCHANGED <<live, walEvents, keyItem, keysMade, command, Bounds, History>>

\* StoreWriter::open_known for the format probed earlier, on the file that is there now:
\* an empty file is created and keyed, an encrypted one needs its key, a plaintext one
\* cannot be opened with a key.  A journal left without its store is void.
Keyed(key) == [NoStore EXCEPT !.format = "encrypted", !.key = key]
CreateStore ==
    /\ opener.at = "create"
    /\ \/ /\ live.format = "missing" /\ opener.format = "missing"
          /\ live' = Keyed(opener.key)
          /\ walEvents' = {}
       \/ /\ live.format = "encrypted" /\ live.key = opener.key
          /\ UNCHANGED <<live, walEvents>>
    /\ RecorderGoes([at |-> "commit"])
    /\ UNCHANGED <<retired, keyItem, keysMade, command, Bounds, History>>

\* One transaction: tables, the note that the store owes its adoption, the schema.
Initialised(store) == IF store.tables THEN store ELSE [store EXCEPT !.tables = TRUE, !.owed = TRUE]
CommitTables ==
    /\ opener.at = "commit"
    /\ live' = Initialised(live)
    /\ RecorderGoes([at |-> IF Initialised(live).owed THEN "previous" ELSE "retention"])
    /\ UNCHANGED <<walEvents, retired, keyItem, keysMade, command, Bounds, History>>

\* adopt_previous_state_once reads the newest set-aside store ...
AsidePaused(stores) == Newest(stores) # 0 /\ stores[Newest(stores)].paused
ReadPrevious ==
    /\ opener.at = "previous"
    /\ RecorderGoes([at |-> "adopt",
                     previous |-> AsidePaused(retired)])
    /\ UNCHANGED <<live, walEvents, retired, keyItem, keysMade, command, Bounds, History>>

\* Mutant: the carried pause replaces the one the new store has.
AdoptOverwriting ==
    /\ opener.at = "adopt"
    /\ live' = [live EXCEPT !.owed = FALSE, !.paused = opener.previous]
    /\ RecorderGoes([at |-> "retention"])
    /\ UNCHANGED <<walEvents, retired, keyItem, keysMade, command, Bounds, History>>

\* ... and commits what it carries over with the note that it is done; a pause asked of
\* the new store meanwhile is kept.
AdoptState ==
    /\ opener.at = "adopt"
    /\ live' = IF live.owed THEN [live EXCEPT !.owed = FALSE, !.paused = @ \/ opener.previous] ELSE live
    /\ RecorderGoes([at |-> "retention"])
    /\ UNCHANGED <<walEvents, retired, keyItem, keysMade, command, Bounds, History>>

Boundary == clock - Retention
Recent(events) == {e \in events : e >= Boundary}

\* purge_retired_plaintext: a store set aside before the boundary goes whole, another is
\* purged inside; one that cannot be (a reader holds it) is left and reported.
Purged(store) == [store EXCEPT !.events = Recent(@)]
Expired(store) == store.at < Boundary
ApplyRetention ==
    /\ opener.at \in {"retention", "recording"}
    /\ live' = [live EXCEPT !.events = Recent(@)]
    /\ \E held \in SUBSET DOMAIN retired :
          LET stays == held \cup {n \in DOMAIN retired : ~Expired(retired[n])}
          IN  retired' = [n \in stays |-> IF n \in held THEN retired[n] ELSE Purged(retired[n])]
    /\ RecorderGoes([at |-> "recording"])
    /\ UNCHANGED <<walEvents, keyItem, keysMade, command, Bounds, History>>

RecordEvent ==
    /\ opener.at = "recording" /\ ~live.paused
    /\ live' = [live EXCEPT !.events = @ \cup {clock}]
    /\ everRecorded' = everRecorded \cup {clock}
    /\ UNCHANGED <<walEvents, retired, keyItem, keysMade, opener, command, Bounds, asked>>

-----------------------------------------------------------------------------
(* The commands: open_writer, then one update *)

\* `start --paused` before a recorder runs (it may create key and store);
\* `pause` and `resume` while one does.
RequestBegins(kind) ==
    /\ command.at = "idle" /\ openRequests < MaxRequests
    /\ IF kind = "start_paused" THEN opener.at = "idle" ELSE opener.at # "idle" /\ Probed # "missing"
    /\ openRequests' = openRequests + 1
    /\ CommandGoes([at |-> IF Probed = "plaintext" THEN "open" ELSE "key", kind |-> kind, format |-> Probed])
    /\ UNCHANGED <<live, walEvents, retired, keyItem, keysMade, opener, clock, openFailures, History>>

RequestKey ==
    /\ command.at = "key"
    /\ \/ /\ keyItem # 0
          /\ CommandGoes([at |-> "open", key |-> keyItem])
       \/ /\ keyItem = 0 /\ command.kind = "start_paused" /\ command.format = "missing"
          /\ CommandGoes([at |-> "generate"])
       \/ /\ keyItem = 0 /\ ~(command.kind = "start_paused" /\ command.format = "missing")
          /\ command' = Nobody
    /\ UNCHANGED <<live, walEvents, retired, keyItem, keysMade, opener, Bounds, History>>

RequestCreatesKey ==
    /\ command.at = "generate"
    /\ keysMade' = keysMade + 1
    /\ keyItem' = IF keyItem = 0 THEN keysMade + 1 ELSE keyItem
    /\ CommandGoes([at |-> "open", key |-> Generated])
    /\ UNCHANGED <<live, walEvents, retired, opener, Bounds, History>>

\* The store is opened for the format probed earlier and its tables committed.  The file
\* may have changed since: a plaintext store renamed away is created anew, in plaintext.
Opens(format, key) ==
    CASE live.format = "missing" /\ format = "missing"       -> Initialised(Keyed(key))
      [] live.format = "missing" /\ format = "plaintext"     -> Initialised([NoStore EXCEPT !.format = "plaintext"])
      [] live.format = "plaintext" /\ format = "plaintext"   -> Initialised(live)
      [] live.format = "encrypted" /\ format # "plaintext" /\ live.key = key -> Initialised(live)
      [] OTHER -> NoStore
RequestOpens ==
    /\ command.at = "open" /\ ~Guarded
    /\ LET store == Opens(command.format, command.key)
       IN  \/ /\ store # NoStore
              /\ live' = store
              /\ CommandGoes([at |-> "write"])
           \/ /\ store = NoStore
              /\ command' = Nobody
              /\ UNCHANGED live
    /\ UNCHANGED <<walEvents, retired, keyItem, keysMade, opener, Bounds, History>>

RequestWrites ==
    /\ command.at = "write"
    /\ live' = [live EXCEPT !.paused = command.kind # "resume"]
    /\ asked' = IF command.kind # "resume" THEN "paused"
                ELSE IF live.owed THEN "unsettled" ELSE "running"
    /\ command' = Nobody
    /\ UNCHANGED <<walEvents, retired, keyItem, keysMade, opener, Bounds, everRecorded>>

OpeningClock ==
    /\ clock < MaxClock
    /\ clock' = clock + 1
    /\ UNCHANGED <<live, walEvents, retired, keyItem, keysMade, opener, command, openFailures, openRequests, History>>

-----------------------------------------------------------------------------

\* No store yet, or the plaintext store of an earlier version, paused or not, whose
\* newest event is still in the journal.
OpeningInit ==
    /\ \/ live = NoStore /\ walEvents = {}
       \/ \E paused \in BOOLEAN :
             /\ live = [NoStore EXCEPT !.format = "plaintext", !.tables = TRUE, !.paused = paused]
             /\ walEvents = {0}
    /\ retired = [n \in {} |-> NoStore] /\ keyItem = 0 /\ keysMade = 0
    /\ opener = Nobody /\ command = Nobody
    /\ clock = 0 /\ openFailures = 0 /\ openRequests = 0
    /\ everRecorded = walEvents /\ asked = IF live.paused THEN "paused" ELSE "running"

OpeningNext ==
    \/ OpenBegins \/ OpenFails \/ LoadKey \/ CreateKey \/ GuardPlaintext \/ SetAside \/ SetJournalAside
    \/ RemoveLeftovers \/ RestrictRetired \/ CreateStore \/ CommitTables \/ ReadPrevious \/ AdoptState \/ ApplyRetention
    \/ RecordEvent \/ OpeningClock
    \/ \E kind \in {"start_paused", "pause", "resume"} : RequestBegins(kind)
    \/ RequestKey \/ RequestCreatesKey \/ RequestOpens \/ RequestWrites

OpeningSpec == OpeningInit /\ [][OpeningNext]_openingVars

-----------------------------------------------------------------------------
(* Properties *)

OpeningTypeOK ==
    /\ live.format \in {"missing", "plaintext", "encrypted"} /\ live.key \in Keys
    /\ live.events \subseteq Times /\ walEvents \subseteq Times /\ everRecorded \subseteq Times
    /\ \A i \in DOMAIN retired : retired[i].at \in Times /\ retired[i].events \subseteq Times
    /\ keyItem \in Keys /\ keysMade \in Keys /\ asked \in {"paused", "running", "unsettled"}

\* What a reader of the live and the set-aside stores returns.
Readable == live.events \cup walEvents \cup UNION {retired[i].events : i \in DOMAIN retired}

\* Wherever the recorder dies, every event within retention is still in a store a reader
\* opens, and an encrypted store is one the key store's key opens.
NothingLost ==
    /\ Recent(everRecorded) \subseteq Readable
    /\ live.format = "encrypted" => live.key = keyItem

\* While a recorder records, what it obeys is what the user last asked for, whichever
\* store the request was written to and however often the upgrade was interrupted.  (A
\* resume that reaches the new store before the adoption is not told from none: COALESCE
\* takes the carried pause.  It leaves the request unsettled here.)
PauseSurvivesUpgrade ==
    opener.at = "recording" => /\ asked = "paused"  => live.paused
                               /\ asked = "running" => ~live.paused

\* A recorder that creates or uses the new store has left no set-aside store readable
\* by others.
RetiredArePrivate ==
    opener.at \in {"create", "commit", "previous", "adopt", "retention", "recording"}
        => \A i \in DOMAIN retired : retired[i].private
=============================================================================
