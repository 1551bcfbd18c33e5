------------------------------ MODULE StoreKeys ------------------------------
(***************************************************************************)
(* The key of the encrypted store: a login Keychain item, or the key file  *)
(* of a development build.  The recorder, the commands that write and the  *)
(* ones that read open the store at the same time; each probes the file's  *)
(* format, asks the key store for the key, may create one, and opens the   *)
(* file with what it found (store_access.rs, key_store.rs, store_key.rs).  *)
(* Setting a plaintext store aside is one step here: module StoreOpening   *)
(* has its parts, and what is in the stores.                               *)
(***************************************************************************)
EXTENDS Integers, Sequences, FiniteSets

CONSTANTS
    Openers,      \* processes (and, for the key file, their process ids)
    Noise,        \* the kinds of command that run beside the recorder
    MaxOpenings,  \* bound: how many openings are begun
    MaxKeys,      \* bound: how many keys are generated
    MaxMeddling   \* bound: what the user does to the key, the store and the Keychain

ASSUME StoreKeysAssumption ==
    /\ IsFiniteSet(Openers) /\ Noise \subseteq {"paused", "writer", "reader", "waiter"}
    /\ {MaxOpenings, MaxKeys, MaxMeddling} \subseteq Nat

VARIABLES
    place,     \* where the key is kept: "keychain" or "file"
    item,      \* the key store's item: its key (0: none) and whether it is written in full
    staging,   \* the staging file of each process id: none, empty or whole
    door,      \* the Keychain: "open", "locked", or "denied" to these programs
    store,     \* the store file: its format and the key it is encrypted with
    opening,   \* what each process is doing
    lost,      \* the keys the user deleted
    rushed,    \* the user deleted the key while a process was opening the store
    keyWork    \* the openings, keys and meddling so far

keyVars == <<place, item, staging, door, store, opening, lost, rushed, keyWork>>

Lives == {"recorder"} \cup Noise
AKey == 1 .. MaxKeys
Absent == [format |-> "missing", key |-> 0]
NoItem == [key |-> 0, whole |-> TRUE]
Away == [life |-> "-", at |-> "idle", format |-> "-", key |-> 0, mute |-> FALSE, result |-> "-"]

Results == {"-", "open", "locked", "invalid", "mismatch", "foreign", "unready", "exists"}

(* What the first bytes of the file say; an empty file is no store yet. *)
Format == IF store.format = "empty" THEN "missing" ELSE store.format

Goes(p, fields) ==
    opening' = [opening EXCEPT ![p] = [k \in DOMAIN @ |-> IF k \in DOMAIN fields THEN fields[k] ELSE @[k]]]
EndsWith(p, result) == Goes(p, [at |-> "done", result |-> result])
Outside == <<place, lost, rushed, keyWork>>

-----------------------------------------------------------------------------
(* Who may create a key, and who may show a dialog. *)

CreatesForAnyStore(p) == opening[p].life \in {"recorder", "paused"}
CreatesKey(p) == opening[p].life \in {"recorder", "paused"} /\ opening[p].format # "encrypted"
MayPrompt(p) == opening[p].life \in {"paused", "writer", "reader"} /\ ~opening[p].mute

(* A closed Keychain fails a read; with a dialog the user may open it. *)
Closed == place = "keychain" /\ door # "open"
Prompts(p) == Closed /\ MayPrompt(p)
Held == item.key # 0

BeginOpening(p, life, mute) ==
    /\ opening[p].at = "idle" /\ keyWork.openings < MaxOpenings
    /\ life = "recorder" => \A q \in Openers : opening[q].life # "recorder"
    /\ opening' = [opening EXCEPT ![p] = [Away EXCEPT !.life = life, !.at = "probe", !.mute = mute]]
    /\ keyWork' = [keyWork EXCEPT !.openings = @ + 1]
    /\ UNCHANGED <<place, item, staging, door, store, lost, rushed>>

(* store_key_for, open_writer, open_encrypted_store: the format decides    *)
(* whether a key is asked for at all.                                      *)
NeedsKey(p) ==
    CASE opening[p].life = "reader"                 -> Format = "encrypted"
      [] opening[p].life = "waiter"                 -> Format = "encrypted"
      [] opening[p].life \in {"paused", "writer"}   -> Format # "plaintext"
      [] OTHER                                      -> TRUE
Probe(p) ==
    /\ opening[p].at = "probe"
    /\ Goes(p, [format |-> Format, at |-> IF NeedsKey(p) THEN "load" ELSE "reprobe"])
    /\ UNCHANGED <<Outside, item, staging, door, store>>

(* The poll of `zanei start` first asks for the key of a store that does   *)
(* not exist yet, to report a locked key store at once.                    *)
ProbeReadiness(p) ==
    /\ opening[p].life = "waiter" /\ opening[p].at = "probe" /\ Format # "encrypted"
    /\ IF Closed /\ Held
       THEN EndsWith(p, "locked")
       ELSE Goes(p, [at |-> "second"])
    /\ UNCHANGED <<Outside, item, staging, door, store>>
ProbeAgain(p) ==
    /\ opening[p].at = "second"
    /\ Goes(p, [format |-> Format, at |-> IF NeedsKey(p) THEN "load" ELSE "reprobe"])
    /\ UNCHANGED <<Outside, item, staging, door, store>>

-----------------------------------------------------------------------------
(* The key store. *)

KeyGoesTo(p) == IF opening[p].life = "recorder" THEN "aside" ELSE "reprobe"
Found(p) ==
    IF item.whole THEN Goes(p, [key |-> item.key, at |-> KeyGoesTo(p)]) ELSE EndsWith(p, "invalid")
NotFound(p) ==
    IF opening[p].at = "load" /\ CreatesKey(p) THEN Goes(p, [at |-> "generate"]) ELSE EndsWith(p, "locked")

(* load_or_create asks for the item, and asks again when another process   *)
(* added it first.  A closed Keychain opens a dialog, or fails the load.   *)
Load(p) ==
    /\ opening[p].at \in {"load", "reload"}
    /\ \/ ~Held /\ NotFound(p) /\ UNCHANGED door
       \/ Held /\ ~Closed /\ Found(p) /\ UNCHANGED door
       \/ Held /\ Prompts(p) /\ door' = "open" /\ Found(p)
       \/ Held /\ Closed /\ EndsWith(p, "locked") /\ UNCHANGED door
    /\ UNCHANGED <<Outside, item, staging, store>>

CountsKey == keyWork' = [keyWork EXCEPT !.keys = @ + 1]

(* SecItemAdd and link(2) refuse an item that exists. *)
Overwriting == TRUE
Vacant == ~Held
AddToKeychain(p) ==
    /\ opening[p].at = "generate" /\ place = "keychain" /\ keyWork.keys < MaxKeys
    /\ CountsKey
    /\ IF Closed THEN EndsWith(p, "locked") /\ UNCHANGED item
       ELSE IF Vacant
       THEN /\ item' = [key |-> keyWork.keys + 1, whole |-> TRUE]
            /\ Goes(p, [key |-> keyWork.keys + 1, at |-> KeyGoesTo(p)])
       ELSE Goes(p, [at |-> "reload"]) /\ UNCHANGED item
    /\ UNCHANGED <<place, staging, door, store, lost, rushed>>

(* The key file is written under a name of its own and linked into place. *)
StagedInPlace(p) == [key |-> keyWork.keys + 1, whole |-> FALSE]
Staged(p) == item
StageKey(p) ==
    /\ opening[p].at = "generate" /\ place = "file" /\ keyWork.keys < MaxKeys
    /\ CountsKey
    /\ IF staging[p] # "none"                    \* left by a dead process of this id
       THEN Goes(p, [at |-> "unlink", result |-> "locked"]) /\ UNCHANGED <<staging, item>>
       ELSE /\ staging' = [staging EXCEPT ![p] = "empty"]
            /\ item' = Staged(p)
            /\ Goes(p, [key |-> keyWork.keys + 1, at |-> "write"])
    /\ UNCHANGED <<place, door, store, lost, rushed>>
WriteKey(p) ==
    /\ opening[p].at = "write"
    /\ staging' = [staging EXCEPT ![p] = "whole"]
    /\ Goes(p, [at |-> "link"])
    /\ UNCHANGED <<Outside, item, door, store>>
LinkKey(p) ==
    /\ opening[p].at = "link"
    /\ IF Vacant
       THEN item' = [key |-> opening[p].key, whole |-> TRUE] /\ Goes(p, [at |-> "unlink"])
       ELSE UNCHANGED item /\ Goes(p, [at |-> "unlink", result |-> "exists"])
    /\ UNCHANGED <<Outside, staging, door, store>>
UnlinkStaging(p) ==
    /\ opening[p].at = "unlink"
    /\ staging' = [staging EXCEPT ![p] = "none"]
    /\ CASE opening[p].result = "exists" -> Goes(p, [at |-> "reload", result |-> "-"])
         [] opening[p].result = "locked" -> EndsWith(p, "locked")
         [] OTHER                        -> Goes(p, [at |-> KeyGoesTo(p)])
    /\ UNCHANGED <<Outside, item, door, store>>

-----------------------------------------------------------------------------
(* The store file. *)

SetStoreAside(p) ==
    /\ opening[p].at = "aside"
    /\ Goes(p, [format |-> IF opening[p].format = "plaintext" THEN "missing" ELSE opening[p].format,
                at |-> "create"])
    /\ store' = IF opening[p].format = "plaintext" /\ store.format = "plaintext" THEN Absent ELSE store
    /\ UNCHANGED <<Outside, item, staging, door>>

(* open_with_key probes the file again, with the key already chosen. *)
Reprobe(p) ==
    /\ opening[p].at = "reprobe"
    /\ IF Format = "encrypted" /\ opening[p].key = 0
       THEN EndsWith(p, "locked")
       ELSE Goes(p, [format |-> Format,
                     at |-> IF opening[p].life \in {"reader", "waiter"} THEN "read" ELSE "create"])
    /\ UNCHANGED <<Outside, item, staging, door, store>>

CreateFile(p) ==
    /\ opening[p].at = "create"
    /\ Goes(p, [at |-> "connect"])
    /\ store' = IF store.format = "missing" THEN [store EXCEPT !.format = "empty"] ELSE store
    /\ UNCHANGED <<Outside, item, staging, door>>

Using(p) == IF opening[p].format = "plaintext" THEN 0 ELSE opening[p].key
Opened(p) == IF opening[p].life = "recorder" THEN Goes(p, [at |-> "recording"]) ELSE EndsWith(p, "open")
Unreadable == IF store.format = "encrypted" THEN "mismatch" ELSE "foreign"
Connect(p) ==
    /\ opening[p].at = "connect"
    /\ IF store.format \in {"missing", "empty"}
       THEN /\ store' = IF Using(p) = 0 THEN [format |-> "plaintext", key |-> 0]
                        ELSE [format |-> "encrypted", key |-> Using(p)]
            /\ Opened(p)
       ELSE /\ IF store.key = Using(p) THEN Opened(p) ELSE EndsWith(p, IF Using(p) = 0 THEN "foreign" ELSE Unreadable)
            /\ UNCHANGED store
    /\ UNCHANGED <<Outside, item, staging, door>>

ReadStore(p) ==
    /\ opening[p].at = "read"
    /\ LET used == IF opening[p].format = "encrypted" THEN opening[p].key ELSE 0
       IN EndsWith(p, IF store.format \in {"missing", "empty"} THEN "unready"
                      ELSE IF store.key = used THEN "open"
                      ELSE IF used = 0 THEN "foreign" ELSE Unreadable)
    /\ UNCHANGED <<Outside, item, staging, door, store>>

(* `zanei start` stops the recorder it started when the store is locked. *)
GivesUp(p) == opening[p].life = "waiter" /\ opening[p].result \in {"locked", "invalid", "mismatch"}
FinishOpening(p) ==
    /\ opening[p].at = "done"
    /\ opening' = [q \in Openers |->
         IF q = p \/ (GivesUp(p) /\ opening[q].life = "recorder") THEN Away ELSE opening[q]]
    /\ UNCHANGED <<Outside, item, staging, door, store>>

(* A process may die anywhere; the recorder also stops while recording. *)
OpenerDies(p) ==
    /\ opening[p].at \notin {"idle", "done"}
    /\ opening' = [opening EXCEPT ![p] = Away]
    /\ UNCHANGED <<Outside, item, staging, door, store>>

-----------------------------------------------------------------------------
(* The user and the system (bounded by MaxMeddling). *)

Midway == \E p \in Openers : opening[p].at \notin {"idle", "done", "recording"}
Meddles == keyWork.meddling < MaxMeddling /\ keyWork' = [keyWork EXCEPT !.meddling = @ + 1]

DeleteKey ==
    /\ Meddles /\ Held
    /\ lost' = lost \cup {item.key} /\ item' = NoItem
    /\ rushed' = (rushed \/ Midway)
    /\ UNCHANGED <<place, staging, door, store, opening>>
RestoreKey(k) ==
    /\ Meddles /\ ~Held /\ k \in lost
    /\ store.format = "encrypted" => store.key = k
    /\ item' = [key |-> k, whole |-> TRUE] /\ lost' = lost \ {k}
    /\ UNCHANGED <<place, staging, door, store, opening, rushed>>
MoveStore ==
    /\ Meddles /\ store # Absent
    /\ store' = Absent
    /\ UNCHANGED <<place, item, staging, door, opening, lost, rushed>>
CloseKeychain(state) ==
    /\ Meddles /\ place = "keychain" /\ door # state
    /\ door' = state
    /\ UNCHANGED <<place, item, staging, store, opening, lost, rushed>>

-----------------------------------------------------------------------------
KeysInit ==
    /\ place \in {"keychain", "file"}
    /\ item = NoItem
    /\ staging = [p \in Openers |-> "none"]
    /\ door = "open"
    /\ store \in {Absent, [format |-> "plaintext", key |-> 0]}
    /\ opening = [p \in Openers |-> Away]
    /\ lost = {} /\ rushed = FALSE
    /\ keyWork = [openings |-> 0, keys |-> 0, meddling |-> 0]

OpeningStep(p) ==
    \/ \E life \in Lives, mute \in BOOLEAN : BeginOpening(p, life, mute)
    \/ opening[p].life # "waiter" /\ Probe(p)
    \/ opening[p].life = "waiter" /\ Format = "encrypted" /\ Probe(p)
    \/ ProbeReadiness(p) \/ ProbeAgain(p) \/ Load(p)
    \/ AddToKeychain(p) \/ StageKey(p) \/ WriteKey(p) \/ LinkKey(p) \/ UnlinkStaging(p)
    \/ SetStoreAside(p) \/ Reprobe(p) \/ CreateFile(p) \/ Connect(p) \/ ReadStore(p)
    \/ FinishOpening(p) \/ OpenerDies(p)

KeysNext ==
    \/ \E p \in Openers : OpeningStep(p)
    \/ DeleteKey \/ MoveStore
    \/ \E k \in lost : RestoreKey(k)
    \/ \E state \in {"locked", "denied", "open"} : CloseKeychain(state)

KeysSpec == KeysInit /\ [][KeysNext]_keyVars

-----------------------------------------------------------------------------
(* Type invariant: the item, the staging files, the store and every        *)
(* opening stay in their ranges (key_store.rs, store_access.rs).           *)
KeysTypeOK ==
    /\ place \in {"keychain", "file"} /\ door \in {"open", "locked", "denied"}
    /\ item \in [key : 0 .. MaxKeys, whole : BOOLEAN]
    /\ staging \in [Openers -> {"none", "empty", "whole"}]
    /\ store \in [format : {"missing", "empty", "plaintext", "encrypted"}, key : 0 .. MaxKeys]
    /\ \A p \in Openers :
         opening[p].life \in Lives \cup {"-"} /\ opening[p].key \in 0 .. MaxKeys
         /\ opening[p].result \in Results
    /\ lost \subseteq AKey /\ rushed \in BOOLEAN

(* The store is encrypted with the key in the key store, or with one the   *)
(* user deleted and can put back: no new key ever takes its place.  A key  *)
(* deleted while a process was opening the store is the exception          *)
(* (runtime.rs: "generating a fresh one would turn key missing into key    *)
(* mismatch").                                                             *)
StoreFitsKey ==
    store.format = "encrypted" /\ ~rushed =>
        item.key = store.key \/ (item.key = 0 /\ store.key \in lost)

(* No process that opens the store meets a store of another key, however   *)
(* many of them created the first key and the first store together.        *)
NeverMismatched ==
    \A p \in Openers : opening[p].result = "mismatch" => rushed

(* No process reads a half-written key, whichever of them dies while       *)
(* writing it (FileKeyStore::store).                                       *)
KeyIsWhole == \A p \in Openers : opening[p].result # "invalid"

KeysSafe == StoreFitsKey /\ NeverMismatched /\ KeyIsWhole

(* "A store the recorder is still creating or migrating may not be         *)
(* readable yet; that is not a failure while the recorder holds it"        *)
(* (wait.rs): `zanei start` stops its recorder for a locked store only if  *)
(* the Keychain is closed or the user touched the key or the store.        *)
StartupIsNotAFailure ==
    [][\A p, q \in Openers :
         /\ opening[q].life = "recorder" /\ opening'[q].life = "-"
         /\ opening[p].at = "done" /\ opening'[p].at = "idle" /\ GivesUp(p)
         => keyWork.meddling > 0]_keyVars

=============================================================================
