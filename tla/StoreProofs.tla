----------------------------- MODULE StoreProofs ----------------------------
(***************************************************************************)
(* Proofs about the modules of the store and of the files beside it, for   *)
(* any values of their constants: StoreKeys (types, and that a store and   *)
(* its key fit), ConfigReload, SetupPlan, CapabilityReports, StoreOpening, *)
(* StoreReaders, Timeline; and what follows for the behaviours of StoreMC, *)
(* each of one module.                                                     *)
(***************************************************************************)
EXTENDS StoreMC, FiniteSetTheorems, TLAPS

KeyPlaces == {"idle", "probe", "second", "load", "reload", "generate", "write", "link", "unlink",
              "aside", "reprobe", "create", "connect", "read", "recording", "done"}
Openings == [life : Lives \cup {"-"}, at : KeyPlaces,
             format : {"-", "missing", "plaintext", "encrypted"}, key : 0 .. MaxKeys,
             mute : BOOLEAN, result : Results]
KeyTypes ==
  /\ place \in {"keychain", "file"} /\ door \in {"open", "locked", "denied"}
  /\ item \in [key : 0 .. MaxKeys, whole : BOOLEAN]
  /\ staging \in [Openers -> {"none", "empty", "whole"}]
  /\ store \in [format : {"missing", "empty", "plaintext", "encrypted"}, key : 0 .. MaxKeys]
  /\ opening \in [Openers -> Openings]
  /\ lost \subseteq AKey /\ rushed \in BOOLEAN
  /\ keyWork \in [openings : Nat, keys : Nat, meddling : Nat]

\* A process that has its key and will open the store with it.
Carries(o) == \/ o.at \in {"aside", "reprobe", "create", "connect", "read"}
              \/ o.at = "unlink" /\ o.result \notin {"exists", "locked"}
\* A process that will create a key if there is none.
Awaits(o) == o.at \in {"load", "generate", "write", "link"} /\ o.format # "encrypted"

\* What a process knows of the item i and the store s, unless the user deleted the key
\* while it was at work (r): the key it has is the item's, and if it is to create one
\* and there is still none, then no store was encrypted since it looked.
Sound(o, i, s, r) ==
  /\ o.at \in {"probe", "second"} => o.key = 0
  /\ o.at \in {"generate", "write", "link"} => o.format # "encrypted"
  /\ o.at \in {"write", "link"} => o.key # 0
  /\ o.result # "invalid"
  /\ o.result = "mismatch" => r
  /\ ~r /\ Carries(o) /\ o.key # 0 => o.key = i.key
  /\ ~r /\ Awaits(o) /\ i.key = 0 => s.format # "encrypted"

StoreFits(i, s, l) == s.format = "encrypted" => i.key = s.key \/ (i.key = 0 /\ s.key \in l)

\* The inductive invariant.
KeysInv ==
  /\ KeyTypes
  /\ item.whole = TRUE
  /\ \A p \in Openers : Sound(opening[p], item, store, rushed)
  /\ ~rushed => StoreFits(item, store, lost)

-----------------------------------------------------------------------------
(* Facts about the operators the model is built from.                      *)

\* The record r with a new place, and with f, k and res for what the process knows.
Now(r, x, f, k, res) ==
  [life |-> r.life, at |-> x, format |-> f, key |-> k, mute |-> r.mute, result |-> res]
Seen == {"-", "missing", "plaintext", "encrypted"}

\* A process moves on, with o for what it knows.
Moved(p, o) == opening' = [opening EXCEPT ![p] = o]

LEMMA NowTypes ==
  ASSUME NEW r \in Openings, NEW x \in KeyPlaces, NEW f \in Seen, NEW k \in 0 .. MaxKeys, NEW res \in Results
  PROVE  Now(r, x, f, k, res) \in Openings
BY DEF Openings, Now, Seen

LEMMA OpeningTypes ==
  ASSUME KeyTypes, NEW p \in Openers
  PROVE  /\ opening[p] \in Openings /\ opening[p].at \in KeyPlaces /\ opening[p].format \in Seen
         /\ opening[p].key \in 0 .. MaxKeys /\ opening[p].result \in Results
BY DEF KeyTypes, Openings, Seen

LEMMA GoesOn ==
  ASSUME KeyTypes, NEW p \in Openers, NEW x \in KeyPlaces, Goes(p, [at |-> x])
  PROVE  LET r == opening[p]
             o == Now(r, x, r.format, r.key, r.result)
         IN  Moved(p, o) /\ o \in Openings
<1> DEFINE r == opening[p]
<1>1. r \in Openings
  BY OpeningTypes
<1> HIDE DEF r
<1>2. [n \in DOMAIN r |-> IF n \in DOMAIN [at |-> x] THEN [at |-> x][n] ELSE r[n]]
        = Now(r, x, r.format, r.key, r.result)
  BY <1>1 DEF Openings, Now
<1> USE DEF r
<1> QED BY <1>2, NowTypes, OpeningTypes DEF Goes, Moved

LEMMA GoesWithFormat ==
  ASSUME KeyTypes, NEW p \in Openers, NEW x \in KeyPlaces, NEW f \in Seen, Goes(p, [format |-> f, at |-> x])
  PROVE  LET r == opening[p]
             o == Now(r, x, f, r.key, r.result)
         IN  Moved(p, o) /\ o \in Openings
<1> DEFINE r == opening[p]
<1>1. r \in Openings
  BY OpeningTypes
<1> HIDE DEF r
<1>2. [n \in DOMAIN r |->
        IF n \in DOMAIN [format |-> f, at |-> x] THEN [format |-> f, at |-> x][n] ELSE r[n]]
        = Now(r, x, f, r.key, r.result)
  BY <1>1 DEF Openings, Now
<1> USE DEF r
<1> QED BY <1>2, NowTypes, OpeningTypes DEF Goes, Moved

LEMMA GoesWithKey ==
  ASSUME KeyTypes, NEW p \in Openers, NEW x \in KeyPlaces, NEW k \in 0 .. MaxKeys,
         Goes(p, [key |-> k, at |-> x])
  PROVE  LET r == opening[p]
             o == Now(r, x, r.format, k, r.result)
         IN  Moved(p, o) /\ o \in Openings
<1> DEFINE r == opening[p]
<1>1. r \in Openings
  BY OpeningTypes
<1> HIDE DEF r
<1>2. [n \in DOMAIN r |-> IF n \in DOMAIN [key |-> k, at |-> x] THEN [key |-> k, at |-> x][n] ELSE r[n]]
        = Now(r, x, r.format, k, r.result)
  BY <1>1 DEF Openings, Now
<1> USE DEF r
<1> QED BY <1>2, NowTypes, OpeningTypes DEF Goes, Moved

LEMMA GoesWithResult ==
  ASSUME KeyTypes, NEW p \in Openers, NEW x \in KeyPlaces, NEW res \in Results,
         Goes(p, [at |-> x, result |-> res])
  PROVE  LET r == opening[p]
             o == Now(r, x, r.format, r.key, res)
         IN  Moved(p, o) /\ o \in Openings
<1> DEFINE r == opening[p]
<1>1. r \in Openings
  BY OpeningTypes
<1> HIDE DEF r
<1>2. [n \in DOMAIN r |->
        IF n \in DOMAIN [at |-> x, result |-> res] THEN [at |-> x, result |-> res][n] ELSE r[n]]
        = Now(r, x, r.format, r.key, res)
  BY <1>1 DEF Openings, Now
<1> USE DEF r
<1> QED BY <1>2, NowTypes, OpeningTypes DEF Goes, Moved

LEMMA Ending ==
  ASSUME KeyTypes, NEW p \in Openers, NEW res \in Results, EndsWith(p, res)
  PROVE  LET r == opening[p]
             o == Now(r, "done", r.format, r.key, res)
         IN  Moved(p, o) /\ o \in Openings
BY GoesWithResult DEF EndsWith, KeyPlaces

\* What a process that begins knows.
LEMMA Begins ==
  ASSUME NEW life \in Lives, NEW mute \in BOOLEAN
  PROVE  [Away EXCEPT !.life = life, !.at = "probe", !.mute = mute]
           = [life |-> life, at |-> "probe", format |-> "-", key |-> 0, mute |-> mute, result |-> "-"]
<1> DEFINE names == {"life", "at", "format", "key", "mute", "result"}
           a == Away
           b == [n \in names |-> IF n = "mute" THEN mute ELSE IF n = "at" THEN "probe"
                                 ELSE IF n = "life" THEN life ELSE a[n]]
<1>1. DOMAIN a = names /\ a["format"] = "-" /\ a["key"] = 0 /\ a["result"] = "-"
  BY DEF Away
<1> HIDE DEF a
<1>2. [a EXCEPT !.life = life, !.at = "probe", !.mute = mute] = b
  BY <1>1
<1>3. b = [life |-> life, at |-> "probe", format |-> "-", key |-> 0, mute |-> mute, result |-> "-"]
  BY <1>1
<1> QED BY <1>2, <1>3 DEF a

LEMMA AwayTypes == 0 \in 0 .. MaxKeys /\ MaxKeys \in Nat /\ Away \in Openings
<1>1. MaxKeys \in Nat /\ 0 \in 0 .. MaxKeys
  BY StoreKeysAssumption
<1>2. "-" \in Results /\ "idle" \in KeyPlaces
  BY DEF Results, KeyPlaces
<1> QED BY <1>1, <1>2 DEF Openings, Away

-----------------------------------------------------------------------------
(* A step of one process.                                                  *)

\* What one process does to the item and the store leaves what the others know true: the
\* item is added only where none is, and a store is encrypted only when there is an item.
Mild ==
  /\ rushed' = rushed
  /\ item' = item \/ item.key = 0
  /\ store' = store \/ store'.format # "encrypted" \/ item.key # 0

LEMMA OthersSound ==
  ASSUME KeysInv, Mild, item' \in [key : 0 .. MaxKeys, whole : BOOLEAN], NEW o, Sound(o, item, store, rushed),
         item' = item \/ store' = store
  PROVE  Sound(o, item', store', rushed')
BY DEF KeysInv, KeyTypes, Mild, Sound

LEMMA OneMoves ==
  ASSUME KeysInv, KeyTypes', Mild, item' = item \/ store' = store, item'.whole = TRUE,
         NEW p \in Openers, NEW o \in Openings, Moved(p, o), Sound(o, item', store', rushed'),
         ~rushed => StoreFits(item', store', lost')
  PROVE  KeysInv'
<1>1. ASSUME NEW q \in Openers
      PROVE  Sound(opening'[q], item', store', rushed')
  <2>1. CASE q = p
    BY <2>1 DEF Moved, KeysInv, KeyTypes
  <2>2. CASE q # p
    <3>1. opening'[q] = opening[q]
      BY <2>2 DEF Moved, KeysInv, KeyTypes
    <3>2. Sound(opening[q], item, store, rushed)
      BY DEF KeysInv
    <3>3. item' \in [key : 0 .. MaxKeys, whole : BOOLEAN]
      BY DEF KeyTypes
    <3> QED BY <3>1, <3>2, <3>3, OthersSound
  <2> QED BY <2>1, <2>2
<1>2. rushed' = rushed
  BY DEF Mild
<1> QED BY <1>1, <1>2 DEF KeysInv

\* Most steps leave the item and the store alone.
LEMMA OnlyOneMoves ==
  ASSUME KeysInv, UNCHANGED <<place, item, store, lost, rushed>>,
         door' \in {"open", "locked", "denied"}, staging' \in [Openers -> {"none", "empty", "whole"}],
         keyWork' \in [openings : Nat, keys : Nat, meddling : Nat],
         NEW p \in Openers, NEW o \in Openings, Moved(p, o), Sound(o, item, store, rushed)
  PROVE  KeysInv'
<1>1. KeyTypes'
  BY DEF KeysInv, KeyTypes, Moved
<1>2. Mild /\ item'.whole = TRUE /\ (~rushed => StoreFits(item', store', lost'))
  BY DEF KeysInv, Mild
<1> QED BY <1>1, <1>2, OneMoves

\* ... and most of those the door, the staging files and the bounds.
LEMMA OnlyPlaceMoves ==
  ASSUME KeysInv, UNCHANGED <<Outside, item, staging, door, store>>,
         NEW p \in Openers, NEW o \in Openings, Moved(p, o), Sound(o, item, store, rushed)
  PROVE  KeysInv'
BY OnlyOneMoves DEF KeysInv, KeyTypes, Outside

LEMMA SoundNow ==
  ASSUME KeysInv, NEW p \in Openers
  PROVE  /\ opening[p] \in Openings /\ Sound(opening[p], item, store, rushed)
         /\ item.key \in Nat /\ opening[p].key \in Nat /\ store.key \in Nat
BY StoreKeysAssumption DEF KeysInv, KeyTypes, Openings

-----------------------------------------------------------------------------
(* The steps of an opening.                                                *)

LEMMA BeginKeeps ==
  ASSUME KeysInv, NEW p \in Openers, NEW life \in Lives, NEW mute \in BOOLEAN, BeginOpening(p, life, mute)
  PROVE  KeysInv'
<1> DEFINE o == [life |-> life, at |-> "probe", format |-> "-", key |-> 0, mute |-> mute, result |-> "-"]
<1>1. "probe" \in KeyPlaces /\ "-" \in Results
  BY DEF KeyPlaces, Results
<1>2. o \in Openings
  BY <1>1, AwayTypes DEF Openings
<1>3. Sound(o, item, store, rushed)
  BY DEF Sound, Carries, Awaits
<1>4. Moved(p, o)
  BY Begins DEF BeginOpening, Moved
<1> HIDE DEF o
<1>5. keyWork' \in [openings : Nat, keys : Nat, meddling : Nat]
  BY DEF BeginOpening, KeysInv, KeyTypes
<1> QED BY <1>2, <1>3, <1>4, <1>5, OnlyOneMoves DEF BeginOpening, KeysInv, KeyTypes

\* What a look at the file tells.
LEMMA FormatSeen ==
  ASSUME KeyTypes
  PROVE  /\ Format \in Seen
         /\ Format # "encrypted" => store.format # "encrypted"
BY DEF KeyTypes, Format, Seen

LEMMA LookKeeps ==
  ASSUME KeysInv, NEW p \in Openers, opening[p].at \in {"probe", "second"},
         NEW x \in {"load", "reprobe"}, Goes(p, [format |-> Format, at |-> x]),
         UNCHANGED <<Outside, item, staging, door, store>>
  PROVE  KeysInv'
<1> DEFINE o == Now(opening[p], x, Format, opening[p].key, opening[p].result)
<1>1. opening[p] \in Openings /\ Sound(opening[p], item, store, rushed)
  BY SoundNow
<1>2. x \in KeyPlaces /\ Format \in Seen /\ KeyTypes
  BY FormatSeen DEF KeyPlaces, KeysInv
<1>3. Moved(p, o) /\ o \in Openings
  BY <1>2, GoesWithFormat
<1>4. o.at = x /\ o.format = Format /\ o.key = opening[p].key /\ o.result = opening[p].result
  BY DEF Now
<1>5. Sound(o, item, store, rushed)
  BY <1>1, <1>2, <1>4, FormatSeen DEF Sound, Carries, Awaits
<1> QED BY <1>3, <1>5, OnlyPlaceMoves

LEMMA ProbeKeeps ==
  ASSUME KeysInv, NEW p \in Openers, Probe(p) \/ ProbeAgain(p)
  PROVE  KeysInv'
BY LookKeeps DEF Probe, ProbeAgain

\* An opening that ends otherwise than by a mismatch or a half-written key.
LEMMA EndKeeps ==
  ASSUME KeysInv, NEW p \in Openers, NEW r \in Results \ {"mismatch", "invalid"}, EndsWith(p, r),
         UNCHANGED <<place, item, store, lost, rushed>>,
         door' \in {"open", "locked", "denied"}, staging' \in [Openers -> {"none", "empty", "whole"}],
         keyWork' \in [openings : Nat, keys : Nat, meddling : Nat]
  PROVE  KeysInv'
<1> DEFINE o == Now(opening[p], "done", opening[p].format, opening[p].key, r)
<1>1. opening[p] \in Openings /\ KeyTypes
  BY SoundNow DEF KeysInv
<1>2. Moved(p, o) /\ o \in Openings
  BY <1>1, Ending
<1>3. o.at = "done" /\ o.result = r
  BY DEF Now
<1>4. Sound(o, item, store, rushed)
  BY <1>3 DEF Sound, Carries, Awaits
<1> QED BY <1>2, <1>4, OnlyOneMoves

\* A step to another place that needs nothing of what a process knows.
LEMMA MoveKeeps ==
  ASSUME KeysInv, NEW p \in Openers, NEW x \in KeyPlaces, Goes(p, [at |-> x]),
         Sound(Now(opening[p], x, opening[p].format, opening[p].key, opening[p].result), item, store, rushed),
         UNCHANGED <<place, item, store, lost, rushed>>,
         door' \in {"open", "locked", "denied"}, staging' \in [Openers -> {"none", "empty", "whole"}],
         keyWork' \in [openings : Nat, keys : Nat, meddling : Nat]
  PROVE  KeysInv'
BY GoesOn, OnlyOneMoves DEF KeysInv

LEMMA ReadinessKeeps ==
  ASSUME KeysInv, NEW p \in Openers, ProbeReadiness(p)
  PROVE  KeysInv'
<1>1. UNCHANGED <<place, item, store, lost, rushed>> /\ door' \in {"open", "locked", "denied"}
      /\ staging' \in [Openers -> {"none", "empty", "whole"}]
      /\ keyWork' \in [openings : Nat, keys : Nat, meddling : Nat]
  BY DEF ProbeReadiness, Outside, KeysInv, KeyTypes
<1>2. CASE EndsWith(p, "locked")
  BY <1>1, <1>2, EndKeeps DEF Results
<1>3. CASE Goes(p, [at |-> "second"])
  <2>1. opening[p] \in Openings /\ Sound(opening[p], item, store, rushed) /\ opening[p].at = "probe"
    BY SoundNow DEF ProbeReadiness
  <2>2. Sound(Now(opening[p], "second", opening[p].format, opening[p].key, opening[p].result),
              item, store, rushed)
    BY <2>1 DEF Sound, Carries, Awaits, Now
  <2> QED BY <1>1, <1>3, <2>2, MoveKeeps DEF KeyPlaces
<1> QED BY <1>2, <1>3 DEF ProbeReadiness

LEMMA LoadKeeps ==
  ASSUME KeysInv, NEW p \in Openers, Load(p)
  PROVE  KeysInv'
<1>1. UNCHANGED <<place, item, store, lost, rushed>> /\ door' \in {"open", "locked", "denied"}
      /\ staging' \in [Openers -> {"none", "empty", "whole"}]
      /\ keyWork' \in [openings : Nat, keys : Nat, meddling : Nat]
  BY DEF Load, Outside, KeysInv, KeyTypes
<1>2. opening[p] \in Openings /\ Sound(opening[p], item, store, rushed) /\ KeyTypes
      /\ opening[p].at \in {"load", "reload"} /\ item.whole
  BY SoundNow DEF Load, KeysInv
<1>3. CASE EndsWith(p, "locked")
  BY <1>1, <1>3, EndKeeps DEF Results
<1>4. CASE Found(p)
  <2> DEFINE o == Now(opening[p], KeyGoesTo(p), opening[p].format, item.key, opening[p].result)
  <2>1. Goes(p, [key |-> item.key, at |-> KeyGoesTo(p)]) /\ KeyGoesTo(p) \in {"aside", "reprobe"}
    BY <1>2, <1>4 DEF Found, KeyGoesTo
  <2>2. Moved(p, o) /\ o \in Openings
    BY <1>2, <2>1, GoesWithKey DEF KeyTypes, KeyPlaces
  <2>3. o.at = KeyGoesTo(p) /\ o.key = item.key /\ o.result = opening[p].result
    BY DEF Now
  <2>4. Sound(o, item, store, rushed)
    BY <1>2, <2>1, <2>3 DEF Sound, Carries, Awaits
  <2> QED BY <1>1, <2>2, <2>4, OnlyOneMoves
<1>5. CASE ~Held /\ opening[p].at = "load" /\ CreatesKey(p) /\ Goes(p, [at |-> "generate"])
  <2>1. opening[p].format # "encrypted" /\ item.key = 0
    BY <1>5 DEF CreatesKey, Held
  <2>2. Sound(Now(opening[p], "generate", opening[p].format, opening[p].key, opening[p].result),
              item, store, rushed)
    BY <1>2, <1>5, <2>1 DEF Sound, Carries, Awaits, Now
  <2> QED BY <1>1, <1>5, <2>2, MoveKeeps DEF KeyPlaces
<1> QED BY <1>3, <1>4, <1>5 DEF Load, NotFound

-----------------------------------------------------------------------------
(* The key store.                                                          *)

\* While there is no item nobody carries a key, and one that is to create a key has seen
\* no encrypted store.
LEMMA NoneCarries ==
  ASSUME KeysInv, item.key = 0, ~rushed, NEW p \in Openers
  PROVE  /\ Carries(opening[p]) => opening[p].key = 0
         /\ Awaits(opening[p]) => store.format # "encrypted"
BY SoundNow DEF Sound

\* A process adds the item k where there is none.
LEMMA ItemKeeps ==
  ASSUME KeysInv, item.key = 0, NEW p \in Openers, Awaits(opening[p]),
         NEW k \in 0 .. MaxKeys, item' = [key |-> k, whole |-> TRUE],
         UNCHANGED <<place, staging, door, store, lost, rushed>>,
         keyWork' \in [openings : Nat, keys : Nat, meddling : Nat],
         NEW o \in Openings, Moved(p, o), Sound(o, item', store, rushed)
  PROVE  KeysInv'
<1>1. KeyTypes'
  BY DEF KeysInv, KeyTypes, Moved
<1>2. Mild /\ item'.whole = TRUE
  BY DEF Mild
<1>3. ~rushed => StoreFits(item', store', lost')
  BY NoneCarries DEF StoreFits
<1> QED BY <1>1, <1>2, <1>3, OneMoves

LEMMA KeyCounts ==
  ASSUME KeyTypes, CountsKey, keyWork.keys < MaxKeys
  PROVE  /\ keyWork' \in [openings : Nat, keys : Nat, meddling : Nat]
         /\ keyWork.keys + 1 \in 0 .. MaxKeys /\ keyWork.keys + 1 # 0
<1>1. keyWork.keys \in Nat /\ MaxKeys \in Nat
  BY AwayTypes DEF KeyTypes
<1>2. keyWork' \in [openings : Nat, keys : Nat, meddling : Nat]
  BY DEF CountsKey, KeyTypes
<1> QED BY <1>1, <1>2

LEMMA AddKeeps ==
  ASSUME KeysInv, NEW p \in Openers, AddToKeychain(p)
  PROVE  KeysInv'
<1>1. KeyTypes /\ opening[p] \in Openings /\ Sound(opening[p], item, store, rushed)
      /\ opening[p].at = "generate" /\ Awaits(opening[p])
  BY SoundNow DEF AddToKeychain, KeysInv, Sound, Awaits
<1>2. UNCHANGED <<place, staging, door, store, lost, rushed>>
      /\ keyWork' \in [openings : Nat, keys : Nat, meddling : Nat]
      /\ keyWork.keys + 1 \in 0 .. MaxKeys /\ keyWork.keys + 1 # 0
  BY <1>1, KeyCounts DEF AddToKeychain
<1>3. door' \in {"open", "locked", "denied"} /\ staging' \in [Openers -> {"none", "empty", "whole"}]
  BY <1>1, <1>2 DEF KeyTypes
<1>4. CASE EndsWith(p, "locked") /\ item' = item
  BY <1>2, <1>3, <1>4, EndKeeps DEF Results
<1>5. CASE Vacant /\ item' = [key |-> keyWork.keys + 1, whole |-> TRUE]
           /\ Goes(p, [key |-> keyWork.keys + 1, at |-> KeyGoesTo(p)])
  <2> DEFINE o == Now(opening[p], KeyGoesTo(p), opening[p].format, keyWork.keys + 1, opening[p].result)
  <2>1. KeyGoesTo(p) \in {"aside", "reprobe"} /\ KeyGoesTo(p) \in KeyPlaces
    BY DEF KeyGoesTo, KeyPlaces
  <2>2. Moved(p, o) /\ o \in Openings
    BY <1>1, <1>2, <1>5, <2>1, GoesWithKey
  <2>3. o.at = KeyGoesTo(p) /\ o.key = item'.key /\ o.result = opening[p].result
    BY <1>5 DEF Now
  <2>4. Sound(o, item', store, rushed)
    BY <1>1, <1>2, <1>5, <2>1, <2>3 DEF Sound, Carries, Awaits
  <2> QED BY <1>1, <1>2, <1>5, <2>2, <2>4, ItemKeeps DEF Vacant, Held
<1>6. CASE Goes(p, [at |-> "reload"]) /\ item' = item
  <2>1. Sound(Now(opening[p], "reload", opening[p].format, opening[p].key, opening[p].result),
              item, store, rushed)
    BY <1>1 DEF Sound, Carries, Awaits, Now
  <2> QED BY <1>2, <1>3, <1>6, <2>1, MoveKeeps DEF KeyPlaces
<1> QED BY <1>4, <1>5, <1>6 DEF AddToKeychain

LEMMA GoesToUnlink ==
  ASSUME KeysInv, NEW p \in Openers, NEW res \in Results \ {"mismatch", "invalid"},
         Goes(p, [at |-> "unlink", result |-> res]), res \in {"exists", "locked"},
         UNCHANGED <<place, item, store, lost, rushed>>,
         door' \in {"open", "locked", "denied"}, staging' \in [Openers -> {"none", "empty", "whole"}],
         keyWork' \in [openings : Nat, keys : Nat, meddling : Nat]
  PROVE  KeysInv'
<1> DEFINE o == Now(opening[p], "unlink", opening[p].format, opening[p].key, res)
<1>1. Moved(p, o) /\ o \in Openings
  BY GoesWithResult DEF KeysInv, KeyPlaces
<1>2. o.at = "unlink" /\ o.result = res
  BY DEF Now
<1>3. Sound(o, item, store, rushed)
  BY <1>2 DEF Sound, Carries, Awaits
<1> QED BY <1>1, <1>3, OnlyOneMoves

LEMMA StageKeeps ==
  ASSUME KeysInv, NEW p \in Openers, StageKey(p)
  PROVE  KeysInv'
<1>1. KeyTypes /\ opening[p] \in Openings /\ Sound(opening[p], item, store, rushed)
      /\ opening[p].at = "generate"
  BY SoundNow DEF StageKey, KeysInv
<1>2. UNCHANGED <<place, item, store, lost, rushed>> /\ door' = door
      /\ keyWork' \in [openings : Nat, keys : Nat, meddling : Nat]
      /\ keyWork.keys + 1 \in 0 .. MaxKeys /\ keyWork.keys + 1 # 0
  BY <1>1, KeyCounts DEF StageKey, Staged
<1>3. door' \in {"open", "locked", "denied"} /\ staging' \in [Openers -> {"none", "empty", "whole"}]
  BY <1>1, <1>2 DEF KeyTypes, StageKey
<1>4. CASE Goes(p, [at |-> "unlink", result |-> "locked"])
  BY <1>2, <1>3, <1>4, GoesToUnlink DEF Results
<1>5. CASE Goes(p, [key |-> keyWork.keys + 1, at |-> "write"])
  <2> DEFINE o == Now(opening[p], "write", opening[p].format, keyWork.keys + 1, opening[p].result)
  <2>1. Moved(p, o) /\ o \in Openings
    BY <1>1, <1>2, <1>5, GoesWithKey DEF KeyPlaces
  <2>2. o.at = "write" /\ o.key # 0 /\ o.format = opening[p].format /\ o.result = opening[p].result
    BY <1>2 DEF Now
  <2>3. Sound(o, item, store, rushed)
    BY <1>1, <2>2 DEF Sound, Carries, Awaits
  <2> QED BY <1>2, <1>3, <2>1, <2>3, OnlyOneMoves
<1> QED BY <1>4, <1>5 DEF StageKey

LEMMA WriteKeeps ==
  ASSUME KeysInv, NEW p \in Openers, WriteKey(p)
  PROVE  KeysInv'
<1>1. opening[p] \in Openings /\ Sound(opening[p], item, store, rushed) /\ opening[p].at = "write"
  BY SoundNow DEF WriteKey
<1>2. UNCHANGED <<place, item, store, lost, rushed>> /\ door' \in {"open", "locked", "denied"}
      /\ staging' \in [Openers -> {"none", "empty", "whole"}]
      /\ keyWork' \in [openings : Nat, keys : Nat, meddling : Nat]
  BY DEF WriteKey, Outside, KeysInv, KeyTypes
<1>3. Sound(Now(opening[p], "link", opening[p].format, opening[p].key, opening[p].result),
            item, store, rushed)
  BY <1>1 DEF Sound, Carries, Awaits, Now
<1> QED BY <1>2, <1>3, MoveKeeps DEF WriteKey, KeyPlaces

LEMMA LinkKeeps ==
  ASSUME KeysInv, NEW p \in Openers, LinkKey(p)
  PROVE  KeysInv'
<1>1. KeyTypes /\ opening[p] \in Openings /\ Sound(opening[p], item, store, rushed)
      /\ opening[p].at = "link" /\ Awaits(opening[p])
  BY SoundNow DEF LinkKey, KeysInv, Sound, Awaits
<1>2. UNCHANGED <<place, staging, door, store, lost, rushed>>
      /\ keyWork' \in [openings : Nat, keys : Nat, meddling : Nat]
      /\ door' \in {"open", "locked", "denied"} /\ staging' \in [Openers -> {"none", "empty", "whole"}]
  BY <1>1 DEF LinkKey, Outside, KeyTypes
<1>3. CASE Vacant /\ item' = [key |-> opening[p].key, whole |-> TRUE] /\ Goes(p, [at |-> "unlink"])
  <2> DEFINE o == Now(opening[p], "unlink", opening[p].format, opening[p].key, opening[p].result)
  <2>1. Moved(p, o) /\ o \in Openings
    BY <1>1, <1>3, GoesOn DEF KeyPlaces
  <2>2. o.at = "unlink" /\ o.key = item'.key /\ o.result = opening[p].result
    BY <1>3 DEF Now
  <2>3. Sound(o, item', store, rushed)
    BY <1>1, <2>2 DEF Sound, Carries, Awaits
  <2>4. opening[p].key \in 0 .. MaxKeys
    BY <1>1, OpeningTypes
  <2> QED BY <1>1, <1>2, <1>3, <2>1, <2>3, <2>4, ItemKeeps DEF Vacant, Held
<1>4. CASE item' = item /\ Goes(p, [at |-> "unlink", result |-> "exists"])
  BY <1>2, <1>4, GoesToUnlink DEF Results
<1> QED BY <1>3, <1>4 DEF LinkKey

LEMMA UnlinkKeeps ==
  ASSUME KeysInv, NEW p \in Openers, UnlinkStaging(p)
  PROVE  KeysInv'
<1>1. opening[p] \in Openings /\ Sound(opening[p], item, store, rushed) /\ opening[p].at = "unlink"
      /\ KeyTypes
  BY SoundNow DEF UnlinkStaging, KeysInv
<1>2. UNCHANGED <<place, item, store, lost, rushed>> /\ door' \in {"open", "locked", "denied"}
      /\ staging' \in [Openers -> {"none", "empty", "whole"}]
      /\ keyWork' \in [openings : Nat, keys : Nat, meddling : Nat]
  BY <1>1 DEF UnlinkStaging, Outside, KeyTypes
<1>3. CASE opening[p].result = "exists" /\ Goes(p, [at |-> "reload", result |-> "-"])
  <2> DEFINE o == Now(opening[p], "reload", opening[p].format, opening[p].key, "-")
  <2>1. Moved(p, o) /\ o \in Openings
    BY <1>1, <1>3, GoesWithResult DEF KeyPlaces, Results
  <2>2. o.at = "reload" /\ o.result = "-"
    BY DEF Now
  <2>3. Sound(o, item, store, rushed)
    BY <2>2 DEF Sound, Carries, Awaits
  <2> QED BY <1>2, <2>1, <2>3, OnlyOneMoves
<1>4. CASE EndsWith(p, "locked")
  BY <1>2, <1>4, EndKeeps DEF Results
<1>5. CASE opening[p].result \notin {"exists", "locked"} /\ Goes(p, [at |-> KeyGoesTo(p)])
  <2>1. KeyGoesTo(p) \in {"aside", "reprobe"} /\ KeyGoesTo(p) \in KeyPlaces
    BY DEF KeyGoesTo, KeyPlaces
  <2>2. Sound(Now(opening[p], KeyGoesTo(p), opening[p].format, opening[p].key, opening[p].result),
              item, store, rushed)
    BY <1>1, <1>5, <2>1 DEF Sound, Carries, Awaits, Now
  <2> QED BY <1>2, <1>5, <2>1, <2>2, MoveKeeps
<1> QED BY <1>3, <1>4, <1>5 DEF UnlinkStaging

-----------------------------------------------------------------------------
(* The store file.                                                         *)

Files == [format : {"missing", "empty", "plaintext", "encrypted"}, key : 0 .. MaxKeys]

\* A process changes the store, and encrypts it only with the item's key.
LEMMA StoreKeeps ==
  ASSUME KeysInv, UNCHANGED <<Outside, item, staging, door>>, store' \in Files,
         \/ store' = store
         \/ store'.format # "encrypted"
         \/ ~rushed => store'.key = item.key /\ item.key # 0,
         NEW p \in Openers, NEW o \in Openings, Moved(p, o), Sound(o, item, store', rushed)
  PROVE  KeysInv'
<1>1. KeyTypes'
  BY DEF KeysInv, KeyTypes, Moved, Outside, Files
<1>2. item'.whole = TRUE /\ item' = item /\ rushed' = rushed /\ lost' = lost
  BY DEF KeysInv, Outside
<1>3. ~rushed => StoreFits(item', store', lost')
  BY <1>2 DEF KeysInv, StoreFits
<1>4. CASE ~rushed
  <2>1. Mild
    BY <1>2, <1>4 DEF Mild
  <2> QED BY <1>1, <1>2, <1>3, <2>1, OneMoves
<1>5. CASE rushed
  <2>1. ASSUME NEW q \in Openers
        PROVE  Sound(opening'[q], item', store', rushed')
    <3>1. CASE q = p
      BY <1>2, <3>1 DEF Moved, KeysInv, KeyTypes
    <3>2. CASE q # p
      <4>1. opening'[q] = opening[q] /\ Sound(opening[q], item, store, rushed)
        BY <3>2 DEF Moved, KeysInv, KeyTypes
      <4> QED BY <1>2, <1>5, <4>1 DEF Sound
    <3> QED BY <3>1, <3>2
  <2> QED BY <1>1, <1>2, <1>5, <2>1 DEF KeysInv
<1> QED BY <1>4, <1>5 DEF KeysInv, KeyTypes

LEMMA AsideKeeps ==
  ASSUME KeysInv, NEW p \in Openers, SetStoreAside(p)
  PROVE  KeysInv'
<1> DEFINE f == IF opening[p].format = "plaintext" THEN "missing" ELSE opening[p].format
           o == Now(opening[p], "create", f, opening[p].key, opening[p].result)
<1>1. KeyTypes /\ opening[p] \in Openings /\ Sound(opening[p], item, store, rushed)
      /\ opening[p].at = "aside" /\ opening[p].format \in Seen
  BY SoundNow, OpeningTypes DEF SetStoreAside, KeysInv
<1>2. f \in Seen
  BY <1>1 DEF Seen
<1>3. Goes(p, [format |-> f, at |-> "create"])
  BY DEF SetStoreAside
<1>4. Moved(p, o) /\ o \in Openings
  BY <1>1, <1>2, <1>3, GoesWithFormat DEF KeyPlaces
<1>5. o.at = "create" /\ o.key = opening[p].key /\ o.result = opening[p].result
  BY DEF Now
<1>6. store' = store \/ store' = Absent
  BY DEF SetStoreAside
<1>7. store' \in Files /\ (store' = store \/ store'.format # "encrypted")
  BY <1>1, <1>6, AwayTypes DEF Absent, KeyTypes, Files
<1>8. Sound(o, item, store', rushed)
  BY <1>1, <1>5 DEF Sound, Carries, Awaits
<1> HIDE DEF o, f
<1> QED BY <1>4, <1>7, <1>8, StoreKeeps DEF SetStoreAside

LEMMA ReprobeKeeps ==
  ASSUME KeysInv, NEW p \in Openers, Reprobe(p)
  PROVE  KeysInv'
<1>1. KeyTypes /\ opening[p] \in Openings /\ Sound(opening[p], item, store, rushed)
      /\ opening[p].at = "reprobe"
  BY SoundNow DEF Reprobe, KeysInv
<1>2. CASE EndsWith(p, "locked")
  BY <1>1, <1>2, EndKeeps DEF Results, Reprobe, Outside, KeyTypes
<1>3. ASSUME NEW x \in {"read", "create"}, Goes(p, [format |-> Format, at |-> x])
      PROVE  KeysInv'
  <2> DEFINE o == Now(opening[p], x, Format, opening[p].key, opening[p].result)
  <2>1. Moved(p, o) /\ o \in Openings
    BY <1>1, <1>3, FormatSeen, GoesWithFormat DEF KeyPlaces
  <2>2. o.at = x /\ o.key = opening[p].key /\ o.result = opening[p].result
    BY DEF Now
  <2>3. Sound(o, item, store, rushed)
    BY <1>1, <2>2 DEF Sound, Carries, Awaits
  <2> QED BY <2>1, <2>3, OnlyPlaceMoves DEF Reprobe
<1> QED BY <1>2, <1>3 DEF Reprobe

LEMMA CreateKeeps ==
  ASSUME KeysInv, NEW p \in Openers, CreateFile(p)
  PROVE  KeysInv'
<1> DEFINE o == Now(opening[p], "connect", opening[p].format, opening[p].key, opening[p].result)
<1>1. KeyTypes /\ opening[p] \in Openings /\ Sound(opening[p], item, store, rushed)
      /\ opening[p].at = "create"
  BY SoundNow DEF CreateFile, KeysInv
<1>2. Moved(p, o) /\ o \in Openings
  BY <1>1, GoesOn DEF CreateFile, KeyPlaces
<1>3. o.at = "connect" /\ o.key = opening[p].key /\ o.result = opening[p].result
  BY DEF Now
<1>4. store' \in Files /\ (store' = store \/ store'.format # "encrypted")
  BY <1>1 DEF CreateFile, KeyTypes, Files
<1>5. Sound(o, item, store', rushed)
  BY <1>1, <1>3 DEF Sound, Carries, Awaits
<1> HIDE DEF o
<1> QED BY <1>2, <1>4, <1>5, StoreKeeps DEF CreateFile

\* A process that has its key and finds another one in the store: the user deleted one.
LEMMA MismatchIsTheUsers ==
  ASSUME KeysInv, NEW p \in Openers, Carries(opening[p]), opening[p].key # 0,
         store.format = "encrypted", store.key # opening[p].key
  PROVE  rushed
<1>1. ~rushed => opening[p].key = item.key
  BY SoundNow DEF Sound
<1>2. ~rushed => item.key = store.key \/ item.key = 0
  BY DEF KeysInv, StoreFits
<1>3. rushed \in BOOLEAN
  BY DEF KeysInv, KeyTypes
<1> QED BY <1>1, <1>2, <1>3

\* An opening that may end with a mismatch, if the user deleted the key.
LEMMA VerdictKeeps ==
  ASSUME KeysInv, NEW p \in Openers, NEW res \in Results \ {"invalid"}, res = "mismatch" => rushed,
         EndsWith(p, res), UNCHANGED <<Outside, item, staging, door>>, store' \in Files,
         \/ store' = store
         \/ store'.format # "encrypted"
         \/ ~rushed => store'.key = item.key /\ item.key # 0
  PROVE  KeysInv'
<1> DEFINE o == Now(opening[p], "done", opening[p].format, opening[p].key, res)
<1>1. Moved(p, o) /\ o \in Openings
  BY Ending DEF KeysInv
<1>2. o.at = "done" /\ o.result = res
  BY DEF Now
<1>3. Sound(o, item, store', rushed)
  BY <1>2 DEF Sound, Carries, Awaits
<1> HIDE DEF o
<1> QED BY <1>1, <1>3, StoreKeeps

LEMMA OpenedKeeps ==
  ASSUME KeysInv, NEW p \in Openers, opening[p].at = "connect", Opened(p),
         UNCHANGED <<Outside, item, staging, door>>, store' \in Files,
         \/ store' = store
         \/ store'.format # "encrypted"
         \/ ~rushed => store'.key = item.key /\ item.key # 0
  PROVE  KeysInv'
<1>1. CASE EndsWith(p, "open")
  BY <1>1, VerdictKeeps DEF Results
<1>2. CASE Goes(p, [at |-> "recording"])
  <2> DEFINE o == Now(opening[p], "recording", opening[p].format, opening[p].key, opening[p].result)
  <2>1. Moved(p, o) /\ o \in Openings
    BY <1>2, GoesOn DEF KeysInv, KeyPlaces
  <2>2. o.at = "recording" /\ o.result = opening[p].result
    BY DEF Now
  <2>3. Sound(o, item, store', rushed)
    BY <2>2, SoundNow DEF Sound, Carries, Awaits
  <2> HIDE DEF o
  <2> QED BY <2>1, <2>3, StoreKeeps
<1> QED BY <1>1, <1>2 DEF Opened

LEMMA ConnectKeeps ==
  ASSUME KeysInv, NEW p \in Openers, Connect(p)
  PROVE  KeysInv'
<1>1. KeyTypes /\ opening[p] \in Openings /\ Sound(opening[p], item, store, rushed)
      /\ opening[p].at = "connect" /\ Carries(opening[p]) /\ opening[p].key \in 0 .. MaxKeys
  BY SoundNow, OpeningTypes DEF Connect, KeysInv, Carries
<1>2. UNCHANGED <<Outside, item, staging, door>>
  BY DEF Connect
<1>3. Using(p) \in 0 .. MaxKeys /\ (Using(p) # 0 => Using(p) = opening[p].key)
  BY <1>1, AwayTypes DEF Using
<1>4. Using(p) # 0 /\ ~rushed => Using(p) = item.key
  BY <1>1, <1>3 DEF Sound
<1>5. CASE store.format \in {"missing", "empty"}
  <2>1. Opened(p) /\ store' = IF Using(p) = 0 THEN [format |-> "plaintext", key |-> 0]
                              ELSE [format |-> "encrypted", key |-> Using(p)]
    BY <1>5 DEF Connect
  <2>2. store' \in Files
    BY <1>3, <2>1, AwayTypes DEF Files
  <2>3. store'.format # "encrypted" \/ (~rushed => store'.key = item.key /\ item.key # 0)
    BY <1>4, <2>1
  <2> QED BY <1>1, <1>2, <2>1, <2>2, <2>3, OpenedKeeps
<1>6. CASE store.format \notin {"missing", "empty"}
  <2>1. store' = store /\ store' \in Files
    BY <1>1, <1>6 DEF Connect, KeyTypes, Files
  <2>2. CASE Opened(p)
    BY <1>1, <1>2, <2>1, <2>2, OpenedKeeps
  <2>3. CASE store.key # Using(p) /\ Using(p) = 0 /\ EndsWith(p, "foreign")
    BY <1>2, <2>1, <2>3, VerdictKeeps DEF Results
  <2>4. CASE store.key # Using(p) /\ Using(p) # 0 /\ EndsWith(p, Unreadable)
    <3>1. Unreadable \in Results \ {"invalid"}
      BY DEF Unreadable, Results
    <3>2. Unreadable = "mismatch" => rushed
      BY <1>1, <1>3, <2>4, MismatchIsTheUsers DEF Unreadable
    <3> QED BY <1>2, <2>1, <2>4, <3>1, <3>2, VerdictKeeps
  <2> QED BY <1>6, <2>2, <2>3, <2>4 DEF Connect
<1> QED BY <1>5, <1>6

LEMMA ReadKeeps ==
  ASSUME KeysInv, NEW p \in Openers, ReadStore(p)
  PROVE  KeysInv'
<1> DEFINE used == IF opening[p].format = "encrypted" THEN opening[p].key ELSE 0
           res == IF store.format \in {"missing", "empty"} THEN "unready"
                  ELSE IF store.key = used THEN "open"
                  ELSE IF used = 0 THEN "foreign" ELSE Unreadable
<1>1. KeyTypes /\ opening[p].at = "read" /\ Carries(opening[p])
  BY DEF ReadStore, KeysInv, Carries
<1>2. UNCHANGED <<Outside, item, staging, door>> /\ store' = store /\ store' \in Files
  BY <1>1 DEF ReadStore, KeyTypes, Files
<1>3. EndsWith(p, res)
  BY DEF ReadStore
<1>4. res \in Results \ {"invalid"} /\ (res = "mismatch" => store.key # used /\ used # 0 /\ Unreadable = "mismatch")
  <2>1. CASE store.format \in {"missing", "empty"}
    BY <2>1 DEF Results
  <2>2. CASE store.format \notin {"missing", "empty"} /\ store.key = used
    <3>1. res \in {"unready", "open"}
      BY <2>2
    <3> QED BY <3>1 DEF Results
  <2>3. CASE store.format \notin {"missing", "empty"} /\ store.key # used
    <3>1. res = IF used = 0 THEN "foreign" ELSE Unreadable
      BY <2>3
    <3> HIDE DEF res
    <3> QED BY <2>3, <3>1 DEF Results, Unreadable
  <2> QED BY <2>1, <2>2, <2>3
<1>5. res = "mismatch" => rushed
  BY <1>1, <1>4, MismatchIsTheUsers DEF Unreadable
<1> HIDE DEF res
<1> QED BY <1>2, <1>3, <1>4, <1>5, VerdictKeeps

-----------------------------------------------------------------------------
(* Ends and deaths of processes, and what the user does.                   *)

LEMMA AwaySound == ASSUME NEW i, NEW s, NEW r PROVE Sound(Away, i, s, r)
BY DEF Away, Sound, Carries, Awaits

\* Some processes are gone, and know nothing any more.
LEMMA GoneKeeps ==
  ASSUME KeysInv, UNCHANGED <<Outside, item, staging, door, store>>,
         opening' \in [Openers -> Openings],
         \A q \in Openers : opening'[q] = opening[q] \/ opening'[q] = Away
  PROVE  KeysInv'
<1>1. KeyTypes' /\ item'.whole = TRUE /\ (~rushed' => StoreFits(item', store', lost'))
  BY DEF KeysInv, KeyTypes, Outside
<1>2. ASSUME NEW q \in Openers
      PROVE  Sound(opening'[q], item', store', rushed')
  BY AwaySound DEF KeysInv, Outside
<1> QED BY <1>1, <1>2 DEF KeysInv

LEMMA FinishKeeps ==
  ASSUME KeysInv, NEW p \in Openers, FinishOpening(p)
  PROVE  KeysInv'
<1>1. opening' \in [Openers -> Openings]
  BY AwayTypes DEF FinishOpening, KeysInv, KeyTypes
<1>2. \A q \in Openers : opening'[q] = opening[q] \/ opening'[q] = Away
  BY DEF FinishOpening
<1> QED BY <1>1, <1>2, GoneKeeps DEF FinishOpening

LEMMA DiesKeeps ==
  ASSUME KeysInv, NEW p \in Openers, OpenerDies(p)
  PROVE  KeysInv'
<1>1. opening' \in [Openers -> Openings]
  BY AwayTypes DEF OpenerDies, KeysInv, KeyTypes
<1>2. \A q \in Openers : opening'[q] = opening[q] \/ opening'[q] = Away
  BY DEF OpenerDies, KeysInv, KeyTypes
<1> QED BY <1>1, <1>2, GoneKeeps DEF OpenerDies

LEMMA MeddlingCounts ==
  ASSUME KeyTypes, Meddles
  PROVE  keyWork' \in [openings : Nat, keys : Nat, meddling : Nat]
BY DEF Meddles, KeyTypes

\* A process that is not in the middle of an opening knows nothing of the item.
LEMMA ResterSound ==
  ASSUME NEW o, o.at \in {"idle", "done", "recording"}, NEW i, NEW s, NEW r,
         NEW j, NEW t, Sound(o, i, s, r)
  PROVE  Sound(o, j, t, r)
BY DEF Sound, Carries, Awaits

LEMMA DeleteKeeps ==
  ASSUME KeysInv, DeleteKey
  PROVE  KeysInv'
<1>1. KeyTypes /\ item.key \in AKey /\ rushed \in BOOLEAN /\ rushed' = (rushed \/ Midway)
      /\ item' = NoItem /\ lost' = lost \cup {item.key}
      /\ UNCHANGED <<place, staging, door, store, opening>>
  BY DEF DeleteKey, KeysInv, KeyTypes, Held, AKey
<1>2. KeyTypes'
  <2>1. item' \in [key : 0 .. MaxKeys, whole : BOOLEAN]
    BY <1>1, AwayTypes DEF NoItem
  <2>2. keyWork' \in [openings : Nat, keys : Nat, meddling : Nat]
    BY <1>1, MeddlingCounts DEF DeleteKey
  <2>3. lost' \subseteq AKey /\ rushed' \in BOOLEAN
    BY <1>1 DEF KeyTypes, Midway
  <2> QED BY <1>1, <2>1, <2>2, <2>3 DEF KeyTypes
<1>3. ASSUME NEW q \in Openers
      PROVE  Sound(opening'[q], item', store', rushed')
  <2>1. opening'[q] = opening[q] /\ opening[q] \in Openings /\ Sound(opening[q], item, store, rushed)
        /\ store' = store
    BY <1>1, SoundNow
  <2>2. CASE rushed'
    BY <2>1, <2>2 DEF Sound
  <2>3. CASE ~rushed'
    <3>1. ~rushed /\ opening[q].at \in {"idle", "done", "recording"}
      BY <1>1, <2>3 DEF Midway
    <3>2. Sound(opening[q], item', store', rushed)
      BY <2>1, <3>1, ResterSound
    <3>3. rushed' = rushed
      BY <1>1, <2>3, <3>1
    <3> QED BY <2>1, <3>2, <3>3
  <2> QED BY <2>2, <2>3
<1>4. ~rushed' => StoreFits(item', store', lost')
  <2>1. ~rushed' => ~rushed
    BY <1>1
  <2>2. ~rushed => StoreFits(item, store, lost)
    BY DEF KeysInv
  <2>3. item.key # 0 /\ item'.key = 0
    BY <1>1, AwayTypes DEF AKey, NoItem
  <2> QED BY <1>1, <2>1, <2>2, <2>3 DEF StoreFits
<1>5. item'.whole = TRUE
  BY <1>1 DEF NoItem
<1> QED BY <1>2, <1>3, <1>4, <1>5 DEF KeysInv

LEMMA RestoreKeeps ==
  ASSUME KeysInv, NEW k \in lost, RestoreKey(k)
  PROVE  KeysInv'
<1>1. KeyTypes /\ k \in AKey /\ k \in 0 .. MaxKeys /\ k # 0 /\ item.key = 0
      /\ item' = [key |-> k, whole |-> TRUE] /\ lost' = lost \ {k}
      /\ UNCHANGED <<place, staging, door, store, opening, rushed>>
  BY AwayTypes DEF RestoreKey, KeysInv, KeyTypes, Held, AKey
<1>2. KeyTypes'
  BY <1>1, MeddlingCounts DEF KeyTypes, RestoreKey
<1>3. ASSUME NEW q \in Openers
      PROVE  Sound(opening'[q], item', store', rushed')
  <2>1. opening'[q] = opening[q] /\ opening[q] \in Openings /\ Sound(opening[q], item, store, rushed)
    BY <1>1, SoundNow
  <2>2. item' \in [key : 0 .. MaxKeys, whole : BOOLEAN] /\ Mild
    BY <1>1 DEF Mild
  <2> QED BY <1>1, <2>1, <2>2, OthersSound
<1>4. StoreFits(item', store', lost')
  BY <1>1 DEF RestoreKey, StoreFits
<1> QED BY <1>1, <1>2, <1>3, <1>4 DEF KeysInv

LEMMA MoveStoreKeeps ==
  ASSUME KeysInv, MoveStore
  PROVE  KeysInv'
<1>1. UNCHANGED <<place, item, staging, door, opening, lost, rushed>> /\ store' = Absent
      /\ store'.format # "encrypted"
  BY DEF MoveStore, Absent
<1>2. KeyTypes'
  <2>1. store' \in [format : {"missing", "empty", "plaintext", "encrypted"}, key : 0 .. MaxKeys]
    BY <1>1, AwayTypes DEF Absent
  <2> QED BY <1>1, <2>1, MeddlingCounts DEF KeysInv, KeyTypes, MoveStore
<1>3. Mild
  BY <1>1 DEF Mild
<1>4. ASSUME NEW q \in Openers
      PROVE  Sound(opening'[q], item', store', rushed')
  BY <1>1, <1>2, <1>3, SoundNow, OthersSound DEF KeyTypes
<1> QED BY <1>1, <1>2, <1>4 DEF KeysInv, StoreFits

LEMMA CloseKeeps ==
  ASSUME KeysInv, NEW state \in {"locked", "denied", "open"}, CloseKeychain(state)
  PROVE  KeysInv'
<1>1. KeyTypes'
  BY MeddlingCounts DEF CloseKeychain, KeysInv, KeyTypes
<1> QED BY <1>1 DEF CloseKeychain, KeysInv

-----------------------------------------------------------------------------
(* The theorems.                                                           *)

LEMMA KeysInitially == KeysInit => KeysInv
<1> SUFFICES ASSUME KeysInit PROVE KeysInv
  OBVIOUS
<1>1. KeyTypes
  <2>1. item \in [key : 0 .. MaxKeys, whole : BOOLEAN] /\ store \in Files
    BY AwayTypes DEF KeysInit, NoItem, Absent, Files
  <2>2. keyWork \in [openings : Nat, keys : Nat, meddling : Nat]
    BY DEF KeysInit
  <2> QED BY <2>1, <2>2, AwayTypes DEF KeysInit, KeyTypes, Files
<1>2. \A p \in Openers : Sound(opening[p], item, store, rushed)
  BY AwaySound DEF KeysInit
<1>3. item.whole = TRUE /\ StoreFits(item, store, lost)
  BY DEF KeysInit, NoItem, Absent, StoreFits
<1> QED BY <1>1, <1>2, <1>3 DEF KeysInv

LEMMA KeysStep == KeysInv /\ [KeysNext]_keyVars => KeysInv'
<1> SUFFICES ASSUME KeysInv, [KeysNext]_keyVars
             PROVE  KeysInv'
  OBVIOUS
<1>1. ASSUME NEW p \in Openers, OpeningStep(p)
      PROVE  KeysInv'
  BY <1>1, BeginKeeps, ProbeKeeps, ReadinessKeeps, LoadKeeps, AddKeeps, StageKeeps, WriteKeeps,
     LinkKeeps, UnlinkKeeps, AsideKeeps, ReprobeKeeps, CreateKeeps, ConnectKeeps, ReadKeeps,
     FinishKeeps, DiesKeeps DEF OpeningStep
<1>2. CASE DeleteKey
  BY <1>2, DeleteKeeps
<1>3. CASE MoveStore
  BY <1>3, MoveStoreKeeps
<1>4. ASSUME NEW k \in lost, RestoreKey(k)
      PROVE  KeysInv'
  BY <1>4, RestoreKeeps
<1>5. ASSUME NEW state \in {"locked", "denied", "open"}, CloseKeychain(state)
      PROVE  KeysInv'
  BY <1>5, CloseKeeps
<1>6. CASE UNCHANGED keyVars
  BY <1>6 DEF keyVars, KeysInv, KeyTypes
<1> QED BY <1>1, <1>2, <1>3, <1>4, <1>5, <1>6 DEF KeysNext

\* The inductive invariant of a store, its key and the processes that open it.
THEOREM KeysInvariant == KeysSpec => []KeysInv
<1> QED BY KeysInitially, KeysStep, PTL DEF KeysSpec

\* What the invariant says of the properties of StoreKeys.
LEMMA InvariantIsSafe == KeysInv => KeysTypeOK /\ KeysSafe
<1> SUFFICES ASSUME KeysInv PROVE KeysTypeOK /\ KeysSafe
  OBVIOUS
<1>1. KeysTypeOK
  <2>1. \A p \in Openers : /\ opening[p].life \in Lives \cup {"-"}
                           /\ opening[p].key \in 0 .. MaxKeys /\ opening[p].result \in Results
    BY DEF KeysInv, KeyTypes, Openings
  <2> QED BY <2>1 DEF KeysInv, KeyTypes, KeysTypeOK
<1>2. StoreFitsKey
  BY DEF KeysInv, StoreFits, StoreFitsKey
<1>3. NeverMismatched /\ KeyIsWhole
  BY DEF KeysInv, Sound, NeverMismatched, KeyIsWhole
<1> QED BY <1>1, <1>2, <1>3 DEF KeysSafe

\* A store is encrypted with the key in the key store, or one the user deleted; nobody
\* meets a store of another key, or half a key (store_access.rs, key_store.rs).
THEOREM KeysAreSafe == KeysSpec => []KeysSafe
<1> QED BY KeysInvariant, InvariantIsSafe, PTL

\* The same of the behaviours of the run, which are of several modules side by side.
THEOREM KeysAlwaysFit == StoreSpec => []KeysFit
<1> DEFINE Inv == part = "keys" => KeysInv
<1>1. StoreInit => Inv
  <2> SUFFICES ASSUME StoreInit, part = "keys" PROVE KeysInv
    OBVIOUS
  <2>1. KeysInit
    BY DEF StoreInit
  <2> QED BY <2>1, KeysInitially
<1>2. Inv /\ [StoreNext]_storeMCVars => Inv'
  <2> SUFFICES ASSUME Inv, [StoreNext]_storeMCVars, part' = "keys" PROVE KeysInv'
    OBVIOUS
  <2>1. part = "keys" /\ [KeysNext]_keyVars
    BY DEF StoreNext, storeMCVars
  <2> QED BY <2>1, KeysStep
<1>3. Inv => KeysFit
  BY InvariantIsSafe DEF KeysFit
<1> QED BY <1>1, <1>2, <1>3, PTL DEF StoreSpec

-----------------------------------------------------------------------------
(* The configuration file and those who use it (ConfigReload).             *)

EditPlaces == {"idle", "prompt", "reread", "save", "template", "editor", "editing"}
EditsUnderWay == [at : EditPlaces, field : Fields \cup {"edit", "-"}, doc : Configs, seen : Stamps]
ConfigFiles == [kind : {"missing", "good", "bad"}, config : Configs, stamp : Stamps]
Watchers == [at : {"off", "loaded", "polling", "reading"}, since : {"start", "reload"},
             watched : Stamps, stat : Stamps, read : Stamps,
             downstream : SUBSET Listed, upstream : SUBSET Listed,
             targets : SUBSET {Browser}, chrome : BOOLEAN, captures : BOOLEAN,
             active : RetentionChoices, pending : RetentionChoices \cup {0},
             trouble : SUBSET {"config", "retention"}, purged : BOOLEAN]

\* The file x after n writes: only a missing one has no modification time.
FileHolds(x, n) ==
  /\ x \in ConfigFiles /\ n \in Stamps /\ x.stamp <= n
  /\ x.kind = "missing" <=> x.stamp = 0
  /\ x.stamp = 0 => x.config = DefaultConfig

\* The editing process e, which is to write e.doc: it has changed its own field only, of
\* the file it has seen, which is there still or was none.
OnlyItsField(e, config) == \A f \in Fields \ {e.field} : e.doc[f] = config[f]
EditHolds(e, x, n) ==
  /\ e \in EditsUnderWay /\ e.seen <= n
  /\ e.at \in {"prompt", "reread"} => e.field = "snapshot"
  /\ e.at = "save" /\ e.seen = 0 => OnlyItsField(e, DefaultConfig)
  /\ e.at = "save" /\ e.seen = x.stamp => OnlyItsField(e, x.config)

\* The recorder w follows a configuration, and reports a retention it does not.
Applied(w, config) ==
  /\ w.downstream = config.filter /\ w.upstream = config.filter
  /\ w.targets = Targets(config.filter) /\ w.chrome = (w.targets # {})
  /\ config.retention = (IF w.pending = 0 THEN w.active ELSE w.pending)
Reports(w) ==
  /\ w.pending # 0 => "retention" \in w.trouble
  /\ "retention" \in w.trouble => ~w.purged \/ w.pending # 0
\* After a reload it follows what it has read last, also once that is gone; the time it
\* takes for known is that of the file it has read, unless another came in between.
Follows(w, x) ==
  w.since = "reload" =>
    /\ w.read = 0 => Applied(w, DefaultConfig)
    /\ w.read = x.stamp => x.kind # "bad" /\ Applied(w, x.config)
    /\ w.watched = x.stamp /\ w.read <= w.watched => w.read = x.stamp
WatcherHolds(w, x, n) ==
  /\ w \in Watchers /\ w.watched <= n /\ w.stat <= n /\ w.read <= n
  /\ w.at = "loaded" => w.since = "start"
  /\ Reports(w) /\ Follows(w, x)

\* The inductive invariant of the configuration file and those who use it.
ConfigHolds ==
  /\ FileHolds(confFile, writes)
  /\ editors \in [Editors -> EditsUnderWay]
  /\ \A c \in Editors : EditHolds(editors[c], confFile, writes)
  /\ WatcherHolds(watcher, confFile, writes)

LEMMA DefaultIsConfig == DefaultConfig \in Configs /\ Fields = {"filter", "snapshot", "retention"}
BY ConfigReloadAssumption DEF DefaultConfig, Configs, Fields

LEMMA StampsAreNat == Stamps \subseteq Nat /\ 0 \in Stamps
BY ConfigReloadAssumption DEF Stamps

\* A process that has seen nothing and is not about to save.
LEMMA SpotHolds ==
  ASSUME NEW spot \in EditPlaces \ {"prompt", "reread", "save"}, NEW x, NEW n \in Stamps
  PROVE  EditHolds([EditorIdle EXCEPT !.at = spot], x, n)
<1> DEFINE e == [EditorIdle EXCEPT !.at = spot]
<1>1. e.at = spot /\ e.seen = 0
  BY DEF EditorIdle
<1>2. e \in EditsUnderWay
  BY DefaultIsConfig, StampsAreNat DEF EditorIdle, EditsUnderWay
<1> HIDE DEF e
<1>3. n \in Nat /\ e.seen <= n
  BY <1>1, StampsAreNat
<1>4. e.at # "save" /\ ~(e.at \in {"prompt", "reread"})
  BY <1>1
<1>5. EditHolds(e, x, n)
  BY <1>2, <1>3, <1>4 DEF EditHolds
<1> QED BY <1>5 DEF e

LEMMA IdleIsItself == EditorIdle = [EditorIdle EXCEPT !.at = "idle"]
BY DEF EditorIdle

LEMMA IdleHolds == ASSUME NEW x, NEW n \in Stamps PROVE EditHolds(EditorIdle, x, n)
BY SpotHolds, IdleIsItself DEF EditPlaces

LEMMA OffHolds == ASSUME NEW x, NEW n \in Stamps PROVE WatcherHolds(WatcherOff, x, n)
<1>1. WatcherOff \in Watchers
  BY ConfigReloadAssumption, StampsAreNat DEF WatcherOff, Watchers
<1>2. Reports(WatcherOff) /\ Follows(WatcherOff, x)
  BY DEF WatcherOff, Reports, Follows
<1>3. WatcherOff.at = "off" /\ WatcherOff.watched <= n /\ WatcherOff.stat <= n /\ WatcherOff.read <= n
  BY StampsAreNat DEF WatcherOff
<1> QED BY <1>1, <1>2, <1>3 DEF WatcherHolds

LEMMA NoFileHolds == ASSUME NEW n \in Stamps PROVE FileHolds(NoConfigFile, n)
BY DefaultIsConfig, StampsAreNat DEF FileHolds, NoConfigFile, ConfigFiles

LEMMA ConfigInitially == ConfigInit => ConfigHolds
<1> SUFFICES ASSUME ConfigInit PROVE ConfigHolds
  OBVIOUS
<1>1. confFile = NoConfigFile /\ writes = 0 /\ editors = [c \in Editors |-> EditorIdle]
      /\ watcher = WatcherOff
  BY DEF ConfigInit
<1>2. 0 \in Stamps
  BY StampsAreNat
<1>3. EditorIdle \in EditsUnderWay
  BY <1>2, IdleHolds DEF EditHolds
<1> QED BY <1>1, <1>2, <1>3, IdleHolds, OffHolds, NoFileHolds DEF ConfigHolds

\* A file written now, or taken away, is none that anybody has seen.
LEMMA OthersUnmoved ==
  ASSUME NEW x \in ConfigFiles, NEW n \in Stamps, NEW y \in ConfigFiles, NEW m \in Stamps, n <= m,
         FileHolds(x, n), FileHolds(y, m), y = NoConfigFile \/ (m = n + 1 /\ y.stamp = m) \/ (y = x /\ m = n)
  PROVE  /\ \A e : EditHolds(e, x, n) => EditHolds(e, y, m)
         /\ \A w : WatcherHolds(w, x, n) => WatcherHolds(w, y, m)
<1>1. ASSUME NEW e, EditHolds(e, x, n)
      PROVE  EditHolds(e, y, m)
  <2>1. e.seen \in Nat /\ x.stamp \in Nat /\ y.stamp \in Nat /\ n \in Nat /\ m \in Nat
    BY <1>1, StampsAreNat DEF EditHolds, EditsUnderWay, ConfigFiles
  <2>2. e \in EditsUnderWay /\ e.seen <= n
    BY <1>1 DEF EditHolds
  <2>3. e.at = "save" /\ e.seen = y.stamp => OnlyItsField(e, y.config)
    <3>1. CASE y = NoConfigFile
      BY <1>1, <3>1 DEF EditHolds, NoConfigFile
    <3>2. CASE m = n + 1 /\ y.stamp = m
      BY <2>1, <2>2, <3>2
    <3>3. CASE y = x
      BY <1>1, <3>3 DEF EditHolds
    <3> QED BY <3>1, <3>2, <3>3
  <2> QED BY <1>1, <2>1, <2>2, <2>3 DEF EditHolds
<1>2. ASSUME NEW w, WatcherHolds(w, x, n)
      PROVE  WatcherHolds(w, y, m)
  <2>1. /\ w.watched \in Nat /\ w.stat \in Nat /\ w.read \in Nat
        /\ x.stamp \in Nat /\ y.stamp \in Nat /\ n \in Nat /\ m \in Nat
    BY <1>2, StampsAreNat DEF WatcherHolds, Watchers, ConfigFiles
  <2>2. /\ w \in Watchers /\ w.watched <= n /\ w.stat <= n /\ w.read <= n /\ Reports(w) /\ Follows(w, x)
        /\ w.at = "loaded" => w.since = "start"
    BY <1>2 DEF WatcherHolds
  <2>3. Follows(w, y)
    <3>1. CASE y = NoConfigFile
      <4>1. y.stamp = 0 /\ y.kind = "missing" /\ y.config = DefaultConfig
        BY <3>1 DEF NoConfigFile
      <4> QED BY <4>1, <2>1, <2>2 DEF Follows
    <3>2. CASE m = n + 1 /\ y.stamp = m
      BY <2>1, <2>2, <3>2 DEF Follows
    <3>3. CASE y = x
      BY <2>2, <3>3
    <3> QED BY <3>1, <3>2, <3>3
  <2> QED BY <2>1, <2>2, <2>3 DEF WatcherHolds
<1> QED BY <1>1, <1>2

\* A step of one editing process, which may write or remove the file.
LEMMA OneEdit ==
  ASSUME ConfigHolds, NEW c \in Editors, NEW e \in EditsUnderWay, EditorGoes(c, e), UNCHANGED watcher,
         FileHolds(confFile, writes)', writes' \in Stamps, EditHolds(e, confFile', writes'),
         \/ confFile' = NoConfigFile /\ writes' = writes
         \/ writes' = writes + 1 /\ confFile'.stamp = writes'
         \/ UNCHANGED <<confFile, writes>>
  PROVE  ConfigHolds'
<1>1. writes \in Stamps /\ confFile \in ConfigFiles /\ confFile' \in ConfigFiles /\ FileHolds(confFile, writes)
  BY DEF ConfigHolds, FileHolds
<1>2. writes <= writes'
  BY <1>1, StampsAreNat
<1>3. editors' = [editors EXCEPT ![c] = e]
  BY DEF EditorGoes
<1>4. FileHolds(confFile', writes')
  OBVIOUS
<1>5. /\ \A d : EditHolds(d, confFile, writes) => EditHolds(d, confFile', writes')
      /\ \A w : WatcherHolds(w, confFile, writes) => WatcherHolds(w, confFile', writes')
  BY <1>1, <1>2, <1>4, OthersUnmoved
<1>6. editors' \in [Editors -> EditsUnderWay]
  BY <1>3 DEF ConfigHolds
<1>7. ASSUME NEW d \in Editors PROVE EditHolds(editors'[d], confFile', writes')
  <2>1. editors'[d] = IF d = c THEN e ELSE editors[d]
    BY <1>3 DEF ConfigHolds
  <2> QED BY <2>1, <1>5 DEF ConfigHolds
<1>8. WatcherHolds(watcher', confFile', writes')
  BY <1>5 DEF ConfigHolds
<1> QED BY <1>4, <1>6, <1>7, <1>8 DEF ConfigHolds

\* What the state of one process and of the file are.
LEMMA EditTypes ==
  ASSUME ConfigHolds, NEW c \in Editors
  PROVE  /\ editors[c] \in EditsUnderWay /\ editors[c].doc \in Configs /\ editors[c].seen \in Stamps
         /\ EditHolds(editors[c], confFile, writes) /\ FileHolds(confFile, writes)
         /\ confFile.config \in Configs /\ confFile.stamp \in Stamps /\ confFile.stamp <= writes
         /\ writes \in Stamps /\ writes \in Nat
BY StampsAreNat DEF ConfigHolds, EditsUnderWay, FileHolds, ConfigFiles

\* A step of one process that leaves the file alone.
LEMMA EditAlone ==
  ASSUME ConfigHolds, NEW c \in Editors, NEW e, EditHolds(e, confFile, writes), EditorGoes(c, e),
         UNCHANGED <<confFile, writes, watcher>>
  PROVE  ConfigHolds'
<1>1. e \in EditsUnderWay
  BY DEF EditHolds
<1>2. FileHolds(confFile, writes)' /\ writes' \in Stamps /\ EditHolds(e, confFile', writes')
  BY EditTypes
<1> QED BY <1>1, <1>2, OneEdit

LEMMA WholeFileEditKeeps ==
  ASSUME ConfigHolds, NEW c \in Editors, NEW field \in Fields, NEW doc \in Configs,
         \A f \in Fields \ {field} : doc[f] = confFile.config[f], WholeFileEdit(c, field, doc)
  PROVE  ConfigHolds'
<1> DEFINE e == [at |-> "save", field |-> field, doc |-> doc, seen |-> confFile.stamp]
<1>1. EditHolds(e, confFile, writes)
  <2>1. e \in EditsUnderWay /\ e.seen <= writes
    BY EditTypes DEF EditsUnderWay, EditPlaces
  <2>2. OnlyItsField(e, confFile.config) /\ (e.seen = 0 => OnlyItsField(e, DefaultConfig))
    BY EditTypes DEF OnlyItsField, FileHolds
  <2> QED BY <2>1, <2>2 DEF EditHolds
<1>2. EditorGoes(c, e) /\ UNCHANGED <<confFile, writes, watcher>>
  BY DEF WholeFileEdit
<1> HIDE DEF e
<1> QED BY <1>1, <1>2, EditAlone

LEMMA FilterEditKeeps ==
  ASSUME ConfigHolds, NEW c \in Editors, NEW entry \in Listed, FilterEdit(c, entry)
  PROVE  ConfigHolds'
<1> DEFINE doc == [confFile.config EXCEPT !.filter = Toggled(@, entry)]
<1>1. doc \in Configs /\ \A f \in Fields \ {"filter"} : doc[f] = confFile.config[f]
  BY EditTypes, DefaultIsConfig DEF Configs, Toggled
<1>2. WholeFileEdit(c, "filter", doc)
  BY DEF FilterEdit, Loaded
<1> HIDE DEF doc
<1> QED BY <1>1, <1>2, WholeFileEditKeeps, DefaultIsConfig

LEMMA RetentionEditKeeps ==
  ASSUME ConfigHolds, NEW c \in Editors, NEW h \in RetentionChoices, RetentionEdit(c, h)
  PROVE  ConfigHolds'
<1> DEFINE doc == [confFile.config EXCEPT !.retention = h]
<1>1. doc \in Configs /\ \A f \in Fields \ {"retention"} : doc[f] = confFile.config[f]
  BY EditTypes, DefaultIsConfig DEF Configs
<1>2. WholeFileEdit(c, "retention", doc)
  BY DEF RetentionEdit, Loaded
<1> HIDE DEF doc
<1> QED BY <1>1, <1>2, WholeFileEditKeeps, DefaultIsConfig

LEMMA SnapshotEditKeeps ==
  ASSUME ConfigHolds, NEW c \in Editors, NEW on \in BOOLEAN, NEW quiet \in BOOLEAN, SnapshotEdit(c, on, quiet)
  PROVE  ConfigHolds'
<1>1. PICK e : /\ EditorGoes(c, e) /\ e.at \in {"prompt", "reread"} /\ e.field = "snapshot"
               /\ e.seen = confFile.stamp /\ e \in EditsUnderWay
  <2> DEFINE e == [at |-> IF on /\ ~Loaded.snapshot /\ ~quiet THEN "prompt" ELSE "reread",
                   field |-> "snapshot", doc |-> [Loaded EXCEPT !.snapshot = on], seen |-> confFile.stamp]
  <2>1. [Loaded EXCEPT !.snapshot = on] \in Configs
    BY EditTypes DEF Configs, Loaded
  <2>2. e \in EditsUnderWay
    BY <2>1, EditTypes, DefaultIsConfig DEF EditsUnderWay, EditPlaces
  <2>3. EditorGoes(c, e)
    BY DEF SnapshotEdit
  <2>4. e.at \in {"prompt", "reread"} /\ e.field = "snapshot" /\ e.seen = confFile.stamp
    OBVIOUS
  <2> HIDE DEF e
  <2> QED BY <2>2, <2>3, <2>4
<1>2. EditHolds(e, confFile, writes)
  BY <1>1, EditTypes DEF EditHolds
<1> QED BY <1>1, <1>2, EditAlone DEF SnapshotEdit

LEMMA PromptAnsweredKeeps ==
  ASSUME ConfigHolds, NEW c \in Editors, PromptAnswered(c)
  PROVE  ConfigHolds'
<1> DEFINE e == [editors[c] EXCEPT !.at = "reread"]
<1>1. EditHolds(e, confFile, writes)
  BY EditTypes DEF EditHolds, EditsUnderWay, EditPlaces, PromptAnswered
<1>2. EditHolds(EditorIdle, confFile, writes)
  BY EditTypes, IdleHolds
<1> HIDE DEF e
<1>3. EditorGoes(c, e) \/ EditorGoes(c, EditorIdle)
  BY DEF PromptAnswered, EditorStops, e
<1> QED BY <1>1, <1>2, <1>3, EditAlone DEF PromptAnswered

LEMMA SwitchRereadKeeps ==
  ASSUME ConfigHolds, NEW c \in Editors, SwitchReread(c)
  PROVE  ConfigHolds'
<1> DEFINE e == [editors[c] EXCEPT !.at = "save", !.doc = Rewritten(c), !.seen = confFile.stamp]
<1>1. editors[c].field = "snapshot"
  BY EditTypes DEF EditHolds, SwitchReread
<1>2. Rewritten(c) \in Configs /\ \A f \in Fields \ {"snapshot"} : Rewritten(c)[f] = confFile.config[f]
  BY EditTypes, DefaultIsConfig DEF Configs, Rewritten, Loaded
<1>3. /\ e \in EditsUnderWay /\ e.field = "snapshot" /\ e.seen = confFile.stamp /\ e.doc = Rewritten(c)
      /\ e.at = "save"
  BY <1>1, <1>2, EditTypes DEF EditsUnderWay, EditPlaces
<1> HIDE DEF e
<1>4. EditHolds(e, confFile, writes)
  BY <1>2, <1>3, EditTypes DEF EditHolds, OnlyItsField, FileHolds
<1>5. EditHolds(EditorIdle, confFile, writes)
  BY EditTypes, IdleHolds
<1>6. EditorGoes(c, e) \/ EditorGoes(c, EditorIdle)
  BY DEF SwitchReread, EditorStops, e
<1> QED BY <1>4, <1>5, <1>6, EditAlone DEF SwitchReread

\* What a write leaves.
LEMMA WriteHolds ==
  ASSUME ConfigHolds, NEW kind \in {"good", "bad"}, NEW config \in Configs, WrittenConfig(kind, config)
  PROVE  /\ FileHolds(confFile, writes)' /\ writes' \in Stamps
         /\ writes' = writes + 1 /\ confFile'.stamp = writes' /\ confFile'.config = config
<1>1. writes \in 0 .. MaxWrites /\ writes < MaxWrites /\ MaxWrites \in Nat /\ writes' = writes + 1
  BY ConfigReloadAssumption DEF ConfigHolds, FileHolds, Stamps, WrittenConfig
<1>2. writes' \in Stamps /\ writes' # 0
  BY <1>1 DEF Stamps
<1>3. confFile' = [kind |-> kind, config |-> config, stamp |-> writes']
  BY DEF WrittenConfig
<1> QED BY <1>1, <1>2, <1>3, StampsAreNat DEF FileHolds, ConfigFiles

\* A process that goes on, or stops, as one that is not about to save, with a write.
LEMMA WritesAndGoes ==
  ASSUME ConfigHolds, NEW c \in Editors, NEW spot \in {"idle", "editor", "editing"},
         NEW kind \in {"good", "bad"}, NEW config \in Configs, WrittenConfig(kind, config),
         EditorGoes(c, [EditorIdle EXCEPT !.at = spot]), UNCHANGED watcher
  PROVE  ConfigHolds'
<1> DEFINE e == [EditorIdle EXCEPT !.at = spot]
<1>1. writes' \in Stamps /\ writes' \in Nat
  BY WriteHolds, StampsAreNat
<1>2. EditHolds(e, confFile', writes')
  BY <1>1, SpotHolds DEF EditPlaces
<1>3. e \in EditsUnderWay
  BY <1>2 DEF EditHolds
<1> HIDE DEF e
<1>4. EditorGoes(c, e)
  BY DEF e
<1> QED BY <1>1, <1>2, <1>3, <1>4, WriteHolds, OneEdit

LEMMA ReplacedKeeps ==
  ASSUME ConfigHolds, NEW c \in Editors, Replaced(c)
  PROVE  ConfigHolds'
<1>1. PICK spot \in {"idle", "editor"} : EditorGoes(c, [EditorIdle EXCEPT !.at = spot])
  <2>1. CASE editors[c].field = "edit"
    BY <2>1 DEF Replaced
  <2>2. CASE editors[c].field # "edit"
    BY <2>2, IdleIsItself DEF Replaced
  <2> QED BY <2>1, <2>2
<1>2. WrittenConfig("good", editors[c].doc) /\ UNCHANGED watcher /\ editors[c].doc \in Configs
  BY EditTypes DEF Replaced
<1> QED BY <1>1, <1>2, WritesAndGoes

LEMMA ReplaceFailsKeeps ==
  ASSUME ConfigHolds, NEW c \in Editors, ReplaceFails(c)
  PROVE  ConfigHolds'
BY EditTypes, IdleHolds, EditAlone DEF ReplaceFails, EditorStops

LEMMA InitCreatesKeeps ==
  ASSUME ConfigHolds, NEW c \in Editors, InitCreates(c)
  PROVE  ConfigHolds'
<1> DEFINE e == [EditorIdle EXCEPT !.at = "template", !.seen = writes + 1]
<1>1. WrittenConfig("good", DefaultConfig) /\ EditorGoes(c, e) /\ UNCHANGED watcher
  BY DEF InitCreates
<1>2. writes' \in Stamps /\ writes' \in Nat /\ writes' = writes + 1
  BY <1>1, WriteHolds, DefaultIsConfig, StampsAreNat
<1>3. e \in EditsUnderWay /\ e.at = "template" /\ e.seen = writes'
  BY <1>2, DefaultIsConfig DEF EditorIdle, EditsUnderWay, EditPlaces
<1> HIDE DEF e
<1>4. EditHolds(e, confFile', writes')
  BY <1>2, <1>3 DEF EditHolds
<1> QED BY <1>1, <1>2, <1>3, <1>4, WriteHolds, DefaultIsConfig, OneEdit

LEMMA TemplateWrittenKeeps ==
  ASSUME ConfigHolds, NEW c \in Editors, TemplateWritten(c)
  PROVE  ConfigHolds'
<1>1. EditorGoes(c, EditorIdle) /\ UNCHANGED watcher
  BY DEF TemplateWritten, EditorStops
<1>2. CASE WrittenConfig("good", DefaultConfig)
  BY <1>1, <1>2, IdleIsItself, DefaultIsConfig, WritesAndGoes
<1>3. CASE UNCHANGED <<confFile, writes>>
  BY <1>1, <1>3, EditTypes, IdleHolds, EditAlone
<1> QED BY <1>2, <1>3 DEF TemplateWritten

LEMMA TemplateFailsKeeps ==
  ASSUME ConfigHolds, NEW c \in Editors, TemplateFails(c)
  PROVE  ConfigHolds'
<1>1. EditorGoes(c, EditorIdle) /\ UNCHANGED <<watcher, writes>> /\ confFile' = NoConfigFile
  BY DEF TemplateFails, EditorStops
<1>2. FileHolds(confFile, writes)' /\ writes' \in Stamps
  BY <1>1, NoFileHolds, EditTypes
<1>3. EditHolds(EditorIdle, confFile', writes')
  BY <1>2, IdleHolds
<1>4. EditorIdle \in EditsUnderWay
  BY <1>3 DEF EditHolds
<1> QED BY <1>1, <1>2, <1>3, <1>4, OneEdit

LEMMA EditBeginsKeeps ==
  ASSUME ConfigHolds, NEW c \in Editors, EditBegins(c)
  PROVE  ConfigHolds'
<1> DEFINE s == [EditorIdle EXCEPT !.at = "save", !.field = "edit"]
           e == [EditorIdle EXCEPT !.at = "editor"]
<1>1. EditHolds(e, confFile, writes)
  BY EditTypes, SpotHolds DEF EditPlaces
<1>2. s \in EditsUnderWay /\ s.at = "save" /\ s.seen = 0 /\ s.doc = DefaultConfig
  BY DefaultIsConfig, StampsAreNat DEF EditorIdle, EditsUnderWay, EditPlaces
<1> HIDE DEF s, e
<1>4. EditHolds(s, confFile, writes)
  BY <1>2, EditTypes DEF EditHolds, OnlyItsField, FileHolds
<1>3. EditorGoes(c, s) \/ EditorGoes(c, e)
  BY DEF EditBegins, s, e
<1> QED BY <1>1, <1>3, <1>4, EditAlone DEF EditBegins

LEMMA EditorTruncatesKeeps ==
  ASSUME ConfigHolds, NEW c \in Editors, EditorTruncates(c)
  PROVE  ConfigHolds'
BY DefaultIsConfig, WritesAndGoes DEF EditorTruncates

LEMMA EditorSavesKeeps ==
  ASSUME ConfigHolds, NEW c \in Editors, EditorSaves(c)
  PROVE  ConfigHolds'
<1>1. EditorGoes(c, [EditorIdle EXCEPT !.at = "idle"]) /\ UNCHANGED watcher
  BY IdleIsItself DEF EditorSaves, EditorStops
<1>2. ASSUME NEW config \in Configs, WrittenConfig("good", config)
      PROVE  ConfigHolds'
  BY <1>1, <1>2, WritesAndGoes
<1>3. ASSUME WrittenConfig("bad", DefaultConfig)
      PROVE  ConfigHolds'
  BY <1>1, <1>3, DefaultIsConfig, WritesAndGoes
<1> QED BY <1>2, <1>3 DEF EditorSaves

LEMMA FileDeletedKeeps ==
  ASSUME ConfigHolds, FileDeleted
  PROVE  ConfigHolds'
<1>1. writes \in Stamps /\ confFile \in ConfigFiles /\ FileHolds(confFile, writes) /\ writes <= writes
  BY StampsAreNat DEF ConfigHolds, FileHolds
<1>2. confFile' = NoConfigFile /\ UNCHANGED <<writes, editors, watcher>>
  BY DEF FileDeleted
<1>3. FileHolds(NoConfigFile, writes) /\ NoConfigFile \in ConfigFiles
  BY <1>1, NoFileHolds DEF FileHolds
<1>4. /\ \A d : EditHolds(d, confFile, writes) => EditHolds(d, NoConfigFile, writes)
      /\ \A w : WatcherHolds(w, confFile, writes) => WatcherHolds(w, NoConfigFile, writes)
  BY <1>1, <1>3, OthersUnmoved
<1> QED BY <1>2, <1>3, <1>4 DEF ConfigHolds

-----------------------------------------------------------------------------
(* The recorder.                                                           *)

LEMMA OneWatch ==
  ASSUME ConfigHolds, NEW w, WatcherHolds(w, confFile, writes), WatcherGoes(w)
  PROVE  ConfigHolds'
BY DEF ConfigHolds, WatcherGoes

LEMMA WatcherTypes ==
  ASSUME ConfigHolds
  PROVE  /\ watcher \in Watchers /\ watcher.watched \in Nat /\ watcher.stat \in Nat /\ watcher.read \in Nat
         /\ watcher.watched <= writes /\ watcher.stat <= writes /\ watcher.read <= writes
         /\ Reports(watcher) /\ Follows(watcher, confFile)
         /\ watcher.at = "loaded" => watcher.since = "start"
         /\ confFile.stamp \in Stamps /\ confFile.stamp \in Nat /\ writes \in Nat
         /\ confFile.stamp <= writes /\ FileHolds(confFile, writes)
         /\ confFile.config \in Configs /\ confFile.config.filter \subseteq Listed
         /\ confFile.config.snapshot \in BOOLEAN /\ confFile.config.retention \in RetentionChoices
BY StampsAreNat DEF ConfigHolds, WatcherHolds, Watchers, FileHolds, ConfigFiles, Configs

LEMMA WatcherLoadsKeeps ==
  ASSUME ConfigHolds, WatcherLoads
  PROVE  ConfigHolds'
<1> DEFINE w == [WatcherOff EXCEPT
            !.at = "loaded", !.read = confFile.stamp,
            !.downstream = Loaded.filter, !.upstream = Loaded.filter,
            !.targets = Targets(Loaded.filter), !.chrome = Targets(Loaded.filter) # {},
            !.captures = Loaded.snapshot, !.active = Loaded.retention]
<1>1. (Targets(Loaded.filter) # {}) \in BOOLEAN /\ Targets(Loaded.filter) \in SUBSET {Browser}
  BY DEF Targets
<1>2. w \in Watchers
  BY <1>1, WatcherTypes, ConfigReloadAssumption, StampsAreNat DEF Watchers, WatcherOff, Loaded
<1>3. w.watched = 0 /\ w.stat = 0 /\ w.read = confFile.stamp /\ w.since = "start" /\ w.trouble = {} /\ w.pending = 0
  BY DEF WatcherOff
<1>4. WatcherGoes(w)
  BY DEF WatcherLoads
<1> HIDE DEF w
<1>5. WatcherHolds(w, confFile, writes)
  BY <1>2, <1>3, WatcherTypes DEF WatcherHolds, Reports, Follows
<1> QED BY <1>4, <1>5, OneWatch

LEMMA WatcherBeginsKeeps ==
  ASSUME ConfigHolds, WatcherBegins
  PROVE  ConfigHolds'
<1> DEFINE w == [watcher EXCEPT !.at = "polling", !.watched = confFile.stamp, !.stat = confFile.stamp]
<1>1. w \in Watchers
  BY WatcherTypes DEF Watchers
<1>2. /\ w.watched = confFile.stamp /\ w.stat = confFile.stamp /\ w.read = watcher.read
      /\ w.since = "start" /\ w.trouble = watcher.trouble /\ w.pending = watcher.pending
      /\ w.purged = watcher.purged
  BY WatcherTypes DEF Watchers, WatcherBegins
<1>3. WatcherGoes(w)
  BY DEF WatcherBegins
<1> HIDE DEF w
<1>4. WatcherHolds(w, confFile, writes)
  BY <1>1, <1>2, WatcherTypes DEF WatcherHolds, Reports, Follows
<1> QED BY <1>3, <1>4, OneWatch

\* A purge with the retention that waits: it is in force, or still waits and is reported.
LEMMA RetriedHolds ==
  ASSUME NEW u \in Watchers, NEW w \in Retried(u), Reports(u)
  PROVE  /\ w \in Watchers /\ Reports(w) /\ w.at = u.at /\ w.since = u.since
         /\ w.watched = u.watched /\ w.stat = u.stat /\ w.read = u.read
         /\ \A config : Applied(u, config) => Applied(w, config)
<1>1. CASE u.pending = 0 /\ w = u
  BY <1>1
<1>2. CASE /\ u.pending # 0
           /\ w = [u EXCEPT !.active = u.pending, !.pending = 0, !.trouble = @ \ {"retention"}, !.purged = TRUE]
  <2>1. w \in Watchers
    BY <1>2 DEF Watchers
  <2>2. /\ w.pending = 0 /\ w.active = u.pending /\ w.trouble = u.trouble \ {"retention"}
        /\ w.downstream = u.downstream /\ w.upstream = u.upstream /\ w.targets = u.targets /\ w.chrome = u.chrome
        /\ w.at = u.at /\ w.since = u.since /\ w.watched = u.watched /\ w.stat = u.stat /\ w.read = u.read
    BY <1>2 DEF Watchers
  <2> QED BY <1>2, <2>1, <2>2 DEF Reports, Applied
<1>3. CASE u.pending # 0 /\ w = [u EXCEPT !.trouble = @ \cup {"retention"}, !.purged = FALSE]
  <2>1. w \in Watchers
    BY <1>3 DEF Watchers
  <2>2. /\ w.pending = u.pending /\ w.active = u.active /\ w.trouble = u.trouble \cup {"retention"}
        /\ w.purged = FALSE
        /\ w.downstream = u.downstream /\ w.upstream = u.upstream /\ w.targets = u.targets /\ w.chrome = u.chrome
        /\ w.at = u.at /\ w.since = u.since /\ w.watched = u.watched /\ w.stat = u.stat /\ w.read = u.read
    BY <1>3 DEF Watchers
  <2> QED BY <1>3, <2>1, <2>2 DEF Reports, Applied
<1> QED BY <1>1, <1>2, <1>3 DEF Retried

LEMMA PollUnchangedKeeps ==
  ASSUME ConfigHolds, PollUnchanged
  PROVE  ConfigHolds'
<1> DEFINE u == [watcher EXCEPT !.stat = confFile.stamp]
<1>1. PICK w \in Retried(u) : WatcherGoes(w)
  BY DEF PollUnchanged
<1>2. u \in Watchers
  BY WatcherTypes DEF Watchers
<1>3. /\ u.at = "polling" /\ u.since = watcher.since /\ u.watched = watcher.watched
      /\ u.stat = confFile.stamp /\ u.read = watcher.read
      /\ \A config : Applied(watcher, config) => Applied(u, config)
  BY WatcherTypes DEF Watchers, PollUnchanged, Applied
<1>4. Reports(u)
  BY WatcherTypes DEF Watchers, Reports
<1> HIDE DEF u
<1>5. WatcherHolds(w, confFile, writes)
  BY <1>2, <1>3, <1>4, RetriedHolds, WatcherTypes DEF WatcherHolds, Follows
<1> QED BY <1>1, <1>5, OneWatch

LEMMA PollChangedKeeps ==
  ASSUME ConfigHolds, PollChanged
  PROVE  ConfigHolds'
<1> DEFINE w == [watcher EXCEPT !.at = "reading", !.stat = confFile.stamp]
<1>1. w \in Watchers
  BY WatcherTypes DEF Watchers
<1>2. /\ w.at = "reading" /\ w.since = watcher.since /\ w.watched = watcher.watched
      /\ w.stat = confFile.stamp /\ w.read = watcher.read
      /\ \A config : Applied(watcher, config) => Applied(w, config)
  BY WatcherTypes DEF Watchers, Applied
<1>3. Reports(w)
  BY WatcherTypes DEF Watchers, Reports
<1>4. WatcherGoes(w)
  BY DEF PollChanged
<1> HIDE DEF w
<1>5. WatcherHolds(w, confFile, writes)
  BY <1>1, <1>2, <1>3, WatcherTypes DEF WatcherHolds, Follows
<1> QED BY <1>4, <1>5, OneWatch

\* The filter of the recorder u, and the retention it is asked for.
LEMMA RequestedApplies ==
  ASSUME NEW u \in Watchers, NEW config \in Configs, NEW w \in Requested(u, config.retention), Reports(u),
         u.downstream = config.filter, u.upstream = config.filter, u.targets = Targets(config.filter),
         u.chrome = (u.targets # {})
  PROVE  /\ w \in Watchers /\ Reports(w) /\ w.at = u.at /\ w.since = u.since /\ w.stat = u.stat
         /\ Applied(w, config)
<1>1. CASE /\ config.retention = u.active
           /\ w = [u EXCEPT !.pending = 0, !.trouble = @ \ {"retention"}]
  <2>1. w \in Watchers
    BY <1>1 DEF Watchers
  <2>2. /\ w.pending = 0 /\ w.active = u.active /\ w.trouble = u.trouble \ {"retention"}
        /\ w.downstream = u.downstream /\ w.upstream = u.upstream /\ w.targets = u.targets /\ w.chrome = u.chrome
        /\ w.at = u.at /\ w.since = u.since /\ w.stat = u.stat
    BY <1>1 DEF Watchers
  <2> QED BY <1>1, <2>1, <2>2 DEF Reports, Applied
<1>2. CASE config.retention # u.active
  <2> DEFINE v == [u EXCEPT !.pending = config.retention]
             h == config.retention
  <2>1. h \in RetentionChoices /\ h # 0
    BY ConfigReloadAssumption DEF Configs
  <2> HIDE DEF h
  <2>2. v \in Watchers
    BY <2>1 DEF Watchers, h
  <2>3. /\ v.pending = h /\ v.active = u.active /\ v.trouble = u.trouble /\ v.purged = u.purged
        /\ v.downstream = u.downstream /\ v.upstream = u.upstream /\ v.targets = u.targets /\ v.chrome = u.chrome
        /\ v.at = u.at /\ v.since = u.since /\ v.stat = u.stat
    BY DEF Watchers, h
  <2>4. w \in Retried(v)
    BY <1>2 DEF Requested
  <2> HIDE DEF v
  <2>5. CASE w = [v EXCEPT !.active = v.pending, !.pending = 0, !.trouble = @ \ {"retention"}, !.purged = TRUE]
    <3>1. w \in Watchers
      BY <2>1, <2>2, <2>3, <2>5 DEF Watchers
    <3>2. /\ w.pending = 0 /\ w.active = h /\ w.trouble = v.trouble \ {"retention"}
          /\ w.downstream = v.downstream /\ w.upstream = v.upstream /\ w.targets = v.targets /\ w.chrome = v.chrome
          /\ w.at = v.at /\ w.since = v.since /\ w.stat = v.stat
      BY <2>2, <2>3, <2>5 DEF Watchers
    <3> QED BY <2>3, <3>1, <3>2 DEF Reports, Applied, h
  <2>6. CASE w = [v EXCEPT !.trouble = @ \cup {"retention"}, !.purged = FALSE]
    <3>1. w \in Watchers
      BY <2>2, <2>6 DEF Watchers
    <3>2. /\ w.pending = h /\ w.active = v.active /\ w.trouble = v.trouble \cup {"retention"} /\ w.purged = FALSE
          /\ w.downstream = v.downstream /\ w.upstream = v.upstream /\ w.targets = v.targets /\ w.chrome = v.chrome
          /\ w.at = v.at /\ w.since = v.since /\ w.stat = v.stat
      BY <2>2, <2>3, <2>6 DEF Watchers
    <3> QED BY <2>1, <2>3, <3>1, <3>2 DEF Reports, Applied, h
  <2> QED BY <2>1, <2>3, <2>4, <2>5, <2>6 DEF Retried
<1> QED BY <1>1, <1>2 DEF Requested

LEMMA ReloadedKeeps ==
  ASSUME ConfigHolds, Reloaded
  PROVE  ConfigHolds'
<1> DEFINE u == [WithFilter(watcher, Loaded.filter) EXCEPT !.trouble = @ \ {"config"}]
<1>1. PICK v \in Requested(u, Loaded.retention) :
        WatcherGoes([v EXCEPT !.at = "polling", !.since = "reload", !.watched = watcher.stat, !.read = confFile.stamp])
  BY DEF Reloaded
<1>2. Targets(Loaded.filter) \in SUBSET {Browser} /\ (Targets(Loaded.filter) # {}) \in BOOLEAN
  BY DEF Targets
<1>3. u \in Watchers
  BY <1>2, WatcherTypes DEF Watchers, WithFilter, Loaded
<1>4. /\ u.downstream = confFile.config.filter /\ u.upstream = confFile.config.filter
      /\ u.targets = Targets(confFile.config.filter) /\ u.chrome = (Targets(confFile.config.filter) # {})
      /\ u.trouble = watcher.trouble \ {"config"} /\ u.pending = watcher.pending /\ u.purged = watcher.purged
  BY WatcherTypes DEF Watchers, WithFilter, Loaded
<1> HIDE DEF u
<1>5. Reports(u)
  BY <1>4, WatcherTypes DEF Reports
<1>6. v \in Watchers /\ Reports(v) /\ Applied(v, confFile.config)
  BY <1>1, <1>3, <1>4, <1>5, RequestedApplies, WatcherTypes DEF Loaded
<1> DEFINE w == [v EXCEPT !.at = "polling", !.since = "reload", !.watched = watcher.stat, !.read = confFile.stamp]
<1>7. w \in Watchers
  BY <1>6, WatcherTypes DEF Watchers
<1>8. /\ w.at = "polling" /\ w.watched = watcher.stat /\ w.stat = v.stat /\ w.read = confFile.stamp
      /\ Applied(w, confFile.config) /\ Reports(w)
  BY <1>6 DEF Watchers, Applied, Reports
<1>9. v.stat = watcher.stat
  <2>1. u.stat = watcher.stat
    BY WatcherTypes DEF Watchers, WithFilter, u
  <2> QED BY <1>1, <1>3, <1>4, <1>5, <2>1, RequestedApplies, WatcherTypes DEF Loaded
<1>10. WatcherGoes(w)
  BY <1>1
<1> HIDE DEF w
<1>11. confFile.kind # "bad" /\ (confFile.stamp = 0 => confFile.config = DefaultConfig)
  BY WatcherTypes DEF Reloaded, Loads, FileHolds
<1>12. WatcherHolds(w, confFile, writes)
  BY <1>7, <1>8, <1>9, <1>11, WatcherTypes DEF WatcherHolds, Follows
<1> QED BY <1>10, <1>12, OneWatch

LEMMA ReloadFailsKeeps ==
  ASSUME ConfigHolds, ReloadFails
  PROVE  ConfigHolds'
<1> DEFINE w == [watcher EXCEPT !.at = "polling", !.trouble = @ \cup {"config"}]
<1>1. w \in Watchers
  BY WatcherTypes DEF Watchers
<1>2. /\ w.at = "polling" /\ w.since = watcher.since /\ w.watched = watcher.watched
      /\ w.stat = watcher.stat /\ w.read = watcher.read
      /\ \A config : Applied(watcher, config) => Applied(w, config)
  BY WatcherTypes DEF Watchers, Applied
<1>3. Reports(w)
  BY WatcherTypes DEF Watchers, Reports
<1>4. WatcherGoes(w)
  BY DEF ReloadFails
<1> HIDE DEF w
<1>5. WatcherHolds(w, confFile, writes)
  BY <1>1, <1>2, <1>3, WatcherTypes DEF WatcherHolds, Follows
<1> QED BY <1>4, <1>5, OneWatch

LEMMA PeriodicPurgeKeeps ==
  ASSUME ConfigHolds, PeriodicPurge
  PROVE  ConfigHolds'
<1>1. PICK w : /\ WatcherGoes(w)
               /\ \/ w = AfterPurge(watcher)
                  \/ w = [watcher EXCEPT !.trouble = @ \cup {"retention"}, !.purged = FALSE]
  BY DEF PeriodicPurge
<1> DEFINE tr == IF watcher.pending = 0 THEN watcher.trouble \ {"retention"} ELSE watcher.trouble
<1>6. tr \in SUBSET {"config", "retention"}
  BY WatcherTypes DEF Watchers
<1>7. AfterPurge(watcher) = [watcher EXCEPT !.trouble = tr, !.purged = TRUE]
  BY DEF AfterPurge
<1>8. Reports(AfterPurge(watcher))
  <2>1. AfterPurge(watcher).pending = watcher.pending /\ AfterPurge(watcher).trouble = tr
    BY <1>7, WatcherTypes DEF Watchers
  <2> QED BY <2>1, WatcherTypes DEF Reports
<1> HIDE DEF tr
<1>2. w \in Watchers
  <2>1. CASE w = AfterPurge(watcher)
    BY <2>1, <1>6, <1>7, WatcherTypes DEF Watchers
  <2>2. CASE w = [watcher EXCEPT !.trouble = @ \cup {"retention"}, !.purged = FALSE]
    BY <2>2, WatcherTypes DEF Watchers
  <2> QED BY <1>1, <2>1, <2>2
<1>3. /\ w.at = watcher.at /\ w.since = watcher.since /\ w.watched = watcher.watched
      /\ w.stat = watcher.stat /\ w.read = watcher.read
      /\ \A config : Applied(watcher, config) => Applied(w, config)
  BY <1>1, WatcherTypes DEF Watchers, Applied, AfterPurge
<1>4. Reports(w)
  <2>1. CASE w = [watcher EXCEPT !.trouble = @ \cup {"retention"}, !.purged = FALSE]
    BY <2>1, WatcherTypes DEF Watchers, Reports
  <2> QED BY <1>1, <1>8, <2>1
<1>5. WatcherHolds(w, confFile, writes)
  BY <1>2, <1>3, <1>4, WatcherTypes DEF WatcherHolds, Follows
<1> QED BY <1>1, <1>5, OneWatch

LEMMA WatcherStopsKeeps ==
  ASSUME ConfigHolds, WatcherStops
  PROVE  ConfigHolds'
<1>1. WatcherHolds(WatcherOff, confFile, writes)
  BY OffHolds DEF ConfigHolds, FileHolds
<1> QED BY <1>1, OneWatch DEF WatcherStops

-----------------------------------------------------------------------------

LEMMA CommandStepKeeps ==
  ASSUME ConfigHolds, CommandStep
  PROVE  ConfigHolds'
<1>1. PICK c \in Editors :
        \/ \E entry \in Listed : FilterEdit(c, entry)
        \/ \E h \in RetentionChoices : RetentionEdit(c, h)
        \/ \E on, quiet \in BOOLEAN : SnapshotEdit(c, on, quiet)
        \/ PromptAnswered(c) \/ SwitchReread(c) \/ Replaced(c) \/ ReplaceFails(c)
        \/ InitCreates(c) \/ TemplateWritten(c) \/ TemplateFails(c)
        \/ EditBegins(c) \/ EditorTruncates(c) \/ EditorSaves(c)
  BY DEF CommandStep
<1> QED BY <1>1, FilterEditKeeps, RetentionEditKeeps, SnapshotEditKeeps, PromptAnsweredKeeps,
     SwitchRereadKeeps, ReplacedKeeps, ReplaceFailsKeeps, InitCreatesKeeps, TemplateWrittenKeeps,
     TemplateFailsKeeps, EditBeginsKeeps, EditorTruncatesKeeps, EditorSavesKeeps

LEMMA ConfigStep == ConfigHolds /\ [ConfigNext]_configVars => ConfigHolds'
<1> SUFFICES ASSUME ConfigHolds, [ConfigNext]_configVars PROVE ConfigHolds'
  OBVIOUS
<1>1. CASE UNCHANGED configVars
  BY <1>1 DEF configVars, ConfigHolds
<1> QED BY <1>1, CommandStepKeeps, FileDeletedKeeps, WatcherLoadsKeeps, WatcherBeginsKeeps,
     PollUnchangedKeeps, PollChangedKeeps, ReloadedKeeps, ReloadFailsKeeps, PeriodicPurgeKeeps,
     WatcherStopsKeeps DEF ConfigNext

\* What the invariant says of the properties of ConfigReload.
LEMMA ConfigIsFollowed == ConfigHolds => ConfigTypeOK /\ FollowsFile /\ RetentionReported
<1> SUFFICES ASSUME ConfigHolds PROVE ConfigTypeOK /\ FollowsFile /\ RetentionReported
  OBVIOUS
<1>1. ConfigTypeOK
  BY DEF ConfigHolds, ConfigTypeOK, FileHolds, ConfigFiles, EditsUnderWay, EditPlaces, WatcherHolds, Watchers
<1>2. FollowsFile
  BY WatcherTypes DEF FollowsFile, Follows, Applied, Loads, Loaded
<1>3. RetentionReported
  BY WatcherTypes DEF RetentionReported, Reports
<1> QED BY <1>1, <1>2, <1>3

\* Only a replacement writes the file in the name of a process about to save.
LEMMA OnlyReplacedWrites ==
  ASSUME ConfigHolds, ConfigNext, NEW c \in Editors, editors[c].at = "save", editors'[c] # editors[c],
         writes' # writes
  PROVE  Replaced(c)
<1>1. PICK d \in Editors : Replaced(d) \/ InitCreates(d) \/ TemplateWritten(d) \/ EditorTruncates(d)
                           \/ EditorSaves(d)
  <2>1. CASE CommandStep
    BY <2>1 DEF CommandStep, FilterEdit, RetentionEdit, WholeFileEdit, SnapshotEdit, PromptAnswered,
         SwitchReread, ReplaceFails, TemplateFails, EditBegins
  <2> QED BY <2>1 DEF ConfigNext, FileDeleted, WatcherLoads, WatcherBegins, PollUnchanged, PollChanged,
        Reloaded, ReloadFails, PeriodicPurge, WatcherStops, WatcherGoes
<1>2. PICK e : EditorGoes(d, e)
  BY <1>1 DEF Replaced, InitCreates, TemplateWritten, EditorTruncates, EditorSaves, EditorStops
<1>3. d = c
  BY <1>2 DEF EditorGoes, ConfigHolds
<1> QED BY <1>1, <1>3 DEF InitCreates, TemplateWritten, EditorTruncates, EditorSaves

LEMMA SavesKeep == ConfigHolds /\ ConfigNext => SaveKeepsTheRest
<1> SUFFICES ASSUME ConfigHolds, ConfigNext, NEW c \in Editors, editors[c].at = "save",
                    editors'[c] # editors[c], writes' # writes, editors[c].seen = confFile.stamp
             PROVE  \A f \in Fields \ {editors[c].field} : confFile'.config[f] = Loaded[f]
  BY DEF SaveKeepsTheRest
<1>1. Replaced(c)
  BY OnlyReplacedWrites
<1>2. confFile'.config = editors[c].doc
  BY <1>1, WriteHolds, EditTypes DEF Replaced
<1>3. OnlyItsField(editors[c], confFile.config)
  BY EditTypes DEF EditHolds
<1> QED BY <1>2, <1>3 DEF OnlyItsField, Loaded

-----------------------------------------------------------------------------
(* The file of a coding agent (SetupPlan).                                 *)

PlanPlaces == {"idle", "create", "write", "mode", "rename", "clean"}
Contents == [form : Forms, entries : SUBSET (Servers \cup {Zanei}), mode : {"private", "open"}]
Plans == [at : PlanPlaces, file : AgentFiles, change : {"unchanged", "create", "update"},
          entries : SUBSET (Servers \cup {Zanei})]
SetupTypes ==
  /\ agentFile \in [AgentFiles -> Contents]
  /\ temporary \in [Setups -> [AgentFiles -> Contents]]
  /\ installer \in [Setups -> Plans]
  /\ theirs \in [AgentFiles -> [entries : SUBSET Servers, mode : {"private", "open"}]]
  /\ overtaken \subseteq AgentFiles
  /\ setupWork \in [edits : Nat, runs : Nat]

\* The plan o of a process whose temporary file is x, for a file with what others wrote
\* (t) and which nobody overtook (calm): what is to be renamed is whole, the plan keeps
\* the others' entries, and the temporary file has the mode they gave.
PlanKeeps(o, x, t, calm) ==
  /\ o.at \in {"mode", "rename"} => x.form = "whole" /\ x.entries = o.entries
  /\ o.at # "idle" /\ o.file = "config" /\ calm => t.entries \subseteq o.entries
  /\ o.at = "rename" /\ o.file = "config" /\ calm => x.mode = t.mode

\* What the file a holds.
FileKeeps(a, t, calm) ==
  /\ a.form # "part"
  /\ a.form = "none" => a.mode = "private"
  /\ calm => t.entries \subseteq a.entries /\ a.mode = t.mode

\* The inductive invariant of the setups.
SetupHolds ==
  /\ SetupTypes
  /\ agentFile["skill"].form # "part"
  /\ FileKeeps(agentFile["config"], theirs["config"], "config" \notin overtaken)
  /\ \A p \in Setups : PlanKeeps(installer[p], temporary[p][installer[p].file], theirs["config"],
                                 "config" \notin overtaken)

LEMMA SetupInitially == SetupInit => SetupHolds
<1> SUFFICES ASSUME SetupInit PROVE SetupHolds
  OBVIOUS
<1>1. SetupTypes
  BY DEF SetupInit, SetupTypes, AgentFiles, Contents, Plans, PlanPlaces, Forms, NoAgentFile, NoPlan
<1>2. \A p \in Setups : installer[p].at = "idle"
  BY DEF SetupInit, NoPlan
<1>3. agentFile["skill"] = NoAgentFile /\ agentFile["config"] = NoAgentFile
      /\ theirs["config"] = [entries |-> {}, mode |-> "private"]
  BY DEF SetupInit, AgentFiles
<1> QED BY <1>1, <1>2, <1>3 DEF SetupHolds, FileKeeps, PlanKeeps, NoAgentFile

\* What the process p knows when it is the one that moves, with o for its plan and x for
\* its temporary file of the plan's file.
LEMMA OneSetup ==
  ASSUME SetupHolds, NEW p \in Setups, NEW o \in Plans, NEW x \in Contents, o.file = installer[p].file,
         installer' = [installer EXCEPT ![p] = o],
         temporary' = [temporary EXCEPT ![p][o.file] = x],
         PlanKeeps(o, x, theirs["config"], "config" \notin overtaken),
         UNCHANGED <<agentFile, theirs, overtaken>>, setupWork' \in [edits : Nat, runs : Nat]
  PROVE  SetupHolds'
<1>1. o.file \in AgentFiles
  BY DEF Plans
<1>2. SetupTypes'
  BY <1>1 DEF SetupHolds, SetupTypes
<1>3. ASSUME NEW q \in Setups
      PROVE  PlanKeeps(installer[q], temporary[q][installer[q].file], theirs["config"],
                       "config" \notin overtaken)'
  <2>1. CASE q = p
    <3>1. installer'[q] = o /\ temporary'[q][o.file] = x
      BY <2>1, <1>1 DEF SetupHolds, SetupTypes
    <3> QED BY <3>1
  <2>2. CASE q # p
    <3>1. installer'[q] = installer[q] /\ temporary'[q] = temporary[q]
      BY <2>2 DEF SetupHolds, SetupTypes
    <3> QED BY <3>1 DEF SetupHolds
  <2> QED BY <2>1, <2>2
<1> QED BY <1>2, <1>3 DEF SetupHolds

\* The same when no temporary file changes.
LEMMA OnePlan ==
  ASSUME SetupHolds, NEW p \in Setups, NEW o \in Plans, UNCHANGED temporary,
         installer' = [installer EXCEPT ![p] = o],
         PlanKeeps(o, temporary[p][o.file], theirs["config"], "config" \notin overtaken),
         UNCHANGED <<agentFile, theirs, overtaken>>, setupWork' \in [edits : Nat, runs : Nat]
  PROVE  SetupHolds'
<1>1. SetupTypes'
  BY DEF SetupHolds, SetupTypes
<1>2. ASSUME NEW q \in Setups
      PROVE  PlanKeeps(installer[q], temporary[q][installer[q].file], theirs["config"],
                       "config" \notin overtaken)'
  <2>1. CASE q = p
    BY <2>1 DEF SetupHolds, SetupTypes
  <2>2. CASE q # p
    <3>1. installer'[q] = installer[q]
      BY <2>2 DEF SetupHolds, SetupTypes
    <3> QED BY <3>1 DEF SetupHolds
  <2> QED BY <2>1, <2>2
<1> QED BY <1>1, <1>2 DEF SetupHolds

\* The plan of p at another place.
LEMMA PlanTypes ==
  ASSUME SetupHolds, NEW p \in Setups
  PROVE  /\ installer[p] \in Plans /\ installer[p].file \in AgentFiles
         /\ installer[p].entries \in SUBSET (Servers \cup {Zanei})
         /\ temporary[p] \in [AgentFiles -> Contents]
         /\ temporary[p][installer[p].file] \in Contents
         /\ setupWork \in [edits : Nat, runs : Nat]
         /\ PlanKeeps(installer[p], temporary[p][installer[p].file], theirs["config"],
                      "config" \notin overtaken)
BY DEF SetupHolds, SetupTypes, Plans

At(o, spot) == [at |-> spot, file |-> o.file, change |-> o.change, entries |-> o.entries]

LEMMA AtPlace ==
  ASSUME NEW o \in Plans, NEW spot \in PlanPlaces
  PROVE  [o EXCEPT !.at = spot] = At(o, spot) /\ At(o, spot) \in Plans
BY DEF Plans, At

LEMMA MovesToPlace ==
  ASSUME SetupHolds, NEW p \in Setups, NEW spot \in PlanPlaces, MovesTo(p, spot)
  PROVE  installer' = [installer EXCEPT ![p] = At(installer[p], spot)]
<1>1. installer' = [installer EXCEPT ![p] = [installer[p] EXCEPT !.at = spot]]
  BY DEF MovesTo
<1> QED BY <1>1, AtPlace, PlanTypes

LEMMA BuildKeeps ==
  ASSUME SetupHolds, NEW p \in Setups, NEW f \in AgentFiles, NEW printOnly \in BOOLEAN, Build(p, f, printOnly)
  PROVE  SetupHolds'
<1>1. setupWork' \in [edits : Nat, runs : Nat]
  BY PlanTypes DEF Build
<1>2. CASE UNCHANGED installer
  BY <1>1, <1>2, Zenon DEF Build, SetupHolds, SetupTypes
<1>3. ASSUME installer' = [installer EXCEPT ![p] =
                [at |-> "create", file |-> f, change |-> Change(f), entries |-> Desired(f)]]
      PROVE  SetupHolds'
  <2> DEFINE o == [at |-> "create", file |-> f, change |-> Change(f), entries |-> Desired(f)]
  <2>1. Desired(f) \in SUBSET (Servers \cup {Zanei})
    BY DEF Desired, Merged, SetupHolds, SetupTypes, Contents
  <2>2. Change(f) \in {"unchanged", "create", "update"}
    BY DEF Change
  <2>3. o \in Plans
    BY <2>1, <2>2 DEF Plans, PlanPlaces
  <2>4. f = "config" /\ "config" \notin overtaken => theirs["config"].entries \subseteq Desired(f)
    BY DEF Desired, Merged, SetupHolds, FileKeeps
  <2>5. PlanKeeps(o, temporary[p][o.file], theirs["config"], "config" \notin overtaken)
    BY <2>4 DEF PlanKeeps
  <2> HIDE DEF o
  <2>6. installer' = [installer EXCEPT ![p] = o] /\ UNCHANGED <<temporary, agentFile, theirs, overtaken>>
    BY <1>3 DEF o, Build
  <2> QED BY <2>3, <2>5, <2>6, <1>1, OnePlan
<1> QED BY <1>2, <1>3 DEF Build

LEMMA CreateTemporaryKeeps ==
  ASSUME SetupHolds, NEW p \in Setups, CreateTemporary(p)
  PROVE  SetupHolds'
<1> DEFINE o == installer[p]
<1>1. /\ o \in Plans /\ o.at = "create" /\ setupWork' \in [edits : Nat, runs : Nat]
      /\ PlanKeeps(o, temporary[p][o.file], theirs["config"], "config" \notin overtaken)
      /\ UNCHANGED <<agentFile, theirs, overtaken>>
  BY PlanTypes DEF CreateTemporary, Kept
<1>2. CASE temporary[p][o.file].form = "none"
  <2> DEFINE x == [temporary[p][o.file] EXCEPT !.form = "part"]
  <2>1. x \in Contents
    BY PlanTypes DEF Contents, Forms
  <2>2. temporary' = [temporary EXCEPT ![p][o.file] = x] /\ MovesTo(p, "write")
    BY <1>2 DEF CreateTemporary
  <2>3. installer' = [installer EXCEPT ![p] = At(o, "write")] /\ At(o, "write") \in Plans
    BY <2>2, <1>1, MovesToPlace, AtPlace DEF PlanPlaces
  <2>4. PlanKeeps(At(o, "write"), x, theirs["config"], "config" \notin overtaken)
    BY <1>1 DEF PlanKeeps, At
  <2>5. At(o, "write").file = o.file
    BY DEF At
  <2> HIDE DEF x
  <2> QED BY <1>1, <2>1, <2>2, <2>3, <2>4, <2>5, OneSetup
<1>3. CASE temporary[p][o.file].form # "none"
  <2>1. UNCHANGED temporary /\ MovesTo(p, "clean")
    BY <1>3 DEF CreateTemporary
  <2>2. installer' = [installer EXCEPT ![p] = At(o, "clean")] /\ At(o, "clean") \in Plans
    BY <2>1, <1>1, MovesToPlace, AtPlace DEF PlanPlaces
  <2>3. PlanKeeps(At(o, "clean"), temporary[p][At(o, "clean").file], theirs["config"],
                  "config" \notin overtaken)
    BY <1>1 DEF PlanKeeps, At
  <2> QED BY <1>1, <2>1, <2>2, <2>3, OnePlan
<1> QED BY <1>2, <1>3

\* A step that fails leaves the temporary file to CleanUp.
LEMMA FailureKeeps ==
  ASSUME SetupHolds, NEW p \in Setups, installer[p].at # "idle", UNCHANGED temporary, MovesTo(p, "clean"),
         UNCHANGED <<agentFile, theirs, overtaken, setupWork>>
  PROVE  SetupHolds'
<1> DEFINE o == installer[p]
<1>1. o \in Plans /\ setupWork' \in [edits : Nat, runs : Nat]
      /\ PlanKeeps(o, temporary[p][o.file], theirs["config"], "config" \notin overtaken)
  BY PlanTypes
<1>2. installer' = [installer EXCEPT ![p] = At(o, "clean")] /\ At(o, "clean") \in Plans
  BY <1>1, MovesToPlace, AtPlace DEF PlanPlaces
<1>3. PlanKeeps(At(o, "clean"), temporary[p][At(o, "clean").file], theirs["config"],
                "config" \notin overtaken)
  BY <1>1 DEF PlanKeeps, At
<1> QED BY <1>1, <1>2, <1>3, OnePlan

LEMMA WriteTemporaryKeeps ==
  ASSUME SetupHolds, NEW p \in Setups, WriteTemporary(p)
  PROVE  SetupHolds'
<1> DEFINE o == installer[p]
           x == [form |-> "whole", entries |-> o.entries, mode |-> "private"]
<1>1. /\ o \in Plans /\ o.at = "write" /\ setupWork' \in [edits : Nat, runs : Nat]
      /\ o.entries \in SUBSET (Servers \cup {Zanei})
      /\ PlanKeeps(o, temporary[p][o.file], theirs["config"], "config" \notin overtaken)
      /\ UNCHANGED <<agentFile, theirs, overtaken, setupWork>>
  BY PlanTypes DEF WriteTemporary, Kept
<1>2. ASSUME temporary' = [temporary EXCEPT ![p][o.file] = x], MovesTo(p, "mode")
      PROVE  SetupHolds'
  <2>1. x \in Contents
    BY <1>1 DEF Contents, Forms
  <2>2. installer' = [installer EXCEPT ![p] = At(o, "mode")] /\ At(o, "mode") \in Plans
    BY <1>2, <1>1, MovesToPlace, AtPlace DEF PlanPlaces
  <2>3. PlanKeeps(At(o, "mode"), x, theirs["config"], "config" \notin overtaken)
    BY <1>1 DEF PlanKeeps, At
  <2>4. At(o, "mode").file = o.file
    BY DEF At
  <2> HIDE DEF x
  <2> QED BY <1>1, <1>2, <2>1, <2>2, <2>3, <2>4, OneSetup
<1>3. ASSUME UNCHANGED temporary, MovesTo(p, "clean")
      PROVE  SetupHolds'
  BY <1>1, <1>3, FailureKeeps
<1> QED BY <1>2, <1>3 DEF WriteTemporary

LEMMA PreserveModeKeeps ==
  ASSUME SetupHolds, NEW p \in Setups, PreserveMode(p)
  PROVE  SetupHolds'
<1> DEFINE o == installer[p]
           x == [temporary[p][o.file] EXCEPT !.mode = ModeOf(p)]
<1>1. /\ o \in Plans /\ o.at = "mode" /\ setupWork' \in [edits : Nat, runs : Nat]
      /\ o.file \in AgentFiles /\ temporary[p][o.file] \in Contents
      /\ PlanKeeps(o, temporary[p][o.file], theirs["config"], "config" \notin overtaken)
      /\ UNCHANGED <<agentFile, theirs, overtaken, setupWork>>
  BY PlanTypes DEF PreserveMode, Kept
<1>2. ASSUME temporary' = [temporary EXCEPT ![p][o.file] = x], MovesTo(p, "rename")
      PROVE  SetupHolds'
  <2>1. ModeOf(p) \in {"private", "open"}
    BY <1>1 DEF ModeOf, SetupHolds, SetupTypes, Contents
  <2>2. x \in Contents
    BY <1>1, <2>1 DEF Contents
  <2>3. installer' = [installer EXCEPT ![p] = At(o, "rename")] /\ At(o, "rename") \in Plans
    BY <1>2, <1>1, MovesToPlace, AtPlace DEF PlanPlaces
  <2>4. o.file = "config" /\ "config" \notin overtaken => ModeOf(p) = theirs["config"].mode
    BY DEF ModeOf, SetupHolds, FileKeeps
  <2>5. x.form = temporary[p][o.file].form /\ x.entries = temporary[p][o.file].entries
        /\ x.mode = ModeOf(p)
    BY <1>1 DEF Contents
  <2> HIDE DEF x
  <2>6. PlanKeeps(At(o, "rename"), x, theirs["config"], "config" \notin overtaken)
    BY <1>1, <2>4, <2>5 DEF PlanKeeps, At
  <2>7. At(o, "rename").file = o.file
    BY DEF At
  <2> QED BY <1>1, <1>2, <2>2, <2>3, <2>6, <2>7, OneSetup DEF x
<1>3. ASSUME UNCHANGED temporary, MovesTo(p, "clean")
      PROVE  SetupHolds'
  BY <1>1, <1>3, FailureKeeps
<1> QED BY <1>2, <1>3 DEF PreserveMode

LEMMA TemporaryTypes ==
  ASSUME SetupHolds, NEW p \in Setups, NEW f \in AgentFiles, NEW x \in Contents
  PROVE  [temporary EXCEPT ![p][f] = x] \in [Setups -> [AgentFiles -> Contents]]
<1>1. temporary \in [Setups -> [AgentFiles -> Contents]]
  BY DEF SetupHolds, SetupTypes
<1> QED BY <1>1

\* The temporary file takes the file's place.
LEMMA ReplacementKeeps ==
  ASSUME SetupHolds, NEW p \in Setups, installer[p].at = "rename",
         agentFile' = [agentFile EXCEPT ![installer[p].file] = temporary[p][installer[p].file]],
         temporary' = [temporary EXCEPT ![p][installer[p].file] = NoAgentFile],
         installer' = [installer EXCEPT ![p] = NoPlan],
         UNCHANGED <<theirs, overtaken, setupWork>>
  PROVE  SetupHolds'
<1> DEFINE o == installer[p]
           f == installer[p].file
           x == temporary[p][f]
<1>1. /\ o \in Plans /\ f \in AgentFiles /\ x \in Contents
      /\ PlanKeeps(o, x, theirs["config"], "config" \notin overtaken)
  BY PlanTypes
<1>2. /\ o.at = "rename" /\ UNCHANGED <<theirs, overtaken, setupWork>>
      /\ agentFile' = [agentFile EXCEPT ![f] = x]
      /\ temporary' = [temporary EXCEPT ![p][f] = NoAgentFile]
      /\ installer' = [installer EXCEPT ![p] = NoPlan]
  OBVIOUS
<1>3. SetupTypes'
  <2>1. NoAgentFile \in Contents /\ NoPlan \in Plans
    BY DEF NoAgentFile, NoPlan, Contents, Forms, Plans, PlanPlaces, AgentFiles
  <2>2. agentFile' \in [AgentFiles -> Contents]
    BY <1>1, <1>2 DEF SetupHolds, SetupTypes
  <2>3. temporary' \in [Setups -> [AgentFiles -> Contents]]
    BY <1>1, <1>2, <2>1, TemporaryTypes
  <2> QED BY <1>2, <2>1, <2>2, <2>3 DEF SetupHolds, SetupTypes
<1>4. x.form = "whole" /\ x.entries = o.entries
  BY <1>1, <1>2 DEF PlanKeeps
<1>5. agentFile'["skill"].form # "part"
  BY <1>2, <1>4 DEF SetupHolds, SetupTypes, AgentFiles
<1>6. FileKeeps(agentFile["config"], theirs["config"], "config" \notin overtaken)'
  <2>1. CASE f = "config"
    <3>1. agentFile'["config"] = x
      BY <2>1, <1>2 DEF SetupHolds, SetupTypes, AgentFiles
    <3>2. "config" \notin overtaken => theirs["config"].entries \subseteq x.entries
                                       /\ x.mode = theirs["config"].mode
      BY <1>1, <1>2, <1>4, <2>1 DEF PlanKeeps
    <3> QED BY <3>1, <3>2, <1>4, <1>2 DEF FileKeeps
  <2>2. CASE f # "config"
    <3>1. agentFile'["config"] = agentFile["config"]
      BY <2>2, <1>2 DEF SetupHolds, SetupTypes, AgentFiles
    <3> QED BY <3>1, <1>2 DEF SetupHolds
  <2> QED BY <2>1, <2>2
<1>7. ASSUME NEW q \in Setups
      PROVE  PlanKeeps(installer[q], temporary[q][installer[q].file], theirs["config"],
                       "config" \notin overtaken)'
  <2>1. CASE q = p
    <3>1. installer'[q].at = "idle"
      BY <2>1, <1>2 DEF SetupHolds, SetupTypes, NoPlan
    <3> QED BY <3>1 DEF PlanKeeps
  <2>2. CASE q # p
    <3>1. installer'[q] = installer[q] /\ temporary'[q] = temporary[q]
      BY <2>2, <1>2 DEF SetupHolds, SetupTypes
    <3> QED BY <3>1, <1>2 DEF SetupHolds
  <2> QED BY <2>1, <2>2
<1> QED BY <1>3, <1>5, <1>6, <1>7 DEF SetupHolds

LEMMA RenameKeeps ==
  ASSUME SetupHolds, NEW p \in Setups, RenameIntoPlace(p)
  PROVE  SetupHolds'
<1>1. installer[p].at = "rename" /\ UNCHANGED <<theirs, overtaken, setupWork>>
  BY DEF RenameIntoPlace, Kept
<1>2. CASE UNCHANGED <<agentFile, temporary>> /\ MovesTo(p, "clean")
  BY <1>1, <1>2, FailureKeeps
<1> QED BY <1>1, <1>2, ReplacementKeeps DEF RenameIntoPlace

LEMMA CleanUpKeeps ==
  ASSUME SetupHolds, NEW p \in Setups, CleanUp(p) \/ Killed(p)
  PROVE  SetupHolds'
<1>1. /\ UNCHANGED <<agentFile, theirs, overtaken, setupWork>>
      /\ installer' = [installer EXCEPT ![p] = NoPlan]
      /\ UNCHANGED temporary \/ temporary' = [temporary EXCEPT ![p][installer[p].file] = NoAgentFile]
  BY DEF CleanUp, Killed, Kept
<1>2. NoAgentFile \in Contents /\ NoPlan \in Plans
  BY DEF NoAgentFile, NoPlan, Contents, Forms, Plans, PlanPlaces, AgentFiles
<1>3. SetupTypes'
  <2>1. installer[p].file \in AgentFiles
    BY PlanTypes
  <2>2. temporary' \in [Setups -> [AgentFiles -> Contents]]
    <3>1. temporary \in [Setups -> [AgentFiles -> Contents]]
      BY DEF SetupHolds, SetupTypes
    <3> QED BY <1>1, <1>2, <2>1, <3>1, TemporaryTypes
  <2> QED BY <1>1, <1>2, <2>2 DEF SetupHolds, SetupTypes
<1>4. ASSUME NEW q \in Setups
      PROVE  PlanKeeps(installer[q], temporary[q][installer[q].file], theirs["config"],
                       "config" \notin overtaken)'
  <2>1. CASE q = p
    <3>1. installer'[q].at = "idle"
      BY <2>1, <1>1 DEF SetupHolds, SetupTypes, NoPlan
    <3> QED BY <3>1 DEF PlanKeeps
  <2>2. CASE q # p
    <3>1. installer'[q] = installer[q] /\ temporary'[q] = temporary[q]
      BY <2>2, <1>1 DEF SetupHolds, SetupTypes
    <3> QED BY <3>1, <1>1 DEF SetupHolds
  <2> QED BY <2>1, <2>2
<1> QED BY <1>1, <1>3, <1>4 DEF SetupHolds

LEMMA OthersWriteKeeps ==
  ASSUME SetupHolds, NEW f \in AgentFiles, NEW form \in {"whole", "broken"},
         NEW entries \in SUBSET Servers, NEW mode \in {"private", "open"},
         OthersWrite(f, form, entries, mode)
  PROVE  SetupHolds'
<1> DEFINE a == [form |-> form, entries |-> entries, mode |-> mode]
           t == [entries |-> entries, mode |-> mode]
<1>1. /\ agentFile' = [agentFile EXCEPT ![f] = a] /\ theirs' = [theirs EXCEPT ![f] = t]
      /\ UNCHANGED <<temporary, installer>>
      /\ overtaken' = IF Planned(f) THEN overtaken \cup {f} ELSE overtaken \ {f}
  BY DEF OthersWrite
<1>2. a \in Contents /\ t \in [entries : SUBSET Servers, mode : {"private", "open"}]
  BY DEF Contents, Forms
<1>3. setupWork' \in [edits : Nat, runs : Nat]
  BY DEF OthersWrite, SetupHolds, SetupTypes
<1>4. SetupTypes'
  BY <1>1, <1>2, <1>3 DEF SetupHolds, SetupTypes
<1>5. agentFile'["skill"].form # "part"
  BY <1>1 DEF SetupHolds, SetupTypes, AgentFiles
<1>6. CASE f = "config"
  <2>1. agentFile'["config"] = a /\ theirs'["config"] = t
    BY <1>1, <1>6 DEF SetupHolds, SetupTypes
  <2>2. FileKeeps(agentFile["config"], theirs["config"], "config" \notin overtaken)'
    BY <2>1 DEF FileKeeps
  <2>3. ASSUME NEW q \in Setups
        PROVE  PlanKeeps(installer[q], temporary[q][installer[q].file], theirs["config"],
                         "config" \notin overtaken)'
    <3>1. installer[q].at # "idle" /\ installer[q].file = "config" => "config" \in overtaken'
      BY <1>1, <1>6 DEF Planned
    <3> QED BY <1>1, <3>1, PlanTypes DEF PlanKeeps
  <2> QED BY <1>4, <1>5, <2>2, <2>3 DEF SetupHolds
<1>7. CASE f # "config"
  <2>1. agentFile'["config"] = agentFile["config"] /\ theirs'["config"] = theirs["config"]
        /\ ("config" \notin overtaken') = ("config" \notin overtaken)
    BY <1>1, <1>7 DEF SetupHolds, SetupTypes, AgentFiles
  <2> QED BY <1>1, <1>4, <1>5, <2>1 DEF SetupHolds
<1> QED BY <1>6, <1>7

LEMMA SetupStep == SetupHolds /\ [SetupNext]_setupVars => SetupHolds'
<1> SUFFICES ASSUME SetupHolds, [SetupNext]_setupVars PROVE SetupHolds'
  OBVIOUS
<1>1. ASSUME NEW p \in Setups, NEW f \in AgentFiles, NEW printOnly \in BOOLEAN, Build(p, f, printOnly)
      PROVE  SetupHolds'
  BY <1>1, BuildKeeps
<1>2. ASSUME NEW p \in Setups,
             \/ CreateTemporary(p) \/ WriteTemporary(p) \/ PreserveMode(p) \/ RenameIntoPlace(p)
             \/ CleanUp(p) \/ Killed(p)
      PROVE  SetupHolds'
  BY <1>2, CreateTemporaryKeeps, WriteTemporaryKeeps, PreserveModeKeeps, RenameKeeps, CleanUpKeeps
<1>3. ASSUME NEW f \in AgentFiles, NEW form \in {"whole", "broken"}, NEW entries \in SUBSET Servers,
             NEW mode \in {"private", "open"}, OthersWrite(f, form, entries, mode)
      PROVE  SetupHolds'
  BY <1>3, OthersWriteKeeps
<1>4. CASE UNCHANGED setupVars
  BY <1>4 DEF setupVars, SetupHolds, SetupTypes
<1> QED BY <1>1, <1>2, <1>3, <1>4 DEF SetupNext

\* What the invariant says of the properties of SetupPlan.
LEMMA SetupIsKept == SetupHolds => SetupTypeOK /\ SetupKeepsTheirs
<1> SUFFICES ASSUME SetupHolds PROVE SetupTypeOK /\ SetupKeepsTheirs
  OBVIOUS
<1>1. SetupTypeOK
  <2>1. \A p \in Setups : installer[p].at \in PlanPlaces
    BY PlanTypes DEF Plans
  <2> QED BY <2>1 DEF SetupHolds, SetupTypes, SetupTypeOK, Contents, PlanPlaces
<1>2. SetupKeepsTheirs
  <2>1. \A f \in AgentFiles : agentFile[f].form # "part"
    BY DEF SetupHolds, FileKeeps, AgentFiles
  <2> QED BY <2>1 DEF SetupHolds, FileKeeps, SetupKeepsTheirs
<1> QED BY <1>1, <1>2

\* A recorder follows the configuration file and its retention, a save of one setting
\* keeps the others (runtime.rs, commands/config.rs), and the setup of an agent keeps the
\* other entries of its file (setup/plan.rs), in the behaviours of the run.
THEOREM FilesAreKept == StoreSpec => FilesKept
<1> DEFINE Inv == (part = "config" => ConfigHolds) /\ (part = "setup" => SetupHolds)
<1>1. StoreInit => Inv
  <2> SUFFICES ASSUME StoreInit PROVE Inv
    OBVIOUS
  <2>1. (part = "config" => ConfigInit) /\ (part = "setup" => SetupInit)
    BY DEF StoreInit
  <2> QED BY <2>1, ConfigInitially, SetupInitially
<1>2. Inv /\ [StoreNext]_storeMCVars => Inv'
  <2> SUFFICES ASSUME Inv, [StoreNext]_storeMCVars PROVE Inv'
    OBVIOUS
  <2>1. /\ part' = part
        /\ part = "config" => [ConfigNext]_configVars
        /\ part = "setup" => [SetupNext]_setupVars
    BY DEF StoreNext, storeMCVars
  <2> QED BY <2>1, ConfigStep, SetupStep
<1>3. Inv => /\ part = "config" => ConfigTypeOK /\ FollowsFile /\ RetentionReported
             /\ part = "setup" => SetupTypeOK /\ SetupKeepsTheirs
  BY ConfigIsFollowed, SetupIsKept
<1>4. Inv /\ [StoreNext]_storeMCVars => [part = "config" => SaveKeepsTheRest]_storeMCVars
  <2> SUFFICES ASSUME Inv, StoreNext, part = "config" PROVE SaveKeepsTheRest
    OBVIOUS
  <2>1. ConfigNext
    BY DEF StoreNext
  <2> QED BY <2>1, SavesKeep
<1>5. StoreSpec => [](/\ part = "config" => ConfigTypeOK /\ FollowsFile /\ RetentionReported
                      /\ part = "setup" => SetupTypeOK /\ SetupKeepsTheirs)
  BY <1>1, <1>2, <1>3, PTL DEF StoreSpec
<1>6. StoreSpec => [][part = "config" => SaveKeepsTheRest]_storeMCVars
  BY <1>1, <1>2, <1>4, PTL DEF StoreSpec
<1> QED BY <1>5, <1>6, PTL DEF FilesKept


-----------------------------------------------------------------------------
(* What is reported of a recorder (CapabilityReports).                     *)

AskStates == {"none", "asking", "waiting", "completed", "timed_out", "error", "stopped"}
Recorders == 0 .. MaxRecorders
CapStates == [Capabilities -> CapabilityStates]
TroubleSets == SUBSET {"permissions", "permission_request"}
Askers == [state : AskStates, required : SUBSET Capabilities, at : Nat, late : BOOLEAN]
CapSnapshots == [required : SUBSET Capabilities, state : CapStates, by : Recorders, asking : BOOLEAN]
Daemons == [phase : {"gone", "opening", "running"}, required : SUBSET Capabilities, worker : Askers,
            pending : SUBSET Capabilities, last : CapSnapshots, troubles : TroubleSets]
HeartBeats == [instance : Recorders, caps : CapSnapshots, troubles : TroubleSets]
Probes == [thread : {"none", "asking", "handing", "answered"}, marked : BOOLEAN, answer : Answers]
Reporters == [kind : {"none", "status", "doctor", "start"}, step : 1 .. 2, since : Recorders,
              need : SUBSET Capabilities, owner : Recorders]
ReportsTypes ==
  /\ permission \in [Capabilities -> Answers] /\ wanted \in Needs
  /\ instances \in Recorders /\ holder \in {0, instances}
  /\ activeDaemon \in Daemons
  /\ beat \in [waiting : BOOLEAN, state : CapStates]
  /\ probe \in Probes
  /\ unwritten \in HeartBeats
  /\ row \in [beat : HeartBeats, fresh : BOOLEAN]
  /\ reporter \in Reporters
  /\ published \in [1 .. MaxRecorders -> SUBSET TroubleSets]

\* A snapshot of the recorder i, taken when it was not asking the user.
SnapshotOf(caps, i) == caps # NoSnapshot => caps.by = i /\ ~caps.asking

\* A heartbeat is one of a recorder that published its troubles, p says which.
BeatHolds(b, p) ==
  /\ SnapshotOf(b.caps, b.instance)
  /\ IF b.instance = 0 THEN b = NoBeat ELSE b.troubles \in p[b.instance]

\* The recorder d, which holds the lock as h; u is its heartbeat on the way to the store,
\* and w says whether it waits for the browser's answer.
DaemonHolds(d, h, u, w) ==
  /\ h = 0 => d = NoRecorder
  /\ h # 0 => d.phase # "gone"
  /\ SnapshotOf(d.last, h)
  /\ w => d.phase = "running" /\ d.worker = NoWorker
  /\ u # NoBeat => d.phase = "running" /\ u.instance = h

\* A start only listens to recorders younger than itself.
StartHolds(c, h, n, b) ==
  c.kind = "start" =>
    /\ c.since <= n /\ (h # 0 => h > c.since)
    /\ c.step = 2 /\ b # NoBeat => b.instance > c.since

\* The inductive invariant of the reports.
ReportsHold ==
  /\ ReportsTypes
  /\ DaemonHolds(activeDaemon, holder, unwritten, beat.waiting)
  /\ BeatHolds(unwritten, published) /\ BeatHolds(row.beat, published)
  /\ MarkedWhileAsked
  /\ StartHolds(reporter, holder, instances, row.beat)

LEMMA NothingTypes ==
  /\ NoWorker \in Askers /\ NoSnapshot \in CapSnapshots /\ NoBeat \in HeartBeats /\ NoRecorder \in Daemons
  /\ NoProbe \in Probes /\ NoCommand \in Reporters /\ Idle \in [waiting : BOOLEAN, state : CapStates]
  /\ 0 \in Recorders /\ Recorders \subseteq Nat /\ MaxRecorders \in Nat
  /\ \A p : BeatHolds(NoBeat, p)
<1>1. 0 \in Recorders /\ Recorders \subseteq Nat /\ MaxRecorders \in Nat
  BY NeedsAssumption DEF Recorders
<1>2. NoWorker \in Askers
  BY DEF NoWorker, Askers, AskStates
<1>3. NoSnapshot.state \in CapStates
  BY DEF NoSnapshot, CapStates, CapabilityStates
<1>4. NoSnapshot \in CapSnapshots
  BY <1>1, <1>3 DEF NoSnapshot, CapSnapshots
<1>5. NoBeat \in HeartBeats
  BY <1>1, <1>4 DEF NoBeat, HeartBeats, TroubleSets
<1>6. NoRecorder \in Daemons
  BY <1>2, <1>4 DEF NoRecorder, Daemons, TroubleSets
<1>7. NoProbe \in Probes
  BY DEF NoProbe, Probes, Answers
<1>8. NoCommand \in Reporters
  BY <1>1 DEF NoCommand, Reporters
<1>9. Idle \in [waiting : BOOLEAN, state : CapStates]
  BY <1>3 DEF Idle
<1>10. \A p : BeatHolds(NoBeat, p)
  BY DEF BeatHolds, NoBeat, SnapshotOf
<1> QED BY <1>1, <1>2, <1>4, <1>5, <1>6, <1>7, <1>8, <1>9, <1>10

LEMMA ReportsInitially == ReportsInit => ReportsHold
<1> SUFFICES ASSUME ReportsInit PROVE ReportsHold
  OBVIOUS
<1>1. permission \in [Capabilities -> Answers]
  <2>1. NothingGranted \in [Capabilities -> Answers]
    BY DEF NothingGranted, Answers
  <2>2. [c \in Capabilities |-> "granted"] \in [Capabilities -> Answers]
    BY DEF Answers
  <2> QED BY <2>1, <2>2 DEF ReportsInit
<1>2. published \in [1 .. MaxRecorders -> SUBSET TroubleSets]
  BY DEF ReportsInit
<1>3. row \in [beat : HeartBeats, fresh : BOOLEAN] /\ row.beat = NoBeat
  BY NothingTypes DEF ReportsInit
<1>4. ReportsTypes
  BY <1>1, <1>2, <1>3, NothingTypes DEF ReportsTypes, ReportsInit
<1>5. DaemonHolds(activeDaemon, holder, unwritten, beat.waiting)
  <2>1. beat.waiting = FALSE /\ activeDaemon.last = NoSnapshot
    BY DEF ReportsInit, Idle, NoRecorder
  <2> QED BY <2>1 DEF DaemonHolds, ReportsInit, SnapshotOf
<1>6. MarkedWhileAsked
  BY DEF MarkedWhileAsked, ReportsInit, NoProbe
<1>7. StartHolds(reporter, holder, instances, row.beat)
  BY DEF StartHolds, ReportsInit, NoCommand
<1> QED BY <1>3, <1>4, <1>5, <1>6, <1>7, NothingTypes DEF ReportsHold, ReportsInit

\* What is known of the state.
LEMMA ReportsKnown ==
  ASSUME ReportsHold
  PROVE  /\ activeDaemon \in Daemons /\ activeDaemon.worker \in Askers /\ activeDaemon.last \in CapSnapshots
         /\ activeDaemon.required \in SUBSET Capabilities /\ activeDaemon.pending \in SUBSET Capabilities
         /\ activeDaemon.troubles \in TroubleSets /\ wanted \in SUBSET Capabilities
         /\ beat.waiting \in BOOLEAN /\ beat.state \in CapStates /\ probe \in Probes
         /\ permission \in [Capabilities -> Answers]
         /\ instances \in Nat /\ holder \in Nat /\ holder \in Recorders /\ instances \in Recorders
         /\ holder \in {0, instances}
         /\ reporter \in Reporters /\ row.beat \in HeartBeats /\ row.beat.instance \in Recorders
         /\ unwritten \in HeartBeats
         /\ activeDaemon.phase = "running" => holder # 0
BY NeedsAssumption, NothingTypes
   DEF ReportsHold, ReportsTypes, Daemons, Probes, HeartBeats, DaemonHolds, NoRecorder

-----------------------------------------------------------------------------
(* The user, macOS and the life of a recorder.                             *)

Rest == <<unwritten, row, reporter, published>>

LEMMA OutsideKeeps ==
  ASSUME ReportsHold, EditFilter \/ Decide
  PROVE  ReportsHold'
<1>1. UNCHANGED <<instances, holder, activeDaemon, beat, probe, Rest>>
  BY DEF EditFilter, Decide, Rest
<1>2. permission' \in [Capabilities -> Answers] /\ wanted' \in Needs
  BY DEF EditFilter, Decide, ReportsHold, ReportsTypes, Answers
<1>3. ReportsTypes'
  BY <1>1, <1>2 DEF ReportsHold, ReportsTypes, Rest
<1> QED BY <1>1, <1>3 DEF ReportsHold, MarkedWhileAsked, Rest

LEMMA AcquireKeeps ==
  ASSUME ReportsHold, Acquire
  PROVE  ReportsHold'
<1> DEFINE d == [NoRecorder EXCEPT !.phase = "opening", !.required = wanted]
<1>1. /\ holder = 0 /\ instances < MaxRecorders /\ instances' = instances + 1 /\ holder' = instances + 1
      /\ activeDaemon' = d /\ UNCHANGED <<permission, wanted, beat, probe, Rest>>
  BY DEF Acquire, Rest
<1>2. instances' \in Recorders /\ holder' # 0 /\ instances \in Nat /\ holder' = instances'
  BY <1>1, ReportsKnown, NothingTypes DEF Recorders
<1>3. d \in Daemons /\ d.phase = "opening" /\ d.last = NoSnapshot
  BY NothingTypes, ReportsKnown DEF Daemons, NoRecorder
<1> HIDE DEF d
<1>4. ReportsTypes'
  BY <1>1, <1>2, <1>3 DEF ReportsHold, ReportsTypes, Rest
<1>5. ~beat.waiting /\ unwritten = NoBeat
  BY <1>1, ReportsKnown DEF ReportsHold, DaemonHolds
<1>6. DaemonHolds(activeDaemon', holder', unwritten', beat'.waiting)
  BY <1>1, <1>2, <1>3, <1>5 DEF DaemonHolds, Rest, SnapshotOf
<1>7. StartHolds(reporter', holder', instances', row'.beat)
  <2>1. StartHolds(reporter, holder, instances, row.beat) /\ reporter.since \in Nat
    BY ReportsKnown, NothingTypes DEF ReportsHold, Reporters
  <2> QED BY <1>1, <1>2, <2>1 DEF StartHolds, Rest
<1> QED BY <1>1, <1>4, <1>6, <1>7 DEF ReportsHold, MarkedWhileAsked, Rest

LEMMA InitializeRuntimeKeeps ==
  ASSUME ReportsHold, InitializeRuntime
  PROVE  ReportsHold'
<1> DEFINE d == [activeDaemon EXCEPT !.phase = "running",
                   !.worker = [NoWorker EXCEPT !.state = "asking", !.required = activeDaemon.required]]
           b == [instance |-> holder, caps |-> NoSnapshot, troubles |-> {}]
<1>1. /\ holder # 0 /\ activeDaemon.phase = "opening"
      /\ row' = [beat |-> b, fresh |-> TRUE] /\ activeDaemon' = d
      /\ published' = [published EXCEPT ![holder] = {{}}]
      /\ UNCHANGED <<permission, wanted, instances, holder, beat, probe, unwritten, reporter>>
  BY DEF InitializeRuntime, WrittenBeat, InitialBeat
<1>2. d \in Daemons /\ d.phase = "running" /\ d.last = activeDaemon.last
  <2>1. [NoWorker EXCEPT !.state = "asking", !.required = activeDaemon.required] \in Askers
    BY ReportsKnown DEF NoWorker, Askers, AskStates
  <2> QED BY <2>1, ReportsKnown DEF Daemons
<1> HIDE DEF d
<1>3. b \in HeartBeats /\ b.instance = holder /\ b.caps = NoSnapshot /\ b.troubles = {}
  BY ReportsKnown, NothingTypes DEF HeartBeats, TroubleSets
<1> HIDE DEF b
<1>4. holder \in 1 .. MaxRecorders
  BY <1>1, ReportsKnown DEF Recorders
<1>5. published' \in [1 .. MaxRecorders -> SUBSET TroubleSets] /\ {} \in published'[holder]
  BY <1>1, <1>4 DEF ReportsHold, ReportsTypes, TroubleSets
<1>6. ReportsTypes'
  BY <1>1, <1>2, <1>3, <1>5 DEF ReportsHold, ReportsTypes
<1>7. ~beat.waiting /\ unwritten = NoBeat
  BY <1>1, ReportsKnown DEF ReportsHold, DaemonHolds
<1>8. DaemonHolds(activeDaemon', holder', unwritten', beat'.waiting)
  BY <1>1, <1>2, <1>7 DEF DaemonHolds, ReportsHold
<1>9. BeatHolds(unwritten', published') /\ BeatHolds(row'.beat, published')
  BY <1>1, <1>3, <1>5, <1>7, NothingTypes DEF BeatHolds, SnapshotOf
<1>10. StartHolds(reporter', holder', instances', row'.beat)
  BY <1>1, <1>3 DEF StartHolds, ReportsHold
<1> QED BY <1>1, <1>6, <1>8, <1>9, <1>10 DEF ReportsHold, MarkedWhileAsked

LEMMA RecorderEndsKeeps ==
  ASSUME ReportsHold, RecorderEnds
  PROVE  ReportsHold'
<1>1. /\ holder' = 0 /\ activeDaemon' = NoRecorder /\ beat' = Idle /\ probe' = NoProbe /\ unwritten' = NoBeat
      /\ UNCHANGED <<permission, wanted, instances, reporter, published>>
      /\ row' = row \/ row' = [beat |-> NoBeat, fresh |-> FALSE]
  BY DEF RecorderEnds, WrittenBeat
<1>2. row' \in [beat : HeartBeats, fresh : BOOLEAN] /\ row'.beat \in {row.beat, NoBeat}
  <2>1. [beat |-> NoBeat, fresh |-> FALSE] \in [beat : HeartBeats, fresh : BOOLEAN]
    BY NothingTypes
  <2>2. row \in [beat : HeartBeats, fresh : BOOLEAN]
    BY DEF ReportsHold, ReportsTypes
  <2>3. row' \in [beat : HeartBeats, fresh : BOOLEAN]
    BY <1>1, <2>1, <2>2
  <2>4. row'.beat \in {row.beat, NoBeat}
    BY <1>1
  <2> QED BY <2>3, <2>4
<1>3. ReportsTypes'
  BY <1>1, <1>2, NothingTypes DEF ReportsHold, ReportsTypes
<1>4. DaemonHolds(activeDaemon', holder', unwritten', beat'.waiting)
  BY <1>1 DEF DaemonHolds, SnapshotOf, NoRecorder, Idle
<1>5. BeatHolds(unwritten', published') /\ BeatHolds(row'.beat, published')
  BY <1>1, <1>2, NothingTypes DEF ReportsHold
<1>6. MarkedWhileAsked'
  BY <1>1 DEF MarkedWhileAsked, NoProbe
<1>7. StartHolds(reporter', holder', instances', row'.beat)
  BY <1>1, <1>2 DEF StartHolds, ReportsHold
<1> QED BY <1>3, <1>4, <1>5, <1>6, <1>7 DEF ReportsHold

LEMMA GrowsStaleKeeps ==
  ASSUME ReportsHold, GrowsStale
  PROVE  ReportsHold'
<1>1. /\ UNCHANGED <<permission, wanted, instances, holder, activeDaemon, beat, probe, unwritten, reporter, published>>
      /\ row' = [row EXCEPT !.fresh = FALSE]
  BY DEF GrowsStale
<1>2. row' \in [beat : HeartBeats, fresh : BOOLEAN] /\ row'.beat = row.beat
  BY <1>1 DEF ReportsHold, ReportsTypes
<1>3. ReportsTypes'
  BY <1>1, <1>2 DEF ReportsHold, ReportsTypes
<1> QED BY <1>1, <1>2, <1>3 DEF ReportsHold, MarkedWhileAsked

-----------------------------------------------------------------------------
(* The worker and the filter: only what the recorder knows changes.        *)

LEMMA OneDaemon ==
  ASSUME ReportsHold, NEW d \in Daemons, activeDaemon' = d, holder # 0, d.phase = activeDaemon.phase,
         d.last = activeDaemon.last, beat.waiting => d.worker = NoWorker,
         UNCHANGED <<permission, wanted, instances, holder, beat, probe, Rest>>
  PROVE  ReportsHold'
<1>1. ReportsTypes'
  BY DEF ReportsHold, ReportsTypes, Rest
<1>2. DaemonHolds(activeDaemon', holder', unwritten', beat'.waiting)
  BY DEF ReportsHold, DaemonHolds, Rest
<1> QED BY <1>1, <1>2 DEF ReportsHold, MarkedWhileAsked, Rest

\* A recorder whose worker goes on.
LEMMA WorkerGoesOn ==
  ASSUME ReportsHold, NEW w \in Askers, activeDaemon' = [activeDaemon EXCEPT !.worker = w],
         activeDaemon.worker.state # "none",
         UNCHANGED <<permission, wanted, instances, holder, beat, probe, Rest>>
  PROVE  ReportsHold'
<1> DEFINE d == [activeDaemon EXCEPT !.worker = w]
<1>1. d \in Daemons /\ d.phase = activeDaemon.phase /\ d.last = activeDaemon.last
  BY ReportsKnown DEF Daemons
<1>2. activeDaemon.worker # NoWorker
  BY DEF NoWorker
<1>3. holder # 0 /\ ~beat.waiting
  BY <1>2, ReportsKnown DEF ReportsHold, DaemonHolds, NoRecorder
<1> HIDE DEF d
<1>4. activeDaemon' = d
  BY DEF d
<1> QED BY <1>1, <1>3, <1>4, OneDaemon

LEMMA WorkerStepKeeps ==
  ASSUME ReportsHold, WorkerStep
  PROVE  ReportsHold'
<1> DEFINE w == activeDaemon.worker
<1>1. w \in Askers /\ w.at \in Nat
  BY ReportsKnown DEF Askers
<1>2. w.state # "none" /\ UNCHANGED <<permission, wanted, instances, holder, beat, probe, Rest>>
  BY DEF WorkerStep, Rest
<1>3. /\ Passed(w) \in Askers /\ [Passed(w) EXCEPT !.late = TRUE] \in Askers
      /\ \A s \in AskStates : [w EXCEPT !.state = s] \in Askers
  <2>1. w.at + 1 \in Nat
    BY <1>1
  <2>2. Passed(w) \in Askers
    BY <1>1, <2>1 DEF Passed, Askers, AskStates
  <2>3. [Passed(w) EXCEPT !.late = TRUE] \in Askers
    BY <2>2 DEF Askers
  <2>4. \A s \in AskStates : [w EXCEPT !.state = s] \in Askers
    BY <1>1 DEF Askers
  <2> QED BY <2>2, <2>3, <2>4
<1>4. \A s : [activeDaemon EXCEPT !.worker.state = s] = [activeDaemon EXCEPT !.worker = [w EXCEPT !.state = s]]
  BY ReportsKnown DEF Daemons
<1>5. \E v \in Askers : activeDaemon' = [activeDaemon EXCEPT !.worker = v]
  <2>1. ASSUME NEW s \in AskStates, activeDaemon' = [activeDaemon EXCEPT !.worker.state = s]
        PROVE  \E v \in Askers : activeDaemon' = [activeDaemon EXCEPT !.worker = v]
    BY <1>3, <1>4, <2>1
  <2>2. CASE activeDaemon' = [activeDaemon EXCEPT !.worker.state = IF w.late THEN "timed_out" ELSE "completed"]
    BY <2>1, <2>2 DEF AskStates
  <2>3. CASE activeDaemon' = [activeDaemon EXCEPT !.worker =
               IF RequestOrder[w.at] \in w.required /\ Undecided(RequestOrder[w.at])
               THEN [w EXCEPT !.state = "waiting"] ELSE Passed(w)]
    BY <1>3, <2>3 DEF AskStates
  <2>4. CASE activeDaemon' = [activeDaemon EXCEPT !.worker =
               IF permission[RequestOrder[w.at]] = "granted" THEN Passed(w) ELSE [Passed(w) EXCEPT !.late = TRUE]]
    BY <1>3, <2>4
  <2>5. ASSUME NEW s \in {"error", "stopped"}, activeDaemon' = [activeDaemon EXCEPT !.worker.state = s]
        PROVE  \E v \in Askers : activeDaemon' = [activeDaemon EXCEPT !.worker = v]
    BY <2>1, <2>5 DEF AskStates
  <2> QED BY <2>2, <2>3, <2>4, <2>5 DEF WorkerStep
<1> QED BY <1>2, <1>5, WorkerGoesOn

\* A worker may be started for what waits.
LEMMA PendingTypes ==
  ASSUME NEW r \in Daemons, StartsPending(r)
  PROVE  activeDaemon' \in Daemons /\ activeDaemon'.phase = r.phase /\ activeDaemon'.last = r.last
<1>1. Pending(r) \in Daemons /\ Pending(r).phase = r.phase /\ Pending(r).last = r.last
  <2>1. [NoWorker EXCEPT !.state = "asking", !.required = r.pending] \in Askers
    BY DEF NoWorker, Askers, AskStates, Daemons
  <2> QED BY <2>1 DEF Pending, Daemons
<1>2. NotStarted(r) \in Daemons /\ NotStarted(r).phase = r.phase /\ NotStarted(r).last = r.last
  <2>1. r.troubles \cup {"permission_request"} \in TroubleSets
    BY DEF Daemons, TroubleSets
  <2> QED BY <2>1 DEF NotStarted, Daemons
<1> QED BY <1>1, <1>2 DEF StartsPending

LEMMA PollWorkerKeeps ==
  ASSUME ReportsHold, PollWorker
  PROVE  ReportsHold'
<1> DEFINE tr == IF activeDaemon.worker.state = "completed" THEN activeDaemon.troubles \ {"permission_request"}
                 ELSE activeDaemon.troubles \cup {"permission_request"}
           r == [activeDaemon EXCEPT !.worker = NoWorker, !.troubles = tr]
<1>1. tr \in TroubleSets
  BY ReportsKnown DEF TroubleSets
<1>2. StartsPending(r)
  BY DEF PollWorker
<1> HIDE DEF tr
<1>3. r \in Daemons /\ r.phase = activeDaemon.phase /\ r.last = activeDaemon.last
  BY <1>1, NothingTypes, ReportsKnown DEF Daemons
<1> HIDE DEF r
<1>4. activeDaemon' \in Daemons /\ activeDaemon'.phase = activeDaemon.phase /\ activeDaemon'.last = activeDaemon.last
  BY <1>2, <1>3, PendingTypes
<1>5. holder # 0 /\ ~beat.waiting /\ UNCHANGED <<permission, wanted, instances, holder, beat, probe, Rest>>
  BY DEF PollWorker, Rest
<1> QED BY <1>2, <1>4, <1>5, OneDaemon

LEMMA ReloadFilterKeeps ==
  ASSUME ReportsHold, ReloadFilter
  PROVE  ReportsHold'
<1> DEFINE now == (activeDaemon.required \ Automations) \cup (wanted \cap Automations)
           more == IF now \subseteq activeDaemon.required THEN {} ELSE now
           r == [activeDaemon EXCEPT !.required = now, !.pending = more]
<1>1. now \in SUBSET Capabilities /\ more \in SUBSET Capabilities
  BY ReportsKnown
<1>2. StartsPending(r)
  BY DEF ReloadFilter
<1> HIDE DEF now, more
<1>3. r \in Daemons /\ r.phase = activeDaemon.phase /\ r.last = activeDaemon.last
  BY <1>1, ReportsKnown DEF Daemons
<1> HIDE DEF r
<1>4. activeDaemon' \in Daemons /\ activeDaemon'.phase = activeDaemon.phase /\ activeDaemon'.last = activeDaemon.last
  BY <1>2, <1>3, PendingTypes
<1>5. holder # 0 /\ ~beat.waiting /\ UNCHANGED <<permission, wanted, instances, holder, beat, probe, Rest>>
  BY ReportsKnown DEF ReloadFilter, Rest
<1> QED BY <1>2, <1>4, <1>5, OneDaemon

-----------------------------------------------------------------------------
(* The heartbeat.                                                          *)

LEMMA StateTypes == \A a : State(a) \in CapabilityStates
BY DEF State, CapabilityStates

\* A recorder that is not asking the user publishes a snapshot of its own, or none.
LEMMA PublishesKeeps ==
  ASSUME ReportsHold, NEW r \in Daemons, NEW caps \in CapSnapshots, Publishes(r, caps),
         activeDaemon.phase = "running", r.phase = "running", r.worker = activeDaemon.worker,
         SnapshotOf(caps, holder), r.last \in {caps, activeDaemon.last},
         beat' \in [waiting : BOOLEAN, state : CapStates], beat'.waiting => beat.waiting,
         probe' \in Probes, MarkedWhileAsked',
         UNCHANGED <<permission, wanted, instances, holder, row, reporter>>
  PROVE  ReportsHold'
<1> DEFINE b == [instance |-> holder, caps |-> caps, troubles |-> r.troubles]
<1>1. activeDaemon' = r /\ unwritten' = b /\ published' = [published EXCEPT ![holder] = @ \cup {r.troubles}]
  BY DEF Publishes
<1>2. holder \in 1 .. MaxRecorders /\ holder # 0 /\ holder \in Recorders
  BY ReportsKnown DEF Recorders
<1>3. b \in HeartBeats /\ b.instance = holder /\ b.caps = caps /\ b.troubles = r.troubles
      /\ r.troubles \in TroubleSets
  BY <1>2 DEF HeartBeats, Daemons
<1> HIDE DEF b
<1>4. /\ published' \in [1 .. MaxRecorders -> SUBSET TroubleSets] /\ r.troubles \in published'[holder]
      /\ \A i \in 1 .. MaxRecorders : published[i] \subseteq published'[i]
  BY <1>1, <1>2, <1>3 DEF ReportsHold, ReportsTypes
<1>5. ReportsTypes'
  BY <1>1, <1>3, <1>4 DEF ReportsHold, ReportsTypes
<1>6. DaemonHolds(activeDaemon', holder', unwritten', beat'.waiting)
  BY <1>1, <1>2, <1>3 DEF ReportsHold, DaemonHolds
<1>7. BeatHolds(unwritten', published')
  BY <1>1, <1>2, <1>3, <1>4 DEF BeatHolds
<1>8. BeatHolds(row'.beat, published')
  <2>1. row.beat.instance # 0 => row.beat.instance \in 1 .. MaxRecorders
    BY ReportsKnown DEF Recorders
  <2> QED BY <1>4, <2>1 DEF ReportsHold, BeatHolds
<1>9. StartHolds(reporter', holder', instances', row'.beat)
  BY DEF ReportsHold
<1> QED BY <1>5, <1>6, <1>7, <1>8, <1>9 DEF ReportsHold

LEMMA PublishesCheckedKeeps ==
  ASSUME ReportsHold, NEW state \in CapStates, PublishesChecked(state),
         activeDaemon.phase = "running", activeDaemon.worker = NoWorker,
         beat' \in [waiting : BOOLEAN, state : CapStates], beat'.waiting => beat.waiting,
         probe' \in Probes, MarkedWhileAsked',
         UNCHANGED <<permission, wanted, instances, holder, row, reporter>>
  PROVE  ReportsHold'
<1> DEFINE caps == Snapshot(state)
           r == [activeDaemon EXCEPT !.last = caps, !.troubles = @ \ {"permissions"}]
<1>1. caps \in CapSnapshots
  BY ReportsKnown DEF CapSnapshots, Snapshot
<1>2. SnapshotOf(caps, holder)
  BY DEF SnapshotOf, Snapshot
<1> HIDE DEF caps
<1>3. r \in Daemons /\ r.phase = "running" /\ r.worker = activeDaemon.worker /\ r.last = caps
  BY <1>1, ReportsKnown DEF Daemons, TroubleSets
<1>4. Publishes(r, caps)
  BY DEF PublishesChecked, caps
<1> HIDE DEF r
<1> QED BY <1>1, <1>2, <1>3, <1>4, PublishesKeeps

LEMMA CheckedTypes == ASSUME ReportsHold, NEW a PROVE Checked(a) \in CapStates
BY StateTypes DEF Checked, CapStates

LEMMA CheckPermissionsKeeps ==
  ASSUME ReportsHold, CheckPermissions, activeDaemon.phase = "running", activeDaemon.worker = NoWorker,
         UNCHANGED <<permission, wanted, instances, holder, row, reporter>>
  PROVE  ReportsHold'
<1>1. CASE PublishesChecked(Checked("undetermined")) /\ UNCHANGED <<beat, probe>>
  BY <1>1, CheckedTypes, PublishesCheckedKeeps DEF ReportsHold, ReportsTypes, MarkedWhileAsked
<1>2. CASE /\ probe' = [thread |-> "asking", marked |-> TRUE, answer |-> "undetermined"]
           /\ beat' = [waiting |-> TRUE, state |-> Checked("undetermined")]
           /\ UNCHANGED <<activeDaemon, unwritten, published>>
  <2>1. probe' \in Probes /\ MarkedWhileAsked'
    BY <1>2 DEF Probes, Answers, MarkedWhileAsked
  <2>2. beat' \in [waiting : BOOLEAN, state : CapStates]
    BY <1>2, CheckedTypes
  <2>3. ReportsTypes'
    BY <1>2, <2>1, <2>2 DEF ReportsHold, ReportsTypes
  <2>4. DaemonHolds(activeDaemon', holder', unwritten', beat'.waiting)
    BY <1>2 DEF ReportsHold, DaemonHolds
  <2> QED BY <1>2, <2>1, <2>3, <2>4 DEF ReportsHold
<1> QED BY <1>1, <1>2 DEF CheckPermissions

LEMMA HeartbeatKeeps ==
  ASSUME ReportsHold, Heartbeat
  PROVE  ReportsHold'
<1>1. activeDaemon.phase = "running" /\ UNCHANGED <<permission, wanted, instances, holder, row, reporter>>
  BY DEF Heartbeat
<1>2. /\ beat \in [waiting : BOOLEAN, state : CapStates] /\ probe \in Probes /\ MarkedWhileAsked
  BY DEF ReportsHold, ReportsTypes
<1>3. CASE Publishes(activeDaemon, NoSnapshot) /\ UNCHANGED <<beat, probe>>
  BY <1>1, <1>2, <1>3, NothingTypes, ReportsKnown, PublishesKeeps DEF SnapshotOf, MarkedWhileAsked
<1>4. CASE CheckPermissions /\ activeDaemon.worker = NoWorker
  BY <1>1, <1>4, CheckPermissionsKeeps
<1>5. CASE CheckFails
  <2> DEFINE r == [activeDaemon EXCEPT !.troubles = @ \cup {"permissions"}]
  <2>1. r \in Daemons /\ r.phase = "running" /\ r.worker = activeDaemon.worker /\ r.last = activeDaemon.last
    BY <1>1, ReportsKnown DEF Daemons, TroubleSets
  <2>2. Publishes(r, activeDaemon.last) /\ UNCHANGED <<beat, probe>>
    BY <1>5 DEF CheckFails
  <2>3. SnapshotOf(activeDaemon.last, holder)
    BY DEF ReportsHold, DaemonHolds
  <2> HIDE DEF r
  <2> QED BY <1>1, <1>2, <2>1, <2>2, <2>3, ReportsKnown, PublishesKeeps DEF MarkedWhileAsked
<1> QED BY <1>3, <1>4, <1>5 DEF Heartbeat, RefreshCapabilities

LEMMA BrowserAnswersKeeps ==
  ASSUME ReportsHold, BrowserAnswers
  PROVE  ReportsHold'
<1>1. UNCHANGED <<permission, wanted, instances, holder, activeDaemon, beat, Rest>>
  BY DEF BrowserAnswers, Rest
<1>2. probe' \in Probes /\ MarkedWhileAsked'
  <2>1. CASE probe' = Answered
    BY <2>1, ReportsKnown DEF Probes, Answered, MarkedWhileAsked, Capabilities
  <2>2. CASE probe.thread = "handing" /\ probe' = [probe EXCEPT !.thread = "answered"]
    BY <2>2, ReportsKnown DEF Probes, MarkedWhileAsked, ReportsHold
  <2> QED BY <2>1, <2>2 DEF BrowserAnswers
<1>3. ReportsTypes'
  BY <1>1, <1>2 DEF ReportsHold, ReportsTypes, Rest
<1> QED BY <1>1, <1>2, <1>3 DEF ReportsHold, Rest

LEMMA BrowserHeardKeeps ==
  ASSUME ReportsHold, BrowserHeard
  PROVE  ReportsHold'
<1>1. /\ beat.waiting /\ beat' = Idle /\ UNCHANGED <<permission, wanted, instances, holder, row, reporter>>
      /\ probe' = [probe EXCEPT !.thread = IF @ = "asking" THEN @ ELSE "none"]
  BY DEF BrowserHeard
<1>2. activeDaemon.phase = "running" /\ activeDaemon.worker = NoWorker
  BY <1>1 DEF ReportsHold, DaemonHolds
<1>3. probe' \in Probes /\ MarkedWhileAsked'
  BY <1>1, ReportsKnown DEF Probes, MarkedWhileAsked, ReportsHold
<1>4. PICK state \in CapStates : PublishesChecked(state)
  <2>1. [beat.state EXCEPT !["browser"] = State(probe.answer)] \in CapStates
    BY ReportsKnown, StateTypes DEF CapStates
  <2> QED BY <2>1, ReportsKnown DEF BrowserHeard
<1>5. beat' \in [waiting : BOOLEAN, state : CapStates] /\ ~beat'.waiting
  BY <1>1, NothingTypes DEF Idle
<1> QED BY <1>1, <1>2, <1>3, <1>4, <1>5, PublishesCheckedKeeps

LEMMA WriteHeartbeatKeeps ==
  ASSUME ReportsHold, WriteHeartbeat
  PROVE  ReportsHold'
<1>1. /\ unwritten # NoBeat /\ row' = [beat |-> unwritten, fresh |-> TRUE] /\ unwritten' = NoBeat
      /\ UNCHANGED <<permission, wanted, instances, holder, activeDaemon, beat, probe, reporter, published>>
  BY DEF WriteHeartbeat, WrittenBeat
<1>2. ReportsTypes'
  BY <1>1, NothingTypes DEF ReportsHold, ReportsTypes
<1>3. DaemonHolds(activeDaemon', holder', unwritten', beat'.waiting)
  BY <1>1 DEF ReportsHold, DaemonHolds
<1>4. BeatHolds(unwritten', published') /\ BeatHolds(row'.beat, published')
  BY <1>1, NothingTypes DEF ReportsHold
<1>5. StartHolds(reporter', holder', instances', row'.beat)
  <2>1. unwritten.instance = holder /\ holder # 0
    BY <1>1, ReportsKnown DEF ReportsHold, DaemonHolds
  <2> QED BY <1>1, <2>1 DEF ReportsHold, StartHolds
<1> QED BY <1>1, <1>2, <1>3, <1>4, <1>5 DEF ReportsHold, MarkedWhileAsked

-----------------------------------------------------------------------------
(* The commands.                                                           *)

LEMMA OneReporter ==
  ASSUME ReportsHold, NEW c \in Reporters, reporter' = c, StartHolds(c, holder, instances, row.beat),
         UNCHANGED <<permission, wanted, instances, holder, activeDaemon, beat, probe, unwritten, row, published>>
  PROVE  ReportsHold'
<1>1. ReportsTypes'
  BY DEF ReportsHold, ReportsTypes
<1> QED BY <1>1 DEF ReportsHold, MarkedWhileAsked

LEMMA CommandBeginsKeeps ==
  ASSUME ReportsHold, CommandBegins
  PROVE  ReportsHold'
<1>1. PICK kind \in {"status", "doctor", "start"} :
        /\ kind = "start" => holder = 0
        /\ reporter' = [NoCommand EXCEPT !.kind = kind, !.since = instances, !.need = wanted]
  BY DEF CommandBegins
<1> DEFINE c == [NoCommand EXCEPT !.kind = kind, !.since = instances, !.need = wanted]
<1>2. c \in Reporters /\ c.kind = kind /\ c.since = instances /\ c.step = 1
  BY ReportsKnown, NothingTypes DEF Reporters, NoCommand
<1> HIDE DEF c
<1>3. StartHolds(c, holder, instances, row.beat)
  BY <1>1, <1>2, ReportsKnown DEF StartHolds
<1>4. reporter' = c
  BY <1>1 DEF c
<1> QED BY <1>2, <1>3, <1>4, OneReporter DEF CommandBegins

LEMMA OwnerTypes ==
  ASSUME NEW r \in Reporters, NEW h \in Recorders
  PROVE  LET c == [r EXCEPT !.owner = h, !.step = 2] IN c \in Reporters /\ c.kind = r.kind
<1> DEFINE q == [r EXCEPT !.owner = h]
<1>1. q \in Reporters /\ q.kind = r.kind
  BY DEF Reporters
<1> HIDE DEF q
<1>2. [q EXCEPT !.step = 2] \in Reporters /\ [q EXCEPT !.step = 2].kind = q.kind
  BY <1>1 DEF Reporters
<1>3. [r EXCEPT !.owner = h, !.step = 2] = [q EXCEPT !.step = 2]
  BY DEF q
<1> QED BY <1>1, <1>2, <1>3

LEMMA ReportStepKeeps ==
  ASSUME ReportsHold, ReportStep
  PROVE  ReportsHold'
<1>1. UNCHANGED <<permission, wanted, instances, holder, activeDaemon, beat, probe, unwritten, row, published>>
  BY DEF ReportStep
<1>2. CASE reporter' = NoCommand
  <2>1. StartHolds(NoCommand, holder, instances, row.beat)
    BY DEF StartHolds, NoCommand
  <2> QED BY <1>1, <1>2, <2>1, NothingTypes, OneReporter
<1>3. CASE ProbeOwner
  <2> DEFINE c == [reporter EXCEPT !.owner = holder, !.step = 2]
  <2>1. c \in Reporters /\ c.kind # "start"
    <3>1. reporter \in Reporters /\ holder \in Recorders
      BY ReportsKnown
    <3>2. c \in Reporters /\ c.kind = reporter.kind
      BY <3>1, OwnerTypes
    <3> QED BY <1>3, <3>2 DEF ProbeOwner
  <2>2. reporter' = c
    BY <1>3 DEF ProbeOwner
  <2> HIDE DEF c
  <2>3. StartHolds(c, holder, instances, row.beat)
    BY <2>1 DEF StartHolds
  <2> QED BY <1>1, <2>1, <2>2, <2>3, OneReporter
<1>4. CASE reporter.kind = "start" /\ RecorderAlive /\ reporter' = [reporter EXCEPT !.step = 2]
  <2> DEFINE c == [reporter EXCEPT !.step = 2]
  <2>1. c \in Reporters /\ c.kind = reporter.kind /\ c.since = reporter.since
    BY ReportsKnown DEF Reporters
  <2>2. row.beat.instance = holder /\ holder # 0
    BY <1>4 DEF RecorderAlive, Matches
  <2> HIDE DEF c
  <2>3. StartHolds(c, holder, instances, row.beat)
    BY <1>4, <2>1, <2>2 DEF StartHolds, ReportsHold
  <2> QED BY <1>1, <1>4, <2>1, <2>3, OneReporter DEF c
<1> QED BY <1>2, <1>3, <1>4 DEF ReportStep, Report, StartSeesRecorder, StartConcludes

LEMMA ReportsStep == ReportsHold /\ [ReportsNext]_reportVars => ReportsHold'
<1> SUFFICES ASSUME ReportsHold, [ReportsNext]_reportVars PROVE ReportsHold'
  OBVIOUS
<1>1. CASE UNCHANGED reportVars
  BY <1>1 DEF reportVars, ReportsHold, ReportsTypes, MarkedWhileAsked
<1> QED BY <1>1, OutsideKeeps, AcquireKeeps, InitializeRuntimeKeeps, RecorderEndsKeeps, GrowsStaleKeeps,
     WorkerStepKeeps, PollWorkerKeeps, ReloadFilterKeeps, HeartbeatKeeps, BrowserAnswersKeeps,
     BrowserHeardKeeps, WriteHeartbeatKeeps, CommandBeginsKeeps, ReportStepKeeps DEF ReportsNext

\* What the invariant says of the properties of CapabilityReports.
LEMMA ReportsAreTrue ==
  ReportsHold => /\ ReportsTypeOK /\ SnapshotIsItsRecorders /\ MarkedWhileAsked
                 /\ HealthNamesTheOwner /\ StartJudgesItsOwn
<1> SUFFICES ASSUME ReportsHold
             PROVE  /\ ReportsTypeOK /\ SnapshotIsItsRecorders /\ MarkedWhileAsked
                    /\ HealthNamesTheOwner /\ StartJudgesItsOwn
  OBVIOUS
<1>1. ReportsTypeOK
  <2>1. (holder = 0) = (activeDaemon = NoRecorder)
    BY DEF ReportsHold, DaemonHolds, NoRecorder
  <2>2. /\ activeDaemon.phase \in {"gone", "opening", "running"}
        /\ activeDaemon.troubles \subseteq {"permissions", "permission_request"}
        /\ activeDaemon.worker.state \in AskStates
    BY ReportsKnown DEF Daemons, Askers, TroubleSets
  <2>3. probe.thread \in {"none", "asking", "handing", "answered"} /\ probe.marked \in BOOLEAN /\ reporter.step \in 1 .. 2
    BY ReportsKnown DEF Probes, Reporters
  <2> QED BY <2>1, <2>2, <2>3 DEF ReportsHold, ReportsTypes, ReportsTypeOK, AskStates, Recorders
<1>2. SnapshotIsItsRecorders
  BY DEF ReportsHold, BeatHolds, SnapshotOf, SnapshotIsItsRecorders
<1>3. HealthNamesTheOwner
  <2> SUFFICES ASSUME Matches(reporter.owner, row.beat)
               PROVE  row.beat.troubles \in published[reporter.owner]
    <3>1. ASSUME Health(reporter.owner, row.beat, row.fresh) = "healthy"
          PROVE  Matches(reporter.owner, row.beat) /\ row.beat.troubles = {}
      BY <3>1 DEF Health, Matches
    <3>2. ASSUME Troubles(reporter.owner, row.beat, row.fresh) # {}
          PROVE  /\ Matches(reporter.owner, row.beat)
                 /\ row.beat.troubles = Troubles(reporter.owner, row.beat, row.fresh)
      BY <3>2 DEF Troubles
    <3> QED BY <3>1, <3>2 DEF HealthNamesTheOwner
  <2> QED BY DEF Matches, ReportsHold, BeatHolds
<1>4. StartJudgesItsOwn
  <2> SUFFICES ASSUME StartConcludes, StartState(reporter) \in {"ready", "missing"}
               PROVE  /\ row.beat.caps.by > reporter.since
                      /\ reporter.need \subseteq row.beat.caps.required
    BY DEF StartJudgesItsOwn
  <2>1. row.beat.caps # NoSnapshot /\ reporter.need \subseteq row.beat.caps.required
    BY DEF StartState, ReadyFor
  <2>2. row.beat.caps.by = row.beat.instance /\ row.beat # NoBeat
    BY <2>1 DEF ReportsHold, BeatHolds, SnapshotOf, NoBeat
  <2>3. row.beat.instance > reporter.since
    BY <2>2 DEF StartConcludes, ReportsHold, StartHolds
  <2> QED BY <2>1, <2>2, <2>3
<1> QED BY <1>1, <1>2, <1>3, <1>4 DEF ReportsHold

\* What status, doctor and start conclude from a heartbeat is about the recorder they name
\* (status.rs, doctor.rs, permission.rs), in the behaviours of the run.
THEOREM ReportsAlwaysName == StoreSpec => ReportsNameTheirOwner
<1> DEFINE Inv == part = "reports" => ReportsHold
<1>1. StoreInit => Inv
  <2> SUFFICES ASSUME StoreInit, part = "reports" PROVE ReportsHold
    OBVIOUS
  <2>1. ReportsInit
    BY DEF StoreInit
  <2> QED BY <2>1, ReportsInitially
<1>2. Inv /\ [StoreNext]_storeMCVars => Inv'
  <2> SUFFICES ASSUME Inv, [StoreNext]_storeMCVars, part' = "reports" PROVE ReportsHold'
    OBVIOUS
  <2>1. part = "reports" /\ [ReportsNext]_reportVars
    BY DEF StoreNext, storeMCVars
  <2> QED BY <2>1, ReportsStep
<1>3. Inv => (part = "reports" => ReportsTypeOK /\ SnapshotIsItsRecorders /\ MarkedWhileAsked)
  BY ReportsAreTrue
<1>4. Inv => (part = "reports" => HealthNamesTheOwner /\ StartJudgesItsOwn)
  BY ReportsAreTrue
<1>5. StoreSpec => [](part = "reports" => ReportsTypeOK /\ SnapshotIsItsRecorders /\ MarkedWhileAsked)
  BY <1>1, <1>2, <1>3, PTL DEF StoreSpec
<1>6. StoreSpec => [][part = "reports" => HealthNamesTheOwner /\ StartJudgesItsOwn]_storeMCVars
  BY <1>1, <1>2, <1>4, PTL DEF StoreSpec
<1> QED BY <1>5, <1>6, PTL DEF ReportsNameTheirOwner

-----------------------------------------------------------------------------
(* StoreOpening: the types, and what a recorder and a command know at each *)
(* of their places of the key, the store and the stores set aside.         *)

StoreFormats == {"missing", "plaintext", "encrypted"}
RecorderPlaces == {"idle", "key", "generate", "guard", "rename", "companions", "leftovers", "restrict",
                   "create", "commit", "previous", "adopt", "retention", "recording"}
RecorderStates == [at : RecorderPlaces, kind : {"-"}, format : StoreFormats \cup {"-"}, key : Keys,
                   previous : BOOLEAN]
CommandStates == [at : {"idle", "key", "generate", "open", "write"},
                  kind : {"-", "start_paused", "pause", "resume"}, format : StoreFormats \cup {"-"},
                  key : Keys, previous : BOOLEAN]
LiveStores == [format : StoreFormats, key : Keys, tables : BOOLEAN, owed : BOOLEAN, paused : BOOLEAN,
               events : SUBSET Times]
AsideStores == [at : Times, paused : BOOLEAN, events : SUBSET Times, private : BOOLEAN]

UpgradeTypes ==
  /\ live \in LiveStores /\ walEvents \in SUBSET Times
  /\ \A n \in DOMAIN retired : n \in Nat \ {0} /\ retired[n] \in AsideStores
  /\ opener \in RecorderStates /\ command \in CommandStates
  /\ clock \in Times /\ everRecorded \in SUBSET Times /\ asked \in {"paused", "running", "unsettled"}

\* Two keys are made at most: only who found none makes one, a recorder at r, a command at c.
KeysMade(item_, made, r, c) ==
  \/ item_ = 0 /\ made = 0
  \/ item_ \in 1 .. 2 /\ made = 1 /\ ~(r = "generate" /\ c = "generate")
  \/ item_ \in 1 .. 2 /\ made = 2 /\ r # "generate" /\ c # "generate"

\* A recorder that has its key, and one that has the new store.
WithKey == {"guard", "rename", "companions", "leftovers", "restrict", "create", "commit", "previous",
            "adopt", "retention", "recording"}
WithStore == {"commit", "previous", "adopt", "retention", "recording"}

\* The live store s has nothing left to carry over.
Settled(s) == s.format = "encrypted" /\ s.tables /\ ~s.owed

\* The recorder o: the key k is its own, and of the store s, the journal w, and whether the
\* stores set aside were paused (p) it knows this.
RecorderKnows(o, k, s, w, p) ==
  /\ o.at \in WithKey => o.key = k /\ k # 0
  /\ o.at = "rename" => s.format = "plaintext" /\ w = {}
  /\ o.at \in {"companions", "leftovers"} => ~Settled(s) /\ w = {}
  /\ o.at \in WithStore => s.format = "encrypted"
  /\ o.at \in {"previous", "adopt"} => s.tables
  /\ o.at = "adopt" /\ s.owed => o.previous = p
  /\ o.at \in {"retention", "recording"} => Settled(s)

\* The command c: likewise.  While it is connected no recorder (at r) has the store to itself.
CommandKnows(c, k, s, r) ==
  /\ c.at = "open" => c.format = "plaintext" \/ (c.key = k /\ k # 0)
  /\ c.at = "write" => s.format # "missing" /\ s.tables /\ r # "rename"

\* The live store s: without one there is no journal, and an encrypted one fits the key.
LiveHolds(s, w, k) ==
  /\ s.format = "missing" => s = NoStore
  /\ s.format # "plaintext" => w = {}
  /\ s.format = "encrypted" => s.key = k /\ k # 0

\* Until the new store is settled nothing is dropped from the listing.
Numbered(s, names) == ~Settled(s) => \E last \in Nat : names = 1 .. last

\* Where the last request q stands: in the store, or, until the new store has adopted it, in
\* the newest one set aside; x tells that a command is about to overwrite it.
Heeds(q, s, p, x) ==
  /\ Settled(s) => (q = "paused" => s.paused) /\ (q = "running" => ~s.paused)
  /\ s.format = "encrypted" /\ ~Settled(s)
       => (q = "paused" => s.paused \/ p) /\ (q = "running" => ~s.paused /\ ~p)
  /\ s.format = "missing" => (q = "paused" => p) /\ (q = "running" => ~p)
  /\ s.format = "plaintext" /\ ~x => (q = "paused" => s.paused) /\ (q = "running" => ~s.paused)

\* A store set aside holds nothing newer than its name; and from "create" on it is private.
AsidesHold(a, now, r) ==
  \A n \in DOMAIN a :
    /\ a[n].at <= now /\ \A e \in a[n].events : e <= a[n].at
    /\ r \in {"create", "commit", "previous", "adopt", "retention", "recording"} => a[n].private

EventsHold(s, w, now, all) ==
  \A e \in s.events \cup w \cup all : e <= now

\* Every recent event is in one of the stores.
EventsKept(s, w, a, now, all) ==
  \A e \in all : e >= now - Retention
    => e \in s.events \/ e \in w \/ \E n \in DOMAIN a : e \in a[n].events

UpgradeHolds ==
  /\ UpgradeTypes
  /\ KeysMade(keyItem, keysMade, opener.at, command.at)
  /\ RecorderKnows(opener, keyItem, live, walEvents, AsidePaused(retired))
  /\ CommandKnows(command, keyItem, live, opener.at)
  /\ LiveHolds(live, walEvents, keyItem)
  /\ Numbered(live, DOMAIN retired)
  /\ Heeds(asked, live, AsidePaused(retired), command.at = "write")
  /\ AsidesHold(retired, clock, opener.at)
  /\ EventsHold(live, walEvents, clock, everRecorded)
  /\ EventsKept(live, walEvents, retired, clock, everRecorded)

-----------------------------------------------------------------------------
\* Lemmas about the operators.

LEMMA NewestIs ==
  ASSUME NEW stores, NEW last \in Nat, DOMAIN stores = 1 .. last
  PROVE  Newest(stores) = last
<1>1. CASE last = 0
  BY <1>1 DEF Newest
<1>2. CASE last # 0
  <2>1. last \in DOMAIN stores /\ DOMAIN stores # {} /\ \A m \in DOMAIN stores : m <= last
    BY <1>2
  <2>2. \A n \in DOMAIN stores : (\A m \in DOMAIN stores : m <= n) => n = last
    BY <2>1
  <2> QED BY <2>1, <2>2 DEF Newest
<1> QED BY <1>1, <1>2

LEMMA RecorderMoves ==
  ASSUME opener \in RecorderStates, NEW x \in RecorderPlaces, RecorderGoes([at |-> x])
  PROVE  /\ opener' \in RecorderStates /\ opener'.at = x /\ opener'.format = opener.format
         /\ opener'.key = opener.key /\ opener'.previous = opener.previous
<1> DEFINE r == opener
           o == [at |-> x, kind |-> r.kind, format |-> r.format, key |-> r.key, previous |-> r.previous]
<1>1. r \in RecorderStates
  OBVIOUS
<1> HIDE DEF r
<1>2. [n \in DOMAIN r |-> IF n \in DOMAIN [at |-> x] THEN [at |-> x][n] ELSE r[n]] = o
  BY <1>1 DEF RecorderStates
<1>3. o \in RecorderStates
  BY <1>1 DEF RecorderStates
<1> QED BY <1>2, <1>3 DEF RecorderGoes, r

LEMMA RecorderSees ==
  ASSUME opener \in RecorderStates, NEW x \in RecorderPlaces, NEW f \in StoreFormats,
         RecorderGoes([at |-> x, format |-> f])
  PROVE  /\ opener' \in RecorderStates /\ opener'.at = x /\ opener'.format = f
         /\ opener'.key = opener.key /\ opener'.previous = opener.previous
<1> DEFINE r == opener
           o == [at |-> x, kind |-> r.kind, format |-> f, key |-> r.key, previous |-> r.previous]
<1>1. r \in RecorderStates
  OBVIOUS
<1> HIDE DEF r
<1>2. [n \in DOMAIN r |-> IF n \in DOMAIN [at |-> x, format |-> f] THEN [at |-> x, format |-> f][n] ELSE r[n]] = o
  BY <1>1 DEF RecorderStates
<1>3. o \in RecorderStates
  BY <1>1 DEF RecorderStates
<1> QED BY <1>2, <1>3 DEF RecorderGoes, r

LEMMA RecorderHasKey ==
  ASSUME opener \in RecorderStates, NEW x \in RecorderPlaces, NEW k \in Keys,
         RecorderGoes([at |-> x, key |-> k])
  PROVE  /\ opener' \in RecorderStates /\ opener'.at = x /\ opener'.format = opener.format
         /\ opener'.key = k /\ opener'.previous = opener.previous
<1> DEFINE r == opener
           o == [at |-> x, kind |-> r.kind, format |-> r.format, key |-> k, previous |-> r.previous]
<1>1. r \in RecorderStates
  OBVIOUS
<1> HIDE DEF r
<1>2. [n \in DOMAIN r |-> IF n \in DOMAIN [at |-> x, key |-> k] THEN [at |-> x, key |-> k][n] ELSE r[n]] = o
  BY <1>1 DEF RecorderStates
<1>3. o \in RecorderStates
  BY <1>1 DEF RecorderStates
<1> QED BY <1>2, <1>3 DEF RecorderGoes, r

LEMMA RecorderHasRead ==
  ASSUME opener \in RecorderStates, NEW x \in RecorderPlaces, NEW p \in BOOLEAN,
         RecorderGoes([at |-> x, previous |-> p])
  PROVE  /\ opener' \in RecorderStates /\ opener'.at = x /\ opener'.format = opener.format
         /\ opener'.key = opener.key /\ opener'.previous = p
<1> DEFINE r == opener
           o == [at |-> x, kind |-> r.kind, format |-> r.format, key |-> r.key, previous |-> p]
<1>1. r \in RecorderStates
  OBVIOUS
<1> HIDE DEF r
<1>2. [n \in DOMAIN r |-> IF n \in DOMAIN [at |-> x, previous |-> p] THEN [at |-> x, previous |-> p][n] ELSE r[n]] = o
  BY <1>1 DEF RecorderStates
<1>3. o \in RecorderStates
  BY <1>1 DEF RecorderStates
<1> QED BY <1>2, <1>3 DEF RecorderGoes, r

LEMMA CommandMoves ==
  ASSUME command \in CommandStates, NEW x \in {"open", "generate", "write"}, CommandGoes([at |-> x])
  PROVE  /\ command' \in CommandStates /\ command'.at = x /\ command'.kind = command.kind
         /\ command'.format = command.format /\ command'.key = command.key
<1> DEFINE r == command
           o == [at |-> x, kind |-> r.kind, format |-> r.format, key |-> r.key, previous |-> r.previous]
<1>1. r \in CommandStates
  OBVIOUS
<1> HIDE DEF r
<1>2. [n \in DOMAIN r |-> IF n \in DOMAIN [at |-> x] THEN [at |-> x][n] ELSE r[n]] = o
  BY <1>1 DEF CommandStates
<1>3. o \in CommandStates
  BY <1>1 DEF CommandStates
<1> QED BY <1>2, <1>3 DEF CommandGoes, r

LEMMA CommandHasKey ==
  ASSUME command \in CommandStates, NEW k \in Keys, CommandGoes([at |-> "open", key |-> k])
  PROVE  /\ command' \in CommandStates /\ command'.at = "open" /\ command'.kind = command.kind
         /\ command'.format = command.format /\ command'.key = k
<1> DEFINE r == command
           o == [at |-> "open", kind |-> r.kind, format |-> r.format, key |-> k, previous |-> r.previous]
<1>1. r \in CommandStates
  OBVIOUS
<1> HIDE DEF r
<1>2. [n \in DOMAIN r |-> IF n \in DOMAIN [at |-> "open", key |-> k] THEN [at |-> "open", key |-> k][n] ELSE r[n]] = o
  BY <1>1 DEF CommandStates
<1>3. o \in CommandStates
  BY <1>1 DEF CommandStates
<1> QED BY <1>2, <1>3 DEF CommandGoes, r

LEMMA CommandStarts ==
  ASSUME command \in CommandStates, NEW x \in {"open", "key"}, NEW d \in {"start_paused", "pause", "resume"},
         NEW f \in StoreFormats, CommandGoes([at |-> x, kind |-> d, format |-> f])
  PROVE  /\ command' \in CommandStates /\ command'.at = x /\ command'.kind = d
         /\ command'.format = f /\ command'.key = command.key
<1> DEFINE r == command
           o == [at |-> x, kind |-> d, format |-> f, key |-> r.key, previous |-> r.previous]
<1>1. r \in CommandStates
  OBVIOUS
<1> HIDE DEF r
<1>2. [n \in DOMAIN r |-> IF n \in DOMAIN [at |-> x, kind |-> d, format |-> f]
                          THEN [at |-> x, kind |-> d, format |-> f][n] ELSE r[n]] = o
  BY <1>1 DEF CommandStates
<1>3. o \in CommandStates
  BY <1>1 DEF CommandStates
<1> QED BY <1>2, <1>3 DEF CommandGoes, r

LEMMA NobodyTypes == Nobody \in RecorderStates /\ Nobody \in CommandStates /\ Nobody.at = "idle"
<1>1. 0 \in Keys
  BY DEF Keys
<1> QED BY <1>1 DEF Nobody, RecorderStates, CommandStates, RecorderPlaces

\* A step of the recorder that changes no store: what it knows then, and the key, matter.
LEMMA RecorderActs ==
  ASSUME UpgradeHolds, opener' \in RecorderStates,
         UNCHANGED <<live, walEvents, retired, command, clock, everRecorded, asked>>,
         KeysMade(keyItem', keysMade', opener'.at, command.at),
         keyItem # 0 => keyItem' = keyItem,
         RecorderKnows(opener', keyItem', live, walEvents, AsidePaused(retired)),
         opener'.at # "rename",
         AsidesHold(retired, clock, opener'.at)
  PROVE  UpgradeHolds'
<1>1. UpgradeTypes'
  BY DEF UpgradeHolds, UpgradeTypes
<1>2. AsidePaused(retired)' = AsidePaused(retired)
  OBVIOUS
<1>3. CommandKnows(command', keyItem', live', opener'.at)
  BY DEF UpgradeHolds, CommandKnows
<1>4. LiveHolds(live', walEvents', keyItem')
  BY DEF UpgradeHolds, LiveHolds
<1> QED BY <1>1, <1>2, <1>3, <1>4 DEF UpgradeHolds

LEMMA OpenBeginsKeeps ==
  ASSUME UpgradeHolds, OpenBegins
  PROVE  UpgradeHolds'
<1>1. /\ opener' \in RecorderStates /\ opener'.at = "key"
  <2>1. opener \in RecorderStates /\ live.format \in StoreFormats /\ "key" \in RecorderPlaces
    BY DEF UpgradeHolds, UpgradeTypes, LiveStores, RecorderPlaces
  <2> QED BY <2>1, RecorderSees DEF OpenBegins, Probed
<1>2. KeysMade(keyItem', keysMade', opener'.at, command.at)
  BY <1>1 DEF OpenBegins, UpgradeHolds, KeysMade
<1>3. RecorderKnows(opener', keyItem', live, walEvents, AsidePaused(retired))
  BY <1>1 DEF RecorderKnows, WithKey, WithStore
<1>4. AsidesHold(retired, clock, opener'.at)
  BY <1>1 DEF UpgradeHolds, AsidesHold
<1> QED BY <1>1, <1>2, <1>3, <1>4, RecorderActs DEF OpenBegins, Bounds, History

LEMMA OpenFailsKeeps ==
  ASSUME UpgradeHolds, OpenFails
  PROVE  UpgradeHolds'
<1>1. /\ opener' \in RecorderStates /\ opener'.at = "idle"
  BY NobodyTypes DEF OpenFails
<1>2. KeysMade(keyItem', keysMade', opener'.at, command.at)
  BY <1>1 DEF OpenFails, UpgradeHolds, KeysMade
<1>3. RecorderKnows(opener', keyItem', live, walEvents, AsidePaused(retired))
  BY <1>1 DEF RecorderKnows, WithKey, WithStore
<1>4. AsidesHold(retired, clock, opener'.at)
  BY <1>1 DEF UpgradeHolds, AsidesHold
<1> QED BY <1>1, <1>2, <1>3, <1>4, RecorderActs DEF OpenFails, Bounds, History

LEMMA AfterKeyPlaces ==
  ASSUME NEW f
  PROVE  AfterKey(f) \in {"guard", "restrict"} /\ AfterKey(f) \in RecorderPlaces
BY DEF AfterKey, RecorderPlaces

LEMMA LoadKeyKeeps ==
  ASSUME UpgradeHolds, LoadKey
  PROVE  UpgradeHolds'
<1>1. opener \in RecorderStates /\ keyItem \in Keys /\ "generate" \in RecorderPlaces
  BY DEF UpgradeHolds, UpgradeTypes, KeysMade, Keys, RecorderPlaces
<1>2. CASE keyItem # 0 /\ RecorderGoes([at |-> AfterKey(opener.format), key |-> keyItem])
  <2>1. opener' \in RecorderStates /\ opener'.at \in {"guard", "restrict"} /\ opener'.key = keyItem
    BY <1>1, <1>2, AfterKeyPlaces, RecorderHasKey
  <2>2. KeysMade(keyItem', keysMade', opener'.at, command.at)
    BY <2>1 DEF LoadKey, UpgradeHolds, KeysMade
  <2>3. RecorderKnows(opener', keyItem', live, walEvents, AsidePaused(retired))
    BY <1>2, <2>1 DEF LoadKey, RecorderKnows, WithKey, WithStore
  <2>4. AsidesHold(retired, clock, opener'.at)
    BY <2>1 DEF UpgradeHolds, AsidesHold
  <2> QED BY <2>1, <2>2, <2>3, <2>4, RecorderActs DEF LoadKey, Bounds, History
<1>3. CASE keyItem = 0 /\ RecorderGoes([at |-> "generate"])
  <2>1. opener' \in RecorderStates /\ opener'.at = "generate"
    BY <1>1, <1>3, RecorderMoves
  <2>2. KeysMade(keyItem', keysMade', opener'.at, command.at)
    BY <1>3, <2>1 DEF LoadKey, UpgradeHolds, KeysMade
  <2>3. RecorderKnows(opener', keyItem', live, walEvents, AsidePaused(retired))
    BY <2>1 DEF RecorderKnows, WithKey, WithStore
  <2>4. AsidesHold(retired, clock, opener'.at)
    BY <2>1 DEF UpgradeHolds, AsidesHold
  <2> QED BY <2>1, <2>2, <2>3, <2>4, RecorderActs DEF LoadKey, Bounds, History
<1> QED BY <1>2, <1>3 DEF LoadKey

\* Who generates a key has one afterwards: the one there was, or the new one.
LEMMA KeyGenerated ==
  ASSUME KeysMade(keyItem, keysMade, opener.at, command.at),
         opener.at = "generate" \/ command.at = "generate",
         keysMade' = keysMade + 1, keyItem' = IF keyItem = 0 THEN keysMade + 1 ELSE keyItem
  PROVE  /\ Generated \in Keys /\ Generated # 0 /\ keyItem' = Generated
         /\ keyItem # 0 => keyItem' = keyItem
         /\ keyItem' \in 1 .. 2 /\ keysMade' \in 1 .. 2
         /\ keysMade' = 2 => ~(opener.at = "generate" /\ command.at = "generate")
BY DEF KeysMade, Generated, Keys

LEMMA CreateKeyKeeps ==
  ASSUME UpgradeHolds, CreateKey
  PROVE  UpgradeHolds'
<1>1. opener \in RecorderStates
  BY DEF UpgradeHolds, UpgradeTypes
<1>2. /\ Generated \in Keys /\ Generated # 0 /\ keyItem' = Generated
      /\ keyItem # 0 => keyItem' = keyItem
      /\ keyItem' \in 1 .. 2 /\ keysMade' \in 1 .. 2
      /\ keysMade' = 2 => ~(opener.at = "generate" /\ command.at = "generate")
  BY KeyGenerated DEF UpgradeHolds, CreateKey
<1>3. opener' \in RecorderStates /\ opener'.at \in {"guard", "restrict"} /\ opener'.key = Generated
  BY <1>1, <1>2, AfterKeyPlaces, RecorderHasKey DEF CreateKey
<1>4. KeysMade(keyItem', keysMade', opener'.at, command.at)
  <2>1. keysMade' = 1 \/ keysMade' = 2
    BY <1>2
  <2> QED BY <1>2, <1>3, <2>1 DEF CreateKey, KeysMade
<1>5. RecorderKnows(opener', keyItem', live, walEvents, AsidePaused(retired))
  BY <1>2, <1>3 DEF RecorderKnows, WithKey, WithStore
<1>6. AsidesHold(retired, clock, opener'.at)
  BY <1>3 DEF UpgradeHolds, AsidesHold
<1> QED BY <1>2, <1>3, <1>4, <1>5, <1>6, RecorderActs DEF CreateKey, Bounds, History

LEMMA ReadPreviousKeeps ==
  ASSUME UpgradeHolds, ReadPrevious
  PROVE  UpgradeHolds'
<1>1. AsidePaused(retired) \in BOOLEAN
  BY DEF AsidePaused
<1>2. opener \in RecorderStates /\ "adopt" \in RecorderPlaces
  BY DEF UpgradeHolds, UpgradeTypes, RecorderPlaces
<1>3. /\ opener' \in RecorderStates /\ opener'.at = "adopt" /\ opener'.key = opener.key
      /\ opener'.previous = AsidePaused(retired)
  BY <1>1, <1>2, RecorderHasRead DEF ReadPrevious
<1>4. KeysMade(keyItem', keysMade', opener'.at, command.at)
  BY <1>3 DEF ReadPrevious, UpgradeHolds, KeysMade
<1>5. RecorderKnows(opener', keyItem', live, walEvents, AsidePaused(retired))
  BY <1>3 DEF ReadPrevious, UpgradeHolds, RecorderKnows, WithKey, WithStore
<1>6. AsidesHold(retired, clock, opener'.at)
  BY <1>3 DEF ReadPrevious, UpgradeHolds, AsidesHold
<1> QED BY <1>3, <1>4, <1>5, <1>6, RecorderActs DEF ReadPrevious, Bounds, History

\* The stores that the steps make, field by field.
Holds(c, f, k, t, o, p, e) ==
  /\ c \in LiveStores /\ c.format = f /\ c.key = k /\ c.tables = t /\ c.owed = o
  /\ c.paused = p /\ c.events = e

LEMMA Carried ==
  ASSUME NEW s \in LiveStores, NEW p \in BOOLEAN
  PROVE  Holds([s EXCEPT !.owed = FALSE, !.paused = @ \/ p],
               s.format, s.key, s.tables, FALSE, s.paused \/ p, s.events)
<1> DEFINE a == [s EXCEPT !.owed = FALSE]
           b == [a EXCEPT !.paused = s.paused \/ p]
<1>1. [s EXCEPT !.owed = FALSE, !.paused = @ \/ p] = b
  BY DEF LiveStores
<1>2. Holds(a, s.format, s.key, s.tables, FALSE, s.paused, s.events)
  BY DEF LiveStores, Holds
<1> HIDE DEF a
<1>3. s.paused \/ p \in BOOLEAN
  OBVIOUS
<1>4. Holds(b, s.format, s.key, s.tables, FALSE, s.paused \/ p, s.events)
  BY <1>2, <1>3 DEF LiveStores, Holds
<1> QED BY <1>1, <1>4

LEMMA Tabled ==
  ASSUME NEW s \in LiveStores
  PROVE  Holds(Initialised(s), s.format, s.key, TRUE, s.owed \/ ~s.tables, s.paused, s.events)
<1>1. CASE s.tables
  <2>1. s.tables = TRUE /\ (s.owed \/ ~s.tables) = s.owed
    BY <1>1 DEF LiveStores
  <2> QED BY <1>1, <2>1 DEF Initialised, LiveStores, Holds
<1>2. CASE ~s.tables
  <2> DEFINE a == [s EXCEPT !.tables = TRUE]
             b == [a EXCEPT !.owed = TRUE]
  <2>1. [s EXCEPT !.tables = TRUE, !.owed = TRUE] = b
    BY DEF LiveStores
  <2>2. Holds(a, s.format, s.key, TRUE, s.owed, s.paused, s.events)
    BY DEF LiveStores, Holds
  <2> HIDE DEF a
  <2>3. Holds(b, s.format, s.key, TRUE, TRUE, s.paused, s.events)
    BY <2>2 DEF LiveStores, Holds
  <2>4. (s.owed \/ ~s.tables) = TRUE
    BY <1>2
  <2> QED BY <1>2, <2>1, <2>3, <2>4 DEF Initialised
<1> QED BY <1>1, <1>2

LEMMA WithEvents ==
  ASSUME NEW s \in LiveStores, NEW e \in SUBSET Times
  PROVE  Holds([s EXCEPT !.events = e], s.format, s.key, s.tables, s.owed, s.paused, e)
BY DEF LiveStores, Holds

LEMMA WithPause ==
  ASSUME NEW s \in LiveStores, NEW p \in BOOLEAN
  PROVE  Holds([s EXCEPT !.paused = p], s.format, s.key, s.tables, s.owed, p, s.events)
BY DEF LiveStores, Holds

LEMMA NewStores ==
  /\ Holds(NoStore, "missing", 0, FALSE, FALSE, FALSE, {})
  /\ Holds([NoStore EXCEPT !.format = "plaintext"], "plaintext", 0, FALSE, FALSE, FALSE, {})
  /\ \A k \in Keys : Holds(Keyed(k), "encrypted", k, FALSE, FALSE, FALSE, {})
<1> DEFINE n == NoStore
<1>1. 0 \in Keys
  BY DEF Keys
<1>2. Holds(n, "missing", 0, FALSE, FALSE, FALSE, {})
  BY <1>1 DEF NoStore, LiveStores, StoreFormats, Holds
<1> HIDE DEF n
<1>3. Holds([n EXCEPT !.format = "plaintext"], "plaintext", 0, FALSE, FALSE, FALSE, {})
  BY <1>2 DEF LiveStores, StoreFormats, Holds
<1>4. ASSUME NEW k \in Keys
      PROVE  Holds(Keyed(k), "encrypted", k, FALSE, FALSE, FALSE, {})
  <2> DEFINE a == [n EXCEPT !.format = "encrypted"]
             b == [a EXCEPT !.key = k]
  <2>1. [n EXCEPT !.format = "encrypted", !.key = k] = b
    BY <1>2 DEF LiveStores, Holds
  <2>2. Holds(a, "encrypted", 0, FALSE, FALSE, FALSE, {})
    BY <1>2 DEF LiveStores, StoreFormats, Holds
  <2> HIDE DEF a
  <2>3. Holds(b, "encrypted", k, FALSE, FALSE, FALSE, {})
    BY <2>2 DEF LiveStores, Holds
  <2> QED BY <2>1, <2>3 DEF Keyed, n
<1> QED BY <1>2, <1>3, <1>4 DEF n

\* The types after a step that makes s of the live store.
LEMMA LiveTypes ==
  ASSUME UpgradeTypes, NEW f, NEW k, NEW t, NEW o, NEW p, NEW e, Holds(live', f, k, t, o, p, e),
         walEvents' \in SUBSET Times, UNCHANGED <<retired, clock>>,
         opener' \in RecorderStates, command' \in CommandStates, everRecorded' \in SUBSET Times,
         asked' \in {"paused", "running", "unsettled"}
  PROVE  UpgradeTypes'
BY DEF UpgradeTypes, Holds

LEMMA GuardPlaintextKeeps ==
  ASSUME UpgradeHolds, GuardPlaintext
  PROVE  UpgradeHolds'
<1>1. /\ opener \in RecorderStates /\ live \in LiveStores /\ walEvents \in SUBSET Times
      /\ command \in CommandStates /\ everRecorded \in SUBSET Times
      /\ asked \in {"paused", "running", "unsettled"}
      /\ "rename" \in RecorderPlaces /\ "restrict" \in RecorderPlaces
  BY DEF UpgradeHolds, UpgradeTypes, RecorderPlaces
<1>2. /\ opener.at = "guard" /\ command.at # "write"
      /\ UNCHANGED <<retired, keyItem, keysMade, command, clock, everRecorded, asked>>
  BY DEF GuardPlaintext, Connected, Bounds, History
<1>3. CASE /\ live.format = "plaintext" /\ live' = [live EXCEPT !.events = @ \cup walEvents]
           /\ walEvents' = {} /\ RecorderGoes([at |-> "rename"])
  <2>1. opener' \in RecorderStates /\ opener'.at = "rename" /\ opener'.key = opener.key
    BY <1>1, <1>3, RecorderMoves
  <2>2. live.events \cup walEvents \in SUBSET Times
    BY <1>1 DEF LiveStores
  <2>3. Holds(live', live.format, live.key, live.tables, live.owed, live.paused, live.events \cup walEvents)
    BY <1>1, <1>3, <2>2, WithEvents
  <2>4. UpgradeTypes'
    BY <1>1, <1>2, <1>3, <2>1, <2>3, LiveTypes DEF UpgradeHolds
  <2>5. KeysMade(keyItem', keysMade', opener'.at, command'.at)
    BY <1>2, <2>1 DEF UpgradeHolds, KeysMade
  <2>6. RecorderKnows(opener', keyItem', live', walEvents', AsidePaused(retired'))
    BY <1>2, <1>3, <2>1, <2>3 DEF UpgradeHolds, RecorderKnows, Holds, WithKey, WithStore
  <2>7. CommandKnows(command', keyItem', live', opener'.at)
    BY <1>2, <2>1 DEF UpgradeHolds, CommandKnows
  <2>8. LiveHolds(live', walEvents', keyItem')
    BY <1>2, <1>3, <2>3 DEF LiveHolds, Holds
  <2>9. Numbered(live', DOMAIN retired')
    BY <1>2, <2>3 DEF UpgradeHolds, Numbered, Settled, Holds
  <2>10. Heeds(asked', live', AsidePaused(retired'), command'.at = "write")
    BY <1>2, <1>3, <2>3 DEF UpgradeHolds, Heeds, Settled, Holds
  <2>11. AsidesHold(retired', clock', opener'.at)
    BY <1>2, <2>1 DEF UpgradeHolds, AsidesHold
  <2>12. EventsHold(live', walEvents', clock', everRecorded')
    BY <1>2, <1>3, <2>3 DEF UpgradeHolds, EventsHold, Holds
  <2>13. EventsKept(live', walEvents', retired', clock', everRecorded')
    BY <1>2, <1>3, <2>3 DEF UpgradeHolds, EventsKept, Holds
  <2> QED BY <2>4, <2>5, <2>6, <2>7, <2>8, <2>9, <2>10, <2>11, <2>12, <2>13 DEF UpgradeHolds
<1>4. CASE /\ live.format # "plaintext" /\ RecorderGoes([at |-> "restrict"])
           /\ UNCHANGED <<live, walEvents>>
  <2>1. opener' \in RecorderStates /\ opener'.at = "restrict" /\ opener'.key = opener.key
    BY <1>1, <1>4, RecorderMoves
  <2>2. KeysMade(keyItem', keysMade', opener'.at, command.at)
    BY <1>2, <2>1 DEF UpgradeHolds, KeysMade
  <2>3. RecorderKnows(opener', keyItem', live, walEvents, AsidePaused(retired))
    BY <1>2, <2>1 DEF UpgradeHolds, RecorderKnows, WithKey, WithStore
  <2>4. AsidesHold(retired, clock, opener'.at)
    BY <2>1 DEF UpgradeHolds, AsidesHold
  <2> QED BY <1>2, <1>4, <2>1, <2>2, <2>3, <2>4, RecorderActs
<1> QED BY <1>3, <1>4 DEF GuardPlaintext

LEMMA CreateStoreKeeps ==
  ASSUME UpgradeHolds, CreateStore
  PROVE  UpgradeHolds'
<1>1. /\ opener \in RecorderStates /\ opener.key \in Keys /\ live \in LiveStores
      /\ walEvents \in SUBSET Times /\ {} \in SUBSET Times
      /\ command \in CommandStates /\ everRecorded \in SUBSET Times
      /\ asked \in {"paused", "running", "unsettled"} /\ "commit" \in RecorderPlaces
  BY DEF UpgradeHolds, UpgradeTypes, RecorderPlaces, RecorderStates
<1>2. /\ opener.at = "create" /\ opener.key = keyItem /\ keyItem # 0
      /\ UNCHANGED <<retired, keyItem, keysMade, command, clock, everRecorded, asked>>
  BY DEF CreateStore, Bounds, History, UpgradeHolds, RecorderKnows, WithKey
<1>3. opener' \in RecorderStates /\ opener'.at = "commit" /\ opener'.key = opener.key
  BY <1>1, RecorderMoves DEF CreateStore
<1>4. KeysMade(keyItem', keysMade', opener'.at, command'.at)
  BY <1>2, <1>3 DEF UpgradeHolds, KeysMade
<1>5. AsidesHold(retired', clock', opener'.at)
  BY <1>2, <1>3 DEF UpgradeHolds, AsidesHold
<1>6. CASE live.format = "missing" /\ live' = Keyed(opener.key) /\ walEvents' = {}
  <2>1. Holds(live', "encrypted", keyItem, FALSE, FALSE, FALSE, {})
    BY <1>1, <1>2, <1>6, NewStores
  <2>2. Holds(live, "missing", 0, FALSE, FALSE, FALSE, {}) /\ walEvents = {}
    BY <1>6, NewStores DEF UpgradeHolds, LiveHolds
  <2>3. UpgradeTypes'
    BY <1>1, <1>2, <1>3, <1>6, <2>1, LiveTypes DEF UpgradeHolds
  <2>4. RecorderKnows(opener', keyItem', live', walEvents', AsidePaused(retired'))
    BY <1>2, <1>3, <2>1 DEF RecorderKnows, Holds, WithKey, WithStore
  <2>5. CommandKnows(command', keyItem', live', opener'.at)
    BY <1>2, <1>6 DEF UpgradeHolds, CommandKnows
  <2>6. LiveHolds(live', walEvents', keyItem')
    BY <1>2, <1>6, <2>1 DEF LiveHolds, Holds
  <2>7. Numbered(live', DOMAIN retired')
    BY <1>2, <1>6 DEF UpgradeHolds, Numbered, Settled
  <2>8. Heeds(asked', live', AsidePaused(retired'), command'.at = "write")
    BY <1>2, <1>6, <2>1 DEF UpgradeHolds, Heeds, Settled, Holds
  <2>9. EventsHold(live', walEvents', clock', everRecorded')
    BY <1>2, <1>6, <2>1 DEF UpgradeHolds, EventsHold, Holds
  <2>10. EventsKept(live', walEvents', retired', clock', everRecorded')
    BY <1>2, <1>6, <2>1, <2>2 DEF UpgradeHolds, EventsKept, Holds
  <2> QED BY <1>4, <1>5, <2>3, <2>4, <2>5, <2>6, <2>7, <2>8, <2>9, <2>10 DEF UpgradeHolds
<1>7. CASE live.format = "encrypted" /\ UNCHANGED <<live, walEvents>>
  <2>1. RecorderKnows(opener', keyItem', live, walEvents, AsidePaused(retired))
    BY <1>2, <1>3, <1>7 DEF RecorderKnows, WithKey, WithStore
  <2> QED BY <1>2, <1>3, <1>4, <1>5, <1>7, <2>1, RecorderActs
<1> QED BY <1>6, <1>7 DEF CreateStore

LEMMA CommitTablesKeeps ==
  ASSUME UpgradeHolds, CommitTables
  PROVE  UpgradeHolds'
<1> DEFINE s == Initialised(live)
           x == IF s.owed THEN "previous" ELSE "retention"
<1>1. /\ opener \in RecorderStates /\ live \in LiveStores
      /\ walEvents \in SUBSET Times
      /\ command \in CommandStates /\ everRecorded \in SUBSET Times
      /\ asked \in {"paused", "running", "unsettled"} /\ x \in RecorderPlaces
  BY DEF UpgradeHolds, UpgradeTypes, RecorderPlaces
<1>2. /\ opener.at = "commit" /\ opener.key = keyItem /\ keyItem # 0 /\ live.format = "encrypted"
      /\ UNCHANGED <<walEvents, retired, keyItem, keysMade, command, clock, everRecorded, asked>>
  BY DEF CommitTables, Bounds, History, UpgradeHolds, RecorderKnows, WithKey, WithStore
<1>3. opener' \in RecorderStates /\ opener'.at = x /\ opener'.key = opener.key
  BY <1>1, RecorderMoves DEF CommitTables
<1>4. live' = s /\ Holds(s, live.format, live.key, TRUE, live.owed \/ ~live.tables, live.paused, live.events)
  BY <1>1, Tabled DEF CommitTables
<1>5. /\ x = "previous" => s.owed
      /\ x = "retention" => ~s.owed
      /\ x \in {"previous", "retention"}
  OBVIOUS
<1> HIDE DEF s, x
<1>6. KeysMade(keyItem', keysMade', opener'.at, command'.at)
  BY <1>2, <1>3, <1>5 DEF UpgradeHolds, KeysMade
<1>7. AsidesHold(retired', clock', opener'.at)
  BY <1>2, <1>3 DEF UpgradeHolds, AsidesHold
<1>8. UpgradeTypes'
  BY <1>1, <1>2, <1>3, <1>4, LiveTypes DEF UpgradeHolds
<1>9. RecorderKnows(opener', keyItem', live', walEvents', AsidePaused(retired'))
  BY <1>2, <1>3, <1>4, <1>5 DEF RecorderKnows, Settled, Holds, WithKey, WithStore
<1>10. CommandKnows(command', keyItem', live', opener'.at)
  BY <1>2, <1>3, <1>4, <1>5 DEF UpgradeHolds, CommandKnows, Holds
<1>11. LiveHolds(live', walEvents', keyItem')
  BY <1>2, <1>4 DEF UpgradeHolds, LiveHolds, Holds
<1>12. Settled(live) = Settled(s)
  BY <1>2, <1>4 DEF Settled, Holds
<1>13. Numbered(live', DOMAIN retired')
  BY <1>2, <1>4, <1>12 DEF UpgradeHolds, Numbered
<1>14. Heeds(asked', live', AsidePaused(retired'), command'.at = "write")
  BY <1>2, <1>4, <1>12 DEF UpgradeHolds, Heeds, Holds
<1>15. EventsHold(live', walEvents', clock', everRecorded')
  BY <1>2, <1>4 DEF UpgradeHolds, EventsHold, Holds
<1>16. EventsKept(live', walEvents', retired', clock', everRecorded')
  BY <1>2, <1>4 DEF UpgradeHolds, EventsKept, Holds
<1> QED BY <1>6, <1>7, <1>8, <1>9, <1>10, <1>11, <1>13, <1>14, <1>15, <1>16 DEF UpgradeHolds

LEMMA SetAsideKeeps ==
  ASSUME UpgradeHolds, SetAside
  PROVE  UpgradeHolds'
<1>1. /\ opener \in RecorderStates /\ live \in LiveStores
      /\ walEvents \in SUBSET Times /\ clock \in Times
      /\ command \in CommandStates /\ everRecorded \in SUBSET Times
      /\ asked \in {"paused", "running", "unsettled"}
      /\ "companions" \in RecorderPlaces /\ "missing" \in StoreFormats
      /\ \A n \in DOMAIN retired : n \in Nat \ {0} /\ retired[n] \in AsideStores
  BY DEF UpgradeHolds, UpgradeTypes, RecorderPlaces, StoreFormats
<1>2. /\ opener.at = "rename" /\ live.format = "plaintext" /\ walEvents = {} /\ command.at # "write"
      /\ opener.key = keyItem /\ keyItem # 0
      /\ UNCHANGED <<walEvents, keyItem, keysMade, command, clock, everRecorded, asked>>
  BY DEF SetAside, Bounds, History, UpgradeHolds, RecorderKnows, CommandKnows, WithKey
<1>3. /\ opener' \in RecorderStates /\ opener'.at = "companions" /\ opener'.key = opener.key
  BY <1>1, RecorderSees DEF SetAside
<1>4. live' = NoStore /\ Holds(live', "missing", 0, FALSE, FALSE, FALSE, {})
  BY NewStores DEF SetAside
<1>5. PICK last \in Nat : DOMAIN retired = 1 .. last
  BY <1>2 DEF UpgradeHolds, Numbered, Settled
<1> DEFINE new == last + 1
           a == AsideOf(live)
<1>6. a \in AsideStores /\ a.at = clock /\ a.paused = live.paused /\ a.events = live.events
  BY <1>1 DEF AsideOf, AsideStores, LiveStores
<1>7. retired' = [n \in DOMAIN retired \cup {new} |-> IF n = new THEN a ELSE retired[n]]
  BY <1>5, NewestIs DEF SetAside
<1> HIDE DEF a
<1>8. /\ DOMAIN retired' = 1 .. new /\ new \in Nat \ {0} /\ retired'[new] = a
      /\ \A n \in DOMAIN retired : n \in DOMAIN retired' /\ retired'[n] = retired[n]
      /\ \A n \in DOMAIN retired' : n = new \/ n \in DOMAIN retired
  BY <1>5, <1>7
<1>9. AsidePaused(retired') = live.paused
  <2>1. Newest(retired') = new
    BY <1>8, NewestIs
  <2> QED BY <1>1, <1>6, <1>8, <2>1 DEF AsidePaused, LiveStores
<1> HIDE DEF new
<1>10. UpgradeTypes'
  <2>1. live' \in LiveStores
    BY <1>4 DEF Holds
  <2>2. \A n \in DOMAIN retired' : n \in Nat \ {0} /\ retired'[n] \in AsideStores
    BY <1>1, <1>6, <1>8
  <2> QED BY <1>1, <1>2, <1>3, <2>1, <2>2 DEF UpgradeTypes
<1>11. KeysMade(keyItem', keysMade', opener'.at, command'.at)
  BY <1>2, <1>3 DEF UpgradeHolds, KeysMade
<1>12. RecorderKnows(opener', keyItem', live', walEvents', AsidePaused(retired'))
  BY <1>2, <1>3, <1>4 DEF RecorderKnows, Holds, WithStore, Settled
<1>13. CommandKnows(command', keyItem', live', opener'.at)
  BY <1>2 DEF UpgradeHolds, CommandKnows
<1>14. LiveHolds(live', walEvents', keyItem')
  BY <1>2, <1>4 DEF LiveHolds, Holds
<1>15. Numbered(live', DOMAIN retired')
  BY <1>8 DEF Numbered
<1>16. Heeds(asked', live', AsidePaused(retired'), command'.at = "write")
  <2>1. (asked = "paused" => live.paused) /\ (asked = "running" => ~live.paused)
    BY <1>2 DEF UpgradeHolds, Heeds
  <2> QED BY <1>2, <1>4, <1>9, <2>1 DEF Heeds, Settled, Holds
<1>17. AsidesHold(retired', clock', opener'.at)
  <2>1. ASSUME NEW n \in DOMAIN retired'
        PROVE  retired'[n].at <= clock /\ \A e \in retired'[n].events : e <= retired'[n].at
    <3>1. CASE n = new
      BY <1>1, <1>6, <1>8, <3>1 DEF UpgradeHolds, EventsHold, Times
    <3>2. CASE n \in DOMAIN retired
      BY <1>8, <3>2 DEF UpgradeHolds, AsidesHold
    <3> QED BY <1>8, <3>1, <3>2
  <2> QED BY <1>2, <1>3, <2>1 DEF AsidesHold
<1>18. EventsHold(live', walEvents', clock', everRecorded')
  BY <1>2, <1>4 DEF UpgradeHolds, EventsHold, Holds
<1>19. EventsKept(live', walEvents', retired', clock', everRecorded')
  <2>1. ASSUME NEW e \in everRecorded, e >= clock - Retention
        PROVE  \E n \in DOMAIN retired' : e \in retired'[n].events
    <3>1. CASE e \in live.events
      BY <1>6, <1>8, <3>1
    <3>2. CASE \E n \in DOMAIN retired : e \in retired[n].events
      BY <1>8, <3>2
    <3> QED BY <1>2, <2>1, <3>1, <3>2 DEF UpgradeHolds, EventsKept
  <2> QED BY <1>2, <2>1 DEF EventsKept
<1> QED BY <1>10, <1>11, <1>12, <1>13, <1>14, <1>15, <1>16, <1>17, <1>18, <1>19 DEF UpgradeHolds

\* Steps that keep the listing's places and which store was paused.
LEMMA SamePaused ==
  ASSUME NEW a, NEW b, NEW last \in Nat, DOMAIN a = 1 .. last, DOMAIN b = DOMAIN a,
         \A n \in DOMAIN a : b[n].paused = a[n].paused
  PROVE  AsidePaused(b) = AsidePaused(a)
<1>1. Newest(a) = last /\ Newest(b) = last
  BY NewestIs
<1>2. last = 0 \/ last \in DOMAIN a
  OBVIOUS
<1> QED BY <1>1, <1>2 DEF AsidePaused

LEMMA SetJournalAsideKeeps ==
  ASSUME UpgradeHolds, SetJournalAside
  PROVE  UpgradeHolds'
<1>1. /\ opener \in RecorderStates /\ "leftovers" \in RecorderPlaces /\ {} \in SUBSET Times
      /\ \A n \in DOMAIN retired : n \in Nat \ {0} /\ retired[n] \in AsideStores
  BY DEF UpgradeHolds, UpgradeTypes, RecorderPlaces
<1>2. /\ opener.at = "companions" /\ ~Settled(live) /\ walEvents = {} /\ walEvents' = {}
      /\ opener.key = keyItem /\ keyItem # 0
      /\ UNCHANGED <<live, keyItem, keysMade, command, clock, everRecorded, asked>>
  BY DEF SetJournalAside, Bounds, History, UpgradeHolds, RecorderKnows, WithKey
<1>3. opener' \in RecorderStates /\ opener'.at = "leftovers" /\ opener'.key = opener.key
  BY <1>1, RecorderMoves DEF SetJournalAside
<1>4. PICK last \in Nat : DOMAIN retired = 1 .. last
  BY <1>2 DEF UpgradeHolds, Numbered
<1>5. /\ DOMAIN retired' = DOMAIN retired
      /\ \A n \in DOMAIN retired :
           /\ retired'[n] \in AsideStores /\ retired'[n].at = retired[n].at
           /\ retired'[n].paused = retired[n].paused /\ retired'[n].events = retired[n].events
  <2>1. retired' = [retired EXCEPT ![last].events = @ \cup {}]
    BY <1>2, <1>4, NewestIs DEF SetJournalAside
  <2> QED BY <1>1, <2>1 DEF AsideStores
<1>6. AsidePaused(retired') = AsidePaused(retired)
  BY <1>4, <1>5, SamePaused
<1>7. UpgradeTypes'
  BY <1>1, <1>2, <1>3, <1>5 DEF UpgradeHolds, UpgradeTypes
<1>8. KeysMade(keyItem', keysMade', opener'.at, command'.at)
  BY <1>2, <1>3 DEF UpgradeHolds, KeysMade
<1>9. RecorderKnows(opener', keyItem', live', walEvents', AsidePaused(retired'))
  BY <1>2, <1>3 DEF RecorderKnows, WithStore
<1>10. CommandKnows(command', keyItem', live', opener'.at)
  BY <1>2, <1>3 DEF UpgradeHolds, CommandKnows
<1>11. LiveHolds(live', walEvents', keyItem') /\ Numbered(live', DOMAIN retired')
  BY <1>2, <1>5 DEF UpgradeHolds, LiveHolds
<1>12. Heeds(asked', live', AsidePaused(retired'), command'.at = "write")
  BY <1>2, <1>6 DEF UpgradeHolds
<1>13. AsidesHold(retired', clock', opener'.at)
  BY <1>2, <1>3, <1>5 DEF UpgradeHolds, AsidesHold
<1>14. EventsHold(live', walEvents', clock', everRecorded')
  BY <1>2 DEF UpgradeHolds
<1>15. EventsKept(live', walEvents', retired', clock', everRecorded')
  BY <1>2, <1>5 DEF UpgradeHolds, EventsKept
<1> QED BY <1>7, <1>8, <1>9, <1>10, <1>11, <1>12, <1>13, <1>14, <1>15 DEF UpgradeHolds

LEMMA RemoveLeftoversKeeps ==
  ASSUME UpgradeHolds, RemoveLeftovers
  PROVE  UpgradeHolds'
<1>1. opener \in RecorderStates /\ "restrict" \in RecorderPlaces
  BY DEF UpgradeHolds, UpgradeTypes, RecorderPlaces
<1>2. /\ opener.at = "leftovers" /\ walEvents = {} /\ walEvents' = {} /\ opener.key = keyItem /\ keyItem # 0
      /\ UNCHANGED <<live, retired, keyItem, keysMade, command, clock, everRecorded, asked>>
  BY DEF RemoveLeftovers, Bounds, History, UpgradeHolds, RecorderKnows, WithKey
<1>3. opener' \in RecorderStates /\ opener'.at = "restrict" /\ opener'.key = opener.key
  BY <1>1, RecorderMoves DEF RemoveLeftovers
<1>4. KeysMade(keyItem', keysMade', opener'.at, command.at)
  BY <1>2, <1>3 DEF UpgradeHolds, KeysMade
<1>5. RecorderKnows(opener', keyItem', live, walEvents, AsidePaused(retired))
  BY <1>2, <1>3 DEF RecorderKnows, WithStore
<1>6. AsidesHold(retired, clock, opener'.at)
  BY <1>3 DEF UpgradeHolds, AsidesHold
<1> QED BY <1>2, <1>3, <1>4, <1>5, <1>6, RecorderActs

LEMMA RestrictRetiredKeeps ==
  ASSUME UpgradeHolds, RestrictRetired
  PROVE  UpgradeHolds'
<1>1. /\ opener \in RecorderStates /\ "create" \in RecorderPlaces
      /\ \A n \in DOMAIN retired : n \in Nat \ {0} /\ retired[n] \in AsideStores
  BY DEF UpgradeHolds, UpgradeTypes, RecorderPlaces
<1>2. /\ opener.at = "restrict" /\ opener.key = keyItem /\ keyItem # 0
      /\ UNCHANGED <<live, walEvents, keyItem, keysMade, command, clock, everRecorded, asked>>
  BY DEF RestrictRetired, Bounds, History, UpgradeHolds, RecorderKnows, WithKey
<1>3. opener' \in RecorderStates /\ opener'.at = "create" /\ opener'.key = opener.key
  BY <1>1, RecorderMoves DEF RestrictRetired
<1>4. /\ DOMAIN retired' = DOMAIN retired
      /\ \A n \in DOMAIN retired :
           /\ retired'[n] \in AsideStores /\ retired'[n].at = retired[n].at
           /\ retired'[n].paused = retired[n].paused /\ retired'[n].events = retired[n].events
           /\ retired'[n].private
  BY <1>1 DEF RestrictRetired, AsideStores
<1>5. UpgradeTypes'
  BY <1>1, <1>2, <1>3, <1>4 DEF UpgradeHolds, UpgradeTypes
<1>6. KeysMade(keyItem', keysMade', opener'.at, command'.at)
  BY <1>2, <1>3 DEF UpgradeHolds, KeysMade
<1>7. RecorderKnows(opener', keyItem', live', walEvents', AsidePaused(retired'))
  BY <1>2, <1>3 DEF RecorderKnows, WithStore
<1>8. CommandKnows(command', keyItem', live', opener'.at)
  BY <1>2, <1>3 DEF UpgradeHolds, CommandKnows
<1>9. LiveHolds(live', walEvents', keyItem') /\ Numbered(live', DOMAIN retired')
  BY <1>2, <1>4 DEF UpgradeHolds
<1>10. Heeds(asked', live', AsidePaused(retired'), command'.at = "write")
  <2>1. CASE Settled(live)
    BY <1>2, <2>1 DEF UpgradeHolds, Heeds, Settled
  <2>2. CASE ~Settled(live)
    <3>1. PICK last \in Nat : DOMAIN retired = 1 .. last
      BY <2>2 DEF UpgradeHolds, Numbered
    <3>2. AsidePaused(retired') = AsidePaused(retired)
      BY <1>4, <3>1, SamePaused
    <3> QED BY <1>2, <3>2 DEF UpgradeHolds
  <2> QED BY <2>1, <2>2
<1>11. AsidesHold(retired', clock', opener'.at)
  BY <1>2, <1>3, <1>4 DEF UpgradeHolds, AsidesHold
<1>12. EventsHold(live', walEvents', clock', everRecorded')
  BY <1>2 DEF UpgradeHolds
<1>13. EventsKept(live', walEvents', retired', clock', everRecorded')
  BY <1>2, <1>4 DEF UpgradeHolds, EventsKept
<1> QED BY <1>5, <1>6, <1>7, <1>8, <1>9, <1>10, <1>11, <1>12, <1>13 DEF UpgradeHolds

LEMMA AdoptStateKeeps ==
  ASSUME UpgradeHolds, AdoptState
  PROVE  UpgradeHolds'
<1> DEFINE p == opener.previous
<1>1. /\ opener \in RecorderStates /\ live \in LiveStores /\ p \in BOOLEAN
      /\ walEvents \in SUBSET Times
      /\ command \in CommandStates /\ everRecorded \in SUBSET Times
      /\ asked \in {"paused", "running", "unsettled"} /\ "retention" \in RecorderPlaces
  BY DEF UpgradeHolds, UpgradeTypes, RecorderPlaces, RecorderStates
<1>2. /\ opener.at = "adopt" /\ opener.key = keyItem /\ keyItem # 0
      /\ live.format = "encrypted" /\ live.tables
      /\ live.owed => p = AsidePaused(retired)
      /\ UNCHANGED <<walEvents, retired, keyItem, keysMade, command, clock, everRecorded, asked>>
  BY DEF AdoptState, Bounds, History, UpgradeHolds, RecorderKnows, WithKey, WithStore
<1>3. opener' \in RecorderStates /\ opener'.at = "retention" /\ opener'.key = opener.key
  BY <1>1, RecorderMoves DEF AdoptState
<1> HIDE DEF p
<1>4. Holds(live', live.format, live.key, live.tables, FALSE, live.paused \/ (live.owed /\ p), live.events)
  <2>1. CASE live.owed
    <3>1. live' = [live EXCEPT !.owed = FALSE, !.paused = @ \/ p]
      BY <2>1 DEF AdoptState, p
    <3>2. (live.paused \/ (live.owed /\ p)) = (live.paused \/ p)
      BY <2>1
    <3> QED BY <1>1, <3>1, <3>2, Carried
  <2>2. CASE ~live.owed
    <3>1. live' = live /\ live.owed = FALSE
      BY <1>1, <2>2 DEF AdoptState, LiveStores
    <3>2. (live.paused \/ (live.owed /\ p)) = live.paused
      BY <1>1, <2>2 DEF LiveStores
    <3> QED BY <1>1, <3>1, <3>2 DEF Holds
  <2> QED BY <2>1, <2>2
<1>5. Settled(live')
  BY <1>2, <1>4 DEF Settled, Holds
<1>6. UpgradeTypes'
  BY <1>1, <1>2, <1>3, <1>4, LiveTypes DEF UpgradeHolds
<1>7. KeysMade(keyItem', keysMade', opener'.at, command'.at)
  BY <1>2, <1>3 DEF UpgradeHolds, KeysMade
<1>8. RecorderKnows(opener', keyItem', live', walEvents', AsidePaused(retired'))
  BY <1>2, <1>3, <1>4, <1>5 DEF RecorderKnows, Holds
<1>9. CommandKnows(command', keyItem', live', opener'.at)
  BY <1>2, <1>3, <1>4 DEF UpgradeHolds, CommandKnows, Holds
<1>10. LiveHolds(live', walEvents', keyItem')
  BY <1>2, <1>4 DEF UpgradeHolds, LiveHolds, Holds
<1>11. Numbered(live', DOMAIN retired')
  BY <1>5 DEF Numbered
<1>12. Heeds(asked', live', AsidePaused(retired'), command'.at = "write")
  <2>1. (asked = "paused" => live'.paused) /\ (asked = "running" => ~live'.paused)
    <3>1. CASE Settled(live)
      BY <3>1, <1>4 DEF UpgradeHolds, Heeds, Settled, Holds
    <3>2. CASE ~Settled(live)
      <4>1. live.owed
        BY <1>2, <3>2 DEF Settled
      <4> QED BY <1>2, <1>4, <3>2, <4>1 DEF UpgradeHolds, Heeds, Holds
    <3> QED BY <3>1, <3>2
  <2> QED BY <1>2, <1>5, <2>1 DEF Heeds, Settled
<1>13. AsidesHold(retired', clock', opener'.at)
  BY <1>2, <1>3 DEF UpgradeHolds, AsidesHold
<1>14. EventsHold(live', walEvents', clock', everRecorded')
  BY <1>2, <1>4 DEF UpgradeHolds, EventsHold, Holds
<1>15. EventsKept(live', walEvents', retired', clock', everRecorded')
  BY <1>2, <1>4 DEF UpgradeHolds, EventsKept, Holds
<1> QED BY <1>6, <1>7, <1>8, <1>9, <1>10, <1>11, <1>12, <1>13, <1>14, <1>15 DEF UpgradeHolds

LEMMA ApplyRetentionKeeps ==
  ASSUME UpgradeHolds, ApplyRetention
  PROVE  UpgradeHolds'
<1>1. /\ opener \in RecorderStates /\ live \in LiveStores
      /\ walEvents \in SUBSET Times /\ clock \in Times
      /\ command \in CommandStates /\ everRecorded \in SUBSET Times
      /\ asked \in {"paused", "running", "unsettled"} /\ "recording" \in RecorderPlaces
      /\ \A n \in DOMAIN retired : n \in Nat \ {0} /\ retired[n] \in AsideStores
      /\ Recent(live.events) \in SUBSET Times
  BY DEF UpgradeHolds, UpgradeTypes, RecorderPlaces, LiveStores, Recent
<1>2. /\ opener.at \in {"retention", "recording"} /\ opener.key = keyItem /\ keyItem # 0
      /\ live.format = "encrypted" /\ Settled(live)
      /\ UNCHANGED <<walEvents, keyItem, keysMade, command, clock, everRecorded, asked>>
  BY DEF ApplyRetention, Bounds, History, UpgradeHolds, RecorderKnows, WithKey, WithStore
<1>3. opener' \in RecorderStates /\ opener'.at = "recording" /\ opener'.key = opener.key
  BY <1>1, RecorderMoves DEF ApplyRetention
<1>4. Holds(live', live.format, live.key, live.tables, live.owed, live.paused, Recent(live.events))
  BY <1>1, WithEvents DEF ApplyRetention
<1>5. PICK held \in SUBSET DOMAIN retired :
        retired' = [n \in held \cup {m \in DOMAIN retired : ~Expired(retired[m])} |->
                      IF n \in held THEN retired[n] ELSE Purged(retired[n])]
  BY DEF ApplyRetention
<1>6. ASSUME NEW s \in AsideStores
      PROVE  /\ Purged(s) \in AsideStores /\ Purged(s).at = s.at /\ Purged(s).paused = s.paused
             /\ Purged(s).events = Recent(s.events) /\ Purged(s).private = s.private
  BY DEF Purged, AsideStores, Recent
<1>7. ASSUME NEW n \in DOMAIN retired'
      PROVE  /\ n \in DOMAIN retired /\ retired'[n] \in AsideStores /\ retired'[n].at = retired[n].at
             /\ retired'[n].events \subseteq retired[n].events
             /\ retired'[n].private = retired[n].private
  <2>1. n \in DOMAIN retired /\ retired'[n] = IF n \in held THEN retired[n] ELSE Purged(retired[n])
    BY <1>5
  <2>2. Recent(retired[n].events) \subseteq retired[n].events
    BY DEF Recent
  <2> QED BY <1>1, <1>6, <2>1, <2>2
<1>8. Settled(live')
  BY <1>2, <1>4 DEF Settled, Holds
<1>9. UpgradeTypes'
  <2>1. live' \in LiveStores
    BY <1>4 DEF Holds
  <2> QED BY <1>1, <1>2, <1>3, <1>7, <2>1 DEF UpgradeTypes
<1>10. KeysMade(keyItem', keysMade', opener'.at, command'.at)
  BY <1>2, <1>3 DEF UpgradeHolds, KeysMade
<1>11. RecorderKnows(opener', keyItem', live', walEvents', AsidePaused(retired'))
  BY <1>2, <1>3, <1>4, <1>8 DEF RecorderKnows, Holds
<1>12. CommandKnows(command', keyItem', live', opener'.at)
  BY <1>2, <1>3, <1>4 DEF UpgradeHolds, CommandKnows, Holds
<1>13. LiveHolds(live', walEvents', keyItem')
  BY <1>2, <1>4 DEF UpgradeHolds, LiveHolds, Holds
<1>14. Numbered(live', DOMAIN retired')
  BY <1>8 DEF Numbered
<1>15. Heeds(asked', live', AsidePaused(retired'), command'.at = "write")
  <2>1. (asked = "paused" => live'.paused) /\ (asked = "running" => ~live'.paused)
    BY <1>2, <1>4 DEF UpgradeHolds, Heeds, Holds
  <2> QED BY <1>2, <1>8, <2>1 DEF Heeds, Settled
<1>16. AsidesHold(retired', clock', opener'.at)
  <2>1. ASSUME NEW n \in DOMAIN retired'
        PROVE  /\ retired'[n].at <= clock /\ \A e \in retired'[n].events : e <= retired'[n].at
               /\ retired'[n].private
    <3>1. /\ retired[n].at <= clock /\ \A e \in retired[n].events : e <= retired[n].at
          /\ retired[n].private
      BY <1>2, <1>7 DEF UpgradeHolds, AsidesHold
    <3> QED BY <1>7, <3>1
  <2> QED BY <1>2, <2>1 DEF AsidesHold
<1>17. EventsHold(live', walEvents', clock', everRecorded')
  <2>1. Recent(live.events) \subseteq live.events
    BY DEF Recent
  <2> QED BY <1>2, <1>4, <2>1 DEF UpgradeHolds, EventsHold, Holds
<1>18. EventsKept(live', walEvents', retired', clock', everRecorded')
  <2>1. ASSUME NEW e \in everRecorded, e >= clock - Retention
        PROVE  e \in live'.events \/ e \in walEvents \/ \E n \in DOMAIN retired' : e \in retired'[n].events
    <3>1. CASE e \in live.events
      BY <1>4, <2>1, <3>1 DEF Recent, Boundary, Holds
    <3>2. ASSUME NEW n \in DOMAIN retired, e \in retired[n].events
          PROVE  n \in DOMAIN retired' /\ e \in retired'[n].events
      <4>1. CASE n \in held
        BY <1>5, <3>2, <4>1
      <4>2. CASE n \notin held
        <5>1. ~Expired(retired[n])
          <6>1. e <= retired[n].at
            BY <3>2 DEF UpgradeHolds, AsidesHold
          <6>2. retired[n].at \in Int /\ e \in Int /\ clock - Retention \in Int
            BY <1>1, StoreOpeningAssumption DEF AsideStores, Times
          <6> QED BY <2>1, <6>1, <6>2 DEF Expired, Boundary
        <5>2. n \in DOMAIN retired' /\ retired'[n] = Purged(retired[n])
          BY <1>5, <4>2, <5>1
        <5>3. e \in Recent(retired[n].events)
          BY <2>1, <3>2 DEF Recent, Boundary
        <5> QED BY <1>1, <1>6, <5>2, <5>3
      <4> QED BY <4>1, <4>2
    <3> QED BY <2>1, <3>1, <3>2 DEF UpgradeHolds, EventsKept
  <2> QED BY <1>2, <2>1 DEF EventsKept
<1> QED BY <1>9, <1>10, <1>11, <1>12, <1>13, <1>14, <1>15, <1>16, <1>17, <1>18 DEF UpgradeHolds

LEMMA RecordEventKeeps ==
  ASSUME UpgradeHolds, RecordEvent
  PROVE  UpgradeHolds'
<1>1. /\ opener \in RecorderStates /\ live \in LiveStores
      /\ walEvents \in SUBSET Times /\ clock \in Times
      /\ command \in CommandStates /\ everRecorded \in SUBSET Times
      /\ asked \in {"paused", "running", "unsettled"}
      /\ live.events \cup {clock} \in SUBSET Times
  BY DEF UpgradeHolds, UpgradeTypes, LiveStores
<1>2. /\ opener.at = "recording" /\ live.format = "encrypted" /\ Settled(live)
      /\ everRecorded' = everRecorded \cup {clock}
      /\ UNCHANGED <<walEvents, retired, keyItem, keysMade, opener, command, clock, asked>>
  BY DEF RecordEvent, Bounds, UpgradeHolds, RecorderKnows, WithStore
<1>3. Holds(live', live.format, live.key, live.tables, live.owed, live.paused, live.events \cup {clock})
  BY <1>1, WithEvents DEF RecordEvent
<1>4. Settled(live')
  BY <1>2, <1>3 DEF Settled, Holds
<1>5. UpgradeTypes'
  BY <1>1, <1>2, <1>3, LiveTypes DEF UpgradeHolds
<1>6. KeysMade(keyItem', keysMade', opener'.at, command'.at)
  BY <1>2 DEF UpgradeHolds
<1>7. RecorderKnows(opener', keyItem', live', walEvents', AsidePaused(retired'))
  BY <1>2, <1>3, <1>4 DEF UpgradeHolds, RecorderKnows, Holds
<1>8. CommandKnows(command', keyItem', live', opener'.at)
  BY <1>2, <1>3 DEF UpgradeHolds, CommandKnows, Holds
<1>9. LiveHolds(live', walEvents', keyItem')
  BY <1>2, <1>3 DEF UpgradeHolds, LiveHolds, Holds
<1>10. Numbered(live', DOMAIN retired')
  BY <1>4 DEF Numbered
<1>11. Heeds(asked', live', AsidePaused(retired'), command'.at = "write")
  <2>1. (asked = "paused" => live'.paused) /\ (asked = "running" => ~live'.paused)
    BY <1>2, <1>3 DEF UpgradeHolds, Heeds, Holds
  <2> QED BY <1>2, <1>4, <2>1 DEF Heeds, Settled
<1>12. AsidesHold(retired', clock', opener'.at)
  BY <1>2 DEF UpgradeHolds
<1>13. EventsHold(live', walEvents', clock', everRecorded')
  BY <1>1, <1>2, <1>3 DEF UpgradeHolds, EventsHold, Holds, Times
<1>14. EventsKept(live', walEvents', retired', clock', everRecorded')
  BY <1>2, <1>3 DEF UpgradeHolds, EventsKept, Holds
<1> QED BY <1>5, <1>6, <1>7, <1>8, <1>9, <1>10, <1>11, <1>12, <1>13, <1>14 DEF UpgradeHolds

LEMMA OpeningClockKeeps ==
  ASSUME UpgradeHolds, OpeningClock
  PROVE  UpgradeHolds'
<1>1. /\ clock \in Times /\ walEvents \in SUBSET Times /\ everRecorded \in SUBSET Times
      /\ live.events \in SUBSET Times
      /\ \A n \in DOMAIN retired : retired[n].at \in Times
  BY DEF UpgradeHolds, UpgradeTypes, LiveStores, AsideStores
<1>2. /\ clock' = clock + 1 /\ clock' \in Times
      /\ UNCHANGED <<live, walEvents, retired, keyItem, keysMade, opener, command, everRecorded, asked>>
  BY <1>1, StoreOpeningAssumption DEF OpeningClock, Times, History
<1>3. UpgradeTypes'
  BY <1>2 DEF UpgradeHolds, UpgradeTypes
<1>4. AsidesHold(retired', clock', opener'.at)
  BY <1>1, <1>2 DEF UpgradeHolds, AsidesHold, Times
<1>5. EventsHold(live', walEvents', clock', everRecorded')
  <2>1. ASSUME NEW e \in live.events \cup walEvents \cup everRecorded
        PROVE  e <= clock + 1
    <3>1. e \in Times /\ clock \in Times
      BY <1>1
    <3>2. e <= clock
      BY DEF UpgradeHolds, EventsHold
    <3> QED BY <3>1, <3>2 DEF Times
  <2> QED BY <1>2, <2>1 DEF EventsHold
<1>6. EventsKept(live', walEvents', retired', clock', everRecorded')
  <2>1. \A e \in everRecorded : e >= clock' - Retention => e >= clock - Retention
    BY <1>1, <1>2, StoreOpeningAssumption DEF Times
  <2> QED BY <1>2, <2>1 DEF UpgradeHolds, EventsKept
<1> QED BY <1>2, <1>3, <1>4, <1>5, <1>6 DEF UpgradeHolds

-----------------------------------------------------------------------------
\* A step of the command that changes no store.
LEMMA CommandActs ==
  ASSUME UpgradeHolds, command' \in CommandStates, command.at # "write", command'.at # "write",
         UNCHANGED <<live, walEvents, retired, opener, clock, everRecorded, asked>>,
         KeysMade(keyItem', keysMade', opener.at, command'.at),
         keyItem # 0 => keyItem' = keyItem,
         command'.at = "open" => command'.format = "plaintext" \/ (command'.key = keyItem' /\ keyItem' # 0)
  PROVE  UpgradeHolds'
<1>1. UpgradeTypes'
  BY DEF UpgradeHolds, UpgradeTypes
<1>2. AsidePaused(retired)' = AsidePaused(retired)
  OBVIOUS
<1>3. CommandKnows(command', keyItem', live', opener'.at)
  BY DEF CommandKnows
<1>4. LiveHolds(live', walEvents', keyItem')
  BY DEF UpgradeHolds, LiveHolds
<1>5. RecorderKnows(opener', keyItem', live', walEvents', AsidePaused(retired)')
  BY DEF UpgradeHolds, RecorderKnows
<1> QED BY <1>1, <1>2, <1>3, <1>4, <1>5 DEF UpgradeHolds

LEMMA RequestBeginsKeeps ==
  ASSUME UpgradeHolds, NEW kind \in {"start_paused", "pause", "resume"}, RequestBegins(kind)
  PROVE  UpgradeHolds'
<1> DEFINE x == IF Probed = "plaintext" THEN "open" ELSE "key"
<1>1. x \in {"open", "key"} /\ (x = "open" => live.format = "plaintext")
  BY DEF Probed
<1>2. CommandGoes([at |-> x, kind |-> kind, format |-> live.format])
  BY DEF RequestBegins, Probed
<1> HIDE DEF x
<1>3. /\ command \in CommandStates /\ live.format \in StoreFormats
  BY DEF UpgradeHolds, UpgradeTypes, LiveStores
<1>4. /\ command' \in CommandStates /\ command'.at = x /\ command'.format = live.format
  BY <1>1, <1>2, <1>3, CommandStarts
<1>5. /\ command.at = "idle"
      /\ UNCHANGED <<live, walEvents, retired, keyItem, keysMade, opener, clock, everRecorded, asked>>
  BY DEF RequestBegins, History
<1>6. KeysMade(keyItem', keysMade', opener.at, command'.at)
  BY <1>1, <1>4, <1>5 DEF UpgradeHolds, KeysMade
<1> QED BY <1>1, <1>4, <1>5, <1>6, CommandActs

LEMMA RequestKeyKeeps ==
  ASSUME UpgradeHolds, RequestKey
  PROVE  UpgradeHolds'
<1>1. /\ command \in CommandStates /\ keyItem \in Keys
  BY DEF UpgradeHolds, UpgradeTypes, KeysMade, Keys
<1>2. /\ command.at = "key"
      /\ UNCHANGED <<live, walEvents, retired, keyItem, keysMade, opener, clock, everRecorded, asked>>
  BY DEF RequestKey, Bounds, History
<1>3. CASE keyItem # 0 /\ CommandGoes([at |-> "open", key |-> keyItem])
  <2>1. command' \in CommandStates /\ command'.at = "open" /\ command'.key = keyItem
    BY <1>1, <1>3, CommandHasKey
  <2>2. KeysMade(keyItem', keysMade', opener.at, command'.at)
    BY <1>2, <2>1 DEF UpgradeHolds, KeysMade
  <2> QED BY <1>2, <1>3, <2>1, <2>2, CommandActs
<1>4. CASE keyItem = 0 /\ CommandGoes([at |-> "generate"])
  <2>1. command' \in CommandStates /\ command'.at = "generate"
    BY <1>1, <1>4, CommandMoves
  <2>2. KeysMade(keyItem', keysMade', opener.at, command'.at)
    BY <1>2, <1>4, <2>1 DEF UpgradeHolds, KeysMade
  <2> QED BY <1>2, <2>1, <2>2, CommandActs
<1>5. CASE command' = Nobody
  <2>1. command' \in CommandStates /\ command'.at = "idle"
    BY <1>5, NobodyTypes
  <2>2. KeysMade(keyItem', keysMade', opener.at, command'.at)
    BY <1>2, <2>1 DEF UpgradeHolds, KeysMade
  <2> QED BY <1>2, <2>1, <2>2, CommandActs
<1> QED BY <1>3, <1>4, <1>5 DEF RequestKey

LEMMA RequestCreatesKeyKeeps ==
  ASSUME UpgradeHolds, RequestCreatesKey
  PROVE  UpgradeHolds'
<1>1. command \in CommandStates
  BY DEF UpgradeHolds, UpgradeTypes
<1>2. /\ Generated \in Keys /\ Generated # 0 /\ keyItem' = Generated
      /\ keyItem # 0 => keyItem' = keyItem
      /\ keyItem' \in 1 .. 2 /\ keysMade' \in 1 .. 2
      /\ keysMade' = 2 => ~(opener.at = "generate" /\ command.at = "generate")
  BY KeyGenerated DEF UpgradeHolds, RequestCreatesKey
<1>3. command' \in CommandStates /\ command'.at = "open" /\ command'.key = Generated
  BY <1>1, <1>2, CommandHasKey DEF RequestCreatesKey
<1>4. KeysMade(keyItem', keysMade', opener.at, command'.at)
  <2>1. keysMade' = 1 \/ keysMade' = 2
    BY <1>2
  <2> QED BY <1>2, <1>3, <2>1 DEF RequestCreatesKey, KeysMade
<1> QED BY <1>2, <1>3, <1>4, CommandActs DEF RequestCreatesKey, Bounds, History

\* What a command that opens the store finds or makes of it.
LEMMA OpensInto ==
  ASSUME UpgradeHolds, command.at = "open", live' = Opens(command.format, command.key), live' # NoStore
  PROVE  \/ live.format = "missing" /\ keyItem # 0 /\ Holds(live', "encrypted", keyItem, TRUE, TRUE, FALSE, {})
         \/ live.format = "missing" /\ Holds(live', "plaintext", 0, TRUE, TRUE, FALSE, {})
         \/ /\ live.format \in {"plaintext", "encrypted"}
            /\ Holds(live', live.format, live.key, TRUE, live.owed \/ ~live.tables, live.paused, live.events)
<1>1. /\ live \in LiveStores /\ command.key \in Keys
      /\ command.format = "plaintext" \/ (command.key = keyItem /\ keyItem # 0)
  BY DEF UpgradeHolds, UpgradeTypes, CommandKnows, CommandStates
<1>2. CASE live.format = "missing" /\ command.format = "missing"
  <2> DEFINE e == Keyed(command.key)
  <2>1. Holds(e, "encrypted", command.key, FALSE, FALSE, FALSE, {})
    BY <1>1, NewStores
  <2>2. live' = Initialised(e) /\ command.key = keyItem /\ keyItem # 0
    BY <1>1, <1>2 DEF Opens
  <2> HIDE DEF e
  <2>3. Holds(live', e.format, e.key, TRUE, e.owed \/ ~e.tables, e.paused, e.events)
    <3>1. e \in LiveStores
      BY <2>1 DEF Holds
    <3>2. Holds(Initialised(e), e.format, e.key, TRUE, e.owed \/ ~e.tables, e.paused, e.events)
      BY <3>1, Tabled
    <3> QED BY <2>2, <3>2
  <2>4. (e.owed \/ ~e.tables) = TRUE
    BY <2>1 DEF Holds
  <2> QED BY <1>2, <2>1, <2>2, <2>3, <2>4 DEF Holds
<1>3. CASE live.format = "missing" /\ command.format = "plaintext"
  <2> DEFINE e == [NoStore EXCEPT !.format = "plaintext"]
  <2>1. Holds(e, "plaintext", 0, FALSE, FALSE, FALSE, {})
    BY NewStores
  <2>2. live' = Initialised(e)
    BY <1>3 DEF Opens
  <2> HIDE DEF e
  <2>3. Holds(live', e.format, e.key, TRUE, e.owed \/ ~e.tables, e.paused, e.events)
    <3>1. e \in LiveStores
      BY <2>1 DEF Holds
    <3>2. Holds(Initialised(e), e.format, e.key, TRUE, e.owed \/ ~e.tables, e.paused, e.events)
      BY <3>1, Tabled
    <3> QED BY <2>2, <3>2
  <2>4. (e.owed \/ ~e.tables) = TRUE
    BY <2>1 DEF Holds
  <2> QED BY <1>3, <2>1, <2>3, <2>4 DEF Holds
<1>4. CASE live.format \in {"plaintext", "encrypted"}
  <2>1. live' = Initialised(live)
    BY <1>4 DEF Opens
  <2> QED BY <1>1, <1>4, <2>1, Tabled
<1>5. CASE live.format = "missing" /\ command.format \notin {"missing", "plaintext"}
  BY <1>5 DEF Opens
<1>6. live.format \in {"missing", "plaintext", "encrypted"}
  BY <1>1 DEF LiveStores, StoreFormats
<1> QED BY <1>2, <1>3, <1>4, <1>5, <1>6

LEMMA RequestOpensKeeps ==
  ASSUME UpgradeHolds, RequestOpens
  PROVE  UpgradeHolds'
<1> DEFINE s == Opens(command.format, command.key)
<1>0. s = Opens(command.format, command.key)
  OBVIOUS
<1>1. /\ command.at = "open" /\ opener.at # "rename"
      /\ UNCHANGED <<walEvents, retired, keyItem, keysMade, opener, clock, everRecorded, asked>>
  BY DEF RequestOpens, Guarded, Bounds, History
<1>2. /\ command \in CommandStates /\ live \in LiveStores /\ opener \in RecorderStates
      /\ walEvents \in SUBSET Times /\ everRecorded \in SUBSET Times
      /\ asked \in {"paused", "running", "unsettled"}
  BY DEF UpgradeHolds, UpgradeTypes
<1> HIDE DEF s
<1>3. CASE command' = Nobody /\ UNCHANGED live
  <2>1. command' \in CommandStates /\ command'.at = "idle"
    BY <1>3, NobodyTypes
  <2>2. KeysMade(keyItem', keysMade', opener.at, command'.at)
    BY <1>1, <2>1 DEF UpgradeHolds, KeysMade
  <2> QED BY <1>1, <1>3, <2>1, <2>2, CommandActs
<1>4. CASE s # NoStore /\ live' = s /\ CommandGoes([at |-> "write"])
  <2>1. command' \in CommandStates /\ command'.at = "write"
    BY <1>2, <1>4, CommandMoves
  <2>2. KeysMade(keyItem', keysMade', opener'.at, command'.at)
    BY <1>1, <2>1 DEF UpgradeHolds, KeysMade
  <2>3. AsidesHold(retired', clock', opener'.at)
    BY <1>1 DEF UpgradeHolds
  <2>4. CASE live.format = "missing"
    <3>1. /\ Holds(live, "missing", 0, FALSE, FALSE, FALSE, {}) /\ walEvents = {}
          /\ opener.at \notin WithStore
      BY <2>4, NewStores DEF UpgradeHolds, LiveHolds, RecorderKnows
    <3>2. \/ keyItem # 0 /\ Holds(live', "encrypted", keyItem, TRUE, TRUE, FALSE, {})
          \/ Holds(live', "plaintext", 0, TRUE, TRUE, FALSE, {})
      BY <1>0, <1>1, <1>4, <2>4, OpensInto
    <3>3. UpgradeTypes'
      BY <1>1, <1>2, <2>1, <3>2, LiveTypes DEF UpgradeHolds
    <3>4. RecorderKnows(opener', keyItem', live', walEvents', AsidePaused(retired'))
      BY <1>1, <3>1, <3>2 DEF UpgradeHolds, RecorderKnows, WithStore, Settled, Holds
    <3>5. CommandKnows(command', keyItem', live', opener'.at)
      BY <1>1, <2>1, <3>2 DEF CommandKnows, Holds
    <3>6. LiveHolds(live', walEvents', keyItem')
      BY <1>1, <3>1, <3>2 DEF LiveHolds, Holds
    <3>7. Numbered(live', DOMAIN retired')
      BY <1>1, <2>4 DEF UpgradeHolds, Numbered, Settled
    <3>8. Heeds(asked', live', AsidePaused(retired'), command'.at = "write")
      BY <1>1, <2>1, <2>4, <3>2 DEF UpgradeHolds, Heeds, Settled, Holds
    <3>9. EventsHold(live', walEvents', clock', everRecorded')
      BY <1>1, <3>2 DEF UpgradeHolds, EventsHold, Holds
    <3>10. EventsKept(live', walEvents', retired', clock', everRecorded')
      BY <1>1, <3>1, <3>2 DEF UpgradeHolds, EventsKept, Holds
    <3> QED BY <2>2, <2>3, <3>3, <3>4, <3>5, <3>6, <3>7, <3>8, <3>9, <3>10 DEF UpgradeHolds
  <2>5. CASE live.format \in {"plaintext", "encrypted"}
    <3>1. Holds(live', live.format, live.key, TRUE, live.owed \/ ~live.tables, live.paused, live.events)
      BY <1>0, <1>1, <1>4, <2>5, OpensInto
    <3>2. Settled(live') = Settled(live)
      BY <3>1 DEF Settled, Holds
    <3>3. UpgradeTypes'
      BY <1>1, <1>2, <2>1, <3>1, LiveTypes DEF UpgradeHolds
    <3>4. RecorderKnows(opener', keyItem', live', walEvents', AsidePaused(retired'))
      BY <1>1, <2>5, <3>1, <3>2 DEF UpgradeHolds, RecorderKnows, Holds
    <3>5. CommandKnows(command', keyItem', live', opener'.at)
      BY <1>1, <2>1, <2>5, <3>1 DEF CommandKnows, Holds
    <3>6. LiveHolds(live', walEvents', keyItem')
      BY <1>1, <2>5, <3>1 DEF UpgradeHolds, LiveHolds, Holds
    <3>7. Numbered(live', DOMAIN retired')
      BY <1>1, <3>2 DEF UpgradeHolds, Numbered
    <3>8. Heeds(asked', live', AsidePaused(retired'), command'.at = "write")
      BY <1>1, <2>1, <2>5, <3>1, <3>2 DEF UpgradeHolds, Heeds, Holds
    <3>9. EventsHold(live', walEvents', clock', everRecorded')
      BY <1>1, <3>1 DEF UpgradeHolds, EventsHold, Holds
    <3>10. EventsKept(live', walEvents', retired', clock', everRecorded')
      BY <1>1, <3>1 DEF UpgradeHolds, EventsKept, Holds
    <3> QED BY <2>2, <2>3, <3>3, <3>4, <3>5, <3>6, <3>7, <3>8, <3>9, <3>10 DEF UpgradeHolds
  <2> QED BY <1>2, <2>4, <2>5 DEF LiveStores, StoreFormats
<1> QED BY <1>3, <1>4 DEF RequestOpens, s

LEMMA RequestWritesKeeps ==
  ASSUME UpgradeHolds, RequestWrites
  PROVE  UpgradeHolds'
<1> DEFINE p == command.kind # "resume"
<1>1. /\ command.at = "write" /\ live.format # "missing" /\ live.tables
      /\ opener.at # "rename"
      /\ asked' = IF p THEN "paused" ELSE IF live.owed THEN "unsettled" ELSE "running"
      /\ UNCHANGED <<walEvents, retired, keyItem, keysMade, opener, clock, everRecorded>>
  BY DEF RequestWrites, Bounds, UpgradeHolds, CommandKnows
<1>2. /\ live \in LiveStores /\ opener \in RecorderStates /\ p \in BOOLEAN
      /\ walEvents \in SUBSET Times /\ everRecorded \in SUBSET Times
      /\ asked' \in {"paused", "running", "unsettled"}
  BY <1>1 DEF UpgradeHolds, UpgradeTypes
<1>3. command' \in CommandStates /\ command'.at = "idle"
  BY NobodyTypes DEF RequestWrites
<1>4. Holds(live', live.format, live.key, live.tables, live.owed, p, live.events)
  BY <1>2, WithPause DEF RequestWrites
<1> HIDE DEF p
<1>5. Settled(live') = Settled(live)
  BY <1>4 DEF Settled, Holds
<1>6. UpgradeTypes'
  BY <1>1, <1>2, <1>3, <1>4, LiveTypes DEF UpgradeHolds
<1>7. KeysMade(keyItem', keysMade', opener'.at, command'.at)
  BY <1>1, <1>3 DEF UpgradeHolds, KeysMade
<1>8. RecorderKnows(opener', keyItem', live', walEvents', AsidePaused(retired'))
  BY <1>1, <1>4, <1>5 DEF UpgradeHolds, RecorderKnows, Holds
<1>9. CommandKnows(command', keyItem', live', opener'.at)
  BY <1>3 DEF CommandKnows
<1>10. LiveHolds(live', walEvents', keyItem')
  BY <1>1, <1>4 DEF UpgradeHolds, LiveHolds, Holds
<1>11. Numbered(live', DOMAIN retired')
  BY <1>1, <1>5 DEF UpgradeHolds, Numbered
<1>12. Heeds(asked', live', AsidePaused(retired'), command'.at = "write")
  <2>1. /\ asked' = "paused" => p
        /\ asked' = "running" => ~p /\ ~live.owed
    BY <1>1
  <2>2. live.format = "encrypted" /\ ~Settled(live) => live.owed
    BY <1>1 DEF Settled
  <2> QED BY <1>1, <1>4, <1>5, <2>1, <2>2 DEF Heeds, Holds
<1>13. AsidesHold(retired', clock', opener'.at)
  BY <1>1 DEF UpgradeHolds
<1>14. EventsHold(live', walEvents', clock', everRecorded')
  BY <1>1, <1>4 DEF UpgradeHolds, EventsHold, Holds
<1>15. EventsKept(live', walEvents', retired', clock', everRecorded')
  BY <1>1, <1>4 DEF UpgradeHolds, EventsKept, Holds
<1> QED BY <1>6, <1>7, <1>8, <1>9, <1>10, <1>11, <1>12, <1>13, <1>14, <1>15 DEF UpgradeHolds

-----------------------------------------------------------------------------
LEMMA OpeningBegins == OpeningInit => UpgradeHolds
<1> SUFFICES ASSUME OpeningInit PROVE UpgradeHolds
  OBVIOUS
<1>1. /\ keyItem = 0 /\ keysMade = 0 /\ opener = Nobody /\ command = Nobody /\ clock = 0
      /\ everRecorded = walEvents /\ asked = IF live.paused THEN "paused" ELSE "running"
      /\ DOMAIN retired = {}
  BY DEF OpeningInit
<1>2. /\ 0 \in Times /\ {0} \in SUBSET Times /\ {} \in SUBSET Times
  BY StoreOpeningAssumption DEF Times
<1>3. /\ \/ Holds(live, "missing", 0, FALSE, FALSE, FALSE, {}) /\ live = NoStore /\ walEvents = {}
         \/ /\ \E paused \in BOOLEAN : Holds(live, "plaintext", 0, TRUE, FALSE, paused, {})
            /\ walEvents = {0}
  <2>1. CASE live = NoStore /\ walEvents = {}
    BY <2>1, NewStores
  <2>2. ASSUME NEW paused \in BOOLEAN,
               live = [NoStore EXCEPT !.format = "plaintext", !.tables = TRUE, !.paused = paused]
        PROVE  Holds(live, "plaintext", 0, TRUE, FALSE, paused, {})
    <3> DEFINE a == [NoStore EXCEPT !.format = "plaintext"]
               b == [a EXCEPT !.tables = TRUE]
               c == [b EXCEPT !.paused = paused]
               n == NoStore
    <3>1. n \in LiveStores
      BY NewStores DEF Holds
    <3> HIDE DEF n
    <3>2. [n EXCEPT !.format = "plaintext", !.tables = TRUE, !.paused = paused]
            = [[[n EXCEPT !.format = "plaintext"] EXCEPT !.tables = TRUE] EXCEPT !.paused = paused]
      BY <3>1 DEF LiveStores
    <3>3. live = c
      BY <2>2, <3>2 DEF n
    <3>4. Holds(a, "plaintext", 0, FALSE, FALSE, FALSE, {})
      BY NewStores
    <3> HIDE DEF a
    <3>5. Holds(b, "plaintext", 0, TRUE, FALSE, FALSE, {})
      BY <3>4 DEF LiveStores, Holds
    <3> HIDE DEF b
    <3> QED BY <3>3, <3>5, WithPause DEF Holds
  <2> QED BY <2>1, <2>2 DEF OpeningInit
<1>4. AsidePaused(retired) = FALSE
  BY <1>1 DEF AsidePaused, Newest
<1>5. UpgradeTypes
  BY <1>1, <1>2, <1>3, NobodyTypes DEF UpgradeTypes, Holds
<1>6. KeysMade(keyItem, keysMade, opener.at, command.at)
  BY <1>1 DEF KeysMade
<1>7. RecorderKnows(opener, keyItem, live, walEvents, AsidePaused(retired))
  BY <1>1, NobodyTypes DEF RecorderKnows, WithKey, WithStore
<1>8. CommandKnows(command, keyItem, live, opener.at)
  BY <1>1, NobodyTypes DEF CommandKnows
<1>9. LiveHolds(live, walEvents, keyItem)
  BY <1>3 DEF LiveHolds, Holds
<1>10. Numbered(live, DOMAIN retired)
  <2>1. DOMAIN retired = 1 .. 0
    BY <1>1
  <2> QED BY <2>1 DEF Numbered
<1>11. Heeds(asked, live, AsidePaused(retired), command.at = "write")
  BY <1>1, <1>3, <1>4 DEF Heeds, Settled, Holds
<1>12. AsidesHold(retired, clock, opener.at)
  BY <1>1 DEF AsidesHold
<1>13. EventsHold(live, walEvents, clock, everRecorded)
  BY <1>1, <1>3 DEF EventsHold, Holds
<1>14. EventsKept(live, walEvents, retired, clock, everRecorded)
  BY <1>1 DEF EventsKept
<1> QED BY <1>5, <1>6, <1>7, <1>8, <1>9, <1>10, <1>11, <1>12, <1>13, <1>14 DEF UpgradeHolds

LEMMA OpeningKeeps == UpgradeHolds /\ [OpeningNext]_openingVars => UpgradeHolds'
<1> SUFFICES ASSUME UpgradeHolds, [OpeningNext]_openingVars PROVE UpgradeHolds'
  OBVIOUS
<1>1. CASE UNCHANGED openingVars
  BY <1>1 DEF openingVars, UpgradeHolds, UpgradeTypes
<1> QED BY <1>1, OpenBeginsKeeps, OpenFailsKeeps, LoadKeyKeeps, CreateKeyKeeps, GuardPlaintextKeeps,
     SetAsideKeeps, SetJournalAsideKeeps, RemoveLeftoversKeeps, RestrictRetiredKeeps, CreateStoreKeeps, CommitTablesKeeps,
     ReadPreviousKeeps, AdoptStateKeeps, ApplyRetentionKeeps, RecordEventKeeps, OpeningClockKeeps,
     RequestBeginsKeeps, RequestKeyKeeps, RequestCreatesKeyKeeps, RequestOpensKeeps, RequestWritesKeeps
     DEF OpeningNext

\* What the invariant says of the properties of StoreOpening.
LEMMA UpgradeIsSafe ==
  UpgradeHolds => OpeningTypeOK /\ NothingLost /\ PauseSurvivesUpgrade /\ RetiredArePrivate
<1> SUFFICES ASSUME UpgradeHolds
             PROVE  OpeningTypeOK /\ NothingLost /\ PauseSurvivesUpgrade /\ RetiredArePrivate
  OBVIOUS
<1>1. OpeningTypeOK
  <2>1. keyItem \in Keys /\ keysMade \in Keys
    BY DEF UpgradeHolds, KeysMade, Keys
  <2> QED BY <2>1 DEF UpgradeHolds, UpgradeTypes, LiveStores, AsideStores, StoreFormats, OpeningTypeOK
<1>2. NothingLost
  <2>1. ASSUME NEW e \in Recent(everRecorded)
        PROVE  e \in Readable
    <3>1. e \in live.events \/ e \in walEvents \/ \E n \in DOMAIN retired : e \in retired[n].events
      BY DEF UpgradeHolds, EventsKept, Recent, Boundary
    <3> QED BY <3>1 DEF Readable
  <2> QED BY <2>1 DEF UpgradeHolds, LiveHolds, NothingLost
<1>3. PauseSurvivesUpgrade
  BY DEF UpgradeHolds, RecorderKnows, Heeds, PauseSurvivesUpgrade
<1>4. RetiredArePrivate
  BY DEF UpgradeHolds, AsidesHold, RetiredArePrivate
<1> QED BY <1>1, <1>2, <1>3, <1>4

\* The change to an encrypted store loses no recent event and no pause of the user, fits the
\* store to its key, and leaves no set-aside store readable by others
\* (store/writer/adoption.rs, store/retired.rs), in the behaviours of the run.
THEOREM UpgradeAlwaysKeeps == StoreSpec => []UpgradeKeeps
<1> DEFINE Inv == part = "opening" => UpgradeHolds
<1>1. StoreInit => Inv
  <2> SUFFICES ASSUME StoreInit, part = "opening" PROVE UpgradeHolds
    OBVIOUS
  <2>1. OpeningInit
    BY DEF StoreInit
  <2> QED BY <2>1, OpeningBegins
<1>2. Inv /\ [StoreNext]_storeMCVars => Inv'
  <2> SUFFICES ASSUME Inv, [StoreNext]_storeMCVars, part' = "opening" PROVE UpgradeHolds'
    OBVIOUS
  <2>1. part = "opening" /\ [OpeningNext]_openingVars
    BY DEF StoreNext, storeMCVars
  <2> QED BY <2>1, OpeningKeeps
<1>3. Inv => UpgradeKeeps
  BY UpgradeIsSafe DEF UpgradeKeeps
<1> QED BY <1>1, <1>2, <1>3, PTL DEF StoreSpec

-----------------------------------------------------------------------------
(* Finite sets in an order.                                                *)

\* The members of S below s by the relation R.
Under(R, S, s) == {r \in S : <<r, s>> \in R}
\* R orders S.
Orders(R, S) ==
  /\ \A r, s \in S : r # s => <<r, s>> \in R \/ <<s, r>> \in R
  /\ \A s \in S : <<s, s>> \notin R
  /\ \A r, s, t \in S : <<r, s>> \in R /\ <<s, t>> \in R => <<r, t>> \in R

LEMMA UnderGrows ==
  ASSUME NEW R, NEW S, IsFiniteSet(S), Orders(R, S), NEW r \in S, NEW s \in S, <<r, s>> \in R
  PROVE  Cardinality(Under(R, S, r)) < Cardinality(Under(R, S, s))
<1> DEFINE Lower == Under(R, S, r)
           Upper == Under(R, S, s)
<1>1. Lower \subseteq Upper /\ r \in Upper /\ r \notin Lower
  BY DEF Orders, Under
<1>2. IsFiniteSet(Upper) /\ Upper \subseteq S /\ Lower \subseteq S
  BY FS_Subset DEF Under
<1> HIDE DEF Lower, Upper
<1>3. IsFiniteSet(Lower) /\ Cardinality(Lower) <= Cardinality(Upper)
      /\ Cardinality(Upper) # Cardinality(Lower)
  BY <1>1, <1>2, FS_Subset
<1>4. Cardinality(Lower) \in Nat /\ Cardinality(Upper) \in Nat
  BY <1>2, <1>3, FS_CardinalityType
<1> QED BY <1>3, <1>4 DEF Lower, Upper

LEMMA UnderCounts ==
  ASSUME NEW R, NEW S, IsFiniteSet(S), Orders(R, S), NEW s \in S
  PROVE  Cardinality(Under(R, S, s)) \in 0 .. Cardinality(S) - 1
<1> DEFINE Lower == Under(R, S, s)
<1>1. Lower \subseteq S /\ s \notin Lower
  BY DEF Orders, Under
<1> HIDE DEF Lower
<1>2. IsFiniteSet(Lower) /\ Cardinality(Lower) <= Cardinality(S) /\ Cardinality(Lower) # Cardinality(S)
  BY <1>1, FS_Subset
<1>3. Cardinality(Lower) \in Nat /\ Cardinality(S) \in Nat
  BY <1>2, FS_CardinalityType
<1> QED BY <1>2, <1>3 DEF Lower

\* The n first of a finite ordered set are n.
LEMMA FirstCounts ==
  ASSUME NEW R, NEW S, IsFiniteSet(S), Orders(R, S), NEW n \in 0 .. Cardinality(S)
  PROVE  Cardinality({s \in S : Cardinality(Under(R, S, s)) < n}) = n
<1> DEFINE N == Cardinality(S)
           rank == [s \in S |-> Cardinality(Under(R, S, s))]
           F == {s \in S : Cardinality(Under(R, S, s)) < n}
           low == [s \in F |-> Cardinality(Under(R, S, s))]
<1>1. N \in Nat /\ n \in Nat
  BY FS_CardinalityType
<1>2. rank \in [S -> 0 .. N - 1]
  BY UnderCounts
<1>3. ASSUME NEW r \in S, NEW s \in S, rank[r] = rank[s]
      PROVE  r = s
  <2>1. rank[r] \in Int /\ rank[s] \in Int
    BY <1>1, <1>2
  <2>2. ~(<<r, s>> \in R) /\ ~(<<s, r>> \in R)
    BY <1>3, <2>1, UnderGrows
  <2> QED BY <2>2 DEF Orders
<1>4. rank \in Injection(S, 0 .. N - 1)
  <2> HIDE DEF rank
  <2> QED BY <1>2, <1>3 DEF Injection, IsInjective
<1>5. IsFiniteSet(0 .. N - 1) /\ Cardinality(0 .. N - 1) = N
      /\ IsFiniteSet(0 .. n - 1) /\ Cardinality(0 .. n - 1) = n
  <2>1. \A m \in Nat : IsFiniteSet(0 .. m - 1) /\ Cardinality(0 .. m - 1) = m
    <3> TAKE m \in Nat
    <3>1. 0 \in Int /\ m - 1 \in Int
      OBVIOUS
    <3>2. /\ IsFiniteSet(0 .. m - 1)
          /\ Cardinality(0 .. m - 1) = IF 0 > m - 1 THEN 0 ELSE (m - 1) - 0 + 1
      BY <3>1, FS_Interval
    <3> QED BY <3>2
  <2> QED BY <1>1, <2>1
<1>6. rank \in Surjection(S, 0 .. N - 1)
  BY <1>4, <1>5, FS_Injection
<1>7. low \in [F -> 0 .. n - 1]
  BY <1>1, <1>2
<1>8. ASSUME NEW i \in 0 .. n - 1
      PROVE  \E s \in F : low[s] = i
  <2>1. i \in 0 .. N - 1
    BY <1>1
  <2>2. PICK s \in S : rank[s] = i
    BY <1>6, <2>1 DEF Surjection
  <2> QED BY <2>2
<1>9. low \in Injection(F, 0 .. n - 1)
  <2>1. \A r, s \in F : low[r] = low[s] => r = s
    BY <1>3
  <2> HIDE DEF F, low
  <2> QED BY <1>7, <2>1 DEF Injection, IsInjective
<1>10. low \in Surjection(F, 0 .. n - 1)
  BY <1>7, <1>8 DEF Surjection
<1> HIDE DEF F, low
<1>11. Cardinality(F) = n
  BY <1>5, <1>9, <1>10, FS_Injection
<1> QED BY <1>11 DEF F

\* A finite ordered set that is not empty has a last member.
LEMMA LastExists ==
  ASSUME NEW R, NEW S, IsFiniteSet(S), Orders(R, S), S # {}
  PROVE  \E s \in S : \A r \in S \ {s} : <<r, s>> \in R
<1> DEFINE N == Cardinality(S)
           F == {s \in S : Cardinality(Under(R, S, s)) < N - 1}
<1>1. N \in Nat /\ N # 0
  BY FS_CardinalityType, FS_EmptySet
<1>2. Cardinality(F) = N - 1
  BY <1>1, FirstCounts
<1>3. F # S
  BY <1>1, <1>2
<1>4. PICK s \in S : s \notin F
  BY <1>3
<1>5. ASSUME NEW r \in S \ {s}
      PROVE  <<r, s>> \in R
  <2>1. SUFFICES ASSUME <<s, r>> \in R PROVE FALSE
    BY DEF Orders
  <2>2. Cardinality(Under(R, S, s)) < Cardinality(Under(R, S, r))
    BY <2>1, UnderGrows
  <2>3. Cardinality(Under(R, S, s)) \in 0 .. N - 1 /\ Cardinality(Under(R, S, r)) \in 0 .. N - 1
    BY UnderCounts
  <2> QED BY <1>1, <1>4, <2>2, <2>3
<1> QED BY <1>5

\* So has a finite set of integers a least one.
LEMMA LeastExists ==
  ASSUME NEW S, IsFiniteSet(S), S \subseteq Int, S # {}
  PROVE  \E s \in S : \A r \in S : s <= r
<1> DEFINE R == {p \in S \X S : p[2] < p[1]}
<1>1. \A r, s \in S : <<r, s>> \in R <=> s < r
  OBVIOUS
<1> HIDE DEF R
<1>2. Orders(R, S)
  BY <1>1 DEF Orders
<1>3. PICK s \in S : \A r \in S \ {s} : <<r, s>> \in R
  BY <1>2, LastExists
<1>4. ASSUME NEW r \in S
      PROVE  s <= r
  <2>1. r \in Int /\ s \in Int
    OBVIOUS
  <2>2. CASE r = s
    BY <2>1, <2>2
  <2>3. CASE r # s
    <3>1. s < r
      BY <1>1, <1>3, <2>3
    <3> QED BY <2>1, <3>1
  <2> QED BY <2>2, <2>3
<1> QED BY <1>4

-----------------------------------------------------------------------------
(* StoreReaders: what every step keeps.                                    *)

Row == [id : Nat, ts : Int, known : BOOLEAN]
Kinds == {"none", "page", "retention_or_deletion", "store_changed", "continuity_unknown",
          "denied", "expired", "evidence"}
PageAnswers == [kind : Kinds, after : Nat, through : Nat, rows : SUBSET Nat,
            next : Positions, upper : Positions]

\* The rows of the store: each from a day up to this one, in the order of their ids.
RowsHold ==
  /\ appended \in Seq(Row) /\ storeId # 0
  /\ Len(appended) <= eventIds
  /\ \A s \in 1 .. Len(appended) : appended[s].id \in 1 .. eventIds /\ appended[s].ts \in 1 .. today
  /\ \A s, r \in 1 .. Len(appended) : s < r => appended[s].id < appended[r].id

\* A position p was given by this store, or one before it.
Given(p, id) == p.sequence <= p.head /\ p.store <= id

\* The client's next request: the bound, if there is one, is ahead of the cursor, and a
\* cursor of this store is not ahead of its rows unless the store went back.
ClientHolds ==
  /\ answer \in PageAnswers
  /\ Given(request.cursor, storeId) /\ Given(request.upper, storeId)
  /\ request.upper # NoPosition => request.cursor.sequence < request.upper.sequence
  /\ request.cursor.store = storeId /\ ~rewound => request.cursor.sequence <= Len(appended)

Queries == [on : BOOLEAN, limit : Nat, cutoff : Int, cursor : Int \X Int,
            events : SUBSET [from : Nat, row : Nat], throughout : SUBSET Nat]

AtMost(k, l) == k = l \/ Precedes(k, l)
Wanted(s) == appended[s].known /\ appended[s].ts >= query.cutoff
IsListed(s) == \E e \in query.events : e.row = s

\* The query in progress: it has listed what it wants up to the cursor, in order, and
\* when it is over, all it wants or as many as it may.
QueryHolds ==
  /\ query \in Queries
  /\ IsFiniteSet(query.events)
  /\ reader = "query" =>
       /\ query.throughout \subseteq present
       /\ \A e \in query.events :
            /\ e.row \in 1 .. Len(appended) /\ e.from < Cardinality(query.events)
            /\ AtMost(Key(e.row), query.cursor)
       /\ \A e, f \in query.events : e.from < f.from => Precedes(Key(e.row), Key(f.row))
       /\ \A s \in query.throughout : Wanted(s) /\ AtMost(Key(s), query.cursor) => IsListed(s)
       /\ \/ query.on \/ Cardinality(query.events) >= query.limit
          \/ \A s \in query.throughout : Wanted(s) => IsListed(s)

\* The inductive invariant.
ReadersInv ==
  /\ ReadersTypeOK /\ RowsHold /\ ClientHolds /\ NothingSkipped /\ QueryHolds
  /\ reader \in {"context", "query"}

-----------------------------------------------------------------------------
(* A range of rows.                                                        *)

\* The run of rows from start on, of rows that are there and all stale or all not.
LEMMA RunHolds ==
  ASSUME NEW start \in Nat, NEW upper \in Nat, NEW limit \in Nat \ {0},
         start < upper, start + 1 \in present
  PROVE  LET t == RunEnd(start, upper, limit)
         IN  /\ t \in start + 1 .. upper
             /\ \A s \in start + 1 .. t : s \in present /\ (Stale(s) <=> Stale(start + 1))
<1> DEFINE Good(s) == s \in present /\ (Stale(s) <=> Stale(start + 1))
           Ends(t) == \/ t = upper \/ t - start = limit \/ t + 1 \notin present
                      \/ Stale(t + 1) # Stale(start + 1)
           E == {t \in start + 1 .. upper : Ends(t)}
           Run(t) == /\ t - start <= limit
                     /\ \A s \in start + 1 .. t : s \in present /\ (Stale(s) <=> Stale(start + 1))
                     /\ Ends(t)
<1>1. IsFiniteSet(E) /\ E \subseteq Int /\ upper \in E
  <2>1. IsFiniteSet(start + 1 .. upper)
    BY FS_Interval
  <2>2. E \in SUBSET (start + 1 .. upper)
    OBVIOUS
  <2> QED BY <2>1, <2>2, FS_Subset
<1>2. PICK t \in E : \A r \in E : t <= r
  <2> HIDE DEF E
  <2> QED BY <1>1, LeastExists
<1>3. t \in start + 1 .. upper /\ Ends(t)
  BY <1>2
<1>4. t - start <= limit
  <2>1. SUFFICES ASSUME t - start > limit PROVE FALSE
    BY <1>3
  <2>2. start + limit \in start + 1 .. upper /\ start + limit < t /\ (start + limit) - start = limit
    BY <1>3, <2>1
  <2>3. t <= start + limit
    BY <1>2, <2>2
  <2> QED BY <1>3, <2>2, <2>3
<1>5. ASSUME NEW s \in start + 1 .. t
      PROVE  Good(s)
  <2>1. CASE s = start + 1
    BY <2>1
  <2>2. CASE s # start + 1
    <3>1. s - 1 \in start + 1 .. upper /\ s - 1 < t /\ (s - 1) + 1 = s
      BY <1>3, <2>2
    <3>2. s - 1 \notin E
      BY <1>2, <1>3, <3>1
    <3>3. ~Ends(s - 1)
      BY <3>1, <3>2
    <3> QED BY <3>1, <3>3
  <2> QED BY <2>1, <2>2
<1>6. Run(t)
  BY <1>3, <1>4, <1>5
<1>7. RunEnd(start, upper, limit) = CHOOSE x \in start + 1 .. upper : Run(x)
  BY DEF RunEnd
<1> HIDE DEF Run
<1>8. RunEnd(start, upper, limit) \in start + 1 .. upper /\ Run(RunEnd(start, upper, limit))
  BY <1>3, <1>6, <1>7
<1> QED BY <1>8 DEF Run

\* What an answer to a request from after on says when it is about the rows up to through.
Told(a, after, upper) ==
  /\ a \in PageAnswers /\ a.after = after /\ a.upper = upper
  /\ a.through \in after .. upper.sequence
  /\ a.next = Position(a.through, upper.head)
  /\ a.through > after \/ a.through = upper.sequence
  /\ \/ /\ a.kind = "page" /\ a.rows = after + 1 .. a.through
        /\ \A s \in a.rows : s \in present /\ ~Stale(s)
     \/ /\ a.kind = "retention_or_deletion" /\ a.rows = {}
        /\ \A s \in after + 1 .. a.through : s \notin present \/ Stale(s)

LEMMA PositionTypes ==
  ASSUME ReadersTypeOK, RowsHold, NEW s \in Nat, NEW head \in Nat
  PROVE  /\ Position(s, head) \in Positions /\ Beginning \in Positions /\ NoPosition \in Positions
         /\ Position(s, head).sequence = s /\ Position(s, head).head = head
         /\ Position(s, head).store = storeId /\ Position(s, head) # NoPosition
         /\ Beginning.sequence = 0 /\ Beginning.store = storeId /\ Beginning.head = Len(appended)
         /\ Beginning # NoPosition
<1>1. AnchorAt(s) \in [id : Nat, ts : Int] /\ NoAnchor \in [id : Nat, ts : Int]
  <2>1. CASE s \in present
    <3>1. s \in 1 .. Len(appended)
      BY <2>1 DEF ReadersTypeOK, AppendHead
    <3>2. appended[s] \in Row
      BY <3>1 DEF RowsHold
    <3> QED BY <2>1, <3>2 DEF AnchorAt, NoAnchor, Row
  <2>2. CASE s \notin present
    BY <2>2 DEF AnchorAt, NoAnchor
  <2> QED BY <2>1, <2>2 DEF NoAnchor
<1>2. storeId \in Nat /\ storeId # 0 /\ Len(appended) \in Nat
  BY DEF ReadersTypeOK, RowsHold
<1> QED BY <1>1, <1>2 DEF Position, Beginning, NoPosition, Positions, AppendHead

LEMMA LackingTold ==
  ASSUME NEW after \in Nat, NEW upper \in Positions, NEW t \in after .. upper.sequence,
         t \in Nat, Position(t, upper.head) \in Positions, t > after \/ t = upper.sequence,
         \A s \in after + 1 .. t : s \notin present \/ Stale(s)
  PROVE  Told(Gap("retention_or_deletion", after, t, Position(t, upper.head), upper), after, upper)
<1> DEFINE next == Position(t, upper.head)
           b == Gap("retention_or_deletion", after, t, next, upper)
<1> HIDE DEF next
<1>1. /\ b.kind = "retention_or_deletion" /\ b.after = after /\ b.through = t /\ b.rows = {}
      /\ b.next = next /\ b.upper = upper
  BY DEF Gap
<1>2. b \in PageAnswers
  BY DEF Gap, PageAnswers, Kinds, next
<1> HIDE DEF b
<1>3. Told(b, after, upper)
  BY <1>1, <1>2 DEF Told, next
<1> QED BY <1>3 DEF b, next

LEMMA PageTold ==
  ASSUME NEW after \in Nat, NEW upper \in Positions, NEW t \in after .. upper.sequence,
         t \in Nat, Position(t, upper.head) \in Positions, t > after \/ t = upper.sequence,
         \A s \in after + 1 .. t : s \in present /\ ~Stale(s)
  PROVE  Told([kind |-> "page", after |-> after, through |-> t, rows |-> after + 1 .. t,
               next |-> Position(t, upper.head), upper |-> upper], after, upper)
<1> DEFINE next == Position(t, upper.head)
           span == after + 1 .. t
           b == [kind |-> "page", after |-> after, through |-> t, rows |-> span,
                 next |-> next, upper |-> upper]
<1>1. span \in SUBSET Nat
  OBVIOUS
<1> HIDE DEF next, span
<1>2. /\ b.kind = "page" /\ b.after = after /\ b.through = t /\ b.rows = span
      /\ b.next = next /\ b.upper = upper
  OBVIOUS
<1>3. b \in PageAnswers
  BY <1>1 DEF PageAnswers, Kinds, next
<1> HIDE DEF b
<1>4. Told(b, after, upper)
  BY <1>2, <1>3 DEF Told, next, span
<1> QED BY <1>4 DEF b, next, span

LEMMA RangeTold ==
  ASSUME ReadersTypeOK, RowsHold, NEW start \in Positions, NEW upper \in Positions,
         NEW limit \in Nat \ {0}, start.sequence <= upper.sequence
  PROVE  Told(ReadRange(start, upper, limit), start.sequence, upper)
<1> DEFINE after == start.sequence
           last == upper.sequence
           ahead == {s \in present : after < s /\ s <= last}
           Lacking(t) == Gap("retention_or_deletion", after, t, Position(t, upper.head), upper)
           Page(t) == [kind |-> "page", after |-> after, through |-> t, rows |-> after + 1 .. t,
                       next |-> Position(t, upper.head), upper |-> upper]
           a == ReadRange(start, upper, limit)
<1>1. after \in Nat /\ last \in Nat /\ upper.head \in Nat /\ present \subseteq Nat
  BY DEF Positions, ReadersTypeOK
<1>2. ASSUME NEW t \in after .. last
      PROVE  t \in Nat /\ Position(t, upper.head) \in Positions
  BY <1>1, PositionTypes
<1>3. ASSUME NEW t \in after .. last, t > after \/ t = last,
             \A s \in after + 1 .. t : s \notin present \/ Stale(s)
      PROVE  Told(Lacking(t), after, upper)
  BY <1>1, <1>2, <1>3, LackingTold
<1>4. ASSUME NEW t \in after .. last, t > after \/ t = last,
             \A s \in after + 1 .. t : s \in present /\ ~Stale(s)
      PROVE  Told(Page(t), after, upper)
  BY <1>1, <1>2, <1>4, PageTold
<1> HIDE DEF Lacking, Page
<1>5. CASE ahead = {}
  <2>1. a = IF after < last THEN Lacking(last) ELSE Page(after)
    BY <1>5 DEF ReadRange, Lacking, Page
  <2>2. \A s \in after + 1 .. last : s \notin present
    BY <1>1, <1>5
  <2>3. CASE after < last
    BY <1>1, <1>3, <2>1, <2>2, <2>3
  <2>4. CASE ~(after < last)
    BY <1>1, <1>4, <2>1, <2>4
  <2> QED BY <2>3, <2>4
<1>6. CASE ahead # {} /\ after + 1 \notin ahead
  <2> DEFINE Lowest(s) == \A r \in ahead : s <= r
             low == CHOOSE s \in ahead : Lowest(s)
  <2>1. a = Lacking(low - 1)
    BY <1>6 DEF ReadRange, Lacking
  <2>2. IsFiniteSet(ahead) /\ ahead \subseteq Int
    <3>1. after + 1 \in Int /\ last \in Int
      BY <1>1
    <3>2. IsFiniteSet(after + 1 .. last)
      BY <3>1, FS_Interval
    <3>3. ASSUME NEW s \in ahead
          PROVE  s \in Int /\ s \in after + 1 .. last
      BY <1>1
    <3>4. IsFiniteSet(ahead)
      <4> HIDE DEF ahead
      <4>1. ahead \in SUBSET (after + 1 .. last)
        BY <3>3
      <4> QED BY <3>2, <4>1, FS_Subset
    <3> HIDE DEF ahead
    <3> QED BY <3>3, <3>4
  <2>3. \E s \in ahead : Lowest(s)
    <3> HIDE DEF ahead
    <3> QED BY <1>6, <2>2, LeastExists
  <2>4. low \in ahead /\ Lowest(low)
    BY <2>3
  <2> HIDE DEF low
  <2>5. low - 1 \in after .. last /\ low - 1 > after
    BY <1>1, <1>6, <2>4
  <2>6. \A s \in after + 1 .. low - 1 : s \notin present
    BY <1>1, <2>4, <2>5
  <2> QED BY <1>3, <2>1, <2>5, <2>6
<1>7. CASE ahead # {} /\ after + 1 \in ahead
  <2> DEFINE t == RunEnd(after, last, limit)
  <2>1. after < last /\ after + 1 \in present
    BY <1>1, <1>7
  <2>2. /\ t \in after + 1 .. last
        /\ \A s \in after + 1 .. t : s \in present /\ (Stale(s) <=> Stale(after + 1))
    BY <1>1, <2>1, RunHolds
  <2>3. a = IF Stale(after + 1) THEN Lacking(t) ELSE Page(t)
    BY <1>7 DEF ReadRange, Lacking, Page
  <2> HIDE DEF t
  <2>4. t \in after .. last /\ t > after
    BY <1>1, <2>2
  <2>5. CASE Stale(after + 1)
    BY <1>3, <2>2, <2>3, <2>4, <2>5
  <2>6. CASE ~Stale(after + 1)
    BY <1>4, <2>2, <2>3, <2>4, <2>6
  <2> QED BY <2>5, <2>6
<1> QED BY <1>5, <1>6, <1>7

\* A page that is cut after n rows tells as well of the rows it keeps.
LEMMA PrefixTold ==
  ASSUME ReadersTypeOK, RowsHold, NEW after \in Nat, NEW upper \in Positions, NEW a,
         Told(a, after, upper),
         NEW n \in IF a.rows = {} THEN {0} ELSE 1 .. Cardinality(a.rows)
  PROVE  Told(Prefix(a, n), after, upper)
<1>1. CASE n = Cardinality(a.rows)
  BY <1>1 DEF Prefix
<1>2. CASE n # Cardinality(a.rows)
  <2>1. a.rows # {}
    BY <1>2, FS_EmptySet
  <2>2. a.kind = "page" /\ a.rows = after + 1 .. a.through /\ a.through \in Nat /\ upper.sequence \in Nat
        /\ upper.head \in Nat
    BY <2>1 DEF Told, PageAnswers, Positions
  <2>3. Cardinality(a.rows) = a.through - after /\ a.through > after
    <3>1. after + 1 \in Int /\ a.through \in Int
      BY <2>2
    <3>2. Cardinality(a.rows) = IF after + 1 > a.through THEN 0 ELSE a.through - (after + 1) + 1
      BY <2>2, <3>1, FS_Interval
    <3>3. after + 1 <= a.through
      BY <2>1, <2>2
    <3> QED BY <2>2, <3>2, <3>3
  <2> DEFINE last == after + n
             b == [kind |-> a.kind, after |-> a.after, through |-> last, rows |-> after + 1 .. last,
                   next |-> Position(last, upper.head), upper |-> a.upper]
  <2>4. last \in Nat /\ last > after /\ last < a.through
    BY <1>2, <2>1, <2>2, <2>3
  <2>5. Prefix(a, n) = b
    <3>1. Prefix(a, n) = [a EXCEPT !.rows = after + 1 .. last, !.through = last,
                                   !.next = Position(last, upper.head)]
      BY <1>2 DEF Prefix, Told
    <3>2. a \in PageAnswers
      BY DEF Told
    <3> HIDE DEF last
    <3> QED BY <3>1, <3>2 DEF PageAnswers
  <2>6. Position(last, upper.head) \in Positions
    BY <2>2, <2>4, PositionTypes
  <2>7. after + 1 .. last \in SUBSET Nat /\ after + 1 .. last \subseteq a.rows
    BY <2>2, <2>4
  <2>8. b \in PageAnswers
    BY <2>4, <2>6, <2>7 DEF Told, PageAnswers
  <2>9. last \in after .. upper.sequence
    BY <2>2, <2>4 DEF Told
  <2> HIDE DEF last
  <2> QED BY <2>2, <2>4, <2>5, <2>7, <2>8, <2>9 DEF Told
<1> QED BY <1>1, <1>2

-----------------------------------------------------------------------------
(* A page served.                                                          *)

\* An answer that starts over.
StartsOver(a) ==
  /\ a \in PageAnswers /\ a.kind \in {"store_changed", "continuity_unknown"} /\ a.rows = {}
  /\ a.next = Beginning /\ a.upper = Position(Len(appended), Len(appended))

\* An answer that goes on from the cursor, up to a bound that the store reaches.
GoesOnFrom(a, cursor, upper) ==
  /\ Told(a, cursor.sequence, upper)
  /\ upper.sequence <= upper.head /\ upper.head <= Len(appended) /\ upper.store <= storeId
  /\ cursor = NoPosition \/ cursor.store = storeId

LEMMA PageTells ==
  ASSUME ReadersTypeOK, RowsHold, ClientHolds, NEW limit \in Nat \ {0}
  PROVE  \/ StartsOver(ReadPage(limit))
         \/ \E upper \in Positions : GoesOnFrom(ReadPage(limit), request.cursor, upper)
<1> DEFINE head == Len(appended)
           cursor == request.cursor
           start == IF cursor = NoPosition THEN Beginning ELSE cursor
           upper == IF request.upper = NoPosition THEN Position(head, head) ELSE request.upper
           requested == IF request.upper = NoPosition THEN start.head ELSE request.upper.sequence
           reason == IF Broken(cursor) # "none" THEN Broken(cursor) ELSE Broken(request.upper)
           a == ReadPage(limit)
<1>1. /\ head \in Nat /\ Position(head, head) \in Positions /\ Beginning \in Positions
      /\ Beginning.sequence = 0 /\ Position(head, head).sequence = head
      /\ Position(head, head).head = head /\ Position(head, head).store = storeId
      /\ NoPosition.sequence = 0 /\ NoPosition.store = 0
  <2>1. head \in Nat
    BY DEF RowsHold
  <2> QED BY <2>1, PositionTypes DEF NoPosition
<1>2. cursor \in Positions /\ request.upper \in Positions
  BY DEF ReadersTypeOK
<1>3. start \in Positions /\ upper \in Positions /\ start.sequence = cursor.sequence
  BY <1>1, <1>2
<1>4. requested \in Nat /\ start.sequence \in Nat
  BY <1>2, <1>3 DEF Positions
<1>5. a = IF reason # "none"
          THEN Gap(reason, start.sequence, requested, Beginning, Position(head, head))
          ELSE ReadRange(start, upper, limit)
  BY DEF ReadPage, AppendHead
<1>6. ASSUME NEW p \in Positions
      PROVE  /\ Broken(p) \in {"none", "store_changed", "continuity_unknown"}
             /\ Broken(p) = "none" => p = NoPosition \/ (p.store = storeId /\ p.head <= head)
  BY <1>1 DEF Broken, AppendHead, Positions
<1>7. CASE reason # "none"
  <2>1. reason \in {"store_changed", "continuity_unknown"}
    BY <1>2, <1>6, <1>7
  <2> HIDE DEF reason, start, requested, head
  <2> DEFINE b == Gap(reason, start.sequence, requested, Beginning, Position(head, head))
  <2>2. /\ b.kind = reason /\ b.rows = {} /\ b.next = Beginning /\ b.upper = Position(head, head)
    BY DEF Gap
  <2>3. b \in PageAnswers
    BY <1>1, <1>4, <2>1 DEF Gap, PageAnswers, Kinds
  <2>4. a = b
    BY <1>5, <1>7
  <2> HIDE DEF a, b
  <2>5. StartsOver(a)
    BY <2>1, <2>2, <2>3, <2>4 DEF StartsOver, head
  <2> QED BY <2>5 DEF a
<1>8. CASE reason = "none"
  <2>1. Broken(cursor) = "none" /\ Broken(request.upper) = "none"
    BY <1>8
  <2>2. cursor = NoPosition \/ (cursor.store = storeId /\ cursor.head <= head)
    BY <1>2, <1>6, <2>1
  <2>3. cursor.sequence <= head
    <3>1. cursor.sequence \in Nat /\ cursor.head \in Nat /\ head \in Nat
      BY <1>1, <1>2 DEF Positions
    <3>2. cursor.sequence <= cursor.head
      BY DEF ClientHolds, Given
    <3>3. CASE cursor = NoPosition
      <4>1. cursor.sequence = 0
        BY <1>1, <3>3
      <4> QED BY <3>1, <4>1
    <3>4. CASE cursor.head <= head
      <4> HIDE DEF cursor, head
      <4> QED BY <3>1, <3>2, <3>4
    <3> QED BY <2>2, <3>3, <3>4
  <2>4. upper.sequence <= upper.head /\ upper.head <= head /\ upper.store <= storeId
    <3>1. CASE request.upper = NoPosition
      BY <1>1, <3>1 DEF ReadersTypeOK
    <3>2. CASE request.upper # NoPosition
      BY <1>2, <1>6, <2>1, <3>2 DEF ClientHolds, Given
    <3> QED BY <3>1, <3>2
  <2>5. start.sequence <= upper.sequence
    <3>1. CASE request.upper = NoPosition
      BY <1>1, <1>3, <2>3, <3>1
    <3>2. CASE request.upper # NoPosition
      BY <1>2, <1>3, <3>2 DEF ClientHolds, Positions
    <3> QED BY <3>1, <3>2
  <2>6. a = ReadRange(start, upper, limit)
    BY <1>5, <1>8
  <2> HIDE DEF start, upper, a
  <2>7. Told(a, cursor.sequence, upper)
    BY <1>3, <2>5, <2>6, RangeTold
  <2>8. GoesOnFrom(a, cursor, upper)
    BY <2>2, <2>4, <2>7 DEF GoesOnFrom
  <2> QED BY <1>3, <2>8 DEF a
<1> QED BY <1>7, <1>8

\* What the client makes of an answer: it starts over, or it adds to what it knows.
Learns(a, upper) ==
  /\ answer' = a /\ request' = Follow(a)
  /\ \/ StartsOver(a) /\ returned' = {} /\ missing' = {} /\ rewound' = FALSE
     \/ /\ GoesOnFrom(a, request.cursor, upper) /\ rewound' = rewound
        /\ returned' = returned \cup {appended[s].id : s \in a.rows}
        /\ missing' = IF a.kind = "page" THEN missing ELSE missing \cup (a.after + 1 .. a.through)

LEMMA PageLearnt ==
  ASSUME ReadersInv, ServePage
  PROVE  \E a, upper \in PageAnswers \cup Positions : upper \in Positions /\ Learns(a, upper)
<1> USE DEF ReadersInv
<1>1. PICK limit \in PageLimits :
        LET Full == ReadPage(limit) IN
        \E n \in IF Full.rows = {} THEN {0} ELSE 1 .. Cardinality(Full.rows) :
          LET a == Prefix(Full, n)
              Anew == a.kind \in {"store_changed", "continuity_unknown"} IN
          /\ answer' = a
          /\ request' = Follow(a)
          /\ returned' = IF Anew THEN {} ELSE returned \cup {appended[s].id : s \in a.rows}
          /\ missing' = IF Anew THEN {}
                        ELSE IF a.kind = "page" THEN missing ELSE missing \cup (a.after + 1 .. a.through)
          /\ rewound' = (rewound /\ ~Anew)
  BY DEF ServePage
<1> DEFINE Full == ReadPage(limit)
<1>2. PICK n \in IF Full.rows = {} THEN {0} ELSE 1 .. Cardinality(Full.rows) :
          LET a == Prefix(Full, n)
              Anew == a.kind \in {"store_changed", "continuity_unknown"} IN
          /\ answer' = a
          /\ request' = Follow(a)
          /\ returned' = IF Anew THEN {} ELSE returned \cup {appended[s].id : s \in a.rows}
          /\ missing' = IF Anew THEN {}
                        ELSE IF a.kind = "page" THEN missing ELSE missing \cup (a.after + 1 .. a.through)
          /\ rewound' = (rewound /\ ~Anew)
  BY <1>1
<1> DEFINE a == Prefix(Full, n)
<1>3. limit \in Nat \ {0}
  BY StoreReadersAssumption
<1>4. StartsOver(Full) \/ \E upper \in Positions : GoesOnFrom(Full, request.cursor, upper)
  BY <1>3, PageTells
<1> HIDE DEF Full
<1>5. CASE StartsOver(Full)
  <2>1. Full.rows = {} /\ n = 0
    BY <1>5 DEF StartsOver
  <2>2. a = Full
    BY <2>1, FS_EmptySet DEF Prefix
  <2> HIDE DEF a
  <2>3. a.kind \in {"store_changed", "continuity_unknown"} /\ StartsOver(a) /\ a \in PageAnswers
    BY <1>5, <2>2 DEF StartsOver
  <2>4. answer' = a /\ request' = Follow(a) /\ returned' = {} /\ missing' = {} /\ rewound' = FALSE
    BY <1>2, <2>3 DEF a
  <2>5. Learns(a, NoPosition)
    BY <2>3, <2>4 DEF Learns
  <2>6. NoPosition \in Positions
    BY PositionTypes
  <2> QED BY <2>3, <2>5, <2>6
<1>6. ASSUME NEW upper \in Positions, GoesOnFrom(Full, request.cursor, upper)
      PROVE  Learns(a, upper) /\ a \in PageAnswers
  <2>1. request.cursor.sequence \in Nat /\ Told(Full, request.cursor.sequence, upper)
    BY <1>6 DEF GoesOnFrom, ReadersTypeOK, Positions
  <2>2. Told(a, request.cursor.sequence, upper)
    BY <2>1, PrefixTold
  <2> HIDE DEF a
  <2>3. GoesOnFrom(a, request.cursor, upper)
    BY <1>6, <2>2 DEF GoesOnFrom
  <2>4. a.kind \notin {"store_changed", "continuity_unknown"} /\ a \in PageAnswers
    BY <2>2 DEF Told
  <2>5. rewound \in BOOLEAN
    BY DEF ReadersTypeOK
  <2>6. rewound' = rewound
    BY <1>2, <2>4, <2>5 DEF a
  <2>7. /\ answer' = a /\ request' = Follow(a)
        /\ returned' = returned \cup {appended[s].id : s \in a.rows}
        /\ missing' = IF a.kind = "page" THEN missing ELSE missing \cup (a.after + 1 .. a.through)
    BY <1>2, <2>4 DEF a
  <2> QED BY <2>3, <2>4, <2>6, <2>7 DEF Learns
<1> HIDE DEF a
<1> QED BY <1>4, <1>5, <1>6

\* What the client asks next.
LEMMA Followed ==
  ASSUME NEW a \in PageAnswers
  PROVE  /\ Follow(a).cursor = a.next
         /\ Follow(a).upper = IF a.next.sequence < a.upper.sequence THEN a.upper ELSE NoPosition
         /\ NoPosition \in Positions => Follow(a) \in [cursor : Positions, upper : Positions]
BY DEF Follow, PageAnswers

\* The store and the query are as they were.
SameStore == UNCHANGED <<storeId, appended, present, eventIds, today, hours, beats, deletions,
                         upheavals, settings, reader, query>>

LEMMA StoreRemains ==
  ASSUME ReadersInv, SameStore
  PROVE  RowsHold' /\ QueryHolds' /\ reader' \in {"context", "query"}
<1> USE DEF SameStore
<1>1. RowsHold'
  BY DEF ReadersInv, RowsHold
<1>2. QueryHolds'
  BY DEF ReadersInv, QueryHolds, AtMost, Precedes, Key, Wanted, IsListed
<1>3. reader' \in {"context", "query"}
  BY DEF ReadersInv
<1> QED BY <1>1, <1>2, <1>3

\* A client that starts over knows nothing, and asks from the beginning.
LEMMA StartsOverHolds ==
  ASSUME ReadersInv, SameStore, NEW a, StartsOver(a), answer' = a, request' = Follow(a),
         returned' = {}, missing' = {}, rewound' = FALSE
  PROVE  ReadersInv' /\ AnswersHold
<1> USE DEF ReadersInv
<1> DEFINE head == Len(appended)
<1>1. /\ head \in Nat /\ Position(head, head) \in Positions /\ Beginning \in Positions
      /\ NoPosition \in Positions
      /\ Beginning.sequence = 0 /\ Beginning.store = storeId /\ Beginning.head = head
      /\ Position(head, head).sequence = head /\ Position(head, head).head = head
      /\ Position(head, head).store = storeId
  <2>1. head \in Nat
    BY DEF RowsHold
  <2> QED BY <2>1, PositionTypes
<1>2. /\ a \in PageAnswers /\ a.kind \in {"store_changed", "continuity_unknown"} /\ a.rows = {}
      /\ a.next = Beginning /\ a.upper = Position(head, head)
  BY DEF StartsOver
<1>3. /\ request' \in [cursor : Positions, upper : Positions]
      /\ request'.cursor = Beginning
      /\ request'.upper = IF 0 < head THEN Position(head, head) ELSE NoPosition
  BY <1>1, <1>2, Followed
<1> HIDE DEF head
<1>4. ReadersTypeOK'
  BY <1>3 DEF ReadersTypeOK, AppendHead, SameStore
<1>5. ClientHolds'
  <2>1. storeId' = storeId /\ appended' = appended /\ storeId \in Nat
    BY DEF SameStore, ReadersTypeOK
  <2>2. Given(request'.cursor, storeId)
    BY <1>1, <1>3, <2>1 DEF Given
  <2>3. Given(request'.upper, storeId)
    BY <1>1, <1>3, <2>1 DEF Given, NoPosition
  <2>4. request'.upper # NoPosition => request'.cursor.sequence < request'.upper.sequence
    BY <1>1, <1>3
  <2>5. request'.cursor.sequence <= Len(appended)
    BY <1>1, <1>3 DEF head
  <2> QED BY <1>2, <2>1, <2>2, <2>3, <2>4, <2>5 DEF ClientHolds
<1>6. NothingSkipped'
  BY <1>1, <1>3 DEF NothingSkipped
<1>7. AnswersHold
  BY <1>2 DEF AnswersHold
<1>8. RowsHold' /\ QueryHolds' /\ reader' \in {"context", "query"}
  BY StoreRemains
<1> QED BY <1>4, <1>5, <1>6, <1>7, <1>8

\* A client that goes on knows of every row up to its new position.
LEMMA GoesOnHolds ==
  ASSUME ReadersInv, SameStore, NEW a, NEW upper \in Positions, GoesOnFrom(a, request.cursor, upper),
         answer' = a, request' = Follow(a), rewound' = rewound,
         returned' = returned \cup {appended[s].id : s \in a.rows},
         missing' = IF a.kind = "page" THEN missing ELSE missing \cup (a.after + 1 .. a.through)
  PROVE  ReadersInv' /\ AnswersHold
<1> USE DEF ReadersInv
<1> DEFINE after == request.cursor.sequence
           head == Len(appended)
<1>1. /\ Told(a, after, upper) /\ upper.sequence <= upper.head /\ upper.head <= head
      /\ upper.store <= storeId /\ (request.cursor = NoPosition \/ request.cursor.store = storeId)
  BY DEF GoesOnFrom
<1>2. request.cursor \in Positions /\ after \in Nat /\ head \in Nat /\ upper.sequence \in Nat /\ upper.head \in Nat
  <2>1. request.cursor \in Positions
    BY DEF ReadersTypeOK
  <2>2. head \in Nat
    BY DEF RowsHold
  <2> QED BY <2>1, <2>2 DEF Positions
<1>3. /\ a \in PageAnswers /\ a.after = after /\ a.upper = upper /\ a.through \in Nat
      /\ after <= a.through /\ a.through <= upper.sequence
      /\ a.next = Position(a.through, upper.head) /\ (a.through > after \/ a.through = upper.sequence)
  BY <1>1, <1>2 DEF Told, PageAnswers
<1>4. \/ /\ a.kind = "page" /\ a.rows = after + 1 .. a.through
         /\ \A s \in a.rows : s \in present /\ ~Stale(s)
      \/ /\ a.kind = "retention_or_deletion" /\ a.rows = {}
         /\ \A s \in after + 1 .. a.through : s \notin present \/ Stale(s)
  BY <1>1 DEF Told
<1>5. /\ a.next \in Positions /\ a.next.sequence = a.through /\ a.next.head = upper.head
      /\ a.next.store = storeId /\ a.next # NoPosition /\ NoPosition \in Positions
      /\ NoPosition.sequence = 0 /\ NoPosition.store = 0 /\ NoPosition.head = 0
  BY <1>2, <1>3, PositionTypes DEF NoPosition
<1>6. /\ request' \in [cursor : Positions, upper : Positions]
      /\ request'.cursor = a.next
      /\ request'.upper = IF a.through < upper.sequence THEN upper ELSE NoPosition
  BY <1>3, <1>5, Followed
<1> HIDE DEF after, head
<1>7. ReadersTypeOK'
  <2>1. returned' \subseteq 1 .. eventIds
    <3>1. ASSUME NEW s \in a.rows
          PROVE  appended[s].id \in 1 .. eventIds
      <4>1. s \in present
        BY <1>4
      <4> QED BY <4>1 DEF ReadersTypeOK
    <3> QED BY <3>1 DEF ReadersTypeOK
  <2>2. missing' \subseteq 1 .. MaxAppends
    <3>1. head <= eventIds /\ eventIds <= MaxAppends /\ eventIds \in Nat /\ MaxAppends \in Nat
      BY StoreReadersAssumption DEF RowsHold, head, ReadersTypeOK
    <3>2. a.after + 1 .. a.through \subseteq 1 .. MaxAppends
      BY <1>1, <1>2, <1>3, <3>1
    <3> QED BY <3>2 DEF ReadersTypeOK
  <2>3. rewound' \in BOOLEAN
    BY DEF ReadersTypeOK
  <2> QED BY <1>6, <2>1, <2>2, <2>3 DEF ReadersTypeOK, AppendHead, SameStore
<1>8. ClientHolds'
  <2>1. storeId' = storeId /\ appended' = appended /\ storeId \in Nat
    BY DEF SameStore, ReadersTypeOK
  <2>2. Given(request'.cursor, storeId)
    BY <1>1, <1>2, <1>3, <1>5, <1>6, <2>1 DEF Given
  <2>3. Given(request'.upper, storeId)
    BY <1>1, <1>5, <1>6, <2>1 DEF Given
  <2>4. request'.upper # NoPosition => request'.cursor.sequence < request'.upper.sequence
    BY <1>5, <1>6
  <2>5. request'.cursor.sequence <= Len(appended)
    BY <1>1, <1>2, <1>3, <1>5, <1>6 DEF head
  <2> QED BY <1>3, <2>1, <2>2, <2>3, <2>4, <2>5 DEF ClientHolds
<1>9. NothingSkipped'
  <2>1. storeId' = storeId /\ appended' = appended
    BY DEF SameStore
  <2>2. SUFFICES ASSUME ~rewound, NEW s \in 1 .. a.through
                 PROVE  appended[s].id \in returned' \/ s \in missing'
    BY <1>5, <1>6, <2>1 DEF NothingSkipped
  <2>3. CASE s <= after
    <3>1. s \in 1 .. request.cursor.sequence
      BY <1>2, <2>3 DEF after
    <3>2. request.cursor # NoPosition
      BY <1>5, <3>1
    <3>3. appended[s].id \in returned \/ s \in missing
      BY <1>1, <2>2, <3>1, <3>2 DEF NothingSkipped
    <3> QED BY <3>3
  <2>4. CASE ~(s <= after)
    <3>1. s \in after + 1 .. a.through
      BY <1>2, <1>3, <2>4
    <3>2. CASE a.kind = "page"
      BY <1>4, <3>1, <3>2
    <3>3. CASE a.kind # "page"
      BY <1>3, <3>1, <3>3
    <3> QED BY <3>2, <3>3
  <2> QED BY <2>3, <2>4
<1>10. AnswersHold
  <2>1. answer' = a
    OBVIOUS
  <2>2. a.kind # "evidence"
    BY <1>4
  <2>3. \A s \in a.rows : s \in present /\ ~Stale(s)
    BY <1>4
  <2>4. a.kind = "retention_or_deletion" =>
          \A s \in a.after + 1 .. a.through : s \notin present \/ Stale(s)
    BY <1>3, <1>4
  <2>5. a.next.sequence > a.after \/ a.next.sequence = a.upper.sequence
    BY <1>3, <1>5
  <2> QED BY <2>1, <2>2, <2>3, <2>4, <2>5 DEF AnswersHold
<1>11. RowsHold' /\ QueryHolds' /\ reader' \in {"context", "query"}
  BY StoreRemains
<1> QED BY <1>7, <1>8, <1>9, <1>10, <1>11

LEMMA ServePageHolds ==
  ASSUME ReadersInv, ServePage
  PROVE  ReadersInv' /\ AnswersHold
<1>1. PICK a, upper \in PageAnswers \cup Positions : upper \in Positions /\ Learns(a, upper)
  BY PageLearnt
<1>2. SameStore
  BY DEF ServePage, SameStore
<1>3. CASE StartsOver(a) /\ returned' = {} /\ missing' = {} /\ rewound' = FALSE
  BY <1>1, <1>2, <1>3, StartsOverHolds DEF Learns
<1>4. CASE ~(StartsOver(a) /\ returned' = {} /\ missing' = {} /\ rewound' = FALSE)
  BY <1>1, <1>2, <1>4, GoesOnHolds DEF Learns
<1> QED BY <1>3, <1>4

\* Evidence is given of the event observed only, while it is there and within retention.
LEMMA ServeEvidenceHolds ==
  ASSUME ReadersInv, ServeEvidence
  PROVE  ReadersInv' /\ AnswersHold
<1> USE DEF ReadersInv
<1> DEFINE kind == Evidence(answer.next)
           kept == IF kind = "evidence" THEN {answer.next.sequence} ELSE {}
<1>1. answer \in PageAnswers /\ answer.next \in Positions /\ answer.next.sequence \in Nat
  BY DEF ClientHolds, PageAnswers, Positions
<1>2. answer' = [answer EXCEPT !.kind = kind, !.rows = kept]
  BY DEF ServeEvidence
<1>3. kind \in {"denied", "expired", "evidence"}
  BY DEF Evidence
<1>4. kind = "evidence" =>
        /\ answer.next.store = storeId /\ answer.next.sequence \in present
        /\ AnchorAt(answer.next.sequence) = answer.next.anchor /\ ~Stale(answer.next.sequence)
  BY DEF Evidence
<1>5. kept \in SUBSET Nat
  BY <1>1
<1> HIDE DEF kind, kept
<1>6. answer' \in PageAnswers /\ answer'.kind = kind /\ answer'.rows = kept
  BY <1>1, <1>2, <1>3, <1>5 DEF PageAnswers, Kinds
<1>7. SameStore /\ UNCHANGED <<request, returned, missing, rewound>>
  BY DEF ServeEvidence, SameStore, storeVars
<1>8. RowsHold' /\ QueryHolds' /\ reader' \in {"context", "query"}
  BY <1>7, StoreRemains
<1>9. ReadersTypeOK' /\ NothingSkipped'
  BY <1>7 DEF ReadersTypeOK, AppendHead, NothingSkipped, SameStore
<1>10. ClientHolds'
  BY <1>6, <1>7 DEF ClientHolds, SameStore
<1>11. AnswersHold
  BY <1>3, <1>4, <1>6 DEF AnswersHold, kept
<1> QED BY <1>8, <1>9, <1>10, <1>11

-----------------------------------------------------------------------------
(* Steps of the store.                                                     *)

\* Rows keep their numbers, and new ones come after them.
Grows ==
  /\ Len(appended) <= Len(appended')
  /\ \A s \in 1 .. Len(appended) : appended'[s] = appended[s]

\* A query between two pages lists what it listed, of rows that are there.
LEMMA QueryRemains ==
  ASSUME ReadersInv, reader' = reader, Grows, Len(appended') \in Nat, query' \in Queries,
         query'.on = query.on, query'.limit = query.limit, query'.cutoff = query.cutoff,
         query'.cursor = query.cursor, query'.events = query.events,
         query'.throughout \subseteq query.throughout, query'.throughout \subseteq present'
  PROVE  QueryHolds'
<1> USE DEF ReadersInv
<1>1. CASE reader # "query"
  BY <1>1 DEF QueryHolds
<1>2. CASE reader = "query"
  <2>1. /\ query.throughout \subseteq present /\ present \subseteq 1 .. Len(appended)
        /\ Len(appended) \in Nat
    BY <1>2 DEF QueryHolds, ReadersTypeOK, AppendHead, RowsHold
  <2>2. ASSUME NEW s \in 1 .. Len(appended)
        PROVE  Key(s)' = Key(s) /\ appended'[s] = appended[s] /\ s \in 1 .. Len(appended')
    BY <2>1 DEF Grows, Key
  <2>3. ASSUME NEW e \in query.events
        PROVE  e.row \in 1 .. Len(appended) /\ Key(e.row)' = Key(e.row)
    BY <1>2, <2>2 DEF QueryHolds
  <2>4. \A e \in query'.events :
            /\ e.row \in 1 .. Len(appended') /\ e.from < Cardinality(query'.events)
            /\ AtMost(Key(e.row), query.cursor)'
    BY <1>2, <2>2, <2>3 DEF QueryHolds, AtMost, Precedes
  <2>5. \A e, f \in query'.events : e.from < f.from => Precedes(Key(e.row), Key(f.row))'
    BY <1>2, <2>3 DEF QueryHolds, Precedes
  <2>6. ASSUME NEW s \in query'.throughout
        PROVE  /\ s \in query.throughout /\ Wanted(s)' = Wanted(s) /\ IsListed(s)' = IsListed(s)
               /\ AtMost(Key(s), query.cursor)' = AtMost(Key(s), query.cursor)
    BY <2>1, <2>2 DEF Wanted, IsListed, AtMost, Precedes
  <2>7. \A s \in query'.throughout : Wanted(s)' /\ AtMost(Key(s), query.cursor)' => IsListed(s)'
    BY <1>2, <2>6 DEF QueryHolds
  <2>8. \/ query'.on \/ Cardinality(query'.events) >= query'.limit
        \/ \A s \in query'.throughout : Wanted(s)' => IsListed(s)'
    BY <1>2, <2>6 DEF QueryHolds
  <2>9. IsFiniteSet(query'.events)
    BY DEF QueryHolds
  <2> QED BY <2>4, <2>5, <2>7, <2>8, <2>9 DEF QueryHolds
<1> QED BY <1>1, <1>2

\* A step of the store of which neither the client nor the query takes notice.
LEMMA ClientRemains ==
  ASSUME ReadersInv, clientVars' = clientVars, rewound' = rewound, storeId' = storeId, Grows,
         Len(appended') \in Nat
  PROVE  ClientHolds' /\ NothingSkipped' /\ AnswersHold
<1> USE DEF ReadersInv, clientVars
<1>1. AnswersHold
  BY DEF AnswersHold
<1>2. Len(appended) \in Nat /\ request.cursor.sequence \in Nat
  BY DEF RowsHold, ReadersTypeOK, Positions
<1>3. ClientHolds'
  BY <1>2 DEF ClientHolds, Given, Grows
<1>4. NothingSkipped'
  <2>1. SUFFICES ASSUME request.cursor.store = storeId, ~rewound, NEW s \in 1 .. request.cursor.sequence
                 PROVE  appended'[s].id \in returned \/ s \in missing
    BY DEF NothingSkipped
  <2>2. request.cursor.sequence <= Len(appended)
    BY <2>1 DEF ClientHolds
  <2>3. s \in 1 .. Len(appended)
    BY <1>2, <2>2
  <2> QED BY <2>1, <2>3 DEF NothingSkipped, Grows
<1> QED BY <1>1, <1>3, <1>4

LEMMA AppendRowHolds ==
  ASSUME ReadersInv, AppendRow
  PROVE  ReadersInv' /\ AnswersHold
<1> USE DEF ReadersInv
<1>1. PICK late \in {0, 1}, known \in BOOLEAN :
        /\ today > late
        /\ appended' = Append(appended, [id |-> eventIds + 1, ts |-> today - late, known |-> known])
  BY DEF AppendRow
<1> DEFINE added == [id |-> eventIds + 1, ts |-> today - late, known |-> known]
           n == Len(appended)
<1>2. eventIds \in Nat /\ today \in 1 .. MaxToday /\ MaxToday \in Nat /\ MaxAppends \in Nat /\ eventIds < MaxAppends
  BY StoreReadersAssumption DEF ReadersTypeOK, AppendRow
<1>3. added \in Row /\ added.id = eventIds + 1 /\ added.ts \in 1 .. today
  BY <1>1, <1>2 DEF Row
<1>4. appended \in Seq(Row) /\ n \in Nat /\ n <= eventIds
  BY DEF RowsHold
<1>5. eventIds' = eventIds + 1 /\ present' = present \cup {n + 1}
      /\ UNCHANGED <<storeId, today, hours, beats, deletions, upheavals, settings, rewound, reader,
                     clientVars, query>>
  BY DEF AppendRow, AppendHead
<1> HIDE DEF added
<1>6. /\ appended' \in Seq(Row) /\ Len(appended') = n + 1 /\ appended'[n + 1] = added
      /\ \A s \in 1 .. n : appended'[s] = appended[s]
  BY <1>1, <1>3, <1>4 DEF added
<1>7. Grows /\ Len(appended') \in Nat
  BY <1>4, <1>6 DEF Grows
<1>8. ASSUME NEW s \in 1 .. n + 1
      PROVE  /\ appended'[s].id \in 1 .. eventIds + 1 /\ appended'[s].ts \in 1 .. today
             /\ s <= n => appended'[s].id <= eventIds
  <2>1. CASE s = n + 1
    BY <1>2, <1>3, <1>4, <1>6, <2>1
  <2>2. CASE s # n + 1
    <3>1. s \in 1 .. n
      BY <1>4, <2>2
    <3>2. appended[s].id \in 1 .. eventIds /\ appended[s].ts \in 1 .. today
      BY <3>1 DEF RowsHold
    <3> QED BY <1>2, <1>6, <3>1, <3>2
  <2> QED BY <2>1, <2>2
<1>9. RowsHold'
  <2>1. ASSUME NEW s \in 1 .. n + 1, NEW r \in 1 .. n + 1, s < r
        PROVE  appended'[s].id < appended'[r].id
    <3>1. s \in 1 .. n
      BY <1>4, <2>1
    <3>2. CASE r = n + 1
      <4>1. appended'[s].id \in 1 .. eventIds + 1 /\ appended'[s].id <= eventIds
        BY <1>4, <1>8, <3>1
      <4> QED BY <1>2, <1>3, <1>6, <3>2, <4>1
    <3>3. CASE r # n + 1
      <4>1. r \in 1 .. n
        BY <1>4, <3>3
      <4> QED BY <1>6, <2>1, <3>1, <4>1 DEF RowsHold
    <3> QED BY <3>2, <3>3
  <2>2. storeId' # 0 /\ n + 1 <= eventIds + 1
    BY <1>2, <1>4, <1>5 DEF RowsHold
  <2> QED BY <1>5, <1>6, <1>8, <2>1, <2>2 DEF RowsHold
<1>10. ReadersTypeOK'
  <2>1. present' \subseteq 1 .. n + 1
    <3>1. present \subseteq 1 .. n
      BY DEF ReadersTypeOK, AppendHead
    <3> HIDE DEF n
    <3> QED BY <1>4, <1>5, <3>1
  <2>2. eventIds' \in 0 .. MaxAppends /\ today' \in 1 .. MaxToday
    BY <1>2, <1>5
  <2>3. returned' \subseteq 1 .. eventIds'
    BY <1>2, <1>5 DEF ReadersTypeOK, clientVars
  <2> QED BY <1>5, <1>6, <1>8, <2>1, <2>2, <2>3 DEF ReadersTypeOK, AppendHead, clientVars
<1>11. ClientHolds' /\ NothingSkipped' /\ AnswersHold
  BY <1>5, <1>7, ClientRemains
<1>12. QueryHolds'
  <2>1. query \in Queries /\ (reader = "query" => query.throughout \subseteq present')
    BY <1>5 DEF QueryHolds
  <2>2. CASE reader = "query"
    BY <1>5, <1>7, <2>1, <2>2, QueryRemains
  <2>3. CASE reader # "query"
    BY <1>5, <2>1, <2>3 DEF QueryHolds
  <2> QED BY <2>2, <2>3
<1> QED BY <1>5, <1>9, <1>10, <1>11, <1>12

LEMMA RemoveHolds ==
  ASSUME ReadersInv, NEW gone, RemoveRows(gone), deletions' \in 0 .. MaxDeletions
  PROVE  ReadersInv' /\ AnswersHold
<1> USE DEF ReadersInv
<1>1. /\ present' = present \ gone /\ query' = [query EXCEPT !.throughout = @ \ gone]
      /\ UNCHANGED <<storeId, appended, eventIds, today, hours, beats, upheavals, settings, rewound,
                     reader, clientVars>>
  BY DEF RemoveRows
<1>2. Grows /\ Len(appended') \in Nat
  BY <1>1 DEF Grows, RowsHold
<1>3. RowsHold'
  BY <1>1 DEF RowsHold
<1>4. ReadersTypeOK'
  BY <1>1 DEF ReadersTypeOK, AppendHead, clientVars
<1>5. ClientHolds' /\ NothingSkipped' /\ AnswersHold
  BY <1>1, <1>2, ClientRemains
<1>6. QueryHolds'
  <2>1. query \in Queries
    BY DEF QueryHolds
  <2>2. /\ query' \in Queries /\ query'.throughout = query.throughout \ gone
        /\ query'.on = query.on /\ query'.limit = query.limit /\ query'.cutoff = query.cutoff
        /\ query'.cursor = query.cursor /\ query'.events = query.events
    BY <1>1, <2>1 DEF Queries
  <2>3. CASE reader = "query"
    <3>1. query'.throughout \subseteq present'
      BY <1>1, <2>2, <2>3 DEF QueryHolds
    <3> QED BY <1>1, <1>2, <2>2, <3>1, QueryRemains
  <2>4. CASE reader # "query"
    BY <1>1, <2>2, <2>4 DEF QueryHolds
  <2> QED BY <2>3, <2>4
<1> QED BY <1>1, <1>3, <1>4, <1>5, <1>6

LEMMA SweepHolds ==
  ASSUME ReadersInv, Sweep
  PROVE  ReadersInv' /\ AnswersHold
<1>1. deletions' \in 0 .. MaxDeletions
  BY DEF ReadersInv, ReadersTypeOK, Sweep
<1> QED BY <1>1, RemoveHolds DEF Sweep

LEMMA PurgeHolds ==
  ASSUME ReadersInv, Purge
  PROVE  ReadersInv' /\ AnswersHold
<1>1. deletions' \in 0 .. MaxDeletions
  BY StoreReadersAssumption DEF ReadersInv, ReadersTypeOK, Purge
<1> QED BY <1>1, RemoveHolds DEF Purge

\* Another store: no position is of it.
LEMMA ReplaceHolds ==
  ASSUME ReadersInv, Replace
  PROVE  ReadersInv' /\ AnswersHold
<1> USE DEF ReadersInv
<1>1. /\ storeId' = storeId + 1 /\ appended' = <<>> /\ present' = {} /\ rewound' = FALSE
      /\ upheavals' = upheavals + 1 /\ upheavals < MaxUpheavals /\ reader = "context"
      /\ UNCHANGED <<eventIds, today, hours, beats, deletions, settings, reader, clientVars, query>>
  BY DEF Replace
<1>2. storeId \in Nat /\ eventIds \in Nat /\ MaxUpheavals \in Nat
  BY StoreReadersAssumption DEF ReadersTypeOK
<1>3. RowsHold'
  BY <1>1, <1>2 DEF RowsHold
<1>4. ReadersTypeOK'
  <2>1. upheavals' \in 0 .. MaxUpheavals /\ storeId' \in Nat
    BY <1>1, <1>2 DEF ReadersTypeOK
  <2>2. present' \subseteq 1 .. AppendHead' /\ \A s \in 1 .. AppendHead' : appended'[s].id \in 1 .. eventIds'
    BY <1>1 DEF AppendHead
  <2>3. /\ eventIds' \in 0 .. MaxAppends /\ today' \in 1 .. MaxToday /\ beats' \in BOOLEAN
        /\ hours' \in [configured : Retentions, daemon : Retentions]
        /\ deletions' \in 0 .. MaxDeletions /\ settings' \in 0 .. MaxSettings
    BY <1>1 DEF ReadersTypeOK
  <2>4. /\ request' \in [cursor : Positions, upper : Positions]
        /\ returned' \subseteq 1 .. eventIds' /\ missing' \subseteq 1 .. MaxAppends /\ rewound' \in BOOLEAN
    BY <1>1 DEF ReadersTypeOK, clientVars
  <2> QED BY <2>1, <2>2, <2>3, <2>4 DEF ReadersTypeOK
<1>5. request.cursor.store # storeId + 1
  <2>1. request.cursor.store \in Nat
    BY DEF ReadersTypeOK, Positions
  <2> QED BY <1>2, <2>1 DEF ClientHolds, Given
<1>6. ClientHolds'
  <2>1. request.upper.store \in Nat /\ request.cursor.store \in Nat
    BY DEF ReadersTypeOK, Positions
  <2> QED BY <1>1, <1>2, <1>5, <2>1 DEF ClientHolds, Given, clientVars
<1>7. NothingSkipped'
  BY <1>1, <1>5 DEF NothingSkipped, clientVars
<1>8. QueryHolds'
  BY <1>1 DEF QueryHolds
<1>9. AnswersHold
  BY <1>1 DEF AnswersHold, clientVars
<1> QED BY <1>1, <1>3, <1>4, <1>6, <1>7, <1>8, <1>9

\* A copy put back has the first rows.
LEMMA PutBackHolds ==
  ASSUME ReadersInv, PutBack
  PROVE  ReadersInv' /\ AnswersHold
<1> USE DEF ReadersInv
<1>1. PICK n \in 0 .. AppendHead - 1 :
        appended' = SubSeq(appended, 1, n) /\ present' = present \cap (1 .. n)
  BY DEF PutBack
<1>2. /\ rewound' = TRUE
      /\ upheavals' = upheavals + 1 /\ upheavals < MaxUpheavals /\ reader = "context"
      /\ UNCHANGED <<storeId, eventIds, today, hours, beats, deletions, settings, reader, clientVars, query>>
  BY DEF PutBack
<1>3. appended \in Seq(Row) /\ Len(appended) \in Nat /\ MaxUpheavals \in Nat /\ eventIds \in Nat
  BY StoreReadersAssumption DEF RowsHold, ReadersTypeOK
<1>4. n \in Nat /\ n < Len(appended)
  BY <1>1, <1>3 DEF AppendHead
<1>5. /\ appended' \in Seq(Row) /\ Len(appended') = n
      /\ \A s \in 1 .. n : appended'[s] = appended[s] /\ s \in 1 .. Len(appended)
  BY <1>1, <1>3, <1>4
<1>6. RowsHold'
  <2>1. n <= eventIds
    BY <1>3, <1>4 DEF RowsHold
  <2> QED BY <1>2, <1>5, <2>1 DEF RowsHold
<1>7. ReadersTypeOK'
  <2>1. upheavals' \in 0 .. MaxUpheavals
    BY <1>2, <1>3 DEF ReadersTypeOK
  <2> QED BY <1>1, <1>2, <1>5, <2>1 DEF ReadersTypeOK, AppendHead, clientVars
<1>8. ClientHolds' /\ NothingSkipped'
  BY <1>2 DEF ClientHolds, Given, NothingSkipped, clientVars
<1>9. QueryHolds'
  BY <1>2 DEF QueryHolds
<1>10. AnswersHold
  BY <1>2 DEF AnswersHold, clientVars
<1> QED BY <1>2, <1>6, <1>7, <1>8, <1>9, <1>10

\* Steps that leave the rows as they are.
LEMMA RowsRemain ==
  ASSUME ReadersInv, UNCHANGED <<storeId, appended, present, eventIds, rewound, reader, clientVars, query>>,
         today' \in today .. MaxToday
  PROVE  RowsHold' /\ ClientHolds' /\ NothingSkipped' /\ QueryHolds' /\ AnswersHold
<1> USE DEF ReadersInv
<1>1. today \in Nat
  BY StoreReadersAssumption DEF ReadersTypeOK
<1>2. RowsHold'
  <2>1. ASSUME NEW s \in 1 .. Len(appended)
        PROVE  appended[s].ts \in 1 .. today'
    BY <1>1 DEF RowsHold
  <2> QED BY <2>1 DEF RowsHold
<1>3. Grows /\ Len(appended') \in Nat
  BY DEF Grows, RowsHold
<1>4. ClientHolds' /\ NothingSkipped' /\ AnswersHold
  BY <1>3, ClientRemains
<1>5. QueryHolds'
  BY DEF QueryHolds, AtMost, Precedes, Key, Wanted, IsListed
<1> QED BY <1>2, <1>4, <1>5

LEMMA HoursSet ==
  ASSUME NEW R, NEW hs \in [configured : R, daemon : R], NEW h \in R
  PROVE  /\ [hs EXCEPT !.configured = h] \in [configured : R, daemon : R]
         /\ [hs EXCEPT !.daemon = h] \in [configured : R, daemon : R]
OBVIOUS

LEMMA RetentionChangesHolds ==
  ASSUME ReadersInv, RetentionChanges
  PROVE  ReadersInv' /\ AnswersHold
<1> USE DEF ReadersInv
<1>1. /\ settings' = settings + 1 /\ settings < MaxSettings
      /\ UNCHANGED <<storeId, appended, present, eventIds, today, deletions, upheavals, rewound,
                     reader, clientVars, query>>
  BY DEF RetentionChanges
<1>2. hours' \in [configured : Retentions, daemon : Retentions] /\ beats' \in BOOLEAN
  <2>1. hours \in [configured : Retentions, daemon : Retentions] /\ beats \in BOOLEAN
    BY DEF ReadersTypeOK
  <2>2. hours.configured \in Retentions
    BY <2>1
  <2>3. \A h \in Retentions : /\ [hours EXCEPT !.configured = h] \in [configured : Retentions, daemon : Retentions]
                              /\ [hours EXCEPT !.daemon = h] \in [configured : Retentions, daemon : Retentions]
    BY <2>1, HoursSet
  <2>5. hours' \in [configured : Retentions, daemon : Retentions]
    BY <2>1, <2>2, <2>3 DEF RetentionChanges
  <2>6. beats' \in BOOLEAN
    BY <2>1 DEF RetentionChanges
  <2> QED BY <2>5, <2>6
<1>3. settings' \in 0 .. MaxSettings /\ today' \in today .. MaxToday
  BY <1>1, StoreReadersAssumption DEF ReadersTypeOK
<1>4. ReadersTypeOK'
  BY <1>1, <1>2, <1>3 DEF ReadersTypeOK, AppendHead, clientVars
<1> QED BY <1>1, <1>3, <1>4, RowsRemain

LEMMA MorningHolds ==
  ASSUME ReadersInv, Morning
  PROVE  ReadersInv' /\ AnswersHold
<1> USE DEF ReadersInv
<1>1. /\ today' = today + 1 /\ today < MaxToday
      /\ UNCHANGED <<storeId, appended, present, eventIds, hours, beats, deletions, upheavals, settings,
                     rewound, reader, clientVars, query>>
  BY DEF Morning
<1>2. today' \in today .. MaxToday /\ today' \in 1 .. MaxToday
  BY <1>1, StoreReadersAssumption DEF ReadersTypeOK
<1>3. ReadersTypeOK'
  BY <1>1, <1>2 DEF ReadersTypeOK, AppendHead, clientVars
<1> QED BY <1>1, <1>2, <1>3, RowsRemain

-----------------------------------------------------------------------------
(* The pages of a query.                                                   *)

Places == Int \X Int

\* Precedes orders the places between rows.
LEMMA PlacesOrdered ==
  /\ \A k, l \in Places : k # l => Precedes(k, l) \/ Precedes(l, k)
  /\ \A k \in Places : ~Precedes(k, k)
  /\ \A k, l, m \in Places : Precedes(k, l) /\ Precedes(l, m) => Precedes(k, m)
<1>1. \A k \in Places : k[1] \in Int /\ k[2] \in Int /\ k = <<k[1], k[2]>>
  BY DEF Places
<1>2. ASSUME NEW k \in Places, NEW l \in Places, k # l
      PROVE  Precedes(k, l) \/ Precedes(l, k)
  <2>1. k[1] # l[1] \/ k[2] # l[2]
    BY <1>1, <1>2
  <2>2. k[1] \in Int /\ k[2] \in Int /\ l[1] \in Int /\ l[2] \in Int
    BY <1>1
  <2> QED BY <2>1, <2>2 DEF Precedes
<1>3. \A k \in Places : ~Precedes(k, k)
  BY <1>1 DEF Precedes
<1>4. ASSUME NEW k \in Places, NEW l \in Places, NEW m \in Places, Precedes(k, l), Precedes(l, m)
      PROVE  Precedes(k, m)
  <2>1. /\ k[1] \in Int /\ k[2] \in Int /\ l[1] \in Int /\ l[2] \in Int
        /\ m[1] \in Int /\ m[2] \in Int
    BY <1>1
  <2> QED BY <1>4, <2>1 DEF Precedes
<1> QED BY <1>2, <1>3, <1>4

Rows == 1 .. Len(appended)
ByKey == {p \in Rows \X Rows : Precedes(Key(p[1]), Key(p[2]))}

LEMMA KeysOrder ==
  ASSUME RowsHold, NEW S \in SUBSET Rows
  PROVE  /\ \A s \in Rows : Key(s) \in Places /\ Key(s)[1] >= 1
         /\ \A r, s \in Rows : Key(r) = Key(s) => r = s
         /\ \A r, s \in Rows : <<r, s>> \in ByKey <=> Precedes(Key(r), Key(s))
         /\ Orders(ByKey, S) /\ IsFiniteSet(S)
<1>1. Len(appended) \in Nat /\ appended \in Seq(Row)
  BY DEF RowsHold
<1>2. ASSUME NEW s \in Rows
      PROVE  /\ Key(s) \in Places /\ Key(s)[1] >= 1 /\ Key(s)[2] = appended[s].id
             /\ appended[s].id \in Nat
  <2>1. appended[s] \in Row /\ appended[s].ts \in 1 .. today
    BY <1>1 DEF Rows, RowsHold
  <2>2. appended[s].ts \in Int /\ appended[s].id \in Nat /\ appended[s].ts >= 1
    BY <2>1 DEF Row
  <2> QED BY <2>2 DEF Key, Places
<1>3. ASSUME NEW r \in Rows, NEW s \in Rows, Key(r) = Key(s)
      PROVE  r = s
  <2>1. appended[r].id = appended[s].id /\ appended[r].id \in Nat
    BY <1>2, <1>3
  <2>2. r \in Int /\ s \in Int
    BY <1>1 DEF Rows
  <2>3. r < s \/ s < r \/ r = s
    BY <2>2
  <2> QED BY <2>1, <2>3 DEF RowsHold, Rows
<1>4. \A r, s \in Rows : <<r, s>> \in ByKey <=> Precedes(Key(r), Key(s))
  BY DEF ByKey
<1>5. Orders(ByKey, S)
  <2>1. \A s \in S : s \in Rows /\ Key(s) \in Places
    BY <1>2
  <2>2. ASSUME NEW r \in S, NEW s \in S, r # s
        PROVE  <<r, s>> \in ByKey \/ <<s, r>> \in ByKey
    BY <1>3, <1>4, <2>1, <2>2, PlacesOrdered
  <2>3. \A s \in S : <<s, s>> \notin ByKey
    BY <1>4, <2>1, PlacesOrdered
  <2>4. ASSUME NEW r \in S, NEW s \in S, NEW t \in S, <<r, s>> \in ByKey, <<s, t>> \in ByKey
        PROVE  <<r, t>> \in ByKey
    BY <1>4, <2>1, <2>4, PlacesOrdered
  <2> QED BY <2>2, <2>3, <2>4 DEF Orders
<1>6. IsFiniteSet(S)
  <2>1. IsFiniteSet(Rows)
    BY <1>1, FS_Interval DEF Rows
  <2> QED BY <2>1, FS_Subset
<1> QED BY <1>2, <1>3, <1>4, <1>5, <1>6

LEMMA BeforeIsUnder ==
  ASSUME RowsHold, NEW T \in SUBSET Rows, NEW s \in Rows
  PROVE  /\ Before(T, s) = Under(ByKey, T, s)
         /\ Before(T, s) \subseteq T /\ IsFiniteSet(Before(T, s)) /\ Cardinality(Before(T, s)) \in Nat
<1>1. Before(T, s) = Under(ByKey, T, s)
  BY KeysOrder DEF Before, Under
<1>2. Before(T, s) \subseteq T
  BY DEF Before
<1>3. IsFiniteSet(T)
  BY KeysOrder
<1>4. IsFiniteSet(Before(T, s))
  BY <1>2, <1>3, FS_Subset
<1> QED BY <1>1, <1>2, <1>4, FS_CardinalityType

\* When there are fewer than n rows, the first n of them are all.
LEMMA FirstIsAll ==
  ASSUME RowsHold, NEW S \in SUBSET Rows, NEW T \in SUBSET Rows, NEW n \in Nat, Cardinality(T) < n
  PROVE  First(S, T, n) = S
<1>1. ASSUME NEW s \in S
      PROVE  Cardinality(Before(T, s)) < n
  <2>1. Before(T, s) \in SUBSET T /\ Cardinality(Before(T, s)) \in Nat
    BY BeforeIsUnder
  <2>2. IsFiniteSet(T)
    BY KeysOrder
  <2>3. Cardinality(Before(T, s)) <= Cardinality(T) /\ Cardinality(T) \in Nat
    BY <2>1, <2>2, FS_Subset, FS_CardinalityType
  <2> QED BY <2>1, <2>3
<1> QED BY <1>1 DEF First

\* A row before one of the first is one of them.
LEMMA FirstIsClosed ==
  ASSUME RowsHold, NEW S \in SUBSET Rows, NEW T \in SUBSET Rows, NEW n \in Nat,
         NEW s \in First(S, T, n), NEW r \in S, Precedes(Key(r), Key(s))
  PROVE  r \in First(S, T, n)
<1>1. s \in Rows /\ r \in Rows /\ Cardinality(Before(T, s)) < n
  BY DEF First
<1>2. Before(T, r) \in SUBSET Before(T, s)
  <2>1. ASSUME NEW t \in T, Precedes(Key(t), Key(r))
        PROVE  Precedes(Key(t), Key(s))
    <3>1. Key(t) \in Places /\ Key(r) \in Places /\ Key(s) \in Places
      BY <1>1, KeysOrder
    <3> QED BY <2>1, <3>1, PlacesOrdered
  <2> QED BY <2>1 DEF Before
<1>3. IsFiniteSet(Before(T, s)) /\ Cardinality(Before(T, s)) \in Nat /\ Cardinality(Before(T, r)) \in Nat
  BY <1>1, BeforeIsUnder
<1>4. Cardinality(Before(T, r)) <= Cardinality(Before(T, s))
  BY <1>2, <1>3, FS_Subset
<1>5. Cardinality(Before(T, r)) < n
  BY <1>1, <1>3, <1>4
<1> QED BY <1>5 DEF First

LEMMA FirstIsMany ==
  ASSUME RowsHold, NEW S \in SUBSET Rows, NEW n \in 0 .. Cardinality(S)
  PROVE  Cardinality(First(S, S, n)) = n
<1>1. First(S, S, n) = {s \in S : Cardinality(Under(ByKey, S, s)) < n}
  <2>1. \A s \in S : s \in Rows /\ Before(S, s) = Under(ByKey, S, s)
    BY BeforeIsUnder
  <2> QED BY <2>1 DEF First
<1>2. IsFiniteSet(S) /\ Orders(ByKey, S)
  BY KeysOrder
<1> QED BY <1>1, <1>2, FirstCounts

\* The rows of a page listed, and those it stops at.
LEMMA BeginQueryHolds ==
  ASSUME ReadersInv, BeginQuery
  PROVE  ReadersInv' /\ AnswersHold
<1> USE DEF ReadersInv
<1>1. PICK limit \in QueryLimits :
         query' = [on |-> TRUE, limit |-> limit + 1, cutoff |-> Cutoff, cursor |-> <<0, 0>>,
                   events |-> {}, throughout |-> present]
  BY DEF BeginQuery
<1>2. UNCHANGED <<storeVars, reader, clientVars>>
  BY DEF BeginQuery
<1>3. RowsHold' /\ ReadersTypeOK' /\ ClientHolds' /\ NothingSkipped' /\ AnswersHold
  BY <1>2 DEF RowsHold, ReadersTypeOK, AppendHead, ClientHolds, NothingSkipped, AnswersHold,
              storeVars, clientVars
<1>4. query' \in Queries
  <2>1. limit + 1 \in Nat
    BY StoreReadersAssumption
  <2>2. Cutoff \in Int
    <3>1. hours.configured \in Nat /\ hours.daemon \in Nat /\ today \in Int
      <4>1. hours \in [configured : Retentions, daemon : Retentions] /\ today \in 1 .. MaxToday
        BY DEF ReadersTypeOK
      <4>2. hours.configured \in Retentions /\ hours.daemon \in Retentions /\ today \in Int
        BY <4>1
      <4>3. Retentions \subseteq Nat
        BY StoreReadersAssumption
      <4> QED BY <4>2, <4>3
    <3> QED BY <3>1 DEF Cutoff, EffectiveHours
  <2>3. present \in SUBSET Nat /\ <<0, 0>> \in Int \X Int /\ {} \in SUBSET [from : Nat, row : Nat]
    BY DEF ReadersTypeOK
  <2> HIDE DEF Cutoff
  <2> QED BY <1>1, <2>1, <2>2, <2>3 DEF Queries
<1>5. /\ query'.on = TRUE /\ query'.events = {} /\ query'.cursor = <<0, 0>> /\ query'.throughout = present
  BY <1>1
<1>6. ASSUME NEW s \in present
      PROVE  ~AtMost(Key(s), <<0, 0>>)
  <2>1. s \in Rows
    BY DEF ReadersTypeOK, AppendHead, Rows
  <2>2. Key(s) \in Places /\ Key(s)[1] >= 1
    BY <2>1, KeysOrder
  <2>3. Key(s)[1] \in Int
    BY <2>2 DEF Places
  <2> QED BY <2>2, <2>3 DEF AtMost, Precedes
<1>7. QueryHolds'
  <2>1. IsFiniteSet(query'.events)
    BY <1>5, FS_EmptySet
  <2>2. \A s \in present : ~AtMost(Key(s), query.cursor)'
    BY <1>2, <1>5, <1>6 DEF AtMost, Precedes, Key, storeVars
  <2> QED BY <1>2, <1>4, <1>5, <2>1, <2>2 DEF QueryHolds, storeVars
<1> QED BY <1>2, <1>3, <1>7

\* The rows a page lists are as many as their entries.
LEMMA EntriesCount ==
  ASSUME NEW N \in Nat, NEW S, IsFiniteSet(S)
  PROVE  LET E == {[from |-> N, row |-> s] : s \in S}
         IN  IsFiniteSet(E) /\ Cardinality(E) = Cardinality(S)
<1> DEFINE E == {[from |-> N, row |-> s] : s \in S}
           f == [s \in S |-> [from |-> N, row |-> s]]
<1>1. f \in [S -> E] /\ \A s \in S : f[s].row = s
  OBVIOUS
<1>2. \A e \in E : \E s \in S : f[s] = e
  OBVIOUS
<1> HIDE DEF E, f
<1>3. \A a, b \in S : f[a] = f[b] => a = b
  BY <1>1
<1>4. f \in Bijection(S, E)
  BY <1>1, <1>2, <1>3 DEF Bijection, Injection, IsInjective, Surjection
<1>5. ExistsBijection(S, E)
  BY <1>4 DEF ExistsBijection
<1>6. IsFiniteSet(E) /\ Cardinality(E) = Cardinality(S)
  BY <1>5, FS_Bijection
<1> QED BY <1>6 DEF E

LEMMA QueryPageHolds ==
  ASSUME ReadersInv, QueryPage
  PROVE  ReadersInv' /\ AnswersHold
<1> USE DEF ReadersInv
<1> DEFINE N == Cardinality(query.events)
           Remaining == query.limit - N
           PageRows == IF Remaining > MinPageRows THEN Remaining ELSE MinPageRows
           Matching == {s \in present : appended[s].ts >= query.cutoff /\ AfterCursor(s)}
           Page == First(Matching, Matching, PageRows)
           Known == {s \in Page : appended[s].known}
           Reached == First(Page, Known, Remaining)
           IsLast(s) == \A r \in Reached \ {s} : Precedes(Key(r), Key(s))
           Last == CHOOSE s \in Reached : IsLast(s)
           More == {[from |-> N, row |-> s] : s \in Known \cap Reached}
           cursor == IF Reached = {} THEN query.cursor ELSE Key(Last)
           on == Cardinality(Matching) >= PageRows /\ Cardinality(Known) < Remaining
<1>1. /\ reader = "query" /\ query.on /\ N < query.limit /\ UNCHANGED <<storeVars, reader, clientVars>>
      /\ query' = [query EXCEPT !.on = on, !.cursor = cursor, !.events = @ \cup More]
  BY DEF QueryPage
<1>2. query \in Queries /\ IsFiniteSet(query.events) /\ N \in Nat
  BY FS_CardinalityType DEF QueryHolds
<1>3. Remaining \in Nat \ {0} /\ PageRows \in Nat /\ Remaining <= PageRows
  <2>1. query.limit \in Nat /\ MinPageRows \in Nat
    BY <1>2, StoreReadersAssumption DEF Queries
  <2> QED BY <1>1, <1>2, <2>1
<1>4. /\ Matching \in SUBSET Rows /\ Page \in SUBSET Matching /\ Known \in SUBSET Page
      /\ Reached \in SUBSET Page
  BY DEF First, ReadersTypeOK, AppendHead, Rows
<1>5. /\ \A s \in Matching : s \in present /\ appended[s].ts >= query.cutoff /\ Precedes(query.cursor, Key(s))
      /\ \A s \in present : appended[s].ts >= query.cutoff /\ Precedes(query.cursor, Key(s)) => s \in Matching
      /\ \A s \in Page : s \in Known <=> appended[s].known
  BY DEF AfterCursor
<1>6. More = {[from |-> N, row |-> s] : s \in Known \cap Reached}
  OBVIOUS
<1>7. Known \cap Reached = First(Known, Known, Remaining)
  BY DEF First
<1> HIDE DEF N, Remaining, PageRows, Matching, Page, Known, Reached, More
<1>8. Reached # {} => Last \in Reached /\ IsLast(Last)
  <2>1. SUFFICES ASSUME Reached # {} PROVE \E s \in Reached : IsLast(s)
    OBVIOUS
  <2>2. Reached \in SUBSET Rows
    BY <1>4
  <2>3. Orders(ByKey, Reached) /\ IsFiniteSet(Reached)
    BY <2>2, KeysOrder
  <2>4. PICK s \in Reached : \A r \in Reached \ {s} : <<r, s>> \in ByKey
    BY <2>1, <2>3, LastExists
  <2>5. IsLast(s)
    BY <2>2, <2>4, KeysOrder
  <2> QED BY <2>5
<1> HIDE DEF Last, on, cursor
<1>9. query.cursor \in Places /\ cursor \in Places /\ (Reached # {} => cursor = Key(Last))
  <2>1. query.cursor \in Places
    BY <1>2 DEF Queries, Places
  <2>2. Reached # {} => Key(Last) \in Places
    BY <1>4, <1>8, KeysOrder
  <2> QED BY <2>1, <2>2 DEF cursor
<1>10. \A k \in Places : AtMost(k, query.cursor) => AtMost(k, cursor)
  <2>1. CASE Reached = {}
    BY <2>1 DEF cursor
  <2>2. CASE Reached # {}
    <3>1. Precedes(query.cursor, cursor)
      BY <1>4, <1>5, <1>8, <1>9, <2>2
    <3> QED BY <1>9, <3>1, PlacesOrdered DEF AtMost
  <2> QED BY <2>1, <2>2
<1>11. /\ IsFiniteSet(More) /\ Cardinality(More) = Cardinality(Known \cap Reached)
       /\ Cardinality(More) \in Nat
  <2>1. IsFiniteSet(Known \cap Reached)
    BY <1>4, KeysOrder
  <2> QED BY <1>2, <1>6, <2>1, EntriesCount, FS_CardinalityType
<1>12. \A e \in More : /\ e.from = N /\ e.row \in Known /\ e.row \in Reached /\ e \in [from : Nat, row : Nat]
  <2>1. \A s \in Known : s \in Nat
    BY <1>4 DEF Rows
  <2> QED BY <1>2, <1>6, <2>1
<1>13. \A e \in query.events : e.from < N /\ e.row \in Rows /\ AtMost(Key(e.row), query.cursor)
                               /\ e \in [from : Nat, row : Nat]
  BY <1>1, <1>2 DEF QueryHolds, Rows, N, Queries
<1> DEFINE events == query.events \cup More
<1>14. IsFiniteSet(events) /\ Cardinality(events) = N + Cardinality(More) /\ events \in SUBSET [from : Nat, row : Nat]
  <2>1. query.events \cap More = {}
    BY <1>2, <1>12, <1>13
  <2>2. IsFiniteSet(events)
        /\ Cardinality(events) = Cardinality(query.events) + Cardinality(More)
                                 - Cardinality(query.events \cap More)
    BY <1>2, <1>11, FS_Union
  <2>3. Cardinality(query.events \cap More) = 0
    BY <2>1, FS_EmptySet
  <2>4. Cardinality(events) = N + Cardinality(More)
    BY <1>2, <1>11, <2>2, <2>3 DEF N
  <2> QED BY <1>12, <1>13, <2>2, <2>4
<1> HIDE DEF events
<1>15. /\ query' \in Queries /\ query'.on = on /\ query'.cursor = cursor /\ query'.events = events
       /\ query'.limit = query.limit /\ query'.cutoff = query.cutoff /\ query'.throughout = query.throughout
  <2>1. on \in BOOLEAN
    BY DEF on
  <2>2. query' = [query EXCEPT !.on = on, !.cursor = cursor, !.events = events]
    BY <1>1 DEF events
  <2> QED BY <1>2, <1>9, <1>14, <2>1, <2>2 DEF Queries, Places
<1>16. /\ query.throughout \subseteq present
       /\ \A e, f \in query.events : e.from < f.from => Precedes(Key(e.row), Key(f.row))
       /\ \A s \in query.throughout : Wanted(s) /\ AtMost(Key(s), query.cursor) => IsListed(s)
  BY <1>1 DEF QueryHolds
<1>17. \A e \in events : /\ e.row \in Rows /\ e.from < Cardinality(events) /\ AtMost(Key(e.row), cursor)
                           /\ e.from \in Nat
  <2>1. ASSUME NEW e \in query.events
        PROVE  /\ e.row \in Rows /\ e.from < Cardinality(events) /\ AtMost(Key(e.row), cursor)
    <3>1. e.from \in Nat /\ e.row \in Rows /\ Key(e.row) \in Places
      BY <1>13, KeysOrder
    <3> QED BY <1>2, <1>10, <1>11, <1>13, <1>14, <3>1
  <2>2. ASSUME NEW e \in More
        PROVE  /\ e.row \in Rows /\ e.from < Cardinality(events) /\ AtMost(Key(e.row), cursor)
    <3>1. e.row \in Reached /\ e.row \in Rows /\ e.from = N
      BY <1>4, <1>12
    <3>2. Cardinality(More) # 0
      BY <1>11, FS_EmptySet
    <3>3. AtMost(Key(e.row), cursor)
      BY <1>8, <1>9, <3>1 DEF AtMost
    <3> QED BY <1>2, <1>11, <1>14, <3>1, <3>2, <3>3
  <2>3. \A e \in events : e.from \in Nat
    BY <1>14
  <2> QED BY <2>1, <2>2, <2>3 DEF events
<1>18. ASSUME NEW e \in events, NEW f \in events, e.from < f.from
       PROVE  Precedes(Key(e.row), Key(f.row))
  <2>1. e.from \in Nat /\ f.from \in Nat
    BY <1>17
  <2>2. e \in query.events
    BY <1>2, <1>12, <1>13, <1>18, <2>1 DEF events
  <2>3. CASE f \in query.events
    BY <1>16, <1>18, <2>2, <2>3
  <2>4. CASE f \in More
    <3>1. f.row \in Matching /\ f.row \in Rows /\ e.row \in Rows
      BY <1>4, <1>12, <1>13, <2>2, <2>4
    <3>2. AtMost(Key(e.row), query.cursor) /\ Precedes(query.cursor, Key(f.row))
      BY <1>5, <1>13, <2>2, <3>1
    <3>3. Key(e.row) \in Places /\ Key(f.row) \in Places
      BY <3>1, KeysOrder
    <3> QED BY <1>9, <3>2, <3>3, PlacesOrdered DEF AtMost
  <2> QED BY <2>3, <2>4 DEF events
<1> DEFINE Lists(s) == \E e \in events : e.row = s
<1>19. \A s : s \in Known /\ s \in Reached => Lists(s)
  <2>1. ASSUME NEW s \in Known \cap Reached
        PROVE  Lists(s)
    <3> DEFINE e == [from |-> N, row |-> s]
    <3>1. e \in events /\ e.row = s
      BY <1>6 DEF events
    <3> QED BY <3>1
  <2> QED BY <2>1
<1>20. \A s : IsListed(s) => Lists(s)
  BY DEF IsListed, events
<1>21. ASSUME NEW s \in query.throughout, Wanted(s), ~AtMost(Key(s), query.cursor)
       PROVE  s \in Matching /\ s \in Rows /\ Key(s) \in Places
  <2>1. s \in present /\ s \in Rows
    BY <1>16, <1>21 DEF ReadersTypeOK, AppendHead, Rows
  <2>2. Key(s) \in Places
    BY <2>1, KeysOrder
  <2>3. Precedes(query.cursor, Key(s))
    BY <1>9, <1>21, <2>2, PlacesOrdered DEF AtMost
  <2> QED BY <1>5, <1>21, <2>1, <2>2, <2>3 DEF Wanted
<1>22. ASSUME NEW s \in query.throughout, Wanted(s), AtMost(Key(s), cursor)
       PROVE  Lists(s)
  <2>1. CASE AtMost(Key(s), query.cursor)
    BY <1>16, <1>20, <1>22, <2>1
  <2>2. CASE ~AtMost(Key(s), query.cursor)
    <3>1. s \in Matching /\ s \in Rows
      BY <1>21, <1>22, <2>2
    <3>2. Reached # {} /\ cursor = Key(Last)
      BY <1>9, <1>22, <2>2 DEF cursor
    <3>3. Last \in Reached /\ Last \in Page /\ Last \in Rows
      BY <1>4, <1>8, <3>2
    <3>4. CASE Key(s) = Key(Last)
      <4>1. s = Last
        BY <3>1, <3>3, <3>4, KeysOrder
      <4> QED BY <1>5, <1>19, <1>22, <3>3, <4>1 DEF Wanted
    <3>5. CASE Precedes(Key(s), Key(Last))
      <4>1. s \in Page
        BY <1>3, <1>4, <3>1, <3>3, <3>5, FirstIsClosed DEF Page
      <4>2. Page \in SUBSET Rows /\ Known \in SUBSET Rows
        BY <1>4
      <4>3. s \in Reached
        BY <1>3, <3>3, <3>5, <4>1, <4>2, FirstIsClosed DEF Reached
      <4> QED BY <1>5, <1>19, <1>22, <4>1, <4>3 DEF Wanted
    <3> QED BY <1>22, <3>2, <3>4, <3>5 DEF AtMost
  <2> QED BY <2>1, <2>2
<1>23. on \/ Cardinality(events) >= query.limit \/ \A s \in query.throughout : Wanted(s) => Lists(s)
  <2>1. Cardinality(Known) \in Nat /\ Cardinality(Matching) \in Nat /\ Known \in SUBSET Rows
        /\ Page \in SUBSET Rows
    <3>1. IsFiniteSet(Known) /\ IsFiniteSet(Matching)
      BY <1>4, KeysOrder
    <3> QED BY <1>4, <3>1, FS_CardinalityType
  <2>2. CASE Cardinality(Known) >= Remaining
    <3>1. Remaining \in 0 .. Cardinality(Known)
      BY <1>3, <2>1, <2>2
    <3>2. Cardinality(Known \cap Reached) = Remaining
      BY <1>7, <2>1, <3>1, FirstIsMany
    <3>3. query.limit \in Nat
      BY <1>2 DEF Queries
    <3> QED BY <1>2, <1>11, <1>14, <3>2, <3>3 DEF Remaining
  <2>3. CASE Cardinality(Known) < Remaining /\ Cardinality(Matching) < PageRows
    <3>1. Page = Matching
      BY <1>3, <1>4, <2>3, FirstIsAll DEF Page
    <3>2. Reached = Page
      BY <1>3, <2>1, <2>3, FirstIsAll DEF Reached
    <3>3. ASSUME NEW s \in query.throughout, Wanted(s)
          PROVE  Lists(s)
      <4>1. CASE AtMost(Key(s), query.cursor)
        BY <1>16, <1>20, <3>3, <4>1
      <4>2. CASE ~AtMost(Key(s), query.cursor)
        <5>1. s \in Page /\ s \in Reached
          BY <1>21, <3>1, <3>2, <3>3, <4>2
        <5> QED BY <1>5, <1>19, <3>3, <5>1 DEF Wanted
      <4> QED BY <4>1, <4>2
    <3> QED BY <3>3
  <2>4. CASE on
    BY <2>4
  <2>5. on \/ Cardinality(Known) >= Remaining
           \/ (Cardinality(Known) < Remaining /\ Cardinality(Matching) < PageRows)
    BY <1>3, <2>1 DEF on
  <2> QED BY <2>2, <2>3, <2>4, <2>5
<1>24. QueryHolds'
  <2>1. UNCHANGED <<appended, present, reader>>
    BY <1>1 DEF storeVars
  <2>2. \A s : Wanted(s)' = Wanted(s) /\ Key(s)' = Key(s) /\ (IsListed(s)' <=> Lists(s))
    BY <1>15, <2>1 DEF Wanted, Key, IsListed
  <2>3. \A k, l : AtMost(k, l)' = AtMost(k, l) /\ Precedes(k, l)' = Precedes(k, l)
    BY DEF AtMost, Precedes
  <2>4. /\ \A e \in query'.events :
            /\ e.row \in 1 .. Len(appended') /\ e.from < Cardinality(query'.events)
            /\ AtMost(Key(e.row), query.cursor)'
        /\ \A e, f \in query'.events : e.from < f.from => Precedes(Key(e.row), Key(f.row))'
    BY <1>15, <1>17, <1>18, <2>1 DEF Rows, AtMost, Precedes, Key
  <2>5. \A s \in query'.throughout : Wanted(s)' /\ AtMost(Key(s), query.cursor)' => IsListed(s)'
    <3>1. \A s : AtMost(Key(s), query.cursor)' <=> AtMost(Key(s), cursor)
      BY <1>15, <2>1 DEF AtMost, Precedes, Key
    <3> QED BY <1>15, <1>22, <2>2, <3>1
  <2>6. \/ query'.on \/ Cardinality(query'.events) >= query'.limit
        \/ \A s \in query'.throughout : Wanted(s)' => IsListed(s)'
    BY <1>15, <1>23, <2>2
  <2>7. query' \in Queries /\ IsFiniteSet(query'.events) /\ query'.throughout \subseteq present'
    BY <1>14, <1>15, <1>16, <2>1
  <2> QED BY <2>4, <2>5, <2>6, <2>7 DEF QueryHolds
<1>25. RowsHold' /\ ReadersTypeOK' /\ ClientHolds' /\ NothingSkipped' /\ AnswersHold /\ reader' = reader
  BY <1>1 DEF RowsHold, ReadersTypeOK, AppendHead, ClientHolds, NothingSkipped, AnswersHold,
              storeVars, clientVars
<1> QED BY <1>24, <1>25

\* When a query is over it has listed what it should.
LEMMA QueryIsExact ==
  ASSUME ReadersInv
  PROVE  QueryExact
<1> USE DEF ReadersInv
<1>1. SUFFICES ASSUME reader = "query", ~query.on, query.limit > 0
               PROVE  /\ \A e, f \in query.events : e.from < f.from => Precedes(Key(e.row), Key(f.row))
                      /\ \A s \in query.throughout :
                           /\ appended[s].known /\ appended[s].ts >= query.cutoff
                           /\ Cardinality(query.events) > query.limit - 1
                                => \E e \in query.events : Precedes(Key(s), Key(e.row))
                           => \E e \in query.events : e.row = s
  BY DEF QueryExact
<1>2. query.limit \in Nat /\ Cardinality(query.events) \in Nat /\ query.cursor \in Places
  BY FS_CardinalityType DEF QueryHolds, Queries, Places
<1>3. \A e, f \in query.events : e.from < f.from => Precedes(Key(e.row), Key(f.row))
  BY <1>1 DEF QueryHolds
<1>4. ASSUME NEW s \in query.throughout, Wanted(s),
             Cardinality(query.events) > query.limit - 1
               => \E e \in query.events : Precedes(Key(s), Key(e.row))
      PROVE  IsListed(s)
  <2>1. CASE ~(Cardinality(query.events) > query.limit - 1)
    BY <1>1, <1>2, <1>4, <2>1 DEF QueryHolds
  <2>2. CASE Cardinality(query.events) > query.limit - 1
    <3>1. PICK e \in query.events : Precedes(Key(s), Key(e.row))
      BY <1>4, <2>2
    <3>2. e.row \in Rows /\ AtMost(Key(e.row), query.cursor)
      BY <1>1 DEF QueryHolds, Rows
    <3>3. s \in Rows
      BY <1>1 DEF QueryHolds, ReadersTypeOK, AppendHead, Rows
    <3>4. Key(s) \in Places /\ Key(e.row) \in Places
      BY <3>2, <3>3, KeysOrder
    <3>5. Precedes(Key(s), query.cursor)
      BY <1>2, <3>1, <3>2, <3>4, PlacesOrdered DEF AtMost
    <3> QED BY <1>1, <1>4, <3>5 DEF QueryHolds, AtMost
  <2> QED BY <2>1, <2>2
<1> QED BY <1>3, <1>4 DEF Wanted, IsListed

-----------------------------------------------------------------------------
(* The behaviours.                                                         *)

LEMMA ReadersStart ==
  ASSUME ReadersInit
  PROVE  ReadersInv
<1> USE DEF ReadersInit
<1>1. NoAnchor \in [id : Nat, ts : Int] /\ NoPosition \in Positions
  BY DEF NoAnchor, NoPosition, Positions
<1>2. ReadersTypeOK
  <2>1. MaxAppends \in Nat /\ MaxDeletions \in Nat /\ MaxUpheavals \in Nat /\ MaxSettings \in Nat
        /\ MaxToday \in Nat \ {0}
    BY StoreReadersAssumption
  <2>2. present \subseteq 1 .. AppendHead /\ \A s \in 1 .. AppendHead : appended[s].id \in 1 .. eventIds
    BY DEF AppendHead
  <2>3. hours \in [configured : Retentions, daemon : Retentions]
    OBVIOUS
  <2>4. request \in [cursor : Positions, upper : Positions]
    BY <1>1
  <2>5. beats \in BOOLEAN /\ rewound \in BOOLEAN
    OBVIOUS
  <2>6. /\ storeId \in Nat /\ eventIds \in 0 .. MaxAppends /\ today \in 1 .. MaxToday
        /\ deletions \in 0 .. MaxDeletions /\ upheavals \in 0 .. MaxUpheavals
        /\ settings \in 0 .. MaxSettings
        /\ returned \subseteq 1 .. eventIds /\ missing \subseteq 1 .. MaxAppends
    BY <2>1
  <2> QED BY <2>2, <2>3, <2>4, <2>5, <2>6 DEF ReadersTypeOK
<1>3. RowsHold
  BY DEF RowsHold
<1>4. NoPosition.sequence = 0 /\ NoPosition.store = 0 /\ NoPosition.head = 0
  BY DEF NoPosition
<1>5. ClientHolds
  <2>1. NoAnswer \in PageAnswers
    BY <1>1 DEF NoAnswer, PageAnswers, Kinds
  <2>2. request.cursor = NoPosition /\ request.upper = NoPosition
    OBVIOUS
  <2> QED BY <1>4, <2>1, <2>2 DEF ClientHolds, Given
<1>6. NothingSkipped
  BY <1>4 DEF NothingSkipped
<1>7. QueryHolds
  <2>1. NoQuery \in Queries /\ NoQuery.events = {} /\ NoQuery.throughout = {}
    BY DEF NoQuery, Queries
  <2>2. query = NoQuery
    OBVIOUS
  <2> QED BY <2>1, <2>2, FS_EmptySet DEF QueryHolds
<1> QED BY <1>2, <1>3, <1>5, <1>6, <1>7 DEF ReadersInv

LEMMA ReadersStep ==
  ASSUME ReadersInv, ReadersNext
  PROVE  ReadersInv' /\ AnswersHold
BY ServePageHolds, ServeEvidenceHolds, BeginQueryHolds, QueryPageHolds, AppendRowHolds, SweepHolds,
   PurgeHolds, ReplaceHolds, PutBackHolds, RetentionChangesHolds, MorningHolds DEF ReadersNext

LEMMA ReadersStill ==
  ASSUME ReadersInv, UNCHANGED readerVars
  PROVE  ReadersInv' /\ AnswersHold
<1> USE DEF readerVars, storeVars
<1>1. ReadersTypeOK' /\ RowsHold'
  BY DEF ReadersInv, ReadersTypeOK, AppendHead, RowsHold
<1>2. ClientHolds' /\ NothingSkipped'
  BY DEF ReadersInv, ClientHolds, NothingSkipped
<1>3. QueryHolds'
  BY DEF ReadersInv, QueryHolds, AtMost, Precedes, Key, Wanted, IsListed
<1>4. AnswersHold
  BY DEF AnswersHold
<1> QED BY <1>1, <1>2, <1>3, <1>4 DEF ReadersInv

\* A client that follows the answers of a store that is appended to, swept, purged and
\* replaced between two requests is told of every row up to its position, what it is
\* told is right, and a query by pages lists what it should, once and in order
\* (store/context_page.rs, store/query.rs), in the behaviours of the run.
THEOREM ReadersAreToldTruly == StoreSpec => ReadersToldTruly
<1> DEFINE Inv == part = "readers" => ReadersInv
<1>1. StoreInit => Inv
  <2> SUFFICES ASSUME StoreInit PROVE Inv
    OBVIOUS
  <2>1. part = "readers" => ReadersInit
    BY DEF StoreInit
  <2> QED BY <2>1, ReadersStart
<1>2. Inv /\ [StoreNext]_storeMCVars => Inv' /\ (part = "readers" => AnswersHold)
  <2> SUFFICES ASSUME Inv, [StoreNext]_storeMCVars PROVE Inv' /\ (part = "readers" => AnswersHold)
    OBVIOUS
  <2>1. part' = part /\ (part = "readers" => ReadersNext \/ UNCHANGED readerVars)
    BY DEF StoreNext, storeMCVars
  <2> QED BY <2>1, ReadersStep, ReadersStill
<1>3. Inv => (part = "readers" => ReadersTypeOK /\ NothingSkipped /\ QueryExact)
  BY QueryIsExact DEF ReadersInv
<1>4. StoreSpec => [](part = "readers" => ReadersTypeOK /\ NothingSkipped /\ QueryExact)
  BY <1>1, <1>2, <1>3, PTL DEF StoreSpec
<1>5. StoreSpec => [][part = "readers" => AnswersHold]_storeMCVars
  BY <1>1, <1>2, PTL DEF StoreSpec
<1> QED BY <1>4, <1>5, PTL DEF ReadersToldTruly

-----------------------------------------------------------------------------
(* The sessions of a timeline.                                             *)

\* A session made of events has no span of its own yet; one of snapshots only has one.
Dated(s) == s.span = NoSpan \/ s.span.start >= 1
Plain(s) == Dated(s) /\ (s.events = <<>> <=> s.span # NoSpan)
\* After a merger of neighbours a session may have both, never neither.
Begun(s) == Dated(s) /\ (s.events = <<>> => s.span # NoSpan)

AllPlain(L) == \A i \in 1 .. Len(L) : Plain(L[i])
AllBegun(L) == \A i \in 1 .. Len(L) : Begun(L[i])

InputsSorted ==
  /\ \A i, j \in 1 .. Len(rows) : i <= j => rows[i].at <= rows[j].at
  /\ \A i, j \in 1 .. Len(content) : i <= j => content[i].at <= content[j].at

\* While the events are split into sessions.
Splitting ==
  /\ Len(pendingIn) <= Len(rows)
  /\ \A i \in 1 .. Len(pendingIn) : pendingIn[i] = Len(rows) - Len(pendingIn) + i
  /\ \A i \in 1 .. Len(base) : base[i].events # <<>> /\ base[i].snaps = {}

\* While the snapshots are assigned.
Assigning ==
  /\ Len(pendingIn) <= Len(content)
  /\ \A i \in 1 .. Len(pendingIn) : pendingIn[i] = Len(content) - Len(pendingIn) + i

\* While sessions are grouped, and after.
Grouping ==
  /\ phase \notin {"absorb", "merge"} => pendingIn = <<>>
  /\ phase \in {"absorb", "fit", "bare"} => AllPlain(raw)
  /\ AllBegun(raw) /\ AllPlain(pendingIn)

TimelineInv ==
  /\ TimelineTypeOK /\ InputsSorted /\ TimelineSound /\ AllPlain(base)
  /\ phase = "split" => Splitting
  /\ phase = "assign" => Assigning
  /\ phase \notin {"split", "assign"} => Grouping
  /\ truncated => phase \in {"drop", "done"}

-----------------------------------------------------------------------------
(* Lists of sessions.                                                      *)

LEMMA ListTypes ==
  ASSUME NEW L \in Seq(Sessions)
  PROVE  /\ Len(L) \in Nat
         /\ \A i \in 1 .. Len(L) :
              /\ L[i] \in Sessions /\ L[i].events \in Seq(1 .. Len(rows)) /\ Len(L[i].events) \in Nat
              /\ \A p \in 1 .. Len(L[i].events) : L[i].events[p] \in 1 .. Len(rows)
<1>1. Len(L) \in Nat /\ \A i \in 1 .. Len(L) : L[i] \in Sessions
  OBVIOUS
<1>2. ASSUME NEW s \in Sessions
      PROVE  /\ s.events \in Seq(1 .. Len(rows)) /\ Len(s.events) \in Nat
             /\ \A p \in 1 .. Len(s.events) : s.events[p] \in 1 .. Len(rows)
  <2>1. s.events \in Seq(1 .. Len(rows))
    BY DEF Sessions
  <2> QED BY <2>1
<1> QED BY <1>1, <1>2

\* M is L with a later event r at its end.
AddsEvent(M, L, r) ==
  /\ \A i \in 1 .. Len(L) : \A p \in 1 .. Len(L[i].events) : L[i].events[p] < r
  /\ \A j \in 1 .. Len(M) : \A q \in 1 .. Len(M[j].events) :
       \/ j \in 1 .. Len(L) /\ q \in 1 .. Len(L[j].events) /\ M[j].events[q] = L[j].events[q]
       \/ j = Len(M) /\ q = Len(M[j].events) /\ M[j].events[q] = r
  /\ \A i \in 1 .. Len(L) : \A p \in 1 .. Len(L[i].events) :
       i \in 1 .. Len(M) /\ p \in 1 .. Len(M[i].events) /\ M[i].events[p] = L[i].events[p]
  /\ Len(M) >= 1 /\ Len(M[Len(M)].events) >= 1 /\ M[Len(M)].events[Len(M[Len(M)].events)] = r

LEMMA OneMoreEvent ==
  ASSUME NEW L \in Seq(Sessions), NEW M \in Seq(Sessions), NEW r \in Nat, Ascending(L), AddsEvent(M, L, r)
  PROVE  Ascending(M) /\ \A x : HasEvent(M, x) <=> HasEvent(L, x) \/ x = r
<1>0. /\ \A i \in 1 .. Len(L) : \A p \in 1 .. Len(L[i].events) : L[i].events[p] < r
      /\ \A j \in 1 .. Len(M) : \A q \in 1 .. Len(M[j].events) :
           \/ j \in 1 .. Len(L) /\ q \in 1 .. Len(L[j].events) /\ M[j].events[q] = L[j].events[q]
           \/ j = Len(M) /\ q = Len(M[j].events) /\ M[j].events[q] = r
      /\ \A i \in 1 .. Len(L) : \A p \in 1 .. Len(L[i].events) :
           i \in 1 .. Len(M) /\ p \in 1 .. Len(M[i].events) /\ M[i].events[p] = L[i].events[p]
      /\ Len(M) >= 1 /\ Len(M[Len(M)].events) >= 1 /\ M[Len(M)].events[Len(M[Len(M)].events)] = r
  BY DEF AddsEvent
<1>1. /\ Len(L) \in Nat /\ Len(M) \in Nat
      /\ \A i \in 1 .. Len(L) : Len(L[i].events) \in Nat
      /\ \A i \in 1 .. Len(M) : Len(M[i].events) \in Nat
  BY ListTypes
<1>2. Ascending(M)
  <2> SUFFICES ASSUME NEW i \in 1 .. Len(M), NEW j \in 1 .. Len(M),
                      NEW p \in 1 .. Len(M[i].events), NEW q \in 1 .. Len(M[j].events),
                      i < j \/ (i = j /\ p < q)
               PROVE  M[i].events[p] < M[j].events[q]
    BY DEF Ascending
  <2>1. i \in 1 .. Len(L) /\ p \in 1 .. Len(L[i].events) /\ M[i].events[p] = L[i].events[p]
    <3>1. \/ i \in 1 .. Len(L) /\ p \in 1 .. Len(L[i].events) /\ M[i].events[p] = L[i].events[p]
          \/ i = Len(M) /\ p = Len(M[i].events)
      BY <1>0
    <3>2. ~(i = Len(M) /\ p = Len(M[i].events))
      <4>1. Len(M[i].events) \in Nat /\ Len(M[j].events) \in Nat /\ Len(M) \in Nat
        BY <1>1
      <4> QED BY <4>1
    <3> QED BY <3>1, <3>2
  <2>2. CASE j = Len(M) /\ q = Len(M[j].events) /\ M[j].events[q] = r
    BY <1>0, <2>1, <2>2
  <2>3. CASE j \in 1 .. Len(L) /\ q \in 1 .. Len(L[j].events) /\ M[j].events[q] = L[j].events[q]
    BY <2>1, <2>3 DEF Ascending
  <2> QED BY <1>0, <2>2, <2>3
<1>3. ASSUME NEW x
      PROVE  HasEvent(M, x) <=> HasEvent(L, x) \/ x = r
  <2>1. ASSUME HasEvent(M, x), x # r
        PROVE  HasEvent(L, x)
    <3>0. PICK j \in 1 .. Len(M) : \E q \in 1 .. Len(M[j].events) : M[j].events[q] = x
      BY <2>1 DEF HasEvent
    <3>1. PICK q \in 1 .. Len(M[j].events) : M[j].events[q] = x
      BY <3>0
    <3>2. j \in 1 .. Len(L) /\ q \in 1 .. Len(L[j].events) /\ M[j].events[q] = L[j].events[q]
      BY <1>0, <2>1, <3>1
    <3> QED BY <3>1, <3>2 DEF HasEvent
  <2>2. ASSUME HasEvent(L, x)
        PROVE  HasEvent(M, x)
    <3>0. PICK i \in 1 .. Len(L) : \E p \in 1 .. Len(L[i].events) : L[i].events[p] = x
      BY <2>2 DEF HasEvent
    <3>1. PICK p \in 1 .. Len(L[i].events) : L[i].events[p] = x
      BY <3>0
    <3>2. i \in 1 .. Len(M) /\ p \in 1 .. Len(M[i].events) /\ M[i].events[p] = L[i].events[p]
      BY <1>0
    <3> QED BY <3>1, <3>2 DEF HasEvent
  <2>3. HasEvent(M, r)
    BY <1>0, <1>1 DEF HasEvent
  <2> QED BY <2>1, <2>2, <2>3
<1> QED BY <1>2, <1>3

\* Sessions with the same events keep what they list.
LEMMA SameEvents ==
  ASSUME NEW L \in Seq(Sessions), NEW M \in Seq(Sessions), Len(M) = Len(L),
         \A i \in 1 .. Len(L) : M[i].events = L[i].events
  PROVE  (Ascending(L) => Ascending(M)) /\ \A x : HasEvent(M, x) <=> HasEvent(L, x)
BY DEF Ascending, HasEvent

\* A session without events among the others.
LEMMA EmptyBetween ==
  ASSUME NEW L \in Seq(Sessions), NEW s \in Sessions, NEW i \in 1 .. Len(L) + 1, s.events = <<>>
  PROVE  /\ Inserted(L, i, s) \in Seq(Sessions) /\ Len(Inserted(L, i, s)) = Len(L) + 1
         /\ \A j \in 1 .. Len(L) + 1 :
              Inserted(L, i, s)[j] = IF j < i THEN L[j] ELSE IF j = i THEN s ELSE L[j - 1]
         /\ Ascending(L) => Ascending(Inserted(L, i, s))
         /\ \A x : HasEvent(Inserted(L, i, s), x) <=> HasEvent(L, x)
<1> DEFINE M == Inserted(L, i, s)
           N == Len(L) + 1
<1>1. Len(L) \in Nat /\ N \in Nat /\ \A j \in 1 .. Len(L) : Len(L[j].events) \in Nat
  BY ListTypes
<1>2. M \in [1 .. N -> Sessions]
      /\ \A j \in 1 .. N : M[j] = IF j < i THEN L[j] ELSE IF j = i THEN s ELSE L[j - 1]
  <2>1. ASSUME NEW j \in 1 .. N
        PROVE  (IF j < i THEN L[j] ELSE IF j = i THEN s ELSE L[j - 1]) \in Sessions
    <3>1. CASE j < i
      <4>1. j \in 1 .. Len(L)
        BY <1>1, <3>1
      <4> QED BY <3>1, <4>1
    <3>2. CASE j > i
      <4>1. j - 1 \in 1 .. Len(L)
        BY <1>1, <3>2
      <4> QED BY <3>2, <4>1
    <3> QED BY <1>1, <3>1, <3>2
  <2> QED BY <2>1 DEF Inserted
<1>3. M \in Seq(Sessions) /\ Len(M) = N
  BY <1>1, <1>2
<1>4. Len(<<>>) = 0
  OBVIOUS
<1> HIDE DEF M
<1>5. ASSUME NEW j \in 1 .. N, NEW q \in 1 .. Len(M[j].events)
      PROVE  j # i /\ M[j] = L[IF j < i THEN j ELSE j - 1]
             /\ (IF j < i THEN j ELSE j - 1) \in 1 .. Len(L)
  BY <1>1, <1>2, <1>4
<1>6. ASSUME Ascending(L)
      PROVE  Ascending(M)
  <2> SUFFICES ASSUME NEW j \in 1 .. N, NEW k \in 1 .. N,
                      NEW p \in 1 .. Len(M[j].events), NEW q \in 1 .. Len(M[k].events),
                      j < k \/ (j = k /\ p < q)
               PROVE  M[j].events[p] < M[k].events[q]
    BY <1>3 DEF Ascending
  <2> DEFINE J == IF j < i THEN j ELSE j - 1
             K == IF k < i THEN k ELSE k - 1
  <2>1. J \in 1 .. Len(L) /\ K \in 1 .. Len(L) /\ M[j] = L[J] /\ M[k] = L[K] /\ j # i /\ k # i
    BY <1>5
  <2>2. J < K \/ (J = K /\ p < q)
    BY <1>1, <2>1
  <2> QED BY <1>6, <2>1, <2>2 DEF Ascending
<1>7. ASSUME NEW x
      PROVE  HasEvent(M, x) <=> HasEvent(L, x)
  <2>1. ASSUME HasEvent(M, x)
        PROVE  HasEvent(L, x)
    <3>1. PICK j \in 1 .. N : \E q \in 1 .. Len(M[j].events) : M[j].events[q] = x
      BY <1>3, <2>1 DEF HasEvent
    <3> QED BY <1>5, <3>1 DEF HasEvent
  <2>2. ASSUME HasEvent(L, x)
        PROVE  HasEvent(M, x)
    <3>1. PICK j \in 1 .. Len(L) : \E q \in 1 .. Len(L[j].events) : L[j].events[q] = x
      BY <2>2 DEF HasEvent
    <3> DEFINE J == IF j < i THEN j ELSE j + 1
    <3>2. J \in 1 .. N /\ M[J] = L[j]
      BY <1>1, <1>2
    <3> HIDE DEF J
    <3> QED BY <1>3, <3>1, <3>2 DEF HasEvent
  <2> QED BY <2>1, <2>2
<1> QED BY <1>2, <1>3, <1>6, <1>7 DEF M

\* Two neighbours put together.
Joins(M, L, i, s) ==
  /\ i \in 1 .. Len(L) - 1 /\ Len(M) = Len(L) - 1
  /\ s.events = L[i].events \o L[i + 1].events /\ s.snaps = L[i].snaps \cup L[i + 1].snaps
  /\ StartAt(s) = StartAt(L[i])
  /\ \A j \in 1 .. Len(M) : M[j] = IF j < i THEN L[j] ELSE IF j = i THEN s ELSE L[j + 1]

LEMMA Concatenation ==
  ASSUME NEW S, NEW s \in Seq(S), NEW t \in Seq(S)
  PROVE  /\ s \o t \in Seq(S) /\ Len(s) \in Nat /\ Len(t) \in Nat /\ Len(s \o t) = Len(s) + Len(t)
         /\ \A p \in 1 .. Len(s) + Len(t) : (s \o t)[p] = IF p <= Len(s) THEN s[p] ELSE t[p - Len(s)]
<1>1. s \o t \in Seq(S) /\ Len(s) \in Nat /\ Len(t) \in Nat /\ Len(s \o t) = Len(s) + Len(t)
  OBVIOUS
<1>2. ASSUME NEW p \in 1 .. Len(s) + Len(t)
      PROVE  (s \o t)[p] = IF p <= Len(s) THEN s[p] ELSE t[p - Len(s)]
  OBVIOUS
<1> QED BY <1>1, <1>2

LEMMA JoinedEvents ==
  ASSUME NEW L \in Seq(Sessions), NEW i \in 1 .. Len(L) - 1
  PROVE  /\ L[i].events \o L[i + 1].events \in Seq(1 .. Len(rows))
         /\ Len(L[i].events \o L[i + 1].events) = Len(L[i].events) + Len(L[i + 1].events)
         /\ \A p \in 1 .. Len(L[i].events) + Len(L[i + 1].events) :
              (L[i].events \o L[i + 1].events)[p] =
                 IF p <= Len(L[i].events) THEN L[i].events[p]
                 ELSE L[i + 1].events[p - Len(L[i].events)]
<1>1. i \in 1 .. Len(L) /\ i + 1 \in 1 .. Len(L)
  BY ListTypes
<1>2. L[i].events \in Seq(1 .. Len(rows)) /\ L[i + 1].events \in Seq(1 .. Len(rows))
  BY <1>1, ListTypes
<1> QED BY <1>2, Concatenation

LEMMA JoinKeepsEvents ==
  ASSUME NEW L \in Seq(Sessions), NEW M \in Seq(Sessions), NEW i, NEW s, Joins(M, L, i, s)
  PROVE  (Ascending(L) => Ascending(M)) /\ \A x : HasEvent(M, x) <=> HasEvent(L, x)
<1> DEFINE a == Len(L[i].events)
           b == Len(L[i + 1].events)
           Origin(j, p) == IF j < i \/ (j = i /\ p <= a) THEN j ELSE j + 1
           Within(j, p) == IF j = i /\ p > a THEN p - a ELSE p
<1>1. /\ Len(L) \in Nat /\ Len(M) = Len(L) - 1 /\ i \in 1 .. Len(M)
      /\ \A j \in 1 .. Len(L) : Len(L[j].events) \in Nat
  BY ListTypes DEF Joins
<1>2. a \in Nat /\ b \in Nat /\ i \in Nat /\ i \in 1 .. Len(L) /\ i + 1 \in 1 .. Len(L)
  BY <1>1
<1>3. /\ Len(s.events) = a + b
      /\ \A p \in 1 .. a + b : s.events[p] = IF p <= a THEN L[i].events[p] ELSE L[i + 1].events[p - a]
  <2>1. s.events = L[i].events \o L[i + 1].events /\ i \in 1 .. Len(L) - 1
    BY DEF Joins
  <2>2. Len(s.events) = a + b
    BY <2>1, JoinedEvents
  <2>3. \A p \in 1 .. a + b : s.events[p] = IF p <= a THEN L[i].events[p] ELSE L[i + 1].events[p - a]
    BY <2>1, JoinedEvents
  <2> QED BY <2>2, <2>3
<1>4. \A j \in 1 .. Len(M) : M[j] = IF j < i THEN L[j] ELSE IF j = i THEN s ELSE L[j + 1]
  BY DEF Joins
<1>5. ASSUME NEW j \in 1 .. Len(M), NEW p \in 1 .. Len(M[j].events)
      PROVE  /\ Origin(j, p) \in 1 .. Len(L) /\ Within(j, p) \in 1 .. Len(L[Origin(j, p)].events)
             /\ M[j].events[p] = L[Origin(j, p)].events[Within(j, p)]
  <2>1. CASE j < i
    BY <1>1, <1>4, <2>1
  <2>2. CASE j = i /\ p <= a
    <3>1. M[j] = s /\ p \in 1 .. Len(s.events) /\ p \in 1 .. a /\ i \in 1 .. Len(L)
      BY <1>1, <1>2, <1>4, <2>2
    <3>2. s.events[p] = L[i].events[p]
      BY <1>3, <2>2, <3>1
    <3> QED BY <2>2, <3>1, <3>2
  <2>3. CASE j = i /\ p > a
    <3>1. M[j] = s /\ p \in 1 .. Len(s.events) /\ p \in Int
      BY <1>1, <1>4, <2>3
    <3>2. p - a \in 1 .. Len(L[i + 1].events) /\ s.events[p] = L[i + 1].events[p - a]
      <4>1. s.events[p] = L[i + 1].events[p - a]
        <5>1. p \in 1 .. a + b /\ ~(p <= a)
          <6>1. p \in 1 .. a + b
            BY <1>3, <3>1
          <6> HIDE DEF a, b
          <6> QED BY <1>2, <2>3, <6>1
        <5> HIDE DEF a, b
        <5> QED BY <1>3, <5>1
      <4>2. p \in 1 .. a + b
        BY <1>3, <3>1
      <4>3. p - a \in 1 .. b
        <5> HIDE DEF a, b
        <5> QED BY <1>2, <2>3, <3>1, <4>2
      <4> QED BY <4>1, <4>3
    <3> QED BY <1>1, <2>3, <3>1, <3>2
  <2>4. CASE j > i
    <3>1. M[j] = L[j + 1] /\ j + 1 \in 1 .. Len(L) /\ Origin(j, p) = j + 1 /\ Within(j, p) = p
      BY <1>1, <1>4, <2>4
    <3> HIDE DEF Origin, Within
    <3> QED BY <3>1
  <2>5. j \in Int /\ i \in Int /\ a \in Int /\ p \in Int
    BY <1>1, <1>2
  <2> QED BY <2>1, <2>2, <2>3, <2>4, <2>5
<1>6. ASSUME Ascending(L)
      PROVE  Ascending(M)
  <2> SUFFICES ASSUME NEW j \in 1 .. Len(M), NEW k \in 1 .. Len(M),
                      NEW p \in 1 .. Len(M[j].events), NEW q \in 1 .. Len(M[k].events),
                      j < k \/ (j = k /\ p < q)
               PROVE  M[j].events[p] < M[k].events[q]
    BY DEF Ascending
  <2>1. p \in Int /\ q \in Int /\ j \in Int /\ k \in Int /\ i \in Int
    BY <1>1
  <2>2. \/ Origin(j, p) < Origin(k, q)
        \/ Origin(j, p) = Origin(k, q) /\ Within(j, p) < Within(k, q)
    BY <1>2, <2>1
  <2> HIDE DEF Origin, Within
  <2> QED BY <1>5, <1>6, <2>2 DEF Ascending
<1>7. ASSUME NEW x
      PROVE  HasEvent(M, x) <=> HasEvent(L, x)
  <2>1. ASSUME HasEvent(M, x)
        PROVE  HasEvent(L, x)
    <3>0. PICK j \in 1 .. Len(M) : \E p \in 1 .. Len(M[j].events) : M[j].events[p] = x
      BY <2>1 DEF HasEvent
    <3>1. PICK p \in 1 .. Len(M[j].events) : M[j].events[p] = x
      BY <3>0
    <3> HIDE DEF Origin, Within
    <3> QED BY <1>5, <3>1 DEF HasEvent
  <2>2. ASSUME HasEvent(L, x)
        PROVE  HasEvent(M, x)
    <3>0. PICK j \in 1 .. Len(L) : \E p \in 1 .. Len(L[j].events) : L[j].events[p] = x
      BY <2>2 DEF HasEvent
    <3>1. PICK p \in 1 .. Len(L[j].events) : L[j].events[p] = x
      BY <3>0
    <3>2. j \in Int /\ i \in Int /\ p \in Int
      BY <1>1
    <3>3. ASSUME NEW J \in 1 .. Len(M), NEW q \in 1 .. Len(M[J].events), M[J].events[q] = x
          PROVE  HasEvent(M, x)
      BY <3>3 DEF HasEvent
    <3>4. CASE j < i
      <4>1. j \in 1 .. Len(M) /\ M[j] = L[j]
        BY <1>1, <1>4, <3>2, <3>4
      <4> QED BY <3>1, <3>3, <4>1
    <3>5. CASE j = i
      <4>1. i \in 1 .. Len(M) /\ M[i] = s /\ p \in 1 .. Len(s.events) /\ s.events[p] = x
        <5>1. p \in 1 .. Len(s.events) /\ p <= a /\ L[i].events[p] = x
          <6>1. p \in 1 .. a /\ L[i].events[p] = x
            BY <3>1, <3>5
          <6>2. p \in 1 .. a + b /\ p <= a
            <7> HIDE DEF a, b
            <7> QED BY <1>2, <6>1
          <6> QED BY <1>3, <6>1, <6>2
        <5>2. s.events[p] = x
          BY <1>3, <5>1
        <5> QED BY <1>1, <1>4, <5>1, <5>2
      <4> QED BY <3>3, <4>1
    <3>6. CASE j = i + 1
      <4>1. i \in 1 .. Len(M) /\ M[i] = s /\ p + a \in 1 .. Len(s.events) /\ s.events[p + a] = x
        <5>1. p + a \in 1 .. Len(s.events) /\ ~(p + a <= a) /\ (p + a) - a = p
          <6>1. p \in 1 .. Len(L[i + 1].events) /\ p \in Nat /\ p >= 1
            BY <1>2, <3>1, <3>2, <3>6
          <6>2. Len(s.events) = a + Len(L[i + 1].events)
            BY <1>3
          <6>3. p \in 1 .. b
            BY <6>1
          <6> HIDE DEF a, b
          <6>4. p + a \in 1 .. a + b /\ ~(p + a <= a) /\ (p + a) - a = p
            BY <1>2, <6>3
          <6> QED BY <1>3, <6>4
        <5>2. s.events[p + a] = L[i + 1].events[p]
          BY <1>3, <5>1
        <5> QED BY <1>1, <1>4, <3>1, <3>6, <5>1, <5>2
      <4> QED BY <3>3, <4>1
    <3>7. CASE j > i + 1
      <4>1. j - 1 \in 1 .. Len(M) /\ M[j - 1] = L[j]
        BY <1>1, <1>4, <3>2, <3>7
      <4> QED BY <3>1, <3>3, <4>1
    <3> QED BY <3>2, <3>4, <3>5, <3>6, <3>7
  <2> QED BY <2>1, <2>2
<1> QED BY <1>6, <1>7

LEMMA ItemOfList ==
  ASSUME NEW S, NEW s \in Seq(S)
  PROVE  Len(s) \in Nat /\ \A i \in 1 .. Len(s) : s[i] \in S
OBVIOUS

LEMMA InputTypes ==
  ASSUME TimelineTypeOK
  PROVE  /\ Len(rows) \in Nat /\ Len(content) \in Nat
         /\ \A r \in 1 .. Len(rows) : rows[r].at \in 1 .. LastSecond /\ rows[r].app \in Programs
         /\ \A k \in 1 .. Len(content) : content[k].at \in 1 .. LastSecond /\ content[k].app \in Programs
<1> DEFINE R == [at : Seconds, app : Programs, activate : BOOLEAN]
           C == [at : Seconds, app : Programs]
<1>1. rows \in Seq(R) /\ content \in Seq(C)
  BY DEF TimelineTypeOK
<1>2. /\ Len(rows) \in Nat /\ Len(content) \in Nat
      /\ \A r \in 1 .. Len(rows) : rows[r] \in R
      /\ \A k \in 1 .. Len(content) : content[k] \in C
  <2> HIDE DEF R, C
  <2> QED BY <1>1, ItemOfList
<1> QED BY <1>2 DEF Seconds

\* When a session began is a time.
LEMMA StartTypes ==
  ASSUME TimelineTypeOK, NEW s \in Sessions
  PROVE  StartAt(s) \in 0 .. LastSecond /\ StartAt(s) \in Int /\ App(s) \in Programs \cup {"none"}
<1>1. s.span \in Spans /\ s.events \in Seq(1 .. Len(rows)) /\ LastSecond \in Nat
  BY TimelineAssumption DEF Sessions
<1>2. s.span.start \in 0 .. LastSecond /\ s.span.app \in Programs \cup {"none"}
  BY <1>1 DEF Spans
<1>3. \A r \in 1 .. Len(rows) : rows[r].at \in 1 .. LastSecond /\ rows[r].app \in Programs
  BY InputTypes
<1>4. CASE s.events = <<>>
  BY <1>1, <1>2, <1>4 DEF StartAt, App
<1>5. CASE s.events # <<>>
  <2>1. s.events[1] \in 1 .. Len(rows)
    BY <1>1, <1>5
  <2>2. rows[s.events[1]].at \in 0 .. LastSecond /\ rows[s.events[1]].app \in Programs
    BY <1>1, <1>3, <2>1
  <2>3. StartAt(s) \in {rows[s.events[1]].at, s.span.start} /\ App(s) = rows[s.events[1]].app
    BY <1>5 DEF StartAt, App
  <2> QED BY <1>1, <1>2, <2>2, <2>3
<1> QED BY <1>4, <1>5

LEMMA JoinKeepsRest ==
  ASSUME TimelineTypeOK, NEW L \in Seq(Sessions), NEW M \in Seq(Sessions), NEW i, NEW s, Joins(M, L, i, s)
  PROVE  /\ Apart(L) => Apart(M)
         /\ \A k : HasSnapshot(M, k) <=> HasSnapshot(L, k)
         /\ InOrder(L) => InOrder(M)
<1> DEFINE Origin(j) == IF j <= i THEN j ELSE j + 1
<1>1. /\ Len(L) \in Nat /\ Len(M) = Len(L) - 1 /\ i \in 1 .. Len(M) /\ i \in Nat
      /\ i \in 1 .. Len(L) /\ i + 1 \in 1 .. Len(L)
  BY ListTypes DEF Joins
<1>2. /\ \A j \in 1 .. Len(M) : M[j] = IF j < i THEN L[j] ELSE IF j = i THEN s ELSE L[j + 1]
      /\ s.snaps = L[i].snaps \cup L[i + 1].snaps /\ StartAt(s) = StartAt(L[i])
  BY DEF Joins
<1>3. ASSUME NEW j \in 1 .. Len(M)
      PROVE  /\ j \in Nat /\ Origin(j) \in 1 .. Len(L) /\ StartAt(M[j]) = StartAt(L[Origin(j)])
             /\ j # i => M[j] = L[Origin(j)]
  <2>1. CASE j < i
    BY <1>1, <1>2, <2>1
  <2>2. CASE j = i
    BY <1>1, <1>2, <2>2
  <2>3. CASE j > i
    BY <1>1, <1>2, <2>3
  <2> QED BY <1>1, <2>1, <2>2, <2>3
<1>4. ASSUME Apart(L)
      PROVE  Apart(M)
  <2> SUFFICES ASSUME NEW j \in 1 .. Len(M), NEW k \in 1 .. Len(M), j # k
               PROVE  M[j].snaps \cap M[k].snaps = {}
    BY DEF Apart
  <2>1. Origin(j) # Origin(k) /\ j \in Nat /\ k \in Nat
        /\ (j # i => Origin(j) # i /\ Origin(j) # i + 1) /\ (k # i => Origin(k) # i /\ Origin(k) # i + 1)
    BY <1>1, <1>3
  <2>2. /\ Origin(j) \in 1 .. Len(L) /\ Origin(k) \in 1 .. Len(L)
        /\ j # i => M[j] = L[Origin(j)]
        /\ k # i => M[k] = L[Origin(k)]
    BY <1>3
  <2>3. M[i].snaps = L[i].snaps \cup L[i + 1].snaps
    BY <1>1, <1>2
  <2> HIDE DEF Origin
  <2>4. CASE j # i /\ k # i
    BY <1>4, <2>1, <2>2, <2>4 DEF Apart
  <2>5. CASE j = i
    <3>1. L[i].snaps \cap L[Origin(k)].snaps = {} /\ L[i + 1].snaps \cap L[Origin(k)].snaps = {}
      BY <1>1, <1>4, <2>1, <2>2, <2>5 DEF Apart
    <3>2. M[k] = L[Origin(k)] /\ M[j].snaps = L[i].snaps \cup L[i + 1].snaps
      BY <2>2, <2>3, <2>5
    <3> QED BY <3>1, <3>2
  <2>6. CASE k = i
    <3>1. L[i].snaps \cap L[Origin(j)].snaps = {} /\ L[i + 1].snaps \cap L[Origin(j)].snaps = {}
      BY <1>1, <1>4, <2>1, <2>2, <2>6 DEF Apart
    <3>2. M[j] = L[Origin(j)] /\ M[k].snaps = L[i].snaps \cup L[i + 1].snaps
      BY <2>2, <2>3, <2>6
    <3> QED BY <3>1, <3>2
  <2> QED BY <2>4, <2>5, <2>6
<1>5. ASSUME NEW k
      PROVE  HasSnapshot(M, k) <=> HasSnapshot(L, k)
  <2>1. ASSUME HasSnapshot(M, k)
        PROVE  HasSnapshot(L, k)
    <3>1. PICK j \in 1 .. Len(M) : k \in M[j].snaps
      BY <2>1 DEF HasSnapshot
    <3>2. CASE j = i
      <4>1. k \in L[i].snaps \/ k \in L[i + 1].snaps
        BY <1>2, <3>1, <3>2
      <4> QED BY <1>1, <4>1 DEF HasSnapshot
    <3>3. CASE j # i
      <4>1. M[j] = L[Origin(j)] /\ Origin(j) \in 1 .. Len(L)
        BY <1>3, <3>3
      <4> HIDE DEF Origin
      <4> QED BY <3>1, <4>1 DEF HasSnapshot
    <3> QED BY <3>2, <3>3
  <2>2. ASSUME HasSnapshot(L, k)
        PROVE  HasSnapshot(M, k)
    <3>1. PICK j \in 1 .. Len(L) : k \in L[j].snaps
      BY <2>2 DEF HasSnapshot
    <3>2. CASE j < i
      <4>1. j \in 1 .. Len(M) /\ M[j] = L[j]
        BY <1>1, <1>2, <3>2
      <4> QED BY <3>1, <4>1 DEF HasSnapshot
    <3>3. CASE j = i \/ j = i + 1
      <4>1. k \in M[i].snaps
        BY <1>1, <1>2, <3>1, <3>3
      <4> QED BY <1>1, <4>1 DEF HasSnapshot
    <3>4. CASE j > i + 1
      <4>1. j - 1 \in 1 .. Len(M) /\ M[j - 1] = L[j]
        BY <1>1, <1>2, <3>4
      <4> QED BY <3>1, <4>1 DEF HasSnapshot
    <3> QED BY <1>1, <3>2, <3>3, <3>4
  <2> QED BY <2>1, <2>2
<1>6. ASSUME InOrder(L)
      PROVE  InOrder(M)
  <2> SUFFICES ASSUME NEW j \in 1 .. Len(M), NEW k \in 1 .. Len(M), j <= k
               PROVE  StartAt(M[j]) <= StartAt(M[k])
    BY DEF InOrder
  <2>1. Origin(j) <= Origin(k)
    BY <1>1, <1>3
  <2>2. /\ Origin(j) \in 1 .. Len(L) /\ Origin(k) \in 1 .. Len(L)
        /\ StartAt(M[j]) = StartAt(L[Origin(j)]) /\ StartAt(M[k]) = StartAt(L[Origin(k)])
    BY <1>3
  <2> HIDE DEF Origin
  <2> QED BY <1>6, <2>1, <2>2 DEF InOrder
<1> QED BY <1>4, <1>5, <1>6

\* The oldest session dropped.
LEMMA TailKeeps ==
  ASSUME NEW L \in Seq(Sessions), L # <<>>
  PROVE  /\ Tail(L) \in Seq(Sessions)
         /\ Ascending(L) => Ascending(Tail(L))
         /\ Apart(L) => Apart(Tail(L))
         /\ InOrder(L) => InOrder(Tail(L))
         /\ AllBegun(L) => AllBegun(Tail(L))
         /\ AllPlain(L) => AllPlain(Tail(L))
         /\ \A q : HasEvent(Tail(L), q) => HasEvent(L, q)
         /\ \A q, r : Ascending(L) /\ HasEvent(Tail(L), q) /\ HasEvent(L, r) /\ q <= r => HasEvent(Tail(L), r)
<1> DEFINE M == Tail(L)
<1>1. M \in Seq(Sessions) /\ Len(L) \in Nat /\ Len(M) = Len(L) - 1
      /\ \A i \in 1 .. Len(M) : M[i] = L[i + 1]
  OBVIOUS
<1> HIDE DEF M
<1>2. \A i \in 1 .. Len(M) : i + 1 \in 1 .. Len(L) /\ i \in Nat
  BY <1>1
<1>3. \A i \in 1 .. Len(L) : Len(L[i].events) \in Nat /\ \A p \in 1 .. Len(L[i].events) : L[i].events[p] \in Int
  BY ListTypes
<1>4. ASSUME Ascending(L)
      PROVE  Ascending(M)
  <2> SUFFICES ASSUME NEW j \in 1 .. Len(M), NEW k \in 1 .. Len(M),
                      NEW p \in 1 .. Len(M[j].events), NEW q \in 1 .. Len(M[k].events),
                      j < k \/ (j = k /\ p < q)
               PROVE  M[j].events[p] < M[k].events[q]
    BY DEF Ascending
  <2>1. j + 1 \in 1 .. Len(L) /\ k + 1 \in 1 .. Len(L) /\ M[j] = L[j + 1] /\ M[k] = L[k + 1]
        /\ (j + 1 < k + 1 \/ (j + 1 = k + 1 /\ p < q))
    BY <1>1, <1>2
  <2> QED BY <1>4, <2>1 DEF Ascending
<1>5. ASSUME Apart(L), NEW i \in 1 .. Len(M), NEW j \in 1 .. Len(M), i # j
      PROVE  M[i].snaps \cap M[j].snaps = {}
  <2>1. i + 1 \in 1 .. Len(L) /\ j + 1 \in 1 .. Len(L) /\ i + 1 # j + 1 /\ M[i] = L[i + 1] /\ M[j] = L[j + 1]
    BY <1>1, <1>2, <1>5
  <2> QED BY <1>5, <2>1 DEF Apart
<1>6. InOrder(L) => InOrder(M)
  BY <1>1, <1>2 DEF InOrder
<1>7. (AllBegun(L) => AllBegun(M)) /\ (AllPlain(L) => AllPlain(M))
  BY <1>1, <1>2 DEF AllBegun, AllPlain
<1>8. ASSUME NEW q, HasEvent(M, q)
      PROVE  \E i \in 1 .. Len(L) : i # 1 /\ \E p \in 1 .. Len(L[i].events) : L[i].events[p] = q
  <2>1. PICK j \in 1 .. Len(M) : \E p \in 1 .. Len(M[j].events) : M[j].events[p] = q
    BY <1>8 DEF HasEvent
  <2>2. j + 1 \in 1 .. Len(L) /\ j + 1 # 1 /\ M[j] = L[j + 1]
    BY <1>1, <1>2
  <2> QED BY <2>1, <2>2
<1>9. ASSUME NEW q, NEW r, Ascending(L), HasEvent(M, q), HasEvent(L, r), q <= r
      PROVE  HasEvent(M, r)
  <2>1. PICK i \in 1 .. Len(L) : i # 1 /\ \E p \in 1 .. Len(L[i].events) : L[i].events[p] = q
    BY <1>8, <1>9
  <2>2. PICK p \in 1 .. Len(L[i].events) : L[i].events[p] = q
    BY <2>1
  <2>3. PICK j \in 1 .. Len(L) : \E o \in 1 .. Len(L[j].events) : L[j].events[o] = r
    BY <1>9 DEF HasEvent
  <2>4. PICK o \in 1 .. Len(L[j].events) : L[j].events[o] = r
    BY <2>3
  <2>5. j # 1
    <3> SUFFICES ASSUME j = 1 PROVE FALSE
      OBVIOUS
    <3>1. j < i
      BY <1>1, <2>1
    <3>2. r < q
      BY <1>9, <2>2, <2>4, <3>1 DEF Ascending
    <3>3. r \in Int /\ q \in Int
      BY <1>3, <2>2, <2>4
    <3> QED BY <1>9, <3>2, <3>3
  <2>6. j - 1 \in 1 .. Len(M) /\ (j - 1) + 1 = j
    BY <1>1, <2>5
  <2>7. M[j - 1] = L[j]
    BY <1>1, <2>6
  <2> QED BY <2>4, <2>6, <2>7 DEF HasEvent
<1>10. \A q : HasEvent(M, q) => HasEvent(L, q)
  BY <1>8 DEF HasEvent
<1>11. Apart(L) => Apart(M)
  BY <1>5 DEF Apart
<1> QED BY <1>1, <1>4, <1>6, <1>7, <1>9, <1>10, <1>11 DEF M

\* One more snapshot, in a session that has its place in time.
LEMMA InsertKeeps ==
  ASSUME TimelineTypeOK, NEW L \in Seq(Sessions), NEW s \in Sessions, NEW i \in 1 .. Len(L) + 1,
         s.events = <<>>, NEW k, s.snaps = {k}, ~HasSnapshot(L, k), Apart(L), InOrder(L),
         \A j \in 1 .. Len(L) : /\ j < i => StartAt(L[j]) <= StartAt(s)
                                /\ j >= i => StartAt(s) <= StartAt(L[j])
  PROVE  /\ Apart(Inserted(L, i, s)) /\ InOrder(Inserted(L, i, s))
         /\ \A x : HasSnapshot(Inserted(L, i, s), x) <=> HasSnapshot(L, x) \/ x = k
         /\ AllPlain(L) /\ Plain(s) => AllPlain(Inserted(L, i, s))
         /\ CountedRightly(L) /\ App(s) = content[k].app /\ StartAt(s) <= content[k].at
               => CountedRightly(Inserted(L, i, s))
<1> DEFINE M == Inserted(L, i, s)
           Old(j) == IF j < i THEN j ELSE j - 1
<1>1. /\ M \in Seq(Sessions) /\ Len(M) = Len(L) + 1
      /\ \A j \in 1 .. Len(L) + 1 : M[j] = IF j < i THEN L[j] ELSE IF j = i THEN s ELSE L[j - 1]
      /\ Len(L) \in Nat
  BY EmptyBetween, ListTypes
<1> HIDE DEF M
<1>2. ASSUME NEW j \in 1 .. Len(M), j # i
      PROVE  j \in Nat /\ Old(j) \in 1 .. Len(L) /\ M[j] = L[Old(j)] /\ (j < i <=> Old(j) < i)
  <2>1. CASE j < i
    BY <1>1, <2>1
  <2>2. CASE j > i
    BY <1>1, <2>2
  <2> QED BY <1>1, <1>2, <2>1, <2>2
<1>3. M[i] = s /\ i \in 1 .. Len(M) /\ i \in Nat
  BY <1>1
<1>4. Apart(M)
  <2> SUFFICES ASSUME NEW j \in 1 .. Len(M), NEW l \in 1 .. Len(M), j # l
               PROVE  M[j].snaps \cap M[l].snaps = {}
    BY DEF Apart
  <2>1. CASE j # i /\ l # i
    <3>1. Old(j) # Old(l)
      BY <1>2, <1>3, <2>1
    <3>2. M[j] = L[Old(j)] /\ M[l] = L[Old(l)] /\ Old(j) \in 1 .. Len(L) /\ Old(l) \in 1 .. Len(L)
      BY <1>2, <2>1
    <3> HIDE DEF Old
    <3> QED BY <3>1, <3>2 DEF Apart
  <2>2. CASE j = i
    <3>1. M[l] = L[Old(l)] /\ Old(l) \in 1 .. Len(L)
      BY <1>2, <2>2
    <3>2. k \notin L[Old(l)].snaps
      <4> HIDE DEF Old
      <4> QED BY <3>1 DEF HasSnapshot
    <3> QED BY <1>3, <2>2, <3>1, <3>2
  <2>3. CASE l = i
    <3>1. M[j] = L[Old(j)] /\ Old(j) \in 1 .. Len(L)
      BY <1>2, <2>3
    <3>2. k \notin L[Old(j)].snaps
      <4> HIDE DEF Old
      <4> QED BY <3>1 DEF HasSnapshot
    <3> QED BY <1>3, <2>3, <3>1, <3>2
  <2> QED BY <2>1, <2>2, <2>3
<1>5. ASSUME NEW j \in 1 .. Len(L)
      PROVE  \E l \in 1 .. Len(M) : l # i /\ M[l] = L[j]
  <2>1. CASE j < i
    BY <1>1, <2>1
  <2>2. CASE j >= i
    <3>1. j + 1 \in 1 .. Len(M) /\ j + 1 # i /\ M[j + 1] = L[j]
      BY <1>1, <1>3, <2>2
    <3> QED BY <3>1
  <2> QED BY <1>3, <2>1, <2>2
<1>6. \A x : HasSnapshot(M, x) <=> HasSnapshot(L, x) \/ x = k
  <2>1. ASSUME NEW x, HasSnapshot(M, x)
        PROVE  HasSnapshot(L, x) \/ x = k
    <3>1. PICK j \in 1 .. Len(M) : x \in M[j].snaps
      BY <2>1 DEF HasSnapshot
    <3>2. CASE j # i
      <4>1. M[j] = L[Old(j)] /\ Old(j) \in 1 .. Len(L)
        BY <1>2, <3>2
      <4> HIDE DEF Old
      <4> QED BY <3>1, <4>1 DEF HasSnapshot
    <3> QED BY <1>3, <3>1, <3>2
  <2>2. ASSUME NEW x, HasSnapshot(L, x)
        PROVE  HasSnapshot(M, x)
    BY <1>5, <2>2 DEF HasSnapshot
  <2>3. HasSnapshot(M, k)
    BY <1>3 DEF HasSnapshot
  <2> QED BY <2>1, <2>2, <2>3
<1>7. InOrder(M)
  <2> SUFFICES ASSUME NEW j \in 1 .. Len(M), NEW l \in 1 .. Len(M), j <= l
               PROVE  StartAt(M[j]) <= StartAt(M[l])
    BY DEF InOrder
  <2>1. CASE j # i /\ l # i
    <3>1. Old(j) <= Old(l)
      BY <1>2, <1>3, <2>1
    <3>2. M[j] = L[Old(j)] /\ M[l] = L[Old(l)] /\ Old(j) \in 1 .. Len(L) /\ Old(l) \in 1 .. Len(L)
      BY <1>2, <2>1
    <3> HIDE DEF Old
    <3> QED BY <3>1, <3>2 DEF InOrder
  <2>2. CASE j = i /\ l # i
    <3>1. M[l] = L[Old(l)] /\ Old(l) \in 1 .. Len(L) /\ Old(l) >= i
      BY <1>2, <1>3, <2>2
    <3> HIDE DEF Old
    <3> QED BY <1>3, <2>2, <3>1
  <2>3. CASE l = i /\ j # i
    <3>1. M[j] = L[Old(j)] /\ Old(j) \in 1 .. Len(L) /\ Old(j) < i
      BY <1>2, <1>3, <2>3
    <3> HIDE DEF Old
    <3> QED BY <1>3, <2>3, <3>1
  <2>4. CASE j = i /\ l = i
    BY <1>3, <2>4, StartTypes
  <2> QED BY <2>1, <2>2, <2>3, <2>4
<1>8. \A j \in 1 .. Len(M) : M[j] = s \/ \E l \in 1 .. Len(L) : M[j] = L[l]
  <2> SUFFICES ASSUME NEW j \in 1 .. Len(M), j # i PROVE \E l \in 1 .. Len(L) : M[j] = L[l]
    BY <1>3
  <2> QED BY <1>2
<1>9. AllPlain(L) /\ Plain(s) => AllPlain(M)
  BY <1>8 DEF AllPlain
<1>10. CountedRightly(L) /\ App(s) = content[k].app /\ StartAt(s) <= content[k].at => CountedRightly(M)
  BY <1>8 DEF CountedRightly
<1> QED BY <1>4, <1>6, <1>7, <1>9, <1>10 DEF M

\* One more snapshot in a session there is.
LEMMA CountKeeps ==
  ASSUME TimelineTypeOK, NEW L \in Seq(Sessions), AllPlain(L), Apart(L), InOrder(L), CountedRightly(L),
         NEW i \in 1 .. Len(L), NEW k \in 1 .. Len(content), ~HasSnapshot(L, k),
         App(L[i]) = content[k].app, StartAt(L[i]) <= content[k].at
  PROVE  /\ CountedIn(L, i, k) \in Seq(Sessions) /\ Len(CountedIn(L, i, k)) = Len(L)
         /\ \A j \in 1 .. Len(L) : CountedIn(L, i, k)[j].events = L[j].events
         /\ AllPlain(CountedIn(L, i, k)) /\ Apart(CountedIn(L, i, k)) /\ InOrder(CountedIn(L, i, k))
         /\ CountedRightly(CountedIn(L, i, k))
         /\ \A x : HasSnapshot(CountedIn(L, i, k), x) <=> HasSnapshot(L, x) \/ x = k
<1> DEFINE s == L[i]
           span == IF s.span = NoSpan THEN NoSpan ELSE [s.span EXCEPT !.end = content[k].at]
           n == Session(s.events, s.snaps \cup {k}, span)
           M == CountedIn(L, i, k)
<1>1. s \in Sessions /\ Plain(s)
  BY DEF AllPlain
<1>2. content[k].at \in 0 .. LastSecond /\ LastSecond \in Nat
  BY InputTypes, TimelineAssumption
<1>3. span \in Spans /\ span.start = s.span.start /\ span.app = s.span.app /\ (span = NoSpan <=> s.span = NoSpan)
  <2>1. s.span \in Spans /\ NoSpan \in Spans
    BY <1>1, <1>2 DEF Sessions, Spans, NoSpan
  <2>2. CASE s.span = NoSpan
    BY <2>1, <2>2
  <2>3. CASE s.span # NoSpan
    <3>1. span = [s.span EXCEPT !.end = content[k].at] /\ s.span.start >= 1
      BY <1>1, <2>3 DEF Plain, Dated
    <3>2. span \in Spans /\ span.start = s.span.start /\ span.app = s.span.app
      BY <1>2, <2>1, <3>1 DEF Spans
    <3> QED BY <2>3, <3>1, <3>2 DEF NoSpan
  <2> QED BY <2>2, <2>3
<1> HIDE DEF span
<1>4. n \in Sessions /\ n.events = s.events /\ n.snaps = s.snaps \cup {k} /\ n.span = span
  BY <1>1, <1>3 DEF Session, Sessions
<1>5. StartAt(n) = StartAt(s) /\ App(n) = App(s) /\ Plain(n)
  BY <1>1, <1>3, <1>4 DEF StartAt, App, Plain, Dated
<1>6. M = [L EXCEPT ![i] = n]
  BY DEF CountedIn, span
<1> HIDE DEF n, M, s
<1>7. /\ M \in Seq(Sessions) /\ Len(M) = Len(L)
      /\ \A j \in 1 .. Len(L) : M[j] = IF j = i THEN n ELSE L[j]
  BY <1>4, <1>6
<1>8. s = L[i]
  BY DEF s
<1>9. \A j \in 1 .. Len(L) : StartAt(M[j]) = StartAt(L[j]) /\ App(M[j]) = App(L[j]) /\ M[j].events = L[j].events
  BY <1>4, <1>5, <1>7, <1>8
<1>10. AllPlain(M)
  BY <1>5, <1>7 DEF AllPlain
<1>11. \A j \in 1 .. Len(L) : M[j].snaps = IF j = i THEN L[i].snaps \cup {k} ELSE L[j].snaps
  BY <1>4, <1>7, <1>8
<1>12. Apart(M)
  <2> SUFFICES ASSUME NEW j \in 1 .. Len(L), NEW l \in 1 .. Len(L), j # l
               PROVE  M[j].snaps \cap M[l].snaps = {}
    BY <1>7 DEF Apart
  <2>1. L[j].snaps \cap L[l].snaps = {} /\ k \notin L[j].snaps /\ k \notin L[l].snaps
    BY DEF Apart, HasSnapshot
  <2> QED BY <1>11, <2>1
<1>13. InOrder(M)
  BY <1>7, <1>9 DEF InOrder
<1>14. CountedRightly(M)
  <2> SUFFICES ASSUME NEW j \in 1 .. Len(L), NEW x \in M[j].snaps
               PROVE  App(M[j]) = content[x].app /\ StartAt(M[j]) <= content[x].at
    BY <1>7 DEF CountedRightly
  <2>1. x \in L[j].snaps \/ (j = i /\ x = k)
    BY <1>11
  <2>2. CASE x \in L[j].snaps
    BY <1>9, <2>2 DEF CountedRightly
  <2>3. CASE j = i /\ x = k
    BY <1>9, <2>3
  <2> QED BY <2>1, <2>2, <2>3
<1>15. \A x : HasSnapshot(M, x) <=> HasSnapshot(L, x) \/ x = k
  BY <1>7, <1>11 DEF HasSnapshot
<1> QED BY <1>7, <1>9, <1>10, <1>12, <1>13, <1>14, <1>15 DEF M

LEMMA GreatestExists ==
  ASSUME NEW S, IsFiniteSet(S), S \subseteq Int, S # {}
  PROVE  \E s \in S : \A r \in S : r <= s
<1> DEFINE R == {p \in S \X S : p[1] < p[2]}
<1>1. \A r, s \in S : <<r, s>> \in R <=> r < s
  OBVIOUS
<1> HIDE DEF R
<1>2. Orders(R, S)
  BY <1>1 DEF Orders
<1>3. PICK s \in S : \A r \in S \ {s} : <<r, s>> \in R
  BY <1>2, LastExists
<1>4. ASSUME NEW r \in S
      PROVE  r <= s
  <2>1. r \in Int /\ s \in Int
    OBVIOUS
  <2>2. CASE r # s
    <3>1. r < s
      BY <1>1, <1>3, <2>2
    <3> QED BY <2>1, <3>1
  <2> QED BY <2>1, <2>2
<1> QED BY <1>4

-----------------------------------------------------------------------------
(* What each phase keeps.                                                  *)

\* The next event is taken.
LEMMA ExtendedTakes ==
  ASSUME TimelineInv, phase = "split", pendingIn # <<>>
  PROVE  LET M == Extended(base, Head(pendingIn))
         IN  /\ M \in Seq(Sessions) /\ AllPlain(M) /\ CountedRightly(M)
             /\ \A i \in 1 .. Len(M) : M[i].events # <<>> /\ M[i].snaps = {}
             /\ Taking(M, Len(rows) - Len(pendingIn) + 1, 0)
<1> DEFINE r == Head(pendingIn)
           n == Len(rows) - Len(pendingIn)
           M == Extended(base, r)
           new == Session(<<r>>, {}, NoSpan)
           last == base[Len(base)]
           more == Session(Append(last.events, r), last.snaps, last.span)
<1>1. TimelineTypeOK /\ InputsSorted /\ AllPlain(base) /\ base \in Seq(Sessions) /\ Len(base) \in Nat
  BY DEF TimelineInv, TimelineTypeOK
<1>2. /\ \A i \in 1 .. Len(base) : base[i].events # <<>> /\ base[i].snaps = {}
      /\ Ascending(base) /\ InOrder(base) /\ \A x \in 1 .. Len(rows) : HasEvent(base, x) <=> x <= n
  BY DEF TimelineInv, Splitting, TimelineSound, Taking
<1>3. n \in Nat /\ r = n + 1 /\ r \in 1 .. Len(rows) /\ Len(rows) \in Nat
  <2>1. pendingIn \in Seq(1 .. Len(rows)) /\ Len(rows) \in Nat
    BY <1>1, InputTypes DEF TimelineTypeOK
  <2>2. Len(pendingIn) \in Nat /\ Len(pendingIn) >= 1 /\ r = pendingIn[1] /\ r \in 1 .. Len(rows)
    BY <2>1
  <2>3. Len(pendingIn) <= Len(rows) /\ pendingIn[1] = Len(rows) - Len(pendingIn) + 1
    BY <2>2 DEF TimelineInv, Splitting
  <2> QED BY <2>1, <2>2, <2>3
<1>4. \A i \in 1 .. Len(base) : \A p \in 1 .. Len(base[i].events) : base[i].events[p] < r
  <2> SUFFICES ASSUME NEW i \in 1 .. Len(base), NEW p \in 1 .. Len(base[i].events)
               PROVE  base[i].events[p] < r
    OBVIOUS
  <2>1. base[i].events[p] \in 1 .. Len(rows)
    BY <1>1, ListTypes
  <2>2. HasEvent(base, base[i].events[p])
    BY DEF HasEvent
  <2> QED BY <1>2, <1>3, <2>1, <2>2
<1>5. \A i \in 1 .. Len(base) : base[i] \in Sessions /\ Plain(base[i]) /\ base[i].span = NoSpan
                                /\ Len(base[i].events) \in Nat /\ base[i].events \in Seq(1 .. Len(rows))
  BY <1>1, <1>2, ListTypes DEF AllPlain, Plain
<1>6. NoSpan \in Spans /\ <<r>> \in Seq(1 .. Len(rows)) /\ <<r>> # <<>> /\ Len(<<r>>) = 1 /\ <<r>>[1] = r
  BY <1>3, TimelineAssumption DEF NoSpan, Spans
<1>7. new \in Sessions /\ Plain(new) /\ new.events = <<r>> /\ new.snaps = {} /\ new.span = NoSpan
  BY <1>6 DEF Session, Sessions, Plain, Dated
<1>8. \A s : s.events # <<>> /\ s.span = NoSpan => StartAt(s) = rows[s.events[1]].at
  BY DEF StartAt
<1>9. \A i \in 1 .. Len(base) : StartAt(base[i]) <= rows[r].at
  <2> SUFFICES ASSUME NEW i \in 1 .. Len(base) PROVE StartAt(base[i]) <= rows[r].at
    OBVIOUS
  <2>1. 1 \in 1 .. Len(base[i].events) /\ base[i].events[1] \in 1 .. Len(rows)
    BY <1>2, <1>5
  <2>2. base[i].events[1] <= r
    BY <1>3, <1>4, <2>1
  <2>3. rows[base[i].events[1]].at <= rows[r].at
    BY <1>1, <1>3, <2>1, <2>2 DEF InputsSorted
  <2> QED BY <1>2, <1>5, <1>8, <2>3
<1>10. /\ M \in Seq(Sessions) /\ AllPlain(M)
       /\ \A i \in 1 .. Len(M) : M[i].events # <<>> /\ M[i].snaps = {}
       /\ Ascending(M) /\ \A x : HasEvent(M, x) <=> HasEvent(base, x) \/ x = r
       /\ InOrder(M)
  <2>1. CASE base = <<>> \/ Splits(r - 1, r)
    <3> HIDE DEF new
    <3>1. M = Append(base, new)
      BY <2>1 DEF Extended, new
    <3> HIDE DEF M, r
    <3>2. /\ M \in Seq(Sessions) /\ Len(M) = Len(base) + 1 /\ M[Len(M)] = new
          /\ \A i \in 1 .. Len(base) : M[i] = base[i]
      BY <1>1, <1>7, <3>1
    <3>3. \A i \in 1 .. Len(M) : i \in 1 .. Len(base) \/ i = Len(M)
      BY <1>1, <3>2
    <3>4. AllPlain(M)
      BY <1>5, <1>7, <3>2, <3>3 DEF AllPlain
    <3>5. \A i \in 1 .. Len(M) : M[i].events # <<>> /\ M[i].snaps = {}
      BY <1>2, <1>6, <1>7, <3>2, <3>3
    <3>6. Ascending(M) /\ \A x : HasEvent(M, x) <=> HasEvent(base, x) \/ x = r
      <4>1. \A j \in 1 .. Len(M) : \A q \in 1 .. Len(M[j].events) :
              \/ j \in 1 .. Len(base) /\ q \in 1 .. Len(base[j].events) /\ M[j].events[q] = base[j].events[q]
              \/ j = Len(M) /\ q = Len(M[j].events) /\ M[j].events[q] = r
        <5> SUFFICES ASSUME NEW j \in 1 .. Len(M), NEW q \in 1 .. Len(M[j].events)
                     PROVE  \/ /\ j \in 1 .. Len(base) /\ q \in 1 .. Len(base[j].events)
                               /\ M[j].events[q] = base[j].events[q]
                            \/ j = Len(M) /\ q = Len(M[j].events) /\ M[j].events[q] = r
          OBVIOUS
        <5>1. CASE j \in 1 .. Len(base)
          BY <3>2, <5>1
        <5>2. CASE j = Len(M)
          <6>1. M[j].events = <<r>>
            BY <1>7, <3>2, <5>2
          <6>2. q = 1
            BY <1>6, <6>1
          <6> QED BY <1>6, <5>2, <6>1, <6>2
        <5> QED BY <3>3, <5>1, <5>2
      <4>2. \A i \in 1 .. Len(base) : i \in 1 .. Len(M)
        BY <1>1, <3>2
      <4>3. Len(M) >= 1 /\ Len(M[Len(M)].events) >= 1 /\ M[Len(M)].events[Len(M[Len(M)].events)] = r
        <5>1. M[Len(M)].events = <<r>>
          BY <1>7, <3>2
        <5> QED BY <1>1, <1>6, <3>2, <5>1
      <4>4. \A i \in 1 .. Len(base) : \A p \in 1 .. Len(base[i].events) :
              i \in 1 .. Len(M) /\ p \in 1 .. Len(M[i].events) /\ M[i].events[p] = base[i].events[p]
        BY <3>2, <4>2
      <4>5. r \in Nat
        BY <1>3
      <4>6. AddsEvent(M, base, r)
        BY <1>4, <4>1, <4>3, <4>4 DEF AddsEvent
      <4> QED BY <1>1, <1>2, <3>2, <4>5, <4>6, OneMoreEvent
    <3>7. InOrder(M)
      <4> SUFFICES ASSUME NEW i \in 1 .. Len(M), NEW j \in 1 .. Len(M), i <= j
                   PROVE  StartAt(M[i]) <= StartAt(M[j])
        BY DEF InOrder
      <4>1. StartAt(new) = rows[r].at /\ rows[r].at \in Int
        <5>1. StartAt(new) = rows[new.events[1]].at
          BY <1>6, <1>7, <1>8
        <5>2. rows[r].at \in 1 .. LastSecond
          BY <1>1, <1>3, InputTypes
        <5> QED BY <1>6, <1>7, <5>1, <5>2, TimelineAssumption
      <4>2. CASE j \in 1 .. Len(base)
        <5>1. i \in 1 .. Len(base)
          BY <1>1, <3>2, <4>2
        <5> QED BY <1>2, <3>2, <4>2, <5>1 DEF InOrder
      <4>3. CASE j = Len(M)
        <5>1. CASE i = Len(M)
          BY <3>2, <4>1, <4>3, <5>1
        <5>2. CASE i \in 1 .. Len(base)
          BY <1>9, <3>2, <4>1, <4>3, <5>2
        <5> QED BY <3>3, <5>1, <5>2
      <4> QED BY <3>3, <4>2, <4>3
    <3> QED BY <3>2, <3>4, <3>5, <3>6, <3>7
  <2>2. CASE ~(base = <<>> \/ Splits(r - 1, r))
    <3>1. Len(base) \in 1 .. Len(base) /\ last \in Sessions /\ Plain(last) /\ last.span = NoSpan
          /\ last.events # <<>> /\ last.snaps = {} /\ last.events \in Seq(1 .. Len(rows))
      BY <1>1, <1>2, <1>5, <2>2
    <3>2. /\ Append(last.events, r) \in Seq(1 .. Len(rows))
          /\ Len(Append(last.events, r)) = Len(last.events) + 1 /\ Len(last.events) \in Nat
          /\ \A p \in 1 .. Len(last.events) : Append(last.events, r)[p] = last.events[p]
          /\ Append(last.events, r)[Len(last.events) + 1] = r
      <4> HIDE DEF last, r
      <4> QED BY <1>3, <3>1
    <3>3. /\ more \in Sessions /\ more.events = Append(last.events, r)
          /\ more.snaps = {} /\ more.span = NoSpan
      BY <1>6, <3>1, <3>2 DEF Session, Sessions
    <3>4. M = [base EXCEPT ![Len(base)] = more]
      BY <2>2 DEF Extended
    <3> HIDE DEF M, more, r
    <3>5. /\ M \in Seq(Sessions) /\ Len(M) = Len(base)
          /\ \A i \in 1 .. Len(base) : M[i] = IF i = Len(base) THEN more ELSE base[i]
      BY <1>1, <3>1, <3>3, <3>4
    <3>6. more.events # <<>> /\ Plain(more) /\ more.events[1] = last.events[1]
      <4>1. Len(last.events) >= 1 /\ Len(more.events) >= 1
        BY <3>1, <3>2, <3>3
      <4>2. Len(<<>>) = 0
        OBVIOUS
      <4>3. more.events # <<>>
        BY <4>1, <4>2
      <4> QED BY <3>2, <3>3, <4>1, <4>3 DEF Plain, Dated
    <3>7. AllPlain(M)
      BY <1>5, <3>5, <3>6 DEF AllPlain
    <3>8. \A i \in 1 .. Len(M) : M[i].events # <<>> /\ M[i].snaps = {}
      BY <1>2, <3>3, <3>5, <3>6
    <3>9. Ascending(M) /\ \A x : HasEvent(M, x) <=> HasEvent(base, x) \/ x = r
      <4>0. \A q \in 1 .. Len(more.events) : q \in 1 .. Len(last.events) \/ q = Len(more.events)
        BY <3>2, <3>3
      <4>1. \A j \in 1 .. Len(M) : \A q \in 1 .. Len(M[j].events) :
              \/ j \in 1 .. Len(base) /\ q \in 1 .. Len(base[j].events) /\ M[j].events[q] = base[j].events[q]
              \/ j = Len(M) /\ q = Len(M[j].events) /\ M[j].events[q] = r
        BY <3>2, <3>3, <3>5, <4>0
      <4>2. \A i \in 1 .. Len(base) : \A p \in 1 .. Len(base[i].events) :
              i \in 1 .. Len(M) /\ p \in 1 .. Len(M[i].events) /\ M[i].events[p] = base[i].events[p]
        <5> SUFFICES ASSUME NEW i \in 1 .. Len(base), NEW p \in 1 .. Len(base[i].events)
                     PROVE  i \in 1 .. Len(M) /\ p \in 1 .. Len(M[i].events)
                            /\ M[i].events[p] = base[i].events[p]
          OBVIOUS
        <5>1. CASE i # Len(base)
          BY <3>5, <5>1
        <5>2. CASE i = Len(base)
          <6>1. p \in 1 .. Len(last.events) /\ M[i].events = Append(last.events, r)
            BY <3>3, <3>5, <5>2
          <6> QED BY <3>2, <3>5, <5>2, <6>1
        <5> QED BY <5>1, <5>2
      <4>3. Len(M) >= 1 /\ Len(M[Len(M)].events) >= 1 /\ M[Len(M)].events[Len(M[Len(M)].events)] = r
        BY <1>1, <3>1, <3>2, <3>3, <3>5
      <4>4. r \in Nat
        BY <1>3
      <4>5. AddsEvent(M, base, r)
        BY <1>4, <4>1, <4>2, <4>3 DEF AddsEvent
      <4> QED BY <1>1, <1>2, <3>5, <4>4, <4>5, OneMoreEvent
    <3>10. InOrder(M)
      <4>1. StartAt(more) = StartAt(last)
        BY <1>8, <3>1, <3>3, <3>6
      <4>2. \A i \in 1 .. Len(base) : StartAt(M[i]) = StartAt(base[i])
        BY <3>5, <4>1
      <4> QED BY <1>2, <3>5, <4>2 DEF InOrder
    <3> QED BY <3>5, <3>7, <3>8, <3>9, <3>10
  <2> QED BY <2>1, <2>2
<1> HIDE DEF M, r
<1>11. CountedRightly(M) /\ Apart(M) /\ \A k : ~HasSnapshot(M, k)
  BY <1>10 DEF CountedRightly, Apart, HasSnapshot
<1>12. Taking(M, n + 1, 0)
  <2>1. \A x \in 1 .. Len(rows) : HasEvent(M, x) <=> x <= n + 1
    BY <1>2, <1>3, <1>10
  <2>2. \A k \in 1 .. Len(content) : HasSnapshot(M, k) <=> k <= 0
    BY <1>1, <1>11, InputTypes
  <2> QED BY <1>10, <1>11, <2>1, <2>2 DEF Taking
<1> QED BY <1>10, <1>11, <1>12 DEF M, r

\* The next snapshot is assigned.
LEMMA AssignedTakes ==
  ASSUME TimelineInv, phase = "assign", pendingIn # <<>>
  PROVE  LET M == Assigned(base, Head(pendingIn))
         IN  /\ M \in Seq(Sessions) /\ AllPlain(M) /\ CountedRightly(M)
             /\ Taking(M, Len(rows), Len(content) - Len(pendingIn) + 1)
<1> DEFINE k == Head(pendingIn)
           m == Len(content) - Len(pendingIn)
           M == Assigned(base, k)
           Matching == MatchingSessions(base, k)
           Later == {i \in 1 .. Len(base) : StartAt(base[i]) > content[k].at}
<1>1. TimelineTypeOK /\ InputsSorted /\ AllPlain(base) /\ base \in Seq(Sessions) /\ Len(base) \in Nat
  BY DEF TimelineInv, TimelineTypeOK
<1>2. /\ Ascending(base) /\ Apart(base) /\ InOrder(base) /\ CountedRightly(base)
      /\ \A x \in 1 .. Len(rows) : HasEvent(base, x) <=> x <= Len(rows)
      /\ \A x \in 1 .. Len(content) : HasSnapshot(base, x) <=> x <= m
  BY DEF TimelineInv, TimelineSound, Taking
<1>3. m \in Nat /\ k = m + 1 /\ k \in 1 .. Len(content) /\ Len(content) \in Nat
  <2>1. pendingIn \in Seq(1 .. Len(content)) /\ Len(content) \in Nat
    BY <1>1, InputTypes DEF TimelineTypeOK
  <2>2. Len(pendingIn) \in Nat /\ Len(pendingIn) >= 1 /\ k = pendingIn[1] /\ k \in 1 .. Len(content)
    BY <2>1
  <2>3. Len(pendingIn) <= Len(content) /\ pendingIn[1] = Len(content) - Len(pendingIn) + 1
    BY <2>2 DEF TimelineInv, Assigning
  <2> QED BY <2>1, <2>2, <2>3
<1>4. ~HasSnapshot(base, k)
  BY <1>2, <1>3
<1>5. content[k].at \in 1 .. LastSecond /\ content[k].app \in Programs /\ LastSecond \in Nat
  BY <1>1, <1>3, InputTypes, TimelineAssumption
<1>6. \A i \in 1 .. Len(base) : base[i] \in Sessions /\ StartAt(base[i]) \in Int
  BY <1>1, ListTypes, StartTypes
<1>7. ASSUME NEW S \in SUBSET (1 .. Len(base)), S # {}
      PROVE  IsFiniteSet(S) /\ S \subseteq Int
  <2>1. 1 \in Int /\ Len(base) \in Int
    BY <1>1
  <2>2. IsFiniteSet(1 .. Len(base))
    BY <2>1, FS_Interval
  <2>3. IsFiniteSet(S)
    <3> DEFINE T == 1 .. Len(base)
    <3>1. IsFiniteSet(T) /\ S \in SUBSET T
      BY <2>2
    <3> HIDE DEF T
    <3> QED BY <3>1, FS_Subset
  <2> QED BY <1>1, <2>3
<1> HIDE DEF k
<1>8. /\ M \in Seq(Sessions) /\ AllPlain(M) /\ CountedRightly(M)
      /\ Ascending(M) /\ Apart(M) /\ InOrder(M)
      /\ \A x : HasEvent(M, x) <=> HasEvent(base, x)
      /\ \A x : HasSnapshot(M, x) <=> HasSnapshot(base, x) \/ x = k
  <2>1. CASE Matching # {}
    <3> DEFINE i == CHOOSE j \in Matching : \A n \in Matching : n <= j
    <3>1. Matching \in SUBSET (1 .. Len(base))
      BY DEF MatchingSessions
    <3>2. i \in Matching
      <4>1. \E j \in Matching : \A n \in Matching : n <= j
        <5> HIDE DEF Matching
        <5> QED BY <1>7, <2>1, <3>1, GreatestExists
      <4> QED BY <4>1
    <3>3. M = CountedIn(base, i, k)
      BY <2>1 DEF Assigned
    <3> HIDE DEF i, M
    <3>4. i \in 1 .. Len(base) /\ StartAt(base[i]) <= content[k].at /\ App(base[i]) = content[k].app
      BY <3>2 DEF MatchingSessions
    <3>5. /\ M \in Seq(Sessions) /\ Len(M) = Len(base)
          /\ \A j \in 1 .. Len(base) : M[j].events = base[j].events
          /\ AllPlain(M) /\ Apart(M) /\ InOrder(M) /\ CountedRightly(M)
          /\ \A x : HasSnapshot(M, x) <=> HasSnapshot(base, x) \/ x = k
      <4>1. /\ TimelineTypeOK /\ base \in Seq(Sessions) /\ AllPlain(base) /\ Apart(base)
            /\ InOrder(base) /\ CountedRightly(base) /\ k \in 1 .. Len(content)
        BY <1>1, <1>2, <1>3
      <4> QED BY <1>4, <3>3, <3>4, <4>1, CountKeeps
    <3>6. Ascending(M) /\ \A x : HasEvent(M, x) <=> HasEvent(base, x)
      BY <1>1, <1>2, <3>5, SameEvents
    <3> QED BY <3>5, <3>6
  <2>2. CASE Matching = {}
    <3> DEFINE i == IF Later = {} THEN Len(base) + 1 ELSE CHOOSE j \in Later : \A n \in Later : j <= n
               s == OfSnapshot(k)
    <3>1. s \in Sessions /\ Plain(s) /\ s.events = <<>> /\ s.snaps = {k}
          /\ StartAt(s) = content[k].at /\ App(s) = content[k].app
      <4> DEFINE span == [app |-> content[k].app, start |-> content[k].at, end |-> content[k].at]
      <4>1. span \in Spans /\ span # NoSpan /\ span.start = content[k].at /\ span.app = content[k].app
            /\ span.start >= 1
        BY <1>5 DEF Spans, NoSpan
      <4>2. s.events = <<>> /\ s.snaps = {k} /\ s.span = span
        BY DEF OfSnapshot, Session
      <4>3. s = [events |-> <<>>, snaps |-> {k}, span |-> span]
        BY DEF OfSnapshot, Session
      <4> HIDE DEF s, span
      <4>4. <<>> \in Seq(1 .. Len(rows)) /\ {k} \in SUBSET (1 .. Len(content))
        BY <1>3
      <4> QED BY <4>1, <4>2, <4>3, <4>4 DEF Sessions, Plain, Dated, StartAt, App
    <3>2. Later \in SUBSET (1 .. Len(base))
      OBVIOUS
    <3>3. /\ i \in 1 .. Len(base) + 1
          /\ \A j \in 1 .. Len(base) : /\ j < i => StartAt(base[j]) <= content[k].at
                                       /\ j >= i => content[k].at <= StartAt(base[j])
      <4>1. CASE Later = {}
        <5>1. i = Len(base) + 1
          BY <4>1
        <5>2. \A j \in 1 .. Len(base) : StartAt(base[j]) <= content[k].at
          BY <1>5, <1>6, <4>1
        <5> HIDE DEF i
        <5> QED BY <1>1, <5>1, <5>2
      <4>2. CASE Later # {}
        <5>1. \E j \in Later : \A n \in Later : j <= n
          <6> HIDE DEF Later
          <6> QED BY <1>7, <3>2, <4>2, LeastExists
        <5>2. i \in Later /\ \A n \in Later : i <= n
          BY <4>2, <5>1
        <5> HIDE DEF i
        <5>3. i \in 1 .. Len(base) /\ StartAt(base[i]) > content[k].at
          BY <5>2
        <5>4. ASSUME NEW j \in 1 .. Len(base), j < i
              PROVE  StartAt(base[j]) <= content[k].at
          <6>1. j \notin Later
            BY <1>1, <5>2, <5>3, <5>4
          <6> QED BY <1>5, <1>6, <6>1
        <5>5. ASSUME NEW j \in 1 .. Len(base), j >= i
              PROVE  content[k].at <= StartAt(base[j])
          <6>1. StartAt(base[i]) <= StartAt(base[j])
            BY <1>2, <5>3, <5>5 DEF InOrder
          <6> QED BY <1>5, <1>6, <5>3, <6>1
        <5> QED BY <1>1, <5>3, <5>4, <5>5
      <4> QED BY <4>1, <4>2
    <3>4. M = Inserted(base, i, s)
      BY <2>2 DEF Assigned
    <3> HIDE DEF i, s, M
    <3>5. /\ M \in Seq(Sessions) /\ Ascending(M)
          /\ \A x : HasEvent(M, x) <=> HasEvent(base, x)
      BY <1>1, <1>2, <3>1, <3>3, <3>4, EmptyBetween
    <3>6. /\ Apart(M) /\ InOrder(M) /\ AllPlain(M) /\ CountedRightly(M)
          /\ \A x : HasSnapshot(M, x) <=> HasSnapshot(base, x) \/ x = k
      <4>1. StartAt(s) <= content[k].at
        BY <1>5, <3>1
      <4>2. \A j \in 1 .. Len(base) : /\ j < i => StartAt(base[j]) <= StartAt(s)
                                      /\ j >= i => StartAt(s) <= StartAt(base[j])
        BY <3>1, <3>3
      <4> QED BY <1>1, <1>2, <1>4, <3>1, <3>3, <3>4, <4>1, <4>2, InsertKeeps
    <3> QED BY <3>5, <3>6
  <2> QED BY <2>1, <2>2
<1> HIDE DEF M
<1>9. Taking(M, Len(rows), m + 1)
  <2>1. \A x \in 1 .. Len(content) : HasSnapshot(M, x) <=> x <= m + 1
    BY <1>2, <1>3, <1>8
  <2> QED BY <1>2, <1>8, <2>1 DEF Taking
<1> QED BY <1>8, <1>9 DEF M, k

LEMMA JoinedTakes ==
  ASSUME TimelineTypeOK, NEW L \in Seq(Sessions), NEW M \in Seq(Sessions), NEW i, NEW s,
         Joins(M, L, i, s), NEW n, NEW m, Taking(L, n, m)
  PROVE  Taking(M, n, m)
<1>1. /\ Ascending(M) /\ \A x : HasEvent(M, x) <=> HasEvent(L, x)
      /\ Apart(M) /\ InOrder(M) /\ \A k : HasSnapshot(M, k) <=> HasSnapshot(L, k)
  BY JoinKeepsEvents, JoinKeepsRest DEF Taking
<1> QED BY <1>1 DEF Taking

\* Moving the next session over leaves the two lists as they are, one after the other.
LEMMA MovedOver ==
  ASSUME NEW S, NEW s \in Seq(S), NEW t \in Seq(S), t # <<>>
  PROVE  /\ Append(s, Head(t)) \in Seq(S) /\ Tail(t) \in Seq(S)
         /\ Append(s, Head(t)) \o Tail(t) = s \o t
<1> DEFINE a == Append(s, Head(t)) \o Tail(t)
           b == s \o t
<1>1. /\ Len(s) \in Nat /\ Len(t) \in Nat /\ Len(t) >= 1 /\ Head(t) \in S /\ Head(t) = t[1]
      /\ Tail(t) \in Seq(S) /\ Len(Tail(t)) = Len(t) - 1 /\ \A i \in 1 .. Len(t) - 1 : Tail(t)[i] = t[i + 1]
  OBVIOUS
<1>2. /\ Append(s, Head(t)) \in Seq(S) /\ Len(Append(s, Head(t))) = Len(s) + 1
      /\ \A i \in 1 .. Len(s) : Append(s, Head(t))[i] = s[i]
      /\ Append(s, Head(t))[Len(s) + 1] = t[1]
  BY <1>1
<1> DEFINE u == Append(s, Head(t))
           v == Tail(t)
<1> HIDE DEF u, v
<1>3. /\ u \in Seq(S) /\ v \in Seq(S) /\ Len(u) = Len(s) + 1 /\ Len(v) = Len(t) - 1
      /\ \A i \in 1 .. Len(s) : u[i] = s[i]
      /\ u[Len(s) + 1] = t[1]
      /\ \A i \in 1 .. Len(t) - 1 : v[i] = t[i + 1]
  BY <1>1, <1>2 DEF u, v
<1>4. /\ b \in Seq(S) /\ Len(b) = Len(s) + Len(t)
      /\ \A p \in 1 .. Len(s) + Len(t) : b[p] = IF p <= Len(s) THEN s[p] ELSE t[p - Len(s)]
  BY Concatenation
<1>5. /\ u \o v \in Seq(S) /\ Len(u \o v) = Len(s) + Len(t)
      /\ \A p \in 1 .. Len(s) + Len(t) : (u \o v)[p] = IF p <= Len(s) + 1 THEN u[p] ELSE v[p - (Len(s) + 1)]
  <2>1. /\ u \o v \in Seq(S) /\ Len(u \o v) = Len(u) + Len(v)
        /\ \A p \in 1 .. Len(u) + Len(v) : (u \o v)[p] = IF p <= Len(u) THEN u[p] ELSE v[p - Len(u)]
    BY <1>3, Concatenation
  <2>2. Len(u) + Len(v) = Len(s) + Len(t)
    BY <1>1, <1>3
  <2> QED BY <1>3, <2>1, <2>2
<1>6. ASSUME NEW p \in 1 .. Len(s) + Len(t)
      PROVE  (u \o v)[p] = b[p]
  <2>1. p \in Nat /\ (p <= Len(s) \/ p = Len(s) + 1 \/ p > Len(s) + 1)
    BY <1>1
  <2>2. CASE p <= Len(s)
    BY <1>1, <1>3, <1>4, <1>5, <2>1, <2>2
  <2>3. CASE p = Len(s) + 1
    <3>1. (u \o v)[p] = t[1]
      BY <1>1, <1>3, <1>5, <2>3
    <3>2. b[p] = t[p - Len(s)] /\ p - Len(s) = 1
      BY <1>1, <1>4, <2>3
    <3> QED BY <3>1, <3>2
  <2>4. CASE p > Len(s) + 1
    <3>1. (u \o v)[p] = v[p - (Len(s) + 1)] /\ b[p] = t[p - Len(s)]
      BY <1>1, <1>4, <1>5, <2>1, <2>4
    <3>2. p - (Len(s) + 1) \in 1 .. Len(t) - 1 /\ (p - (Len(s) + 1)) + 1 = p - Len(s)
      BY <1>1, <2>1, <2>4
    <3>3. v[p - (Len(s) + 1)] = t[(p - (Len(s) + 1)) + 1]
      BY <1>3, <3>2
    <3> QED BY <3>1, <3>2, <3>3
  <2> QED BY <2>1, <2>2, <2>3, <2>4
<1>7. u \o v = b
  <2> HIDE DEF b
  <2> DEFINE w == u \o v
  <2>1. w \in Seq(S) /\ Len(w) = Len(b) /\ b \in Seq(S) /\ \A p \in 1 .. Len(b) : w[p] = b[p]
    BY <1>4, <1>5, <1>6
  <2> HIDE DEF w
  <2>2. w = b
    BY <2>1
  <2> QED BY <2>2 DEF w
<1> QED BY <1>1, <1>2, <1>7 DEF u, v

LEMMA ConcatenationBegins ==
  ASSUME NEW S, NEW s \in Seq(S), NEW t \in Seq(S), s # <<>>
  PROVE  s \o t \in Seq(S) /\ s \o t # <<>> /\ (s \o t)[1] = s[1]
<1>1. Len(s) >= 1 /\ Len(s) \in Nat /\ Len(t) \in Nat
  OBVIOUS
<1>2. Len(s \o t) >= 1 /\ s \o t \in Seq(S) /\ 1 \in 1 .. Len(s) + Len(t)
  BY <1>1, Concatenation
<1>3. (s \o t)[1] = s[1]
  BY <1>1, <1>2, Concatenation
<1> QED BY <1>2, <1>3

LEMMA BeginningOfList ==
  ASSUME NEW S, NEW s \in Seq(S), NEW n \in 0 .. Len(s)
  PROVE  /\ SubSeq(s, 1, n) \in Seq(S) /\ Len(SubSeq(s, 1, n)) = n
         /\ \A i \in 1 .. n : SubSeq(s, 1, n)[i] = s[i]
<1>1. n \in Nat /\ \A i \in 1 .. n : s[i] \in S
  OBVIOUS
<1>2. SubSeq(s, 1, n) \in Seq(S) /\ Len(SubSeq(s, 1, n)) = n
  BY <1>1
<1>3. ASSUME NEW i \in 1 .. n
      PROVE  SubSeq(s, 1, n)[i] = s[i]
  BY <1>1
<1> QED BY <1>2, <1>3

\* A short visit is absorbed.
LEMMA AbsorbedTakes ==
  ASSUME TimelineTypeOK, NEW R \in Seq(Sessions), NEW P \in Seq(Sessions), Bounces(R), AllPlain(R),
         NEW n, NEW m, Taking(R \o P, n, m)
  PROVE  LET e == Len(R)
             M == Append(SubSeq(R, 1, e - 3), Together(R[e - 2], R[e - 1], R[e]))
         IN  M \in Seq(Sessions) /\ AllPlain(M) /\ Taking(M \o P, n, m)
<1> DEFINE e == Len(R)
           a == R[e - 2]
           b == R[e - 1]
           c == R[e]
           ab == Session(a.events \o b.events, a.snaps \cup b.snaps, NoSpan)
           abc == Together(a, b, c)
           front == SubSeq(R, 1, e - 3)
           M == Append(front, abc)
           L == R \o P
           K == [j \in 1 .. e + Len(P) - 1 |-> IF j < e - 2 THEN L[j] ELSE IF j = e - 2 THEN ab ELSE L[j + 1]]
<1>1. e \in Nat /\ e >= 3 /\ Len(P) \in Nat /\ \A i \in 1 .. e : R[i] \in Sessions
  BY ListTypes DEF Bounces
<1>2. a \in Sessions /\ b \in Sessions /\ c \in Sessions /\ Plain(a)
      /\ a.events # <<>> /\ b.events # <<>> /\ c.events # <<>>
  BY <1>1 DEF Bounces, AllPlain
<1>3. a.span = NoSpan
  BY <1>2 DEF Plain
<1>4. /\ a.events \in Seq(1 .. Len(rows)) /\ b.events \in Seq(1 .. Len(rows))
      /\ c.events \in Seq(1 .. Len(rows))
      /\ {a.snaps, b.snaps, c.snaps} \subseteq SUBSET (1 .. Len(content)) /\ NoSpan \in Spans
  <2>1. NoSpan \in Spans
    BY TimelineAssumption DEF NoSpan, Spans
  <2> HIDE DEF a, b, c
  <2> QED BY <1>2, <2>1 DEF Sessions
<1> HIDE DEF a, b, c
<1>5. /\ a.events \o b.events \in Seq(1 .. Len(rows)) /\ a.events \o b.events # <<>>
      /\ (a.events \o b.events)[1] = a.events[1]
  BY <1>2, <1>4, ConcatenationBegins
<1>6. /\ ab \in Sessions /\ ab.events = a.events \o b.events /\ ab.snaps = a.snaps \cup b.snaps
      /\ ab.span = NoSpan
  BY <1>4, <1>5 DEF Session, Sessions
<1>7. /\ (a.events \o b.events) \o c.events \in Seq(1 .. Len(rows))
      /\ (a.events \o b.events) \o c.events # <<>>
      /\ ((a.events \o b.events) \o c.events)[1] = a.events[1]
  <2> DEFINE x == a.events \o b.events
  <2>1. x \in Seq(1 .. Len(rows)) /\ x # <<>> /\ x[1] = a.events[1]
    BY <1>5
  <2> HIDE DEF x
  <2>2. x \o c.events \in Seq(1 .. Len(rows)) /\ x \o c.events # <<>> /\ (x \o c.events)[1] = a.events[1]
    BY <1>4, <2>1, ConcatenationBegins
  <2> QED BY <2>2 DEF x
<1>8. /\ abc \in Sessions /\ abc.events = ab.events \o c.events /\ abc.snaps = ab.snaps \cup c.snaps
      /\ abc.span = NoSpan
  BY <1>4, <1>6, <1>7 DEF Together, Session, Sessions
<1>9. /\ StartAt(a) = rows[a.events[1]].at /\ StartAt(ab) = StartAt(a) /\ StartAt(abc) = StartAt(ab)
      /\ Plain(abc)
  BY <1>2, <1>3, <1>5, <1>6, <1>7, <1>8 DEF StartAt, Plain, Dated
<1> HIDE DEF ab, abc
<1>10. /\ front \in Seq(Sessions) /\ Len(front) = e - 3 /\ \A i \in 1 .. e - 3 : front[i] = R[i]
  <2>1. e - 3 \in 0 .. Len(R)
    BY <1>1
  <2> HIDE DEF e
  <2> QED BY <2>1, BeginningOfList
<1> HIDE DEF front
<1>11. /\ M \in Seq(Sessions) /\ Len(M) = e - 2
       /\ \A i \in 1 .. e - 2 : M[i] = IF i < e - 2 THEN R[i] ELSE abc
  BY <1>1, <1>8, <1>10
<1>12. AllPlain(M)
  BY <1>1, <1>9, <1>11 DEF AllPlain
<1> HIDE DEF M
<1>13. /\ L \in Seq(Sessions) /\ Len(L) = e + Len(P)
       /\ \A p \in 1 .. e + Len(P) : L[p] = IF p <= e THEN R[p] ELSE P[p - e]
  BY Concatenation
<1>14. /\ M \o P \in Seq(Sessions) /\ Len(M \o P) = (e - 2) + Len(P)
       /\ \A p \in 1 .. (e - 2) + Len(P) : (M \o P)[p] = IF p <= e - 2 THEN M[p] ELSE P[p - (e - 2)]
  <2>1. /\ M \o P \in Seq(Sessions) /\ Len(M \o P) = Len(M) + Len(P)
        /\ \A p \in 1 .. Len(M) + Len(P) : (M \o P)[p] = IF p <= Len(M) THEN M[p] ELSE P[p - Len(M)]
    BY <1>11, Concatenation
  <2>2. Len(M) = e - 2
    BY <1>11
  <2> HIDE DEF e
  <2> QED BY <2>1, <2>2
<1> HIDE DEF L
<1>15. /\ K \in Seq(Sessions) /\ Len(K) = Len(L) - 1
       /\ \A j \in 1 .. Len(K) : K[j] = IF j < e - 2 THEN L[j] ELSE IF j = e - 2 THEN ab ELSE L[j + 1]
  <2>1. e + Len(P) - 1 \in Nat /\ \A j \in 1 .. Len(L) : L[j] \in Sessions
    BY <1>1, <1>13
  <2>2. \A j \in 1 .. e + Len(P) - 1 :
           (IF j < e - 2 THEN L[j] ELSE IF j = e - 2 THEN ab ELSE L[j + 1]) \in Sessions
    BY <1>1, <1>6, <1>13, <2>1
  <2>3. K \in [1 .. e + Len(P) - 1 -> Sessions]
    BY <2>2
  <2>4. K \in Seq(Sessions) /\ Len(K) = e + Len(P) - 1
    BY <2>1, <2>3
  <2>5. Len(L) - 1 = e + Len(P) - 1
    BY <1>1, <1>13
  <2>6. \A j \in 1 .. e + Len(P) - 1 : K[j] = IF j < e - 2 THEN L[j] ELSE IF j = e - 2 THEN ab ELSE L[j + 1]
    OBVIOUS
  <2> HIDE DEF K, e
  <2> QED BY <2>4, <2>5, <2>6
<1>16. L[e - 2] = a /\ L[e - 1] = b /\ L[e] = c
  <2>1. {e - 2, e - 1, e} \subseteq 1 .. e + Len(P) /\ e - 2 <= e /\ e - 1 <= e /\ e <= e
    BY <1>1
  <2> HIDE DEF e
  <2> QED BY <1>13, <2>1 DEF a, b, c
<1>17. Joins(K, L, e - 2, ab)
  <2> HIDE DEF K
  <2>1. e - 2 \in 1 .. Len(L) - 1 /\ (e - 2) + 1 = e - 1
    BY <1>1, <1>13
  <2> QED BY <1>6, <1>9, <1>15, <1>16, <2>1 DEF Joins
<1> HIDE DEF K
<1>18. Taking(K, n, m)
  BY <1>13, <1>15, <1>17, JoinedTakes DEF L
<1>19. Joins(M \o P, K, e - 2, abc)
  <2>1. e - 2 \in 1 .. Len(K) - 1 /\ (e - 2) + 1 = e - 1 /\ Len(M \o P) = Len(K) - 1
    BY <1>1, <1>13, <1>14, <1>15
  <2>2. K[e - 2] = ab /\ K[e - 1] = c
    BY <1>1, <1>13, <1>15, <1>16
  <2>3. ASSUME NEW j \in 1 .. (e - 2) + Len(P)
        PROVE  (M \o P)[j] = IF j < e - 2 THEN K[j] ELSE IF j = e - 2 THEN abc ELSE K[j + 1]
    <3>1. CASE j < e - 2
      <4>1. (M \o P)[j] = R[j]
        BY <1>1, <1>11, <1>14, <3>1
      <4>2. K[j] = R[j]
        <5>1. j \in 1 .. Len(K) /\ j \in 1 .. e + Len(P) /\ j <= e
          BY <1>1, <1>13, <1>15, <3>1
        <5>2. K[j] = L[j]
          BY <1>15, <3>1, <5>1
        <5>3. L[j] = R[j]
          BY <1>13, <5>1
        <5> QED BY <5>2, <5>3
      <4> QED BY <3>1, <4>1, <4>2
    <3>2. CASE j = e - 2
      BY <1>1, <1>11, <1>14, <3>2
    <3>3. CASE j > e - 2
      <4>1. (M \o P)[j] = P[j - (e - 2)]
        BY <1>1, <1>14, <3>3
      <4>2. K[j + 1] = L[j + 2]
        BY <1>1, <1>13, <1>15, <3>3
      <4>3. L[j + 2] = P[(j + 2) - e] /\ (j + 2) - e = j - (e - 2)
        BY <1>1, <1>13, <3>3
      <4> QED BY <1>1, <3>3, <4>1, <4>2, <4>3
    <3>4. j \in Int /\ e - 2 \in Int
      BY <1>1
    <3>5. j < e - 2 \/ j = e - 2 \/ j > e - 2
      <4> HIDE DEF e
      <4> QED BY <3>4
    <3> QED BY <3>1, <3>2, <3>3, <3>5
  <2> QED BY <1>8, <1>9, <1>14, <2>1, <2>2, <2>3 DEF Joins
<1>20. Taking(M \o P, n, m)
  BY <1>14, <1>15, <1>18, <1>19, JoinedTakes
<1> QED BY <1>11, <1>12, <1>20 DEF M, front, abc, a, b, c

\* A session put into the one before it begins when that one did.
LEMMA MergedBegins ==
  ASSUME TimelineTypeOK, NEW a \in Sessions, NEW b \in Sessions, Begun(a), Plain(b), StartAt(a) <= StartAt(b)
  PROVE  /\ MergedSessions(a, b) \in Sessions /\ Begun(MergedSessions(a, b))
         /\ MergedSessions(a, b).events = a.events \o b.events
         /\ MergedSessions(a, b).snaps = a.snaps \cup b.snaps
         /\ StartAt(MergedSessions(a, b)) = StartAt(a)
<1> DEFINE span == MergedSpan(a.span, b.span)
           s == MergedSessions(a, b)
<1>1. /\ a.events \in Seq(1 .. Len(rows)) /\ b.events \in Seq(1 .. Len(rows))
      /\ a.span \in Spans /\ b.span \in Spans
      /\ a.snaps \cup b.snaps \in SUBSET (1 .. Len(content))
  BY DEF Sessions
<1>2. /\ a.span.start \in 0 .. LastSecond /\ b.span.start \in 0 .. LastSecond
      /\ a.span.end \in 0 .. LastSecond /\ b.span.end \in 0 .. LastSecond /\ LastSecond \in Nat
  BY <1>1, TimelineAssumption DEF Spans
<1>3. /\ span \in Spans
      /\ a.span = NoSpan => span = b.span
      /\ b.span = NoSpan => span = a.span
      /\ a.span # NoSpan /\ b.span # NoSpan =>
            span # NoSpan /\ span.start = IF b.span.start < a.span.start THEN b.span.start ELSE a.span.start
  <2>1. CASE a.span = NoSpan
    BY <1>1, <2>1 DEF MergedSpan
  <2>2. CASE a.span # NoSpan /\ b.span = NoSpan
    BY <1>1, <2>2 DEF MergedSpan
  <2>3. CASE a.span # NoSpan /\ b.span # NoSpan
    <3>1. a.span.start >= 1 /\ b.span.start >= 1
      BY <2>3 DEF Begun, Plain, Dated
    <3>2. span = [a.span EXCEPT !.start = IF b.span.start < a.span.start THEN b.span.start ELSE a.span.start,
                                !.end = IF b.span.end > a.span.end THEN b.span.end ELSE a.span.end]
      BY <2>3 DEF MergedSpan
    <3>3. /\ span \in Spans
          /\ span.start = IF b.span.start < a.span.start THEN b.span.start ELSE a.span.start
      BY <1>1, <1>2, <3>2 DEF Spans
    <3>4. span # NoSpan
      BY <1>2, <3>1, <3>3 DEF NoSpan
    <3> QED BY <2>3, <3>3, <3>4
  <2> QED BY <2>1, <2>2, <2>3
<1> HIDE DEF span
<1>4. a.events \o b.events \in Seq(1 .. Len(rows))
  BY <1>1, Concatenation
<1>5. s \in Sessions /\ s.events = a.events \o b.events /\ s.snaps = a.snaps \cup b.snaps /\ s.span = span
  BY <1>1, <1>3, <1>4 DEF MergedSessions, Session, Sessions, span
<1>6. /\ a.events = <<>> => s.events = b.events
      /\ a.events # <<>> => s.events # <<>> /\ s.events[1] = a.events[1]
  <2>1. CASE a.events = <<>>
    BY <1>1, <1>5, <2>1
  <2>2. CASE a.events # <<>>
    <3>1. a.events \o b.events # <<>> /\ (a.events \o b.events)[1] = a.events[1]
      BY <1>1, <2>2, ConcatenationBegins
    <3>2. s.events = a.events \o b.events
      BY <1>5
    <3> HIDE DEF s
    <3> QED BY <2>2, <3>1, <3>2
  <2> QED BY <2>1, <2>2
<1> HIDE DEF s
<1>7. Begun(s)
  <2>1. Dated(s)
    BY <1>2, <1>3, <1>5 DEF Begun, Plain, Dated
  <2>2. ASSUME s.events = <<>>
        PROVE  s.span # NoSpan
    BY <1>3, <1>5, <1>6, <2>2 DEF Begun, Plain
  <2> QED BY <2>1, <2>2 DEF Begun
<1>8. StartAt(s) = StartAt(a)
  <2>1. StartAt(a) \in Int /\ StartAt(b) \in Int
    BY StartTypes
  <2>2. CASE b.span = NoSpan
    <3>1. span = a.span /\ b.events # <<>>
      BY <1>3, <2>2 DEF Plain
    <3>2. CASE a.events # <<>>
      BY <1>5, <1>6, <3>1, <3>2 DEF StartAt
    <3>3. CASE a.events = <<>>
      <4>1. a.span # NoSpan /\ StartAt(a) = a.span.start /\ StartAt(b) = rows[b.events[1]].at
        BY <2>2, <3>1, <3>3 DEF Begun, StartAt
      <4>2. s.events = b.events /\ s.span = a.span
        BY <1>5, <1>6, <3>1, <3>3
      <4> QED BY <2>1, <3>1, <4>1, <4>2 DEF StartAt
    <3> QED BY <3>2, <3>3
  <2>3. CASE b.span # NoSpan
    <3>1. b.events = <<>> /\ StartAt(b) = b.span.start
      BY <2>3 DEF Plain, StartAt
    <3>2. CASE a.events # <<>>
      <4>1. s.events # <<>> /\ s.events[1] = a.events[1]
        BY <1>6, <3>2
      <4>2. rows[a.events[1]].at \in Int
        <5>1. a.events[1] \in 1 .. Len(rows)
          BY <1>1, <3>2
        <5> QED BY <5>1, InputTypes
      <4>3. CASE a.span = NoSpan
        <5>1. span = b.span /\ StartAt(a) = rows[a.events[1]].at
          BY <1>3, <3>2, <4>3 DEF StartAt
        <5> QED BY <1>2, <1>5, <2>3, <3>1, <4>1, <4>2, <5>1 DEF StartAt
      <4>4. CASE a.span # NoSpan
        <5>1. span # NoSpan /\ span.start = IF b.span.start < a.span.start THEN b.span.start ELSE a.span.start
          BY <1>3, <2>3, <4>4
        <5>2. StartAt(a) = IF rows[a.events[1]].at < a.span.start THEN rows[a.events[1]].at ELSE a.span.start
          BY <3>2, <4>4 DEF StartAt
        <5>3. StartAt(s) = IF rows[a.events[1]].at < span.start THEN rows[a.events[1]].at ELSE span.start
          BY <1>5, <4>1, <5>1 DEF StartAt
        <5> QED BY <1>2, <3>1, <4>2, <5>1, <5>2, <5>3
      <4> QED BY <4>3, <4>4
    <3>3. CASE a.events = <<>>
      <4>1. a.span # NoSpan /\ StartAt(a) = a.span.start /\ s.events = <<>>
        BY <1>6, <3>1, <3>3 DEF Begun, StartAt
      <4>2. span.start = IF b.span.start < a.span.start THEN b.span.start ELSE a.span.start
        BY <1>3, <2>3, <4>1
      <4> QED BY <1>2, <1>5, <3>1, <4>1, <4>2 DEF StartAt
    <3> QED BY <3>2, <3>3
  <2> QED BY <2>2, <2>3
<1> QED BY <1>5, <1>7, <1>8 DEF s

\* A session is merged into its neighbour.
LEMMA MergedTakes ==
  ASSUME TimelineTypeOK, NEW R \in Seq(Sessions), NEW P \in Seq(Sessions), R # <<>>, P # <<>>,
         AllBegun(R), AllPlain(P), NEW n, NEW m, Taking(R \o P, n, m)
  PROVE  LET M == [R EXCEPT ![Len(R)] = MergedSessions(R[Len(R)], Head(P))]
         IN  M \in Seq(Sessions) /\ AllBegun(M) /\ Taking(M \o Tail(P), n, m)
<1> DEFINE e == Len(R)
           a == R[e]
           b == Head(P)
           s == MergedSessions(a, b)
           M == [R EXCEPT ![e] = s]
           Q == Tail(P)
           L == R \o P
<1>1. e \in Nat /\ e >= 1 /\ e \in 1 .. e /\ a \in Sessions /\ Begun(a)
  BY DEF AllBegun
<1>2. /\ Len(P) \in Nat /\ Len(P) >= 1 /\ b = P[1] /\ b \in Sessions /\ 1 \in 1 .. Len(P)
      /\ Q \in Seq(Sessions) /\ Len(Q) = Len(P) - 1 /\ \A i \in 1 .. Len(P) - 1 : Q[i] = P[i + 1]
  OBVIOUS
<1>3. Plain(b)
  BY <1>2 DEF AllPlain
<1>4. /\ L \in Seq(Sessions) /\ Len(L) = e + Len(P)
      /\ \A p \in 1 .. e + Len(P) : L[p] = IF p <= e THEN R[p] ELSE P[p - e]
  BY Concatenation
<1> HIDE DEF L
<1>5. L[e] = a /\ L[e + 1] = b
  <2>1. e \in 1 .. e + Len(P) /\ e <= e /\ e + 1 \in 1 .. e + Len(P) /\ ~(e + 1 <= e) /\ (e + 1) - e = 1
    BY <1>1, <1>2
  <2> HIDE DEF e, b
  <2> QED BY <1>2, <1>4, <2>1 DEF a
<1>6. StartAt(a) <= StartAt(b)
  <2>1. InOrder(L)
    BY DEF Taking, L
  <2>2. e \in 1 .. Len(L) /\ e + 1 \in 1 .. Len(L) /\ e <= e + 1
    BY <1>1, <1>2, <1>4
  <2> HIDE DEF e, a, b
  <2> QED BY <1>5, <2>1, <2>2 DEF InOrder
<1>7. /\ s \in Sessions /\ Begun(s) /\ s.events = a.events \o b.events
      /\ s.snaps = a.snaps \cup b.snaps /\ StartAt(s) = StartAt(a)
  <2> HIDE DEF a, b
  <2> QED BY <1>1, <1>2, <1>3, <1>6, MergedBegins
<1> HIDE DEF s
<1>8. /\ M \in Seq(Sessions) /\ Len(M) = e /\ \A i \in 1 .. e : M[i] = IF i = e THEN s ELSE R[i]
  BY <1>1, <1>7
<1>9. AllBegun(M)
  BY <1>7, <1>8 DEF AllBegun
<1> HIDE DEF M, Q
<1>10. /\ M \o Q \in Seq(Sessions) /\ Len(M \o Q) = e + (Len(P) - 1)
       /\ \A p \in 1 .. e + (Len(P) - 1) : (M \o Q)[p] = IF p <= e THEN M[p] ELSE Q[p - e]
  <2>1. /\ M \o Q \in Seq(Sessions) /\ Len(M \o Q) = Len(M) + Len(Q)
        /\ \A p \in 1 .. Len(M) + Len(Q) : (M \o Q)[p] = IF p <= Len(M) THEN M[p] ELSE Q[p - Len(M)]
    <3>1. M \in Seq(Sessions) /\ Q \in Seq(Sessions)
      BY <1>2, <1>8
    <3> QED BY <3>1, Concatenation
  <2>2. Len(M) = e /\ Len(Q) = Len(P) - 1
    BY <1>2, <1>8
  <2> HIDE DEF e
  <2> QED BY <2>1, <2>2
<1>11. Joins(M \o Q, L, e, s)
  <2>1. e \in 1 .. Len(L) - 1 /\ Len(M \o Q) = Len(L) - 1
    BY <1>1, <1>2, <1>4, <1>10
  <2>2. ASSUME NEW j \in 1 .. e + (Len(P) - 1)
        PROVE  (M \o Q)[j] = IF j < e THEN L[j] ELSE IF j = e THEN s ELSE L[j + 1]
    <3>1. j \in Int /\ (j < e \/ j = e \/ j > e)
      BY <1>1
    <3>2. CASE j < e
      <4>1. j \in 1 .. e /\ j \in 1 .. e + Len(P) /\ j <= e /\ j # e
        BY <1>1, <1>2, <3>2
      <4>2. (M \o Q)[j] = R[j] /\ L[j] = R[j]
        BY <1>4, <1>8, <1>10, <4>1
      <4> QED BY <3>2, <4>2
    <3>3. CASE j = e
      BY <1>1, <1>8, <1>10, <3>3
    <3>4. CASE j > e
      <4>1. (M \o Q)[j] = Q[j - e]
        <5>1. ~(j <= e)
          BY <1>1, <3>1, <3>4
        <5> QED BY <1>10, <5>1
      <4>2. j - e \in 1 .. Len(P) - 1 /\ (j - e) + 1 = (j + 1) - e /\ j + 1 \in 1 .. e + Len(P) /\ ~(j + 1 <= e)
        BY <1>1, <1>2, <3>4
      <4>3. Q[j - e] = P[(j - e) + 1] /\ L[j + 1] = P[(j + 1) - e]
        BY <1>2, <1>4, <4>2
      <4> QED BY <1>1, <3>4, <4>1, <4>2, <4>3
    <3> QED BY <3>1, <3>2, <3>3, <3>4
  <2> QED BY <1>5, <1>7, <1>10, <2>1, <2>2 DEF Joins
<1>12. Taking(M \o Q, n, m)
  BY <1>4, <1>10, <1>11, JoinedTakes DEF L
<1> QED BY <1>8, <1>9, <1>12 DEF M, Q, s

-----------------------------------------------------------------------------
(* The invariant is inductive.                                             *)

LEMMA InputsCarry ==
  ASSUME UNCHANGED inputs
  PROVE  /\ rows' = rows /\ content' = content
         /\ Len(rows') = Len(rows) /\ Len(content') = Len(content) /\ Sessions' = Sessions
         /\ InputsSorted' <=> InputsSorted
         /\ \A L, n, m : Taking(L, n, m)' <=> Taking(L, n, m)
         /\ \A L : CountedRightly(L)' <=> CountedRightly(L)
         /\ \A L : InOrder(L)' <=> InOrder(L)
<1>1. \A s : StartAt(s)' = StartAt(s) /\ App(s)' = App(s)
  BY DEF StartAt, App, inputs
<1>2. \A L : InOrder(L)' <=> InOrder(L)
  BY <1>1 DEF InOrder
<1>3. \A L : CountedRightly(L)' <=> CountedRightly(L)
  BY <1>1 DEF CountedRightly, inputs
<1>4. rows' = rows /\ content' = content
  BY DEF inputs
<1>5. \A L, n, m : Taking(L, n, m)' <=> Taking(L, n, m)
  BY <1>2, <1>4 DEF Taking
<1>6. (InputsSorted' <=> InputsSorted) /\ Sessions' = Sessions
  BY <1>4 DEF InputsSorted, Sessions
<1> QED BY <1>2, <1>3, <1>4, <1>5, <1>6

LEMMA NextInRange ==
  ASSUME NEW n \in Nat, NEW i \in 1 .. n - 1
  PROVE  i \in Int /\ i + 1 \in 1 .. n
OBVIOUS

LEMMA TimelineInvInit == TimelineInit => TimelineInv
<1> SUFFICES ASSUME TimelineInit PROVE TimelineInv
  OBVIOUS
<1> DEFINE R == [at : Seconds, app : Programs, activate : BOOLEAN]
           C == [at : Seconds, app : Programs]
<1>1. /\ rows \in Seq(R) /\ Len(rows) \in Nat /\ Len(rows) <= MaxRows
      /\ \A i, j \in 1 .. Len(rows) : i <= j => rows[i].at <= rows[j].at
  <2> HIDE DEF R
  <2>1. rows \in SortedLists(R, MaxRows)
    BY DEF TimelineInit, R
  <2>2. PICK n \in 0 .. MaxRows :
          rows \in {s \in [1 .. n -> R] : \A i, j \in 1 .. n : i <= j => s[i].at <= s[j].at}
    BY <2>1 DEF SortedLists
  <2>3. n \in Nat /\ n <= MaxRows /\ rows \in [1 .. n -> R]
    BY <2>2, TimelineAssumption
  <2>4. rows \in Seq(R) /\ Len(rows) = n
    BY <2>3
  <2> QED BY <2>2, <2>3, <2>4
<1>2. /\ content \in Seq(C) /\ Len(content) \in Nat /\ Len(content) <= MaxContent
      /\ \A i, j \in 1 .. Len(content) : i <= j => content[i].at <= content[j].at
  <2> HIDE DEF C
  <2>1. content \in SortedLists(C, MaxContent)
    BY DEF TimelineInit, C
  <2>2. PICK n \in 0 .. MaxContent :
          content \in {s \in [1 .. n -> C] : \A i, j \in 1 .. n : i <= j => s[i].at <= s[j].at}
    BY <2>1 DEF SortedLists
  <2>3. n \in Nat /\ n <= MaxContent /\ content \in [1 .. n -> C]
    BY <2>2, TimelineAssumption
  <2>4. content \in Seq(C) /\ Len(content) = n
    BY <2>3
  <2> QED BY <2>2, <2>3, <2>4
<1>3. /\ pendingIn \in Seq(1 .. Len(rows)) /\ Len(pendingIn) = Len(rows)
      /\ \A i \in 1 .. Len(rows) : pendingIn[i] = i
  <2>1. pendingIn = [r \in 1 .. Len(rows) |-> r]
    BY DEF TimelineInit
  <2> DEFINE n == Len(rows)
  <2>2. pendingIn \in [1 .. n -> 1 .. n] /\ n \in Nat
    BY <1>1, <2>1
  <2> HIDE DEF n
  <2>3. pendingIn \in Seq(1 .. n) /\ Len(pendingIn) = n
    BY <2>2
  <2> QED BY <2>1, <2>3 DEF n
<1>4. /\ phase = "split" /\ base = <<>> /\ raw = <<>> /\ truncated = FALSE /\ ids \in BOOLEAN
      /\ options \in [granularity : {"fine", "coarse"}, budget : Budgets]
  BY DEF TimelineInit
<1>5. Len(<<>>) = 0 /\ <<>> \in Seq(Sessions)
  OBVIOUS
<1>6. TimelineTypeOK
  BY <1>1, <1>2, <1>3, <1>4, <1>5 DEF TimelineTypeOK, Phases
<1>7. Taking(base, 0, 0) /\ CountedRightly(base) /\ AllPlain(base)
  BY <1>1, <1>2, <1>4, <1>5
     DEF Taking, Ascending, Apart, InOrder, HasEvent, HasSnapshot, CountedRightly, AllPlain
<1>8. TimelineSound
  <2>1. Len(rows) - Len(pendingIn) = 0
    BY <1>1, <1>3
  <2> QED BY <1>4, <1>7, <2>1 DEF TimelineSound
<1>9. Splitting
  <2>1. Len(pendingIn) <= Len(rows)
    BY <1>1, <1>3
  <2>2. \A i \in 1 .. Len(pendingIn) : pendingIn[i] = Len(rows) - Len(pendingIn) + i
    <3> SUFFICES ASSUME NEW i \in 1 .. Len(rows) PROVE pendingIn[i] = Len(rows) - Len(rows) + i
      BY <1>3
    <3>1. pendingIn[i] = i
      BY <1>3
    <3> QED BY <1>1, <3>1
  <2>3. \A i \in 1 .. Len(base) : base[i].events # <<>> /\ base[i].snaps = {}
    BY <1>4, <1>5
  <2> QED BY <2>1, <2>2, <2>3 DEF Splitting
<1> QED BY <1>1, <1>2, <1>4, <1>6, <1>7, <1>8, <1>9 DEF TimelineInv, InputsSorted

LEMMA SplitKeeps == TimelineInv /\ Split => TimelineInv'
<1> SUFFICES ASSUME TimelineInv, Split PROVE TimelineInv'
  OBVIOUS
<1>1. /\ phase = "split" /\ pendingIn # <<>> /\ base' = Extended(base, Head(pendingIn))
      /\ pendingIn' = Tail(pendingIn) /\ UNCHANGED inputs /\ options' = options /\ phase' = "split"
      /\ raw' = raw /\ ids' = ids /\ truncated' = truncated
  BY DEF Split
<1>2. /\ base' \in Seq(Sessions) /\ AllPlain(base') /\ CountedRightly(base')
      /\ \A i \in 1 .. Len(base') : base'[i].events # <<>> /\ base'[i].snaps = {}
      /\ Taking(base', Len(rows) - Len(pendingIn) + 1, 0)
  BY <1>1, ExtendedTakes
<1>3. TimelineTypeOK /\ InputsSorted /\ Splitting /\ ~truncated
  BY <1>1 DEF TimelineInv, TimelineTypeOK
<1>4. /\ rows' = rows /\ content' = content /\ Sessions' = Sessions
      /\ InputsSorted' /\ CountedRightly(base)' /\ Len(rows') = Len(rows)
  BY <1>1, <1>2, <1>3, InputsCarry
<1>5. /\ pendingIn \in Seq(1 .. Len(rows)) /\ Len(pendingIn) \in Nat /\ Len(pendingIn) >= 1
      /\ pendingIn' \in Seq(1 .. Len(rows)) /\ Len(pendingIn') = Len(pendingIn) - 1
      /\ \A i \in 1 .. Len(pendingIn) - 1 : pendingIn'[i] = pendingIn[i + 1]
  <2>1. pendingIn \in Seq(1 .. Len(rows))
    BY <1>1, <1>3 DEF TimelineTypeOK
  <2> QED BY <1>1, <2>1
<1>6. Len(rows) \in Nat
  BY <1>3, InputTypes
<1>7. TimelineTypeOK'
  BY <1>1, <1>2, <1>3, <1>4, <1>5 DEF TimelineTypeOK
<1>8. Taking(base, Len(rows) - Len(pendingIn), 0)'
  <2>1. Len(rows') - Len(pendingIn') = Len(rows) - Len(pendingIn) + 1
    BY <1>4, <1>5, <1>6
  <2> QED BY <1>1, <1>2, <2>1, InputsCarry
<1>9. TimelineSound'
  BY <1>1, <1>4, <1>8 DEF TimelineSound
<1>10. Splitting'
  <2>1. /\ Len(pendingIn) <= Len(rows)
        /\ \A i \in 1 .. Len(pendingIn) : pendingIn[i] = Len(rows) - Len(pendingIn) + i
    BY <1>3 DEF Splitting
  <2>2. Len(pendingIn') <= Len(rows')
    BY <1>4, <1>5, <1>6, <2>1
  <2>3. ASSUME NEW i \in 1 .. Len(pendingIn')
        PROVE  pendingIn'[i] = Len(rows') - Len(pendingIn') + i
    <3>1. i \in Int /\ i + 1 \in 1 .. Len(pendingIn) /\ pendingIn'[i] = pendingIn[i + 1]
      <4>1. i \in 1 .. Len(pendingIn) - 1
        BY <1>5
      <4> QED BY <1>5, <4>1, NextInRange
    <3>2. pendingIn[i + 1] = Len(rows) - Len(pendingIn) + (i + 1)
      BY <2>1, <3>1
    <3> QED BY <1>4, <1>5, <1>6, <3>1, <3>2
  <2> QED BY <1>2, <2>2, <2>3 DEF Splitting
<1> QED BY <1>1, <1>2, <1>3, <1>4, <1>7, <1>9, <1>10 DEF TimelineInv

\* What holds once every snapshot is assigned.
LEMMA GroupingFacts ==
  ASSUME TimelineInv, phase \notin {"split", "assign"}
  PROVE  /\ TimelineTypeOK /\ InputsSorted /\ AllPlain(base) /\ CountedRightly(base)
         /\ Taking(base, Len(rows), Len(content))
         /\ base \in Seq(Sessions) /\ raw \in Seq(Sessions) /\ pendingIn \in Seq(Sessions)
         /\ AllBegun(raw) /\ AllPlain(pendingIn)
         /\ phase \in {"absorb", "fit", "bare"} => AllPlain(raw)
         /\ phase \notin {"absorb", "merge"} => pendingIn = <<>>
         /\ phase \notin {"drop", "done"} => ~truncated
         /\ ~truncated => Taking(IF phase \in {"absorb", "merge"} THEN raw \o pendingIn ELSE raw,
                                 Len(rows), Len(content))
<1>1. TimelineTypeOK /\ InputsSorted /\ TimelineSound /\ AllPlain(base) /\ Grouping
      /\ (truncated => phase \in {"drop", "done"})
  BY DEF TimelineInv
<1>2. base \in Seq(Sessions) /\ raw \in Seq(Sessions) /\ pendingIn \in Seq(Sessions)
  BY <1>1 DEF TimelineTypeOK
<1>3. /\ AllBegun(raw) /\ AllPlain(pendingIn)
      /\ phase \in {"absorb", "fit", "bare"} => AllPlain(raw)
      /\ phase \notin {"absorb", "merge"} => pendingIn = <<>>
  BY <1>1 DEF Grouping
<1>4. CountedRightly(base) /\ Taking(base, Len(rows), Len(content))
  BY <1>1 DEF TimelineSound
<1>5. ~truncated => Taking(IF phase \in {"absorb", "merge"} THEN raw \o pendingIn ELSE raw,
                           Len(rows), Len(content))
  BY <1>1 DEF TimelineSound
<1> QED BY <1>1, <1>2, <1>3, <1>4, <1>5

\* A step that groups the sessions anew and loses nothing keeps the invariant.
LEMMA GroupedAnew ==
  ASSUME TimelineTypeOK, InputsSorted, AllPlain(base), CountedRightly(base),
         Taking(base, Len(rows), Len(content)), ~truncated,
         UNCHANGED <<inputs, base, truncated>>, ids' \in BOOLEAN,
         options' \in [granularity : {"fine", "coarse"}, budget : Budgets],
         phase' \in Phases \ {"split", "assign"},
         raw' \in Seq(Sessions), pendingIn' \in Seq(Sessions), AllBegun(raw'), AllPlain(pendingIn'),
         phase' \in {"absorb", "fit", "bare"} => AllPlain(raw'),
         phase' \notin {"absorb", "merge"} => pendingIn' = <<>>,
         Taking(IF phase' \in {"absorb", "merge"} THEN raw' \o pendingIn' ELSE raw',
                Len(rows), Len(content)),
         phase' = "done" => ~OverBudget' \/ raw' = <<>>
  PROVE  TimelineInv'
<1>1. UNCHANGED inputs /\ base' = base /\ truncated' = truncated /\ ~truncated'
  OBVIOUS
<1>2. /\ rows' = rows /\ content' = content /\ Sessions' = Sessions
      /\ InputsSorted' /\ CountedRightly(base)' /\ Len(rows') = Len(rows) /\ Len(content') = Len(content)
  BY <1>1, InputsCarry
<1>3. TimelineTypeOK'
  BY <1>1, <1>2 DEF TimelineTypeOK
<1>4. Taking(base, Len(rows), Len(content))'
  BY <1>1, <1>2, InputsCarry
<1>5. Taking(IF phase \in {"absorb", "merge"} THEN raw \o pendingIn ELSE raw, Len(rows), Len(content))'
  BY <1>1, <1>2, InputsCarry
<1>6. TimelineSound'
  BY <1>1, <1>2, <1>4, <1>5 DEF TimelineSound
<1>7. /\ AllPlain(base)' /\ AllBegun(raw)' /\ AllPlain(pendingIn)'
      /\ phase' \in {"absorb", "fit", "bare"} => AllPlain(raw)'
  BY <1>1
<1>8. Grouping'
  BY <1>7 DEF Grouping
<1> QED BY <1>1, <1>2, <1>3, <1>6, <1>7, <1>8 DEF TimelineInv

LEMMA BeginAssignKeeps == TimelineInv /\ BeginAssign => TimelineInv'
<1> SUFFICES ASSUME TimelineInv, BeginAssign PROVE TimelineInv'
  OBVIOUS
<1>1. /\ phase = "split" /\ pendingIn = <<>> /\ pendingIn' = [k \in 1 .. Len(content) |-> k]
      /\ phase' = "assign" /\ UNCHANGED inputs /\ options' = options /\ base' = base
      /\ raw' = raw /\ ids' = ids /\ truncated' = truncated
  BY DEF BeginAssign
<1>2. TimelineTypeOK /\ InputsSorted /\ AllPlain(base) /\ TimelineSound /\ ~truncated
  BY <1>1 DEF TimelineInv, TimelineTypeOK
<1>3. /\ rows' = rows /\ content' = content /\ Sessions' = Sessions
      /\ InputsSorted' /\ Len(rows') = Len(rows) /\ Len(content') = Len(content)
  BY <1>1, <1>2, InputsCarry
<1>4. Len(rows) \in Nat /\ Len(content) \in Nat
  BY <1>2, InputTypes
<1>5. /\ pendingIn' \in Seq(1 .. Len(content)) /\ Len(pendingIn') = Len(content)
      /\ \A k \in 1 .. Len(content) : pendingIn'[k] = k
  <2> DEFINE n == Len(content)
  <2>1. pendingIn' \in [1 .. n -> 1 .. n] /\ n \in Nat
    BY <1>1, <1>4
  <2> HIDE DEF n
  <2>2. pendingIn' \in Seq(1 .. n) /\ Len(pendingIn') = n
    BY <2>1
  <2> QED BY <1>1, <2>2 DEF n
<1>6. TimelineTypeOK'
  BY <1>1, <1>2, <1>3, <1>5 DEF TimelineTypeOK, Phases
<1>7. CountedRightly(base) /\ Taking(base, Len(rows), 0)
  <2>1. Len(rows) - Len(pendingIn) = Len(rows)
    <3>1. Len(pendingIn) = 0
      BY <1>1
    <3> QED BY <1>4, <3>1
  <2> QED BY <1>1, <1>2, <2>1 DEF TimelineSound
<1>8. CountedRightly(base)' /\ Taking(base, Len(rows), Len(content) - Len(pendingIn))'
  <2>1. Len(content') - Len(pendingIn') = 0
    BY <1>3, <1>4, <1>5
  <2> QED BY <1>1, <1>3, <1>7, <2>1, InputsCarry
<1>9. TimelineSound'
  BY <1>1, <1>8 DEF TimelineSound
<1>10. Assigning'
  BY <1>3, <1>4, <1>5 DEF Assigning
<1>11. AllPlain(base)'
  BY <1>1, <1>2
<1> QED BY <1>1, <1>2, <1>3, <1>6, <1>9, <1>10, <1>11 DEF TimelineInv

LEMMA AssignSnapshotKeeps == TimelineInv /\ AssignSnapshot => TimelineInv'
<1> SUFFICES ASSUME TimelineInv, AssignSnapshot PROVE TimelineInv'
  OBVIOUS
<1>1. /\ phase = "assign" /\ pendingIn # <<>> /\ base' = Assigned(base, Head(pendingIn))
      /\ pendingIn' = Tail(pendingIn) /\ UNCHANGED inputs /\ options' = options /\ phase' = "assign"
      /\ raw' = raw /\ ids' = ids /\ truncated' = truncated
  BY DEF AssignSnapshot
<1>2. /\ base' \in Seq(Sessions) /\ AllPlain(base') /\ CountedRightly(base')
      /\ Taking(base', Len(rows), Len(content) - Len(pendingIn) + 1)
  BY <1>1, AssignedTakes
<1>3. TimelineTypeOK /\ InputsSorted /\ Assigning /\ ~truncated
  BY <1>1 DEF TimelineInv, TimelineTypeOK
<1>4. /\ rows' = rows /\ content' = content /\ Sessions' = Sessions
      /\ InputsSorted' /\ CountedRightly(base)' /\ Len(rows') = Len(rows) /\ Len(content') = Len(content)
  BY <1>1, <1>2, <1>3, InputsCarry
<1>5. /\ pendingIn \in Seq(1 .. Len(content)) /\ Len(pendingIn) \in Nat /\ Len(pendingIn) >= 1
      /\ pendingIn' \in Seq(1 .. Len(content)) /\ Len(pendingIn') = Len(pendingIn) - 1
      /\ \A i \in 1 .. Len(pendingIn) - 1 : pendingIn'[i] = pendingIn[i + 1]
  <2>1. pendingIn \in Seq(1 .. Len(content))
    BY <1>1, <1>3 DEF TimelineTypeOK
  <2> QED BY <1>1, <2>1
<1>6. Len(rows) \in Nat /\ Len(content) \in Nat
  BY <1>3, InputTypes
<1>7. TimelineTypeOK'
  BY <1>1, <1>2, <1>3, <1>4, <1>5 DEF TimelineTypeOK
<1>8. Taking(base, Len(rows), Len(content) - Len(pendingIn))'
  <2>1. Len(content') - Len(pendingIn') = Len(content) - Len(pendingIn) + 1
    BY <1>4, <1>5, <1>6
  <2> QED BY <1>1, <1>2, <1>4, <2>1, InputsCarry
<1>9. TimelineSound'
  BY <1>1, <1>4, <1>8 DEF TimelineSound
<1>10. Assigning'
  <2>1. /\ Len(pendingIn) <= Len(content)
        /\ \A i \in 1 .. Len(pendingIn) : pendingIn[i] = Len(content) - Len(pendingIn) + i
    BY <1>3 DEF Assigning
  <2>2. Len(pendingIn') <= Len(content')
    BY <1>4, <1>5, <1>6, <2>1
  <2>3. ASSUME NEW i \in 1 .. Len(pendingIn')
        PROVE  pendingIn'[i] = Len(content') - Len(pendingIn') + i
    <3>1. i \in Int /\ i + 1 \in 1 .. Len(pendingIn) /\ pendingIn'[i] = pendingIn[i + 1]
      <4>1. i \in 1 .. Len(pendingIn) - 1
        BY <1>5
      <4> QED BY <1>5, <4>1, NextInRange
    <3>2. pendingIn[i + 1] = Len(content) - Len(pendingIn) + (i + 1)
      BY <2>1, <3>1
    <3> QED BY <1>4, <1>5, <1>6, <3>1, <3>2
  <2> QED BY <2>2, <2>3 DEF Assigning
<1> QED BY <1>1, <1>2, <1>3, <1>4, <1>7, <1>9, <1>10 DEF TimelineInv

\* One more item of plain or of begun sessions taken over.
LEMMA OneMoved ==
  ASSUME NEW R \in Seq(Sessions), NEW P \in Seq(Sessions), P # <<>>, AllPlain(P), AllBegun(R)
  PROVE  /\ AllPlain(Tail(P)) /\ AllBegun(Append(R, Head(P)))
         /\ AllPlain(R) => AllPlain(Append(R, Head(P)))
<1> DEFINE M == Append(R, Head(P))
           Q == Tail(P)
<1>1. /\ Len(R) \in Nat /\ Len(M) = Len(R) + 1 /\ M[Len(R) + 1] = P[1] /\ 1 \in 1 .. Len(P)
      /\ \A i \in 1 .. Len(R) : M[i] = R[i]
  OBVIOUS
<1>2. /\ Len(P) \in Nat /\ Len(Q) = Len(P) - 1 /\ \A i \in 1 .. Len(P) - 1 : Q[i] = P[i + 1]
  OBVIOUS
<1> HIDE DEF M, Q
<1>3. \A i \in 1 .. Len(M) : i \in 1 .. Len(R) \/ i = Len(R) + 1
  BY <1>1
<1>4. \A i \in 1 .. Len(Q) : i + 1 \in 1 .. Len(P) /\ Q[i] = P[i + 1]
  BY <1>2
<1>5. Plain(P[1]) /\ Begun(P[1])
  BY <1>1 DEF AllPlain, Plain, Begun
<1>6. AllPlain(Q)
  BY <1>4 DEF AllPlain
<1>7. AllBegun(M)
  BY <1>1, <1>3, <1>5 DEF AllBegun
<1>8. ASSUME AllPlain(R)
      PROVE  AllPlain(M)
  BY <1>1, <1>3, <1>5, <1>8 DEF AllPlain
<1> QED BY <1>6, <1>7, <1>8 DEF M, Q

\* A truncated timeline that keeps the latest events.
LEMMA TruncatedHolds ==
  ASSUME TimelineTypeOK, InputsSorted, AllPlain(base), CountedRightly(base),
         Taking(base, Len(rows), Len(content)),
         UNCHANGED <<inputs, base, ids, options>>, truncated' = TRUE,
         phase' \in {"drop", "done"}, pendingIn' = <<>>,
         raw' \in Seq(Sessions), AllBegun(raw'), Ascending(raw'), Apart(raw'), InOrder(raw'),
         \A q, r \in 1 .. Len(rows) : HasEvent(raw', q) /\ q <= r => HasEvent(raw', r),
         phase' = "done" => ~OverBudget' \/ raw' = <<>>
  PROVE  TimelineInv'
<1>1. UNCHANGED inputs /\ base' = base /\ ids' = ids /\ options' = options
  OBVIOUS
<1>2. /\ rows' = rows /\ content' = content /\ Sessions' = Sessions
      /\ InputsSorted' /\ CountedRightly(base)' /\ Len(rows') = Len(rows) /\ Len(content') = Len(content)
  BY <1>1, InputsCarry
<1>3. TimelineTypeOK'
  <2>1. pendingIn' \in Seq(Sessions)
    OBVIOUS
  <2> QED BY <1>1, <1>2, <2>1 DEF TimelineTypeOK, Phases
<1>4. Taking(base, Len(rows), Len(content))' /\ InOrder(raw)'
  BY <1>1, <1>2, InputsCarry
<1>5. /\ Ascending(raw)' /\ Apart(raw)'
      /\ (\A q, r \in 1 .. Len(rows) : HasEvent(raw, q) /\ q <= r => HasEvent(raw, r))'
  BY <1>2
<1>6. TimelineSound'
  BY <1>2, <1>4, <1>5 DEF TimelineSound
<1>7. AllPlain(base)' /\ Grouping'
  <2>1. AllPlain(pendingIn)'
    BY DEF AllPlain
  <2> QED BY <1>1, <2>1 DEF Grouping
<1> QED BY <1>2, <1>3, <1>6, <1>7 DEF TimelineInv

\* The sessions as assigned are grouped by a granularity, from the beginning.
LEMMA GroupKeeps ==
  ASSUME TimelineTypeOK, InputsSorted, AllPlain(base), CountedRightly(base),
         Taking(base, Len(rows), Len(content)), ~truncated,
         UNCHANGED <<inputs, base, ids, truncated>>,
         options' \in [granularity : {"fine", "coarse"}, budget : Budgets],
         NEW granularity, Group(granularity)
  PROVE  TimelineInv'
<1>1. base \in Seq(Sessions) /\ ids' \in BOOLEAN
  BY DEF TimelineTypeOK
<1>2. <<>> \in Seq(Sessions) /\ AllPlain(<<>>) /\ AllBegun(<<>>) /\ <<>> \o base = base
  BY <1>1 DEF AllPlain, AllBegun
<1>3. AllBegun(base)
  BY DEF AllPlain, AllBegun, Plain, Begun
<1>4. CASE raw' = base /\ pendingIn' = <<>> /\ phase' = "fit"
  BY <1>1, <1>2, <1>3, <1>4, GroupedAnew DEF Phases
<1>5. CASE raw' = <<>> /\ pendingIn' = base /\ phase' = "absorb"
  BY <1>1, <1>2, <1>5, GroupedAnew DEF Phases
<1> QED BY <1>4, <1>5 DEF Group

LEMMA AssembleKeeps == TimelineInv /\ Assemble => TimelineInv'
<1> SUFFICES ASSUME TimelineInv, Assemble PROVE TimelineInv'
  OBVIOUS
<1>1. phase = "assign" /\ pendingIn = <<>> /\ Group(options.granularity)
      /\ UNCHANGED <<inputs, base, ids, truncated>> /\ options' = options
  BY DEF Assemble
<1>2. TimelineTypeOK /\ InputsSorted /\ AllPlain(base) /\ TimelineSound /\ ~truncated
  BY <1>1 DEF TimelineInv
<1>3. options' \in [granularity : {"fine", "coarse"}, budget : Budgets]
  BY <1>1, <1>2 DEF TimelineTypeOK
<1>4. Len(content) - Len(pendingIn) = Len(content)
  <2>1. Len(pendingIn) = 0 /\ Len(content) \in Nat
    BY <1>1, <1>2, InputTypes
  <2> QED BY <2>1
<1>5. CountedRightly(base) /\ Taking(base, Len(rows), Len(content))
  BY <1>1, <1>2, <1>4 DEF TimelineSound
<1> QED BY <1>1, <1>2, <1>3, <1>5, GroupKeeps

LEMMA CoarsenKeeps == TimelineInv /\ Coarsen => TimelineInv'
<1> SUFFICES ASSUME TimelineInv, Coarsen PROVE TimelineInv'
  OBVIOUS
<1>1. phase = "fit" /\ Group("coarse") /\ UNCHANGED <<inputs, base, ids, truncated>>
      /\ options' = [options EXCEPT !.granularity = "coarse"]
  BY DEF Coarsen
<1>2. /\ TimelineTypeOK /\ InputsSorted /\ AllPlain(base) /\ CountedRightly(base)
      /\ Taking(base, Len(rows), Len(content)) /\ ~truncated
  BY <1>1, GroupingFacts
<1>3. options' \in [granularity : {"fine", "coarse"}, budget : Budgets]
  BY <1>1, <1>2 DEF TimelineTypeOK
<1> QED BY <1>1, <1>2, <1>3, GroupKeeps

LEMMA AbsorbBounceKeeps == TimelineInv /\ AbsorbBounce => TimelineInv'
<1> SUFFICES ASSUME TimelineInv, AbsorbBounce PROVE TimelineInv'
  OBVIOUS
<1> DEFINE n == Len(raw)
           M == Append(SubSeq(raw, 1, n - 3), Together(raw[n - 2], raw[n - 1], raw[n]))
<1>1. /\ phase = "absorb" /\ Bounces(raw) /\ raw' = M /\ phase' = "absorb" /\ pendingIn' = pendingIn
      /\ UNCHANGED <<inputs, base, truncated>> /\ ids' = ids /\ options' = options
  BY DEF AbsorbBounce
<1>2. /\ TimelineTypeOK /\ InputsSorted /\ AllPlain(base) /\ CountedRightly(base)
      /\ Taking(base, Len(rows), Len(content)) /\ ~truncated
      /\ raw \in Seq(Sessions) /\ pendingIn \in Seq(Sessions) /\ AllPlain(raw) /\ AllPlain(pendingIn)
      /\ Taking(raw \o pendingIn, Len(rows), Len(content))
  BY <1>1, GroupingFacts
<1>3. M \in Seq(Sessions) /\ AllPlain(M) /\ Taking(M \o pendingIn, Len(rows), Len(content))
  BY <1>1, <1>2, AbsorbedTakes
<1> HIDE DEF M
<1>4. AllBegun(M)
  BY <1>3 DEF AllPlain, AllBegun, Plain, Begun
<1>5. ids' \in BOOLEAN /\ options' \in [granularity : {"fine", "coarse"}, budget : Budgets]
  BY <1>1, <1>2 DEF TimelineTypeOK
<1> QED BY <1>1, <1>2, <1>3, <1>4, <1>5, GroupedAnew DEF Phases

LEMMA AbsorbNextKeeps == TimelineInv /\ AbsorbNext => TimelineInv'
<1> SUFFICES ASSUME TimelineInv, AbsorbNext PROVE TimelineInv'
  OBVIOUS
<1>1. /\ phase = "absorb" /\ UNCHANGED <<inputs, base, truncated>> /\ ids' = ids /\ options' = options
  BY DEF AbsorbNext
<1>2. /\ TimelineTypeOK /\ InputsSorted /\ AllPlain(base) /\ CountedRightly(base)
      /\ Taking(base, Len(rows), Len(content)) /\ ~truncated
      /\ raw \in Seq(Sessions) /\ pendingIn \in Seq(Sessions)
      /\ AllPlain(raw) /\ AllBegun(raw) /\ AllPlain(pendingIn)
      /\ Taking(raw \o pendingIn, Len(rows), Len(content))
  BY <1>1, GroupingFacts
<1>3. ids' \in BOOLEAN /\ options' \in [granularity : {"fine", "coarse"}, budget : Budgets]
  BY <1>1, <1>2 DEF TimelineTypeOK
<1>4. CASE pendingIn # <<>>
  <2>1. raw' = Append(raw, Head(pendingIn)) /\ pendingIn' = Tail(pendingIn) /\ phase' = "absorb"
    BY <1>1, <1>4 DEF AbsorbNext
  <2>2. raw' \in Seq(Sessions) /\ pendingIn' \in Seq(Sessions) /\ raw' \o pendingIn' = raw \o pendingIn
    BY <1>2, <1>4, <2>1, MovedOver
  <2>3. AllPlain(raw') /\ AllBegun(raw') /\ AllPlain(pendingIn')
    BY <1>2, <1>4, <2>1, OneMoved
  <2> QED BY <1>1, <1>2, <1>3, <2>1, <2>2, <2>3, GroupedAnew DEF Phases
<1>5. CASE pendingIn = <<>>
  <2>1. raw' = raw /\ pendingIn' = <<>> /\ phase' = "fit" /\ raw \o pendingIn = raw
    BY <1>1, <1>2, <1>5 DEF AbsorbNext
  <2> QED BY <1>1, <1>2, <1>3, <2>1, GroupedAnew DEF Phases
<1> QED BY <1>4, <1>5

LEMMA FitsKeeps == TimelineInv /\ Fits => TimelineInv'
<1> SUFFICES ASSUME TimelineInv, Fits PROVE TimelineInv'
  OBVIOUS
<1>1. /\ phase \in {"fit", "bare", "drop"} /\ (~OverBudget \/ raw = <<>>) /\ phase' = "done"
      /\ UNCHANGED inputs /\ options' = options /\ base' = base /\ pendingIn' = pendingIn
      /\ raw' = raw /\ ids' = ids /\ truncated' = truncated
  BY DEF Fits
<1>2. /\ TimelineTypeOK /\ InputsSorted /\ AllPlain(base) /\ CountedRightly(base)
      /\ Taking(base, Len(rows), Len(content))
      /\ base \in Seq(Sessions) /\ raw \in Seq(Sessions) /\ AllBegun(raw)
      /\ pendingIn = <<>> /\ AllPlain(pendingIn)
      /\ ~truncated => Taking(raw, Len(rows), Len(content))
  BY <1>1, GroupingFacts
<1>3. ~OverBudget' \/ raw' = <<>>
  BY <1>1 DEF OverBudget
<1>4. ids' \in BOOLEAN /\ options' \in [granularity : {"fine", "coarse"}, budget : Budgets]
  BY <1>1, <1>2 DEF TimelineTypeOK
<1>5. CASE ~truncated
  BY <1>1, <1>2, <1>3, <1>4, <1>5, GroupedAnew DEF Phases
<1>6. CASE truncated
  <2>1. /\ Ascending(raw) /\ Apart(raw) /\ InOrder(raw)
        /\ \A q, r \in 1 .. Len(rows) : HasEvent(raw, q) /\ q <= r => HasEvent(raw, r)
    BY <1>1, <1>2, <1>6 DEF TimelineInv, TimelineSound
  <2> QED BY <1>1, <1>2, <1>3, <1>6, <2>1, TruncatedHolds DEF Phases
<1> QED BY <1>5, <1>6

LEMMA ListNoIdsKeeps == TimelineInv /\ ListNoIds => TimelineInv'
<1> SUFFICES ASSUME TimelineInv, ListNoIds PROVE TimelineInv'
  OBVIOUS
<1>1. /\ phase = "fit" /\ phase' = "bare" /\ ids' = FALSE
      /\ UNCHANGED <<inputs, base, truncated>> /\ options' = options /\ pendingIn' = pendingIn /\ raw' = raw
  BY DEF ListNoIds
<1>2. /\ TimelineTypeOK /\ InputsSorted /\ AllPlain(base) /\ CountedRightly(base)
      /\ Taking(base, Len(rows), Len(content)) /\ ~truncated
      /\ raw \in Seq(Sessions) /\ pendingIn \in Seq(Sessions) /\ pendingIn = <<>>
      /\ AllPlain(raw) /\ AllBegun(raw) /\ AllPlain(pendingIn)
      /\ Taking(raw, Len(rows), Len(content))
  BY <1>1, GroupingFacts
<1>3. ids' \in BOOLEAN /\ options' \in [granularity : {"fine", "coarse"}, budget : Budgets]
  BY <1>1, <1>2 DEF TimelineTypeOK
<1> QED BY <1>1, <1>2, <1>3, GroupedAnew DEF Phases

LEMMA MergeNeighboursKeeps == TimelineInv /\ MergeNeighbours => TimelineInv'
<1> SUFFICES ASSUME TimelineInv, MergeNeighbours PROVE TimelineInv'
  OBVIOUS
<1>1. /\ phase = "bare" /\ phase' = "merge" /\ raw' = <<>> /\ pendingIn' = raw
      /\ UNCHANGED <<inputs, base, truncated>> /\ options' = options /\ ids' = ids
  BY DEF MergeNeighbours
<1>2. /\ TimelineTypeOK /\ InputsSorted /\ AllPlain(base) /\ CountedRightly(base)
      /\ Taking(base, Len(rows), Len(content)) /\ ~truncated
      /\ raw \in Seq(Sessions) /\ AllPlain(raw)
      /\ Taking(raw, Len(rows), Len(content))
  BY <1>1, GroupingFacts
<1>3. ids' \in BOOLEAN /\ options' \in [granularity : {"fine", "coarse"}, budget : Budgets]
  BY <1>1, <1>2 DEF TimelineTypeOK
<1>4. raw' \o pendingIn' = raw /\ raw' \in Seq(Sessions) /\ AllBegun(raw')
  BY <1>1, <1>2 DEF AllBegun
<1> QED BY <1>1, <1>2, <1>3, <1>4, GroupedAnew DEF Phases

LEMMA MergeNextKeeps == TimelineInv /\ MergeNext => TimelineInv'
<1> SUFFICES ASSUME TimelineInv, MergeNext PROVE TimelineInv'
  OBVIOUS
<1>1. /\ phase = "merge" /\ UNCHANGED <<inputs, base, truncated>> /\ ids' = ids /\ options' = options
  BY DEF MergeNext
<1>2. /\ TimelineTypeOK /\ InputsSorted /\ AllPlain(base) /\ CountedRightly(base)
      /\ Taking(base, Len(rows), Len(content)) /\ ~truncated
      /\ raw \in Seq(Sessions) /\ pendingIn \in Seq(Sessions)
      /\ AllBegun(raw) /\ AllPlain(pendingIn)
      /\ Taking(raw \o pendingIn, Len(rows), Len(content))
  BY <1>1, GroupingFacts
<1>3. ids' \in BOOLEAN /\ options' \in [granularity : {"fine", "coarse"}, budget : Budgets]
  BY <1>1, <1>2 DEF TimelineTypeOK
<1>4. CASE pendingIn # <<>>
  <2>1. pendingIn' = Tail(pendingIn) /\ phase' = "merge"
    BY <1>1, <1>4 DEF MergeNext
  <2>2. pendingIn' \in Seq(Sessions) /\ AllPlain(pendingIn') /\ AllBegun(Append(raw, Head(pendingIn)))
    BY <1>2, <1>4, <2>1, MovedOver, OneMoved
  <2>3. CASE raw # <<>> /\ App(raw[Len(raw)]) = App(Head(pendingIn))
    <3>1. raw' = [raw EXCEPT ![Len(raw)] = MergedSessions(raw[Len(raw)], Head(pendingIn))]
      BY <1>4, <2>3 DEF MergeNext
    <3>2. raw' \in Seq(Sessions) /\ AllBegun(raw') /\ Taking(raw' \o pendingIn', Len(rows), Len(content))
      BY <1>2, <1>4, <2>1, <2>3, <3>1, MergedTakes
    <3> QED BY <1>1, <1>2, <1>3, <2>1, <2>2, <3>2, GroupedAnew DEF Phases
  <2>4. CASE ~(raw # <<>> /\ App(raw[Len(raw)]) = App(Head(pendingIn)))
    <3>1. raw' = Append(raw, Head(pendingIn))
      BY <1>4, <2>4 DEF MergeNext
    <3>2. /\ Append(raw, Head(pendingIn)) \in Seq(Sessions)
          /\ Append(raw, Head(pendingIn)) \o Tail(pendingIn) = raw \o pendingIn
      BY <1>2, <1>4, MovedOver
    <3> QED BY <1>1, <1>2, <1>3, <2>1, <2>2, <3>1, <3>2, GroupedAnew DEF Phases
  <2> QED BY <2>3, <2>4
<1>5. CASE pendingIn = <<>>
  <2>1. raw' = raw /\ pendingIn' = <<>> /\ phase' = "drop" /\ raw \o pendingIn = raw
    BY <1>1, <1>2, <1>5 DEF MergeNext
  <2> QED BY <1>1, <1>2, <1>3, <2>1, GroupedAnew DEF Phases
<1> QED BY <1>4, <1>5

LEMMA DropOldestKeeps == TimelineInv /\ DropOldest => TimelineInv'
<1> SUFFICES ASSUME TimelineInv, DropOldest PROVE TimelineInv'
  OBVIOUS
<1>1. /\ phase = "drop" /\ phase' = "drop" /\ raw # <<>> /\ raw' = Tail(raw) /\ truncated' = TRUE
      /\ UNCHANGED inputs /\ options' = options /\ base' = base /\ pendingIn' = pendingIn /\ ids' = ids
  BY DEF DropOldest
<1>2. /\ TimelineTypeOK /\ InputsSorted /\ AllPlain(base) /\ CountedRightly(base)
      /\ Taking(base, Len(rows), Len(content))
      /\ base \in Seq(Sessions) /\ raw \in Seq(Sessions) /\ AllBegun(raw) /\ pendingIn = <<>>
      /\ ~truncated => Taking(raw, Len(rows), Len(content))
  BY <1>1, GroupingFacts
<1>3. /\ Ascending(raw) /\ Apart(raw) /\ InOrder(raw)
      /\ \A q, r \in 1 .. Len(rows) : HasEvent(raw, q) /\ q <= r => HasEvent(raw, r)
  <2>1. CASE ~truncated
    <3>1. Taking(raw, Len(rows), Len(content))
      BY <1>2, <2>1
    <3>2. \A r \in 1 .. Len(rows) : r <= Len(rows)
      OBVIOUS
    <3> QED BY <3>1, <3>2 DEF Taking
  <2>2. CASE truncated
    BY <1>1, <2>2 DEF TimelineInv, TimelineSound
  <2> QED BY <2>1, <2>2
<1>4. raw' \in Seq(Sessions) /\ AllBegun(raw') /\ Ascending(raw') /\ Apart(raw') /\ InOrder(raw')
  BY <1>1, <1>2, <1>3, TailKeeps
<1>5. ASSUME NEW q \in 1 .. Len(rows), NEW r \in 1 .. Len(rows), HasEvent(raw', q), q <= r
      PROVE  HasEvent(raw', r)
  <2>1. HasEvent(raw, q)
    BY <1>1, <1>2, <1>5, TailKeeps
  <2>2. HasEvent(raw, r)
    BY <1>3, <1>5, <2>1
  <2> QED BY <1>1, <1>2, <1>3, <1>5, <2>2, TailKeeps
<1> QED BY <1>1, <1>2, <1>4, <1>5, TruncatedHolds DEF Phases

LEMMA TimelineInvStep == TimelineInv /\ [TimelineNext]_timelineVars => TimelineInv'
<1> SUFFICES ASSUME TimelineInv, [TimelineNext]_timelineVars PROVE TimelineInv'
  OBVIOUS
<1>1. CASE Split
  BY <1>1, SplitKeeps
<1>2. CASE BeginAssign
  BY <1>2, BeginAssignKeeps
<1>3. CASE AssignSnapshot
  BY <1>3, AssignSnapshotKeeps
<1>4. CASE Assemble
  BY <1>4, AssembleKeeps
<1>5. CASE AbsorbBounce
  BY <1>5, AbsorbBounceKeeps
<1>6. CASE AbsorbNext
  BY <1>6, AbsorbNextKeeps
<1>7. CASE Fits
  BY <1>7, FitsKeeps
<1>8. CASE Coarsen
  BY <1>8, CoarsenKeeps
<1>9. CASE ListNoIds
  BY <1>9, ListNoIdsKeeps
<1>10. CASE MergeNeighbours
  BY <1>10, MergeNeighboursKeeps
<1>11. CASE MergeNext
  BY <1>11, MergeNextKeeps
<1>12. CASE DropOldest
  BY <1>12, DropOldestKeeps
<1>13. CASE UNCHANGED timelineVars
  <2>1. UNCHANGED <<inputs, options, phase, base, pendingIn, raw, ids, truncated>>
    BY <1>13 DEF timelineVars, inputs
  <2>2. /\ UNCHANGED inputs /\ rows' = rows /\ content' = content /\ Sessions' = Sessions
        /\ Len(rows') = Len(rows) /\ Len(content') = Len(content) /\ (InputsSorted' <=> InputsSorted)
    BY <2>1, InputsCarry
  <2>3. TimelineTypeOK' /\ InputsSorted' /\ AllPlain(base)'
    BY <2>1, <2>2 DEF TimelineInv, TimelineTypeOK
  <2>4. TimelineSound'
    <3>1. OverBudget' <=> OverBudget
      BY <2>1 DEF OverBudget
    <3>2. TimelineSound
      BY DEF TimelineInv
    <3> QED BY <2>1, <2>2, <3>1, <3>2, InputsCarry DEF TimelineSound
  <2>5. (Splitting' <=> Splitting) /\ (Assigning' <=> Assigning) /\ (Grouping' <=> Grouping)
    BY <2>1, <2>2 DEF Splitting, Assigning, Grouping
  <2> QED BY <2>1, <2>3, <2>4, <2>5 DEF TimelineInv
<1> QED
  BY <1>1, <1>2, <1>3, <1>4, <1>5, <1>6, <1>7, <1>8, <1>9, <1>10, <1>11, <1>12, <1>13 DEF TimelineNext

THEOREM TimelineInvariant == TimelineSpec => []TimelineInv
<1>1. TimelineInit => TimelineInv
  BY TimelineInvInit
<1>2. TimelineInv /\ [TimelineNext]_timelineVars => TimelineInv'
  BY TimelineInvStep
<1> QED BY <1>1, <1>2, PTL DEF TimelineSpec

\* The sessions of a timeline list every event of the range once and in order, until the
\* oldest are dropped, and count every snapshot once and rightly; the budget is kept.
THEOREM SessionsAlwaysExact == StoreSpec => []SessionsExact
<1> DEFINE Inv == part = "timeline" => TimelineInv
<1>1. StoreInit => Inv
  <2> SUFFICES ASSUME StoreInit, part = "timeline" PROVE TimelineInv
    OBVIOUS
  <2>1. TimelineInit
    BY DEF StoreInit
  <2> QED BY <2>1, TimelineInvInit
<1>2. Inv /\ [StoreNext]_storeMCVars => Inv'
  <2> SUFFICES ASSUME Inv, [StoreNext]_storeMCVars, part' = "timeline" PROVE TimelineInv'
    OBVIOUS
  <2>1. part = "timeline" /\ [TimelineNext]_timelineVars
    BY DEF StoreNext, storeMCVars
  <2> QED BY <2>1, TimelineInvStep
<1>3. Inv => SessionsExact
  BY DEF TimelineInv, SessionsExact
<1> QED BY <1>1, <1>2, <1>3, PTL DEF StoreSpec
=============================================================================
