--------------------------- MODULE OwnershipProofs ---------------------------
(***************************************************************************)
(* Proofs about Ownership for any recorders, commands and limits: types,   *)
(* whose name the owner record holds, plists without a service, and what a *)
(* stop and a start may say; and the same of the run of LivenessMC.        *)
(***************************************************************************)
EXTENDS LivenessMC, TLAPS

Returns == {"idle", "found", "confirm", "exit", "fresh", "ready"}
ProbePlaces == {"try", "held", "read"}
Stages == {"unborn", "launched", "claimed", "truncated", "opening", "recording", "closing", "gone"}
Results == {"-", "locked", "invalid_metadata", "no_daemon", "instance_changed", "not_registered",
            "command_failed", "store_locked", "stop_timeout", "stopped", "still_loaded",
            "store_owned", "file_error", "start_in_progress", "did_not_start", "started"}
Numbers == 0 .. MaxInstances
Places == [at : ClientPlaces, then : Returns \cup {"-"}, tries : Nat, answer : Numbers,
           target : Numbers, beat : Numbers, seen : Numbers, polls : Nat, result : Results]
Recorders == [stage : Stages, mode : Modes, term : BOOLEAN]

OwnTypes ==
  /\ ownLock \in {Free} \cup Instances \cup Clients
  /\ ownRecord \in {NoFile, 0} \cup Instances
  /\ recorder \in [Instances -> Recorders]
  /\ ownBeat \in Numbers
  /\ agent \in {"absent", "registered", "leaving"} /\ plist \in BOOLEAN
  /\ startLock \in {Free} \cup Clients
  /\ client \in [Clients -> Places]

\* A recorder that has written its record never was another one's successor since: it
\* holds the store, or it is gone for good.
Named(i, r) == r[i].stage \in {"opening", "recording", "closing", "gone"}
Gone(i, r)  == r[i].stage = "gone"

\* The place a command is at, or is to be at when its probe is answered.
Heading(o) == IF o.at \in ProbePlaces THEN o.then ELSE o.at

\* What the place o of the command c says of the lock, the start lock and the recorders:
\* a command that waits for the end of a recorder knows one that had written its name, and
\* an answer that is not that name means that it is gone.
Sound(o, c, lock, start, r) ==
  /\ o.at \in ProbePlaces => o.then \in Returns
  /\ o.at = "held" => lock = c
  /\ o.answer # 0 => Named(o.answer, r)
  /\ o.target # 0 => Named(o.target, r)
  /\ Heading(o) \in {"confirm", "signal", "exit"} => o.target # 0
  /\ o.at = "exit" /\ o.answer # o.target => Gone(o.target, r)
  /\ o.at \in {"bootout", "unlink"} => o.target # 0 \/ start = c
  /\ o.at = "removal" /\ start # c => o.target # 0 /\ Gone(o.target, r)
  /\ Heading(o) \in {"prepare", "install", "bootstrap", "wait", "ready"} => start = c

NameKept == ownRecord \in Instances => Named(ownRecord, recorder)
\* A plist without a service is about to go, or its service about to come.
PlistFollowed == plist /\ agent # "registered" => \E c \in Clients : At(c, "unlink") \/ At(c, "bootstrap")

\* The inductive invariant.
OwnershipInv ==
  /\ OwnTypes /\ RecordNamesHolder /\ NameKept /\ PlistFollowed
  /\ \A c \in Clients : Sound(client[c], c, ownLock, startLock, recorder)

-----------------------------------------------------------------------------
(* Recorders.                                                              *)

\* What no step takes back.
Later(r, s) == \A i \in Instances : (Named(i, r) => Named(i, s)) /\ (Gone(i, r) => Gone(i, s))

LEMMA Names ==
  /\ Free \notin Clients /\ Free \notin Instances
  /\ \A c \in Clients : c \notin Instances
  /\ NoFile \notin Instances /\ NoFile # 0 /\ 0 \notin Instances
  /\ Instances \subseteq Numbers /\ 0 \in Numbers
  /\ \A n \in Numbers : n # 0 => n \in Instances
BY OwnershipAssumption DEF OwnershipAssumption, Instances, Numbers

LEMMA SoundStays ==
  ASSUME NEW o \in Places, NEW c \in Clients, NEW lock, NEW lock2, NEW start, NEW start2,
         NEW r, NEW s, Sound(o, c, lock, start, r), Later(r, s),
         lock = c => lock2 = c, start = c <=> start2 = c
  PROVE  Sound(o, c, lock2, start2, s)
<1>1. /\ o.answer # 0 => o.answer \in Instances
      /\ o.target # 0 => o.target \in Instances
  BY Names DEF Places
<1>2. /\ o.answer # 0 => Named(o.answer, s)
      /\ o.target # 0 => Named(o.target, s)
      /\ o.target # 0 /\ Gone(o.target, r) => Gone(o.target, s)
  BY <1>1 DEF Sound, Later
<1>3. o.at = "exit" => o.target # 0
  BY DEF Sound, Heading, ProbePlaces
<1> QED BY <1>2, <1>3 DEF Sound

\* Only recorders move.
LEMMA RecordersKeep ==
  ASSUME OwnershipInv, OwnTypes', RecordNamesHolder', NameKept', Later(recorder, recorder'),
         \A c \in Clients : ownLock = c => ownLock' = c,
         UNCHANGED <<startLock, client, plist>>, agent = "registered" => agent' = "registered"
  PROVE  OwnershipInv'
<1>1. \A c \in Clients : Sound(client[c], c, ownLock', startLock, recorder')
  <2> SUFFICES ASSUME NEW c \in Clients
               PROVE  Sound(client[c], c, ownLock', startLock, recorder')
    OBVIOUS
  <2>1. client[c] \in Places /\ Sound(client[c], c, ownLock, startLock, recorder)
    BY DEF OwnershipInv, OwnTypes
  <2> QED BY <2>1, SoundStays
<1>2. PlistFollowed'
  BY DEF OwnershipInv, PlistFollowed, At, OwnTypes
<1> QED BY <1>1, <1>2 DEF OwnershipInv

\* A recorder's stage changes, and with it perhaps the lock and the record.
LEMMA OneRecorder ==
  ASSUME OwnershipInv, NEW i \in Instances, NEW q \in Recorders,
         recorder' = [recorder EXCEPT ![i] = q],
         ownLock' \in {Free} \cup Instances \cup Clients, ownRecord' \in {NoFile, 0} \cup Instances,
         ownBeat' \in Numbers, UNCHANGED <<agent, plist, startLock, client>>,
         recorder[i].stage \in {"opening", "recording", "closing"} => Named(i, recorder'),
         recorder[i].stage # "gone",
         \A c \in Clients : ownLock = c => ownLock' = c,
         RecordNamesHolder', NameKept'
  PROVE  OwnershipInv'
<1>1. recorder \in [Instances -> Recorders] /\ recorder' \in [Instances -> Recorders]
      /\ recorder'[i] = q /\ \A j \in Instances : j # i => recorder'[j] = recorder[j]
  BY DEF OwnershipInv, OwnTypes
<1>2. OwnTypes'
  BY <1>1 DEF OwnershipInv, OwnTypes
<1>3. Later(recorder, recorder')
  BY <1>1 DEF Later, Named, Gone
<1> QED BY <1>2, <1>3, RecordersKeep

\* What the invariant says of one recorder.
LEMMA RecorderIs ==
  ASSUME OwnershipInv, NEW i \in Instances
  PROVE  /\ recorder[i] \in Recorders /\ recorder \in [Instances -> Recorders]
         /\ HoldsStore(i) <=> ownLock = i
         /\ recorder[i].stage \in {"opening", "recording", "closing"} => ownRecord = i
         /\ ownLock \in {Free} \cup Instances \cup Clients
         /\ ownRecord \in {NoFile, 0} \cup Instances /\ ownBeat \in Numbers
BY DEF OwnershipInv, OwnTypes, RecordNamesHolder

LEMMA LaunchKeeps ==
  ASSUME OwnershipInv, NEW i \in Instances, NEW mode \in Modes, Launch(i, mode)
  PROVE  OwnershipInv'
<1> DEFINE q == [stage |-> "launched", mode |-> mode, term |-> FALSE]
<1>1. q \in Recorders /\ recorder' = [recorder EXCEPT ![i] = q] /\ recorder[i].stage = "unborn"
  BY DEF Launch, Recorders, Stages
<1>2. recorder'[i].stage = "launched" /\ \A j \in Instances : j # i => recorder'[j] = recorder[j]
  BY <1>1, RecorderIs
<1>3. RecordNamesHolder'
  BY <1>1, <1>2, RecorderIs DEF RecordNamesHolder, HoldsStore, Launch
<1>4. NameKept'
  BY <1>1, <1>2 DEF OwnershipInv, NameKept, Named, Launch
<1> QED BY <1>1, <1>3, <1>4, RecorderIs, OneRecorder DEF Launch

LEMMA RecorderStageKeeps ==
  ASSUME OwnershipInv, NEW i \in Instances,
         \/ Claim(i) \/ TruncateOwner(i) \/ WriteOwner(i) \/ FirstHeartbeat(i)
         \/ ClearHeartbeat(i) \/ Release(i) \/ Dies(i)
  PROVE  OwnershipInv'
<1> USE DEF StageTo
<1>1. PICK x \in Stages : recorder' = [recorder EXCEPT ![i].stage = x]
  BY DEF Claim, TruncateOwner, WriteOwner, FirstHeartbeat, ClearHeartbeat, Release, Dies, Stages
<1> DEFINE q == [recorder[i] EXCEPT !.stage = x]
<1>2. q \in Recorders /\ recorder' = [recorder EXCEPT ![i] = q] /\ q.stage = x
  BY <1>1, RecorderIs DEF Recorders
<1> HIDE DEF q
<1>3. recorder'[i].stage = x /\ \A j \in Instances : j # i => recorder'[j] = recorder[j]
  BY <1>2, RecorderIs
<1>4. \A j \in Instances : /\ HoldsStore(j) <=> ownLock = j
                           /\ recorder[j].stage \in {"opening", "recording", "closing"} => ownRecord = j
  BY RecorderIs
<1>5. ownLock' \in {Free} \cup Instances \cup Clients /\ ownRecord' \in {NoFile, 0} \cup Instances
      /\ ownBeat' \in Numbers /\ UNCHANGED <<agent, plist, startLock, client>>
  BY RecorderIs, Names
     DEF Claim, TruncateOwner, WriteOwner, FirstHeartbeat, ClearHeartbeat, Release, Dies
<1>6. /\ recorder[i].stage # "gone"
      /\ recorder[i].stage \in {"opening", "recording", "closing"} => Named(i, recorder')
      /\ \A c \in Clients : ownLock = c => ownLock' = c
      /\ RecordNamesHolder' /\ NameKept'
  <2>0. NameKept
    BY DEF OwnershipInv
  <2>1. CASE Claim(i)
    <3>1. recorder'[i].stage = "claimed" /\ recorder[i].stage = "launched"
      BY <2>1, RecorderIs DEF Claim, Recorders
    <3> QED BY <2>0, <2>1, <3>1, <1>3, <1>4, Names DEF Claim, RecordNamesHolder, HoldsStore, NameKept, Named
  <2>2. CASE TruncateOwner(i)
    <3>1. recorder'[i].stage = "truncated" /\ recorder[i].stage = "claimed"
      BY <2>2, RecorderIs DEF TruncateOwner, Recorders
    <3>2. ownLock = i /\ ownLock' = i /\ ownRecord' = 0
      BY <2>2, <3>1, <1>4 DEF TruncateOwner, HoldsStore
    <3> QED BY <3>1, <3>2, <1>3, <1>4, Names DEF RecordNamesHolder, HoldsStore, NameKept, Named
  <2>3. CASE WriteOwner(i)
    <3>1. recorder'[i].stage = "opening" /\ recorder[i].stage = "truncated"
      BY <2>3, RecorderIs DEF WriteOwner, Recorders
    <3>2. ownLock = i /\ ownLock' = i /\ ownRecord' = i
      BY <2>3, <3>1, <1>4 DEF WriteOwner, HoldsStore
    <3> QED BY <3>1, <3>2, <1>3, <1>4, Names DEF RecordNamesHolder, HoldsStore, NameKept, Named
  <2>4. CASE FirstHeartbeat(i) \/ ClearHeartbeat(i)
    <3>1. recorder'[i].stage \in {"recording", "closing"} /\ recorder[i].stage \in {"opening", "recording"}
      BY <2>4, RecorderIs DEF FirstHeartbeat, ClearHeartbeat, Recorders
    <3>2. ownLock' = ownLock /\ ownRecord' = ownRecord
      BY <2>4 DEF FirstHeartbeat, ClearHeartbeat
    <3> QED BY <2>0, <3>1, <3>2, <1>3, <1>4 DEF RecordNamesHolder, HoldsStore, NameKept, Named
  <2>5. CASE Release(i) \/ Dies(i)
    <3>1. recorder'[i].stage = "gone" /\ HoldsStore(i) /\ ownLock' = Free /\ ownRecord' = ownRecord
      BY <2>5, RecorderIs DEF Release, Dies, HoldsStore, Recorders
    <3>2. ownLock = i
      BY <3>1, <1>4
    <3> QED BY <2>0, <3>1, <3>2, <1>3, <1>4, Names DEF RecordNamesHolder, HoldsStore, NameKept, Named
  <2> QED BY <2>1, <2>2, <2>3, <2>4, <2>5
<1> QED BY <1>2, <1>5, <1>6, OneRecorder

LEMMA UnbornKeeps ==
  ASSUME OwnershipInv, NEW i \in Instances, Refused(i) \/ DiesUnhandled(i)
  PROVE  OwnershipInv'
<1>1. /\ Unborn \in Recorders /\ recorder' = [recorder EXCEPT ![i] = Unborn]
      /\ recorder[i].stage = "launched"
      /\ UNCHANGED <<ownLock, ownRecord, ownBeat, agent, plist, startLock, client>>
  BY DEF Refused, DiesUnhandled, Recorders, Stages, Modes, Unborn
<1>2. recorder'[i].stage = "unborn" /\ \A j \in Instances : j # i => recorder'[j] = recorder[j]
  BY <1>1, RecorderIs DEF Unborn
<1>3. RecordNamesHolder'
  BY <1>1, <1>2, RecorderIs DEF RecordNamesHolder, HoldsStore
<1>4. NameKept'
  BY <1>1, <1>2 DEF OwnershipInv, NameKept, Named
<1> QED BY <1>1, <1>3, <1>4, RecorderIs, OneRecorder

LEMMA LaunchdKeeps ==
  ASSUME OwnershipInv, AgentSpawns \/ AgentRemoved \/ ForegroundStart \/ BeatGoesStale
  PROVE  OwnershipInv'
<1>1. CASE AgentSpawns \/ ForegroundStart
  BY <1>1, LaunchKeeps DEF AgentSpawns, ForegroundStart, Modes
<1>2. CASE AgentRemoved \/ BeatGoesStale
  <2>1. UNCHANGED <<ownLock, ownRecord, recorder, plist, startLock, client>>
        /\ ownBeat' \in Numbers /\ agent' \in {"absent", "registered", "leaving"}
        /\ (agent = "registered" => agent' = "registered")
    BY <1>2, Names DEF AgentRemoved, BeatGoesStale, OwnershipInv, OwnTypes
  <2>2. OwnTypes'
    BY <2>1 DEF OwnershipInv, OwnTypes
  <2>3. RecordNamesHolder' /\ NameKept' /\ Later(recorder, recorder')
    BY <2>1 DEF OwnershipInv, RecordNamesHolder, HoldsStore, NameKept, Later
  <2> QED BY <2>1, <2>2, <2>3, RecordersKeep
<1> QED BY <1>1, <1>2

-----------------------------------------------------------------------------
(* Where a command goes.                                                   *)

Place(at, then, tries, answer, target, beat, sight, polls, result) ==
  [at |-> at, then |-> then, tries |-> tries, answer |-> answer, target |-> target,
   beat |-> beat, seen |-> sight, polls |-> polls, result |-> result]
Moves(c, q) == client' = [client EXCEPT ![c] = q]

LEMMA GoesTo ==
  ASSUME OwnTypes, NEW c \in Clients, NEW x \in ClientPlaces,
         Goto(c, [at |-> x])
  PROVE  \E q \in Places :
           /\ Moves(c, q)
           /\ q.at = x /\ q.then = client[c].then /\ q.answer = client[c].answer /\ q.target = client[c].target /\ q.result = client[c].result
<1> DEFINE o == client[c]
           q == Place(x, o.then, o.tries, o.answer, o.target, o.beat, o.seen, o.polls, o.result)
<1>1. o \in Places
  BY DEF OwnTypes
<1> HIDE DEF o
<1>2. [f \in DOMAIN o |-> IF f \in DOMAIN [at |-> x]
                         THEN [at |-> x][f] ELSE o[f]] = q
  BY <1>1 DEF Places, Place
<1>3. q \in Places
  BY <1>1 DEF Places, Place
<1>4. q.at = x /\ q.then = o.then /\ q.answer = o.answer /\ q.target = o.target /\ q.result = o.result
  BY DEF Place
<1> HIDE DEF q
<1>5. Moves(c, q)
  BY <1>2 DEF Goto, Moves, o
<1> QED BY <1>3, <1>4, <1>5 DEF o

LEMMA GoesAnswered ==
  ASSUME OwnTypes, NEW c \in Clients, NEW x \in ClientPlaces, NEW a \in Numbers,
         Goto(c, [at |-> x, answer |-> a])
  PROVE  \E q \in Places :
           /\ Moves(c, q)
           /\ q.at = x /\ q.then = client[c].then /\ q.answer = a /\ q.target = client[c].target /\ q.result = client[c].result
<1> DEFINE o == client[c]
           q == Place(x, o.then, o.tries, a, o.target, o.beat, o.seen, o.polls, o.result)
<1>1. o \in Places
  BY DEF OwnTypes
<1> HIDE DEF o
<1>2. [f \in DOMAIN o |-> IF f \in DOMAIN [at |-> x, answer |-> a]
                         THEN [at |-> x, answer |-> a][f] ELSE o[f]] = q
  BY <1>1 DEF Places, Place
<1>3. q \in Places
  BY <1>1 DEF Places, Place
<1>4. q.at = x /\ q.then = o.then /\ q.answer = a /\ q.target = o.target /\ q.result = o.result
  BY DEF Place
<1> HIDE DEF q
<1>5. Moves(c, q)
  BY <1>2 DEF Goto, Moves, o
<1> QED BY <1>3, <1>4, <1>5 DEF o

LEMMA GoesTrying ==
  ASSUME OwnTypes, NEW c \in Clients, NEW k \in Nat,
         Goto(c, [tries |-> k])
  PROVE  \E q \in Places :
           /\ Moves(c, q)
           /\ q.at = client[c].at /\ q.then = client[c].then /\ q.answer = client[c].answer /\ q.target = client[c].target /\ q.result = client[c].result
<1> DEFINE o == client[c]
           q == Place(o.at, o.then, k, o.answer, o.target, o.beat, o.seen, o.polls, o.result)
<1>1. o \in Places
  BY DEF OwnTypes
<1> HIDE DEF o
<1>2. [f \in DOMAIN o |-> IF f \in DOMAIN [tries |-> k]
                         THEN [tries |-> k][f] ELSE o[f]] = q
  BY <1>1 DEF Places, Place
<1>3. q \in Places
  BY <1>1 DEF Places, Place
<1>4. q.at = o.at /\ q.then = o.then /\ q.answer = o.answer /\ q.target = o.target /\ q.result = o.result
  BY DEF Place
<1> HIDE DEF q
<1>5. Moves(c, q)
  BY <1>2 DEF Goto, Moves, o
<1> QED BY <1>3, <1>4, <1>5 DEF o

LEMMA GoesProbing ==
  ASSUME OwnTypes, NEW c \in Clients, NEW x \in ClientPlaces, NEW t \in Returns, NEW k \in Nat,
         Goto(c, [at |-> x, then |-> t, tries |-> k])
  PROVE  \E q \in Places :
           /\ Moves(c, q)
           /\ q.at = x /\ q.then = t /\ q.answer = client[c].answer /\ q.target = client[c].target /\ q.result = client[c].result
<1> DEFINE o == client[c]
           q == Place(x, t, k, o.answer, o.target, o.beat, o.seen, o.polls, o.result)
<1>1. o \in Places
  BY DEF OwnTypes
<1> HIDE DEF o
<1>2. [f \in DOMAIN o |-> IF f \in DOMAIN [at |-> x, then |-> t, tries |-> k]
                         THEN [at |-> x, then |-> t, tries |-> k][f] ELSE o[f]] = q
  BY <1>1 DEF Places, Place
<1>3. q \in Places
  BY <1>1 DEF Places, Place
<1>4. q.at = x /\ q.then = t /\ q.answer = o.answer /\ q.target = o.target /\ q.result = o.result
  BY DEF Place
<1> HIDE DEF q
<1>5. Moves(c, q)
  BY <1>2 DEF Goto, Moves, o
<1> QED BY <1>3, <1>4, <1>5 DEF o

LEMMA GoesAfter ==
  ASSUME OwnTypes, NEW c \in Clients, NEW x \in ClientPlaces, NEW t \in Returns, NEW k \in Nat, NEW i \in Numbers,
         Goto(c, [at |-> x, then |-> t, tries |-> k, target |-> i])
  PROVE  \E q \in Places :
           /\ Moves(c, q)
           /\ q.at = x /\ q.then = t /\ q.answer = client[c].answer /\ q.target = i /\ q.result = client[c].result
<1> DEFINE o == client[c]
           q == Place(x, t, k, o.answer, i, o.beat, o.seen, o.polls, o.result)
<1>1. o \in Places
  BY DEF OwnTypes
<1> HIDE DEF o
<1>2. [f \in DOMAIN o |-> IF f \in DOMAIN [at |-> x, then |-> t, tries |-> k, target |-> i]
                         THEN [at |-> x, then |-> t, tries |-> k, target |-> i][f] ELSE o[f]] = q
  BY <1>1 DEF Places, Place
<1>3. q \in Places
  BY <1>1 DEF Places, Place
<1>4. q.at = x /\ q.then = t /\ q.answer = o.answer /\ q.target = i /\ q.result = o.result
  BY DEF Place
<1> HIDE DEF q
<1>5. Moves(c, q)
  BY <1>2 DEF Goto, Moves, o
<1> QED BY <1>3, <1>4, <1>5 DEF o

LEMMA GoesAgain ==
  ASSUME OwnTypes, NEW c \in Clients, NEW x \in ClientPlaces, NEW t \in Returns, NEW k \in Nat, NEW n \in Nat,
         Goto(c, [at |-> x, then |-> t, tries |-> k, polls |-> n])
  PROVE  \E q \in Places :
           /\ Moves(c, q)
           /\ q.at = x /\ q.then = t /\ q.answer = client[c].answer /\ q.target = client[c].target /\ q.result = client[c].result
<1> DEFINE o == client[c]
           q == Place(x, t, k, o.answer, o.target, o.beat, o.seen, n, o.result)
<1>1. o \in Places
  BY DEF OwnTypes
<1> HIDE DEF o
<1>2. [f \in DOMAIN o |-> IF f \in DOMAIN [at |-> x, then |-> t, tries |-> k, polls |-> n]
                         THEN [at |-> x, then |-> t, tries |-> k, polls |-> n][f] ELSE o[f]] = q
  BY <1>1 DEF Places, Place
<1>3. q \in Places
  BY <1>1 DEF Places, Place
<1>4. q.at = x /\ q.then = t /\ q.answer = o.answer /\ q.target = o.target /\ q.result = o.result
  BY DEF Place
<1> HIDE DEF q
<1>5. Moves(c, q)
  BY <1>2 DEF Goto, Moves, o
<1> QED BY <1>3, <1>4, <1>5 DEF o

LEMMA GoesReading ==
  ASSUME OwnTypes, NEW c \in Clients, NEW x \in ClientPlaces, NEW t \in Returns, NEW k \in Nat, NEW b \in Numbers,
         Goto(c, [at |-> x, then |-> t, tries |-> k, beat |-> b])
  PROVE  \E q \in Places :
           /\ Moves(c, q)
           /\ q.at = x /\ q.then = t /\ q.answer = client[c].answer /\ q.target = client[c].target /\ q.result = client[c].result
<1> DEFINE o == client[c]
           q == Place(x, t, k, o.answer, o.target, b, o.seen, o.polls, o.result)
<1>1. o \in Places
  BY DEF OwnTypes
<1> HIDE DEF o
<1>2. [f \in DOMAIN o |-> IF f \in DOMAIN [at |-> x, then |-> t, tries |-> k, beat |-> b]
                         THEN [at |-> x, then |-> t, tries |-> k, beat |-> b][f] ELSE o[f]] = q
  BY <1>1 DEF Places, Place
<1>3. q \in Places
  BY <1>1 DEF Places, Place
<1>4. q.at = x /\ q.then = t /\ q.answer = o.answer /\ q.target = o.target /\ q.result = o.result
  BY DEF Place
<1> HIDE DEF q
<1>5. Moves(c, q)
  BY <1>2 DEF Goto, Moves, o
<1> QED BY <1>3, <1>4, <1>5 DEF o

LEMMA GoesWaiting ==
  ASSUME OwnTypes, NEW c \in Clients, NEW x \in ClientPlaces, NEW n \in Nat, NEW s \in Numbers,
         Goto(c, [at |-> x, polls |-> n, seen |-> s])
  PROVE  \E q \in Places :
           /\ Moves(c, q)
           /\ q.at = x /\ q.then = client[c].then /\ q.answer = client[c].answer /\ q.target = client[c].target /\ q.result = client[c].result
<1> DEFINE o == client[c]
           q == Place(x, o.then, o.tries, o.answer, o.target, o.beat, s, n, o.result)
<1>1. o \in Places
  BY DEF OwnTypes
<1> HIDE DEF o
<1>2. [f \in DOMAIN o |-> IF f \in DOMAIN [at |-> x, polls |-> n, seen |-> s]
                         THEN [at |-> x, polls |-> n, seen |-> s][f] ELSE o[f]] = q
  BY <1>1 DEF Places, Place
<1>3. q \in Places
  BY <1>1 DEF Places, Place
<1>4. q.at = x /\ q.then = o.then /\ q.answer = o.answer /\ q.target = o.target /\ q.result = o.result
  BY DEF Place
<1> HIDE DEF q
<1>5. Moves(c, q)
  BY <1>2 DEF Goto, Moves, o
<1> QED BY <1>3, <1>4, <1>5 DEF o

LEMMA GoesLocked ==
  ASSUME OwnTypes, NEW c \in Clients, NEW x \in ClientPlaces, NEW v \in Results,
         Goto(c, [at |-> x, result |-> v])
  PROVE  \E q \in Places :
           /\ Moves(c, q)
           /\ q.at = x /\ q.then = client[c].then /\ q.answer = client[c].answer /\ q.target = client[c].target /\ q.result = v
<1> DEFINE o == client[c]
           q == Place(x, o.then, o.tries, o.answer, o.target, o.beat, o.seen, o.polls, v)
<1>1. o \in Places
  BY DEF OwnTypes
<1> HIDE DEF o
<1>2. [f \in DOMAIN o |-> IF f \in DOMAIN [at |-> x, result |-> v]
                         THEN [at |-> x, result |-> v][f] ELSE o[f]] = q
  BY <1>1 DEF Places, Place
<1>3. q \in Places
  BY <1>1 DEF Places, Place
<1>4. q.at = x /\ q.then = o.then /\ q.answer = o.answer /\ q.target = o.target /\ q.result = v
  BY DEF Place
<1> HIDE DEF q
<1>5. Moves(c, q)
  BY <1>2 DEF Goto, Moves, o
<1> QED BY <1>3, <1>4, <1>5 DEF o

LEMMA LeavesTo ==
  ASSUME OwnTypes, NEW c \in Clients, NEW v \in Results, NEW i \in Numbers, Leaves(c, v, i)
  PROVE  \E q \in Places :
           /\ Moves(c, q)
           /\ q.at = "idle" /\ q.then = "-" /\ q.answer = 0 /\ q.target = i /\ q.result = v
<1> DEFINE p == IdleClient
           q == [p EXCEPT !.result = v, !.target = i]
<1>1. p \in Places /\ p.at = "idle" /\ p.then = "-" /\ p.answer = 0
  BY Names DEF IdleClient, Places, ClientPlaces, Results
<1>2. Moves(c, q)
  BY DEF Leaves, Moves
<1> HIDE DEF p
<1>3. q \in Places
  BY <1>1 DEF Places
<1>4. q.at = p.at /\ q.then = p.then /\ q.answer = p.answer /\ q.target = i /\ q.result = v
  BY <1>1 DEF Places
<1> HIDE DEF q
<1> QED BY <1>1, <1>2, <1>3, <1>4

LEMMA BeginsAt ==
  ASSUME OwnTypes, NEW c \in Clients, NEW then \in Returns, Begin(c, then)
  PROVE  \E q \in Places :
           /\ Moves(c, q)
           /\ q.at = "try" /\ q.then = then /\ q.answer = 0 /\ q.target = 0 /\ q.result = "-"
<1> DEFINE p == IdleClient
           q == [p EXCEPT !.at = "try", !.then = then]
<1>1. p \in Places /\ p.answer = 0 /\ p.target = 0 /\ p.result = "-"
  BY Names DEF IdleClient, Places, ClientPlaces, Results
<1>2. Moves(c, q)
  BY DEF Begin, Moves
<1> HIDE DEF p
<1>3. q \in Places
  BY <1>1 DEF Places, ClientPlaces
<1>4. q.at = "try" /\ q.then = then /\ q.answer = p.answer /\ q.target = p.target /\ q.result = p.result
  BY <1>1 DEF Places
<1> HIDE DEF q
<1> QED BY <1>1, <1>2, <1>3, <1>4

-----------------------------------------------------------------------------
(* Commands.                                                               *)

\* A command takes or lets go of a lock, tells a recorder to end, changes what launchd has.
LEMMA CommandKeeps ==
  ASSUME OwnershipInv, NEW c \in Clients, NEW q \in Places, Moves(c, q),
         \/ ownLock' = ownLock
         \/ ownLock = Free /\ ownLock' = c
         \/ ownLock = c /\ ownLock' = Free,
         \/ startLock' = startLock
         \/ startLock = Free /\ startLock' = c
         \/ startLock = c /\ startLock' = Free,
         recorder' \in [Instances -> Recorders],
         \A i \in Instances : recorder'[i].stage = recorder[i].stage,
         UNCHANGED <<ownRecord, ownBeat>>,
         agent' \in {"absent", "registered", "leaving"}, plist' \in BOOLEAN,
         Sound(q, c, ownLock', startLock', recorder), PlistFollowed'
  PROVE  OwnershipInv'
<1>1. OwnTypes /\ client \in [Clients -> Places]
  BY DEF OwnershipInv, OwnTypes
<1>2. client' \in [Clients -> Places] /\ client'[c] = q
      /\ \A d \in Clients : d # c => client'[d] = client[d]
  BY <1>1 DEF Moves
<1>3. OwnTypes'
  BY <1>1, <1>2, Names DEF OwnTypes
<1>4. RecordNamesHolder'
  BY Names DEF OwnershipInv, RecordNamesHolder, HoldsStore
<1>5. NameKept'
  BY DEF OwnershipInv, NameKept, Named
<1>6. Later(recorder, recorder')
  BY DEF Later, Named, Gone
<1>7. ASSUME NEW d \in Clients
      PROVE  Sound(client'[d], d, ownLock', startLock', recorder')
  <2>1. CASE d = c
    BY <1>2, <1>6, <2>1, SoundStays
  <2>2. CASE d # c
    <3>1. client'[d] = client[d] /\ client[d] \in Places
          /\ Sound(client[d], d, ownLock, startLock, recorder)
      BY <1>1, <1>2, <2>2 DEF OwnershipInv
    <3>2. (ownLock = d => ownLock' = d) /\ (startLock = d <=> startLock' = d)
      BY <2>2, Names
    <3> QED BY <1>6, <3>1, <3>2, SoundStays
  <2> QED BY <2>1, <2>2
<1> QED BY <1>3, <1>4, <1>5, <1>7 DEF OwnershipInv

\* ... or only goes on.
LEMMA OnlyMoves ==
  ASSUME OwnershipInv, NEW c \in Clients, NEW q \in Places, Moves(c, q),
         \/ ownLock' = ownLock
         \/ ownLock = Free /\ ownLock' = c
         \/ ownLock = c /\ ownLock' = Free,
         \/ startLock' = startLock
         \/ startLock = Free /\ startLock' = c
         \/ startLock = c /\ startLock' = Free,
         UNCHANGED <<ownRecord, recorder, ownBeat, agent, plist>>,
         ~At(c, "unlink"), ~At(c, "bootstrap"),
         Sound(q, c, ownLock', startLock', recorder)
  PROVE  OwnershipInv'
<1>1. OwnTypes /\ client \in [Clients -> Places]
  BY DEF OwnershipInv, OwnTypes
<1>2. PlistFollowed'
  BY <1>1 DEF OwnershipInv, PlistFollowed, At, Moves
<1> QED BY <1>1, <1>2, CommandKeeps DEF OwnTypes

LEMMA LeaveSound ==
  ASSUME NEW q \in Places, NEW c, NEW lock, NEW start, NEW r, q.at = "idle", q.answer = 0,
         q.target # 0 => Named(q.target, r)
  PROVE  Sound(q, c, lock, start, r)
BY DEF Sound, Heading, ProbePlaces

LEMMA ClientIs ==
  ASSUME OwnershipInv, NEW c \in Clients
  PROVE  /\ OwnTypes /\ client[c] \in Places
         /\ Sound(client[c], c, ownLock, startLock, recorder)
         /\ client[c].answer \in Numbers /\ client[c].target \in Numbers
         /\ client[c].polls \in Nat /\ client[c].tries \in Nat
         /\ client[c].answer # 0 => Named(client[c].answer, recorder)
         /\ client[c].target # 0 => Named(client[c].target, recorder)
<1>1. OwnTypes /\ client[c] \in Places /\ Sound(client[c], c, ownLock, startLock, recorder)
  BY DEF OwnershipInv, OwnTypes
<1> QED BY <1>1 DEF Sound, Places

LEMMA EndKeeps ==
  ASSUME OwnershipInv, NEW c \in Clients, NEW v \in Results, NEW i \in Numbers, Leaves(c, v, i),
         i # 0 => Named(i, recorder), ~At(c, "unlink"), ~At(c, "bootstrap"),
         UNCHANGED <<ownLock, ownRecord, recorder, ownBeat, agent, plist>>
  PROVE  OwnershipInv'
<1>1. PICK q \in Places : Moves(c, q) /\ q.at = "idle" /\ q.answer = 0 /\ q.target = i
  BY ClientIs, LeavesTo
<1>2. Sound(q, c, ownLock', startLock', recorder)
  BY <1>1, LeaveSound
<1> QED BY <1>1, <1>2, OnlyMoves DEF Leaves

LEMMA ProbeKeeps ==
  ASSUME OwnershipInv, NEW c \in Clients,
         ProbeTry(c) \/ ProbeUnlock(c) \/ ProbeRead(c) \/ ProbeReadsNothing(c)
  PROVE  OwnershipInv'
<1> DEFINE o == client[c]
<1>1. /\ OwnTypes /\ o \in Places /\ Sound(o, c, ownLock, startLock, recorder)
      /\ o.at \in ProbePlaces /\ o.then \in Returns /\ o.then \in ClientPlaces
      /\ ~At(c, "unlink") /\ ~At(c, "bootstrap")
      /\ ownRecord \in {NoFile, 0} \cup Instances
      /\ NameKept /\ RecordNamesHolder
  BY ClientIs DEF ProbeTry, ProbeUnlock, ProbeRead, ProbeReadsNothing, At, ProbePlaces, Sound,
                  OwnershipInv, OwnTypes, Returns, ClientPlaces
<1>2. /\ o.answer # 0 => Named(o.answer, recorder)
      /\ o.target # 0 => Named(o.target, recorder)
      /\ o.then \in {"confirm", "exit"} => o.target # 0
      /\ o.then = "ready" => startLock = c
      /\ o.target \in Numbers
  BY <1>1 DEF Sound, Heading, Places
\* An answer that ends the probe.
<1>3. ASSUME NEW a \in Numbers, NEW q \in Places, Moves(c, q), q.at = o.then, q.answer = a,
             q.then = o.then, q.target = o.target,
             a # 0 => Named(a, recorder),
             o.target # 0 /\ a # o.target => Gone(o.target, recorder)
      PROVE  Sound(q, c, ownLock', startLock, recorder)
  BY <1>1, <1>2, <1>3 DEF Sound, Heading, ProbePlaces, Returns
<1>4. ASSUME NEW i \in Numbers, i # 0, Named(i, recorder), ~HoldsStore(i)
      PROVE  Gone(i, recorder)
  BY <1>4, Names DEF Named, Gone, HoldsStore
<1>5. ASSUME NEW i \in Numbers, i # 0, Named(i, recorder), ownRecord # i
      PROVE  Gone(i, recorder)
  BY <1>1, <1>5, Names DEF Named, Gone, RecordNamesHolder
<1>6. ASSUME NEW i \in Numbers, i # 0, Named(i, recorder), ownLock \notin Instances
      PROVE  Gone(i, recorder)
  BY <1>1, <1>4, <1>6, Names DEF RecordNamesHolder
<1>7. CASE ProbeTry(c)
  <2>1. UNCHANGED <<ownRecord, recorder, ownBeat, agent, plist, startLock>>
    BY <1>7 DEF ProbeTry
  <2>2. CASE ownRecord = NoFile /\ Goto(c, [at |-> o.then, answer |-> 0]) /\ UNCHANGED ownLock
    <3>1. PICK q \in Places : /\ Moves(c, q) /\ q.at = o.then /\ q.answer = 0
                              /\ q.then = o.then /\ q.target = o.target
      BY <1>1, <2>2, Names, GoesAnswered
    <3>2. o.target # 0 => Gone(o.target, recorder)
      BY <1>2, <1>5, <2>2, Names
    <3> QED BY <1>1, <1>3, <2>1, <2>2, <3>1, <3>2, Names, OnlyMoves
  <2>3. CASE ownLock = Free /\ ownLock' = c /\ Goto(c, [at |-> "held"])
    <3>1. PICK q \in Places : /\ Moves(c, q) /\ q.at = "held" /\ q.answer = o.answer
                              /\ q.then = o.then /\ q.target = o.target
      BY <2>3, <1>1, GoesTo DEF ClientPlaces
    <3>2. Sound(q, c, ownLock', startLock, recorder)
      BY <1>1, <1>2, <2>3, <3>1 DEF Sound, Heading, ProbePlaces
    <3> QED BY <1>1, <2>1, <2>3, <3>1, <3>2, OnlyMoves
  <2>4. CASE Goto(c, [at |-> "read"]) /\ UNCHANGED ownLock
    <3>1. PICK q \in Places : /\ Moves(c, q) /\ q.at = "read" /\ q.answer = o.answer
                              /\ q.then = o.then /\ q.target = o.target
      BY <2>4, <1>1, GoesTo DEF ClientPlaces
    <3>2. Sound(q, c, ownLock', startLock, recorder)
      BY <1>1, <1>2, <2>4, <3>1 DEF Sound, Heading, ProbePlaces
    <3> QED BY <1>1, <2>1, <2>4, <3>1, <3>2, OnlyMoves
  <2> QED BY <1>7, <2>2, <2>3, <2>4 DEF ProbeTry
<1>8. CASE ProbeUnlock(c)
  <2>1. /\ ownLock = c /\ ownLock' = Free /\ Goto(c, [at |-> o.then, answer |-> 0])
        /\ UNCHANGED <<ownRecord, recorder, ownBeat, agent, plist, startLock>>
    BY <1>1, <1>8 DEF ProbeUnlock, At, Sound
  <2>2. PICK q \in Places : /\ Moves(c, q) /\ q.at = o.then /\ q.answer = 0
                            /\ q.then = o.then /\ q.target = o.target
    BY <1>1, <2>1, Names, GoesAnswered
  <2>3. o.target # 0 => Gone(o.target, recorder)
    BY <1>2, <1>6, <2>1, Names
  <2> QED BY <1>1, <1>3, <2>1, <2>2, <2>3, Names, OnlyMoves
<1>9. CASE ProbeRead(c)
  <2>1. /\ ownRecord \in Instances /\ Goto(c, [at |-> o.then, answer |-> ownRecord])
        /\ UNCHANGED <<ownLock, ownRecord, recorder, ownBeat, agent, plist, startLock>>
    BY <1>9 DEF ProbeRead
  <2>2. ownRecord \in Numbers /\ Named(ownRecord, recorder)
    BY <1>1, <2>1, Names DEF NameKept
  <2>3. PICK q \in Places : /\ Moves(c, q) /\ q.at = o.then /\ q.answer = ownRecord
                            /\ q.then = o.then /\ q.target = o.target
    BY <1>1, <2>1, <2>2, GoesAnswered
  <2>4. o.target # 0 /\ ownRecord # o.target => Gone(o.target, recorder)
    BY <1>2, <1>5
  <2> QED BY <1>1, <1>3, <2>1, <2>2, <2>3, <2>4, OnlyMoves
<1>10. CASE ProbeReadsNothing(c)
  <2>1. UNCHANGED <<ownLock, ownRecord, recorder, ownBeat, agent, plist>>
    BY <1>10 DEF ProbeReadsNothing
  <2>2. CASE Goto(c, [tries |-> o.tries + 1]) /\ UNCHANGED startLock
    <3>1. PICK q \in Places : /\ Moves(c, q) /\ q.at = o.at /\ q.answer = o.answer
                              /\ q.then = o.then /\ q.target = o.target
      BY <1>1, <2>2, ClientIs, GoesTrying
    <3>2. Sound(q, c, ownLock', startLock, recorder)
      BY <1>1, <2>1, <3>1 DEF Sound, Heading, ProbePlaces
    <3> QED BY <1>1, <2>1, <2>2, <3>1, <3>2, OnlyMoves
  <2>3. CASE Finish(c, "invalid_metadata")
    BY <1>1, <2>1, <2>3, Names, EndKeeps DEF Finish, Results
  <2> QED BY <1>10, <2>2, <2>3 DEF ProbeReadsNothing
<1> QED BY <1>7, <1>8, <1>9, <1>10

\* What a step that only moves a command must show, with what is known of the command.
LEMMA StepKeeps ==
  ASSUME OwnershipInv, NEW c \in Clients, NEW q \in Places, Moves(c, q),
         ~At(c, "unlink"), ~At(c, "bootstrap"),
         UNCHANGED <<ownLock, ownRecord, recorder, ownBeat, agent, plist, startLock>>,
         q.answer = client[c].answer \/ q.answer = 0,
         q.target = client[c].target \/ q.target = client[c].answer \/ q.target = 0,
         q.at \in ProbePlaces => q.then \in Returns,
         q.at # "held", q.at # "exit",
         Heading(q) \in {"confirm", "signal", "exit"} => q.target # 0,
         q.at \in {"bootout", "unlink"} => q.target # 0 \/ startLock = c,
         q.at = "removal" /\ startLock # c => q.target # 0 /\ Gone(q.target, recorder),
         Heading(q) \in {"prepare", "install", "bootstrap", "wait", "ready"} => startLock = c
  PROVE  OwnershipInv'
<1>1. Sound(q, c, ownLock', startLock', recorder)
  BY ClientIs DEF Sound
<1> QED BY <1>1, OnlyMoves

LEMMA BeginKeeps ==
  ASSUME OwnershipInv, NEW c \in Clients, BeginStatus(c) \/ BeginStop(c) \/ BeginStart(c)
  PROVE  OwnershipInv'
<1>1. PICK then \in {"idle", "found", "fresh"} : Begin(c, then)
  BY DEF BeginStatus, BeginStop, BeginStart
<1>2. PICK q \in Places : /\ Moves(c, q) /\ q.at = "try" /\ q.then = then
                          /\ q.answer = 0 /\ q.target = 0
  BY <1>1, ClientIs, BeginsAt DEF Returns
<1> QED BY <1>1, <1>2, StepKeeps DEF Begin, At, Returns, Heading, ProbePlaces

LEMMA StopFindsKeeps ==
  ASSUME OwnershipInv, NEW c \in Clients, StopFound(c) \/ StopConfirmed(c)
  PROVE  OwnershipInv'
<1> DEFINE o == client[c]
<1>1. /\ OwnTypes /\ o.answer \in Numbers /\ o.target \in Numbers /\ 0 \in Numbers
      /\ Sound(o, c, ownLock, startLock, recorder)
      /\ ~At(c, "unlink") /\ ~At(c, "bootstrap")
  BY Names, ClientIs DEF StopFound, StopConfirmed, At
<1>2. ASSUME NEW v \in Results, Ends(c, v)
      PROVE  OwnershipInv'
  BY <1>1, <1>2, EndKeeps DEF Ends, EndsWith
<1>3. CASE StopFound(c)
  <2>1. CASE Ends(c, "no_daemon")
    BY <2>1, <1>2 DEF Results
  <2>2. CASE o.answer # 0 /\ Steps(c, [at |-> "try", then |-> "confirm", tries |-> 0, target |-> o.answer])
    <3>0. "try" \in ClientPlaces /\ "confirm" \in Returns /\ 0 \in Nat /\ Goto(c, [at |-> "try", then |-> "confirm", tries |-> 0, target |-> o.answer])
      BY <2>2 DEF Steps, ClientPlaces, Returns
    <3>1. PICK q \in Places : /\ Moves(c, q) /\ q.at = "try" /\ q.then = "confirm"
                              /\ q.answer = o.answer /\ q.target = o.answer
      BY <1>1, <3>0, GoesAfter
    <3> QED BY <1>1, <2>2, <3>1, StepKeeps DEF Steps, Returns, Heading, ProbePlaces
  <2> QED BY <1>3, <2>1, <2>2 DEF StopFound
<1>4. CASE StopConfirmed(c)
  <2>1. CASE Ends(c, "instance_changed") \/ Ends(c, "not_registered")
    BY <2>1, <1>2 DEF Results
  <2>2. ASSUME NEW x \in {"signal", "bootout"}, Steps(c, [at |-> x])
        PROVE  OwnershipInv'
    <3>1. PICK q \in Places : /\ Moves(c, q) /\ q.at = x
                              /\ q.answer = o.answer /\ q.target = o.target
      BY <1>1, <2>2, GoesTo DEF Steps, ClientPlaces
    <3>2. o.target # 0
      BY <1>1, <1>4 DEF StopConfirmed, At, Sound, Heading, ProbePlaces
    <3> QED BY <1>1, <2>2, <3>1, <3>2, StepKeeps DEF Steps, Heading, ProbePlaces
  <2> QED BY <1>4, <2>1, <2>2 DEF StopConfirmed
<1> QED BY <1>3, <1>4

LEMMA SignalsKeep ==
  ASSUME OwnershipInv, NEW c \in Clients, StopSignals(c) \/ Bootout(c)
  PROVE  OwnershipInv'
<1> DEFINE o == client[c]
<1>1. /\ OwnTypes /\ o.answer \in Numbers /\ o.target \in Numbers /\ 0 \in Numbers
      /\ Sound(o, c, ownLock, startLock, recorder)
      /\ ~At(c, "unlink") /\ ~At(c, "bootstrap")
      /\ client \in [Clients -> Places] /\ recorder \in [Instances -> Recorders]
  BY Names, ClientIs DEF StopSignals, Bootout, At, OwnTypes
<1>2. CASE Ends(c, "command_failed")
  BY <1>1, <1>2, EndKeeps DEF Ends, EndsWith, Results
<1>3. CASE /\ At(c, "signal") /\ Goto(c, Probing("exit"))
           /\ recorder' = [recorder EXCEPT ![o.target].term = TRUE]
           /\ UNCHANGED <<ownLock, ownRecord, ownBeat, agent, plist, startLock>>
  <2>1. o.target # 0 /\ o.target \in Instances
    BY <1>1, <1>3, Names DEF At, Sound, Heading, ProbePlaces
  <2>0. "try" \in ClientPlaces /\ "exit" \in Returns /\ 0 \in Nat /\ Goto(c, [at |-> "try", then |-> "exit", tries |-> 0])
    BY <1>3 DEF Probing, ClientPlaces, Returns
  <2>2. PICK q \in Places : /\ Moves(c, q) /\ q.at = "try" /\ q.then = "exit"
                            /\ q.answer = o.answer /\ q.target = o.target
    BY <1>1, <2>0, GoesProbing
  <2>3. Sound(q, c, ownLock', startLock', recorder)
    BY <1>1, <1>3, <2>1, <2>2, ClientIs DEF Sound, Heading, ProbePlaces, Returns
  <2>4. PlistFollowed'
    BY <1>1, <1>3, <2>2 DEF OwnershipInv, PlistFollowed, At, Moves
  <2>5. /\ recorder' \in [Instances -> Recorders]
        /\ \A i \in Instances : recorder'[i].stage = recorder[i].stage
    BY <1>1, <1>3, <2>1 DEF Recorders
  <2> QED BY <1>1, <1>3, <2>2, <2>3, <2>4, <2>5, CommandKeeps DEF OwnTypes
<1>4. CASE /\ At(c, "bootout") /\ agent' = "leaving" /\ Goto(c, [at |-> "unlink"])
           /\ recorder' = [i \in Instances |-> IF recorder[i].mode = "launchd" /\ Alive(i)
                                               THEN [recorder[i] EXCEPT !.term = TRUE] ELSE recorder[i]]
           /\ UNCHANGED <<ownLock, ownRecord, ownBeat, plist, startLock>>
  <2>1. PICK q \in Places : /\ Moves(c, q) /\ q.at = "unlink"
                            /\ q.answer = o.answer /\ q.target = o.target
    BY <1>1, <1>4, GoesTo DEF ClientPlaces
  <2>2. Sound(q, c, ownLock', startLock', recorder)
    BY <1>1, <1>4, <2>1, ClientIs DEF At, Sound, Heading, ProbePlaces
  <2>3. At(c, "unlink")'
    BY <1>1, <2>1 DEF At, Moves
  <2>4. /\ recorder' \in [Instances -> Recorders]
        /\ \A i \in Instances : recorder'[i].stage = recorder[i].stage
    BY <1>1, <1>4 DEF Recorders
  <2> QED BY <1>1, <1>4, <2>1, <2>2, <2>3, <2>4, CommandKeeps DEF OwnTypes, PlistFollowed
<1> QED BY <1>2, <1>3, <1>4 DEF StopSignals, Bootout

LEMMA UnlinkKeeps ==
  ASSUME OwnershipInv, NEW c \in Clients, Unlink(c)
  PROVE  OwnershipInv'
<1> DEFINE o == client[c]
<1>1. /\ OwnTypes /\ o.answer \in Numbers /\ o.target \in Numbers /\ 0 \in Numbers
      /\ Sound(o, c, ownLock, startLock, recorder) /\ o.at = "unlink"
      /\ o.target # 0 \/ startLock = c
  BY Names, ClientIs DEF Unlink, At, Sound
<1>2. /\ UNCHANGED <<ownLock, ownRecord, recorder, ownBeat, agent>> /\ plist' = FALSE
  BY DEF Unlink
<1>3. ASSUME NEW q \in Places, Moves(c, q), Sound(q, c, ownLock', startLock', recorder),
             startLock' = startLock \/ (startLock = c /\ startLock' = Free)
      PROVE  OwnershipInv'
  BY <1>1, <1>2, <1>3, CommandKeeps DEF OwnTypes, PlistFollowed
<1>4. CASE Finish(c, "store_locked")
  <2>1. PICK q \in Places : Moves(c, q) /\ q.at = "idle" /\ q.answer = 0 /\ q.target = 0
    BY <1>1, <1>4, LeavesTo DEF Finish, Results
  <2> QED BY <1>3, <1>4, <2>1, LeaveSound DEF Finish, Leaves
<1>5. CASE startLock = c /\ Goto(c, [at |-> "removal"]) /\ UNCHANGED startLock
  <2>1. PICK q \in Places : /\ Moves(c, q) /\ q.at = "removal"
                            /\ q.answer = o.answer /\ q.target = o.target
    BY <1>1, <1>5, GoesTo DEF ClientPlaces
  <2>2. Sound(q, c, ownLock', startLock', recorder)
    BY <1>1, <1>5, <2>1, ClientIs DEF Sound, Heading, ProbePlaces
  <2> QED BY <1>3, <1>5, <2>1, <2>2
<1>6. CASE startLock # c /\ Goto(c, Probing("exit")) /\ UNCHANGED startLock
  <2>0. "try" \in ClientPlaces /\ "exit" \in Returns /\ 0 \in Nat /\ Goto(c, [at |-> "try", then |-> "exit", tries |-> 0])
    BY <1>6 DEF Probing, ClientPlaces, Returns
  <2>1. PICK q \in Places : /\ Moves(c, q) /\ q.at = "try" /\ q.then = "exit"
                            /\ q.answer = o.answer /\ q.target = o.target
    BY <1>1, <2>0, GoesProbing
  <2>2. Sound(q, c, ownLock', startLock', recorder)
    BY <1>1, <1>6, <2>1, ClientIs DEF Sound, Heading, ProbePlaces, Returns
  <2> QED BY <1>3, <1>6, <2>1, <2>2
<1>7. startLock = c \/ startLock # c
  OBVIOUS
<1> QED BY <1>4, <1>5, <1>6, <1>7 DEF Unlink, Starting

LEMMA StopEndsKeeps ==
  ASSUME OwnershipInv, NEW c \in Clients, StopWaits(c) \/ RemovalSeen(c)
  PROVE  OwnershipInv'
<1> DEFINE o == client[c]
<1>1. /\ OwnTypes /\ o.answer \in Numbers /\ o.target \in Numbers /\ 0 \in Numbers
      /\ o.polls + 1 \in Nat /\ 0 \in Nat
      /\ Sound(o, c, ownLock, startLock, recorder)
      /\ ~At(c, "unlink") /\ ~At(c, "bootstrap")
      /\ o.target # 0 => Named(o.target, recorder)
  BY Names, ClientIs DEF StopWaits, RemovalSeen, At
<1>2. ASSUME NEW v \in Results, NEW i \in {0, o.target}, EndsWith(c, v, i)
      PROVE  OwnershipInv'
  BY <1>1, <1>2, EndKeeps DEF EndsWith
<1>3. ASSUME NEW x \in {"removal", "install"}, Steps(c, [at |-> x]),
             x = "removal" => o.target # 0 /\ Gone(o.target, recorder),
             x = "install" => startLock = c
      PROVE  OwnershipInv'
  <2>1. PICK q \in Places : /\ Moves(c, q) /\ q.at = x
                            /\ q.answer = o.answer /\ q.target = o.target
    BY <1>1, <1>3, GoesTo DEF Steps, ClientPlaces
  <2> QED BY <1>1, <1>3, <2>1, StepKeeps DEF Steps, Heading, ProbePlaces
<1>4. CASE StopWaits(c)
  <2>1. o.at = "exit" /\ o.target # 0
    BY <1>1, <1>4 DEF StopWaits, At, Sound, Heading, ProbePlaces
  <2>2. CASE Steps(c, [at |-> "try", then |-> "exit", tries |-> 0, polls |-> o.polls + 1])
    <3>0. "try" \in ClientPlaces /\ "exit" \in Returns /\ Goto(c, [at |-> "try", then |-> "exit", tries |-> 0, polls |-> o.polls + 1])
      BY <2>2 DEF Steps, ClientPlaces, Returns
    <3>1. PICK q \in Places : /\ Moves(c, q) /\ q.at = "try" /\ q.then = "exit"
                              /\ q.answer = o.answer /\ q.target = o.target
      BY <1>1, <3>0, GoesAgain
    <3> QED BY <1>1, <2>1, <2>2, <3>1, StepKeeps DEF Steps, Returns, Heading, ProbePlaces
  <2>3. CASE Ends(c, "stop_timeout") \/ EndsWith(c, "stopped", o.target)
    BY <1>2, <2>3 DEF Ends, Results
  <2>4. CASE Exited(c) /\ Steps(c, [at |-> "removal"])
    <3>1. Gone(o.target, recorder)
      BY <1>1, <2>1, <2>4 DEF Exited, Sound
    <3> QED BY <1>3, <2>1, <2>4, <3>1
  <2> QED BY <1>4, <2>2, <2>3, <2>4 DEF StopWaits
<1>5. CASE RemovalSeen(c)
  <2>1. CASE Starting(c) /\ Steps(c, [at |-> "install"])
    BY <1>3, <2>1 DEF Starting
  <2>2. CASE EndsWith(c, "stopped", o.target) \/ Ends(c, "still_loaded")
    BY <1>2, <2>2 DEF Ends, Results
  <2> QED BY <1>5, <2>1, <2>2 DEF RemovalSeen
<1> QED BY <1>4, <1>5

LEMMA StartBeginsKeeps ==
  ASSUME OwnershipInv, NEW c \in Clients,
         StartChecked(c) \/ DirectoryRefused(c) \/ StartLocks(c) \/ StartPrepares(c)
  PROVE  OwnershipInv'
<1> DEFINE o == client[c]
<1>1. /\ OwnTypes /\ o.answer \in Numbers /\ o.target \in Numbers /\ 0 \in Numbers
      /\ Sound(o, c, ownLock, startLock, recorder)
      /\ ~At(c, "unlink") /\ ~At(c, "bootstrap")
  BY Names, ClientIs DEF StartChecked, DirectoryRefused, StartLocks, StartPrepares, At
<1>2. ASSUME NEW v \in Results, Ends(c, v)
      PROVE  OwnershipInv'
  BY <1>1, <1>2, EndKeeps DEF Ends, EndsWith
<1>3. ASSUME NEW x \in {"lock", "install", "bootout"}, Steps(c, [at |-> x]),
             x = "lock" \/ startLock = c
      PROVE  OwnershipInv'
  <2>1. PICK q \in Places : /\ Moves(c, q) /\ q.at = x
                            /\ q.answer = o.answer /\ q.target = o.target
    BY <1>1, <1>3, GoesTo DEF Steps, ClientPlaces
  <2> QED BY <1>1, <1>3, <2>1, StepKeeps DEF Steps, Heading, ProbePlaces
<1>4. CASE StartChecked(c)
  BY <1>2, <1>3, <1>4 DEF StartChecked, Results
<1>5. CASE DirectoryRefused(c)
  BY <1>2, <1>5 DEF DirectoryRefused, Results
<1>6. CASE StartLocks(c)
  <2>1. CASE /\ startLock = Free /\ startLock' = c /\ Goto(c, [at |-> "prepare"])
             /\ UNCHANGED <<ownLock, ownRecord, recorder, ownBeat, agent, plist>>
    <3>1. PICK q \in Places : /\ Moves(c, q) /\ q.at = "prepare"
                              /\ q.answer = o.answer /\ q.target = o.target
      BY <1>1, <2>1, GoesTo DEF ClientPlaces
    <3>2. Sound(q, c, ownLock', startLock', recorder)
      BY <1>1, <2>1, <3>1, ClientIs DEF Sound, Heading, ProbePlaces
    <3> QED BY <1>1, <2>1, <3>1, <3>2, OnlyMoves
  <2> QED BY <1>2, <1>6, <2>1 DEF StartLocks, Results
<1>7. CASE StartPrepares(c)
  <2>1. startLock = c
    BY <1>1, <1>7 DEF StartPrepares, At, Sound, Heading, ProbePlaces
  <2>2. CASE Steps(c, [at |-> IF agent = "absent" THEN "install" ELSE "bootout"])
    BY <1>3, <2>1, <2>2
  <2> QED BY <1>2, <1>7, <2>2 DEF StartPrepares, Results
<1> QED BY <1>4, <1>5, <1>6, <1>7

LEMMA BootstrapKeeps ==
  ASSUME OwnershipInv, NEW c \in Clients, InstallPlist(c) \/ Bootstrap(c)
  PROVE  OwnershipInv'
<1> DEFINE o == client[c]
<1>1. /\ OwnTypes /\ o.answer \in Numbers /\ o.target \in Numbers /\ 0 \in Numbers
      /\ Sound(o, c, ownLock, startLock, recorder) /\ startLock = c
      /\ client \in [Clients -> Places]
  BY Names, ClientIs DEF InstallPlist, Bootstrap, At, Sound, Heading, ProbePlaces, OwnTypes
<1>2. UNCHANGED <<ownLock, ownRecord, recorder, ownBeat>>
  BY DEF InstallPlist, Bootstrap
<1>3. CASE InstallPlist(c)
  <2>1. /\ Goto(c, [at |-> "bootstrap"]) /\ plist' = TRUE /\ UNCHANGED <<agent, startLock>>
    BY <1>3 DEF InstallPlist
  <2>2. PICK q \in Places : /\ Moves(c, q) /\ q.at = "bootstrap"
                            /\ q.answer = o.answer /\ q.target = o.target
    BY <1>1, <2>1, GoesTo DEF ClientPlaces
  <2>3. Sound(q, c, ownLock', startLock', recorder)
    BY <1>1, <1>2, <2>1, <2>2, ClientIs DEF Sound, Heading, ProbePlaces
  <2>4. At(c, "bootstrap")'
    BY <1>1, <2>2 DEF At, Moves
  <2> QED BY <1>1, <1>2, <2>1, <2>2, <2>3, <2>4, CommandKeeps DEF OwnTypes, PlistFollowed
<1>4. CASE /\ agent' = "registered" /\ Goto(c, [at |-> "wait", polls |-> 0, seen |-> 0])
           /\ UNCHANGED <<plist, startLock>>
  <2>1. PICK q \in Places : /\ Moves(c, q) /\ q.at = "wait"
                            /\ q.answer = o.answer /\ q.target = o.target
    BY <1>1, <1>4, GoesWaiting DEF ClientPlaces
  <2>2. Sound(q, c, ownLock', startLock', recorder)
    BY <1>1, <1>2, <1>4, <2>1, ClientIs DEF Sound, Heading, ProbePlaces
  <2> QED BY <1>1, <1>2, <1>4, <2>1, <2>2, CommandKeeps DEF OwnTypes, PlistFollowed
<1>5. CASE plist' = FALSE /\ Finish(c, "command_failed") /\ UNCHANGED agent
  <2>1. PICK q \in Places : Moves(c, q) /\ q.at = "idle" /\ q.answer = 0 /\ q.target = 0
    BY <1>1, <1>5, LeavesTo DEF Finish, Results
  <2>2. Sound(q, c, ownLock', startLock', recorder)
    BY <2>1, LeaveSound
  <2>3. startLock = c /\ startLock' = Free
    BY <1>1, <1>5 DEF Finish, Leaves
  <2> QED BY <1>1, <1>2, <1>5, <2>1, <2>2, <2>3, CommandKeeps DEF OwnTypes, PlistFollowed
<1> QED BY <1>3, <1>4, <1>5 DEF Bootstrap

LEMMA StartWaitsKeeps ==
  ASSUME OwnershipInv, NEW c \in Clients, ReadStatus(c) \/ StoreLocked(c) \/ StartPoll(c)
  PROVE  OwnershipInv'
<1> DEFINE o == client[c]
<1>1. /\ OwnTypes /\ o.answer \in Numbers /\ o.target \in Numbers /\ 0 \in Numbers
      /\ o.polls + 1 \in Nat /\ 0 \in Nat /\ ownBeat \in Numbers
      /\ Sound(o, c, ownLock, startLock, recorder) /\ startLock = c
      /\ ~At(c, "unlink") /\ ~At(c, "bootstrap")
      /\ o.answer # 0 => Named(o.answer, recorder)
  BY Names, ClientIs DEF ReadStatus, StoreLocked, StartPoll, At, Sound, Heading, ProbePlaces, OwnTypes
<1>2. ASSUME NEW v \in Results, NEW i \in {0, o.answer}, EndsWith(c, v, i)
      PROVE  OwnershipInv'
  BY <1>1, <1>2, EndKeeps DEF EndsWith
<1>3. CASE ReadStatus(c)
  <2>1. Steps(c, [at |-> "try", then |-> "ready", tries |-> 0, beat |-> ownBeat])
    BY <1>3 DEF ReadStatus
  <2>0. "try" \in ClientPlaces /\ "ready" \in Returns /\ Goto(c, [at |-> "try", then |-> "ready", tries |-> 0, beat |-> ownBeat])
    BY <2>1 DEF Steps, ClientPlaces, Returns
  <2>2. PICK q \in Places : /\ Moves(c, q) /\ q.at = "try" /\ q.then = "ready"
                            /\ q.answer = o.answer /\ q.target = o.target
    BY <1>1, <2>0, GoesReading
  <2> QED BY <1>1, <2>1, <2>2, StepKeeps DEF Steps, Returns, Heading, ProbePlaces
<1>4. CASE StoreLocked(c)
  <2>1. CASE Steps(c, [at |-> "bootout", result |-> "locked"])
    <3>0. "bootout" \in ClientPlaces /\ "locked" \in Results /\ Goto(c, [at |-> "bootout", result |-> "locked"])
      BY <2>1 DEF Steps, ClientPlaces, Results
    <3>1. PICK q \in Places : /\ Moves(c, q) /\ q.at = "bootout"
                              /\ q.answer = o.answer /\ q.target = o.target
      BY <1>1, <3>0, GoesLocked
    <3> QED BY <1>1, <2>1, <3>1, StepKeeps DEF Steps, Heading, ProbePlaces
  <2> QED BY <1>2, <1>4, <2>1 DEF StoreLocked, Ends, Results
<1>5. CASE StartPoll(c)
  <2>1. CASE Steps(c, [at |-> "wait", polls |-> o.polls + 1, seen |-> Owner(c)])
    <3>1. PICK q \in Places : /\ Moves(c, q) /\ q.at = "wait"
                              /\ q.answer = o.answer /\ q.target = o.target
      BY <1>1, <2>1, GoesWaiting DEF Steps, ClientPlaces, Owner
    <3> QED BY <1>1, <2>1, <3>1, StepKeeps DEF Steps, Heading, ProbePlaces
  <2>2. CASE Ends(c, "did_not_start") \/ EndsWith(c, "started", Owner(c))
    BY <1>2, <2>2 DEF Ends, Owner, Results
  <2> QED BY <1>5, <2>1, <2>2 DEF StartPoll
<1> QED BY <1>3, <1>4, <1>5

-----------------------------------------------------------------------------
(* Every step keeps the invariant.                                         *)

LEMMA OwnershipStays ==
  ASSUME OwnershipInv, OwnershipNext
  PROVE  OwnershipInv'
<1>1. CASE LaunchdStep \/ ForegroundStart \/ BeatGoesStale
  BY <1>1, LaunchdKeeps DEF LaunchdStep
<1>2. ASSUME NEW i \in Instances, RecorderStep(i) \/ Dies(i)
      PROVE  OwnershipInv'
  BY <1>2, RecorderStageKeeps, UnbornKeeps DEF RecorderStep
<1>3. ASSUME NEW c \in Clients, BeginStatus(c) \/ BeginStop(c) \/ BeginStart(c)
      PROVE  OwnershipInv'
  BY <1>3, BeginKeeps
<1>4. ASSUME NEW c \in Clients, ClientStep(c)
      PROVE  OwnershipInv'
  BY <1>4, ProbeKeeps, StopFindsKeeps, SignalsKeep, UnlinkKeeps, StopEndsKeeps, StartBeginsKeeps,
     BootstrapKeeps, StartWaitsKeeps DEF ClientStep
<1> QED BY <1>1, <1>2, <1>3, <1>4 DEF OwnershipNext

LEMMA OwnershipStarts ==
  ASSUME OwnershipInit
  PROVE  OwnershipInv
<1>1. Unborn \in Recorders /\ Unborn.stage = "unborn"
  BY DEF Unborn, Recorders, Stages, Modes
<1>2. IdleClient \in Places /\ IdleClient.at = "idle" /\ IdleClient.answer = 0 /\ IdleClient.target = 0
  BY Names DEF IdleClient, Places, ClientPlaces, Results
<1>3. OwnTypes
  BY <1>1, <1>2, Names DEF OwnershipInit, OwnTypes
<1>4. RecordNamesHolder
  BY <1>1, Names DEF OwnershipInit, RecordNamesHolder, HoldsStore
<1>5. NameKept /\ PlistFollowed
  BY Names DEF OwnershipInit, NameKept, PlistFollowed
<1>6. ASSUME NEW c \in Clients
      PROVE  Sound(client[c], c, ownLock, startLock, recorder)
  BY <1>2, LeaveSound DEF OwnershipInit
<1> QED BY <1>3, <1>4, <1>5, <1>6 DEF OwnershipInv

LEMMA OwnershipFollows ==
  ASSUME OwnershipInv
  PROVE  OwnershipTypeOK /\ OwnershipSafe
<1>1. OwnershipTypeOK
  BY DEF OwnershipInv, OwnTypes, OwnershipTypeOK, Recorders, Stages, Places, Numbers
<1>2. NoOrphanPlist
  BY DEF OwnershipInv, OwnTypes, PlistFollowed, NoOrphanPlist, At
<1> QED BY <1>1, <1>2 DEF OwnershipInv, OwnershipSafe

-----------------------------------------------------------------------------
(* What a stop says.                                                       *)

\* No command says "stopped" that did not say it before.
Silent == \A d \in Clients : client'[d].result = "stopped" => client[d].result = "stopped"

LEMMA MovesSilently ==
  ASSUME OwnTypes, NEW c \in Clients, NEW fields, Goto(c, fields),
         "result" \in DOMAIN fields => fields["result"] # "stopped"
  PROVE  Silent
<1>1. client \in [Clients -> Places] /\ client[c] \in Places /\ "result" \in DOMAIN client[c]
  BY DEF OwnTypes, Places
<1>2. client'[c].result = IF "result" \in DOMAIN fields THEN fields["result"] ELSE client[c].result
  BY <1>1 DEF Goto
<1>3. \A d \in Clients : d # c => client'[d] = client[d]
  BY <1>1 DEF Goto
<1> QED BY <1>2, <1>3 DEF Silent

LEMMA LeavesSilently ==
  ASSUME OwnTypes, NEW c \in Clients, NEW v \in Results, NEW i \in Numbers, Leaves(c, v, i),
         v # "stopped"
  PROVE  Silent
<1>1. PICK q \in Places : Moves(c, q) /\ q.result = v
  BY LeavesTo
<1> QED BY <1>1 DEF OwnTypes, Moves, Silent

LEMMA OnlyStopsSay ==
  ASSUME OwnTypes, NEW c \in Clients, ClientStep(c), ~StopWaits(c), ~RemovalSeen(c)
  PROVE  Silent
<1>1. ASSUME NEW v \in Results \ {"stopped"}, Ends(c, v) \/ Finish(c, v)
      PROVE  Silent
  BY <1>1, Names, LeavesSilently DEF Ends, EndsWith, Finish
<1>2. ASSUME NEW fields, Steps(c, fields) \/ Goto(c, fields),
             "result" \in DOMAIN fields => fields["result"] # "stopped"
      PROVE  Silent
  BY <1>2, MovesSilently DEF Steps
<1>3. ASSUME EndsWith(c, "started", client[c].answer)
      PROVE  Silent
  <2>1. client[c].answer \in Numbers
    BY DEF OwnTypes, Places
  <2> QED BY <1>3, <2>1, LeavesSilently DEF EndsWith, Results
<1>4. CASE ProbeTry(c)
  BY <1>2, <1>4 DEF ProbeTry
<1>5. CASE ProbeUnlock(c)
  BY <1>2, <1>5 DEF ProbeUnlock
<1>6. CASE ProbeRead(c)
  BY <1>2, <1>6 DEF ProbeRead
<1>7. CASE ProbeReadsNothing(c)
  BY <1>1, <1>2, <1>7 DEF ProbeReadsNothing, Results
<1>8. CASE StopFound(c)
  BY <1>1, <1>2, <1>8 DEF StopFound, Results
<1>9. CASE StopConfirmed(c)
  BY <1>1, <1>2, <1>9 DEF StopConfirmed, Results
<1>10. CASE StopSignals(c)
  BY <1>1, <1>2, <1>10 DEF StopSignals, Probing, Results
<1>11. CASE Bootout(c)
  BY <1>1, <1>2, <1>11 DEF Bootout, Results
<1>12. CASE Unlink(c)
  <2>1. CASE Finish(c, "store_locked")
    BY <1>1, <2>1 DEF Results
  <2>2. CASE Goto(c, [at |-> "removal"]) \/ Goto(c, Probing("exit"))
    BY <1>2, <2>2 DEF Probing
  <2> QED BY <1>12, <2>1, <2>2 DEF Unlink
<1>13. CASE StartChecked(c)
  BY <1>1, <1>2, <1>13 DEF StartChecked, Results
<1>14. CASE DirectoryRefused(c)
  BY <1>1, <1>14 DEF DirectoryRefused, Results
<1>15. CASE StartLocks(c)
  BY <1>1, <1>2, <1>15 DEF StartLocks, Results
<1>16. CASE StartPrepares(c)
  BY <1>1, <1>2, <1>16 DEF StartPrepares, Results
<1>17. CASE InstallPlist(c)
  BY <1>2, <1>17 DEF InstallPlist
<1>18. CASE Bootstrap(c)
  BY <1>1, <1>2, <1>18 DEF Bootstrap, Results
<1>19. CASE ReadStatus(c)
  BY <1>2, <1>19 DEF ReadStatus
<1>20. CASE StoreLocked(c)
  <2>1. CASE Steps(c, [at |-> "bootout", result |-> "locked"])
    BY <1>2, <2>1
  <2> QED BY <1>1, <1>20, <2>1 DEF StoreLocked, Results
<1>21. CASE StartPoll(c)
  BY <1>1, <1>2, <1>3, <1>21 DEF StartPoll, Owner, Results
<1> QED BY <1>4, <1>5, <1>6, <1>7, <1>8, <1>9, <1>10, <1>11, <1>12, <1>13, <1>14, <1>15, <1>16,
           <1>17, <1>18, <1>19, <1>20, <1>21 DEF ClientStep

\* The two ends of a stop: the recorder it found had gone by the time it says so.
LEMMA StopSays ==
  ASSUME OwnershipInv, NEW c \in Clients, StopWaits(c) \/ RemovalSeen(c)
  PROVE  StopTellsTheTruth
<1> DEFINE o == client[c]
<1>1. /\ OwnTypes /\ o \in Places /\ o.target \in Numbers
      /\ Sound(o, c, ownLock, startLock, recorder) /\ 0 \in Numbers
      /\ client \in [Clients -> Places]
  BY Names, ClientIs DEF OwnTypes
<1>2. Silent => StopTellsTheTruth
  BY DEF Silent, StopTellsTheTruth
<1>3. ASSUME NEW v \in Results \ {"stopped"}, Ends(c, v)
      PROVE  Silent
  BY <1>1, <1>3, LeavesSilently DEF Ends, EndsWith
<1>4. ASSUME NEW fields, Steps(c, fields), "result" \notin DOMAIN fields
      PROVE  Silent
  BY <1>1, <1>4, MovesSilently DEF Steps
<1>5. ASSUME EndsWith(c, "stopped", o.target), Gone(o.target, recorder),
             recorder[o.target].mode = "launchd" => agent = "absent"
      PROVE  StopTellsTheTruth
  <2>1. PICK q \in Places : Moves(c, q) /\ q.target = o.target
    BY <1>1, <1>5, LeavesTo DEF EndsWith, Results
  <2>2. client'[c].target = o.target /\ \A d \in Clients : d # c => client'[d] = client[d]
    BY <1>1, <2>1 DEF Moves
  <2> QED BY <1>5, <2>2 DEF StopTellsTheTruth, HoldsStore, Gone
<1>6. CASE StopWaits(c)
  <2>1. CASE ~Exited(c)
    <3>1. Steps(c, [at |-> "try", then |-> "exit", tries |-> 0, polls |-> o.polls + 1])
            \/ Ends(c, "stop_timeout")
      BY <1>6, <2>1 DEF StopWaits
    <3> QED BY <1>2, <1>3, <1>4, <3>1 DEF Results
  <2>2. CASE Exited(c)
    <3>1. Gone(o.target, recorder)
      BY <1>1, <1>6, <2>2 DEF StopWaits, At, Exited, Sound
    <3>2. CASE recorder[o.target].mode = "foreground" /\ EndsWith(c, "stopped", o.target)
      BY <1>5, <3>1, <3>2
    <3>3. CASE Steps(c, [at |-> "removal"])
      BY <1>2, <1>4, <3>3
    <3> QED BY <1>6, <2>2, <3>2, <3>3 DEF StopWaits
  <2> QED BY <2>1, <2>2
<1>7. CASE RemovalSeen(c)
  <2>1. CASE agent = "absent" /\ startLock # c /\ EndsWith(c, "stopped", o.target)
    <3>1. Gone(o.target, recorder)
      BY <1>1, <1>7, <2>1 DEF RemovalSeen, At, Sound
    <3> QED BY <1>5, <2>1, <3>1
  <2>2. CASE Steps(c, [at |-> "install"])
    BY <1>2, <1>4, <2>2
  <2>3. CASE Ends(c, "still_loaded")
    BY <1>2, <1>3, <2>3 DEF Results
  <2> QED BY <1>7, <2>1, <2>2, <2>3 DEF RemovalSeen, Starting
<1> QED BY <1>6, <1>7

LEMMA StopsAreTrue ==
  ASSUME OwnershipInv, OwnershipNext \/ UNCHANGED client
  PROVE  StopTellsTheTruth
<1>1. OwnTypes
  BY DEF OwnershipInv
<1>2. Silent => StopTellsTheTruth
  BY DEF Silent, StopTellsTheTruth
<1>3. UNCHANGED client => Silent
  BY DEF Silent
<1>4. LaunchdStep \/ ForegroundStart \/ BeatGoesStale => UNCHANGED client
  BY DEF LaunchdStep, AgentSpawns, AgentRemoved, ForegroundStart, BeatGoesStale, Launch
<1>5. ASSUME NEW i \in Instances, RecorderStep(i) \/ Dies(i)
      PROVE  UNCHANGED client
  BY <1>5 DEF RecorderStep, Dies, Claim, Refused, TruncateOwner, WriteOwner, FirstHeartbeat,
              ClearHeartbeat, Release, DiesUnhandled
<1>6. ASSUME NEW c \in Clients, BeginStatus(c) \/ BeginStop(c) \/ BeginStart(c)
      PROVE  Silent
  <2>1. PICK then \in Returns : Begin(c, then)
    BY <1>6 DEF BeginStatus, BeginStop, BeginStart, Returns
  <2>2. PICK q \in Places : Moves(c, q) /\ q.result = "-"
    BY <1>1, <2>1, BeginsAt
  <2> QED BY <1>1, <2>2 DEF OwnTypes, Moves, Silent
<1>7. ASSUME NEW c \in Clients, ClientStep(c)
      PROVE  StopTellsTheTruth
  BY <1>1, <1>2, <1>7, OnlyStopsSay, StopSays
<1> QED BY <1>2, <1>3, <1>4, <1>5, <1>6, <1>7 DEF OwnershipNext

-----------------------------------------------------------------------------
(* What a start says.                                                      *)

\* A recorder that has opened the store, or is gone.
OpenedIn(i, r) == r[i].stage \in {"recording", "closing", "gone"}

\* A heartbeat, in the store or as a command read it, is of a recorder that opened the store.
BeatsOpened ==
  /\ ownBeat # 0 => OpenedIn(ownBeat, recorder)
  /\ \A c \in Clients : client[c].beat # 0 => OpenedIn(client[c].beat, recorder)

\* What commands have read, and said, when a step changes at most one of them: a beat
\* comes from the store, and nothing new is said of a start.
Rises == \A i \in Instances : OpenedIn(i, recorder) => OpenedIn(i, recorder')
Looked == \A d \in Clients : client'[d].beat \in {client[d].beat, 0, ownBeat}
Unstarted == \A d \in Clients : client'[d].result = "started" => client[d].result = "started"
Hushed == Looked /\ Unstarted

LEMMA BeatsStay ==
  ASSUME OwnTypes, BeatsOpened, Rises, Looked, ownBeat' # 0 => ownBeat' = ownBeat \/ OpenedIn(ownBeat', recorder')
  PROVE  BeatsOpened'
<1>1. \A n \in Numbers : n # 0 /\ OpenedIn(n, recorder) => OpenedIn(n, recorder')
  BY Names DEF Rises
<1>2. ownBeat \in Numbers /\ \A c \in Clients : client[c].beat \in Numbers
  BY DEF OwnTypes, Places
<1>3. ownBeat' # 0 => OpenedIn(ownBeat', recorder')
  BY <1>1, <1>2 DEF BeatsOpened
<1>4. ASSUME NEW c \in Clients, client'[c].beat # 0
      PROVE  OpenedIn(client'[c].beat, recorder')
  <2>1. CASE client'[c].beat = client[c].beat
    <3>1. OpenedIn(client[c].beat, recorder')
      BY <1>1, <1>2, <1>4, <2>1 DEF BeatsOpened
    <3> QED BY <2>1, <3>1
  <2>2. CASE client'[c].beat = ownBeat
    <3>1. OpenedIn(ownBeat, recorder')
      BY <1>1, <1>2, <1>4, <2>2 DEF BeatsOpened
    <3> QED BY <2>2, <3>1
  <2> QED BY <1>4, <2>1, <2>2 DEF Looked
<1> QED BY <1>3, <1>4 DEF BeatsOpened

LEMMA MovesLooking ==
  ASSUME OwnTypes, NEW c \in Clients, NEW fields, Goto(c, fields),
         "beat" \in DOMAIN fields => fields["beat"] = ownBeat,
         "result" \in DOMAIN fields => fields["result"] # "started"
  PROVE  Looked /\ Unstarted
<1>1. /\ client \in [Clients -> Places] /\ client[c] \in Places
      /\ "beat" \in DOMAIN client[c] /\ "result" \in DOMAIN client[c]
  BY DEF OwnTypes, Places
<1>2. /\ client'[c].beat = IF "beat" \in DOMAIN fields THEN fields["beat"] ELSE client[c].beat
      /\ client'[c].result = IF "result" \in DOMAIN fields THEN fields["result"] ELSE client[c].result
  BY <1>1 DEF Goto
<1>3. \A d \in Clients : d # c => client'[d] = client[d]
  BY <1>1 DEF Goto
<1> QED BY <1>2, <1>3 DEF Looked, Unstarted

LEMMA LeavesLooking ==
  ASSUME OwnTypes, NEW c \in Clients, NEW v, NEW i, Leaves(c, v, i)
  PROVE  /\ Looked /\ (v # "started" => Unstarted)
         /\ client'[c].target = i /\ \A d \in Clients : d # c => client'[d] = client[d]
<1>1. client \in [Clients -> Places]
  BY DEF OwnTypes
<1> DEFINE p == IdleClient
           q == [p EXCEPT !.result = v, !.target = i]
<1>2. client' = [client EXCEPT ![c] = q]
  BY DEF Leaves
<1>3. p \in Places /\ p.beat = 0
  BY Names DEF IdleClient, Places, ClientPlaces, Results
<1> HIDE DEF p
<1>4. q.beat = 0 /\ q.result = v /\ q.target = i
  BY <1>3 DEF Places
<1> HIDE DEF q
<1>5. client'[c] = q /\ \A d \in Clients : d # c => client'[d] = client[d]
  BY <1>1, <1>2
<1> QED BY <1>4, <1>5 DEF Looked, Unstarted, Hushed

LEMMA BeginsLooking ==
  ASSUME OwnTypes, NEW c \in Clients, NEW then, Begin(c, then)
  PROVE  Looked /\ Unstarted
<1> DEFINE p == IdleClient
           q == [p EXCEPT !.at = "try", !.then = then]
<1>1. client' = [client EXCEPT ![c] = q]
  BY DEF Begin
<1>2. p \in Places /\ p.beat = 0 /\ p.result = "-"
  BY Names DEF IdleClient, Places, ClientPlaces, Results
<1> HIDE DEF p
<1>3. q.beat = 0 /\ q.result = "-"
  BY <1>2 DEF Places
<1> HIDE DEF q
<1>4. client'[c] = q /\ \A d \in Clients : d # c => client'[d] = client[d]
  BY <1>1 DEF OwnTypes
<1> QED BY <1>3, <1>4 DEF Looked, Unstarted

\* Only the wait of a start says "started".
LEMMA OnlyPollsStart ==
  ASSUME OwnTypes, NEW c \in Clients, ClientStep(c)
  PROVE  Looked /\ (Unstarted \/ (StartPoll(c) /\ EndsWith(c, "started", Owner(c))))
<1>0. Hushed => Looked /\ Unstarted
  BY DEF Hushed
<1>1. ASSUME NEW v, NEW i, v # "started", EndsWith(c, v, i) \/ Leaves(c, v, i)
      PROVE  Hushed
  BY <1>1, LeavesLooking DEF EndsWith, Hushed
<1>2. ASSUME NEW fields, Steps(c, fields) \/ Goto(c, fields),
             "beat" \in DOMAIN fields => fields["beat"] = ownBeat,
             "result" \in DOMAIN fields => fields["result"] # "started"
      PROVE  Hushed
  BY <1>2, MovesLooking DEF Steps, Hushed
<1> USE DEF Ends, Finish
<1>3. CASE ProbeTry(c)
  BY <1>0, <1>2, <1>3 DEF ProbeTry
<1>4. CASE ProbeUnlock(c)
  BY <1>0, <1>2, <1>4 DEF ProbeUnlock
<1>5. CASE ProbeRead(c)
  BY <1>0, <1>2, <1>5 DEF ProbeRead
<1>6. CASE ProbeReadsNothing(c)
  BY <1>0, <1>1, <1>2, <1>6 DEF ProbeReadsNothing
<1>7. CASE StopFound(c)
  BY <1>0, <1>1, <1>2, <1>7 DEF StopFound
<1>8. CASE StopConfirmed(c)
  BY <1>0, <1>1, <1>2, <1>8 DEF StopConfirmed
<1>9. CASE StopSignals(c)
  BY <1>0, <1>1, <1>2, <1>9 DEF StopSignals, Probing
<1>10. CASE Bootout(c)
  BY <1>0, <1>1, <1>2, <1>10 DEF Bootout
<1>11. CASE Unlink(c)
  <2>1. CASE Finish(c, "store_locked")
    BY <1>0, <1>1, <2>1
  <2>2. CASE Goto(c, [at |-> "removal"]) \/ Goto(c, Probing("exit"))
    BY <1>0, <1>2, <2>2 DEF Probing
  <2> QED BY <1>11, <2>1, <2>2 DEF Unlink
<1>12. CASE StopWaits(c)
  BY <1>0, <1>1, <1>2, <1>12 DEF StopWaits
<1>13. CASE RemovalSeen(c)
  BY <1>0, <1>1, <1>2, <1>13 DEF RemovalSeen
<1>14. CASE StartChecked(c)
  BY <1>0, <1>1, <1>2, <1>14 DEF StartChecked
<1>15. CASE DirectoryRefused(c)
  BY <1>0, <1>1, <1>15 DEF DirectoryRefused
<1>16. CASE StartLocks(c)
  BY <1>0, <1>1, <1>2, <1>16 DEF StartLocks
<1>17. CASE StartPrepares(c)
  BY <1>0, <1>1, <1>2, <1>17 DEF StartPrepares
<1>18. CASE InstallPlist(c)
  BY <1>0, <1>2, <1>18 DEF InstallPlist
<1>19. CASE Bootstrap(c)
  BY <1>0, <1>1, <1>2, <1>19 DEF Bootstrap
<1>20. CASE ReadStatus(c)
  BY <1>0, <1>2, <1>20 DEF ReadStatus
<1>21. CASE StoreLocked(c)
  <2>1. CASE Steps(c, [at |-> "bootout", result |-> "locked"])
    BY <1>0, <1>2, <2>1
  <2>2. CASE Ends(c, "store_locked")
    BY <1>0, <1>1, <2>2
  <2> QED BY <1>21, <2>1, <2>2 DEF StoreLocked
<1>22. CASE StartPoll(c)
  <2>1. CASE EndsWith(c, "started", Owner(c))
    <3>1. Looked
      BY <2>1, LeavesLooking DEF EndsWith
    <3> QED BY <1>22, <2>1, <3>1
  <2>2. CASE Ends(c, "did_not_start")
    <3>1. Hushed
      BY <1>1, <2>2
    <3> QED BY <1>0, <3>1
  <2>3. CASE Steps(c, [at |-> "wait", polls |-> client[c].polls + 1, seen |-> Owner(c)])
    <3>1. Hushed
      BY <1>2, <2>3
    <3> QED BY <1>0, <3>1
  <2> QED BY <1>22, <2>1, <2>2, <2>3 DEF StartPoll
<1> QED BY <1>3, <1>4, <1>5, <1>6, <1>7, <1>8, <1>9, <1>10, <1>11, <1>12, <1>13, <1>14, <1>15, <1>16,
           <1>17, <1>18, <1>19, <1>20, <1>21, <1>22 DEF ClientStep

\* No recorder comes back from where it is, and only its own first heartbeat is new.
LEMMA RecordersRise ==
  ASSUME OwnTypes, NEW i \in Instances, RecorderStep(i) \/ Dies(i)
  PROVE  /\ Rises /\ UNCHANGED client
         /\ ownBeat' # 0 => ownBeat' = ownBeat \/ OpenedIn(ownBeat', recorder')
<1>1. recorder \in [Instances -> Recorders] /\ recorder[i] \in Recorders
  BY DEF OwnTypes
<1>2. UNCHANGED client
  BY DEF RecorderStep, Dies, Claim, Refused, TruncateOwner, WriteOwner, FirstHeartbeat,
         ClearHeartbeat, Release, DiesUnhandled
<1>3. \A j \in Instances : j # i => recorder'[j] = recorder[j]
  BY <1>1 DEF RecorderStep, Dies, Claim, Refused, TruncateOwner, WriteOwner, FirstHeartbeat,
              ClearHeartbeat, Release, DiesUnhandled, StageTo
<1>4. OpenedIn(i, recorder) => recorder'[i].stage \in {"recording", "closing", "gone"}
  BY <1>1 DEF RecorderStep, Dies, Claim, Refused, TruncateOwner, WriteOwner, FirstHeartbeat,
              ClearHeartbeat, Release, DiesUnhandled, StageTo, OpenedIn, Recorders
<1>5. Rises
  BY <1>3, <1>4 DEF Rises, OpenedIn
<1>6. CASE FirstHeartbeat(i)
  <2>1. recorder'[i].stage = "recording" /\ ownBeat' = i
    BY <1>1, <1>6 DEF FirstHeartbeat, StageTo, Recorders
  <2> QED BY <1>2, <1>5, <2>1 DEF OpenedIn
<1>7. CASE ~FirstHeartbeat(i)
  <2>1. ownBeat' \in {ownBeat, 0}
    BY <1>7 DEF RecorderStep, Dies, Claim, Refused, TruncateOwner, WriteOwner,
                ClearHeartbeat, Release, DiesUnhandled
  <2> QED BY <1>2, <1>5, <2>1
<1> QED BY <1>6, <1>7

LEMMA LaunchRises ==
  ASSUME OwnTypes, LaunchdStep \/ ForegroundStart \/ BeatGoesStale
  PROVE  Rises /\ UNCHANGED client /\ ownBeat' \in {ownBeat, 0}
<1>1. ASSUME NEW i \in Instances, NEW mode, Launch(i, mode)
      PROVE  Rises /\ UNCHANGED client /\ ownBeat' = ownBeat
  <2>1. \A j \in Instances : j # i => recorder'[j] = recorder[j]
    BY <1>1 DEF Launch, OwnTypes
  <2>2. ~OpenedIn(i, recorder)
    BY <1>1 DEF Launch, OpenedIn
  <2> QED BY <1>1, <2>1, <2>2 DEF Launch, Rises, OpenedIn
<1>2. UNCHANGED recorder => Rises
  BY DEF Rises, OpenedIn
<1> QED BY <1>1, <1>2 DEF LaunchdStep, AgentSpawns, AgentRemoved, ForegroundStart, BeatGoesStale

\* The commands' steps leave the stages as they are.
LEMMA CommandsRise ==
  ASSUME OwnTypes, NEW c \in Clients, ClientStep(c)
  PROVE  Rises /\ ownBeat' = ownBeat
<1>1. UNCHANGED recorder => Rises
  BY DEF Rises, OpenedIn
<1>2. ownBeat' = ownBeat
  BY DEF ClientStep, ProbeTry, ProbeUnlock, ProbeRead, ProbeReadsNothing, StopFound, StopConfirmed,
         StopSignals, Bootout, Unlink, StopWaits, RemovalSeen, StartChecked, DirectoryRefused,
         StartLocks, StartPrepares, InstallPlist, Bootstrap, ReadStatus, StoreLocked, StartPoll,
         Steps, Ends, EndsWith
<1>3. CASE StopSignals(c) \/ Bootout(c)
  <2>1. \A i \in Instances : recorder'[i].stage = recorder[i].stage
    <3>1. recorder \in [Instances -> Recorders]
      BY DEF OwnTypes
    <3>2. CASE UNCHANGED recorder
      BY <3>2
    <3>3. ASSUME NEW i, recorder' = [recorder EXCEPT ![i].term = TRUE]
          PROVE  \A j \in Instances : recorder'[j].stage = recorder[j].stage
      BY <3>1, <3>3 DEF Recorders
    <3>4. CASE recorder' = [i \in Instances |-> IF recorder[i].mode = "launchd" /\ Alive(i)
                                                THEN [recorder[i] EXCEPT !.term = TRUE] ELSE recorder[i]]
      BY <3>1, <3>4 DEF Recorders
    <3> QED BY <1>3, <3>2, <3>3, <3>4 DEF StopSignals, Bootout, Ends, EndsWith
  <2> QED BY <1>2, <2>1 DEF Rises, OpenedIn
<1>4. CASE ~StopSignals(c) /\ ~Bootout(c)
  <2>1. UNCHANGED recorder
    BY <1>4 DEF ClientStep, ProbeTry, ProbeUnlock, ProbeRead, ProbeReadsNothing, StopFound, StopConfirmed,
           Unlink, StopWaits, RemovalSeen, StartChecked, DirectoryRefused,
           StartLocks, StartPrepares, InstallPlist, Bootstrap, ReadStatus, StoreLocked, StartPoll,
           Steps, Ends, EndsWith
  <2> QED BY <1>1, <1>2, <2>1
<1> QED BY <1>3, <1>4

LEMMA BeatsKept ==
  ASSUME OwnTypes, BeatsOpened, OwnershipNext \/ UNCHANGED ownVars
  PROVE  BeatsOpened'
<1>1. UNCHANGED client => Looked
  BY DEF Looked
<1>2. CASE LaunchdStep \/ ForegroundStart \/ BeatGoesStale
  BY <1>1, <1>2, LaunchRises, BeatsStay
<1>3. ASSUME NEW i \in Instances, RecorderStep(i) \/ Dies(i)
      PROVE  BeatsOpened'
  BY <1>1, <1>3, RecordersRise, BeatsStay
<1>4. ASSUME NEW c \in Clients, ClientStep(c)
      PROVE  BeatsOpened'
  BY <1>4, CommandsRise, OnlyPollsStart, BeatsStay
<1>5. ASSUME NEW c \in Clients, BeginStatus(c) \/ BeginStop(c) \/ BeginStart(c)
      PROVE  BeatsOpened'
  <2>1. PICK then : Begin(c, then)
    BY <1>5 DEF BeginStatus, BeginStop, BeginStart
  <2>2. UNCHANGED <<recorder, ownBeat>>
    BY <2>1 DEF Begin
  <2> QED BY <2>1, <2>2, BeginsLooking, BeatsStay DEF Rises, OpenedIn
<1>6. CASE UNCHANGED ownVars
  <2>1. UNCHANGED <<client, recorder, ownBeat>>
    BY <1>6 DEF ownVars
  <2> QED BY <1>1, <2>1, BeatsStay DEF Rises, OpenedIn
<1> QED BY <1>2, <1>3, <1>4, <1>5, <1>6 DEF OwnershipNext

\* A start names the recorder it watched, once that recorder's heartbeat is in the store.
LEMMA StartsAreTrue ==
  ASSUME OwnTypes, BeatsOpened, OwnershipNext
  PROVE  StartTellsTheTruth
<1>1. Unstarted => StartTellsTheTruth
  BY DEF Unstarted, StartTellsTheTruth
<1>2. UNCHANGED client => Unstarted
  BY DEF Unstarted
<1>3. ASSUME NEW c \in Clients, StartPoll(c), EndsWith(c, "started", Owner(c))
      PROVE  StartTellsTheTruth
  <2>1. /\ client'[c].target = Owner(c)
        /\ \A d \in Clients : d # c => client'[d] = client[d]
    BY <1>3, LeavesLooking DEF EndsWith
  <2>2. ~Unstarted => Owner(c) # 0 /\ HasFreshHeartbeat(c) /\ client[c].seen \in {0, Owner(c)}
    <3>1. CASE client[c].seen # 0 /\ Owner(c) # client[c].seen
      <4>1. Leaves(c, "did_not_start", 0)
        BY <1>3, <3>1 DEF StartPoll, Ends, EndsWith
      <4> QED BY <4>1, LeavesLooking
    <3>2. CASE ~(client[c].seen # 0 /\ Owner(c) # client[c].seen) /\ Owner(c) # 0 /\ HasFreshHeartbeat(c)
      BY <3>2
    <3>3. CASE ~(client[c].seen # 0 /\ Owner(c) # client[c].seen) /\ ~(Owner(c) # 0 /\ HasFreshHeartbeat(c))
      <4>1. CASE Steps(c, [at |-> "wait", polls |-> client[c].polls + 1, seen |-> Owner(c)])
        BY <4>1, MovesLooking DEF Steps
      <4>2. CASE Leaves(c, "did_not_start", 0)
        BY <4>2, LeavesLooking
      <4> QED BY <1>3, <3>3, <4>1, <4>2 DEF StartPoll, Ends, EndsWith
    <3> QED BY <3>1, <3>2, <3>3
  <2>3. ~Unstarted => OpenedIn(Owner(c), recorder)
    BY <2>2 DEF BeatsOpened, HasFreshHeartbeat
  <2> QED BY <1>1, <2>1, <2>2, <2>3 DEF StartTellsTheTruth, Opened, OpenedIn
<1>4. CASE LaunchdStep \/ ForegroundStart \/ BeatGoesStale
  BY <1>1, <1>2, <1>4, LaunchRises
<1>5. ASSUME NEW i \in Instances, RecorderStep(i) \/ Dies(i)
      PROVE  StartTellsTheTruth
  BY <1>1, <1>2, <1>5, RecordersRise
<1>6. ASSUME NEW c \in Clients, BeginStatus(c) \/ BeginStop(c) \/ BeginStart(c)
      PROVE  StartTellsTheTruth
  <2>1. PICK then : Begin(c, then)
    BY <1>6 DEF BeginStatus, BeginStop, BeginStart
  <2> QED BY <1>1, <2>1, BeginsLooking
<1>7. ASSUME NEW c \in Clients, ClientStep(c)
      PROVE  StartTellsTheTruth
  BY <1>1, <1>3, <1>7, OnlyPollsStart
<1> QED BY <1>4, <1>5, <1>6, <1>7 DEF OwnershipNext

-----------------------------------------------------------------------------
(* The specifications.                                                     *)

LEMMA OwnershipStutters ==
  ASSUME OwnershipInv, UNCHANGED ownVars
  PROVE  OwnershipInv'
<1>1. client' = client /\ ownLock' = ownLock /\ startLock' = startLock /\ recorder' = recorder
  BY DEF ownVars
<1>2. OwnTypes' /\ RecordNamesHolder' /\ NameKept' /\ PlistFollowed'
  BY DEF OwnershipInv, ownVars, OwnTypes, RecordNamesHolder, HoldsStore, NameKept, PlistFollowed, At
<1> QED BY <1>1, <1>2 DEF OwnershipInv

\* The invariant of the recorders, the commands, the two locks and the plist
\* (daemon/ownership.rs, daemon/control.rs, commands/control.rs).
THEOREM OwnershipInvariant == OwnershipSpec => []OwnershipInv
<1>1. OwnershipInit => OwnershipInv
  BY OwnershipStarts
<1>2. OwnershipInv /\ [OwnershipNext]_ownVars => OwnershipInv'
  BY OwnershipStays, OwnershipStutters
<1> QED BY <1>1, <1>2, PTL DEF OwnershipSpec

\* Whatever probes, refusals, deaths and overlapping commands do, the owner record names
\* the recorder that holds the store and no plist is left without a service
\* (ownership.rs, control.rs).
THEOREM OwnershipIsSafe == OwnershipSpec => [](OwnershipTypeOK /\ OwnershipSafe)
<1>1. OwnershipInv => OwnershipTypeOK /\ OwnershipSafe
  BY OwnershipFollows
<1> QED BY <1>1, OwnershipInvariant, PTL

\* The same of the composition the run checks, that a stop says "stopped" only of a
\* recorder that has given up the store and of a service launchd no longer has, and that a
\* start says "started" only of the one recorder it watched open the store.
THEOREM OwnershipIsKept == LivenessSpec => OwnershipKept
<1> DEFINE Inv == part = "own" => OwnershipInv /\ BeatsOpened
           Kept == part = "own" => OwnershipTypeOK /\ OwnershipSafe
           Tells == part = "own" => StopTellsTheTruth /\ StartTellsTheTruth
<1>1. LivenessInit => Inv
  <2>1. OwnershipInit => BeatsOpened
    BY DEF OwnershipInit, BeatsOpened, IdleClient
  <2> QED BY <2>1, OwnershipStarts DEF LivenessInit
<1>2. Inv /\ [LivenessNext]_livenessVars => Inv'
  <2> SUFFICES ASSUME Inv, [LivenessNext]_livenessVars, part' = "own"
               PROVE  OwnershipInv' /\ BeatsOpened'
    OBVIOUS
  <2>1. CASE UNCHANGED livenessVars
    <3>1. part = "own" /\ UNCHANGED ownVars
      BY <2>1 DEF livenessVars, ownOnly, ownVars
    <3> QED BY <3>1, OwnershipStutters, BeatsKept DEF OwnershipInv
  <2>2. CASE LivenessNext
    <3>1. part = "own" /\ OwnershipNext
      BY <2>2 DEF LivenessNext
    <3> QED BY <3>1, OwnershipStays, BeatsKept DEF OwnershipInv
  <2> QED BY <2>1, <2>2
<1>3. Inv => Kept
  BY OwnershipFollows
<1>4. Inv /\ [LivenessNext]_livenessVars => [Tells]_livenessVars
  <2> SUFFICES ASSUME Inv, LivenessNext, part = "own"
               PROVE  StopTellsTheTruth /\ StartTellsTheTruth
    OBVIOUS
  <2>1. OwnershipNext
    BY DEF LivenessNext
  <2> QED BY <2>1, StopsAreTrue, StartsAreTrue DEF OwnershipInv
<1>5. LivenessSpec => LivenessInit /\ [][LivenessNext]_livenessVars
  BY PTL DEF LivenessSpec
<1> HIDE DEF Inv, Kept, Tells
<1>6. LivenessSpec => []Kept /\ [][Tells]_livenessVars
  BY <1>1, <1>2, <1>3, <1>4, <1>5, PTL
<1> QED BY <1>6 DEF OwnershipKept, Kept, Tells
=============================================================================
