--------------------------- MODULE TypedTextProofs --------------------------
(***************************************************************************)
(* Proofs about TypedText for any fields, rulings, page versions, queue    *)
(* capacities and times: what is recorded as typed was typed into its      *)
(* field under keys that were let through, once, and never while a known   *)
(* gap in the sequence of keys stands.                                     *)
(***************************************************************************)
EXTENDS CaptureMC, FiniteSetTheorems, TLAPS

-----------------------------------------------------------------------------
(* Picking entries of a queue.                                             *)

\* What lies below k in a finite set of naturals counts it.
LEMMA BelowGrows ==
  ASSUME NEW I, I \subseteq Int, IsFiniteSet(I), NEW i \in I, NEW k \in I, i < k
  PROVE  Cardinality({j \in I : j < i}) < Cardinality({j \in I : j < k})
<1> DEFINE Lower == {j \in I : j < i}
           Upper == {j \in I : j < k}
<1>1. Lower \subseteq Upper /\ i \in Upper /\ i \notin Lower
  <2>1. i \in Int /\ k \in Int /\ \A j \in I : j \in Int
    OBVIOUS
  <2>2. \A j \in I : j < i => j < k
    BY <2>1
  <2>3. i < k /\ ~(i < i)
    BY <2>1
  <2> QED BY <2>2, <2>3
<1>2. IsFiniteSet(Upper)
  BY FS_Subset
<1> HIDE DEF Lower, Upper
<1>3. IsFiniteSet(Lower) /\ Cardinality(Lower) <= Cardinality(Upper)
      /\ Cardinality(Upper) # Cardinality(Lower)
  BY <1>1, <1>2, FS_Subset
<1>4. Cardinality(Lower) \in Nat /\ Cardinality(Upper) \in Nat
  BY <1>2, <1>3, FS_CardinalityType
<1> QED BY <1>3, <1>4 DEF Lower, Upper

LEMMA BelowCounts ==
  ASSUME NEW I, I \subseteq Int, IsFiniteSet(I), NEW i \in I
  PROVE  Cardinality({j \in I : j < i}) \in 0..Cardinality(I) - 1
<1> DEFINE Lower == {j \in I : j < i}
<1>1. Lower \subseteq I /\ i \notin Lower
  OBVIOUS
<1> HIDE DEF Lower
<1>2. IsFiniteSet(Lower) /\ Cardinality(Lower) <= Cardinality(I) /\ Cardinality(Lower) # Cardinality(I)
  BY <1>1, FS_Subset
<1>3. Cardinality(Lower) \in Nat /\ Cardinality(I) \in Nat
  BY <1>2, FS_CardinalityType
<1> QED BY <1>2, <1>3 DEF Lower

\* Each place of a finite set of naturals has a member.
LEMMA Placed ==
  ASSUME NEW I, I \subseteq Int, IsFiniteSet(I), NEW n \in 1..Cardinality(I)
  PROVE  \E i \in I : Cardinality({j \in I : j < i}) = n - 1
<1> DEFINE N == Cardinality(I)
           rank == [i \in I |-> Cardinality({j \in I : j < i})]
<1>1. N \in Nat
  BY FS_CardinalityType
<1>2. rank \in [I -> 0..N - 1]
  BY BelowCounts
<1>3. ASSUME NEW i \in I, NEW k \in I, rank[i] = rank[k]
      PROVE  i = k
  <2>1. rank[i] \in Int /\ rank[k] \in Int
    BY <1>1, <1>2
  <2>2. i < k => rank[i] < rank[k]
    BY BelowGrows
  <2>3. k < i => rank[k] < rank[i]
    BY BelowGrows
  <2>4. i \in Int /\ k \in Int
    OBVIOUS
  <2> HIDE DEF rank
  <2>5. ~(i < k) /\ ~(k < i)
    BY <1>3, <2>1, <2>2, <2>3
  <2> QED BY <2>4, <2>5
<1>4. /\ IsFiniteSet(0..N - 1) /\ Cardinality(0..N - 1) = N
      /\ n - 1 \in 0..N - 1
  <2>1. 0 \in Int /\ N - 1 \in Int /\ n \in 1..N
    BY <1>1
  <2>2. /\ IsFiniteSet(0..N - 1)
        /\ Cardinality(0..N - 1) = IF 0 > N - 1 THEN 0 ELSE (N - 1) - 0 + 1
    BY <2>1, FS_Interval
  <2> HIDE DEF N
  <2> QED BY <1>1, <2>1, <2>2
<1>5. SUFFICES ASSUME \A i \in I : rank[i] # n - 1
               PROVE  FALSE
  OBVIOUS
<1>6. rank \in [I -> (0..N - 1) \ {n - 1}]
  <2> HIDE DEF rank, N
  <2> QED BY <1>2, <1>5
<1>7. /\ IsFiniteSet((0..N - 1) \ {n - 1})
      /\ Cardinality((0..N - 1) \ {n - 1}) = N - 1
  <2> DEFINE T == 0..N - 1
             m == n - 1
  <2>1. IsFiniteSet(T) /\ Cardinality(T) = N /\ m \in T
    BY <1>4
  <2> HIDE DEF N, T, m
  <2>2. IsFiniteSet(T \ {m}) /\ Cardinality(T \ {m}) = N - 1
    BY <2>1, FS_RemoveElement
  <2> QED BY <2>2 DEF T, m
<1>8. \E i, k \in I : i # k /\ rank[i] = rank[k]
  <2>1. N - 1 < Cardinality(I)
    BY <1>1
  <2> HIDE DEF rank, N
  <2> QED BY <1>6, <1>7, <2>1, FS_PigeonHole
<1> QED BY <1>3, <1>8

LEMMA PlacesFinite ==
  ASSUME NEW S, NEW q \in Seq(S), NEW P, P \subseteq DOMAIN q
  PROVE  IsFiniteSet(P) /\ Cardinality(P) \in Nat /\ P \subseteq Int
<1>1. DOMAIN q = 1..Len(q) /\ Len(q) \in Nat
  OBVIOUS
<1>2. 1 \in Int /\ Len(q) \in Int
  BY <1>1
<1>3. IsFiniteSet(1..Len(q))
  BY <1>2, FS_Interval
<1> QED BY <1>1, <1>3, FS_Subset, FS_CardinalityType

\* What is picked of a queue is a queue of the same.
LEMMA PickedTyped ==
  ASSUME NEW S, NEW q \in Seq(S), NEW P, P \subseteq DOMAIN q
  PROVE  Picked(q, P) \in Seq(S)
<1> DEFINE Place(k) == CHOOSE i \in P : Cardinality({j \in P : j < i}) = k - 1
<1>1. IsFiniteSet(P) /\ Cardinality(P) \in Nat /\ P \subseteq Int
  BY PlacesFinite
<1>2. ASSUME NEW k \in 1..Cardinality(P)
      PROVE  Place(k) \in P
  BY <1>1, Placed
<1>3. \A i \in P : q[i] \in S
  OBVIOUS
<1> HIDE DEF Place
<1>4. [k \in 1..Cardinality(P) |-> q[Place(k)]] \in Seq(S)
  BY <1>1, <1>2, <1>3
<1> QED BY <1>4 DEF Picked, Place

-----------------------------------------------------------------------------
(* TypedText: what is recorded as typed.                                    *)

\* Picking takes the entries at the places, each once.
LEMMA PickedPlaces ==
  ASSUME NEW S, NEW q \in Seq(S), NEW P, P \subseteq DOMAIN q
  PROVE  \E f \in [1..Cardinality(P) -> P] :
           /\ Picked(q, P) = [k \in 1..Cardinality(P) |-> q[f[k]]]
           /\ \A k, l \in 1..Cardinality(P) : f[k] = f[l] => k = l
           /\ \A i \in P : \E k \in 1..Cardinality(P) : f[k] = i
<1> DEFINE N == Cardinality(P)
           Below(i) == Cardinality({j \in P : j < i})
           Place(k) == CHOOSE i \in P : Below(i) = k - 1
           f == [k \in 1..N |-> Place(k)]
<1>1. IsFiniteSet(P) /\ N \in Nat /\ P \subseteq Int
  BY PlacesFinite
<1>2. ASSUME NEW k \in 1..N
      PROVE  Place(k) \in P /\ Below(Place(k)) = k - 1
  <2>1. \E i \in P : Below(i) = k - 1
    BY <1>1, Placed
  <2> QED BY <2>1
<1>3. Picked(q, P) = [k \in 1..N |-> q[Place(k)]]
  BY DEF Picked
<1>4. ASSUME NEW i \in P, NEW k \in P, Below(i) = Below(k)
      PROVE  i = k
  <2>1. \A n, m \in P : n < m => Below(n) < Below(m)
    BY <1>1, BelowGrows
  <2>2. \A n \in P : Below(n) \in 0..N - 1
    BY <1>1, BelowCounts
  <2> HIDE DEF Below, N
  <2>3. Below(i) \in Int /\ Below(k) \in Int /\ i \in Int /\ k \in Int
    BY <1>1, <2>2
  <2>4. ~(i < k) /\ ~(k < i)
    BY <1>4, <2>1, <2>3
  <2> QED BY <2>3, <2>4
<1>5. \A i \in P : Below(i) \in 0..N - 1
  BY <1>1, BelowCounts
<1> HIDE DEF Place, Below, N
<1>6. f \in [1..N -> P]
  BY <1>2
<1>7. ASSUME NEW k \in 1..N, NEW l \in 1..N, f[k] = f[l] PROVE k = l
  <2>1. k - 1 = l - 1
    BY <1>2, <1>7
  <2> QED BY <1>1, <2>1
<1>8. ASSUME NEW i \in P PROVE \E k \in 1..N : f[k] = i
  <2>1. Below(i) + 1 \in 1..N /\ (Below(i) + 1) - 1 = Below(i)
    BY <1>1, <1>5
  <2>2. Place(Below(i) + 1) = i
    BY <1>2, <1>4, <2>1
  <2> QED BY <2>1, <2>2
<1>9. Picked(q, P) = [k \in 1..N |-> q[f[k]]]
  BY <1>3
<1> HIDE DEF f
<1> QED BY <1>6, <1>7, <1>8, <1>9 DEF N

LEMMA PickedEntries ==
  ASSUME NEW S, NEW q \in Seq(S), NEW P, P \subseteq DOMAIN q
  PROVE  /\ Picked(q, P) \in Seq(S) /\ Entries(Picked(q, P)) = {q[i] : i \in P}
         /\ Len(Picked(q, P)) <= Len(q)
<1> DEFINE N == Cardinality(P)
<1>1. IsFiniteSet(P) /\ N \in Nat /\ P \subseteq Int
  BY PlacesFinite
<1>2. PICK f \in [1..N -> P] : /\ Picked(q, P) = [k \in 1..N |-> q[f[k]]]
                               /\ \A i \in P : \E k \in 1..N : f[k] = i
  BY PickedPlaces
<1>3. Picked(q, P) \in Seq(S)
  BY PickedTyped
<1>4. N <= Len(q)
  <2>1. DOMAIN q = 1..Len(q) /\ Len(q) \in Nat /\ 1 \in Int /\ Len(q) \in Int
    OBVIOUS
  <2>2. IsFiniteSet(1..Len(q)) /\ Cardinality(1..Len(q)) = IF 1 > Len(q) THEN 0 ELSE Len(q) - 1 + 1
    BY <2>1, FS_Interval
  <2>3. Cardinality(1..Len(q)) = Len(q)
    BY <2>1, <2>2
  <2> QED BY <2>1, <2>2, <2>3, FS_Subset
<1> HIDE DEF N
<1>5. Len(Picked(q, P)) = N /\ DOMAIN Picked(q, P) = 1..N
  BY <1>1, <1>2, <1>3
<1>6. Entries(Picked(q, P)) = {q[i] : i \in P}
  BY <1>2, <1>5 DEF Entries
<1> QED BY <1>3, <1>4, <1>5, <1>6

\* The greatest of some places.
LEMMA GreatestIs ==
  ASSUME NEW I, I \subseteq Int, NEW n \in I, \A m \in I : m <= n
  PROVE  Greatest(I) = n
<1>1. ASSUME NEW k \in I, \A m \in I : m <= k PROVE k = n
  <2>1. k \in Int /\ n \in Int /\ k <= n /\ n <= k
    BY <1>1
  <2> QED BY <2>1
<1>2. \E k \in I : \A m \in I : m <= k
  OBVIOUS
<1> QED BY <1>1, <1>2 DEF Greatest

LEMMA GreatestFound ==
  ASSUME NEW S, NEW q \in Seq(S), NEW P, P \subseteq DOMAIN q, P # {}
  PROVE  Greatest(P) \in P /\ \A m \in P : m <= Greatest(P)
<1> DEFINE N == Cardinality(P)
           Below(i) == Cardinality({j \in P : j < i})
<1>1. IsFiniteSet(P) /\ N \in Nat /\ P \subseteq Int
  BY PlacesFinite
<1>2. N \in 1..N
  <2>1. N # 0
    BY <1>1, FS_EmptySet
  <2> QED BY <1>1, <2>1
<1>3. PICK i \in P : Below(i) = N - 1
  BY <1>1, <1>2, Placed
<1>4. \A n, m \in P : n < m => Below(n) < Below(m)
  BY <1>1, BelowGrows
<1>5. \A n \in P : Below(n) \in 0..N - 1
  BY <1>1, BelowCounts
<1> HIDE DEF Below, N
<1>6. ASSUME NEW m \in P PROVE m <= i
  <2>1. m \in Int /\ i \in Int /\ Below(m) \in Int /\ Below(m) <= N - 1 /\ Below(i) \in Int
    BY <1>1, <1>5
  <2>2. ~(i < m)
    BY <1>1, <1>3, <1>4, <2>1
  <2> QED BY <2>1, <2>2
<1> QED BY <1>1, <1>6, GreatestIs

LEMMA EntriesIn ==
  ASSUME NEW S, NEW q \in Seq(S)
  PROVE  Entries(q) \subseteq S
  BY DEF Entries

LEMMA EntriesJoined ==
  ASSUME NEW S, NEW q \in Seq(S), NEW r \in Seq(S)
  PROVE  q \o r \in Seq(S) /\ Entries(q \o r) = Entries(q) \cup Entries(r)
<1>1. \A i \in 1..Len(r) : i + Len(q) \in 1..Len(q \o r) /\ (q \o r)[i + Len(q)] = r[i]
  OBVIOUS
<1>2. \A i \in 1..Len(q) : i \in 1..Len(q \o r) /\ (q \o r)[i] = q[i]
  OBVIOUS
<1>3. \A i \in 1..Len(q \o r) : i \notin 1..Len(q) => i - Len(q) \in 1..Len(r) /\ (q \o r)[i] = r[i - Len(q)]
  OBVIOUS
<1>4. q \o r \in Seq(S) /\ DOMAIN q = 1..Len(q) /\ DOMAIN r = 1..Len(r) /\ DOMAIN (q \o r) = 1..Len(q \o r)
  OBVIOUS
<1>5. ASSUME NEW x \in Entries(q \o r) PROVE x \in Entries(q) \cup Entries(r)
  <2>1. PICK i \in 1..Len(q \o r) : x = (q \o r)[i]
    BY <1>4, <1>5 DEF Entries
  <2> QED BY <1>2, <1>3, <1>4, <2>1 DEF Entries
<1>6. ASSUME NEW x \in Entries(q) \cup Entries(r) PROVE x \in Entries(q \o r)
  <2>1. CASE x \in Entries(q)
    BY <1>2, <1>4, <2>1 DEF Entries
  <2>2. CASE x \in Entries(r)
    BY <1>1, <1>4, <2>2 DEF Entries
  <2> QED BY <1>6, <2>1, <2>2
<1> QED BY <1>4, <1>5, <1>6

LEMMA EntriesAppended ==
  ASSUME NEW S, NEW q \in Seq(S), NEW x \in S
  PROVE  Append(q, x) \in Seq(S) /\ Entries(Append(q, x)) = Entries(q) \cup {x}
<1>1. /\ Append(q, x) \in Seq(S) /\ DOMAIN Append(q, x) = 1..Len(q) + 1 /\ DOMAIN q = 1..Len(q)
      /\ Append(q, x)[Len(q) + 1] = x /\ Len(q) \in Nat
      /\ \A i \in 1..Len(q) : Append(q, x)[i] = q[i]
  OBVIOUS
<1>2. Len(q) + 1 \in 1..Len(q) + 1 /\ \A i \in 1..Len(q) + 1 : i = Len(q) + 1 \/ i \in 1..Len(q)
  BY <1>1
<1>3. \A i \in 1..Len(q) : i \in 1..Len(q) + 1
  BY <1>1
<1> QED BY <1>1, <1>2, <1>3 DEF Entries

-----------------------------------------------------------------------------
(* What the proofs say of a capture, a book and the keys.                   *)

AttemptStates == {"none", "pending", "confirmed", "rejected", "invalidated"}
Attempts == [kind : {"activity", "rejected", "key"}, state : AttemptStates, at : Nat,
             generation : Nat, element : Elements \cup {0}]
Values == Seq(Nat)
ChangeSteps == [value : Values, matched : SUBSET Nat]
Runs == [first : Nat, last : Nat, value : Values, decision : Rulings,
         steps : Seq(ChangeSteps) \ {<<>>}]
Captures == [generation : Nat \ {0}, element : Elements, text : BOOLEAN, baseline : Values,
             rebaseline : BOOLEAN, pending : Runs \cup {NoPending}, notifies : BOOLEAN]
Presses == [version : Nat, secure : BOOLEAN, authorization : Nat]
Texts == [text : Values, by : SUBSET Nat, element : Elements, generation : Nat]
Books == [attempts : Seq(Attempts), history : Seq(Nat), emitted : Seq(Texts)]

\* Where the text of a capture could start: what it found, and after every change.
Starts(c) == {c.baseline} \cup {c.pending.steps[i].value : i \in DOMAIN c.pending.steps}

\* Where it does: after the last change that no key explains, or later.
After(c, j) == \A k \in DOMAIN c.pending.steps : c.pending.steps[k].matched = {} => k <= j
Heads(c) ==
  IF c.pending # NoPending /\ c.pending.decision \in Denied THEN {c.pending.value}
  ELSE {c.pending.steps[j].value : j \in {k \in DOMAIN c.pending.steps : After(c, k)}}
       \cup {v \in {c.baseline} : After(c, 0)}

Unrepeated(w) == \A i, j \in DOMAIN w : w[i] = w[j] => i = j

\* What a field holds after it held v: more of the same, or nothing of it.
BeginsWith(v, w) == Len(v) <= Len(w) /\ \A i \in 1..Len(v) : w[i] = v[i]
Succeeds(v, w) == BeginsWith(v, w) \/ Entries(v) \cap Entries(w) = {}

\* A capture that reads a value: whatever of it is claimed by a text or another capture, or
\* is not to be recorded, was there where its own text starts.
Seen(c, claimed, banned, w) ==
  /\ Unrepeated(w)
  /\ \A v \in Starts(c) \ {Unread} : Succeeds(v, w) /\ Entries(w) \cap claimed \subseteq Entries(v)
  /\ \A v \in Heads(c) \ {Unread} :
       \A x \in Entries(w) : <<c.generation, x>> \in banned => x \in Entries(v)

Ready(c, claimed, banned) ==
  c.pending # NoPending /\ c.pending.value # Unread => Seen(c, claimed, banned, c.pending.value)

Fits(c, n) ==
  /\ c \in Captures
  /\ \A v \in Starts(c) : v = Unread \/ Entries(v) \subseteq 1..n
  /\ c.pending # NoPending => c.pending.value = c.pending.steps[Len(c.pending.steps)].value

\* The keys after a restart that were aimed at a capture's generation were aimed at its
\* field, and its run of changes rests on keys of its generation.
Aimed(c, att, since) ==
  /\ \A s \in DOMAIN att : s > since /\ att[s].kind = "key" /\ att[s].generation = c.generation
                             => att[s].element = c.element
  /\ \A i \in DOMAIN c.pending.steps : \A s \in c.pending.steps[i].matched :
       s \in DOMAIN att /\ att[s].kind = "key" /\ att[s].generation = c.generation

\* What the runs of changes hold that are not recorded yet, and what is recorded.
Unspelled(c) == IF c.pending = NoPending THEN {} ELSE Entries(c.pending.value)
UnspelledBefore(q, i) == UNION {Unspelled(q[j]) : j \in {k \in DOMAIN q : k < i}}
Spelled(texts) == UNION {Entries(texts[k].text) : k \in DOMAIN texts}

\* What a capture records of its run of changes.
SaidOf(e, c, claimed, banned, states) ==
  /\ e \in Texts /\ e.element = c.element /\ e.generation = c.generation
  /\ Entries(e.text) \subseteq Unspelled(c) /\ Entries(e.text) \cap claimed = {}
  /\ \A x \in Entries(e.text) : <<c.generation, x>> \notin banned
  /\ e.by # {}
  /\ \E i \in DOMAIN c.pending.steps : e.by \subseteq c.pending.steps[i].matched
  /\ \A s \in e.by : states[s].state = "confirmed"

\* An attempt keeps what it is, and one that is resolved stays so.
Steady(att, new) ==
  /\ Len(new) = Len(att)
  /\ \A s \in DOMAIN att :
       /\ new[s].kind = att[s].kind /\ new[s].at = att[s].at
       /\ new[s].generation = att[s].generation /\ new[s].element = att[s].element
       /\ Opens(new, s) => Opens(att, s)

\* A book of some attempts: a key that can still explain a change is in the history, and no
\* loss is known that voids it.
Standing(b, att, loss, now) ==
  /\ b \in Books
  /\ Steady(att, b.attempts)
  /\ b.history \in Seq(1..Len(att)) /\ Len(b.history) <= Capacity
  /\ \A s \in DOMAIN att : Opens(b.attempts, s) /\ now - att[s].at <= Window
                             => s \in Entries(b.history) /\ s > loss

\* A reading of a field that holds w.
Reads(o, w) ==
  /\ o.text \in BOOLEAN /\ o.sampled \in BOOLEAN /\ o.at \in Nat /\ o.decision \in Rulings
  /\ o.value = IF o.decision \in Denied THEN Unread ELSE w

-----------------------------------------------------------------------------
(* text_delta: what was added.                                              *)

LEMMA StretchIs ==
  ASSUME NEW S, NEW w \in Seq(S), NEW m \in 1..Len(w) + 1, NEW n \in 0..Len(w), m <= n + 1
  PROVE  /\ SubSeq(w, m, n) \in Seq(S) /\ Len(SubSeq(w, m, n)) = n - m + 1
         /\ DOMAIN SubSeq(w, m, n) = 1..n - m + 1
         /\ \A i \in 1..n - m + 1 : SubSeq(w, m, n)[i] = w[m + i - 1] /\ m + i - 1 \in 1..Len(w)
<1>1. \A i \in 1..n - m + 1 : m + i - 1 \in 1..Len(w)
  OBVIOUS
<1>2. SubSeq(w, m, n) = [i \in 1..n - m + 1 |-> w[m + i - 1]]
  OBVIOUS
<1>3. n - m + 1 \in Nat /\ \A i \in 1..n - m + 1 : w[m + i - 1] \in S
  BY <1>1
<1>4. [i \in 1..n - m + 1 |-> w[m + i - 1]] \in Seq(S)
  BY <1>3
<1> QED BY <1>1, <1>2, <1>3, <1>4

LEMMA EntryAt ==
  ASSUME NEW S, NEW w \in Seq(S)
  PROVE  /\ \A i \in 1..Len(w) : w[i] \in Entries(w)
         /\ \A x \in Entries(w) : \E i \in 1..Len(w) : x = w[i]
         /\ Len(w) \in Nat /\ DOMAIN w = 1..Len(w)
  BY DEF Entries

LEMMA DeltaOfMore ==
  ASSUME NEW v \in Values, NEW w \in Values, BeginsWith(v, w), Unrepeated(w), Len(v) < Len(w)
  PROVE  /\ TextDelta(v, w) \in Values /\ Entries(TextDelta(v, w)) \subseteq Entries(w)
         /\ Entries(TextDelta(v, w)) \cap Entries(v) = {}
<1> DEFINE Common(n) == SubSeq(v, 1, n) = SubSeq(w, 1, n)
           n == Len(v)
           said == SubSeq(w, n + 1, Len(w))
<1>1. n \in Nat /\ Len(w) \in Nat /\ n < Len(w)
  BY DEF Values
<1>2. Common(n)
  <2>1. /\ SubSeq(v, 1, n) = [i \in 1..n |-> v[i]] /\ SubSeq(w, 1, n) = [i \in 1..n |-> w[i]]
    BY <1>1 DEF Values
  <2>2. \A i \in 1..n : w[i] = v[i]
    BY DEF BeginsWith
  <2> QED BY <2>1, <2>2
<1> HIDE DEF Common
<1>3. Greatest({k \in 0..n : Common(k)}) = n
  <2> DEFINE I == {k \in 0..n : Common(k)}
  <2>1. n \in I /\ I \subseteq Int /\ \A k \in I : k <= n
    BY <1>1, <1>2
  <2> HIDE DEF I
  <2>2. Greatest(I) = n
    BY <2>1, GreatestIs
  <2> QED BY <2>2 DEF I
<1>4. Greatest({k \in 0..n - n : SubSeq(v, n - k + 1, n) = SubSeq(w, Len(w) - k + 1, Len(w))}) = 0
  <2>1. SubSeq(v, n - 0 + 1, n) = <<>> /\ SubSeq(w, Len(w) - 0 + 1, Len(w)) = <<>>
    BY <1>1 DEF Values
  <2>2. 0..n - n = {0}
    BY <1>1
  <2> DEFINE I == {k \in 0..n - n : SubSeq(v, n - k + 1, n) = SubSeq(w, Len(w) - k + 1, Len(w))}
  <2>3. I \subseteq {0}
    BY <2>2
  <2>4. 0 \in I
    BY <2>1, <2>2
  <2>5. I \subseteq Int /\ \A m \in I : m <= 0
    BY <2>3
  <2> HIDE DEF I
  <2>6. Greatest(I) = 0
    BY <2>4, <2>5, GreatestIs
  <2> QED BY <2>6 DEF I
<1>5. TextDelta(v, w) = said
  <2>1. Len(v) <= Len(w) /\ ~(Len(w) <= Len(v)) /\ Len(w) - 0 = Len(w)
    BY <1>1
  <2> QED BY <2>1, <1>3, <1>4 DEF TextDelta, Common
<1>6. /\ said \in Seq(Nat) /\ Len(said) = Len(w) - n
      /\ \A i \in 1..Len(w) - n : said[i] = w[n + i] /\ n + i \in 1..Len(w)
  <2>1. n + 1 \in 1..Len(w) + 1 /\ Len(w) \in 0..Len(w) /\ n + 1 <= Len(w) + 1
    BY <1>1
  <2>2. Len(w) - (n + 1) + 1 = Len(w) - n /\ \A i \in 1..Len(w) - n : n + 1 + i - 1 = n + i
    BY <1>1
  <2> DEFINE a == n + 1
             m == Len(w)
  <2>3. w \in Seq(Nat) /\ said = SubSeq(w, a, m)
    BY DEF Values
  <2>4. a \in 1..Len(w) + 1 /\ m \in 0..Len(w) /\ a <= m + 1
    BY <2>1
  <2> HIDE DEF n, said, a, m
  <2>5. /\ SubSeq(w, a, m) \in Seq(Nat) /\ Len(SubSeq(w, a, m)) = m - a + 1
        /\ \A i \in 1..m - a + 1 : SubSeq(w, a, m)[i] = w[a + i - 1] /\ a + i - 1 \in 1..Len(w)
    <3>1. SubSeq(w, a, m) \in Seq(Nat)
      BY <2>3, <2>4, StretchIs
    <3>2. Len(SubSeq(w, a, m)) = m - a + 1
      BY <2>3, <2>4, StretchIs
    <3>3. \A i \in 1..m - a + 1 : SubSeq(w, a, m)[i] = w[a + i - 1] /\ a + i - 1 \in 1..Len(w)
      BY <2>3, <2>4, StretchIs
    <3> QED BY <3>1, <3>2, <3>3
  <2> QED BY <2>2, <2>3, <2>5 DEF a, m
<1> HIDE DEF said
<1>7. ASSUME NEW x \in Entries(said) PROVE x \in Entries(w) /\ x \notin Entries(v)
  <2>1. PICK i \in 1..Len(w) - n : x = said[i]
    BY <1>6, EntryAt
  <2>2. x = w[n + i] /\ n + i \in 1..Len(w)
    BY <1>6, <2>1
  <2>3. ASSUME x \in Entries(v) PROVE FALSE
    <3>1. PICK j \in 1..n : x = v[j]
      BY <2>3, EntryAt DEF Values
    <3>2. x = w[j] /\ j \in 1..Len(w)
      BY <1>1, <3>1 DEF BeginsWith
    <3>3. j # n + i
      BY <1>1, <2>1, <3>1
    <3>4. DOMAIN w = 1..Len(w)
      BY DEF Values
    <3> QED BY <2>2, <3>2, <3>3, <3>4 DEF Unrepeated
  <2> QED BY <2>2, <2>3, EntryAt DEF Values
<1> QED BY <1>5, <1>6, <1>7 DEF Values

LEMMA DeltaOfOther ==
  ASSUME NEW v \in Values, NEW w \in Values, Entries(v) \cap Entries(w) = {}, Len(v) < Len(w),
         Len(v) # 0
  PROVE  /\ TextDelta(v, w) \in Values /\ Entries(TextDelta(v, w)) \subseteq Entries(w)
         /\ Entries(TextDelta(v, w)) \cap Entries(v) = {}
<1> DEFINE n == Len(v)
           m == Len(w)
           I == {k \in 0..n : SubSeq(v, 1, k) = SubSeq(w, 1, k)}
           J == {k \in 0..n - 0 : SubSeq(v, n - k + 1, n) = SubSeq(w, m - k + 1, m)}
<1>1. n \in Nat /\ m \in Nat /\ n < m
  BY DEF Values
<1>2. \A i \in 1..n, j \in 1..m : v[i] # w[j]
  BY EntryAt DEF Values
<1>3. Greatest(I) = 0
  <2>1. 0 \in I
    <3>1. SubSeq(v, 1, 0) = <<>> /\ SubSeq(w, 1, 0) = <<>>
      BY DEF Values
    <3> QED BY <1>1, <3>1
  <2>2. ASSUME NEW k \in I, k # 0 PROVE FALSE
    <3>1. k \in 1..n /\ 1 \in 1..k - 1 + 1 /\ 1 \in 1..n /\ 1 \in 1..m /\ k \in 0..n /\ k \in 0..m
          /\ 1 \in 1..n + 1 /\ 1 \in 1..m + 1 /\ 1 <= k + 1 /\ 1 + 1 - 1 = 1
      BY <1>1, <2>2
    <3> HIDE DEF I
    <3>2. SubSeq(v, 1, k)[1] = v[1]
      BY <3>1, StretchIs DEF Values
    <3>3. SubSeq(w, 1, k)[1] = w[1]
      BY <3>1, StretchIs DEF Values
    <3>4. SubSeq(v, 1, k) = SubSeq(w, 1, k)
      BY <2>2 DEF I
    <3> QED BY <1>2, <3>1, <3>2, <3>3, <3>4
  <2>3. I \subseteq Int
    BY <1>1
  <2>4. \A k \in I : k <= 0
    BY <2>2, <2>3
  <2> HIDE DEF I
  <2> QED BY <2>1, <2>3, <2>4, GreatestIs
<1>4. Greatest(J) = 0
  <2>1. 0 \in J
    <3>1. SubSeq(v, n - 0 + 1, n) = <<>> /\ SubSeq(w, m - 0 + 1, m) = <<>>
      BY <1>1 DEF Values
    <3> QED BY <1>1, <3>1
  <2>2. ASSUME NEW k \in J, k # 0 PROVE FALSE
    <3>1. /\ k \in 1..n /\ n - k + 1 \in 1..n + 1 /\ n \in 0..n /\ n - k + 1 <= n + 1
          /\ m - k + 1 \in 1..m + 1 /\ m \in 0..m /\ m - k + 1 <= m + 1
          /\ 1 \in 1..n - (n - k + 1) + 1 /\ 1 \in 1..m - (m - k + 1) + 1
          /\ (n - k + 1) + 1 - 1 = n - k + 1 /\ (m - k + 1) + 1 - 1 = m - k + 1
          /\ n - k + 1 \in 1..n /\ m - k + 1 \in 1..m
      BY <1>1, <2>2
    <3> DEFINE a == n - k + 1
               z == m - k + 1
    <3> HIDE DEF J, a, z
    <3>2. SubSeq(v, a, n)[1] = v[a + 1 - 1]
      BY <3>1, StretchIs DEF Values, a
    <3>3. SubSeq(w, z, m)[1] = w[z + 1 - 1]
      BY <3>1, StretchIs DEF Values, z
    <3>4. SubSeq(v, a, n) = SubSeq(w, z, m)
      BY <2>2 DEF J, a, z
    <3>5. v[a] = w[z] /\ a \in 1..n /\ z \in 1..m
      BY <3>1, <3>2, <3>3, <3>4 DEF a, z
    <3> QED BY <1>2, <3>5
  <2>3. J \subseteq Int
    BY <1>1
  <2>4. \A k \in J : k <= 0
    BY <2>2, <2>3
  <2> HIDE DEF J
  <2> QED BY <2>1, <2>3, <2>4, GreatestIs
<1>5. TextDelta(v, w) = SubSeq(w, 1, m)
  <2>1. n <= m /\ ~(m <= n) /\ m - 0 = m /\ 0 + 1 = 1
    BY <1>1
  <2>2. TextDelta(v, w) = SubSeq(w, Greatest(I) + 1, m - Greatest({k \in 0..n - Greatest(I) :
           SubSeq(v, n - k + 1, n) = SubSeq(w, m - k + 1, m)}))
    BY <2>1 DEF TextDelta
  <2> HIDE DEF I
  <2> QED BY <1>3, <1>4, <2>1, <2>2
<1>6. SubSeq(w, 1, m) = w
  BY DEF Values
<1> QED BY <1>5, <1>6

LEMMA DeltaIsNew ==
  ASSUME NEW v \in Values, NEW w \in Values, Succeeds(v, w), Unrepeated(w)
  PROVE  /\ TextDelta(v, w) \in Values /\ Entries(TextDelta(v, w)) \subseteq Entries(w)
         /\ Entries(TextDelta(v, w)) \cap Entries(v) = {}
<1>1. CASE Len(w) <= Len(v)
  <2>1. TextDelta(v, w) = <<>>
    BY <1>1 DEF TextDelta
  <2> QED BY <2>1 DEF Entries, Values
<1>2. CASE ~(Len(w) <= Len(v))
  <2>1. Len(v) < Len(w) /\ Len(v) \in Nat
    BY <1>2 DEF Values
  <2>2. CASE BeginsWith(v, w)
    BY <2>1, <2>2, DeltaOfMore
  <2>3. CASE ~BeginsWith(v, w)
    <3>1. Len(v) # 0
      <4>1. Len(v) = 0 => BeginsWith(v, w)
        BY <2>1 DEF BeginsWith
      <4> QED BY <2>3, <4>1
    <3> QED BY <2>1, <2>3, <3>1, DeltaOfOther DEF Succeeds
  <2> QED BY <2>2, <2>3
<1> QED BY <1>1, <1>2

-----------------------------------------------------------------------------
(* Captures: what one records, and what it keeps.                           *)

LEMMA RunIsSome == ASSUME NEW r \in Runs PROVE r # NoPending
  BY DEF Runs, NoPending

LEMMA CaptureHas ==
  ASSUME NEW c \in Captures
  PROVE  /\ c.generation \in Nat \ {0} /\ c.element \in Elements /\ c.text \in BOOLEAN
         /\ c.baseline \in Values /\ c.rebaseline \in BOOLEAN /\ c.notifies \in BOOLEAN
         /\ c.pending = NoPending \/ (c.pending \in Runs /\ c.pending # NoPending)
         /\ c # NoTarget
<1> QED BY RunIsSome DEF Captures, NoTarget

LEMMA RunHas ==
  ASSUME NEW p \in Runs
  PROVE  /\ p.first \in Nat /\ p.last \in Nat /\ p.value \in Values /\ p.decision \in Rulings
         /\ p.steps \in Seq(ChangeSteps) /\ Len(p.steps) \in Nat \ {0}
         /\ DOMAIN p.steps = 1..Len(p.steps) /\ Len(p.steps) \in DOMAIN p.steps
         /\ \A i \in DOMAIN p.steps : p.steps[i].value \in Values /\ p.steps[i].matched \subseteq Nat
<1>1. p.steps \in Seq(ChangeSteps) /\ p.steps # <<>>
  BY DEF Runs
<1>2. Len(p.steps) \in Nat /\ Len(p.steps) # 0 /\ DOMAIN p.steps = 1..Len(p.steps)
  BY <1>1
<1>3. \A i \in DOMAIN p.steps : p.steps[i] \in ChangeSteps
  BY <1>1
<1> QED BY <1>1, <1>2, <1>3 DEF Runs, ChangeSteps

\* The text of a run of changes starts where it may, at a value that could be read.
LEMMA EmissionStarts ==
  ASSUME NEW n \in Nat, NEW c, Fits(c, n), c.pending # NoPending, NEW b,
         Emission(c, b, Bare(c, b)).text # <<>>
  PROVE  \E from \in Starts(c) \ {Unread} :
           /\ from \in Heads(c)
           /\ Emission(c, b, Bare(c, b)).text = TextDelta(from, c.pending.value)
<1> DEFINE p == c.pending
           I == Bare(c, b)
           from == IF I = {} THEN c.baseline ELSE p.steps[Greatest(I)].value
           said == Emission(c, b, I)
<1>1. p \in Runs
  BY CaptureHas DEF Fits
<1>2. /\ from # Unread /\ p.value # Unread /\ p.decision \notin Denied
      /\ said.text = TextDelta(from, p.value)
  BY DEF Emission
<1>3. /\ p.steps \in Seq(ChangeSteps) /\ DOMAIN p.steps = 1..Len(p.steps) /\ Len(p.steps) \in Nat
      /\ I \subseteq DOMAIN p.steps
  BY <1>1, RunHas DEF Bare
<1>4. \A k \in DOMAIN p.steps : p.steps[k].matched = {} => k \in I
  BY DEF Bare, Confirmed
<1>5. CASE I = {}
  <2>1. After(c, 0)
    BY <1>4, <1>5 DEF After
  <2>2. from = c.baseline
    BY <1>5
  <2>3. c.baseline \in Heads(c)
    BY <1>2, <2>1 DEF Heads
  <2> QED BY <1>2, <2>2, <2>3 DEF Starts
<1>6. CASE I # {}
  <2> DEFINE g == Greatest(I)
  <2> HIDE DEF I
  <2>1. g \in I /\ \A m \in I : m <= g
    BY <1>3, <1>6, GreatestFound
  <2> HIDE DEF g
  <2>2. After(c, g) /\ g \in DOMAIN p.steps
    BY <1>3, <1>4, <2>1 DEF After
  <2>3. from = p.steps[g].value
    BY <1>6 DEF g
  <2>4. p.steps[g].value \in Heads(c) /\ p.steps[g].value \in Starts(c)
    BY <1>2, <2>2 DEF Heads, Starts
  <2> QED BY <1>2, <2>3, <2>4 DEF I
<1> QED BY <1>5, <1>6

LEMMA StartsTyped ==
  ASSUME NEW c \in Captures
  PROVE  \A v \in Starts(c) : v \in Values
<1>1. CASE c.pending = NoPending
  <2>1. DOMAIN c.pending.steps = {}
    BY <1>1 DEF NoPending
  <2> QED BY <2>1, CaptureHas DEF Starts
<1>2. CASE c.pending \in Runs
  BY <1>2, RunHas, CaptureHas DEF Starts
<1> QED BY <1>1, <1>2, CaptureHas

LEMMA EmissionRecorded ==
  ASSUME NEW n \in Nat, NEW c, Fits(c, n), c.pending # NoPending, NEW b,
         NEW claimed, NEW banned, Ready(c, claimed, banned),
         Emission(c, b, Bare(c, b)).text # <<>>
  PROVE  SaidOf(Emission(c, b, Bare(c, b)), c, claimed, banned, b.attempts)
<1> DEFINE p == c.pending
           said == Emission(c, b, Bare(c, b))
<1>1. p \in Runs /\ c \in Captures
  BY CaptureHas DEF Fits
<1>2. PICK from \in Starts(c) \ {Unread} : from \in Heads(c) /\ said.text = TextDelta(from, p.value)
  BY EmissionStarts
<1>3. p.value # Unread /\ said.by # {} /\ said.by = Support(c, b)
      /\ said.element = c.element /\ said.generation = c.generation
  BY DEF Emission
<1>4. Seen(c, claimed, banned, p.value)
  BY <1>3 DEF Ready
<1>5. from \in Values /\ p.value \in Values
  BY <1>1, <1>2, StartsTyped, RunHas
<1>6. Succeeds(from, p.value) /\ Unrepeated(p.value)
  BY <1>2, <1>4 DEF Seen
<1>7. /\ said.text \in Values /\ Entries(said.text) \subseteq Entries(p.value)
      /\ Entries(said.text) \cap Entries(from) = {}
  BY <1>2, <1>5, <1>6, DeltaIsNew
<1>8. /\ said.by \subseteq p.steps[Len(p.steps)].matched /\ Len(p.steps) \in DOMAIN p.steps
      /\ \A s \in said.by : b.attempts[s].state = "confirmed"
      /\ p.steps[Len(p.steps)].matched \subseteq Nat
  BY <1>1, <1>3, RunHas DEF Support, Confirmed
<1>9. said = [text |-> said.text, by |-> said.by, element |-> said.element, generation |-> said.generation]
  BY DEF Emission
<1>10. said \in Texts
  <2> HIDE DEF said
  <2> QED BY <1>1, <1>3, <1>7, <1>8, <1>9, CaptureHas DEF Texts
<1>11. Entries(said.text) \subseteq Unspelled(c)
  BY <1>7 DEF Unspelled
<1>12. Entries(said.text) \cap claimed = {} /\ \A x \in Entries(said.text) : <<c.generation, x>> \notin banned
  BY <1>2, <1>4, <1>7 DEF Seen
<1>13. \E i \in DOMAIN c.pending.steps : said.by \subseteq c.pending.steps[i].matched
  BY <1>8
<1> HIDE DEF said
<1>14. SaidOf(said, c, claimed, banned, b.attempts)
  BY <1>3, <1>8, <1>10, <1>11, <1>12, <1>13 DEF SaidOf
<1> QED BY <1>14 DEF said

\* A capture whose run of changes has ended.
From(c, v) == [c EXCEPT !.baseline = v, !.pending = NoPending]
Calmed(c) == From(c, c.pending.value)

LEMMA SettledStarts ==
  ASSUME NEW c \in Captures, NEW v
  PROVE  /\ Starts(From(c, v)) = {v} /\ Heads(From(c, v)) = {v}
         /\ From(c, v).generation = c.generation /\ From(c, v).element = c.element
         /\ From(c, v).rebaseline = c.rebaseline /\ From(c, v).pending = NoPending
         /\ From(c, v).text = c.text /\ From(c, v).notifies = c.notifies
         /\ From(c, v).baseline = v /\ (v \in Values => From(c, v) \in Captures)
<1> DEFINE d == From(c, v)
<1>1. /\ d.baseline = v /\ d.pending = NoPending /\ d.generation = c.generation
      /\ d.element = c.element /\ d.rebaseline = c.rebaseline /\ d.text = c.text /\ d.notifies = c.notifies
      /\ (v \in Values => d \in Captures)
  BY DEF Captures, From
<1> HIDE DEF d
<1>2. DOMAIN d.pending.steps = {}
  BY <1>1 DEF NoPending
<1>3. Starts(d) = {v} /\ Heads(d) = {v}
  BY <1>1, <1>2 DEF Starts, Heads, After
<1> QED BY <1>1, <1>3 DEF d

LEMMA ValueStarts ==
  ASSUME NEW n \in Nat, NEW c, Fits(c, n), c.pending # NoPending
  PROVE  /\ c.pending.value \in Starts(c) /\ c.pending.value \in Heads(c) /\ c.pending.value \in Values
         /\ c.pending \in Runs /\ c \in Captures
<1> DEFINE p == c.pending
<1>1. p \in Runs /\ c \in Captures
  BY CaptureHas DEF Fits
<1>2. /\ DOMAIN p.steps = 1..Len(p.steps) /\ Len(p.steps) \in Nat /\ Len(p.steps) \in DOMAIN p.steps
      /\ p.value = p.steps[Len(p.steps)].value
  BY <1>1, RunHas DEF Fits
<1>3. After(c, Len(p.steps))
  BY <1>2 DEF After
<1>4. p.value \in Starts(c)
  BY <1>2 DEF Starts
<1>5. p.value \in Heads(c)
  BY <1>2, <1>3 DEF Heads
<1> QED BY <1>1, <1>4, <1>5, RunHas

LEMMA SettledKeeps ==
  ASSUME NEW n \in Nat, NEW c, Fits(c, n), c.pending # NoPending, NEW att, NEW since,
         Aimed(c, att, since)
  PROVE  /\ Fits(Calmed(c), n) /\ Aimed(Calmed(c), att, since)
         /\ Calmed(c).generation = c.generation /\ Calmed(c).element = c.element
         /\ Calmed(c).rebaseline = c.rebaseline /\ Calmed(c).pending = NoPending
         /\ Calmed(c).baseline = c.pending.value /\ Calmed(c).text = c.text
         /\ Calmed(c).notifies = c.notifies
<1>1. c.pending.value \in Starts(c) /\ c.pending.value \in Values /\ c \in Captures
  BY ValueStarts
<1>2. /\ Starts(Calmed(c)) = {c.pending.value} /\ Calmed(c) \in Captures
      /\ Calmed(c).generation = c.generation /\ Calmed(c).element = c.element
      /\ Calmed(c).rebaseline = c.rebaseline /\ Calmed(c).pending = NoPending
      /\ Calmed(c).baseline = c.pending.value /\ Calmed(c).text = c.text
      /\ Calmed(c).notifies = c.notifies
  BY <1>1, SettledStarts DEF Calmed
<1>3. DOMAIN Calmed(c).pending.steps = {}
  BY <1>2 DEF NoPending
<1> QED BY <1>1, <1>2, <1>3 DEF Fits, Aimed

\* What it has recorded was there where its text starts from now on.
LEMMA SettledSees ==
  ASSUME NEW n \in Nat, NEW c, Fits(c, n), c.pending # NoPending,
         NEW claimed, NEW more, more \subseteq claimed \cup Unspelled(c), NEW banned, NEW w,
         Seen(c, claimed, banned, w)
  PROVE  Seen(Calmed(c), more, banned, w)
<1>1. c.pending.value \in Starts(c) /\ c.pending.value \in Heads(c) /\ c \in Captures
  BY ValueStarts
<1>2. /\ Starts(Calmed(c)) = {c.pending.value} /\ Heads(Calmed(c)) = {c.pending.value}
      /\ Calmed(c).generation = c.generation
  BY <1>1, SettledStarts DEF Calmed
<1>3. Unspelled(c) = Entries(c.pending.value)
  BY DEF Unspelled
<1> HIDE DEF Calmed
<1>4. c.pending.value # Unread =>
        /\ Succeeds(c.pending.value, w)
        /\ Entries(w) \cap claimed \subseteq Entries(c.pending.value)
        /\ \A x \in Entries(w) : <<c.generation, x>> \in banned => x \in Entries(c.pending.value)
  BY <1>1 DEF Seen
<1>5. Unrepeated(w)
  BY DEF Seen
<1>6. c.pending.value # Unread => Entries(w) \cap more \subseteq Entries(c.pending.value)
  BY <1>3, <1>4
<1> QED BY <1>2, <1>4, <1>5, <1>6 DEF Seen

-----------------------------------------------------------------------------
(* Books: what may be done to the authorizations.                           *)

LEMMA AttemptHas ==
  ASSUME NEW att \in Seq(Attempts), NEW s \in DOMAIN att
  PROVE  /\ att[s] \in Attempts /\ att[s].kind \in {"activity", "rejected", "key"}
         /\ att[s].state \in AttemptStates /\ att[s].at \in Nat /\ att[s].generation \in Nat
         /\ att[s].element \in Elements \cup {0} /\ s \in Nat \ {0} /\ s \in 1..Len(att)
<1>1. att[s] \in Attempts /\ s \in 1..Len(att) /\ Len(att) \in Nat
  OBVIOUS
<1> QED BY <1>1 DEF Attempts

LEMMA SteadySelf ==
  ASSUME NEW att \in Seq(Attempts) PROVE Steady(att, att)
  BY DEF Steady

LEMMA SteadyOn ==
  ASSUME NEW a \in Seq(Attempts), NEW b \in Seq(Attempts), NEW c \in Seq(Attempts),
         Steady(a, b), Steady(b, c)
  PROVE  Steady(a, c)
<1>1. DOMAIN a = 1..Len(a) /\ DOMAIN b = 1..Len(b)
  OBVIOUS
<1> QED BY <1>1 DEF Steady

LEMMA Invalidating ==
  ASSUME NEW att \in Seq(Attempts), NEW S
  PROVE  /\ Invalidated(att, S) \in Seq(Attempts) /\ Steady(att, Invalidated(att, S))
         /\ \A s \in DOMAIN att : Opens(Invalidated(att, S), s) => s \notin S
<1> DEFINE new == Invalidated(att, S)
<1>1. DOMAIN att = 1..Len(att) /\ Len(att) \in Nat
  OBVIOUS
<1>2. \A s \in DOMAIN att : new[s] = IF s \in S /\ att[s].kind = "key"
                                     THEN [att[s] EXCEPT !.state = "invalidated"] ELSE att[s]
  BY DEF Invalidated
<1>3. DOMAIN new = 1..Len(att)
  BY <1>1 DEF Invalidated
<1>4. new = [s \in 1..Len(att) |-> new[s]]
  BY <1>1 DEF Invalidated
<1> HIDE DEF new
<1>5. ASSUME NEW s \in DOMAIN att
      PROVE  /\ new[s] \in Attempts /\ new[s].kind = att[s].kind /\ new[s].at = att[s].at
             /\ new[s].generation = att[s].generation /\ new[s].element = att[s].element
             /\ Opens(new, s) => Opens(att, s) /\ s \notin S
  <2>1. att[s] \in Attempts /\ "invalidated" \in AttemptStates
    BY AttemptHas DEF AttemptStates
  <2>2. CASE s \in S /\ att[s].kind = "key"
    <3>1. new[s] = [att[s] EXCEPT !.state = "invalidated"]
      BY <1>2, <2>2
    <3>2. /\ new[s] \in Attempts /\ new[s].kind = att[s].kind /\ new[s].at = att[s].at
          /\ new[s].generation = att[s].generation /\ new[s].element = att[s].element
          /\ new[s].state = "invalidated"
      BY <2>1, <3>1 DEF Attempts
    <3> QED BY <3>2 DEF Opens
  <2>3. CASE ~(s \in S /\ att[s].kind = "key")
    <3>1. new[s] = att[s]
      BY <1>2, <2>3
    <3> QED BY <2>1, <2>3, <3>1 DEF Opens
  <2> QED BY <2>2, <2>3
<1>6. [s \in 1..Len(att) |-> new[s]] \in Seq(Attempts)
  BY <1>1, <1>5
<1>7. new \in Seq(Attempts) /\ Len(new) = Len(att)
  BY <1>1, <1>3, <1>4, <1>6
<1> QED BY <1>5, <1>7 DEF Steady, new

LEMMA BookHas ==
  ASSUME NEW b \in Books
  PROVE  b.attempts \in Seq(Attempts) /\ b.history \in Seq(Nat) /\ b.emitted \in Seq(Texts)
  BY DEF Books

\* What a step of a book has to show.
LEMMA StandsOn ==
  ASSUME NEW att \in Seq(Attempts), NEW loss \in Nat, NEW now \in Nat, NEW b, Standing(b, att, loss, now),
         NEW d \in Books, NEW P, P \subseteq DOMAIN b.history,
         Steady(b.attempts, d.attempts), d.history = Picked(b.history, P),
         \A i \in DOMAIN b.history :
           Opens(d.attempts, b.history[i]) /\ now - att[b.history[i]].at <= Window => i \in P
  PROVE  Standing(d, att, loss, now)
<1>1. /\ b \in Books /\ Steady(att, b.attempts) /\ b.history \in Seq(1..Len(att)) /\ Len(b.history) <= Capacity
      /\ \A s \in DOMAIN att : Opens(b.attempts, s) /\ now - att[s].at <= Window
                             => s \in Entries(b.history) /\ s > loss
  BY DEF Standing
<1>2. b.attempts \in Seq(Attempts) /\ d.attempts \in Seq(Attempts)
  BY <1>1, BookHas
<1>3. Steady(att, d.attempts)
  BY <1>1, <1>2, SteadyOn
<1>4. /\ d.history \in Seq(1..Len(att)) /\ Entries(d.history) = {b.history[i] : i \in P}
      /\ Len(d.history) <= Len(b.history)
  BY <1>1, PickedEntries
<1>5. Len(d.history) <= Capacity
  <2>1. Len(d.history) \in Nat /\ Len(b.history) \in Nat /\ Capacity \in Nat
    BY <1>1, <1>4, TypedTextAssumption
  <2> QED BY <1>1, <1>4, <2>1
<1>6. ASSUME NEW s \in DOMAIN att, Opens(d.attempts, s), now - att[s].at <= Window
      PROVE  s \in Entries(d.history) /\ s > loss
  <2>1. DOMAIN att = 1..Len(att) /\ DOMAIN b.attempts = 1..Len(att)
    BY <1>1, <1>2 DEF Steady
  <2>2. Opens(b.attempts, s)
    BY <1>6, <2>1 DEF Steady
  <2>3. s \in Entries(b.history) /\ s > loss
    BY <1>1, <1>6, <2>2
  <2>4. PICK i \in DOMAIN b.history : s = b.history[i]
    BY <2>3 DEF Entries
  <2> QED BY <1>4, <1>6, <2>3, <2>4
<1> QED BY <1>3, <1>4, <1>5, <1>6 DEF Standing

LEMMA InvalidateStands ==
  ASSUME NEW att \in Seq(Attempts), NEW loss \in Nat, NEW now \in Nat, NEW b, Standing(b, att, loss, now), NEW gens
  PROVE  /\ Standing(InvalidateTargets(b, gens), att, loss, now)
         /\ InvalidateTargets(b, gens).emitted = b.emitted
<1> DEFINE mine == {s \in Entries(b.history) : b.attempts[s].generation \in gens /\ b.attempts[s].kind = "key"}
           P == {i \in DOMAIN b.history : b.history[i] \notin mine}
           d == InvalidateTargets(b, gens)
<1>1. b \in Books /\ b.history \in Seq(Nat) /\ b.attempts \in Seq(Attempts)
  BY BookHas DEF Standing
<1>2. d = [b EXCEPT !.attempts = Invalidated(b.attempts, mine), !.history = Picked(b.history, P)]
  BY DEF InvalidateTargets
<1> HIDE DEF d, mine
<1>3. Invalidated(b.attempts, mine) \in Seq(Attempts) /\ Picked(b.history, P) \in Seq(Nat)
  BY <1>1, Invalidating, PickedTyped
<1>4. /\ d \in Books /\ d.attempts = Invalidated(b.attempts, mine) /\ d.history = Picked(b.history, P)
      /\ d.emitted = b.emitted
  BY <1>1, <1>2, <1>3 DEF Books
<1>5. Steady(b.attempts, d.attempts)
  BY <1>1, <1>4, Invalidating
<1>6. /\ \A s \in DOMAIN b.attempts : Opens(d.attempts, s) => s \notin mine
      /\ \A i \in DOMAIN b.history : b.history[i] \in DOMAIN b.attempts
  <2>1. \A i \in DOMAIN b.history : b.history[i] \in 1..Len(att)
    BY DEF Standing
  <2>2. DOMAIN b.attempts = 1..Len(att)
    BY <1>1 DEF Standing, Steady
  <2> QED BY <1>1, <1>4, <2>1, <2>2, Invalidating
<1>7. \A i \in DOMAIN b.history : Opens(d.attempts, b.history[i]) => i \in P
  BY <1>6
<1> HIDE DEF P
<1>8. P \subseteq DOMAIN b.history
  BY DEF P
<1>9. Standing(d, att, loss, now)
  BY <1>4, <1>5, <1>7, <1>8, StandsOn
<1> QED BY <1>4, <1>9 DEF d

LEMMA PrunedStands ==
  ASSUME NEW att \in Seq(Attempts), NEW loss \in Nat, NEW now \in Nat, NEW b, Standing(b, att, loss, now),
         NEW at \in Nat, at <= now
  PROVE  Standing(Pruned(b, at), att, loss, now) /\ Pruned(b, at).emitted = b.emitted
<1> DEFINE P == {i \in DOMAIN b.history :
                   Opens(b.attempts, b.history[i]) /\ at - b.attempts[b.history[i]].at <= Window}
           d == Pruned(b, at)
<1>1. b \in Books /\ b.history \in Seq(Nat) /\ b.attempts \in Seq(Attempts)
  BY BookHas DEF Standing
<1>2. d = [b EXCEPT !.history = Picked(b.history, P)]
  BY DEF Pruned
<1>3. ASSUME NEW i \in DOMAIN b.history, Opens(b.attempts, b.history[i]), now - att[b.history[i]].at <= Window
      PROVE  i \in P
  <2>1. b.history[i] \in 1..Len(att) /\ DOMAIN att = 1..Len(att)
    BY DEF Standing
  <2>2. b.attempts[b.history[i]].at = att[b.history[i]].at
    BY <2>1 DEF Standing, Steady
  <2>3. att[b.history[i]].at \in Nat /\ Window \in Nat
    BY <2>1, AttemptHas, TypedTextAssumption
  <2>4. at - att[b.history[i]].at <= Window
    BY <1>3, <2>3
  <2> QED BY <1>3, <2>2, <2>4
<1>4. P \subseteq DOMAIN b.history
  OBVIOUS
<1> HIDE DEF P, d
<1>5. Picked(b.history, P) \in Seq(Nat)
  BY <1>1, <1>4, PickedTyped
<1>6. d \in Books /\ d.attempts = b.attempts /\ d.history = Picked(b.history, P) /\ d.emitted = b.emitted
  BY <1>1, <1>2, <1>5 DEF Books
<1>7. Steady(b.attempts, d.attempts)
  BY <1>1, <1>6, SteadySelf
<1>8. Standing(d, att, loss, now)
  BY <1>3, <1>4, <1>6, <1>7, StandsOn
<1> QED BY <1>6, <1>8 DEF d

LEMMA MatchingIs ==
  ASSUME NEW att \in Seq(Attempts), NEW loss, NEW now, NEW b, Standing(b, att, loss, now), NEW gen, NEW at
  PROVE  /\ Matching(b, gen, at) \subseteq Nat
         /\ \A s \in Matching(b, gen, at) : s \in DOMAIN att /\ att[s].kind = "key" /\ att[s].generation = gen
<1>1. ASSUME NEW s \in Matching(b, gen, at)
      PROVE  s \in DOMAIN att /\ att[s].kind = "key" /\ att[s].generation = gen /\ s \in Nat
  <2>1. s \in Entries(b.history) /\ Opens(b.attempts, s) /\ b.attempts[s].generation = gen
    BY DEF Matching
  <2>2. b.history \in Seq(1..Len(att)) /\ Steady(att, b.attempts) /\ DOMAIN att = 1..Len(att)
    BY DEF Standing
  <2>3. s \in 1..Len(att)
    BY <2>1, <2>2, EntriesIn
  <2> QED BY <2>1, <2>2, <2>3, AttemptHas DEF Steady, Opens
<1> QED BY <1>1

Adding(b, e) == [b EXCEPT !.emitted = Append(@, e)]

LEMMA EmittedStands ==
  ASSUME NEW att \in Seq(Attempts), NEW loss, NEW now, NEW b, Standing(b, att, loss, now), NEW e \in Texts
  PROVE  /\ Standing(Adding(b, e), att, loss, now)
         /\ Adding(b, e).emitted = Append(b.emitted, e)
         /\ Adding(b, e).attempts = b.attempts /\ Adding(b, e).history = b.history
<1> DEFINE d == Adding(b, e)
<1>1. b \in Books /\ b.emitted \in Seq(Texts)
  BY BookHas DEF Standing
<1>2. Append(b.emitted, e) \in Seq(Texts)
  BY <1>1
<1>3. /\ d \in Books /\ d.emitted = Append(b.emitted, e) /\ d.attempts = b.attempts
      /\ d.history = b.history
  BY <1>1, <1>2 DEF Books, Adding
<1> HIDE DEF d
<1>4. Standing(d, att, loss, now)
  BY <1>3 DEF Standing
<1> QED BY <1>3, <1>4 DEF d

-----------------------------------------------------------------------------
(* Captures: what an observation does to one.                               *)

Carries(c, n, w, claimed, banned, att, since) ==
  Fits(c, n) /\ Aimed(c, att, since) /\ Seen(c, claimed, banned, w) /\ Ready(c, claimed, banned)

Claims(b, others) == Spelled(b.emitted) \cup others

\* A book that has recorded no more, or the run of changes of a capture.
Spoke(b, d, c, claimed, banned) ==
  \/ d.emitted = b.emitted
  \/ \E e : SaidOf(e, c, claimed, banned, b.attempts) /\ d.emitted = Append(b.emitted, e)

\* What a step withholds of a field is withheld already.
Stays(c, banned, more) == \A x : <<c.generation, x>> \in more => <<c.generation, x>> \in banned

SameField(c, d) == d.generation = c.generation /\ d.element = c.element

LEMMA SpelledAppended ==
  ASSUME NEW texts \in Seq(Texts), NEW e \in Texts
  PROVE  Spelled(Append(texts, e)) = Spelled(texts) \cup Entries(e.text)
<1> DEFINE q == Append(texts, e)
           N == Len(texts)
<1>1. /\ DOMAIN texts = 1..N /\ DOMAIN q = 1..N + 1 /\ q[N + 1] = e /\ N \in Nat
      /\ \A k \in 1..N : q[k] = texts[k]
  OBVIOUS
<1> HIDE DEF q, N
<1>2. ASSUME NEW x \in Spelled(q) PROVE x \in Spelled(texts) \cup Entries(e.text)
  <2>1. PICK k \in 1..N + 1 : x \in Entries(q[k].text)
    BY <1>1 DEF Spelled
  <2>2. k = N + 1 \/ k \in 1..N
    BY <1>1
  <2> QED BY <1>1, <2>1, <2>2 DEF Spelled
<1>3. ASSUME NEW x \in Spelled(texts) \cup Entries(e.text) PROVE x \in Spelled(q)
  <2>1. CASE x \in Entries(e.text)
    BY <1>1, <2>1 DEF Spelled
  <2>2. CASE x \in Spelled(texts)
    <3>1. PICK k \in 1..N : x \in Entries(texts[k].text)
      BY <1>1, <2>2 DEF Spelled
    <3>2. k \in 1..N + 1
      BY <1>1
    <3> QED BY <1>1, <3>1, <3>2 DEF Spelled
  <2> QED BY <1>3, <2>1, <2>2
<1> QED BY <1>2, <1>3 DEF q

LEMMA FlushOutcome ==
  ASSUME NEW n \in Nat, NEW att \in Seq(Attempts), NEW since, NEW loss \in Nat, NEW now \in Nat,
         NEW w, NEW others, NEW banned, NEW c, NEW b, Standing(b, att, loss, now),
         Carries(c, n, w, Claims(b, others), banned, att, since),
         NEW r, r = FlushPending(c, b)
  PROVE  /\ Standing(r[2], att, loss, now)
         /\ Carries(r[1], n, w, Claims(r[2], others), banned, att, since)
         /\ Spoke(b, r[2], c, Claims(b, others), banned)
         /\ r[1].pending = NoPending /\ SameField(c, r[1]) /\ r[1].rebaseline = c.rebaseline
         /\ r[1].baseline = IF c.pending = NoPending THEN c.baseline ELSE c.pending.value
         /\ r[2].attempts = b.attempts /\ r[2].history = b.history
         /\ r[1].text = c.text
<1> DEFINE claimed == Claims(b, others)
           said == Emission(c, b, Bare(c, b))
<1>1. CASE c.pending = NoPending
  <2>1. r = <<c, b>>
    BY <1>1 DEF FlushPending, FlushFrom
  <2> QED BY <1>1, <2>1 DEF Spoke, SameField
<1>2. CASE c.pending # NoPending /\ said.text = <<>>
  <2>1. r = <<Calmed(c), b>>
    BY <1>2 DEF FlushPending, FlushFrom, Calmed, From
  <2>2. /\ Fits(Calmed(c), n) /\ Aimed(Calmed(c), att, since)
        /\ SameField(c, Calmed(c)) /\ Calmed(c).rebaseline = c.rebaseline
        /\ Calmed(c).pending = NoPending /\ Calmed(c).baseline = c.pending.value
        /\ Calmed(c).text = c.text
    BY <1>2, SettledKeeps DEF Carries, SameField
  <2>3. Seen(Calmed(c), claimed, banned, w)
    BY <1>2, SettledSees DEF Carries
  <2>4. Ready(Calmed(c), claimed, banned)
    BY <2>2 DEF Ready
  <2> QED BY <1>2, <2>1, <2>2, <2>3, <2>4 DEF Carries, Spoke
<1>3. CASE c.pending # NoPending /\ said.text # <<>>
  <2> DEFINE d == Adding(b, said)
  <2>1. r = <<Calmed(c), d>>
    BY <1>3 DEF FlushPending, FlushFrom, Calmed, From, Adding
  <2>2. /\ Fits(Calmed(c), n) /\ Aimed(Calmed(c), att, since)
        /\ SameField(c, Calmed(c)) /\ Calmed(c).rebaseline = c.rebaseline
        /\ Calmed(c).pending = NoPending /\ Calmed(c).baseline = c.pending.value
        /\ Calmed(c).text = c.text
    BY <1>3, SettledKeeps DEF Carries, SameField
  <2>3. SaidOf(said, c, claimed, banned, b.attempts)
    BY <1>3, EmissionRecorded DEF Carries
  <2> HIDE DEF said
  <2>4. said \in Texts /\ Entries(said.text) \subseteq Unspelled(c)
    BY <2>3 DEF SaidOf
  <2>5. /\ Standing(d, att, loss, now) /\ d.emitted = Append(b.emitted, said)
        /\ d.attempts = b.attempts /\ d.history = b.history
    BY <2>4, EmittedStands
  <2> HIDE DEF d
  <2>6. Spelled(d.emitted) = Spelled(b.emitted) \cup Entries(said.text)
    <3>1. b.emitted \in Seq(Texts)
      BY BookHas DEF Standing
    <3> QED BY <2>4, <2>5, <3>1, SpelledAppended
  <2>7. Seen(Calmed(c), Claims(d, others), banned, w)
    <3>1. Claims(d, others) \subseteq claimed \cup Unspelled(c)
      BY <2>4, <2>6 DEF Claims
    <3> QED BY <1>3, <3>1, SettledSees DEF Carries
  <2>8. Ready(Calmed(c), Claims(d, others), banned)
    BY <2>2 DEF Ready
  <2>9. Spoke(b, d, c, claimed, banned)
    BY <2>3, <2>5 DEF Spoke
  <2>10. Carries(Calmed(c), n, w, Claims(d, others), banned, att, since)
    BY <2>2, <2>7, <2>8 DEF Carries
  <2>11. r[1] = Calmed(c) /\ r[2] = d
    BY <2>1
  <2> QED BY <1>3, <2>2, <2>5, <2>9, <2>10, <2>11
<1> QED BY <1>1, <1>2, <1>3

LEMMA GrownSelf == ASSUME NEW w \in Values PROVE Succeeds(w, w)
<1>1. Len(w) \in Nat
  BY DEF Values
<1> QED BY <1>1 DEF Succeeds, BeginsWith

\* A run of changes that begins: before its first change the field held v.
LEMMA RunBegins ==
  ASSUME NEW n \in Nat, NEW w \in Seq(1..n), Unrepeated(w), NEW o, Reads(o, w), NEW d \in Captures,
         NEW v, d.baseline = v, NEW M, M \subseteq Nat, d.pending = NewPending(o, M),
         v = Unread \/ Entries(v) \subseteq 1..n, NEW claimed, NEW banned,
         v # Unread => Succeeds(v, w) /\ Entries(w) \cap claimed \subseteq Entries(v),
         M # {} /\ o.decision \notin Denied /\ v # Unread =>
           \A x \in Entries(w) : <<d.generation, x>> \in banned => x \in Entries(v)
  PROVE  Fits(d, n) /\ Seen(d, claimed, banned, w) /\ Ready(d, claimed, banned)
<1> DEFINE p == d.pending
<1>1. /\ p.value = o.value /\ p.decision = o.decision /\ DOMAIN p.steps = {1} /\ Len(p.steps) = 1
      /\ p.steps[1].value = o.value /\ p.steps[1].matched = M /\ p # NoPending
  <2>1. p = [first |-> o.at, last |-> o.at, value |-> o.value, decision |-> o.decision,
             steps |-> <<[value |-> o.value, matched |-> M]>>]
    BY DEF NewPending
  <2>2. p.steps = <<[value |-> o.value, matched |-> M]>> /\ p.value = o.value /\ p.decision = o.decision
    BY <2>1
  <2>3. DOMAIN p.steps = {1} /\ Len(p.steps) = 1 /\ p.steps[1] = [value |-> o.value, matched |-> M]
    BY <2>2
  <2>4. p # NoPending
    BY <2>3 DEF NoPending
  <2> QED BY <2>2, <2>3, <2>4
<1>2. w \in Values /\ Entries(w) \subseteq 1..n /\ (o.value = Unread \/ o.value = w)
      /\ (o.decision \notin Denied => o.value = w) /\ (o.decision \in Denied => o.value = Unread)
  BY EntriesIn DEF Reads, Values
<1>3. Starts(d) = {v, o.value}
  BY <1>1 DEF Starts
<1>4. \A x \in Heads(d) : x = o.value \/ (x = v /\ M # {} /\ o.decision \notin Denied)
  <2>1. After(d, 0) => M # {}
    BY <1>1 DEF After
  <2> QED BY <1>1, <2>1 DEF Heads
<1>5. Fits(d, n)
  BY <1>1, <1>2, <1>3 DEF Fits
<1>6. Seen(d, claimed, banned, w)
  <2>1. Succeeds(w, w)
    BY <1>2, GrownSelf
  <2>2. \A x \in Starts(d) \ {Unread} : Succeeds(x, w) /\ Entries(w) \cap claimed \subseteq Entries(x)
    BY <1>2, <1>3, <2>1
  <2>3. ASSUME NEW h \in Heads(d) \ {Unread}, NEW x \in Entries(w), <<d.generation, x>> \in banned
        PROVE  x \in Entries(h)
    <3>1. CASE h = o.value
      BY <1>2, <2>3, <3>1
    <3>2. CASE h = v /\ M # {} /\ o.decision \notin Denied
      BY <2>3, <3>2
    <3> QED BY <1>4, <2>3, <3>1, <3>2
  <2> QED BY <2>2, <2>3 DEF Seen
<1>7. Ready(d, claimed, banned)
  BY <1>1, <1>2, <1>6 DEF Ready
<1> QED BY <1>5, <1>6, <1>7

\* A run of changes that goes on.
Going(c, o, M) == [c EXCEPT !.pending = Coalesce(c.pending, o, M)]

LEMMA RunGrows ==
  ASSUME NEW n \in Nat, NEW w \in Seq(1..n), NEW o, Reads(o, w), NEW c, Fits(c, n),
         c.pending # NoPending, ~Boundary(c.pending, o), NEW M, M \subseteq Nat,
         NEW claimed, NEW banned, NEW more, Seen(c, claimed, banned, w),
         M # {} => Stays(c, banned, more),
         NEW d, d = Going(c, o, M)
  PROVE  Fits(d, n) /\ Seen(d, claimed, more, w) /\ Ready(d, claimed, more)
<1> DEFINE p == c.pending
           new == [value |-> w, matched |-> M]
           old == IF Len(p.steps) = Capacity THEN <<[value |-> w, matched |-> {}]>> ELSE p.steps
           q == Append(old, new)
           N == Len(old)
<1>1. p \in Runs /\ c \in Captures
  BY ValueStarts
<1>2. /\ p.steps \in Seq(ChangeSteps) /\ DOMAIN p.steps = 1..Len(p.steps)
      /\ p.first \in Nat /\ p.decision \in Rulings
  BY <1>1, RunHas
<1>3. o.value = w /\ o.decision \notin Denied /\ w \in Values /\ o.at \in Nat /\ Entries(w) \subseteq 1..n
  BY EntriesIn DEF Boundary, Reads, Values
<1>4. Coalesce(p, o, M) = [p EXCEPT !.last = o.at, !.value = w, !.steps = q]
  BY <1>3 DEF Coalesce
<1>5. new \in ChangeSteps /\ [value |-> w, matched |-> {}] \in ChangeSteps
  BY <1>3 DEF ChangeSteps
<1>6. old \in Seq(ChangeSteps) /\ DOMAIN old = 1..N /\ N \in Nat
  <2>1. <<[value |-> w, matched |-> {}]>> \in Seq(ChangeSteps)
    BY <1>5
  <2>2. old \in Seq(ChangeSteps)
    BY <1>2, <2>1
  <2> HIDE DEF old
  <2> QED BY <2>2
<1>7. \/ \E i \in {1} : DOMAIN old = {1} /\ N = 1 /\ old[1].value = w /\ old[1].matched = {}
      \/ old = p.steps
  <2>1. CASE Len(p.steps) = Capacity
    <3>1. old = <<[value |-> w, matched |-> {}]>>
      BY <2>1
    <3> QED BY <3>1
  <2> QED BY <2>1
<1>8. new.value = w /\ new.matched = M
  OBVIOUS
<1> HIDE DEF new, old, N
<1>9. /\ q \in Seq(ChangeSteps) \ {<<>>} /\ DOMAIN q = 1..N + 1 /\ q[N + 1] = new /\ Len(q) = N + 1
      /\ \A i \in 1..N : q[i] = old[i]
  <2>1. /\ q \in Seq(ChangeSteps) /\ Len(q) = N + 1 /\ q[N + 1] = new /\ \A i \in 1..N : q[i] = old[i]
    BY <1>5, <1>6 DEF N
  <2>2. q # <<>> /\ DOMAIN q = 1..N + 1
    BY <1>6, <2>1
  <2> QED BY <2>1, <2>2
<1> HIDE DEF q
<1>10. /\ d \in Captures /\ d.generation = c.generation /\ d.baseline = c.baseline
       /\ d.pending.steps = q /\ d.pending.value = w /\ d.pending.decision = p.decision
       /\ d.pending # NoPending
  <2>1. Coalesce(p, o, M) \in Runs
    BY <1>1, <1>3, <1>4, <1>9 DEF Runs
  <2>2. d \in Captures /\ d.generation = c.generation /\ d.baseline = c.baseline
        /\ d.pending = Coalesce(p, o, M)
    BY <1>1, <2>1 DEF Captures, Going
  <2>3. d.pending.steps = q /\ d.pending.value = w /\ d.pending.decision = p.decision
    BY <1>1, <1>4, <2>2 DEF Runs
  <2>4. d.pending # NoPending
    BY <2>1, <2>2, RunIsSome
  <2> QED BY <2>2, <2>3, <2>4
<1>11. \A i \in 1..N + 1 : i = N + 1 \/ i \in 1..N
  BY <1>6
<1>12. N + 1 \in 1..N + 1 /\ \A i \in 1..N : i \in 1..N + 1 /\ i # N + 1 /\ ~(N + 1 <= i) /\ i <= N + 1
       /\ ~(N + 1 <= 0) /\ 0 <= N + 1
  BY <1>6
<1>13. ASSUME NEW v \in Starts(d) PROVE v \in Starts(c) \/ v = w
  <2>1. CASE v = c.baseline
    BY <2>1 DEF Starts
  <2>2. CASE v # c.baseline
    <3>1. PICK i \in 1..N + 1 : v = q[i].value
      BY <1>9, <1>10, <1>13, <2>2 DEF Starts
    <3>2. CASE i = N + 1
      BY <1>8, <1>9, <3>1, <3>2
    <3>3. CASE i \in 1..N
      <4>1. v = old[i].value /\ i \in DOMAIN old
        BY <1>6, <1>9, <3>1, <3>3
      <4> QED BY <1>7, <4>1 DEF Starts
    <3> QED BY <1>11, <3>2, <3>3
  <2> QED BY <2>1, <2>2
<1>14. ASSUME NEW v \in Heads(d) PROVE v = w \/ (v \in Heads(c) /\ M # {})
  <2>1. CASE p.decision \in Denied
    BY <1>10, <1>14, <2>1 DEF Heads
  <2>2. CASE p.decision \notin Denied
    <3>1. \/ \E j \in DOMAIN q : v = q[j].value /\ After(d, j)
          \/ v = c.baseline /\ After(d, 0)
      BY <1>10, <1>14, <2>2 DEF Heads
    <3>2. \A j \in DOMAIN q : After(d, j) /\ j # N + 1 => M # {}
      BY <1>8, <1>9, <1>10, <1>11, <1>12 DEF After
    <3>3. After(d, 0) => M # {}
      <4> SUFFICES ASSUME After(d, 0), M = {} PROVE FALSE
        OBVIOUS
      <4>1. N + 1 \in DOMAIN d.pending.steps /\ d.pending.steps[N + 1].matched = {}
        BY <1>8, <1>9, <1>10, <1>12
      <4>2. N + 1 <= 0
        BY <4>1 DEF After
      <4> QED BY <1>12, <4>2
    <3>4. CASE \E j \in DOMAIN q : v = q[j].value /\ After(d, j)
      <4>1. PICK j \in DOMAIN q : v = q[j].value /\ After(d, j)
        BY <3>4
      <4>2. CASE j = N + 1
        BY <1>8, <1>9, <4>1, <4>2
      <4>3. CASE j # N + 1
        <5>1. j \in DOMAIN old /\ v = old[j].value /\ M # {}
          BY <1>6, <1>9, <1>11, <3>2, <4>1, <4>3
        <5>2. CASE old = p.steps
          <6>1. After(c, j)
            BY <1>6, <1>9, <1>10, <1>12, <4>1, <5>2 DEF After
          <6> QED BY <2>2, <5>1, <5>2, <6>1 DEF Heads
        <5> QED BY <1>7, <5>1, <5>2
      <4> QED BY <4>2, <4>3
    <3>5. CASE v = c.baseline /\ After(d, 0)
      <4>1. CASE old = p.steps
        <5>1. After(c, 0)
          BY <1>6, <1>9, <1>10, <1>12, <3>5, <4>1 DEF After
        <5> QED BY <2>2, <3>3, <3>5, <5>1 DEF Heads
      <4>2. CASE old # p.steps
        <5>1. 1 \in DOMAIN q /\ q[1].matched = {} /\ ~(1 <= 0)
          BY <1>6, <1>7, <1>9, <1>12, <4>2
        <5> QED BY <1>10, <3>5, <5>1 DEF After
      <4> QED BY <4>1, <4>2
    <3> QED BY <3>1, <3>4, <3>5
  <2> QED BY <2>1, <2>2
<1>15. Fits(d, n)
  BY <1>3, <1>8, <1>9, <1>10, <1>13 DEF Fits
<1>16. Seen(d, claimed, more, w)
  <2>1. Unrepeated(w) /\ Succeeds(w, w)
    BY <1>3, GrownSelf DEF Seen
  <2>2. \A v \in Starts(d) \ {Unread} : Succeeds(v, w) /\ Entries(w) \cap claimed \subseteq Entries(v)
    BY <1>13, <2>1 DEF Seen
  <2>3. ASSUME NEW v \in Heads(d) \ {Unread}, NEW x \in Entries(w), <<d.generation, x>> \in more
        PROVE  x \in Entries(v)
    <3>1. CASE v \in Heads(c) /\ M # {}
      BY <1>10, <2>3, <3>1 DEF Seen, Stays
    <3> QED BY <1>14, <2>3, <3>1
  <2> QED BY <2>1, <2>2, <2>3 DEF Seen
<1>17. Ready(d, claimed, more)
  BY <1>10, <1>16 DEF Ready
<1> QED BY <1>15, <1>16, <1>17

-----------------------------------------------------------------------------
(* What an observation does, as a whole.                                    *)

Discarded(c) == [c EXCEPT !.pending = NoPending, !.baseline = Unread, !.rebaseline = TRUE]

LEMMA DiscardedKeeps ==
  ASSUME NEW n \in Nat, NEW c, Fits(c, n), NEW att, NEW since, Aimed(c, att, since),
         NEW claimed, NEW banned, NEW w, Unrepeated(w)
  PROVE  Carries(Discarded(c), n, w, claimed, banned, att, since) /\ SameField(c, Discarded(c))
<1> DEFINE d == Discarded(c)
<1>1. Unread \in Values
  BY DEF Unread, Values
<1>2. /\ d \in Captures /\ d.generation = c.generation /\ d.element = c.element
      /\ d.pending = NoPending /\ d.baseline = Unread
  BY <1>1 DEF Discarded, Fits, Captures
<1> HIDE DEF d
<1>3. DOMAIN d.pending.steps = {}
  BY <1>2 DEF NoPending
<1>4. Starts(d) = {Unread} /\ Heads(d) \subseteq {Unread}
  BY <1>2, <1>3 DEF Starts, Heads
<1>5. Fits(d, n) /\ Aimed(d, att, since)
  BY <1>2, <1>3, <1>4 DEF Fits, Aimed
<1>6. Seen(d, claimed, banned, w) /\ Ready(d, claimed, banned)
  BY <1>2, <1>4 DEF Seen, Ready
<1> QED BY <1>2, <1>5, <1>6 DEF Carries, SameField, d

\* The keys that explain a step of a run were aimed at the capture.
LEMMA AimedAt ==
  ASSUME NEW c, NEW d, SameField(c, d), NEW att, NEW since, Aimed(c, att, since), NEW M,
         \A s \in M : s \in DOMAIN att /\ att[s].kind = "key" /\ att[s].generation = c.generation,
         \A i \in DOMAIN d.pending.steps :
           \/ d.pending.steps[i].matched \subseteq M
           \/ i \in DOMAIN c.pending.steps /\ d.pending.steps[i] = c.pending.steps[i]
  PROVE  Aimed(d, att, since)
<1>1. d.generation = c.generation /\ d.element = c.element
  BY DEF SameField
<1>2. \A s \in DOMAIN att : s > since /\ att[s].kind = "key" /\ att[s].generation = d.generation
                              => att[s].element = d.element
  BY <1>1 DEF Aimed
<1>3. ASSUME NEW i \in DOMAIN d.pending.steps, NEW s \in d.pending.steps[i].matched
      PROVE  s \in DOMAIN att /\ att[s].kind = "key" /\ att[s].generation = d.generation
  <2>1. CASE d.pending.steps[i].matched \subseteq M
    BY <1>1, <1>3, <2>1
  <2>2. CASE i \in DOMAIN c.pending.steps /\ d.pending.steps[i] = c.pending.steps[i]
    BY <1>1, <1>3, <2>2 DEF Aimed
  <2> QED BY <2>1, <2>2
<1> QED BY <1>2, <1>3 DEF Aimed

LEMMA StepsBegun ==
  ASSUME NEW o, NEW M, NEW d, d.pending = NewPending(o, M)
  PROVE  \A i \in DOMAIN d.pending.steps : d.pending.steps[i].matched \subseteq M
<1>1. d.pending.steps = <<[value |-> o.value, matched |-> M]>>
  BY DEF NewPending
<1>2. DOMAIN d.pending.steps = {1} /\ d.pending.steps[1].matched = M
  BY <1>1
<1> QED BY <1>2

LEMMA StepsGrown ==
  ASSUME NEW o, NEW M, NEW p \in Runs, NEW d, d.pending = Coalesce(p, o, M)
  PROVE  \A i \in DOMAIN d.pending.steps :
           \/ d.pending.steps[i].matched \subseteq M
           \/ i \in DOMAIN p.steps /\ d.pending.steps[i] = p.steps[i]
<1> DEFINE bare == [value |-> o.value, matched |-> {}]
           new == [value |-> o.value, matched |-> M]
           old == IF Len(p.steps) = Capacity THEN <<bare>> ELSE p.steps
<1>1. d.pending.steps = Append(old, new)
  BY DEF Coalesce, Runs
<1>2. p.steps \in Seq(ChangeSteps) /\ DOMAIN p.steps = 1..Len(p.steps)
  BY RunHas
<1>3. CASE Len(p.steps) = Capacity
  <2> HIDE DEF bare, new
  <2>1. d.pending.steps = Append(<<bare>>, new) /\ <<bare>> \in Seq({bare, new})
    BY <1>1, <1>3
  <2>2. DOMAIN d.pending.steps = {1, 2} /\ d.pending.steps[1] = bare /\ d.pending.steps[2] = new
    BY <2>1
  <2> QED BY <2>2 DEF bare, new
<1>4. CASE Len(p.steps) # Capacity
  <2>1. d.pending.steps = Append(p.steps, new)
    BY <1>1, <1>4
  <2> HIDE DEF new
  <2>2. /\ DOMAIN d.pending.steps = 1..Len(p.steps) + 1 /\ d.pending.steps[Len(p.steps) + 1] = new
        /\ \A i \in 1..Len(p.steps) : d.pending.steps[i] = p.steps[i]
    BY <1>2, <2>1
  <2>3. \A i \in 1..Len(p.steps) + 1 : i = Len(p.steps) + 1 \/ i \in 1..Len(p.steps)
    BY <1>2
  <2>4. new.matched = M
    BY DEF new
  <2> QED BY <1>2, <2>2, <2>3, <2>4
<1> QED BY <1>3, <1>4

Excused(c, b, o, banned, more) ==
  \/ Stays(c, banned, more)
  \/ ~o.text \/ o.value = Unread \/ c.rebaseline \/ Matching(b, c.generation, o.at) = {}

\* stage: only what is read with nothing to explain it may be withheld by the same step.
LEMMA StageOutcome ==
  ASSUME NEW n \in Nat, NEW att \in Seq(Attempts), NEW since, NEW loss \in Nat, NEW now \in Nat,
         NEW w \in Seq(1..n), NEW claimed, NEW banned, NEW more, NEW c, NEW b,
         Standing(b, att, loss, now), Carries(c, n, w, claimed, banned, att, since),
         NEW o, Reads(o, w), o.at <= now,
         Excused(c, b, o, banned, more),
         NEW r, r = Stage(c, b, o)
  PROVE  /\ Standing(r[2], att, loss, now) /\ r[2].emitted = b.emitted
         /\ Carries(r[1], n, w, claimed, more, att, since) /\ SameField(c, r[1])
<1> DEFINE M == Matching(b, c.generation, o.at)
           p == c.pending
<1>1. c \in Captures /\ Fits(c, n) /\ Aimed(c, att, since) /\ Seen(c, claimed, banned, w)
  BY DEF Carries, Fits
<1>2. /\ M \subseteq Nat
      /\ \A s \in M : s \in DOMAIN att /\ att[s].kind = "key" /\ att[s].generation = c.generation
  BY MatchingIs
<1>3. /\ Standing(Pruned(b, o.at), att, loss, now) /\ Pruned(b, o.at).emitted = b.emitted
      /\ Standing(InvalidateTarget(b, c.generation), att, loss, now)
      /\ InvalidateTarget(b, c.generation).emitted = b.emitted
  BY PrunedStands, InvalidateStands DEF Reads, InvalidateTarget
<1>4. Unrepeated(w) /\ w \in Values /\ Entries(w) \subseteq 1..n /\ Unread \in Values
      /\ o.value \in {Unread, w} /\ o.decision \in Rulings
  BY <1>1, EntriesIn DEF Seen, Values, Reads, Unread
<1>5. w # Unread
  <2>1. w = <<0>> => 0 \in Entries(w)
    BY DEF Entries
  <2> QED BY <1>4, <2>1 DEF Unread
<1>6. o.decision \notin Denied => o.value = w
  BY DEF Reads
<1>7. ASSUME o.text, ~c.rebaseline, o.decision \notin Denied, M # {},
             NEW v, v \in Heads(c), v # Unread, NEW x \in Entries(w), <<c.generation, x>> \in more
      PROVE  x \in Entries(v)
  <2>1. <<c.generation, x>> \in banned
    BY <1>5, <1>6, <1>7 DEF Stays, Excused
  <2> QED BY <1>1, <1>7, <2>1 DEF Seen
<1>8. \A K \in SUBSET Nat : NewPending(o, K) \in Runs
  <2> SUFFICES ASSUME NEW K \in SUBSET Nat PROVE NewPending(o, K) \in Runs
    OBVIOUS
  <2> DEFINE s == [value |-> o.value, matched |-> K]
  <2>1. s \in ChangeSteps /\ o.value \in Values /\ o.at \in Nat
    BY <1>4 DEF ChangeSteps, Reads
  <2> HIDE DEF s
  <2>2. <<s>> \in Seq(ChangeSteps) \ {<<>>}
    BY <2>1
  <2>3. NewPending(o, K) = [first |-> o.at, last |-> o.at, value |-> o.value, decision |-> o.decision,
                            steps |-> <<s>>]
    BY DEF NewPending, s
  <2> QED BY <1>4, <2>1, <2>2, <2>3 DEF Runs
<1>9. ASSUME NEW v \in Values, NEW K, K \subseteq M, NEW d, SameField(c, d), d \in Captures,
             d.baseline = v, d.pending = NewPending(o, K),
             v = Unread \/ Entries(v) \subseteq 1..n,
             v # Unread => Succeeds(v, w) /\ Entries(w) \cap claimed \subseteq Entries(v),
             K # {} /\ o.decision \notin Denied /\ v # Unread =>
               \A x \in Entries(w) : <<c.generation, x>> \in more => x \in Entries(v)
      PROVE  Carries(d, n, w, claimed, more, att, since)
  <2>1. K \subseteq Nat /\ d.generation = c.generation
    BY <1>2, <1>9 DEF SameField
  <2>2. Fits(d, n) /\ Seen(d, claimed, more, w) /\ Ready(d, claimed, more)
    BY <1>4, <1>9, <2>1, RunBegins
  <2>3. \A i \in DOMAIN d.pending.steps : d.pending.steps[i].matched \subseteq M
    BY <1>9, StepsBegun
  <2>4. Aimed(d, att, since)
    BY <1>1, <1>2, <1>9, <2>3, AimedAt
  <2> QED BY <2>2, <2>4 DEF Carries
<1>10. CASE ~o.text
  <2>1. r = <<Discarded(c), InvalidateTarget(b, c.generation)>>
    BY <1>10 DEF Stage, DiscardBoundary, Discarded
  <2>2. Carries(Discarded(c), n, w, claimed, more, att, since) /\ SameField(c, Discarded(c))
    BY <1>1, <1>4, DiscardedKeeps
  <2> QED BY <1>3, <2>1, <2>2
<1>11. CASE o.text /\ c.rebaseline
  <2> DEFINE d == [c EXCEPT !.baseline = o.value, !.rebaseline = FALSE, !.pending = NewPending(o, {})]
  <2>1. r = <<d, InvalidateTarget(b, c.generation)>>
    BY <1>11 DEF Stage
  <2>2. /\ d \in Captures /\ SameField(c, d) /\ d.baseline = o.value
        /\ d.pending = NewPending(o, {})
    BY <1>1, <1>4, <1>8 DEF Captures, SameField
  <2> HIDE DEF d
  <2>3. Carries(d, n, w, claimed, more, att, since)
    <3>1. Succeeds(w, w)
      BY <1>4, GrownSelf
    <3> QED BY <1>4, <1>9, <2>2, <3>1
  <2> QED BY <1>3, <2>1, <2>2, <2>3
<1>12. CASE o.text /\ ~c.rebaseline /\ p = NoPending
  <2> DEFINE d == [c EXCEPT !.pending = NewPending(o, M)]
  <2>1. r = <<d, Pruned(b, o.at)>>
    BY <1>12 DEF Stage
  <2>2. /\ d \in Captures /\ SameField(c, d) /\ d.baseline = c.baseline /\ c.baseline \in Values
        /\ d.pending = NewPending(o, M)
    BY <1>1, <1>2, <1>8 DEF Captures, SameField
  <2> HIDE DEF d
  <2>3. c.baseline \in Starts(c) /\ c.baseline \in Heads(c)
    <3>1. DOMAIN c.pending.steps = {}
      BY <1>12 DEF NoPending
    <3> QED BY <1>12, <3>1 DEF Starts, Heads, After
  <2>4. c.baseline = Unread \/ Entries(c.baseline) \subseteq 1..n
    BY <1>1, <2>3 DEF Fits
  <2>5. c.baseline # Unread =>
          Succeeds(c.baseline, w) /\ Entries(w) \cap claimed \subseteq Entries(c.baseline)
    BY <1>1, <2>3 DEF Seen
  <2>6. Carries(d, n, w, claimed, more, att, since)
    BY <1>7, <1>9, <1>12, <2>2, <2>3, <2>4, <2>5
  <2> QED BY <1>3, <2>1, <2>2, <2>6
<1>13. CASE o.text /\ ~c.rebaseline /\ p # NoPending /\ Boundary(p, o)
  <2> DEFINE d == [c EXCEPT !.baseline = p.value, !.pending = NewPending(o, M)]
  <2>1. r = <<d, Pruned(b, o.at)>>
    BY <1>13 DEF Stage
  <2>2. p.value \in Starts(c) /\ p.value \in Heads(c) /\ p.value \in Values
    BY <1>1, <1>13, ValueStarts
  <2>3. /\ d \in Captures /\ SameField(c, d) /\ d.baseline = p.value
        /\ d.pending = NewPending(o, M)
    BY <1>1, <1>2, <1>8, <2>2 DEF Captures, SameField
  <2> HIDE DEF d
  <2>4. p.value = Unread \/ Entries(p.value) \subseteq 1..n
    BY <1>1, <2>2 DEF Fits
  <2>5. p.value # Unread =>
          Succeeds(p.value, w) /\ Entries(w) \cap claimed \subseteq Entries(p.value)
    BY <1>1, <2>2 DEF Seen
  <2>6. Carries(d, n, w, claimed, more, att, since)
    BY <1>7, <1>9, <1>13, <2>2, <2>3, <2>4, <2>5
  <2> QED BY <1>3, <2>1, <2>3, <2>6
<1>14. CASE o.text /\ ~c.rebaseline /\ p # NoPending /\ ~Boundary(p, o)
  <2> DEFINE d == Going(c, o, M)
  <2>1. r = <<d, Pruned(b, o.at)>>
    BY <1>14 DEF Stage, Going
  <2>2. M # {} => Stays(c, banned, more)
    <3>1. o.value # Unread
      BY <1>5, <1>6, <1>14 DEF Boundary
    <3> QED BY <1>14, <3>1 DEF Excused
  <2> HIDE DEF M
  <2>3. Fits(d, n) /\ Seen(d, claimed, more, w) /\ Ready(d, claimed, more)
    <3>1. d = Going(c, o, M)
      OBVIOUS
    <3>2. Fits(c, n) /\ c.pending # NoPending /\ ~Boundary(c.pending, o) /\ M \subseteq Nat
          /\ Seen(c, claimed, banned, w)
      BY <1>1, <1>2, <1>14
    <3> HIDE DEF d
    <3> QED BY <2>2, <3>1, <3>2, RunGrows
  <2>4. SameField(c, d) /\ d.pending = Coalesce(p, o, M) /\ p \in Runs
    BY <1>1, <1>14, ValueStarts DEF Captures, SameField, Going
  <2> HIDE DEF d
  <2>5. Aimed(d, att, since)
    <3> HIDE DEF M, p
    <3>1. \A i \in DOMAIN d.pending.steps :
            \/ d.pending.steps[i].matched \subseteq M
            \/ i \in DOMAIN p.steps /\ d.pending.steps[i] = p.steps[i]
      BY <2>4, StepsGrown
    <3>2. \A i \in DOMAIN d.pending.steps :
            \/ d.pending.steps[i].matched \subseteq M
            \/ i \in DOMAIN c.pending.steps /\ d.pending.steps[i] = c.pending.steps[i]
      BY <3>1 DEF p
    <3> QED BY <1>1, <1>2, <2>4, <3>2, AimedAt
  <2>6. Carries(d, n, w, claimed, more, att, since)
    BY <2>3, <2>5 DEF Carries
  <2> QED BY <1>3, <2>1, <2>4, <2>6
<1>15. o.text \in BOOLEAN /\ c.rebaseline \in BOOLEAN
  BY <1>1, CaptureHas DEF Reads
<1> QED BY <1>10, <1>11, <1>12, <1>13, <1>14, <1>15

-----------------------------------------------------------------------------
(* The outcome of a handler for the capture it is about.                    *)

\* A text that may be recorded for a field: it rests on keys aimed at it that no loss has
\* voided, and nothing of it is recorded, claimed or banned.
Sound(e, el, gen, n, claimed, banned, att, since, loss, now) ==
  /\ e \in Texts /\ e.element = el /\ e.generation = gen
  /\ Entries(e.text) \subseteq 1..n /\ Entries(e.text) \cap claimed = {}
  /\ \A x \in Entries(e.text) : <<gen, x>> \notin banned
  /\ \E s \in e.by : s <= since \/ att[s].element = el
  /\ \A s \in e.by : s > loss \/ now - att[s].at > Window

Speaks(b, d, c, n, claimed, banned, att, since, loss, now) ==
  \/ d.emitted = b.emitted
  \/ \E e : /\ Sound(e, c.element, c.generation, n, claimed, banned, att, since, loss, now)
            /\ d.emitted = Append(b.emitted, e)

LEMMA RecordedSound ==
  ASSUME NEW n \in Nat, NEW att \in Seq(Attempts), NEW since \in Nat, NEW loss \in Nat, NEW now \in Nat,
         NEW c, NEW b, Standing(b, att, loss, now), Fits(c, n), Aimed(c, att, since), NEW claimed,
         NEW banned, NEW e, SaidOf(e, c, claimed, banned, b.attempts), c.pending.value # Unread,
         c.pending # NoPending
  PROVE  Sound(e, c.element, c.generation, n, claimed, banned, att, since, loss, now)
<1>1. /\ e \in Texts /\ e.element = c.element /\ e.generation = c.generation
      /\ Entries(e.text) \subseteq Unspelled(c) /\ Entries(e.text) \cap claimed = {}
      /\ \A x \in Entries(e.text) : <<c.generation, x>> \notin banned
      /\ e.by # {} /\ \A s \in e.by : b.attempts[s].state = "confirmed"
  BY DEF SaidOf
<1>2. PICK i \in DOMAIN c.pending.steps : e.by \subseteq c.pending.steps[i].matched
  BY DEF SaidOf
<1>3. \A s \in e.by : s \in DOMAIN att /\ att[s].kind = "key" /\ att[s].generation = c.generation
  BY <1>2 DEF Aimed
<1>4. Entries(e.text) \subseteq 1..n
  <2>1. c.pending.value \in Starts(c)
    BY ValueStarts
  <2> QED BY <1>1, <2>1 DEF Fits, Unspelled
<1>5. ASSUME NEW s \in e.by PROVE /\ s <= since \/ att[s].element = c.element
                                  /\ s > loss \/ now - att[s].at > Window
  <2>1. s \in DOMAIN att /\ att[s].kind = "key" /\ att[s].generation = c.generation /\ s \in Nat
        /\ att[s].at \in Nat /\ Window \in Nat
    BY <1>3, AttemptHas, TypedTextAssumption
  <2>2. s > since => att[s].element = c.element
    BY <2>1 DEF Aimed
  <2>3. Opens(b.attempts, s)
    BY <1>1, <2>1 DEF Opens, Standing, Steady
  <2>4. now - att[s].at <= Window => s > loss
    BY <2>1, <2>3 DEF Standing
  <2> QED BY <2>1, <2>2, <2>4
<1> QED BY <1>1, <1>4, <1>5 DEF Sound

Outcome(b, c, r, n, w, others, banned, more, att, since, loss, now) ==
  /\ Standing(r[2], att, loss, now) /\ SameField(c, r[1])
  /\ Carries(r[1], n, w, Claims(r[2], others), more, att, since)
  /\ Speaks(b, r[2], c, n, Claims(b, others), banned, att, since, loss, now)

LEMMA FlushSound ==
  ASSUME NEW n \in Nat, NEW att \in Seq(Attempts), NEW since \in Nat, NEW loss \in Nat, NEW now \in Nat,
         NEW w, NEW others, NEW banned, NEW c, NEW b, Standing(b, att, loss, now),
         Carries(c, n, w, Claims(b, others), banned, att, since),
         NEW r, r = FlushPending(c, b)
  PROVE  /\ Outcome(b, c, r, n, w, others, banned, banned, att, since, loss, now)
         /\ r[1].pending = NoPending /\ r[1].rebaseline = c.rebaseline
         /\ r[1].baseline = IF c.pending = NoPending THEN c.baseline ELSE c.pending.value
         /\ r[2].attempts = b.attempts /\ r[2].history = b.history
<1> DEFINE claimed == Claims(b, others)
<1>1. /\ Standing(r[2], att, loss, now)
      /\ Carries(r[1], n, w, Claims(r[2], others), banned, att, since)
      /\ Spoke(b, r[2], c, Claims(b, others), banned)
      /\ r[1].pending = NoPending /\ SameField(c, r[1]) /\ r[1].rebaseline = c.rebaseline
      /\ r[1].baseline = IF c.pending = NoPending THEN c.baseline ELSE c.pending.value
      /\ r[2].attempts = b.attempts /\ r[2].history = b.history
  <2>1. /\ Standing(r[2], att, loss, now)
        /\ Carries(r[1], n, w, Claims(r[2], others), banned, att, since)
        /\ Spoke(b, r[2], c, Claims(b, others), banned)
    BY FlushOutcome
  <2>2. /\ r[1].pending = NoPending /\ SameField(c, r[1]) /\ r[1].rebaseline = c.rebaseline
        /\ r[1].baseline = IF c.pending = NoPending THEN c.baseline ELSE c.pending.value
        /\ r[2].attempts = b.attempts /\ r[2].history = b.history
    BY FlushOutcome
  <2> QED BY <2>1, <2>2
<1>2. Fits(c, n) /\ Aimed(c, att, since)
  BY DEF Carries
<1>3. r[2].emitted = b.emitted \/ (c.pending # NoPending /\ c.pending.value # Unread)
  BY DEF FlushPending, FlushFrom, Emission
<1>4. Speaks(b, r[2], c, n, claimed, banned, att, since, loss, now)
  <2>1. CASE r[2].emitted = b.emitted
    BY <2>1 DEF Speaks
  <2>2. CASE r[2].emitted # b.emitted
    <3>1. PICK e : SaidOf(e, c, claimed, banned, b.attempts) /\ r[2].emitted = Append(b.emitted, e)
      BY <1>1, <2>2 DEF Spoke
    <3>2. Sound(e, c.element, c.generation, n, claimed, banned, att, since, loss, now)
      BY <1>2, <1>3, <2>2, <3>1, RecordedSound
    <3> QED BY <3>1, <3>2 DEF Speaks
  <2> QED BY <2>1, <2>2
<1>5. Outcome(b, c, r, n, w, others, banned, banned, att, since, loss, now)
  BY <1>1, <1>4 DEF Outcome
<1> QED BY <1>1, <1>5

LEMMA NothingDone ==
  ASSUME NEW n, NEW att, NEW since, NEW loss, NEW now, NEW w, NEW others, NEW banned,
         NEW c, NEW b, Standing(b, att, loss, now),
         Carries(c, n, w, Claims(b, others), banned, att, since)
  PROVE  Outcome(b, c, <<c, b>>, n, w, others, banned, banned, att, since, loss, now)
<1>1. Speaks(b, b, c, n, Claims(b, others), banned, att, since, loss, now)
  BY DEF Speaks
<1> QED BY <1>1 DEF Outcome, SameField

LEMMA TakeDueSound ==
  ASSUME NEW n \in Nat, NEW att \in Seq(Attempts), NEW since \in Nat, NEW loss \in Nat, NEW now \in Nat,
         NEW w, NEW others, NEW banned, NEW c, NEW b, Standing(b, att, loss, now), NEW at,
         Carries(c, n, w, Claims(b, others), banned, att, since)
  PROVE  Outcome(b, c, TakeDue(c, b, at), n, w, others, banned, banned, att, since, loss, now)
<1>1. TakeDue(c, b, at) = FlushPending(c, b) \/ TakeDue(c, b, at) = <<c, b>>
  BY DEF TakeDue
<1> QED BY <1>1, FlushSound, NothingDone

\* What the same step may withhold of a field, when it is read.
Withholds(c, b, o, banned, more) ==
  \A x : <<c.generation, x>> \in more =>
    \/ <<c.generation, x>> \in banned
    \/ ~o.text \/ o.value = Unread \/ c.rebaseline
    \/ /\ Matching(b, c.generation, o.at) = {} /\ x \in Entries(o.value)
       /\ x \notin Entries(IF c.pending = NoPending THEN c.baseline ELSE c.pending.value)

LEMMA StageAfter ==
  ASSUME NEW n \in Nat, NEW att \in Seq(Attempts), NEW since \in Nat, NEW loss \in Nat, NEW now \in Nat,
         NEW w \in Seq(1..n), NEW others, NEW banned, NEW more, NEW c, NEW b,
         Standing(b, att, loss, now), NEW o, Reads(o, w), o.at <= now,
         Withholds(c, b, o, banned, more), NEW r,
         Outcome(b, c, r, n, w, others, banned, banned, att, since, loss, now),
         r[2].attempts = b.attempts, r[2].history = b.history, r[1].rebaseline = c.rebaseline
  PROVE  Outcome(b, c, Stage(r[1], r[2], o), n, w, others, banned, more, att, since, loss, now)
<1> DEFINE claimed == Claims(r[2], others)
           s == Stage(r[1], r[2], o)
<1>1. /\ Standing(r[2], att, loss, now) /\ SameField(c, r[1])
      /\ Carries(r[1], n, w, claimed, banned, att, since)
      /\ Speaks(b, r[2], c, n, Claims(b, others), banned, att, since, loss, now)
  BY DEF Outcome
<1>2. Matching(r[2], r[1].generation, o.at) = Matching(b, c.generation, o.at)
  BY <1>1 DEF Matching, SameField
<1>3. Excused(r[1], r[2], o, banned, more)
  BY <1>1, <1>2 DEF Withholds, SameField, Stays, Excused
<1>4. /\ Standing(s[2], att, loss, now) /\ s[2].emitted = r[2].emitted
      /\ Carries(s[1], n, w, claimed, more, att, since) /\ SameField(r[1], s[1])
  <2> DEFINE c1 == r[1]
             b1 == r[2]
  <2>1. Standing(b1, att, loss, now) /\ Carries(c1, n, w, claimed, banned, att, since)
        /\ s = Stage(c1, b1, o)
    BY <1>1
  <2>2. Excused(c1, b1, o, banned, more)
    BY <1>3
  <2> HIDE DEF claimed, s, c1, b1
  <2>3. /\ Standing(s[2], att, loss, now) /\ s[2].emitted = b1.emitted
        /\ Carries(s[1], n, w, claimed, more, att, since) /\ SameField(c1, s[1])
    BY <2>1, <2>2, StageOutcome
  <2> QED BY <2>3 DEF c1, b1
<1> HIDE DEF s
<1>5. Outcome(b, c, s, n, w, others, banned, more, att, since, loss, now)
  BY <1>1, <1>4 DEF Outcome, SameField, Speaks, Claims
<1> QED BY <1>5 DEF s

LEMMA CarriesMore ==
  ASSUME NEW n, NEW w, NEW claimed, NEW banned, NEW more, NEW att, NEW since, NEW c,
         Carries(c, n, w, claimed, banned, att, since),
         Stays(c, banned, more) \/ (c.pending = NoPending /\ Heads(c) \subseteq {Unread})
  PROVE  Carries(c, n, w, claimed, more, att, since)
<1>1. Fits(c, n) /\ Aimed(c, att, since) /\ Seen(c, claimed, banned, w) /\ Ready(c, claimed, banned)
  BY DEF Carries
<1>2. ASSUME NEW x, Stays(c, banned, more) \/ Heads(c) \subseteq {Unread}, Seen(c, claimed, banned, x)
      PROVE  Seen(c, claimed, more, x)
  BY <1>2 DEF Seen, Stays
<1> QED BY <1>1, <1>2 DEF Carries, Ready

LEMMA OutcomeMore ==
  ASSUME NEW n, NEW w, NEW others, NEW banned, NEW more, NEW att, NEW since, NEW loss, NEW now,
         NEW b, NEW c, NEW r, Outcome(b, c, r, n, w, others, banned, banned, att, since, loss, now),
         Stays(c, banned, more) \/ (r[1].pending = NoPending /\ Heads(r[1]) \subseteq {Unread})
  PROVE  Outcome(b, c, r, n, w, others, banned, more, att, since, loss, now)
<1> DEFINE d == r[1]
           claimed == Claims(r[2], others)
<1>1. /\ Standing(r[2], att, loss, now) /\ SameField(c, d)
      /\ Carries(d, n, w, claimed, banned, att, since)
      /\ Speaks(b, r[2], c, n, Claims(b, others), banned, att, since, loss, now)
  BY DEF Outcome
<1>2. Stays(d, banned, more) \/ (d.pending = NoPending /\ Heads(d) \subseteq {Unread})
  BY <1>1 DEF Stays, SameField
<1> HIDE DEF d, claimed
<1>3. Carries(d, n, w, claimed, more, att, since)
  BY <1>1, <1>2, CarriesMore
<1> QED BY <1>1, <1>3 DEF Outcome, d, claimed

\* observe and observe_sample.
LEMMA ObserveSound ==
  ASSUME NEW n \in Nat, NEW att \in Seq(Attempts), NEW since \in Nat, NEW loss \in Nat, NEW now \in Nat,
         NEW w \in Seq(1..n), NEW others, NEW banned, NEW more, NEW c, NEW b,
         Standing(b, att, loss, now), Carries(c, n, w, Claims(b, others), banned, att, since),
         NEW o, Reads(o, w), o.at <= now, Withholds(c, b, o, banned, more),
         NEW r, r = Observe(c, b, o)
  PROVE  Outcome(b, c, r, n, w, others, banned, more, att, since, loss, now)
<1> DEFINE F == FlushPending(c, b)
           due == TakeDue(c, b, o.at)
           p == due[1].pending
           same == IF p = NoPending THEN due[1].baseline ELSE p.value
           comparable == p = NoPending \/ ~Boundary(p, o)
           clears == p # NoPending /\ comparable /\ o.value = <<>> /\ p.value \notin {Unread, <<>>}
           settled == IF clears THEN FlushPending(due[1], due[2]) ELSE due
           prev == IF c.pending = NoPending THEN c.baseline ELSE c.pending.value
           Good(x) == /\ Outcome(b, c, x, n, w, others, banned, banned, att, since, loss, now)
                      /\ x[2].attempts = b.attempts /\ x[2].history = b.history
                      /\ x[1].rebaseline = c.rebaseline
<1>1. /\ Outcome(b, c, F, n, w, others, banned, banned, att, since, loss, now)
      /\ F[1].pending = NoPending /\ F[1].rebaseline = c.rebaseline
      /\ F[1].baseline = prev
      /\ F[2].attempts = b.attempts /\ F[2].history = b.history
  BY FlushSound
<1>2. Good(F) /\ Good(<<c, b>>)
  BY <1>1, NothingDone
<1>3. due = F \/ due = <<c, b>>
  BY DEF TakeDue
<1>4. settled = F \/ settled = <<c, b>>
  <2>1. CASE clears
    <3>1. due = <<c, b>>
      BY <1>1, <1>3, <2>1
    <3> QED BY <2>1, <3>1
  <2>2. CASE ~clears
    BY <1>3, <2>2
  <2> QED BY <2>1, <2>2
<1>5. same = prev
  <2>1. CASE due = F
    BY <1>1, <2>1
  <2>2. CASE due = <<c, b>>
    BY <2>2
  <2> QED BY <1>3, <2>1, <2>2
<1>6. r = IF ~o.text \/ c.rebaseline THEN Stage(c, b, o)
          ELSE IF comparable /\ same = o.value /\ (o.value # Unread \/ o.sampled) THEN due
          ELSE Stage(settled[1], settled[2], o)
  BY DEF Observe
<1>7. w # Unread /\ (o.decision \notin Denied => o.value = w)
  <2>1. w = <<0>> => 0 \in Entries(w)
    BY DEF Entries
  <2> QED BY <2>1, EntriesIn DEF Unread, Reads
<1> HIDE DEF F, due, settled, Good
<1>8. ASSUME NEW x, Good(x)
      PROVE  Outcome(b, c, Stage(x[1], x[2], o), n, w, others, banned, more, att, since, loss, now)
  BY <1>8, StageAfter DEF Good
<1>9. CASE ~o.text \/ c.rebaseline
  <2> DEFINE x == <<c, b>>
  <2>1. Good(x) /\ r = Stage(x[1], x[2], o)
    BY <1>2, <1>6, <1>9
  <2> HIDE DEF x
  <2> QED BY <1>8, <2>1
<1>10. CASE ~(~o.text \/ c.rebaseline) /\ ~(comparable /\ same = o.value /\ (o.value # Unread \/ o.sampled))
  <2>1. Good(settled) /\ r = Stage(settled[1], settled[2], o)
    BY <1>2, <1>4, <1>6, <1>10
  <2> QED BY <1>8, <2>1
<1>11. CASE ~(~o.text \/ c.rebaseline) /\ comparable /\ same = o.value /\ (o.value # Unread \/ o.sampled)
  <2>1. Good(due) /\ r = due
    BY <1>2, <1>3, <1>6, <1>11
  <2>2. Outcome(b, c, r, n, w, others, banned, banned, att, since, loss, now)
    BY <2>1 DEF Good
  <2>3. CASE o.value # Unread
    <3>1. Stays(c, banned, more)
      BY <1>5, <1>11, <2>3 DEF Withholds, Stays
    <3> QED BY <2>2, <3>1, OutcomeMore
  <2>4. CASE o.value = Unread
    <3>1. r[1].pending = NoPending /\ r[1].baseline = Unread
      <4>1. o.decision \in Denied
        BY <1>7, <2>4
      <4> QED BY <1>11, <2>1, <2>4, <4>1 DEF Boundary
    <3>2. Heads(r[1]) \subseteq {Unread}
      <4>1. DOMAIN r[1].pending.steps = {}
        BY <3>1 DEF NoPending
      <4> QED BY <3>1, <4>1 DEF Heads
    <3> QED BY <2>2, <3>1, <3>2, OutcomeMore
  <2> QED BY <2>3, <2>4
<1> QED BY <1>9, <1>10, <1>11

\* resolve_focus_change: the capture is let go, or waits with its run of changes.
LetGo(b, c, r, n, w, others, banned, att, since, loss, now) ==
  /\ Standing(r[2], att, loss, now)
  /\ Speaks(b, r[2], c, n, Claims(b, others), banned, att, since, loss, now)
  /\ \/ r[1] = NoTarget
     \/ SameField(c, r[1]) /\ Carries(r[1], n, w, Claims(r[2], others), banned, att, since)

LEMMA ResolveSound ==
  ASSUME NEW n \in Nat, NEW att \in Seq(Attempts), NEW since \in Nat, NEW loss \in Nat, NEW now \in Nat,
         NEW w \in Seq(1..n), NEW others, NEW banned, NEW c, NEW b,
         Standing(b, att, loss, now), Carries(c, n, w, Claims(b, others), banned, att, since),
         NEW o, Reads(o, w), o.at <= now, NEW readable,
         NEW r, r = ResolveFocusChange(c, b, o, readable)
  PROVE  LetGo(b, c, r, n, w, others, banned, att, since, loss, now)
<1> DEFINE S == Stage(c, b, o)
           x == <<c, b>>
<1>1. Outcome(b, c, x, n, w, others, banned, banned, att, since, loss, now)
  BY NothingDone
<1>2. Withholds(c, b, o, banned, banned)
  BY DEF Withholds
<1>3. x[1] = c /\ x[2] = b
  OBVIOUS
<1> HIDE DEF x
<1>4. Outcome(b, c, Stage(x[1], x[2], o), n, w, others, banned, banned, att, since, loss, now)
  BY <1>1, <1>2, <1>3, StageAfter
<1>5. Outcome(b, c, S, n, w, others, banned, banned, att, since, loss, now)
  BY <1>3, <1>4
<1>6. S[2].emitted = b.emitted
  <2>1. Excused(c, b, o, banned, banned)
    BY DEF Excused, Stays
  <2> HIDE DEF S
  <2>2. S = Stage(c, b, o)
    BY DEF S
  <2> QED BY <2>1, <2>2, StageOutcome
<1>7. r = <<NoTarget, S[2]>> \/ r = x \/ r = S
      \/ r = <<NoTarget, FlushPending(c, b)[2]>> \/ r = <<NoTarget, FlushPending(S[1], S[2])[2]>>
  BY <1>3 DEF ResolveFocusChange, x
<1> HIDE DEF S
<1>8. CASE r = <<NoTarget, S[2]>>
  BY <1>5, <1>8 DEF Outcome, LetGo
<1>9. CASE r = x \/ r = S
  BY <1>1, <1>5, <1>9 DEF Outcome, LetGo
<1>10. CASE r = <<NoTarget, FlushPending(c, b)[2]>>
  <2> DEFINE F == FlushPending(c, b)
  <2>1. Outcome(b, c, F, n, w, others, banned, banned, att, since, loss, now)
    BY FlushSound
  <2> HIDE DEF F
  <2> QED BY <1>10, <2>1 DEF Outcome, LetGo, F
<1>11. CASE r = <<NoTarget, FlushPending(S[1], S[2])[2]>>
  <2> DEFINE d == S[1]
             a == S[2]
             F == FlushPending(d, a)
  <2>1. Standing(a, att, loss, now) /\ Carries(d, n, w, Claims(a, others), banned, att, since)
        /\ SameField(c, d) /\ a.emitted = b.emitted
    BY <1>5, <1>6 DEF Outcome
  <2>2. r[1] = NoTarget /\ r[2] = F[2]
    BY <1>11
  <2> HIDE DEF d, a
  <2>3. Outcome(a, d, F, n, w, others, banned, banned, att, since, loss, now)
    BY <2>1, FlushSound
  <2> HIDE DEF F
  <2>4. Claims(a, others) = Claims(b, others)
    BY <2>1 DEF Claims
  <2>5. Speaks(b, F[2], c, n, Claims(b, others), banned, att, since, loss, now)
    BY <2>1, <2>3, <2>4 DEF Outcome, Speaks, SameField
  <2> QED BY <2>2, <2>3, <2>5 DEF Outcome, LetGo
<1> QED BY <1>7, <1>8, <1>9, <1>10, <1>11

-----------------------------------------------------------------------------
(* The state of the typed text, and what it keeps to.                       *)

TextWorld ==
  /\ clock \in 0..MaxTime /\ inserted \in Nat /\ inserted <= MaxChars
  /\ content \in [Elements -> Seq(1..inserted)] /\ \A e \in Elements : Unrepeated(content[e])
  /\ focused \in Elements /\ secureInput \in BOOLEAN /\ ruling \in Rulings

TextKeys ==
  /\ attempts \in Seq(Attempts)
  /\ channel \in Seq(1..Len(attempts)) /\ Len(channel) <= Capacity
  /\ history \in Seq(1..Len(attempts)) /\ Len(history) <= Capacity
  /\ integrityLost \in BOOLEAN /\ lossPending \in BOOLEAN
  /\ tapQueue \in Seq(Presses) /\ Len(tapQueue) <= EventCapacity
  /\ received \in Nat /\ received <= Len(attempts)
  /\ lossKnown \in Nat /\ lossKnown <= Len(attempts)
  /\ restartedAt \in Nat /\ restartedAt <= Len(attempts)

\* A key that can still explain a change is known to the worker or on its way, and one from
\* before a loss only until the worker hears of the loss.
KeysKnown ==
  \A s \in DOMAIN attempts : Opens(attempts, s) /\ clock - attempts[s].at <= Window =>
    /\ s \in Entries(history) \cup Entries(channel)
    /\ s > lossKnown \/ integrityLost

PublishedIs ==
  /\ published \in [generation : Nat, text : BOOLEAN, version : Nat, element : Elements \cup {0}]
  /\ target = NoTarget => published.generation = 0 /\ ~published.text
  /\ target # NoTarget => published.generation = target.generation /\ published.element = target.element

LEMMA ConstantsAre ==
  /\ Capacity \in Nat \ {0} /\ EventCapacity \in Nat \ {0} /\ Window \in Nat /\ MaxTime \in Nat
  /\ MaxChars \in Nat /\ MaxAttempts \in Nat
  BY TypedTextAssumption

LEMMA LastOnes ==
  ASSUME NEW S, NEW q \in Seq(S)
  PROVE  LET kept == IF Len(q) <= Capacity THEN q
                     ELSE SubSeq(q, Len(q) - ((Len(q) - 1) % Capacity), Len(q))
         IN kept \in Seq(S) /\ Len(kept) <= Capacity
<1> DEFINE m == (Len(q) - 1) % Capacity
           a == Len(q) - m
<1>1. Capacity \in Nat /\ Capacity > 0 /\ Len(q) \in Nat
  BY ConstantsAre
<1>2. CASE ~(Len(q) <= Capacity)
  <2>1. m \in 0..Capacity - 1
    BY <1>1
  <2>2. a \in 1..Len(q) + 1 /\ Len(q) \in 0..Len(q) /\ a <= Len(q) + 1 /\ Len(q) - a + 1 <= Capacity
    BY <1>1, <1>2, <2>1
  <2> HIDE DEF m
  <2>3. SubSeq(q, a, Len(q)) \in Seq(S) /\ Len(SubSeq(q, a, Len(q))) = Len(q) - a + 1
    <3> DEFINE z == Len(q)
    <3>1. z \in 0..Len(q) /\ a <= z + 1 /\ a \in 1..Len(q) + 1
      BY <2>2
    <3> HIDE DEF a, z
    <3>2. SubSeq(q, a, z) \in Seq(S) /\ Len(SubSeq(q, a, z)) = z - a + 1
      BY <3>1, StretchIs
    <3> QED BY <3>2 DEF z
  <2> HIDE DEF a
  <2> QED BY <1>2, <2>2, <2>3 DEF a, m
<1> QED BY <1>2

\* receive_pending.
LEMMA ReceivedStands ==
  ASSUME TextWorld, TextKeys, KeysKnown, emitted \in Seq(Texts)
  PROVE  Standing(Received, attempts, lossKnown, clock) /\ Received.emitted = emitted
<1> DEFINE P == {i \in DOMAIN channel : attempts[channel[i]].kind # "activity"}
           all == history \o Picked(channel, P)
           kept == IF Len(all) <= Capacity THEN all
                   ELSE SubSeq(all, Len(all) - ((Len(all) - 1) % Capacity), Len(all))
           void == Gap \/ integrityLost
           gone == IF void THEN Entries(all) ELSE Entries(all) \ Entries(kept)
           d == Received
           N == 1..Len(attempts)
<1>1. d = [attempts |-> Invalidated(attempts, gone), history |-> IF void THEN <<>> ELSE kept,
           emitted |-> emitted]
  BY DEF Received, Receive
<1>2. attempts \in Seq(Attempts) /\ channel \in Seq(N) /\ history \in Seq(N) /\ N \subseteq Nat
      /\ DOMAIN attempts = N
  BY DEF TextKeys
<1>3. all \in Seq(N) /\ Entries(all) = Entries(history) \cup {channel[i] : i \in P}
  <2>1. Picked(channel, P) \in Seq(N) /\ Entries(Picked(channel, P)) = {channel[i] : i \in P}
    BY <1>2, PickedEntries
  <2> HIDE DEF P, N
  <2> QED BY <1>2, <2>1, EntriesJoined
<1> HIDE DEF all
<1>4. kept \in Seq(N) /\ Len(kept) <= Capacity
  <2> HIDE DEF N
  <2> QED BY <1>3, LastOnes
<1> HIDE DEF kept
<1>5. \A s \in N : /\ Opens(d.attempts, s) => Opens(attempts, s) /\ s \notin gone
                   /\ d.attempts[s].at = attempts[s].at
  BY <1>1, <1>2, Invalidating DEF Steady
<1>6. d.attempts \in Seq(Attempts) /\ Steady(attempts, d.attempts)
  BY <1>1, <1>2, Invalidating
<1>7. d.history = (IF void THEN <<>> ELSE kept) /\ d.emitted = emitted
  BY <1>1
<1>8. d.history \in Seq(N) /\ Len(d.history) <= Capacity
  <2>1. CASE void
    <3>1. d.history = <<>>
      BY <1>7, <2>1
    <3> QED BY <3>1, ConstantsAre
  <2>2. CASE ~void
    BY <1>4, <1>7, <2>2
  <2> QED BY <2>1, <2>2
<1>9. ASSUME NEW s \in N, Opens(d.attempts, s), clock - attempts[s].at <= Window
      PROVE  s \in Entries(d.history) /\ s > lossKnown
  <2>1. /\ Opens(attempts, s) /\ s \notin gone
        /\ s \in Entries(history) \cup Entries(channel)
        /\ s > lossKnown \/ integrityLost
    BY <1>2, <1>5, <1>9 DEF KeysKnown
  <2>2. s \in Entries(all)
    <3>1. ASSUME s \in Entries(channel) PROVE s \in {channel[i] : i \in P}
      <4>1. PICK i \in DOMAIN channel : s = channel[i]
        BY <3>1 DEF Entries
      <4> QED BY <2>1, <4>1 DEF Opens
    <3> QED BY <1>3, <2>1, <3>1
  <2>3. ~void /\ s \in Entries(kept)
    BY <2>1, <2>2
  <2> QED BY <1>7, <2>1, <2>3
<1>10. d \in Books
  <2>1. d.history \in Seq(Nat)
    BY <1>2, <1>8
  <2>2. d = [attempts |-> d.attempts, history |-> d.history, emitted |-> d.emitted]
    BY <1>1
  <2> HIDE DEF d
  <2> QED BY <1>6, <1>7, <2>1, <2>2 DEF Books
<1> HIDE DEF d
<1>11. Standing(d, attempts, lossKnown, clock)
  BY <1>2, <1>6, <1>8, <1>9, <1>10 DEF Standing
<1> QED BY <1>7, <1>11 DEF d

LEMMA SteadyAims ==
  ASSUME NEW att \in Seq(Attempts), NEW new \in Seq(Attempts), Steady(att, new), NEW c, NEW since,
         Aimed(c, att, since)
  PROVE  Aimed(c, new, since)
<1>1. DOMAIN new = DOMAIN att
  BY DEF Steady
<1> QED BY <1>1 DEF Aimed, Steady

\* The end of a handler.
LEMMA CloseKeeps ==
  ASSUME TextWorld, TextKeys, NEW b, Standing(b, attempts, lossKnown, clock), Close(b),
         UNCHANGED <<clock, lossPending, tapQueue, lossKnown>>, restartedAt' \in Nat,
         restartedAt' <= Len(attempts)
  PROVE  /\ TextKeys' /\ KeysKnown' /\ Steady(attempts, attempts') /\ emitted' \in Seq(Texts)
         /\ emitted' = b.emitted
<1>1. /\ attempts' = b.attempts /\ history' = b.history /\ emitted' = b.emitted /\ channel' = <<>>
      /\ received' = (IF channel = <<>> THEN received ELSE channel[Len(channel)]) /\ integrityLost' = FALSE
      /\ clock' = clock /\ lossPending' = lossPending /\ tapQueue' = tapQueue /\ lossKnown' = lossKnown
  BY DEF Close
<1>2. /\ b \in Books /\ Steady(attempts, b.attempts) /\ b.history \in Seq(1..Len(attempts))
      /\ Len(b.history) <= Capacity
      /\ \A s \in DOMAIN attempts : Opens(b.attempts, s) /\ clock - attempts[s].at <= Window
                             => s \in Entries(b.history) /\ s > lossKnown
  BY DEF Standing
<1>3. b.attempts \in Seq(Attempts) /\ b.emitted \in Seq(Texts)
  BY <1>2, BookHas
<1>4. Len(attempts') = Len(attempts) /\ DOMAIN attempts' = DOMAIN attempts
  BY <1>1, <1>2, <1>3 DEF Steady, TextKeys
<1>5. received' \in Nat /\ received' <= Len(attempts)
  <2>1. CASE channel = <<>>
    BY <1>1, <2>1 DEF TextKeys
  <2>2. CASE channel # <<>>
    <3>1. channel[Len(channel)] \in 1..Len(attempts)
      BY <2>2 DEF TextKeys
    <3>2. Len(attempts) \in Nat
      BY DEF TextKeys
    <3> QED BY <1>1, <2>2, <3>1, <3>2
  <2> QED BY <2>1, <2>2
<1>6. TextKeys'
  <2>1. <<>> \in Seq(1..Len(attempts)) /\ Len(<<>>) <= Capacity
    BY ConstantsAre
  <2> QED BY <1>1, <1>2, <1>3, <1>4, <1>5, <2>1 DEF TextKeys
<1>7. KeysKnown'
  <2> SUFFICES ASSUME NEW s \in DOMAIN attempts, Opens(b.attempts, s), clock - b.attempts[s].at <= Window
               PROVE  s \in Entries(b.history) /\ s > lossKnown
    BY <1>1, <1>4 DEF KeysKnown, Opens, Entries
  <2>1. b.attempts[s].at = attempts[s].at
    BY <1>2 DEF Steady
  <2> QED BY <1>2, <2>1
<1> QED BY <1>1, <1>2, <1>3, <1>6, <1>7

-----------------------------------------------------------------------------
(* The captures together: who may still record what.                        *)

Once(texts) ==
  \A i, j \in DOMAIN texts : i # j => Entries(texts[i].text) \cap Entries(texts[j].text) = {}

Bounded(banned, gen, n) == \A g, x : <<g, x>> \in banned => g \in Nat /\ g <= gen /\ x \in 1..n

\* The captures that lost the focus, oldest first: each is ready to record, and what the
\* earlier ones may record is not its own.
Behind(att, since, n, gen, q, texts, banned) ==
  /\ q \in Seq(Captures)
  /\ \A i \in DOMAIN q :
       /\ Fits(q[i], n) /\ q[i].generation < gen /\ Aimed(q[i], att, since)
       /\ Ready(q[i], Spelled(texts) \cup UnspelledBefore(q, i), banned)

InFocus(att, since, n, gen, c, w, q, texts, banned) ==
  /\ c.generation = gen
  /\ Carries(c, n, w, Spelled(texts) \cup UnspelledBefore(q, Len(q) + 1), banned, att, since)

Written(texts, n) == texts \in Seq(Texts) /\ Spelled(texts) \subseteq 1..n /\ Once(texts)

Numbered(att, since, gen) ==
  \A s \in DOMAIN att : s > since /\ att[s].kind = "key" => att[s].generation <= gen

TextCaptures ==
  /\ generation \in Nat
  /\ Numbered(attempts, restartedAt, generation)
  /\ Written(emitted, inserted)
  /\ Bounded(withheld, generation, inserted)
  /\ Behind(attempts, restartedAt, inserted, generation, retired, emitted, withheld)
  /\ target # NoTarget =>
       InFocus(attempts, restartedAt, inserted, generation, target, content[target.element], retired,
             emitted, withheld)

TextHolds == TextWorld /\ TextKeys /\ KeysKnown /\ PublishedIs /\ TextCaptures

LEMMA UnspelledAt ==
  ASSUME NEW q \in Seq(Captures), NEW i \in DOMAIN q
  PROVE  /\ Unspelled(q[i]) \subseteq UnspelledBefore(q, Len(q) + 1)
         /\ UnspelledBefore(q, i) \subseteq UnspelledBefore(q, Len(q) + 1)
         /\ \A j \in DOMAIN q : j < i => Unspelled(q[j]) \subseteq UnspelledBefore(q, i)
<1>1. \A k \in DOMAIN q : k < Len(q) + 1
  OBVIOUS
<1> QED BY <1>1 DEF UnspelledBefore

LEMMA SeenOn ==
  ASSUME NEW c, NEW claimed, NEW wider, NEW banned, NEW more, NEW w, Seen(c, claimed, banned, w),
         wider \cap Entries(w) \subseteq claimed, Stays(c, banned, more)
  PROVE  Seen(c, wider, more, w)
  BY DEF Seen, Stays

LEMMA ReadyOn ==
  ASSUME NEW c, NEW claimed, NEW wider, NEW banned, NEW more, Ready(c, claimed, banned),
         wider \cap Unspelled(c) \subseteq claimed, Stays(c, banned, more)
  PROVE  Ready(c, wider, more)
<1>1. CASE c.pending # NoPending /\ c.pending.value # Unread
  <2>1. Seen(c, claimed, banned, c.pending.value) /\ Unspelled(c) = Entries(c.pending.value)
    BY <1>1 DEF Ready, Unspelled
  <2>2. Seen(c, wider, more, c.pending.value)
    BY <2>1, SeenOn
  <2> QED BY <2>2 DEF Ready
<1>2. CASE ~(c.pending # NoPending /\ c.pending.value # Unread)
  BY <1>2 DEF Ready
<1> QED BY <1>1, <1>2

\* The texts a handler records: the properties of TypedText, of the texts after it.
TextsSound(texts) ==
  \A i \in DOMAIN texts \ DOMAIN emitted :
    /\ \A s \in texts[i].by : s > lossKnown \/ clock - attempts[s].at > Window
    /\ ({texts[i].generation} \X Entries(texts[i].text)) \cap withheld = {}
    /\ \E s \in texts[i].by : s <= restartedAt \/ attempts[s].element = texts[i].element

LEMMA TextsAsTold == TextsSound(emitted') => GapVoids /\ TextFollowsTyping /\ WithheldStaysOut
  BY DEF TextsSound, GapVoids, TextFollowsTyping, WithheldStaysOut

LEMMA AppendedOnce ==
  ASSUME NEW n, NEW texts, Written(texts, n), NEW e \in Texts, Entries(e.text) \subseteq 1..n,
         Entries(e.text) \cap Spelled(texts) = {}
  PROVE  Written(Append(texts, e), n)
<1> DEFINE q == Append(texts, e)
           N == Len(texts)
<1>1. /\ texts \in Seq(Texts) /\ Spelled(texts) \subseteq 1..n /\ Once(texts)
  BY DEF Written
<1>2. /\ DOMAIN texts = 1..N /\ DOMAIN q = 1..N + 1 /\ q[N + 1] = e /\ N \in Nat
      /\ \A k \in 1..N : q[k] = texts[k] /\ q \in Seq(Texts)
      /\ q \in Seq(Texts)
  BY <1>1
<1>3. Spelled(q) = Spelled(texts) \cup Entries(e.text)
  BY <1>1, SpelledAppended
<1> HIDE DEF q, N
<1>4. \A k \in 1..N : Entries(texts[k].text) \cap Entries(e.text) = {}
  BY <1>2 DEF Spelled
<1>5. ASSUME NEW i \in DOMAIN q, NEW j \in DOMAIN q, i # j
      PROVE  Entries(q[i].text) \cap Entries(q[j].text) = {}
  <2>1. (i = N + 1 \/ i \in 1..N) /\ (j = N + 1 \/ j \in 1..N)
    BY <1>2
  <2>2. CASE i \in 1..N /\ j \in 1..N
    BY <1>1, <1>2, <1>5, <2>2 DEF Once
  <2>3. CASE i = N + 1 /\ j \in 1..N
    BY <1>2, <1>4, <2>3
  <2>4. CASE j = N + 1 /\ i \in 1..N
    BY <1>2, <1>4, <2>4
  <2> QED BY <1>5, <2>1, <2>2, <2>3, <2>4
<1> QED BY <1>1, <1>2, <1>3, <1>5 DEF Written, Once, q

Tells(texts, further, claimed) ==
  \E plus : plus \cap claimed = {} /\ Spelled(further) = Spelled(texts) \cup plus

\* What is withheld besides is of a newer capture.
Newer(gen, banned, more) == \A g \in Nat : \A x : g < gen /\ <<g, x>> \in more => <<g, x>> \in banned

\* A text that is added leaves the captures behind ready, if it is none of theirs.
LEMMA SpeaksAdds ==
  ASSUME NEW n, Written(emitted, n), NEW b, b.emitted = emitted, NEW d, NEW c, NEW claimed,
         Speaks(b, d, c, n, claimed, withheld, attempts, restartedAt, lossKnown, clock),
         Spelled(emitted) \subseteq claimed
  PROVE  /\ Written(d.emitted, n) /\ TextsSound(d.emitted)
         /\ Tells(emitted, d.emitted, claimed)
<1>1. CASE d.emitted = b.emitted
  <2>1. DOMAIN d.emitted \ DOMAIN emitted = {}
    BY <1>1
  <2>2. TextsSound(d.emitted)
    BY <2>1 DEF TextsSound
  <2>3. {} \cap claimed = {} /\ Spelled(d.emitted) = Spelled(emitted) \cup {}
    BY <1>1
  <2> QED BY <1>1, <2>2, <2>3 DEF Tells
<1>2. CASE d.emitted # b.emitted
  <2>1. PICK e : /\ Sound(e, c.element, c.generation, n, claimed, withheld, attempts, restartedAt, lossKnown, clock)
                 /\ d.emitted = Append(b.emitted, e)
    BY <1>2 DEF Speaks
  <2>2. /\ e \in Texts /\ Entries(e.text) \subseteq 1..n /\ Entries(e.text) \cap claimed = {}
        /\ e.element = c.element /\ e.generation = c.generation
        /\ \A x \in Entries(e.text) : <<c.generation, x>> \notin withheld
        /\ \E s \in e.by : s <= restartedAt \/ attempts[s].element = c.element
        /\ \A s \in e.by : s > lossKnown \/ clock - attempts[s].at > Window
    BY <2>1 DEF Sound
  <2>3. Entries(e.text) \cap Spelled(emitted) = {} /\ emitted \in Seq(Texts)
    BY <2>2 DEF Written
  <2>4. Written(d.emitted, n)
    BY <2>1, <2>2, <2>3, AppendedOnce
  <2>5. Spelled(d.emitted) = Spelled(emitted) \cup Entries(e.text)
    BY <2>1, <2>2, <2>3, SpelledAppended
  <2>6. TextsSound(d.emitted)
    <3>1. \A i \in DOMAIN d.emitted \ DOMAIN emitted : d.emitted[i] = e
      BY <2>1, <2>2, <2>3
    <3> QED BY <2>2, <3>1 DEF TextsSound
  <2> QED BY <2>2, <2>4, <2>5, <2>6 DEF Tells
<1> QED BY <1>1, <1>2

LEMMA BehindOn ==
  ASSUME NEW att \in Seq(Attempts), NEW new \in Seq(Attempts), Steady(att, new), NEW since, NEW n, NEW gen,
         NEW q, NEW texts, NEW banned, NEW further, NEW more, NEW later,
         Behind(att, since, n, gen, q, texts, banned), gen \in Nat, later \in Nat, gen <= later,
         NEW plus, plus \cap UnspelledBefore(q, Len(q) + 1) = {}, Spelled(further) = Spelled(texts) \cup plus,
         Newer(gen, banned, more)
  PROVE  Behind(new, since, n, later, q, further, more)
<1>1. q \in Seq(Captures)
  BY DEF Behind
<1>2. ASSUME NEW i \in DOMAIN q
      PROVE  /\ Fits(q[i], n) /\ q[i].generation < later /\ Aimed(q[i], new, since)
             /\ Ready(q[i], Spelled(further) \cup UnspelledBefore(q, i), more)
  <2>1. /\ Fits(q[i], n) /\ q[i].generation < gen /\ Aimed(q[i], att, since)
        /\ Ready(q[i], Spelled(texts) \cup UnspelledBefore(q, i), banned)
    BY DEF Behind
  <2>2. q[i].generation \in Nat
    BY <2>1, CaptureHas DEF Fits
  <2>3. Aimed(q[i], new, since)
    BY <2>1, SteadyAims
  <2>4. Stays(q[i], banned, more)
    BY <2>1, <2>2 DEF Stays, Newer
  <2> DEFINE c == q[i]
             wider == Spelled(further) \cup UnspelledBefore(q, i)
             claimed == Spelled(texts) \cup UnspelledBefore(q, i)
  <2>5. wider \cap Unspelled(c) \subseteq claimed
    BY <1>1, UnspelledAt
  <2>6. Ready(c, claimed, banned) /\ Stays(c, banned, more)
    BY <2>1, <2>4
  <2> HIDE DEF c, wider, claimed
  <2>7. Ready(c, wider, more)
    BY <2>5, <2>6, ReadyOn
  <2> QED BY <2>1, <2>2, <2>3, <2>7 DEF c, wider
<1> QED BY <1>1, <1>2 DEF Behind

-----------------------------------------------------------------------------
(* What the handlers of the worker keep.                                    *)

Others == UnspelledBefore(retired, Len(retired) + 1)

LEMMA NumberedOn ==
  ASSUME NEW att \in Seq(Attempts), NEW new \in Seq(Attempts), Steady(att, new), NEW since, NEW gen \in Nat,
         NEW later \in Nat, gen <= later, Numbered(att, since, gen)
  PROVE  Numbered(new, since, later)
<1> SUFFICES ASSUME NEW s \in DOMAIN new, s > since, new[s].kind = "key" PROVE new[s].generation <= later
  BY DEF Numbered
<1>1. s \in DOMAIN att /\ new[s].generation = att[s].generation /\ att[s].kind = "key"
  BY DEF Steady
<1>2. att[s].generation <= gen /\ att[s].generation \in Nat
  BY <1>1, AttemptHas DEF Numbered
<1> QED BY <1>1, <1>2

LEMMA CarriesOn ==
  ASSUME NEW att \in Seq(Attempts), NEW new \in Seq(Attempts), Steady(att, new), NEW since, NEW n, NEW w,
         NEW c, NEW claimed, NEW wider, NEW banned, NEW more, Carries(c, n, w, claimed, banned, att, since),
         wider \subseteq claimed, Stays(c, banned, more)
  PROVE  Carries(c, n, w, wider, more, new, since)
<1>1. Fits(c, n) /\ Aimed(c, att, since) /\ Seen(c, claimed, banned, w) /\ Ready(c, claimed, banned)
  BY DEF Carries
<1>2. Aimed(c, new, since)
  BY <1>1, SteadyAims
<1>3. Seen(c, wider, more, w)
  BY <1>1, SeenOn
<1>4. Ready(c, wider, more)
  BY <1>1, ReadyOn
<1> QED BY <1>1, <1>2, <1>3, <1>4 DEF Carries

\* What a capture knows of its field's class and notifications is no part of this.
LEMMA CarriesAnyway ==
  ASSUME NEW c, NEW d \in Captures, SameField(c, d), d.baseline = c.baseline, d.rebaseline = c.rebaseline,
         d.pending = c.pending, NEW n, NEW w, NEW claimed, NEW banned, NEW att, NEW since,
         Carries(c, n, w, claimed, banned, att, since)
  PROVE  Carries(d, n, w, claimed, banned, att, since)
<1>1. Starts(d) = Starts(c) /\ Heads(d) = Heads(c)
  BY DEF Starts, Heads, After
<1>2. Fits(c, n) /\ Aimed(c, att, since) /\ Seen(c, claimed, banned, w) /\ Ready(c, claimed, banned)
      /\ d.generation = c.generation /\ d.element = c.element
  BY DEF Carries, SameField
<1>3. Fits(d, n)
  BY <1>1, <1>2 DEF Fits
<1>4. Aimed(d, att, since)
  BY <1>2 DEF Aimed
<1>5. \A x : Seen(c, claimed, banned, x) => Seen(d, claimed, banned, x)
  BY <1>1, <1>2 DEF Seen
<1>6. Ready(d, claimed, banned)
  BY <1>2, <1>5 DEF Ready
<1> QED BY <1>2, <1>3, <1>4, <1>5, <1>6 DEF Carries

\* A capture of the field in focus has nothing to record.
LEMMA FreshCarries ==
  ASSUME TextWorld, NEW number \in Nat \ {0}, NEW att, NEW since,
         \A s \in DOMAIN att : s > since /\ att[s].kind = "key" => att[s].generation # number,
         NEW claimed, NEW banned
  PROVE  /\ Carries(Fresh(number), inserted, content[focused], claimed, banned, att, since)
         /\ Fresh(number).generation = number /\ Fresh(number).element = focused
         /\ Fresh(number) # NoTarget /\ Fresh(number).text \in BOOLEAN
<1> DEFINE w == content[focused]
           v == IF secureInput THEN Unread ELSE FieldValue(focused)
           c == Fresh(number)
<1>1. c = [generation |-> number, element |-> focused, text |-> ~secureInput, baseline |-> v,
           rebaseline |-> v = Unread, pending |-> NoPending, notifies |-> FALSE]
  BY DEF Fresh
<1>2. w \in Seq(1..inserted) /\ Unrepeated(w) /\ inserted \in Nat
  BY DEF TextWorld
<1>3. w \in Values /\ Entries(w) \subseteq 1..inserted /\ Unread \in Values
  <2>1. w \in Values /\ Entries(w) \subseteq 1..inserted
    BY <1>2, EntriesIn DEF Values
  <2>2. Unread \in Values
    BY DEF Unread, Values
  <2> QED BY <2>1, <2>2
<1>4. v = Unread \/ v = w
  BY DEF FieldValue
<1>5. c \in Captures
  <2>1. focused \in Elements /\ secureInput \in BOOLEAN /\ v \in Values /\ (v = Unread) \in BOOLEAN
        /\ (~secureInput) \in BOOLEAN
    BY <1>3, <1>4 DEF TextWorld
  <2> HIDE DEF v
  <2> QED BY <1>1, <2>1 DEF Captures
<1>6. /\ c.generation = number /\ c.element = focused /\ c.text = ~secureInput /\ c.baseline = v
      /\ c.pending = NoPending
  BY <1>1
<1> HIDE DEF c
<1>7. DOMAIN c.pending.steps = {} /\ c # NoTarget
  <2>1. c # NoTarget
    BY <1>5, CaptureHas
  <2> QED BY <1>6, <2>1 DEF NoPending
<1>8. Starts(c) = {v} /\ Heads(c) = {v}
  BY <1>6, <1>7 DEF Starts, Heads, After
<1>9. Fits(c, inserted)
  BY <1>3, <1>4, <1>5, <1>6, <1>8 DEF Fits
<1>10. Aimed(c, att, since)
  BY <1>6, <1>7 DEF Aimed
<1>11. Seen(c, claimed, banned, w)
  <2>1. Succeeds(w, w)
    BY <1>3, GrownSelf
  <2> HIDE DEF w, v
  <2> QED BY <1>2, <1>4, <1>8, <2>1 DEF Seen
<1>12. Ready(c, claimed, banned)
  BY <1>6 DEF Ready
<1>13. c.text \in BOOLEAN
  BY <1>5, CaptureHas
<1> QED BY <1>6, <1>7, <1>9, <1>10, <1>11, <1>12, <1>13 DEF Carries, c

\* A capture that loses the focus joins the ones that did.
LEMMA BehindJoined ==
  ASSUME NEW att, NEW since, NEW n, NEW gen, NEW q, NEW texts, NEW banned,
         Behind(att, since, n, gen, q, texts, banned), NEW c, Fits(c, n), c.generation < gen,
         Aimed(c, att, since), Ready(c, Spelled(texts) \cup UnspelledBefore(q, Len(q) + 1), banned)
  PROVE  Behind(att, since, n, gen, Append(q, c), texts, banned)
<1> DEFINE r == Append(q, c)
           N == Len(q)
<1>1. q \in Seq(Captures) /\ c \in Captures
  BY DEF Behind, Fits
<1>2. /\ DOMAIN q = 1..N /\ DOMAIN r = 1..N + 1 /\ r[N + 1] = c /\ N \in Nat
      /\ r \in Seq(Captures) /\ \A i \in 1..N : r[i] = q[i]
  BY <1>1
<1>3. \A i \in 1..N + 1 : {k \in DOMAIN r : k < i} = {k \in DOMAIN q : k < i}
  BY <1>2
<1>4. ASSUME NEW i \in 1..N + 1
      PROVE  UnspelledBefore(r, i) = UnspelledBefore(q, i)
  <2>1. \A k \in DOMAIN q : r[k] = q[k]
    BY <1>2
  <2> HIDE DEF r, N
  <2>2. \A k \in {j \in DOMAIN q : j < i} : Unspelled(r[k]) = Unspelled(q[k])
    BY <2>1
  <2>3. {j \in DOMAIN r : j < i} = {j \in DOMAIN q : j < i}
    BY <1>3
  <2> QED BY <2>2, <2>3 DEF UnspelledBefore
<1> HIDE DEF r
<1>5. ASSUME NEW i \in DOMAIN r
      PROVE  /\ Fits(r[i], n) /\ r[i].generation < gen /\ Aimed(r[i], att, since)
             /\ Ready(r[i], Spelled(texts) \cup UnspelledBefore(r, i), banned)
  <2>1. CASE i = N + 1
    <3>1. UnspelledBefore(r, i) = UnspelledBefore(q, N + 1) /\ r[i] = c
      BY <1>2, <1>4, <2>1
    <3> QED BY <3>1
  <2>2. CASE i # N + 1
    <3>1. i \in DOMAIN q /\ r[i] = q[i] /\ UnspelledBefore(r, i) = UnspelledBefore(q, i)
      BY <1>2, <1>4, <2>2
    <3> QED BY <3>1 DEF Behind
  <2> QED BY <2>1, <2>2
<1> QED BY <1>2, <1>5 DEF Behind, r

\* The first of them is done.
LEMMA BehindDone ==
  ASSUME NEW att \in Seq(Attempts), NEW new \in Seq(Attempts), Steady(att, new), NEW since, NEW n, NEW gen,
         NEW q, q # <<>>, NEW texts, NEW banned, Behind(att, since, n, gen, q, texts, banned),
         NEW further, Spelled(further) \subseteq Spelled(texts) \cup Unspelled(Head(q))
  PROVE  /\ Behind(new, since, n, gen, Tail(q), further, banned)
         /\ Spelled(further) \cup UnspelledBefore(Tail(q), Len(Tail(q)) + 1)
              \subseteq Spelled(texts) \cup UnspelledBefore(q, Len(q) + 1)
<1> DEFINE r == Tail(q)
           N == Len(q)
<1>1. q \in Seq(Captures)
  BY DEF Behind
<1>2. /\ DOMAIN q = 1..N /\ DOMAIN r = 1..N - 1 /\ N \in Nat \ {0} /\ Head(q) = q[1] /\ 1 \in DOMAIN q
      /\ r \in Seq(Captures) /\ \A i \in 1..N - 1 : r[i] = q[i + 1] /\ i + 1 \in DOMAIN q
      /\ Len(r) = N - 1
  BY <1>1
<1> HIDE DEF r, N
<1>3. ASSUME NEW i \in 1..N
      PROVE  Spelled(further) \cup UnspelledBefore(r, i) \subseteq Spelled(texts) \cup UnspelledBefore(q, i + 1)
  <2>1. \A k \in {j \in DOMAIN r : j < i} : k + 1 \in {j \in DOMAIN q : j < i + 1} /\ r[k] = q[k + 1]
    BY <1>2
  <2>2. 1 \in {j \in DOMAIN q : j < i + 1}
    BY <1>2
  <2>3. UnspelledBefore(r, i) \subseteq UnspelledBefore(q, i + 1)
    BY <2>1 DEF UnspelledBefore
  <2>4. Unspelled(Head(q)) \subseteq UnspelledBefore(q, i + 1)
    BY <1>2, <2>2 DEF UnspelledBefore
  <2> QED BY <2>3, <2>4
<1>4. ASSUME NEW i \in DOMAIN r
      PROVE  /\ Fits(r[i], n) /\ r[i].generation < gen /\ Aimed(r[i], new, since)
             /\ Ready(r[i], Spelled(further) \cup UnspelledBefore(r, i), banned)
  <2> DEFINE c == q[i + 1]
             wider == Spelled(further) \cup UnspelledBefore(r, i)
             claimed == Spelled(texts) \cup UnspelledBefore(q, i + 1)
  <2>1. r[i] = c /\ i + 1 \in DOMAIN q /\ i \in 1..N
    BY <1>2
  <2>2. /\ Fits(c, n) /\ c.generation < gen /\ Aimed(c, att, since)
        /\ Ready(c, claimed, banned)
    BY <2>1 DEF Behind
  <2>3. wider \subseteq claimed
    BY <1>3, <2>1
  <2>4. Stays(c, banned, banned)
    BY DEF Stays
  <2> HIDE DEF c, wider, claimed
  <2>5. Aimed(c, new, since)
    BY <2>2, SteadyAims
  <2>6. Ready(c, wider, banned)
    BY <2>2, <2>3, <2>4, ReadyOn
  <2> QED BY <2>1, <2>2, <2>5, <2>6 DEF wider
<1>5. Behind(new, since, n, gen, r, further, banned)
  BY <1>2, <1>4 DEF Behind
<1>6. Spelled(further) \cup UnspelledBefore(r, Len(r) + 1) \subseteq Spelled(texts) \cup UnspelledBefore(q, N + 1)
  <2>1. N \in 1..N /\ Len(r) + 1 = N
    BY <1>2
  <2> QED BY <1>3, <2>1
<1> QED BY <1>5, <1>6 DEF r, N

\* What a handler begins with.
LEMMA HandlerBegins ==
  ASSUME TextHolds
  PROVE  /\ Standing(Received, attempts, lossKnown, clock) /\ Received.emitted = emitted
         /\ attempts \in Seq(Attempts) /\ inserted \in Nat /\ clock \in Nat /\ generation \in Nat
         /\ restartedAt \in Nat /\ lossKnown \in Nat
         /\ target # NoTarget =>
              /\ Carries(target, inserted, content[target.element], Claims(Received, Others), withheld,
                         attempts, restartedAt)
              /\ content[target.element] \in Seq(1..inserted)
              /\ target \in Captures /\ target.generation = generation
<1>1. emitted \in Seq(Texts) /\ TextWorld /\ TextKeys /\ KeysKnown
  BY DEF TextHolds, TextCaptures, Written
<1>2. Standing(Received, attempts, lossKnown, clock) /\ Received.emitted = emitted
  BY <1>1, ReceivedStands
<1>3. clock \in Nat
  BY <1>1, ConstantsAre DEF TextWorld
<1>4. ASSUME target # NoTarget
      PROVE  /\ Carries(target, inserted, content[target.element], Claims(Received, Others), withheld,
                        attempts, restartedAt)
             /\ content[target.element] \in Seq(1..inserted)
             /\ target \in Captures /\ target.generation = generation
  <2>1. InFocus(attempts, restartedAt, inserted, generation, target, content[target.element], retired,
              emitted, withheld)
    BY <1>4 DEF TextHolds, TextCaptures
  <2>2. /\ Carries(target, inserted, content[target.element], Claims(Received, Others), withheld,
                   attempts, restartedAt)
        /\ target.generation = generation
    BY <1>2, <2>1 DEF InFocus, Claims, Others
  <2>3. target \in Captures
    BY <2>2 DEF Carries, Fits
  <2>4. target.element \in Elements
    BY <2>3, CaptureHas
  <2> QED BY <1>1, <2>2, <2>3, <2>4 DEF TextWorld
<1> QED BY <1>1, <1>2, <1>3, <1>4 DEF TextWorld, TextKeys, TextHolds, TextCaptures

\* What it ends with.
LEMMA HandlerEnds ==
  ASSUME TextHolds, NEW d, Standing(d, attempts, lossKnown, clock), Close(d), Unaffected,
         Written(d.emitted, inserted), TextsSound(d.emitted), generation' \in Nat, generation <= generation'
  PROVE  /\ TextWorld' /\ TextKeys' /\ KeysKnown' /\ TextsSound(emitted') /\ emitted' = d.emitted
         /\ attempts' \in Seq(Attempts) /\ Steady(attempts, attempts') /\ inserted' = inserted
         /\ restartedAt' = restartedAt /\ content' = content
         /\ Numbered(attempts', restartedAt', generation') /\ Written(emitted', inserted')
<1>1. TextWorld /\ TextKeys /\ generation \in Nat /\ Numbered(attempts, restartedAt, generation)
  BY DEF TextHolds, TextCaptures
<1>2. UNCHANGED <<clock, content, inserted, focused, secureInput, ruling, lossPending, tapQueue, lossKnown,
                  restartedAt>>
  BY DEF Unaffected
<1>3. restartedAt' \in Nat /\ restartedAt' <= Len(attempts)
  BY <1>1, <1>2 DEF TextKeys
<1>4. /\ TextKeys' /\ KeysKnown' /\ Steady(attempts, attempts') /\ emitted' \in Seq(Texts)
      /\ emitted' = d.emitted
  BY <1>1, <1>2, <1>3, CloseKeeps
<1>5. TextWorld'
  BY <1>1, <1>2 DEF TextWorld
<1>6. attempts \in Seq(Attempts) /\ attempts' \in Seq(Attempts)
  BY <1>1, <1>4 DEF TextKeys
<1>7. Numbered(attempts', restartedAt', generation')
  <2> DEFINE new == attempts'
             later == generation'
  <2>1. new \in Seq(Attempts) /\ Steady(attempts, new) /\ later \in Nat /\ generation <= later
    BY <1>4, <1>6
  <2> HIDE DEF new, later
  <2>2. Numbered(new, restartedAt, later)
    BY <1>1, <1>6, <2>1, NumberedOn
  <2> QED BY <1>2, <2>2 DEF new, later
<1> QED BY <1>2, <1>4, <1>5, <1>6, <1>7

\* What the field in focus records leaves the others as they were.
LEMMA TargetSpoke ==
  ASSUME TextHolds, target # NoTarget, NEW d,
         Speaks(Received, d, target, inserted, Claims(Received, Others), withheld, attempts, restartedAt,
                lossKnown, clock),
         NEW new \in Seq(Attempts), Steady(attempts, new), NEW later \in Nat, generation <= later,
         NEW more, Newer(generation, withheld, more)
  PROVE  /\ Written(d.emitted, inserted) /\ TextsSound(d.emitted)
         /\ Behind(new, restartedAt, inserted, later, retired, d.emitted, more)
<1> DEFINE claimed == Claims(Received, Others)
<1>1. /\ Received.emitted = emitted /\ attempts \in Seq(Attempts) /\ generation \in Nat
      /\ Written(emitted, inserted)
      /\ Behind(attempts, restartedAt, inserted, generation, retired, emitted, withheld)
  BY HandlerBegins DEF TextHolds, TextCaptures
<1>2. Spelled(emitted) \subseteq claimed /\ Others \subseteq claimed
  BY <1>1 DEF Claims
<1> HIDE DEF claimed
<1>3. Speaks(Received, d, target, inserted, claimed, withheld, attempts, restartedAt, lossKnown, clock)
  BY DEF claimed
<1>4. Written(d.emitted, inserted) /\ TextsSound(d.emitted) /\ Tells(emitted, d.emitted, claimed)
  BY <1>1, <1>2, <1>3, SpeaksAdds
<1>5. PICK plus : plus \cap claimed = {} /\ Spelled(d.emitted) = Spelled(emitted) \cup plus
  BY <1>4 DEF Tells
<1>6. plus \cap UnspelledBefore(retired, Len(retired) + 1) = {}
  BY <1>2, <1>5 DEF Others
<1>7. Behind(new, restartedAt, inserted, later, retired, d.emitted, more)
  BY <1>1, <1>5, <1>6, BehindOn
<1> QED BY <1>4, <1>7

\* The field in focus, read: what changes of it is withheld or recorded in time.
LEMMA ReadValueHolds ==
  ASSUME TextHolds, target # NoTarget, NEW at \in Nat, at <= clock, NEW asked \in BOOLEAN,
         NEW readable \in BOOLEAN, ReadValue(at, asked, readable), Unaffected,
         UNCHANGED <<generation, retired>>
  PROVE  TextHolds' /\ TextsSound(emitted')
<1> DEFINE c == target
           b == Received
           w == content[c.element]
           o == Reading(c.element, at, asked, readable)
           r == Observe(c, b, o)
           next == [r[1] EXCEPT !.notifies = @ \/ ~asked, !.text = o.text]
           gone == Unexplained(o, c, Matching(b, c.generation, at))
<1>1. /\ Standing(b, attempts, lossKnown, clock) /\ b.emitted = emitted
      /\ attempts \in Seq(Attempts) /\ inserted \in Nat /\ clock \in Nat /\ generation \in Nat
      /\ restartedAt \in Nat /\ lossKnown \in Nat
      /\ Carries(c, inserted, w, Claims(b, Others), withheld, attempts, restartedAt)
      /\ w \in Seq(1..inserted) /\ c \in Captures /\ c.generation = generation
  BY HandlerBegins
<1>2. /\ target' = next /\ Close(r[2]) /\ withheld' = withheld \cup gone
      /\ IF o.text # target.text THEN Publish(next) ELSE UNCHANGED published
  BY DEF ReadValue
<1>3. /\ o.text \in BOOLEAN /\ o.at = at /\ o.sampled = asked /\ o.decision = ruling
      /\ o.value = IF ruling \in Denied THEN Unread ELSE w
  BY DEF Reading, FieldValue, TextHolds, TextWorld
<1>4. Reads(o, w) /\ o.at <= clock
  <2>1. ruling \in Rulings
    BY DEF TextHolds, TextWorld
  <2> QED BY <1>3, <2>1 DEF Reads
<1>5. Entries(w) \subseteq 1..inserted
  BY <1>1, EntriesIn
<1>6. ASSUME NEW g, NEW x, <<g, x>> \in gone
      PROVE  /\ g = generation /\ x \in 1..inserted
             /\ \/ ~o.text \/ o.value = Unread \/ c.rebaseline
                \/ /\ Matching(b, c.generation, at) = {} /\ x \in Entries(o.value)
                   /\ x \notin Entries(IF c.pending = NoPending THEN c.baseline ELSE c.pending.value)
  <2> DEFINE prev == IF c.pending = NoPending THEN c.baseline ELSE c.pending.value
             early == ~o.text \/ o.value = Unread \/ c.rebaseline
  <2>1. CASE early
    <3>1. <<g, x>> \in Pairs(c, w)
      BY <1>6, <2>1 DEF Unexplained
    <3> QED BY <1>1, <1>5, <2>1, <3>1 DEF Pairs
  <2>2. CASE ~early
    <3>1. /\ Matching(b, c.generation, at) = {}
          /\ <<g, x>> \in Pairs(c, o.value) \ Pairs(c, prev)
      BY <1>6, <2>2 DEF Unexplained
    <3>2. o.value = w
      BY <1>3, <2>2
    <3> HIDE DEF prev, o, w, b, c
    <3>3. g = c.generation /\ x \in Entries(o.value) /\ x \notin Entries(prev)
      BY <3>1 DEF Pairs
    <3> QED BY <1>1, <1>5, <3>1, <3>2, <3>3 DEF prev
  <2> QED BY <2>1, <2>2
<1>7. Withholds(c, b, o, withheld, withheld')
  BY <1>2, <1>3, <1>6 DEF Withholds
<1>8. Newer(generation, withheld, withheld')
  BY <1>1, <1>2, <1>6 DEF Newer
<1>9. Bounded(withheld', generation', inserted')
  <2>1. Bounded(withheld, generation, inserted) /\ generation' = generation /\ inserted' = inserted
    BY DEF TextHolds, TextCaptures, Unaffected
  <2> HIDE DEF gone
  <2> QED BY <1>1, <1>2, <1>6, <2>1 DEF Bounded
<1> DEFINE more == withheld'
           new == attempts'
           n == inserted
<1>10. /\ Standing(r[2], attempts, lossKnown, clock) /\ SameField(c, r[1])
       /\ Carries(r[1], n, w, Claims(r[2], Others), more, attempts, restartedAt)
       /\ Speaks(b, r[2], c, n, Claims(b, Others), withheld, attempts, restartedAt, lossKnown, clock)
  <2> DEFINE S == r
  <2>1. S = Observe(c, b, o) /\ Withholds(c, b, o, withheld, more)
    BY <1>7
  <2> HIDE DEF c, b, w, o, S, more, n
  <2>2. Outcome(b, c, S, n, w, Others, withheld, more, attempts, restartedAt, lossKnown, clock)
    BY <1>1, <1>4, <2>1, ObserveSound DEF n
  <2>3. /\ Standing(S[2], attempts, lossKnown, clock) /\ SameField(c, S[1])
        /\ Carries(S[1], n, w, Claims(S[2], Others), more, attempts, restartedAt)
        /\ Speaks(b, S[2], c, n, Claims(b, Others), withheld, attempts, restartedAt, lossKnown, clock)
    BY <2>2 DEF Outcome
  <2> QED BY <2>3 DEF S
<1> HIDE DEF r
<1>11. Written(r[2].emitted, n) /\ TextsSound(r[2].emitted)
  <2> DEFINE d == r[2]
  <2>1. Speaks(Received, d, target, inserted, Claims(Received, Others), withheld, attempts, restartedAt,
               lossKnown, clock)
    BY <1>10
  <2> HIDE DEF d
  <2>2. Steady(attempts, attempts) /\ generation <= generation
        /\ Newer(generation, withheld, withheld)
    BY <1>1, SteadySelf DEF Newer
  <2>3. Written(d.emitted, inserted)
    BY <1>1, <2>1, <2>2, TargetSpoke
  <2>4. TextsSound(d.emitted)
    BY <1>1, <2>1, <2>2, TargetSpoke
  <2> QED BY <2>3, <2>4 DEF d
<1>12. /\ TextWorld' /\ TextKeys' /\ KeysKnown' /\ TextsSound(emitted') /\ emitted' = r[2].emitted
       /\ new \in Seq(Attempts) /\ Steady(attempts, new) /\ inserted' = inserted
       /\ restartedAt' = restartedAt /\ content' = content
       /\ Numbered(attempts', restartedAt', generation') /\ Written(emitted', inserted')
  <2> DEFINE d == r[2]
  <2>1. Standing(d, attempts, lossKnown, clock) /\ Close(d) /\ Written(d.emitted, inserted) /\ TextsSound(d.emitted)
        /\ generation' \in Nat /\ generation <= generation'
    BY <1>1, <1>2, <1>10, <1>11
  <2> HIDE DEF d
  <2>2. /\ TextWorld' /\ TextKeys' /\ KeysKnown' /\ TextsSound(emitted') /\ emitted' = d.emitted
        /\ attempts' \in Seq(Attempts) /\ Steady(attempts, attempts') /\ inserted' = inserted
        /\ restartedAt' = restartedAt /\ content' = content
        /\ Numbered(attempts', restartedAt', generation') /\ Written(emitted', inserted')
    BY <2>1, HandlerEnds
  <2> QED BY <2>2 DEF d
<1>13. Behind(attempts', restartedAt', inserted', generation', retired', emitted', withheld')
  <2> DEFINE d == r[2]
  <2>1. Speaks(Received, d, target, inserted, Claims(Received, Others), withheld, attempts, restartedAt,
               lossKnown, clock)
    BY <1>10
  <2>2. emitted' = d.emitted /\ new \in Seq(Attempts) /\ Steady(attempts, new)
        /\ Newer(generation, withheld, more)
        /\ generation <= generation
    BY <1>1, <1>8, <1>12
  <2> HIDE DEF d, new, more
  <2>3. Behind(new, restartedAt, inserted, generation, retired, d.emitted, more)
    BY <1>1, <2>1, <2>2, TargetSpoke
  <2> QED BY <1>12, <2>2, <2>3 DEF new, more
<1>14. /\ next \in Captures /\ SameField(r[1], next) /\ next.baseline = r[1].baseline
       /\ next.rebaseline = r[1].rebaseline /\ next.pending = r[1].pending /\ next.text = o.text
       /\ next.generation = c.generation /\ next.element = c.element
  <2>1. r[1] \in Captures
    BY <1>10 DEF Carries, Fits
  <2> HIDE DEF o
  <2>2. /\ next \in Captures /\ SameField(r[1], next) /\ next.baseline = r[1].baseline
        /\ next.rebaseline = r[1].rebaseline /\ next.pending = r[1].pending /\ next.text = o.text
    BY <1>3, <2>1 DEF Captures, SameField
  <2> QED BY <1>10, <2>2 DEF SameField
<1>15. /\ target' # NoTarget /\ target' \in Captures /\ target'.generation = c.generation /\ target'.element = c.element
  <2>1. next # NoTarget
    BY <1>14, CaptureHas
  <2> QED BY <1>2, <1>14, <2>1
<1>16. InFocus(attempts', restartedAt', inserted', generation', target', content'[target'.element], retired',
             emitted', withheld')
  <2> DEFINE claimed == Claims(r[2], Others)
             d == next
             s == r[1]
  <2>1. Carries(s, n, w, claimed, more, attempts, restartedAt) /\ d \in Captures /\ SameField(s, d)
        /\ d.baseline = s.baseline /\ d.rebaseline = s.rebaseline /\ d.pending = s.pending
    BY <1>10, <1>14
  <2>2. new \in Seq(Attempts) /\ Steady(attempts, new) /\ claimed \subseteq claimed
    BY <1>12
  <2>3. Stays(d, more, more)
    BY DEF Stays
  <2>4. target' = d /\ d.generation = generation /\ content'[target'.element] = w
    BY <1>1, <1>2, <1>12, <1>14
  <2> HIDE DEF claimed, d, new, more, w, n, s
  <2>5. Carries(d, n, w, claimed, more, attempts, restartedAt)
    BY <2>1, CarriesAnyway
  <2>6. Carries(d, n, w, claimed, more, new, restartedAt)
    BY <1>1, <2>2, <2>3, <2>5, CarriesOn
  <2>7. claimed = Spelled(emitted') \cup UnspelledBefore(retired, Len(retired) + 1)
    BY <1>12 DEF claimed, Claims, Others
  <2> QED BY <1>12, <2>4, <2>6, <2>7 DEF InFocus, new, more, n
<1>17. PublishedIs'
  <2>1. CASE UNCHANGED published
    BY <1>15, <2>1 DEF PublishedIs, TextHolds
  <2>2. CASE Publish(next)
    <3>1. next # NoTarget /\ published.version + 1 \in Nat /\ published.generation \in Nat /\ published.text \in BOOLEAN
          /\ published.version \in Nat
      BY <1>2, <1>15 DEF PublishedIs, TextHolds
    <3>2. next.generation \in Nat /\ next.text \in BOOLEAN /\ next.element \in Elements
      BY <1>14, CaptureHas
    <3>3. \/ published' = [published EXCEPT !.element = next.element] /\ published.generation = next.generation
          \/ published' = [generation |-> next.generation, text |-> next.text,
                           version |-> published.version + 1, element |-> next.element]
      BY <2>2, <3>1 DEF Publish
    <3> HIDE DEF next
    <3>4. /\ published' \in [generation : Nat, text : BOOLEAN, version : Nat, element : Elements \cup {0}]
          /\ published'.generation = next.generation /\ published'.element = next.element
      BY <3>1, <3>2, <3>3 DEF PublishedIs, TextHolds
    <3> QED BY <1>2, <1>15, <3>4 DEF PublishedIs
  <2> QED BY <1>2, <2>1, <2>2
<1>18. TextCaptures'
  BY <1>1, <1>9, <1>12, <1>13, <1>16 DEF TextCaptures
<1> QED BY <1>12, <1>17, <1>18 DEF TextHolds

LEMMA PublishedFor ==
  ASSUME PublishedIs, NEW c \in Captures, Publish(c)
  PROVE  /\ published' \in [generation : Nat, text : BOOLEAN, version : Nat, element : Elements \cup {0}]
         /\ published'.generation = c.generation /\ published'.element = c.element
<1>1. /\ c # NoTarget /\ c.generation \in Nat /\ c.text \in BOOLEAN /\ c.element \in Elements
      /\ published.version \in Nat /\ published.version + 1 \in Nat
      /\ published \in [generation : Nat, text : BOOLEAN, version : Nat, element : Elements \cup {0}]
  BY CaptureHas DEF PublishedIs
<1>2. \/ published' = [published EXCEPT !.element = c.element] /\ published.generation = c.generation
      \/ published' = [generation |-> c.generation, text |-> c.text,
                       version |-> published.version + 1, element |-> c.element]
  BY <1>1 DEF Publish
<1> QED BY <1>1, <1>2

\* A handler that records nothing.
LEMMA NothingSaid ==
  ASSUME TextHolds, NEW d, d.emitted = emitted, NEW new \in Seq(Attempts), Steady(attempts, new),
         NEW later \in Nat, generation <= later, NEW more, Newer(generation, withheld, more)
  PROVE  /\ Written(d.emitted, inserted) /\ TextsSound(d.emitted)
         /\ Behind(new, restartedAt, inserted, later, retired, d.emitted, more)
<1>1. /\ attempts \in Seq(Attempts) /\ generation \in Nat /\ Written(emitted, inserted)
      /\ Behind(attempts, restartedAt, inserted, generation, retired, emitted, withheld)
  BY HandlerBegins DEF TextHolds, TextCaptures
<1>2. TextsSound(d.emitted)
  BY DEF TextsSound
<1> DEFINE plus == {}
<1>3. /\ plus \cap UnspelledBefore(retired, Len(retired) + 1) = {}
      /\ Spelled(d.emitted) = Spelled(emitted) \cup plus
  OBVIOUS
<1> HIDE DEF plus
<1>4. Behind(new, restartedAt, inserted, later, retired, d.emitted, more)
  BY <1>1, <1>3, BehindOn
<1> QED BY <1>1, <1>2, <1>4

\* The field that loses the focus.
LEMMA FocusLeft ==
  ASSUME TextHolds, NEW d, NEW c, NEW w, NEW new \in Seq(Attempts), Steady(attempts, new),
         NEW more, Newer(generation + 1, withheld, more),
         \/ c = NoTarget
         \/ /\ target # NoTarget /\ SameField(target, c)
            /\ Carries(c, inserted, w, Claims(d, Others), withheld, attempts, restartedAt),
         Behind(new, restartedAt, inserted, generation + 1, retired, d.emitted, more)
  PROVE  Behind(new, restartedAt, inserted, generation + 1, Retire(c), d.emitted, more)
<1>1. CASE c = NoTarget
  BY <1>1 DEF Retire
<1>2. CASE c # NoTarget
  <2>1. attempts \in Seq(Attempts) /\ generation \in Nat /\ (target # NoTarget => target.generation = generation)
    BY HandlerBegins
  <2>2. /\ Carries(c, inserted, w, Claims(d, Others), withheld, attempts, restartedAt)
        /\ c.generation = generation
    BY <1>2, <2>1 DEF SameField
  <2>3. Stays(c, withheld, more)
    BY <2>1, <2>2 DEF Stays, Newer
  <2> DEFINE claimed == Claims(d, Others)
  <2>4. claimed \subseteq claimed /\ claimed = Spelled(d.emitted) \cup UnspelledBefore(retired, Len(retired) + 1)
    BY DEF Claims, Others
  <2> HIDE DEF claimed
  <2>5. Carries(c, inserted, w, claimed, withheld, attempts, restartedAt)
    BY <2>2 DEF claimed
  <2>6. Carries(c, inserted, w, claimed, more, new, restartedAt)
    BY <2>1, <2>3, <2>4, <2>5, CarriesOn
  <2>7. c.generation < generation + 1
    BY <2>1, <2>2
  <2>8. Fits(c, inserted) /\ Aimed(c, new, restartedAt) /\ Ready(c, claimed, more)
    BY <2>6 DEF Carries
  <2> DEFINE gen == generation + 1
             texts == d.emitted
  <2>9. /\ Behind(new, restartedAt, inserted, gen, retired, texts, more) /\ c.generation < gen
        /\ Ready(c, Spelled(texts) \cup UnspelledBefore(retired, Len(retired) + 1), more)
    BY <2>4, <2>7, <2>8
  <2> HIDE DEF gen, texts
  <2>10. Behind(new, restartedAt, inserted, gen, Append(retired, c), texts, more)
    BY <2>8, <2>9, BehindJoined
  <2> QED BY <1>2, <2>10 DEF Retire, gen, texts
<1> QED BY <1>1, <1>2

LEMMA PreviousGone ==
  ASSUME TextHolds, NEW at \in Nat, at <= clock, NEW readable \in BOOLEAN, NEW p, p = Previous(at, readable),
         NEW new \in Seq(Attempts), Steady(attempts, new), NEW more, Newer(generation + 1, withheld, more)
  PROVE  /\ Standing(p[2], attempts, lossKnown, clock)
         /\ Written(p[2].emitted, inserted) /\ TextsSound(p[2].emitted)
         /\ Behind(new, restartedAt, inserted, generation + 1, Retire(p[1]), p[2].emitted, more)
<1>1. /\ Standing(Received, attempts, lossKnown, clock) /\ Received.emitted = emitted
      /\ attempts \in Seq(Attempts) /\ inserted \in Nat /\ clock \in Nat /\ generation \in Nat
      /\ restartedAt \in Nat /\ lossKnown \in Nat
  BY HandlerBegins
<1>2. generation + 1 \in Nat /\ generation <= generation + 1 /\ Newer(generation, withheld, more)
  BY <1>1 DEF Newer
<1> DEFINE later == generation + 1
<1>3. CASE target = NoTarget
  <2>1. p[1] = NoTarget /\ p[2] = Received
    BY <1>3 DEF Previous
  <2> DEFINE d == p[2]
  <2>2. d.emitted = emitted
    BY <1>1, <2>1
  <2> HIDE DEF d, later
  <2>3. later \in Nat /\ generation <= later
    BY <1>2 DEF later
  <2>4. /\ Written(d.emitted, inserted) /\ TextsSound(d.emitted)
        /\ Behind(new, restartedAt, inserted, later, retired, d.emitted, more)
    BY <1>2, <2>2, <2>3, NothingSaid
  <2> QED BY <1>1, <2>1, <2>4 DEF d, later, Retire
<1>4. CASE target # NoTarget
  <2> DEFINE c == target
             b == Received
             w == content[c.element]
             o == Reading(c.element, at, FALSE, TRUE)
             n == inserted
  <2>1. /\ Carries(c, n, w, Claims(b, Others), withheld, attempts, restartedAt)
        /\ w \in Seq(1..n) /\ c \in Captures /\ c.generation = generation
    BY <1>4, HandlerBegins
  <2>2. /\ o.text \in BOOLEAN /\ o.at = at /\ o.sampled = FALSE /\ o.decision = ruling
        /\ o.value = IF ruling \in Denied THEN Unread ELSE w
    BY DEF Reading, FieldValue, TextHolds, TextWorld
  <2>3. Reads(o, w) /\ o.at <= clock
    <3>1. ruling \in Rulings
      BY DEF TextHolds, TextWorld
    <3> QED BY <2>2, <3>1 DEF Reads
  <2>4. p = ResolveFocusChange(c, b, o, readable)
    BY <1>4 DEF Previous
  <2> HIDE DEF w, o, c, b, n, later
  <2>5. LetGo(b, c, p, n, w, Others, withheld, attempts, restartedAt, lossKnown, clock)
    BY <1>1, <2>1, <2>3, <2>4, ResolveSound DEF b, n
  <2> DEFINE d == p[2]
             q == p[1]
  <2>6. /\ Standing(d, attempts, lossKnown, clock)
        /\ Speaks(Received, d, target, inserted, Claims(Received, Others), withheld, attempts, restartedAt,
                  lossKnown, clock)
        /\ \/ q = NoTarget
           \/ /\ target # NoTarget /\ SameField(target, q)
              /\ Carries(q, inserted, w, Claims(d, Others), withheld, attempts, restartedAt)
    BY <1>4, <2>5 DEF LetGo, c, b, n
  <2> HIDE DEF d, q
  <2>7. later \in Nat /\ generation <= later
    BY <1>2 DEF later
  <2>8. Written(d.emitted, inserted)
    BY <1>2, <1>4, <2>6, <2>7, TargetSpoke
  <2>9. TextsSound(d.emitted)
    BY <1>2, <1>4, <2>6, <2>7, TargetSpoke
  <2>10. Behind(new, restartedAt, inserted, later, retired, d.emitted, more)
    BY <1>2, <1>4, <2>6, <2>7, TargetSpoke
  <2>11. Behind(new, restartedAt, inserted, generation + 1, Retire(q), d.emitted, more)
    BY <2>6, <2>10, FocusLeft DEF later
  <2> QED BY <2>6, <2>8, <2>9, <2>11 DEF d, q
<1> QED BY <1>3, <1>4

\* The field that gets the focus.
LEMMA InstallTargetHolds ==
  ASSUME TextHolds, NEW at \in Nat, at <= clock, NEW readable \in BOOLEAN, InstallTarget(at, readable),
         Unaffected
  PROVE  TextHolds' /\ TextsSound(emitted')
<1> DEFINE p == Previous(at, readable)
           fresh == Fresh(generation + 1)
           d == p[2]
           more == withheld'
           new == attempts'
<1>1. /\ Standing(Received, attempts, lossKnown, clock) /\ Received.emitted = emitted
      /\ attempts \in Seq(Attempts) /\ inserted \in Nat /\ clock \in Nat /\ generation \in Nat
      /\ restartedAt \in Nat /\ lossKnown \in Nat
  BY HandlerBegins
<1>2. /\ target' = fresh /\ generation' = generation + 1 /\ retired' = Retire(p[1]) /\ Close(d)
      /\ Publish(fresh) /\ withheld' = withheld \cup Pairs(fresh, content[focused])
  BY DEF InstallTarget
<1> HIDE DEF p
<1>3. TextWorld /\ PublishedIs /\ Bounded(withheld, generation, inserted)
      /\ Numbered(attempts, restartedAt, generation)
  BY DEF TextHolds, TextCaptures
<1>4. generation + 1 \in Nat \ {0} /\ generation <= generation + 1
  BY <1>1
<1>5. \A att, claimed, banned :
        (\A s \in DOMAIN att : s > restartedAt /\ att[s].kind = "key" => att[s].generation # generation + 1)
          => Carries(fresh, inserted, content[focused], claimed, banned, att, restartedAt)
  <2> SUFFICES ASSUME NEW att, NEW claimed, NEW banned,
                 \A s \in DOMAIN att : s > restartedAt /\ att[s].kind = "key" => att[s].generation # generation + 1
               PROVE  Carries(fresh, inserted, content[focused], claimed, banned, att, restartedAt)
    OBVIOUS
  <2> DEFINE number == generation + 1
  <2>1. number \in Nat \ {0} /\ fresh = Fresh(number)
        /\ \A s \in DOMAIN att : s > restartedAt /\ att[s].kind = "key" => att[s].generation # number
    BY <1>4
  <2> HIDE DEF number, fresh
  <2> QED BY <1>3, <2>1, FreshCarries
<1>6. /\ fresh.generation = generation + 1 /\ fresh.element = focused /\ fresh # NoTarget
      /\ fresh \in Captures
  <2> DEFINE number == generation + 1
             att == <<>>
  <2>1. number \in Nat \ {0} /\ fresh = Fresh(number)
        /\ \A s \in DOMAIN att : s > 0 /\ att[s].kind = "key" => att[s].generation # number
    BY <1>4
  <2> HIDE DEF number, fresh, att
  <2>2. /\ Carries(fresh, inserted, content[focused], {}, {}, att, 0)
        /\ fresh.generation = number /\ fresh.element = focused /\ fresh # NoTarget
    BY <1>3, <2>1, FreshCarries
  <2> QED BY <2>2 DEF number, Carries, Fits
<1> HIDE DEF fresh
<1>7. \A g, x : <<g, x>> \in Pairs(fresh, content[focused]) => g = generation + 1 /\ x \in 1..inserted
  <2>1. Entries(content[focused]) \subseteq 1..inserted
    BY <1>3, EntriesIn DEF TextWorld
  <2> QED BY <1>6, <2>1 DEF Pairs
<1>8. Newer(generation + 1, withheld, more)
  BY <1>1, <1>2, <1>7 DEF Newer
<1>9. Bounded(withheld', generation', inserted)
  BY <1>1, <1>2, <1>3, <1>7 DEF Bounded
<1>10. /\ Standing(d, attempts, lossKnown, clock)
       /\ Written(d.emitted, inserted) /\ TextsSound(d.emitted)
  <2>1. p = Previous(at, readable) /\ Steady(attempts, attempts)
    BY <1>1, SteadySelf DEF p
  <2> HIDE DEF more
  <2>2. Standing(p[2], attempts, lossKnown, clock) /\ Written(p[2].emitted, inserted) /\ TextsSound(p[2].emitted)
    BY <1>1, <1>8, <2>1, PreviousGone
  <2> QED BY <2>2
<1>11. /\ TextWorld' /\ TextKeys' /\ KeysKnown' /\ TextsSound(emitted') /\ emitted' = d.emitted
       /\ new \in Seq(Attempts) /\ Steady(attempts, new) /\ inserted' = inserted
       /\ restartedAt' = restartedAt /\ content' = content
       /\ Numbered(attempts', restartedAt', generation') /\ Written(emitted', inserted')
  <2>1. generation' \in Nat /\ generation <= generation'
    BY <1>2, <1>4
  <2> HIDE DEF d
  <2>2. /\ TextWorld' /\ TextKeys' /\ KeysKnown' /\ TextsSound(emitted') /\ emitted' = d.emitted
        /\ attempts' \in Seq(Attempts) /\ Steady(attempts, attempts') /\ inserted' = inserted
        /\ restartedAt' = restartedAt /\ content' = content
        /\ Numbered(attempts', restartedAt', generation') /\ Written(emitted', inserted')
    BY <1>2, <1>10, <2>1, HandlerEnds
  <2> QED BY <2>2
<1>12. Behind(attempts', restartedAt', inserted', generation', retired', emitted', withheld')
  <2>1. p = Previous(at, readable)
    BY DEF p
  <2>2. retired' = Retire(p[1]) /\ emitted' = p[2].emitted
    BY <1>2, <1>11
  <2> HIDE DEF more, new, d
  <2>3. Behind(new, restartedAt, inserted, generation + 1, Retire(p[1]), p[2].emitted, more)
    BY <1>8, <1>11, <2>1, PreviousGone
  <2> QED BY <1>2, <1>11, <2>2, <2>3 DEF more, new
<1>13. InFocus(attempts', restartedAt', inserted', generation', target', content'[target'.element], retired',
             emitted', withheld')
  <2>1. \A s \in DOMAIN new : s > restartedAt /\ new[s].kind = "key" => new[s].generation # generation + 1
    <3>1. \A s \in DOMAIN new : s \in DOMAIN attempts /\ new[s].generation = attempts[s].generation
                                /\ new[s].kind = attempts[s].kind
      BY <1>1, <1>11 DEF Steady
    <3>2. \A s \in DOMAIN attempts : attempts[s].generation \in Nat
      BY <1>1, AttemptHas
    <3> QED BY <1>1, <1>3, <3>1, <3>2 DEF Numbered
  <2>2. Carries(fresh, inserted, content[focused],
                Spelled(emitted') \cup UnspelledBefore(retired', Len(retired') + 1), withheld', new, restartedAt)
    BY <1>5, <2>1
  <2> QED BY <1>2, <1>6, <1>11, <2>2 DEF InFocus
<1>14. PublishedIs'
  <2>1. /\ published' \in [generation : Nat, text : BOOLEAN, version : Nat, element : Elements \cup {0}]
        /\ published'.generation = fresh.generation /\ published'.element = fresh.element
    BY <1>2, <1>3, <1>6, PublishedFor
  <2> QED BY <1>2, <1>6, <2>1 DEF PublishedIs
<1>15. TextCaptures'
  BY <1>2, <1>4, <1>9, <1>11, <1>12, <1>13 DEF TextCaptures
<1> QED BY <1>11, <1>14, <1>15 DEF TextHolds

\* The field in focus stays, as it is.
LEMMA TargetStays ==
  ASSUME TextHolds, NEW d, d.emitted = emitted, NEW new \in Seq(Attempts), Steady(attempts, new),
         target # NoTarget
  PROVE  InFocus(new, restartedAt, inserted, generation, target, content[target.element], retired,
               d.emitted, withheld)
<1> DEFINE c == target
           w == content[c.element]
           claimed == Spelled(emitted) \cup UnspelledBefore(retired, Len(retired) + 1)
           n == inserted
<1>1. attempts \in Seq(Attempts) /\ c.generation = generation
  BY HandlerBegins
<1>2. Carries(c, n, w, claimed, withheld, attempts, restartedAt)
  BY DEF TextHolds, TextCaptures, InFocus
<1>3. claimed \subseteq claimed /\ Stays(c, withheld, withheld)
  BY DEF Stays
<1> HIDE DEF c, w, claimed, n
<1>4. Carries(c, n, w, claimed, withheld, new, restartedAt)
  BY <1>1, <1>2, <1>3, CarriesOn
<1> QED BY <1>1, <1>4 DEF InFocus, c, w, claimed, n

\* A handler that leaves the captures alone.
LEMMA PollHolds == ASSUME TextHolds, Close(Received), Unaffected,
                          UNCHANGED <<target, generation, retired, published, withheld>>
                   PROVE  TextHolds' /\ TextsSound(emitted')
<1> DEFINE d == Received
           new == attempts'
<1>1. /\ Standing(d, attempts, lossKnown, clock) /\ d.emitted = emitted
      /\ attempts \in Seq(Attempts) /\ generation \in Nat
  BY HandlerBegins
<1> HIDE DEF d
<1>2. /\ Newer(generation, withheld, withheld) /\ generation <= generation
      /\ generation' = generation /\ Close(d)
  BY <1>1 DEF Newer, d
<1>3. Written(d.emitted, inserted) /\ TextsSound(d.emitted)
  <2>1. Steady(attempts, attempts)
    BY <1>1, SteadySelf
  <2>2. Written(d.emitted, inserted)
    BY <1>1, <1>2, <2>1, NothingSaid
  <2>3. TextsSound(d.emitted)
    BY <1>1, <1>2, <2>1, NothingSaid
  <2> QED BY <2>2, <2>3
<1>4. /\ TextWorld' /\ TextKeys' /\ KeysKnown' /\ TextsSound(emitted') /\ emitted' = d.emitted
      /\ new \in Seq(Attempts) /\ Steady(attempts, new) /\ inserted' = inserted
      /\ restartedAt' = restartedAt /\ content' = content
      /\ Numbered(attempts', restartedAt', generation') /\ Written(emitted', inserted')
  <2>1. generation' \in Nat /\ generation <= generation'
    BY <1>1, <1>2
  <2>2. /\ TextWorld' /\ TextKeys' /\ KeysKnown' /\ TextsSound(emitted') /\ emitted' = d.emitted
        /\ attempts' \in Seq(Attempts) /\ Steady(attempts, attempts') /\ inserted' = inserted
        /\ restartedAt' = restartedAt /\ content' = content
        /\ Numbered(attempts', restartedAt', generation') /\ Written(emitted', inserted')
    BY <1>1, <1>2, <1>3, <2>1, HandlerEnds
  <2> QED BY <2>2
<1>5. Behind(attempts', restartedAt', inserted', generation', retired', emitted', withheld')
  <2>1. new \in Seq(Attempts) /\ Steady(attempts, new) /\ retired' = retired /\ withheld' = withheld
    BY <1>4
  <2> HIDE DEF new
  <2>2. Behind(new, restartedAt, inserted, generation, retired, d.emitted, withheld)
    BY <1>1, <1>2, <2>1, NothingSaid
  <2> QED BY <1>2, <1>4, <2>1, <2>2 DEF new
<1>6. target' # NoTarget =>
        InFocus(attempts', restartedAt', inserted', generation', target', content'[target'.element], retired',
              emitted', withheld')
  <2> SUFFICES ASSUME target # NoTarget
               PROVE  InFocus(new, restartedAt, inserted, generation, target, content[target.element], retired,
                            d.emitted, withheld)
    BY <1>2, <1>4
  <2>1. new \in Seq(Attempts) /\ Steady(attempts, new)
    BY <1>4
  <2> HIDE DEF new
  <2> QED BY <1>1, <2>1, TargetStays
<1>7. PublishedIs'
  BY DEF PublishedIs, TextHolds
<1>8. Bounded(withheld', generation', inserted')
  BY <1>2, <1>4 DEF TextHolds, TextCaptures
<1>9. TextCaptures'
  BY <1>1, <1>2, <1>4, <1>5, <1>6, <1>8 DEF TextCaptures
<1> QED BY <1>4, <1>7, <1>9 DEF TextHolds

\* The field is let go with its run of changes.
LEMMA FocusReadFailedHolds == ASSUME TextHolds, FocusReadFailed PROVE TextHolds' /\ TextsSound(emitted')
<1> DEFINE d == Received
           new == attempts'
           later == generation + 1
<1>1. /\ Standing(d, attempts, lossKnown, clock) /\ d.emitted = emitted
      /\ attempts \in Seq(Attempts) /\ generation \in Nat
  BY HandlerBegins
<1>2. /\ target # NoTarget /\ target' = NoTarget /\ generation' = later /\ retired' = Retire(target)
      /\ Close(d) /\ Publish(NoTarget) /\ withheld' = withheld /\ Unaffected
  BY DEF FocusReadFailed
<1> HIDE DEF d
<1>3. /\ Newer(generation, withheld, withheld) /\ Newer(later, withheld, withheld)
      /\ generation <= later /\ later \in Nat
  BY <1>1 DEF Newer
<1>4. Written(d.emitted, inserted) /\ TextsSound(d.emitted)
  <2>1. Steady(attempts, attempts) /\ generation <= generation
    BY <1>1, SteadySelf
  <2>2. Written(d.emitted, inserted)
    BY <1>1, <1>3, <2>1, NothingSaid
  <2>3. TextsSound(d.emitted)
    BY <1>1, <1>3, <2>1, NothingSaid
  <2> QED BY <2>2, <2>3
<1>5. /\ TextWorld' /\ TextKeys' /\ KeysKnown' /\ TextsSound(emitted') /\ emitted' = d.emitted
      /\ new \in Seq(Attempts) /\ Steady(attempts, new) /\ inserted' = inserted
      /\ restartedAt' = restartedAt /\ content' = content
      /\ Numbered(attempts', restartedAt', generation') /\ Written(emitted', inserted')
  <2>1. generation' \in Nat /\ generation <= generation'
    BY <1>2, <1>3
  <2>2. /\ TextWorld' /\ TextKeys' /\ KeysKnown' /\ TextsSound(emitted') /\ emitted' = d.emitted
        /\ attempts' \in Seq(Attempts) /\ Steady(attempts, attempts') /\ inserted' = inserted
        /\ restartedAt' = restartedAt /\ content' = content
        /\ Numbered(attempts', restartedAt', generation') /\ Written(emitted', inserted')
    BY <1>1, <1>2, <1>4, <2>1, HandlerEnds
  <2> QED BY <2>2
<1>6. Behind(attempts', restartedAt', inserted', generation', retired', emitted', withheld')
  <2> DEFINE c == target
             w == content[target.element]
  <2>1. new \in Seq(Attempts) /\ Steady(attempts, new)
    BY <1>5
  <2>2. Carries(c, inserted, w, Claims(d, Others), withheld, attempts, restartedAt) /\ SameField(target, c)
    BY <1>2, HandlerBegins DEF SameField, d
  <2> HIDE DEF new, c, w
  <2>3. Behind(new, restartedAt, inserted, later, retired, d.emitted, withheld)
    <3> HIDE DEF later
    <3> QED BY <1>1, <1>3, <2>1, NothingSaid
  <2>4. Behind(new, restartedAt, inserted, generation + 1, Retire(c), d.emitted, withheld)
    BY <1>2, <1>3, <2>1, <2>2, <2>3, FocusLeft
  <2> QED BY <1>2, <1>5, <2>4 DEF new, c
<1>7. PublishedIs'
  <2>1. /\ published \in [generation : Nat, text : BOOLEAN, version : Nat, element : Elements \cup {0}]
        /\ published.generation = target.generation /\ target.generation \in Nat \ {0}
        /\ published.version + 1 \in Nat
    BY <1>2, HandlerBegins, CaptureHas DEF TextHolds, PublishedIs
  <2>2. published' = [NoneFocused EXCEPT !.version = published.version + 1]
    BY <1>2, <2>1 DEF Publish
  <2> QED BY <1>2, <2>1, <2>2 DEF PublishedIs, NoneFocused
<1>8. Bounded(withheld', generation', inserted')
  BY <1>1, <1>2, <1>5 DEF TextHolds, TextCaptures, Bounded
<1>9. TextCaptures'
  BY <1>2, <1>3, <1>5, <1>6, <1>8 DEF TextCaptures
<1> QED BY <1>5, <1>7, <1>9 DEF TextHolds

\* take_due_value_events for the field in focus.
LEMMA TakeDueFocusedHolds == ASSUME TextHolds, TakeDueFocused PROVE TextHolds' /\ TextsSound(emitted')
<1> DEFINE c == target
           b == Received
           w == content[c.element]
           n == inserted
           quiet == [c EXCEPT !.text = FALSE]
           r == IF secureInput THEN DiscardBoundary(quiet, b) ELSE TakeDue(c, b, clock)
           more == withheld'
           new == attempts'
<1>1. /\ Standing(b, attempts, lossKnown, clock) /\ b.emitted = emitted
      /\ attempts \in Seq(Attempts) /\ n \in Nat /\ clock \in Nat /\ generation \in Nat
      /\ restartedAt \in Nat /\ lossKnown \in Nat
  BY HandlerBegins
<1>2. /\ c # NoTarget /\ target' = r[1] /\ Close(r[2]) /\ UNCHANGED <<generation, retired, published>>
      /\ withheld' = (IF secureInput THEN withheld \cup Pairs(c, w) ELSE withheld) /\ Unaffected
  BY DEF TakeDueFocused
<1>3. /\ Carries(c, n, w, Claims(b, Others), withheld, attempts, restartedAt)
      /\ w \in Seq(1..n) /\ c \in Captures /\ c.generation = generation
  BY <1>2, HandlerBegins
<1>4. Newer(generation, withheld, more) /\ Bounded(more, generation, n)
  <2>1. \A g, x : <<g, x>> \in Pairs(c, w) => g = generation /\ x \in 1..n
    BY <1>3, EntriesIn DEF Pairs
  <2>2. Bounded(withheld, generation, n)
    BY DEF TextHolds, TextCaptures
  <2> QED BY <1>1, <1>2, <2>1, <2>2 DEF Newer, Bounded
<1>5. /\ Standing(r[2], attempts, lossKnown, clock) /\ SameField(c, r[1])
      /\ Carries(r[1], n, w, Claims(r[2], Others), more, attempts, restartedAt)
      /\ Speaks(b, r[2], c, n, Claims(b, Others), withheld, attempts, restartedAt, lossKnown, clock)
  <2>1. CASE secureInput
    <3> DEFINE q == [c EXCEPT !.text = FALSE]
               s == InvalidateTargets(b, {q.generation})
               claimed == Claims(s, Others)
    <3>1. r[1] = Discarded(q) /\ r[2] = s
      BY <2>1 DEF DiscardBoundary, Discarded, InvalidateTarget
    <3>2. /\ q \in Captures /\ SameField(c, q) /\ q.baseline = c.baseline /\ q.rebaseline = c.rebaseline
          /\ q.pending = c.pending
      BY <1>3 DEF Captures, SameField
    <3>3. Standing(s, attempts, lossKnown, clock) /\ s.emitted = b.emitted
      <4> DEFINE gens == {q.generation}
      <4> HIDE DEF b, q, gens
      <4>1. Standing(InvalidateTargets(b, gens), attempts, lossKnown, clock)
            /\ InvalidateTargets(b, gens).emitted = b.emitted
        BY <1>1, InvalidateStands
      <4> QED BY <4>1 DEF gens
    <3> HIDE DEF q, s, c, w, n, b, r, more
    <3>4. claimed = Claims(b, Others)
      BY <3>3 DEF Claims
    <3>5. Carries(c, n, w, claimed, withheld, attempts, restartedAt)
      BY <1>3, <3>4
    <3> HIDE DEF claimed
    <3>6. Carries(q, n, w, claimed, withheld, attempts, restartedAt)
      BY <3>2, <3>5, CarriesAnyway
    <3>7. Fits(q, n) /\ Aimed(q, attempts, restartedAt) /\ Unrepeated(w)
      BY <3>6 DEF Carries, Seen
    <3>8. Carries(Discarded(q), n, w, claimed, more, attempts, restartedAt) /\ SameField(q, Discarded(q))
      BY <1>1, <3>7, DiscardedKeeps
    <3>9. SameField(c, r[1])
      BY <3>1, <3>2, <3>8 DEF SameField
    <3>10. Speaks(b, r[2], c, n, Claims(b, Others), withheld, attempts, restartedAt, lossKnown, clock)
      BY <3>1, <3>3 DEF Speaks
    <3> QED BY <3>1, <3>3, <3>8, <3>9, <3>10 DEF claimed
  <2>2. CASE ~secureInput
    <3>1. more = withheld /\ r = TakeDue(c, b, clock)
      BY <1>2, <2>2
    <3> HIDE DEF c, w, n, b, r, more
    <3>2. Outcome(b, c, TakeDue(c, b, clock), n, w, Others, withheld, withheld, attempts, restartedAt, lossKnown, clock)
      BY <1>1, <1>3, TakeDueSound
    <3>3. Outcome(b, c, r, n, w, Others, withheld, withheld, attempts, restartedAt, lossKnown, clock)
      BY <3>1, <3>2
    <3> QED BY <3>1, <3>3 DEF Outcome
  <2> QED BY <2>1, <2>2
<1> DEFINE d == r[2]
           e == r[1]
<1>6. /\ Standing(d, attempts, lossKnown, clock) /\ SameField(target, e)
      /\ Carries(e, inserted, w, Claims(d, Others), more, attempts, restartedAt)
      /\ Speaks(Received, d, target, inserted, Claims(Received, Others), withheld, attempts, restartedAt,
                lossKnown, clock)
      /\ Close(d) /\ target' = e
  BY <1>2, <1>5
<1> HIDE DEF b, r, d, e
<1>7. Written(d.emitted, inserted) /\ TextsSound(d.emitted)
  <2>1. Steady(attempts, attempts) /\ generation <= generation /\ Newer(generation, withheld, withheld)
    BY <1>1, SteadySelf DEF Newer
  <2>2. Written(d.emitted, inserted)
    BY <1>1, <1>2, <1>6, <2>1, TargetSpoke
  <2>3. TextsSound(d.emitted)
    BY <1>1, <1>2, <1>6, <2>1, TargetSpoke
  <2> QED BY <2>2, <2>3
<1>8. /\ TextWorld' /\ TextKeys' /\ KeysKnown' /\ TextsSound(emitted') /\ emitted' = d.emitted
      /\ new \in Seq(Attempts) /\ Steady(attempts, new) /\ inserted' = inserted
      /\ restartedAt' = restartedAt /\ content' = content
      /\ Numbered(attempts', restartedAt', generation') /\ Written(emitted', inserted')
  <2>1. generation' \in Nat /\ generation <= generation'
    BY <1>1, <1>2
  <2>2. /\ TextWorld' /\ TextKeys' /\ KeysKnown' /\ TextsSound(emitted') /\ emitted' = d.emitted
        /\ attempts' \in Seq(Attempts) /\ Steady(attempts, attempts') /\ inserted' = inserted
        /\ restartedAt' = restartedAt /\ content' = content
        /\ Numbered(attempts', restartedAt', generation') /\ Written(emitted', inserted')
    BY <1>2, <1>6, <1>7, <2>1, HandlerEnds
  <2> QED BY <2>2
<1>9. Behind(attempts', restartedAt', inserted', generation', retired', emitted', withheld')
  <2>1. new \in Seq(Attempts) /\ Steady(attempts, new) /\ generation <= generation
    BY <1>1, <1>8
  <2> HIDE DEF new, more
  <2>2. Behind(new, restartedAt, inserted, generation, retired, d.emitted, more)
    BY <1>1, <1>2, <1>4, <1>6, <2>1, TargetSpoke
  <2> QED BY <1>2, <1>8, <2>2 DEF new, more
<1>10. target' \in Captures /\ target' # NoTarget /\ target'.generation = generation /\ target'.element = c.element
  <2>1. e \in Captures
    BY <1>6 DEF Carries, Fits
  <2> QED BY <1>3, <1>6, <2>1, CaptureHas DEF SameField
<1>11. InFocus(attempts', restartedAt', inserted', generation', target', content'[target'.element], retired',
             emitted', withheld')
  <2> DEFINE claimed == Claims(d, Others)
  <2>1. new \in Seq(Attempts) /\ Steady(attempts, new) /\ claimed \subseteq claimed /\ Stays(e, more, more)
        /\ Carries(e, n, w, claimed, more, attempts, restartedAt)
    BY <1>6, <1>8 DEF Stays
  <2>2. content'[target'.element] = w /\ e.generation = generation
    BY <1>6, <1>8, <1>10
  <2>3. claimed = Spelled(emitted') \cup UnspelledBefore(retired', Len(retired') + 1)
    BY <1>2, <1>8 DEF Claims, Others
  <2> HIDE DEF claimed, new, more, w, n
  <2>4. Carries(e, n, w, claimed, more, new, restartedAt)
    BY <1>1, <2>1, CarriesOn
  <2> QED BY <1>2, <1>6, <1>8, <2>2, <2>3, <2>4 DEF InFocus, new, more, n
<1>12. PublishedIs'
  BY <1>2, <1>3, <1>10 DEF PublishedIs, TextHolds
<1>13. TextCaptures'
  BY <1>1, <1>2, <1>4, <1>8, <1>9, <1>11 DEF TextCaptures
<1> QED BY <1>8, <1>12, <1>13 DEF TextHolds

\* take_due_value_events for the oldest field that lost the focus.
LEMMA TakeDueRetiredHolds == ASSUME TextHolds, TakeDueRetired PROVE TextHolds' /\ TextsSound(emitted')
<1> DEFINE c == Head(retired)
           b == Received
           r == IF secureInput THEN DiscardBoundary(c, b) ELSE TakeDue(c, b, clock)
           n == inserted
           w == <<>>
           claimed == Claims(b, {})
           d == r[2]
           new == attempts'
           Good == /\ Standing(d, attempts, lossKnown, clock) /\ Written(d.emitted, inserted)
                   /\ TextsSound(d.emitted)
                   /\ Spelled(d.emitted) \subseteq Spelled(emitted) \cup Unspelled(c)
<1>1. /\ Standing(b, attempts, lossKnown, clock) /\ b.emitted = emitted
      /\ attempts \in Seq(Attempts) /\ n \in Nat /\ clock \in Nat /\ generation \in Nat
      /\ restartedAt \in Nat /\ lossKnown \in Nat
  BY HandlerBegins
<1>2. /\ retired # <<>> /\ retired' = Tail(retired) /\ Close(d) /\ Unaffected
      /\ UNCHANGED <<target, generation, published, withheld>>
  BY DEF TakeDueRetired
<1>3. Behind(attempts, restartedAt, n, generation, retired, emitted, withheld) /\ Written(emitted, n)
  BY DEF TextHolds, TextCaptures
<1>4. /\ Fits(c, n) /\ Aimed(c, attempts, restartedAt) /\ Ready(c, claimed, withheld)
      /\ c \in Captures /\ c.generation < generation
  <2>1. 1 \in DOMAIN retired /\ c = retired[1]
    BY <1>2, <1>3 DEF Behind
  <2>2. UnspelledBefore(retired, 1) = {}
    <3>1. {k \in DOMAIN retired : k < 1} = {}
      BY <1>3 DEF Behind
    <3> QED BY <3>1 DEF UnspelledBefore
  <2>3. claimed = Spelled(emitted) \cup UnspelledBefore(retired, 1)
    BY <1>1, <2>2 DEF Claims
  <2> HIDE DEF c, claimed
  <2> QED BY <1>3, <2>1, <2>3 DEF Behind, Fits
<1>5. Carries(c, n, w, claimed, withheld, attempts, restartedAt)
  <2>1. Entries(w) = {} /\ Unrepeated(w)
    BY DEF Entries, Unrepeated
  <2> HIDE DEF w, claimed, c
  <2>2. Seen(c, claimed, withheld, w)
    BY <2>1 DEF Seen, Succeeds
  <2> QED BY <1>4, <2>2 DEF Carries
<1>6. ASSUME secureInput PROVE Good
  <2> DEFINE gens == {c.generation}
  <2>1. r[2] = InvalidateTargets(b, gens)
    BY <1>6 DEF DiscardBoundary, InvalidateTarget
  <2> HIDE DEF gens, b, c
  <2>2. Standing(d, attempts, lossKnown, clock) /\ d.emitted = emitted
    BY <1>1, <2>1, InvalidateStands
  <2> HIDE DEF d
  <2>3. Steady(attempts, attempts) /\ generation <= generation /\ Newer(generation, withheld, withheld)
    BY <1>1, SteadySelf DEF Newer
  <2>4. Written(d.emitted, inserted)
    BY <1>1, <2>2, <2>3, NothingSaid
  <2>5. TextsSound(d.emitted)
    BY <1>1, <2>2, <2>3, NothingSaid
  <2>6. Spelled(d.emitted) \subseteq Spelled(emitted) \cup Unspelled(c)
    BY <2>2
  <2> QED BY <2>2, <2>4, <2>5, <2>6
<1>7. ASSUME ~secureInput PROVE Good
  <2>1. r = TakeDue(c, b, clock)
    BY <1>7
  <2>2. r = FlushPending(c, b) \/ r = <<c, b>>
    BY <2>1 DEF TakeDue
  <2> HIDE DEF c, b, n, w, r
  <2>3. CASE r = <<c, b>>
    <3>1. Standing(d, attempts, lossKnown, clock) /\ d.emitted = emitted
      BY <1>1, <2>3
    <3> HIDE DEF d
    <3>2. Steady(attempts, attempts) /\ generation <= generation /\ Newer(generation, withheld, withheld)
      BY <1>1, SteadySelf DEF Newer
    <3>3. Written(d.emitted, inserted)
      BY <1>1, <3>1, <3>2, NothingSaid
    <3>4. TextsSound(d.emitted)
      BY <1>1, <3>1, <3>2, NothingSaid
    <3> QED BY <3>1, <3>3, <3>4
  <2>4. CASE r = FlushPending(c, b)
    <3> DEFINE none == {}
    <3>1. Carries(c, n, w, Claims(b, none), withheld, attempts, restartedAt)
      BY <1>5
    <3> HIDE DEF none
    <3>2. Standing(r[2], attempts, lossKnown, clock)
      BY <1>1, <2>4, <3>1, FlushOutcome
    <3>3. Spoke(b, r[2], c, Claims(b, none), withheld)
      BY <1>1, <2>4, <3>1, FlushOutcome
    <3>4. Outcome(b, c, r, n, w, none, withheld, withheld, attempts, restartedAt, lossKnown, clock)
      BY <1>1, <2>4, <3>1, FlushSound
    <3>5. Speaks(b, d, c, n, Claims(b, none), withheld, attempts, restartedAt, lossKnown, clock)
      BY <3>4 DEF Outcome
    <3> DEFINE all == Claims(b, none)
    <3>6. Spelled(emitted) \subseteq all /\ Written(emitted, n)
          /\ Speaks(b, d, c, n, all, withheld, attempts, restartedAt, lossKnown, clock)
      BY <1>1, <1>3, <3>5 DEF Claims, n
    <3> HIDE DEF all
    <3>7. Written(d.emitted, n)
      BY <1>1, <3>6, SpeaksAdds
    <3>8. TextsSound(d.emitted)
      BY <1>1, <3>6, SpeaksAdds
    <3>9. Spelled(d.emitted) \subseteq Spelled(emitted) \cup Unspelled(c)
      <4>1. CASE d.emitted = b.emitted
        BY <1>1, <4>1
      <4>2. CASE d.emitted # b.emitted
        <5>1. PICK e : SaidOf(e, c, Claims(b, none), withheld, b.attempts) /\ d.emitted = Append(b.emitted, e)
          BY <3>3, <4>2 DEF Spoke
        <5>2. e \in Texts /\ Entries(e.text) \subseteq Unspelled(c) /\ emitted \in Seq(Texts)
          BY <1>3, <5>1 DEF SaidOf, Written
        <5>3. Spelled(d.emitted) = Spelled(emitted) \cup Entries(e.text)
          BY <1>1, <5>1, <5>2, SpelledAppended
        <5> QED BY <5>2, <5>3
      <4> QED BY <4>1, <4>2
    <3> QED BY <3>2, <3>7, <3>8, <3>9 DEF n
  <2> QED BY <2>2, <2>3, <2>4
<1>8. /\ Standing(d, attempts, lossKnown, clock) /\ Written(d.emitted, inserted) /\ TextsSound(d.emitted)
      /\ Spelled(d.emitted) \subseteq Spelled(emitted) \cup Unspelled(Head(retired))
  BY <1>6, <1>7
<1> HIDE DEF d, c, b, r
<1>9. /\ TextWorld' /\ TextKeys' /\ KeysKnown' /\ TextsSound(emitted') /\ emitted' = d.emitted
      /\ new \in Seq(Attempts) /\ Steady(attempts, new) /\ inserted' = inserted
      /\ restartedAt' = restartedAt /\ content' = content
      /\ Numbered(attempts', restartedAt', generation') /\ Written(emitted', inserted')
  <2>1. generation' \in Nat /\ generation <= generation'
    BY <1>1, <1>2
  <2>2. /\ TextWorld' /\ TextKeys' /\ KeysKnown' /\ TextsSound(emitted') /\ emitted' = d.emitted
        /\ attempts' \in Seq(Attempts) /\ Steady(attempts, attempts') /\ inserted' = inserted
        /\ restartedAt' = restartedAt /\ content' = content
        /\ Numbered(attempts', restartedAt', generation') /\ Written(emitted', inserted')
    BY <1>2, <1>8, <2>1, HandlerEnds
  <2> QED BY <2>2
<1> DEFINE wider == Spelled(d.emitted) \cup UnspelledBefore(Tail(retired), Len(Tail(retired)) + 1)
           all == Spelled(emitted) \cup UnspelledBefore(retired, Len(retired) + 1)
<1>10. Behind(new, restartedAt, n, generation, Tail(retired), d.emitted, withheld) /\ wider \subseteq all
  <2> DEFINE texts == d.emitted
  <2>1. Spelled(texts) \subseteq Spelled(emitted) \cup Unspelled(Head(retired)) /\ new \in Seq(Attempts)
        /\ Steady(attempts, new)
    BY <1>8, <1>9
  <2> HIDE DEF new, texts, n
  <2>2. Behind(new, restartedAt, n, generation, Tail(retired), texts, withheld)
    BY <1>1, <1>2, <1>3, <2>1, BehindDone
  <2>3. Spelled(texts) \cup UnspelledBefore(Tail(retired), Len(Tail(retired)) + 1)
              \subseteq Spelled(emitted) \cup UnspelledBefore(retired, Len(retired) + 1)
    BY <1>1, <1>2, <1>3, <2>1, BehindDone
  <2> QED BY <2>2, <2>3 DEF texts
<1>11. Behind(attempts', restartedAt', inserted', generation', retired', emitted', withheld')
  BY <1>2, <1>9, <1>10
<1>12. ASSUME target # NoTarget
       PROVE  InFocus(attempts', restartedAt', inserted', generation', target', content'[target'.element], retired',
                    emitted', withheld')
  <2> DEFINE t == target
             x == content[t.element]
  <2>1. t.generation = generation /\ Carries(t, n, x, all, withheld, attempts, restartedAt)
    BY <1>12 DEF TextHolds, TextCaptures, InFocus
  <2>2. Stays(t, withheld, withheld) /\ new \in Seq(Attempts) /\ Steady(attempts, new)
    BY <1>9 DEF Stays
  <2>3. wider = Spelled(emitted') \cup UnspelledBefore(retired', Len(retired') + 1)
    BY <1>2, <1>9
  <2>4. target' = t /\ content'[target'.element] = x
    BY <1>2, <1>9
  <2> HIDE DEF t, x, all, wider, n, new
  <2>5. Carries(t, n, x, wider, withheld, new, restartedAt)
    BY <1>1, <1>10, <2>1, <2>2, CarriesOn
  <2> QED BY <1>2, <1>9, <2>1, <2>3, <2>4, <2>5 DEF InFocus, n, new
<1>13. PublishedIs'
  BY <1>2 DEF PublishedIs, TextHolds
<1>14. Bounded(withheld', generation', inserted')
  BY <1>2, <1>9 DEF TextHolds, TextCaptures
<1>15. TextCaptures'
  BY <1>1, <1>2, <1>9, <1>11, <1>12, <1>14 DEF TextCaptures
<1> QED BY <1>9, <1>13, <1>15 DEF TextHolds

-----------------------------------------------------------------------------
(* A restart: every run of changes ends at once.                            *)

LEMMA EmissionSound ==
  ASSUME NEW n \in Nat, NEW att \in Seq(Attempts), NEW since \in Nat, NEW loss \in Nat, NEW now \in Nat,
         NEW c, NEW b, Standing(b, att, loss, now), Fits(c, n), Aimed(c, att, since), NEW claimed,
         NEW banned, Ready(c, claimed, banned), NEW e, e = Emission(c, b, Bare(c, b)), e.text # <<>>
  PROVE  /\ Sound(e, c.element, c.generation, n, claimed, banned, att, since, loss, now)
         /\ Entries(e.text) \subseteq Unspelled(c)
<1>1. c.pending # NoPending /\ c.pending.value # Unread
  BY DEF Emission, Support
<1>2. SaidOf(e, c, claimed, banned, b.attempts)
  BY <1>1, EmissionRecorded
<1>3. Sound(e, c.element, c.generation, n, claimed, banned, att, since, loss, now)
  BY <1>1, <1>2, RecordedSound
<1> QED BY <1>2, <1>3 DEF SaidOf

Unsaid(q, texts, n) ==
  \A i \in DOMAIN q : Entries(q[i].text) \subseteq 1..n /\ Entries(q[i].text) \cap Spelled(texts) = {}

LEMMA JoinedOnce ==
  ASSUME NEW n, NEW texts, Written(texts, n), NEW q \in Seq(Texts), Unsaid(q, texts, n), Once(q)
  PROVE  Written(texts \o q, n)
<1> DEFINE r == texts \o q
           N == Len(texts)
<1>1. /\ texts \in Seq(Texts) /\ Spelled(texts) \subseteq 1..n /\ Once(texts)
  BY DEF Written
<1>2. /\ DOMAIN texts = 1..N /\ DOMAIN q = 1..Len(q) /\ DOMAIN r = 1..N + Len(q) /\ N \in Nat /\ Len(q) \in Nat
      /\ \A k \in 1..N : r[k] = texts[k]
      /\ \A k \in 1..N + Len(q) : k \notin 1..N => r[k] = q[k - N] /\ k - N \in 1..Len(q)
      /\ r \in Seq(Texts)
  BY <1>1
<1> HIDE DEF r, N
<1>3. ASSUME NEW k \in DOMAIN r PROVE Entries(r[k].text) \subseteq 1..n
  <2>1. CASE k \in 1..N
    BY <1>1, <1>2, <2>1 DEF Spelled
  <2>2. CASE k \notin 1..N
    BY <1>2, <2>2 DEF Unsaid
  <2> QED BY <2>1, <2>2
<1>4. \A k \in 1..N, l \in DOMAIN q : Entries(texts[k].text) \cap Entries(q[l].text) = {}
  BY <1>2 DEF Spelled, Unsaid
<1>5. ASSUME NEW i \in DOMAIN r, NEW j \in DOMAIN r, i # j
      PROVE  Entries(r[i].text) \cap Entries(r[j].text) = {}
  <2>1. CASE i \in 1..N /\ j \in 1..N
    BY <1>1, <1>2, <1>5, <2>1 DEF Once
  <2>2. CASE i \in 1..N /\ j \notin 1..N
    BY <1>2, <1>4, <2>2
  <2>3. CASE i \notin 1..N /\ j \in 1..N
    BY <1>2, <1>4, <2>3
  <2>4. CASE i \notin 1..N /\ j \notin 1..N
    <3>1. i - N # j - N /\ i - N \in DOMAIN q /\ j - N \in DOMAIN q /\ r[i] = q[i - N] /\ r[j] = q[j - N]
      BY <1>2, <1>5, <2>4
    <3> QED BY <3>1 DEF Once
  <2> QED BY <2>1, <2>2, <2>3, <2>4
<1>6. Spelled(r) \subseteq 1..n
  BY <1>3 DEF Spelled
<1>7. Once(r)
  BY <1>5 DEF Once
<1> QED BY <1>2, <1>6, <1>7 DEF Written, r

\* The captures there are, what each of them records, and which record anything.
Running == (IF target = NoTarget THEN <<>> ELSE <<target>>) \o retired
Endings(captures, b) == [i \in DOMAIN captures |-> Emission(captures[i], b, Bare(captures[i], b))]
Spoken(said) == {i \in DOMAIN said : said[i].text # <<>>}

LEMMA RestartSpeaks ==
  ASSUME TextHolds, NEW b, b = Received, NEW captures, captures = Running,
         NEW said, said = Endings(captures, b), NEW P, P = Spoken(said),
         NEW texts, texts = emitted \o Picked(said, P)
  PROVE  Written(texts, inserted) /\ TextsSound(texts)
<1> DEFINE k == IF target = NoTarget THEN 0 ELSE 1
           N == Len(retired)
           Claim(i) == Spelled(emitted) \cup (IF i <= k THEN Others ELSE UnspelledBefore(retired, i - k))
           n == inserted
<1>1. /\ Standing(b, attempts, lossKnown, clock) /\ b.emitted = emitted
      /\ attempts \in Seq(Attempts) /\ n \in Nat /\ clock \in Nat /\ generation \in Nat
      /\ restartedAt \in Nat /\ lossKnown \in Nat
  BY HandlerBegins
<1>2. /\ Behind(attempts, restartedAt, n, generation, retired, emitted, withheld) /\ Written(emitted, n)
      /\ retired \in Seq(Captures) /\ DOMAIN retired = 1..N /\ N \in Nat /\ k \in {0, 1}
      /\ \A i \in 1..k + N : i \in Int /\ k \in Int
  <2>1. /\ Behind(attempts, restartedAt, n, generation, retired, emitted, withheld) /\ Written(emitted, n)
    BY DEF TextHolds, TextCaptures
  <2>2. retired \in Seq(Captures)
    BY <2>1 DEF Behind
  <2>3. k \in {0, 1}
    OBVIOUS
  <2>4. DOMAIN retired = 1..Len(retired) /\ Len(retired) \in Nat
    BY <2>2
  <2> HIDE DEF k
  <2>5. \A i \in 1..k + N : i \in Int /\ k \in Int
    BY <2>3, <2>4
  <2> QED BY <2>1, <2>2, <2>3, <2>4, <2>5
<1>3. /\ DOMAIN captures = 1..k + N
      /\ \A i \in 1..k + N : \/ i <= k /\ captures[i] = target /\ target # NoTarget
                             \/ i > k /\ captures[i] = retired[i - k] /\ i - k \in 1..N
  <2>1. CASE target = NoTarget
    <3>1. k = 0 /\ captures = <<>> \o retired
      BY <2>1 DEF Running
    <3> HIDE DEF k
    <3> QED BY <1>2, <3>1
  <2>2. CASE target # NoTarget
    <3>1. k = 1 /\ captures = <<target>> \o retired /\ target \in Captures
      BY <2>2, HandlerBegins DEF Running
    <3> HIDE DEF k
    <3>2. \A i \in 1..1 + N : i = 1 \/ (i > 1 /\ i - 1 \in 1..N)
      BY <1>2
    <3>3. \A i \in 1..N : captures[i + 1] = retired[i]
      BY <1>2, <3>1
    <3> QED BY <1>2, <2>2, <3>1, <3>2, <3>3
  <2> QED BY <2>1, <2>2
<1> HIDE DEF N, k
<1>4. ASSUME NEW i \in 1..k + N
      PROVE  /\ Fits(captures[i], n) /\ Aimed(captures[i], attempts, restartedAt)
             /\ Ready(captures[i], Claim(i), withheld)
  <2>1. CASE i <= k
    <3>1. captures[i] = target /\ target # NoTarget
      BY <1>2, <1>3, <2>1
    <3>2. Claim(i) = Claims(b, Others)
      BY <1>1, <2>1 DEF Claims
    <3>3. Carries(target, n, content[target.element], Claims(Received, Others), withheld, attempts, restartedAt)
      BY <3>1, HandlerBegins
    <3> QED BY <3>1, <3>2, <3>3 DEF Carries
  <2>2. CASE ~(i <= k)
    <3>1. captures[i] = retired[i - k] /\ i - k \in DOMAIN retired
      BY <1>2, <1>3, <2>2
    <3>2. Claim(i) = Spelled(emitted) \cup UnspelledBefore(retired, i - k)
      BY <2>2
    <3> QED BY <1>2, <3>1, <3>2 DEF Behind
  <2> QED BY <2>1, <2>2
<1>5. ASSUME NEW i \in 1..k + N, NEW j \in 1..k + N, i < j
      PROVE  \/ Unspelled(captures[i]) \subseteq Claim(j)
             \/ Unspelled(captures[j]) \subseteq Claim(i)
  <2>1. CASE i <= k
    <3>1. ~(j <= k)
      BY <1>2, <1>5, <2>1
    <3>2. captures[j] = retired[j - k] /\ j - k \in DOMAIN retired
      BY <1>2, <1>3, <3>1
    <3>3. Unspelled(captures[j]) \subseteq Others
      BY <1>2, <3>2, UnspelledAt DEF Others
    <3> QED BY <2>1, <3>3
  <2>2. CASE ~(i <= k)
    <3>1. ~(j <= k) /\ i - k < j - k
      BY <1>2, <1>5, <2>2
    <3>2. /\ captures[j] = retired[j - k] /\ j - k \in DOMAIN retired
          /\ captures[i] = retired[i - k] /\ i - k \in DOMAIN retired
      BY <1>2, <1>3, <2>2, <3>1
    <3> DEFINE x == i - k
               y == j - k
    <3>3. x \in DOMAIN retired /\ y \in DOMAIN retired /\ x < y /\ captures[i] = retired[x]
      BY <3>1, <3>2
    <3> HIDE DEF x, y
    <3>4. Unspelled(captures[i]) \subseteq UnspelledBefore(retired, y)
      BY <1>2, <3>3, UnspelledAt
    <3> QED BY <3>1, <3>4 DEF y
  <2> QED BY <2>1, <2>2
<1>6. \A i \in 1..k + N : Spelled(emitted) \subseteq Claim(i)
  OBVIOUS
<1> HIDE DEF Claim
<1>7. DOMAIN said = 1..k + N
  BY <1>3 DEF Endings
<1>8. ASSUME NEW i \in P
      PROVE  /\ i \in 1..k + N /\ Entries(said[i].text) \subseteq Unspelled(captures[i])
             /\ \E el, gen : Sound(said[i], el, gen, n, Claim(i), withheld, attempts, restartedAt, lossKnown, clock)
  <2> DEFINE c == captures[i]
             e == said[i]
             claimed == Claim(i)
  <2>1. i \in 1..k + N /\ e.text # <<>> /\ e = Emission(c, b, Bare(c, b))
    BY <1>7, <1>8 DEF Endings, Spoken
  <2>2. Fits(c, n) /\ Aimed(c, attempts, restartedAt) /\ Ready(c, claimed, withheld)
    BY <1>4, <2>1
  <2> HIDE DEF c, e, claimed, n
  <2>3. /\ Sound(e, c.element, c.generation, n, claimed, withheld, attempts, restartedAt, lossKnown, clock)
        /\ Entries(e.text) \subseteq Unspelled(c)
    BY <1>1, <2>1, <2>2, EmissionSound
  <2> QED BY <2>1, <2>3 DEF c, e, claimed
<1>9. ASSUME NEW i \in P
      PROVE  /\ said[i] \in Texts /\ Entries(said[i].text) \subseteq 1..n
             /\ Entries(said[i].text) \cap Claim(i) = {} /\ Entries(said[i].text) \cap Spelled(emitted) = {}
             /\ \A s \in said[i].by : s > lossKnown \/ clock - attempts[s].at > Window
             /\ ({said[i].generation} \X Entries(said[i].text)) \cap withheld = {}
             /\ \E s \in said[i].by : s <= restartedAt \/ attempts[s].element = said[i].element
  <2>1. PICK el, gen : Sound(said[i], el, gen, n, Claim(i), withheld, attempts, restartedAt, lossKnown, clock)
    BY <1>8
  <2>2. i \in 1..k + N
    BY <1>8
  <2>3. Spelled(emitted) \subseteq Claim(i)
    BY <1>6, <2>2
  <2> DEFINE e == said[i]
             all == Claim(i)
  <2>4. Sound(e, el, gen, n, all, withheld, attempts, restartedAt, lossKnown, clock) /\ Spelled(emitted) \subseteq all
    BY <2>1, <2>3
  <2> HIDE DEF e, all, n
  <2>5. /\ e \in Texts /\ Entries(e.text) \subseteq 1..n
        /\ Entries(e.text) \cap all = {} /\ Entries(e.text) \cap Spelled(emitted) = {}
        /\ \A s \in e.by : s > lossKnown \/ clock - attempts[s].at > Window
        /\ \A x \in Entries(e.text) : <<gen, x>> \notin withheld
        /\ e.generation = gen /\ e.element = el
    BY <2>4 DEF Sound
  <2>6. ({e.generation} \X Entries(e.text)) \cap withheld = {}
    <3> SUFFICES ASSUME NEW z \in {e.generation} \X Entries(e.text), z \in withheld PROVE FALSE
      OBVIOUS
    <3>1. PICK x \in Entries(e.text) : z = <<gen, x>>
      BY <2>5
    <3> QED BY <2>5, <3>1
  <2>7. \E s \in e.by : s <= restartedAt \/ attempts[s].element = e.element
    BY <2>4, <2>5 DEF Sound
  <2> QED BY <2>5, <2>6, <2>7 DEF e, all
<1>10. ASSUME NEW i \in P, NEW j \in P, i # j, NEW z \in Entries(said[i].text)
       PROVE  z \notin Entries(said[j].text)
  <2>1. i \in 1..k + N /\ j \in 1..k + N
    BY <1>8
  <2>2. i < j \/ j < i
    BY <1>2, <1>10, <2>1
  <2>3. \/ Unspelled(captures[i]) \subseteq Claim(j) \/ Unspelled(captures[j]) \subseteq Claim(i)
    BY <1>5, <2>1, <2>2
  <2>4. Entries(said[i].text) \subseteq Unspelled(captures[i]) /\ Entries(said[j].text) \subseteq Unspelled(captures[j])
    BY <1>8
  <2>5. Entries(said[i].text) \cap Claim(i) = {} /\ Entries(said[j].text) \cap Claim(j) = {}
    BY <1>9
  <2> QED BY <2>3, <2>4, <2>5
<1> DEFINE M == k + N
           S == {said[i] : i \in 1..M}
           q == Picked(said, P)
           C == Cardinality(P)
<1>11. said \in Seq(S) /\ P \subseteq DOMAIN said
  <2>1. M \in Nat /\ DOMAIN said = 1..M /\ P \subseteq DOMAIN said
    BY <1>2, <1>7 DEF Spoken
  <2>2. \A i \in 1..M : said[i] \in S
    OBVIOUS
  <2>3. said = [i \in DOMAIN said |-> said[i]]
    BY DEF Endings
  <2> HIDE DEF S, M
  <2>4. said = [i \in 1..M |-> said[i]]
    BY <2>1, <2>3
  <2>5. said \in [1..M -> S]
    BY <2>2, <2>4
  <2> QED BY <2>1, <2>5
<1> HIDE DEF S, n
<1>12. PICK f \in [1..C -> P] :
         /\ q = [l \in 1..C |-> said[f[l]]]
         /\ \A l, m \in 1..C : f[l] = f[m] => l = m
  BY <1>11, PickedPlaces
<1>13. C \in Nat
  BY <1>11, PlacesFinite
<1>14. q \in Seq(Texts) /\ DOMAIN q = 1..C /\ Len(q) = C /\ \A l \in 1..C : q[l] = said[f[l]] /\ f[l] \in P
  <2>1. \A l \in 1..C : said[f[l]] \in Texts
    BY <1>9, <1>12
  <2> HIDE DEF q, C
  <2> QED BY <1>12, <1>13, <2>1
<1> HIDE DEF q, C
<1>15. Once(q)
  <2> SUFFICES ASSUME NEW i \in 1..C, NEW j \in 1..C, i # j
               PROVE  Entries(q[i].text) \cap Entries(q[j].text) = {}
    BY <1>14 DEF Once
  <2>1. f[i] # f[j] /\ f[i] \in P /\ f[j] \in P /\ q[i] = said[f[i]] /\ q[j] = said[f[j]]
    BY <1>12, <1>14
  <2>2. PICK x \in P, y \in P : x # y /\ q[i] = said[x] /\ q[j] = said[y]
    BY <2>1
  <2>3. \A z \in Entries(said[x].text) : z \notin Entries(said[y].text)
    BY <1>10, <2>2
  <2> QED BY <2>2, <2>3
<1>16. Unsaid(q, emitted, n)
  BY <1>9, <1>14 DEF Unsaid
<1>17. texts = emitted \o q
  BY DEF q
<1>18. Written(texts, n)
  BY <1>2, <1>14, <1>15, <1>16, <1>17, JoinedOnce
<1>19. TextsSound(texts)
  <2> SUFFICES ASSUME NEW i \in DOMAIN texts \ DOMAIN emitted
               PROVE  /\ \A s \in texts[i].by : s > lossKnown \/ clock - attempts[s].at > Window
                      /\ ({texts[i].generation} \X Entries(texts[i].text)) \cap withheld = {}
                      /\ \E s \in texts[i].by : s <= restartedAt \/ attempts[s].element = texts[i].element
    BY DEF TextsSound
  <2>1. emitted \in Seq(Texts)
    BY <1>2 DEF Written
  <2>2. i - Len(emitted) \in 1..C /\ texts[i] = q[i - Len(emitted)]
    BY <1>14, <1>17, <2>1
  <2> DEFINE j == f[i - Len(emitted)]
  <2>3. j \in P /\ texts[i] = said[j]
    BY <1>14, <2>2
  <2> HIDE DEF j
  <2> QED BY <1>9, <2>3
<1> QED BY <1>18, <1>19 DEF n

LEMMA TextsStand ==
  ASSUME NEW att, NEW loss, NEW now, NEW b, Standing(b, att, loss, now), NEW texts \in Seq(Texts)
  PROVE  /\ Standing([b EXCEPT !.emitted = texts], att, loss, now)
         /\ [b EXCEPT !.emitted = texts].emitted = texts
<1> DEFINE d == [b EXCEPT !.emitted = texts]
<1>1. b \in Books
  BY DEF Standing
<1>2. d \in Books /\ d.attempts = b.attempts /\ d.history = b.history /\ d.emitted = texts
  BY <1>1 DEF Books
<1> HIDE DEF d
<1>3. Standing(d, att, loss, now)
  BY <1>2 DEF Standing
<1> QED BY <1>2, <1>3 DEF d

LEMMA RestartHolds == ASSUME TextHolds, Restart PROVE TextHolds' /\ TextsSound(emitted')
<1> DEFINE captures == Running
           b == Received
           said == Endings(captures, b)
           P == Spoken(said)
           texts == emitted \o Picked(said, P)
           flushed == [b EXCEPT !.emitted = texts]
           gens == {c.generation : c \in Entries(captures)}
           dropped == InvalidateTargets(b, gens)
           fresh == Fresh(1)
           d == IF secureInput THEN dropped ELSE flushed
           n == inserted
           new == attempts'
           w == content[focused]
<1>1. /\ Standing(b, attempts, lossKnown, clock) /\ b.emitted = emitted
      /\ attempts \in Seq(Attempts) /\ n \in Nat /\ clock \in Nat /\ generation \in Nat
      /\ restartedAt \in Nat /\ lossKnown \in Nat
  BY HandlerBegins
<1>2. /\ Close(d) /\ target' = fresh /\ generation' = 1 /\ retired' = <<>> /\ Publish(fresh)
      /\ withheld' = Pairs(fresh, w) /\ restartedAt' = Len(attempts)
      /\ UNCHANGED <<clock, content, inserted, focused, secureInput, ruling, lossPending, tapQueue, lossKnown>>
  <2>1. flushed = [Received EXCEPT !.emitted = @ \o Picked(said, {i \in DOMAIN said : said[i].text # <<>>})]
    BY <1>1 DEF Spoken
  <2> QED BY <2>1 DEF Restart, Running, Endings, Spoken
<1>3. Written(texts, n) /\ TextsSound(texts)
  <2> HIDE DEF captures, said, texts, b, P
  <2>1. b = Received /\ captures = Running /\ said = Endings(captures, b) /\ P = Spoken(said)
        /\ texts = emitted \o Picked(said, P)
    BY DEF captures, said, texts, b, P
  <2> QED BY <2>1, RestartSpeaks
<1> HIDE DEF captures, said, texts, b, P
<1>4. Standing(flushed, attempts, lossKnown, clock) /\ flushed.emitted = texts
  <2>1. texts \in Seq(Texts)
    BY <1>3 DEF Written
  <2> QED BY <1>1, <2>1, TextsStand
<1> HIDE DEF gens
<1>5. Standing(dropped, attempts, lossKnown, clock) /\ dropped.emitted = emitted
  BY <1>1, InvalidateStands
<1>6. Written(emitted, n) /\ TextsSound(emitted)
  BY DEF TextHolds, TextCaptures, TextsSound
<1>7. Standing(d, attempts, lossKnown, clock) /\ Written(d.emitted, n) /\ TextsSound(d.emitted)
  <2> HIDE DEF flushed, dropped
  <2>1. CASE secureInput
    BY <1>5, <1>6, <2>1
  <2>2. CASE ~secureInput
    BY <1>3, <1>4, <2>2
  <2> QED BY <2>1, <2>2
<1> HIDE DEF d, fresh, flushed, dropped
<1>8. TextWorld /\ TextKeys /\ PublishedIs
  BY DEF TextHolds
<1>9. /\ TextKeys' /\ KeysKnown' /\ Steady(attempts, attempts') /\ emitted' = d.emitted
  <2>1. restartedAt' \in Nat /\ restartedAt' <= Len(attempts)
    BY <1>1, <1>2
  <2> QED BY <1>2, <1>7, <1>8, <2>1, CloseKeeps
<1>10. TextWorld' /\ TextsSound(emitted') /\ Written(emitted', inserted')
  BY <1>2, <1>7, <1>8, <1>9 DEF TextWorld
<1>11. new \in Seq(Attempts) /\ \A s \in DOMAIN new : ~(s > restartedAt')
  <2>1. new \in Seq(Attempts) /\ Len(new) = Len(attempts)
    BY <1>9 DEF TextKeys, Steady
  <2> HIDE DEF new
  <2> QED BY <1>2, <2>1
<1>12. \A claimed, banned : Carries(fresh, n, w, claimed, banned, new, restartedAt')
  <2> SUFFICES ASSUME NEW claimed, NEW banned PROVE Carries(fresh, n, w, claimed, banned, new, restartedAt')
    OBVIOUS
  <2> DEFINE number == 1
             since == restartedAt'
  <2>1. number \in Nat \ {0} /\ fresh = Fresh(number)
        /\ \A s \in DOMAIN new : s > since /\ new[s].kind = "key" => new[s].generation # number
    BY <1>11 DEF fresh
  <2> HIDE DEF number, since, new
  <2>2. Carries(Fresh(number), inserted, content[focused], claimed, banned, new, since)
    BY <1>8, <2>1, FreshCarries
  <2> QED BY <2>1, <2>2 DEF since
<1>13. /\ fresh.generation = 1 /\ fresh.element = focused /\ fresh # NoTarget /\ fresh \in Captures
  <2>1. fresh \in Captures
    BY <1>12 DEF Carries, Fits
  <2>2. fresh.generation = 1 /\ fresh.element = focused
    BY DEF fresh, Fresh
  <2> QED BY <2>1, <2>2, CaptureHas
<1>14. Bounded(withheld', generation', inserted')
  <2>1. Entries(w) \subseteq 1..n
    BY <1>8, EntriesIn DEF TextWorld
  <2> QED BY <1>2, <1>13, <2>1 DEF Bounded, Pairs
<1>15. Numbered(attempts', restartedAt', generation')
  BY <1>11 DEF Numbered
<1>16. Behind(attempts', restartedAt', inserted', generation', retired', emitted', withheld')
  BY <1>2 DEF Behind
<1>17. InFocus(attempts', restartedAt', inserted', generation', target', content'[target'.element], retired',
             emitted', withheld')
  BY <1>2, <1>12, <1>13 DEF InFocus
<1>18. PublishedIs'
  <2>1. /\ published' \in [generation : Nat, text : BOOLEAN, version : Nat, element : Elements \cup {0}]
        /\ published'.generation = fresh.generation /\ published'.element = fresh.element
    BY <1>2, <1>8, <1>13, PublishedFor
  <2> QED BY <1>2, <1>13, <2>1 DEF PublishedIs
<1>19. TextCaptures'
  BY <1>2, <1>10, <1>14, <1>15, <1>16, <1>17 DEF TextCaptures
<1> QED BY <1>9, <1>10, <1>18, <1>19 DEF TextHolds

-----------------------------------------------------------------------------
(* What happens outside the worker.                                         *)

LEMMA FitsFurther ==
  ASSUME NEW n \in Nat, NEW m \in Nat, n <= m, NEW c, Fits(c, n)
  PROVE  Fits(c, m)
<1>1. \A x \in 1..n : x \in 1..m
  OBVIOUS
<1> QED BY <1>1 DEF Fits

\* New keys are aimed at the field in focus.
Extends(att, new, c) ==
  /\ Len(att) <= Len(new)
  /\ \A s \in DOMAIN att :
       /\ new[s].kind = att[s].kind /\ new[s].generation = att[s].generation
       /\ new[s].element = att[s].element
  /\ \A s \in DOMAIN new : s \notin DOMAIN att /\ new[s].kind = "key" =>
       c # NoTarget /\ new[s].generation = c.generation /\ new[s].element = c.element

LEMMA AimedFurther ==
  ASSUME NEW att \in Seq(Attempts), NEW new \in Seq(Attempts), NEW t, Extends(att, new, t), NEW since,
         NEW c, Aimed(c, att, since), t # NoTarget => c.generation # t.generation \/ c.element = t.element
  PROVE  Aimed(c, new, since)
<1>1. DOMAIN att \subseteq DOMAIN new
  BY DEF Extends
<1>2. ASSUME NEW s \in DOMAIN new, s > since, new[s].kind = "key", new[s].generation = c.generation
      PROVE  new[s].element = c.element
  <2>1. CASE s \in DOMAIN att
    BY <1>2, <2>1 DEF Aimed, Extends
  <2>2. CASE s \notin DOMAIN att
    BY <1>2, <2>2 DEF Extends
  <2> QED BY <2>1, <2>2
<1>3. ASSUME NEW i \in DOMAIN c.pending.steps, NEW s \in c.pending.steps[i].matched
      PROVE  s \in DOMAIN new /\ new[s].kind = "key" /\ new[s].generation = c.generation
  <2>1. s \in DOMAIN att /\ att[s].kind = "key" /\ att[s].generation = c.generation
    BY DEF Aimed
  <2> QED BY <1>1, <2>1 DEF Extends
<1> QED BY <1>2, <1>3 DEF Aimed

\* A new character is in no text, no run of changes and nothing withheld.
LEMMA SeenFurther ==
  ASSUME NEW n \in Nat, NEW c, Fits(c, n), NEW claimed, n + 1 \notin claimed, NEW banned,
         <<c.generation, n + 1>> \notin banned, NEW w \in Seq(1..n), Seen(c, claimed, banned, w)
  PROVE  Seen(c, claimed, banned, Append(w, n + 1))
<1> DEFINE z == Append(w, n + 1)
           N == Len(w)
<1>1. /\ DOMAIN w = 1..N /\ DOMAIN z = 1..N + 1 /\ Len(z) = N + 1 /\ N \in Nat /\ z[N + 1] = n + 1
      /\ \A i \in 1..N : z[i] = w[i] /\ w[i] \in 1..n
      /\ \A i \in 1..N + 1 : i = N + 1 \/ i \in 1..N
  OBVIOUS
<1>2. Entries(z) = Entries(w) \cup {n + 1}
  <2>1. w \in Seq(Nat) /\ n + 1 \in Nat
    OBVIOUS
  <2> QED BY <2>1, EntriesAppended
<1> HIDE DEF z, N
<1>3. Unrepeated(z)
  <2>1. Unrepeated(w)
    BY DEF Seen
  <2> QED BY <1>1, <2>1 DEF Unrepeated
<1>4. ASSUME NEW v \in Starts(c) \ {Unread}
      PROVE  Succeeds(v, z) /\ Entries(z) \cap claimed \subseteq Entries(v)
  <2>1. Succeeds(v, w) /\ Entries(w) \cap claimed \subseteq Entries(v) /\ Entries(v) \subseteq 1..n /\ v \in Values
    BY StartsTyped DEF Seen, Fits
  <2>2. n + 1 \notin Entries(v)
    BY <2>1
  <2>3. Entries(z) \cap claimed \subseteq Entries(v)
    BY <1>2, <2>1
  <2>4. CASE BeginsWith(v, w)
    <3>1. Len(v) \in Nat /\ Len(v) <= N /\ \A i \in 1..Len(v) : w[i] = v[i] /\ i \in 1..N
      BY <1>1, <2>1, <2>4 DEF BeginsWith, Values, N
    <3>2. BeginsWith(v, z)
      BY <1>1, <3>1 DEF BeginsWith
    <3> QED BY <2>3, <3>2 DEF Succeeds
  <2>5. CASE Entries(v) \cap Entries(w) = {}
    BY <1>2, <2>2, <2>3, <2>5 DEF Succeeds
  <2> QED BY <2>1, <2>4, <2>5 DEF Succeeds
<1>5. ASSUME NEW v \in Heads(c) \ {Unread}, NEW x \in Entries(z), <<c.generation, x>> \in banned
      PROVE  x \in Entries(v)
  BY <1>2, <1>5 DEF Seen
<1> QED BY <1>3, <1>4, <1>5 DEF Seen, z

LEMMA SeenNothing ==
  ASSUME NEW c, NEW claimed, NEW banned
  PROVE  Seen(c, claimed, banned, <<>>)
<1> DEFINE w == <<>>
<1>1. Entries(w) = {} /\ Unrepeated(w)
  BY DEF Entries, Unrepeated
<1> HIDE DEF w
<1>2. Seen(c, claimed, banned, w)
  BY <1>1 DEF Seen, Succeeds
<1> QED BY <1>2 DEF w

\* What a field holds after the application or the user changed it.
Edited(w, z, n, m) == z = w \/ z = <<>> \/ (z = Append(w, n + 1) /\ m = n + 1)

LEMMA OutsideKeeps ==
  ASSUME TextHolds, attempts' \in Seq(Attempts), Extends(attempts, attempts', target),
         \A e \in Elements : Edited(content[e], content'[e], inserted, inserted'),
         inserted' \in Nat, inserted <= inserted',
         UNCHANGED <<target, generation, retired, emitted, withheld, restartedAt>>
  PROVE  TextCaptures' /\ TextsSound(emitted')
<1> DEFINE n == inserted
           m == inserted'
           new == attempts'
           t == target
           claimed == Spelled(emitted) \cup UnspelledBefore(retired, Len(retired) + 1)
<1>1. /\ attempts \in Seq(Attempts) /\ n \in Nat /\ generation \in Nat /\ restartedAt \in Nat
      /\ t # NoTarget => t \in Captures /\ t.generation = generation
  BY HandlerBegins
<1>2. /\ Numbered(attempts, restartedAt, generation) /\ Written(emitted, n) /\ Bounded(withheld, generation, n)
      /\ Behind(attempts, restartedAt, n, generation, retired, emitted, withheld)
      /\ t # NoTarget =>
           Carries(t, n, content[t.element], claimed, withheld, attempts, restartedAt)
  BY DEF TextHolds, TextCaptures, InFocus
<1>3. \A x \in 1..n : x \in 1..m
  BY <1>1
<1>4. Numbered(new, restartedAt, generation)
  <2> SUFFICES ASSUME NEW s \in DOMAIN new, s > restartedAt, new[s].kind = "key"
               PROVE  new[s].generation <= generation
    BY DEF Numbered
  <2>1. CASE s \in DOMAIN attempts
    BY <1>2, <2>1 DEF Numbered, Extends
  <2>2. CASE s \notin DOMAIN attempts
    <3>1. new[s].generation = generation
      BY <1>1, <2>2 DEF Extends
    <3> QED BY <1>1, <3>1
  <2> QED BY <2>1, <2>2
<1>5. Written(emitted, m) /\ Bounded(withheld, generation, m)
  BY <1>2, <1>3 DEF Written, Bounded
<1>6. Behind(new, restartedAt, m, generation, retired, emitted, withheld)
  <2> SUFFICES ASSUME NEW i \in DOMAIN retired
               PROVE  Fits(retired[i], m) /\ Aimed(retired[i], new, restartedAt)
    BY <1>2 DEF Behind
  <2> DEFINE c == retired[i]
  <2>1. Fits(c, n) /\ Aimed(c, attempts, restartedAt) /\ c.generation < generation
    BY <1>2 DEF Behind
  <2>2. t # NoTarget => c.generation # t.generation \/ c.element = t.element
    <3>1. c.generation \in Nat
      BY <2>1, CaptureHas DEF Fits
    <3> QED BY <1>1, <2>1, <3>1
  <2> HIDE DEF c, t, new, n, m
  <2>3. Aimed(c, new, restartedAt)
    BY <1>1, <2>1, <2>2, AimedFurther DEF t, new
  <2>4. Fits(c, m)
    BY <1>1, <2>1, FitsFurther DEF n, m
  <2> QED BY <2>3, <2>4 DEF c
<1>7. ASSUME t # NoTarget
      PROVE  InFocus(new, restartedAt, m, generation, t, content'[t.element], retired, emitted, withheld)
  <2> DEFINE w == content[t.element]
             z == content'[t.element]
  <2>1. /\ Fits(t, n) /\ Aimed(t, attempts, restartedAt) /\ Seen(t, claimed, withheld, w)
        /\ Ready(t, claimed, withheld)
    BY <1>2, <1>7 DEF Carries
  <2>2. w \in Seq(1..n) /\ Edited(w, z, n, m)
    BY <1>1, <1>7, HandlerBegins, CaptureHas
  <2>3. n + 1 \notin claimed
    <3>1. Spelled(emitted) \subseteq 1..n
      BY <1>2 DEF Written
    <3>2. ASSUME NEW i \in DOMAIN retired PROVE n + 1 \notin Unspelled(retired[i])
      <4> DEFINE c == retired[i]
      <4>1. Fits(c, n)
        BY <1>2 DEF Behind
      <4> HIDE DEF c, n
      <4>2. CASE c.pending # NoPending
        <5>1. c.pending.value = Unread \/ Entries(c.pending.value) \subseteq 1..n
          BY <1>1, <4>1, <4>2, ValueStarts DEF Fits
        <5>2. n + 1 \notin Entries(Unread)
          <6>1. Entries(Unread) \subseteq {0} /\ n \in Nat
            BY <1>1 DEF Entries, Unread, n
          <6> QED BY <6>1
        <5>3. n + 1 \notin 1..n
          BY <1>1 DEF n
        <5> QED BY <4>2, <5>1, <5>2, <5>3 DEF Unspelled, c
      <4>3. CASE c.pending = NoPending
        BY <4>3 DEF Unspelled, c
      <4> QED BY <4>2, <4>3
    <3>3. n + 1 \notin UnspelledBefore(retired, Len(retired) + 1)
      BY <3>2 DEF UnspelledBefore
    <3>4. n + 1 \notin 1..n
      BY <1>1
    <3> QED BY <3>1, <3>3, <3>4
  <2>4. <<t.generation, n + 1>> \notin withheld
    BY <1>1, <1>2 DEF Bounded
  <2> HIDE DEF claimed, w, z, n, m, t, new
  <2>5. Seen(t, claimed, withheld, z)
    <3>1. CASE z = w
      BY <2>1, <3>1
    <3>2. CASE z = <<>>
      BY <3>2, SeenNothing
    <3>3. CASE z = Append(w, n + 1)
      BY <1>1, <2>1, <2>2, <2>3, <2>4, <3>3, SeenFurther
    <3> QED BY <2>2, <3>1, <3>2, <3>3 DEF Edited
  <2>6. Aimed(t, new, restartedAt)
    BY <1>1, <2>1, AimedFurther DEF t, new
  <2>7. Fits(t, m)
    BY <1>1, <2>1, FitsFurther DEF n, m
  <2>8. Carries(t, m, z, claimed, withheld, new, restartedAt)
    BY <2>1, <2>5, <2>6, <2>7 DEF Carries
  <2> QED BY <1>1, <1>7, <2>8 DEF InFocus, claimed, z, t
<1>8. TextCaptures'
  BY <1>1, <1>4, <1>5, <1>6, <1>7 DEF TextCaptures
<1> QED BY <1>8 DEF TextsSound

LEMMA NoneNew ==
  ASSUME TextHolds
  PROVE  /\ Extends(attempts, attempts, target) /\ attempts \in Seq(Attempts)
         /\ \A e \in Elements : Edited(content[e], content[e], inserted, inserted)
         /\ inserted \in Nat /\ inserted <= inserted /\ Len(attempts) \in Nat
<1>1. attempts \in Seq(Attempts) /\ inserted \in Nat
  BY HandlerBegins
<1>2. Len(attempts) \in Nat /\ Len(attempts) <= Len(attempts)
  BY <1>1
<1> QED BY <1>1, <1>2 DEF Extends, Edited

\* The flag is raised: what the worker holds will be void.
LEMMA StoreIntegrityLostHolds ==
  ASSUME TextHolds, StoreIntegrityLost
  PROVE  TextHolds' /\ TextsSound(emitted')
<1>1. /\ lossPending' = FALSE /\ integrityLost' = TRUE /\ lossKnown' = Len(attempts)
      /\ UNCHANGED <<clock, content, inserted, focused, secureInput, ruling, attempts, channel,
                     tapQueue, received, history, target, generation, retired, published,
                     emitted, withheld, restartedAt>>
  BY DEF StoreIntegrityLost
<1>2. /\ Extends(attempts, attempts, target) /\ attempts \in Seq(Attempts)
      /\ \A e \in Elements : Edited(content[e], content[e], inserted, inserted)
      /\ inserted \in Nat /\ inserted <= inserted /\ Len(attempts) \in Nat
  BY NoneNew
<1>3. TextCaptures' /\ TextsSound(emitted')
  <2>1. /\ attempts' \in Seq(Attempts) /\ Extends(attempts, attempts', target) /\ inserted' \in Nat
        /\ \A e \in Elements : Edited(content[e], content'[e], inserted, inserted')
        /\ inserted <= inserted'
    BY <1>1, <1>2
  <2> QED BY <1>1, <2>1, OutsideKeeps
<1>4. TextWorld' /\ PublishedIs'
  BY <1>1 DEF TextHolds, TextWorld, PublishedIs
<1>5. TextKeys'
  <2>1. lossKnown' \in Nat /\ lossKnown' <= Len(attempts) /\ lossPending' \in BOOLEAN /\ integrityLost' \in BOOLEAN
    <3>1. Len(attempts) \in Nat /\ lossKnown' = Len(attempts)
      BY <1>1, NoneNew
    <3>2. lossKnown' \in Nat /\ lossKnown' <= Len(attempts)
      BY <3>1
    <3>3. lossPending' \in BOOLEAN /\ integrityLost' \in BOOLEAN
      BY <1>1
    <3> QED BY <3>2, <3>3
  <2>2. TextKeys
    BY DEF TextHolds
  <2> QED BY <1>1, <2>1, <2>2 DEF TextKeys
<1>6. KeysKnown'
  BY <1>1 DEF TextHolds, KeysKnown
<1> QED BY <1>3, <1>4, <1>5, <1>6 DEF TextHolds

\* The world, while the program waits.
LEMMA OutsideHolds ==
  ASSUME TextHolds, Outside, \A e \in Elements : Edited(content[e], content'[e], inserted, inserted'),
         inserted <= inserted', TextWorld', clock <= clock'
  PROVE  TextHolds' /\ TextsSound(emitted')
<1>1. UNCHANGED <<attempts, channel, integrityLost, lossPending, tapQueue, received,
                  history, target, generation, retired, published, emitted, withheld, lossKnown, restartedAt>>
  BY DEF Outside
<1>2. Extends(attempts, attempts, target) /\ attempts \in Seq(Attempts)
  BY NoneNew
<1>3. TextCaptures' /\ TextsSound(emitted')
  <2>1. attempts' \in Seq(Attempts) /\ Extends(attempts, attempts', target) /\ inserted' \in Nat
    BY <1>1, <1>2 DEF TextWorld
  <2> QED BY <1>1, <2>1, OutsideKeeps
<1>4. PublishedIs' /\ TextKeys'
  BY <1>1 DEF TextHolds, PublishedIs, TextKeys
<1>5. KeysKnown'
  <2> SUFFICES ASSUME NEW s \in DOMAIN attempts, Opens(attempts, s), clock' - attempts[s].at <= Window
               PROVE  clock - attempts[s].at <= Window
    BY <1>1 DEF TextHolds, KeysKnown, Opens
  <2>1. attempts[s].at \in Nat /\ Window \in Nat /\ clock \in Nat /\ clock' \in Nat
    BY <1>2, AttemptHas, HandlerBegins, ConstantsAre DEF TextWorld
  <2> QED BY <2>1
<1> QED BY <1>3, <1>4, <1>5 DEF TextHolds

LEMMA HandleKeyHolds ==
  ASSUME TextHolds, NEW sent \in BOOLEAN, HandleKey(sent)
  PROVE  TextHolds' /\ TextsSound(emitted')
<1> DEFINE key == Head(tapQueue)
           a == key.authorization
           outcome == IF KeyAllowed(key) /\ sent THEN "confirmed" ELSE "rejected"
           new == Resolved(attempts, a, outcome)
<1>1. /\ tapQueue # <<>> /\ tapQueue' = Tail(tapQueue) /\ attempts' = new
      /\ UNCHANGED <<clock, content, inserted, focused, secureInput, ruling, channel,
                    integrityLost, lossPending, received, history, target,
                    generation, retired, published, emitted, withheld, lossKnown, restartedAt>>
  BY DEF HandleKey
<1>2. /\ attempts \in Seq(Attempts) /\ inserted \in Nat /\ inserted <= inserted
      /\ \A e \in Elements : Edited(content[e], content[e], inserted, inserted)
  BY NoneNew
<1>3. outcome \in {"confirmed", "rejected"}
  OBVIOUS
<1> HIDE DEF outcome, key, a
<1>4. /\ new \in Seq(Attempts) /\ Len(new) = Len(attempts) /\ DOMAIN new = DOMAIN attempts
      /\ \A s \in DOMAIN attempts :
           /\ new[s].kind = attempts[s].kind /\ new[s].generation = attempts[s].generation
           /\ new[s].element = attempts[s].element /\ new[s].at = attempts[s].at
           /\ Opens(new, s) => Opens(attempts, s)
  <2>1. CASE new = attempts
    BY <1>2, <2>1
  <2>2. CASE new # attempts
    <3>1. attempts[a].state = "pending" /\ new = [attempts EXCEPT ![a].state = outcome]
      BY <2>2 DEF Resolved
    <3>2. \A s \in DOMAIN attempts : attempts[s] \in Attempts
      BY <1>2, AttemptHas
    <3>3. outcome \in AttemptStates
      BY <1>3 DEF AttemptStates
    <3>4. DOMAIN new = DOMAIN attempts
      BY <3>1
    <3>5. ASSUME NEW s \in DOMAIN attempts
          PROVE  /\ new[s] \in Attempts
                 /\ new[s].kind = attempts[s].kind /\ new[s].generation = attempts[s].generation
                 /\ new[s].element = attempts[s].element /\ new[s].at = attempts[s].at
                 /\ Opens(new, s) => Opens(attempts, s)
      <4>1. CASE s = a
        <5>1. new[s] = [attempts[s] EXCEPT !.state = outcome]
          BY <3>1, <4>1
        <5>2. attempts[s] \in Attempts
          BY <3>2
        <5> QED BY <3>1, <3>3, <4>1, <5>1, <5>2 DEF Attempts, Opens
      <4>2. CASE s # a
        <5>1. new[s] = attempts[s]
          BY <3>1, <4>2
        <5> QED BY <3>2, <5>1 DEF Opens
      <4> QED BY <4>1, <4>2
    <3> HIDE DEF new
    <3>6. new \in Seq(Attempts) /\ Len(new) = Len(attempts)
      <4>1. DOMAIN attempts = 1..Len(attempts) /\ Len(attempts) \in Nat
        BY <1>2
      <4>2. new = [s \in 1..Len(attempts) |-> new[s]]
        <5>1. new = [s \in DOMAIN new |-> new[s]]
          BY <3>1
        <5> QED BY <3>4, <4>1, <5>1
      <4>3. new \in [1..Len(attempts) -> Attempts]
        BY <3>5, <4>1, <4>2
      <4> QED BY <4>1, <4>3
    <3> QED BY <3>4, <3>5, <3>6
  <2> QED BY <2>1, <2>2
<1> HIDE DEF new
<1>5. Extends(attempts, new, target)
  <2>1. Len(attempts) <= Len(new)
    BY <1>2, <1>4
  <2> QED BY <1>4, <2>1 DEF Extends
<1>6. TextCaptures' /\ TextsSound(emitted')
  <2>1. /\ attempts' \in Seq(Attempts) /\ Extends(attempts, attempts', target) /\ inserted' \in Nat
        /\ \A e \in Elements : Edited(content[e], content'[e], inserted, inserted')
        /\ inserted <= inserted'
    BY <1>1, <1>2, <1>4, <1>5
  <2> QED BY <1>1, <2>1, OutsideKeeps
<1>7. TextWorld' /\ PublishedIs'
  BY <1>1 DEF TextHolds, TextWorld, PublishedIs
<1>8. TextKeys'
  <2>1. TextKeys
    BY DEF TextHolds
  <2>2. tapQueue' \in Seq(Presses) /\ Len(tapQueue') <= EventCapacity
    <3>1. /\ tapQueue \in Seq(Presses) /\ Len(tapQueue) <= EventCapacity /\ EventCapacity \in Nat
          /\ Tail(tapQueue) \in Seq(Presses) /\ Len(Tail(tapQueue)) = Len(tapQueue) - 1 /\ Len(tapQueue) \in Nat
      BY <1>1, <2>1, ConstantsAre DEF TextKeys
    <3> QED BY <1>1, <3>1
  <2> QED BY <1>1, <1>4, <2>1, <2>2 DEF TextKeys
<1>9. KeysKnown'
  BY <1>1, <1>4 DEF TextHolds, KeysKnown
<1> QED BY <1>6, <1>7, <1>8, <1>9 DEF TextHolds

\* What a key down numbers.
LEMMA KeyNumbered ==
  ASSUME TextHolds, NEW lost \in BOOLEAN, NEW full \in BOOLEAN, NEW key, key = Reserved(lost, full)
  PROVE  /\ Append(Activity, key) \in Seq(Attempts) /\ Len(Append(Activity, key)) = Len(Activity) + 1
         /\ Len(Activity) \in Nat
         /\ \A i \in DOMAIN Append(Activity, key) :
              /\ Append(Activity, key)[i].at = clock
              /\ Append(Activity, key)[i].kind = "key" =>
                   /\ target # NoTarget /\ Append(Activity, key)[i].generation = target.generation
                   /\ Append(Activity, key)[i].element = target.element
                   /\ Append(Activity, key)[i].state \in {"pending", "confirmed"} => ~lost
<1>1. /\ clock \in Nat
      /\ published \in [generation : Nat, text : BOOLEAN, version : Nat, element : Elements \cup {0}]
      /\ published.text => target # NoTarget /\ published.generation = target.generation
                           /\ published.element = target.element
  BY HandlerBegins DEF TextHolds, PublishedIs
<1>2. ASSUME NEW kind \in {"activity", "rejected"}, NEW x, x = Attempt(kind, "none", NoneFocused)
      PROVE  x \in Attempts /\ x.at = clock /\ x.kind # "key"
  <2>1. x = [kind |-> kind, state |-> "none", at |-> clock, generation |-> 0, element |-> 0]
    BY <1>2 DEF Attempt, NoneFocused
  <2> QED BY <1>1, <2>1 DEF Attempts, AttemptStates
<1>3. /\ key \in Attempts /\ key.at = clock
      /\ key.kind = "key" =>
           /\ target # NoTarget /\ key.generation = target.generation /\ key.element = target.element
           /\ key.state \in {"pending", "confirmed"} => ~lost
  <2>1. CASE secureInput \/ ~published.text
    <3>1. key = Attempt("rejected", "none", NoneFocused)
      BY <2>1 DEF Reserved
    <3> QED BY <1>2, <3>1
  <2>2. CASE ~(secureInput \/ ~published.text)
    <3> DEFINE mark == IF lost THEN "invalidated" ELSE IF full THEN "rejected" ELSE "pending"
    <3>1. key = [kind |-> "key", state |-> mark, at |-> clock,
                 generation |-> published.generation, element |-> published.element]
      BY <2>2 DEF Reserved, Attempt
    <3>2. mark \in AttemptStates /\ (mark \in {"pending", "confirmed"} => ~lost)
      BY DEF AttemptStates
    <3> HIDE DEF mark
    <3> QED BY <1>1, <2>2, <3>1, <3>2 DEF Attempts
  <2> QED BY <2>1, <2>2
<1>4. CASE secureInput
  <2>1. Activity = <<>>
    BY <1>4 DEF Activity
  <2> QED BY <1>3, <2>1
<1>5. CASE ~secureInput
  <2> DEFINE x == Attempt("activity", "none", NoneFocused)
  <2>1. Activity = <<x>>
    BY <1>5 DEF Activity
  <2>2. x \in Attempts /\ x.at = clock /\ x.kind # "key"
    BY <1>2
  <2> HIDE DEF x
  <2> QED BY <1>3, <2>1, <2>2
<1> QED BY <1>4, <1>5

LEMMA WiderSeq ==
  ASSUME NEW S, NEW T, S \subseteq T, NEW q \in Seq(S)
  PROVE  q \in Seq(T)
  OBVIOUS

LEMMA EditedKeeps ==
  ASSUME NEW n \in Nat, NEW w \in Seq(1..n), Unrepeated(w), NEW m \in Nat, n <= m, NEW z, Edited(w, z, n, m)
  PROVE  z \in Seq(1..m) /\ Unrepeated(z)
<1>1. \A x \in 1..n : x \in 1..m
  OBVIOUS
<1>2. w \in Seq(1..m)
  BY <1>1
<1>3. CASE z = w
  BY <1>2, <1>3
<1>4. CASE z = <<>>
  BY <1>4 DEF Unrepeated
<1>5. CASE z = Append(w, n + 1) /\ m = n + 1
  <2> DEFINE N == Len(w)
  <2>1. /\ DOMAIN w = 1..N /\ DOMAIN z = 1..N + 1 /\ N \in Nat /\ z[N + 1] = n + 1
        /\ \A i \in 1..N : z[i] = w[i] /\ w[i] \in 1..n
        /\ \A i \in 1..N + 1 : i = N + 1 \/ i \in 1..N
    BY <1>5
  <2>2. z \in Seq(1..m)
    BY <1>2, <1>5
  <2>3. \A i \in 1..N : z[i] # n + 1
    BY <2>1
  <2> HIDE DEF N
  <2>4. Unrepeated(z)
    BY <2>1, <2>3 DEF Unrepeated
  <2> QED BY <2>2, <2>4
<1> QED BY <1>3, <1>4, <1>5 DEF Edited

LEMMA WorldEdited ==
  ASSUME TextHolds, inserted' \in Nat, inserted <= inserted', inserted' <= MaxChars,
         NEW v, content' = [content EXCEPT ![focused] = v],
         Edited(content[focused], v, inserted, inserted'),
         UNCHANGED <<clock, focused, secureInput, ruling>>
  PROVE  TextWorld' /\ \A e \in Elements : Edited(content[e], content'[e], inserted, inserted')
<1>1. TextWorld /\ inserted \in Nat
  BY DEF TextHolds, TextWorld
<1>2. ASSUME NEW e \in Elements
      PROVE  Edited(content[e], content'[e], inserted, inserted')
  <2>1. content \in [Elements -> Seq(1..inserted)]
    BY <1>1 DEF TextWorld
  <2>2. CASE e = focused
    BY <2>1, <2>2
  <2>3. CASE e # focused
    <3>1. content'[e] = content[e]
      BY <2>1, <2>3
    <3> QED BY <3>1 DEF Edited
  <2> QED BY <2>2, <2>3
<1>3. ASSUME NEW e \in Elements
      PROVE  content'[e] \in Seq(1..inserted') /\ Unrepeated(content'[e])
  <2> DEFINE w == content[e]
             z == content'[e]
             n == inserted
             m == inserted'
  <2>1. w \in Seq(1..n) /\ Unrepeated(w)
    BY <1>1 DEF TextWorld
  <2>2. Edited(w, z, n, m) /\ n \in Nat /\ m \in Nat /\ n <= m
    BY <1>1, <1>2
  <2> HIDE DEF w, z, n, m
  <2>3. z \in Seq(1..m) /\ Unrepeated(z)
    BY <2>1, <2>2, EditedKeeps
  <2> QED BY <2>3 DEF z, m
<1>4. content' \in [Elements -> Seq(1..inserted')]
  <2>1. DOMAIN content' = Elements /\ content' = [e \in DOMAIN content' |-> content'[e]]
    BY <1>1 DEF TextWorld
  <2> QED BY <1>3, <2>1
<1>5. TextWorld'
  BY <1>1, <1>3, <1>4 DEF TextWorld
<1> QED BY <1>2, <1>5

LEMMA NumbersSent ==
  ASSUME NEW n \in Nat, NEW sent \in Nat, NEW m \in Nat, n <= sent, sent <= m, NEW q \in Seq(1..n),
         NEW r, r = [i \in 1..sent - n |-> n + i]
  PROVE  /\ q \o r \in Seq(1..m) /\ Len(q \o r) = Len(q) + (sent - n)
         /\ Entries(q) \subseteq Entries(q \o r)
         /\ \A s \in n + 1..sent : s \in Entries(q \o r)
<1>1. \A x \in 1..n : x \in 1..m
  OBVIOUS
<1>2. q \in Seq(1..m)
  BY <1>1
<1>3. sent - n \in Nat /\ \A i \in 1..sent - n : n + i \in 1..m
  OBVIOUS
<1>4. r \in Seq(1..m) /\ Len(r) = sent - n /\ DOMAIN r = 1..sent - n
  BY <1>3
<1>5. q \o r \in Seq(1..m) /\ Entries(q \o r) = Entries(q) \cup Entries(r)
  BY <1>2, <1>4, EntriesJoined
<1>6. Len(q \o r) = Len(q) + Len(r)
  BY <1>2, <1>4
<1>7. ASSUME NEW s \in n + 1..sent PROVE s \in Entries(r)
  <2>1. s - n \in 1..sent - n /\ n + (s - n) = s
    OBVIOUS
  <2>2. r[s - n] = s
    BY <2>1
  <2> QED BY <1>4, <2>1, <2>2 DEF Entries
<1> QED BY <1>4, <1>5, <1>6, <1>7

\* The attempts after one is joined by others.
LEMMA AttemptsJoined ==
  ASSUME NEW q \in Seq(Attempts), NEW r \in Seq(Attempts)
  PROVE  /\ q \o r \in Seq(Attempts) /\ Len(q \o r) = Len(q) + Len(r) /\ Len(q) \in Nat /\ Len(r) \in Nat
         /\ DOMAIN q = 1..Len(q) /\ DOMAIN (q \o r) = 1..Len(q) + Len(r)
         /\ \A s \in DOMAIN q : (q \o r)[s] = q[s] /\ s \in DOMAIN (q \o r)
         /\ \A s \in DOMAIN (q \o r) : s \notin DOMAIN q =>
              s - Len(q) \in DOMAIN r /\ (q \o r)[s] = r[s - Len(q)] /\ s > Len(q)
  OBVIOUS

\* The callback of a key.
LEMMA KeyDownHolds == ASSUME TextHolds, KeyDown PROVE TextHolds' /\ TextsSound(emitted')
<1> DEFINE room == Capacity - Len(channel)
           L == Len(Activity)
           lost == room <= L
           full == Len(tapQueue) = EventCapacity
           key == Reserved(lost, full)
           fresh == Append(Activity, key)
           N == Len(attempts)
           all == attempts \o fresh
           sent == N + (IF lost THEN room ELSE L + 1)
           sending == [i \in 1..sent - N |-> N + i]
           v == Append(content[focused], inserted + 1)
           press == [version |-> published.version, secure |-> secureInput,
                     authorization |-> IF key.state = "pending" THEN Len(all) ELSE 0]
<1>1. /\ inserted < MaxChars /\ inserted' = inserted + 1 /\ attempts' = all
      /\ channel' = channel \o sending /\ lossPending' = (sent < Len(all))
      /\ tapQueue' = IF full THEN tapQueue ELSE Append(tapQueue, press)
      /\ UNCHANGED <<clock, focused, secureInput, ruling, integrityLost, received, history,
                    target, generation, retired, published, emitted, withheld,
                    lossKnown, restartedAt>>
  BY DEF KeyDown
<1>2. content' = [content EXCEPT ![focused] = v]
  BY DEF KeyDown
<1>3. TextWorld /\ TextKeys /\ KeysKnown /\ PublishedIs
  BY DEF TextHolds
<1>4. /\ fresh \in Seq(Attempts) /\ Len(fresh) = L + 1 /\ L \in Nat
      /\ \A i \in DOMAIN fresh :
           /\ fresh[i].at = clock
           /\ fresh[i].kind = "key" =>
                /\ target # NoTarget /\ fresh[i].generation = target.generation
                /\ fresh[i].element = target.element
                /\ fresh[i].state \in {"pending", "confirmed"} => ~lost
  <2> DEFINE k == key
  <2>1. lost \in BOOLEAN /\ full \in BOOLEAN /\ k = Reserved(lost, full)
    OBVIOUS
  <2> HIDE DEF lost, full, k, L
  <2>2. /\ Append(Activity, k) \in Seq(Attempts) /\ Len(Append(Activity, k)) = Len(Activity) + 1
        /\ Len(Activity) \in Nat
    BY <2>1, KeyNumbered
  <2>3. \A i \in DOMAIN Append(Activity, k) :
           /\ Append(Activity, k)[i].at = clock
           /\ Append(Activity, k)[i].kind = "key" =>
                /\ target # NoTarget /\ Append(Activity, k)[i].generation = target.generation
                /\ Append(Activity, k)[i].element = target.element
                /\ Append(Activity, k)[i].state \in {"pending", "confirmed"} => ~lost
    BY <2>1, KeyNumbered
  <2> QED BY <2>2, <2>3 DEF k, L
<1> HIDE DEF key, fresh, L
<1>5. attempts \in Seq(Attempts) /\ channel \in Seq(1..N) /\ Len(channel) <= Capacity
  BY <1>3 DEF TextKeys
<1>6. /\ all \in Seq(Attempts) /\ Len(all) = N + L + 1 /\ N \in Nat /\ DOMAIN attempts = 1..N
      /\ DOMAIN all = 1..N + L + 1
      /\ \A s \in DOMAIN attempts : all[s] = attempts[s] /\ s \in DOMAIN all
      /\ \A s \in DOMAIN all : s \notin DOMAIN attempts => s - N \in DOMAIN fresh /\ all[s] = fresh[s - N] /\ s > N
  <2>1. Len(all) = N + Len(fresh) /\ N \in Nat /\ DOMAIN all = 1..N + Len(fresh)
    BY <1>4, <1>5, AttemptsJoined
  <2>2. N + Len(fresh) = N + L + 1
    BY <1>4, <2>1
  <2> QED BY <1>4, <1>5, <2>1, <2>2, AttemptsJoined
<1> HIDE DEF all
<1>7. /\ room \in Nat /\ sent \in Nat /\ N <= sent /\ sent <= Len(all) /\ sent - N <= room
      /\ ~lost => sent = Len(all)
  <2>1. room \in Nat
    BY <1>5, ConstantsAre
  <2> HIDE DEF room, N
  <2> QED BY <1>4, <1>6, <2>1
<1>8. /\ channel' \in Seq(1..Len(all)) /\ Len(channel') <= Capacity
      /\ Entries(channel) \subseteq Entries(channel')
      /\ \A s \in N + 1..sent : s \in Entries(channel')
  <2> DEFINE m == Len(all)
             r == sending
  <2>1. m \in Nat /\ r = [i \in 1..sent - N |-> N + i]
    BY <1>4, <1>6
  <2> HIDE DEF m, r, N, sent
  <2>2. /\ channel \o r \in Seq(1..m) /\ Len(channel \o r) = Len(channel) + (sent - N)
        /\ Entries(channel) \subseteq Entries(channel \o r)
        /\ \A s \in N + 1..sent : s \in Entries(channel \o r)
    <3>1. N \in Nat /\ sent \in Nat /\ N <= sent /\ sent <= m /\ m \in Nat /\ channel \in Seq(1..N)
      BY <1>5, <1>6, <1>7, <2>1 DEF m
    <3>2. channel \o r \in Seq(1..m)
      BY <2>1, <3>1, NumbersSent
    <3>3. Len(channel \o r) = Len(channel) + (sent - N)
      BY <2>1, <3>1, NumbersSent
    <3>4. Entries(channel) \subseteq Entries(channel \o r)
      BY <2>1, <3>1, NumbersSent
    <3>5. \A s \in N + 1..sent : s \in Entries(channel \o r)
      BY <2>1, <3>1, NumbersSent
    <3> QED BY <3>2, <3>3, <3>4, <3>5
  <2>3. channel' = channel \o r
    BY <1>1 DEF r
  <2>4. Len(channel') <= Capacity
    <3>1. Len(channel) \in Nat /\ Capacity \in Nat
      BY <1>5, ConstantsAre
    <3>2. Len(channel') = Len(channel) + (sent - N)
      BY <2>2, <2>3
    <3> QED BY <1>6, <1>7, <3>1, <3>2
  <2> QED BY <2>2, <2>3, <2>4 DEF m
<1> HIDE DEF sending, sent, room, lost, N
<1>9. Extends(attempts, all, target)
  <2>1. Len(attempts) <= Len(all)
    BY <1>4, <1>6 DEF N
  <2> QED BY <1>4, <1>6, <2>1 DEF Extends
<1>10. /\ inserted' \in Nat /\ inserted <= inserted' /\ inserted' <= MaxChars
       /\ Edited(content[focused], v, inserted, inserted')
  <2>1. inserted \in Nat /\ MaxChars \in Nat
    BY <1>3, ConstantsAre DEF TextWorld
  <2> QED BY <1>1, <2>1 DEF Edited
<1>11. TextWorld' /\ \A e \in Elements : Edited(content[e], content'[e], inserted, inserted')
  <2> HIDE DEF v
  <2> QED BY <1>1, <1>2, <1>10, WorldEdited
<1>12. TextCaptures' /\ TextsSound(emitted')
  <2>1. attempts' \in Seq(Attempts) /\ Extends(attempts, attempts', target)
    BY <1>1, <1>6, <1>9
  <2> QED BY <1>1, <1>10, <1>11, <2>1, OutsideKeeps
<1>13. PublishedIs'
  BY <1>1, <1>3 DEF PublishedIs
<1>14. KeysKnown'
  <2> SUFFICES ASSUME NEW s \in DOMAIN all, Opens(all, s), clock - all[s].at <= Window
               PROVE  s \in Entries(history) \cup Entries(channel') /\ (s > lossKnown \/ integrityLost)
    BY <1>1 DEF KeysKnown
  <2>1. CASE s \in DOMAIN attempts
    <3>1. all[s] = attempts[s]
      BY <1>6, <2>1
    <3>2. Opens(attempts, s) /\ clock - attempts[s].at <= Window
      BY <3>1 DEF Opens
    <3> QED BY <1>3, <1>8, <2>1, <3>2 DEF KeysKnown
  <2>2. CASE s \notin DOMAIN attempts
    <3>1. s - N \in DOMAIN fresh /\ all[s] = fresh[s - N] /\ s > N
      BY <1>6, <2>2
    <3>2. ~lost
      BY <1>4, <3>1 DEF Opens
    <3>3. s \in N + 1..sent
      BY <1>4, <1>6, <1>7, <3>1, <3>2
    <3>4. lossKnown \in Nat /\ lossKnown <= N
      BY <1>3 DEF TextKeys, N
    <3> QED BY <1>6, <1>8, <3>1, <3>3, <3>4
  <2> QED BY <2>1, <2>2
<1>15. TextKeys'
  <2>1. \A x \in Nat : x <= N => x <= Len(all)
    BY <1>4, <1>6
  <2>2. history \in Seq(1..Len(all))
    <3>1. history \in Seq(1..N)
      BY <1>3 DEF TextKeys, N
    <3> DEFINE m == Len(all)
    <3>2. \A x \in 1..N : x \in 1..m
      BY <1>4, <1>6
    <3> HIDE DEF m
    <3>3. history \in Seq(1..m)
      BY <3>1, <3>2, WiderSeq
    <3> QED BY <3>3 DEF m
  <2>3. press \in Presses
    <3>1. published.version \in Nat /\ secureInput \in BOOLEAN /\ Len(all) \in Nat
      BY <1>3, <1>4, <1>6 DEF PublishedIs, TextWorld
    <3>2. (IF key.state = "pending" THEN Len(all) ELSE 0) \in Nat
      BY <3>1
    <3> DEFINE x == IF key.state = "pending" THEN Len(all) ELSE 0
    <3> HIDE DEF x
    <3>3. [version |-> published.version, secure |-> secureInput, authorization |-> x] \in Presses
      BY <3>1, <3>2 DEF Presses, x
    <3> QED BY <3>3 DEF x
  <2>4. tapQueue \in Seq(Presses) /\ Len(tapQueue) <= EventCapacity /\ EventCapacity \in Nat
    BY <1>3, ConstantsAre DEF TextKeys
  <2>5. tapQueue' \in Seq(Presses) /\ Len(tapQueue') <= EventCapacity
    <3> HIDE DEF press
    <3>1. CASE full
      BY <1>1, <2>4, <3>1
    <3>2. CASE ~full
      <4>1. tapQueue' = Append(tapQueue, press)
        BY <1>1, <3>2
      <4>2. tapQueue' \in Seq(Presses) /\ Len(tapQueue') = Len(tapQueue) + 1 /\ Len(tapQueue) \in Nat
        BY <2>3, <2>4, <4>1
      <4> QED BY <2>4, <3>2, <4>2
    <3> QED BY <3>1, <3>2
  <2>6. received \in Nat /\ received <= N /\ lossKnown \in Nat /\ lossKnown <= N
        /\ restartedAt \in Nat /\ restartedAt <= N
    BY <1>3 DEF TextKeys, N
  <2>7. received' <= Len(all) /\ lossKnown' <= Len(all) /\ restartedAt' <= Len(all)
        /\ received' \in Nat /\ lossKnown' \in Nat /\ restartedAt' \in Nat
    BY <1>1, <2>1, <2>6
  <2>8. integrityLost' \in BOOLEAN /\ lossPending' \in BOOLEAN /\ Len(history') <= Capacity
        /\ history' \in Seq(1..Len(all))
    BY <1>1, <1>3, <2>2 DEF TextKeys
  <2>9. attempts' = all
    BY <1>1
  <2> QED BY <1>6, <1>8, <2>5, <2>7, <2>8, <2>9 DEF TextKeys
<1> QED BY <1>11, <1>12, <1>13, <1>14, <1>15 DEF TextHolds

\* The moves of the world.
LEMMA TickHolds == ASSUME TextHolds, Tick PROVE TextHolds' /\ TextsSound(emitted')
<1>1. /\ clock < MaxTime /\ clock' = clock + 1 /\ Outside
      /\ UNCHANGED <<content, inserted, focused, secureInput, ruling>>
  BY DEF Tick
<1>2. TextWorld
  BY DEF TextHolds
<1>3. clock' \in 0..MaxTime /\ clock <= clock'
  BY <1>1, <1>2, ConstantsAre DEF TextWorld
<1>4. TextWorld'
  BY <1>1, <1>2, <1>3 DEF TextWorld
<1>5. inserted <= inserted' /\ \A e \in Elements : Edited(content[e], content'[e], inserted, inserted')
  BY <1>1, NoneNew
<1> QED BY <1>1, <1>3, <1>4, <1>5, OutsideHolds

LEMMA ProgramEditsHolds == ASSUME TextHolds, ProgramEdits PROVE TextHolds' /\ TextsSound(emitted')
<1>1. /\ Outside /\ UNCHANGED <<clock, focused, secureInput, ruling>>
      /\ inserted' = IF content'[focused] = <<>> THEN inserted ELSE inserted + 1
  BY DEF ProgramEdits
<1>2. PICK v \in {<<>>} \cup (IF inserted < MaxChars THEN {Append(content[focused], inserted + 1)} ELSE {}) :
        content' = [content EXCEPT ![focused] = v]
  BY DEF ProgramEdits
<1>3. TextWorld
  BY DEF TextHolds
<1>4. inserted \in Nat /\ MaxChars \in Nat /\ inserted <= MaxChars /\ clock \in Nat
  BY <1>3, ConstantsAre DEF TextWorld
<1>5. content'[focused] = v
  BY <1>2, <1>3 DEF TextWorld
<1>6. /\ inserted' \in Nat /\ inserted <= inserted' /\ inserted' <= MaxChars
      /\ Edited(content[focused], v, inserted, inserted')
  <2>1. CASE v = <<>>
    BY <1>1, <1>4, <1>5, <2>1 DEF Edited
  <2>2. CASE v # <<>>
    <3>1. inserted < MaxChars /\ v = Append(content[focused], inserted + 1)
      BY <1>2, <2>2
    <3>2. inserted' = inserted + 1
      BY <1>1, <1>5, <2>2
    <3> QED BY <1>4, <3>1, <3>2 DEF Edited
  <2> QED BY <2>1, <2>2
<1>7. TextWorld' /\ \A e \in Elements : Edited(content[e], content'[e], inserted, inserted')
  BY <1>1, <1>2, <1>6, WorldEdited
<1>8. clock <= clock'
  BY <1>1, <1>4
<1> QED BY <1>1, <1>6, <1>7, <1>8, OutsideHolds

\* The focus, the protection and the ruling change nothing the worker has.
LEMMA MovesHold ==
  ASSUME TextHolds, Outside, UNCHANGED <<clock, content, inserted>>, focused' \in Elements,
         secureInput' \in BOOLEAN, ruling' \in Rulings
  PROVE  TextHolds' /\ TextsSound(emitted')
<1>1. TextWorld' /\ clock \in Nat
  BY ConstantsAre DEF TextHolds, TextWorld
<1>2. inserted <= inserted' /\ \A e \in Elements : Edited(content[e], content'[e], inserted, inserted')
  BY NoneNew
<1>3. clock <= clock'
  BY <1>1
<1> QED BY <1>1, <1>2, <1>3, OutsideHolds

LEMMA OthersMove ==
  ASSUME TextHolds, UserMoves \/ ProtectionChanges \/ RulingChanges
  PROVE  TextHolds' /\ TextsSound(emitted')
<1>1. focused \in Elements /\ secureInput \in BOOLEAN /\ ruling \in Rulings
  BY DEF TextHolds, TextWorld
<1>2. Outside /\ UNCHANGED <<clock, content, inserted>>
  BY DEF UserMoves, ProtectionChanges, RulingChanges
<1>3. focused' \in Elements /\ secureInput' \in BOOLEAN /\ ruling' \in Rulings
  BY <1>1 DEF UserMoves, ProtectionChanges, RulingChanges
<1> QED BY <1>2, <1>3, MovesHold

\* The worker's handlers of notifications and input.
LEMMA NotifiedHolds ==
  ASSUME TextHolds, NEW at, NEW readable \in BOOLEAN, ValueChanged(at, readable) \/ FocusChanged(at, readable)
  PROVE  TextHolds' /\ TextsSound(emitted')
<1>1. at \in Nat /\ at <= clock
  <2>1. at \in {clock - 1, clock} \cap Nat /\ clock \in Nat
    BY HandlerBegins DEF ValueChanged, FocusChanged
  <2> QED BY <2>1
<1>2. CASE ValueChanged(at, readable)
  <2>1. target # NoTarget /\ ReadValue(at, FALSE, readable) /\ UNCHANGED <<generation, retired>>
    BY <1>2 DEF ValueChanged
  <2>2. Unaffected
    BY <2>1 DEF ReadValue
  <2> QED BY <1>1, <2>1, <2>2, ReadValueHolds
<1>3. CASE FocusChanged(at, readable)
  <2>1. InstallTarget(at, readable) /\ Unaffected
    BY <1>3 DEF FocusChanged
  <2> QED BY <1>1, <2>1, InstallTargetHolds
<1> QED BY <1>2, <1>3

LEMMA PullHolds == ASSUME TextHolds, Pull PROVE TextHolds' /\ TextsSound(emitted')
<1>1. clock \in Nat /\ clock <= clock
  BY HandlerBegins
<1>2. Unaffected
  BY DEF Pull
<1>3. CASE ~Same
  <2>1. InstallTarget(clock, TRUE)
    BY <1>3 DEF Pull
  <2> QED BY <1>1, <1>2, <2>1, InstallTargetHolds
<1>4. CASE Same /\ target.notifies
  <2>1. Close(Received) /\ UNCHANGED <<target, generation, retired, published, withheld>>
    BY <1>4 DEF Pull
  <2> QED BY <1>2, <2>1, PollHolds
<1>5. CASE Same /\ ~target.notifies
  <2>1. ReadValue(clock, TRUE, TRUE) /\ UNCHANGED <<generation, retired>> /\ target # NoTarget
    BY <1>5 DEF Pull, Same
  <2> QED BY <1>1, <1>2, <2>1, ReadValueHolds
<1> QED BY <1>3, <1>4, <1>5

LEMMA TextStep == ASSUME TextHolds, TypedNext PROVE TextHolds' /\ TextsSound(emitted')
<1>1. CASE KeyDown \/ StoreIntegrityLost
  BY <1>1, KeyDownHolds, StoreIntegrityLostHolds
<1>2. CASE \E sent \in BOOLEAN : HandleKey(sent)
  BY <1>2, HandleKeyHolds
<1>3. CASE Poll
  <2>1. Close(Received) /\ Unaffected /\ UNCHANGED <<target, generation, retired, published, withheld>>
    BY <1>3 DEF Poll
  <2> QED BY <2>1, PollHolds
<1>4. CASE \E at \in 0..clock, readable \in BOOLEAN : ValueChanged(at, readable) \/ FocusChanged(at, readable)
  BY <1>4, NotifiedHolds
<1>5. CASE Pull \/ FocusReadFailed \/ TakeDueFocused \/ TakeDueRetired \/ Restart
  BY <1>5, PullHolds, FocusReadFailedHolds, TakeDueFocusedHolds, TakeDueRetiredHolds, RestartHolds
<1>6. CASE Tick \/ ProgramEdits \/ UserMoves \/ ProtectionChanges \/ RulingChanges
  BY <1>6, TickHolds, ProgramEditsHolds, OthersMove
<1> QED BY <1>1, <1>2, <1>3, <1>4, <1>5, <1>6 DEF TypedNext

LEMMA TextStutters == ASSUME TextHolds, UNCHANGED typedVars PROVE TextHolds' /\ TextsSound(emitted')
<1>1. UNCHANGED <<clock, content, inserted, focused, secureInput, ruling, attempts, channel, integrityLost,
                  lossPending, tapQueue, received, history, target, generation, retired, published,
                  emitted, withheld, lossKnown, restartedAt>>
  BY DEF typedVars
<1>2. Outside \/ UNCHANGED <<clock, content, inserted, focused, secureInput, ruling>>
  BY <1>1
<1>3. TextWorld' /\ TextKeys' /\ KeysKnown' /\ PublishedIs'
  BY <1>1 DEF TextHolds, TextWorld, TextKeys, KeysKnown, PublishedIs
<1>4. TextCaptures'
  BY <1>1 DEF TextHolds, TextCaptures
<1>5. TextsSound(emitted')
  BY <1>1 DEF TextsSound
<1> QED BY <1>3, <1>4, <1>5 DEF TextHolds

LEMMA TextStarts == TypedInit => TextHolds
<1> SUFFICES ASSUME TypedInit PROVE TextHolds
  OBVIOUS
<1> DEFINE fresh == Fresh(1)
<1>1. /\ clock = 0 /\ content = [e \in Elements |-> <<>>] /\ inserted = 0
      /\ focused \in Elements /\ secureInput = FALSE /\ ruling \in Rulings /\ ruling \notin Denied
      /\ attempts = <<>> /\ channel = <<>> /\ integrityLost = FALSE
      /\ lossPending = FALSE /\ lossKnown = 0 /\ tapQueue = <<>>
      /\ received = 0 /\ history = <<>> /\ generation = 1 /\ retired = <<>>
      /\ published = [generation |-> 1, text |-> TRUE, version |-> 1, element |-> focused]
      /\ emitted = <<>> /\ withheld = {} /\ restartedAt = 0
  BY DEF TypedInit
<1>2. target = fresh
  <2>1. FieldValue(focused) = <<>>
    BY <1>1 DEF FieldValue
  <2>2. <<>> # Unread
    BY DEF Unread
  <2>3. fresh = [generation |-> 1, element |-> focused, text |-> TRUE, baseline |-> <<>>,
                 rebaseline |-> FALSE, pending |-> NoPending, notifies |-> FALSE]
    BY <1>1, <2>1, <2>2 DEF Fresh
  <2> QED BY <2>3 DEF TypedInit
<1>3. TextWorld
  <2>1. \A e \in Elements : content[e] = <<>>
    BY <1>1
  <2>2. content \in [Elements -> Seq(1..inserted)]
    BY <1>1
  <2>3. \A e \in Elements : Unrepeated(content[e])
    BY <2>1 DEF Unrepeated
  <2>4. clock \in 0..MaxTime /\ inserted \in Nat /\ inserted <= MaxChars
    BY <1>1, ConstantsAre
  <2>5. focused \in Elements /\ secureInput \in BOOLEAN /\ ruling \in Rulings
    BY <1>1
  <2> QED BY <2>2, <2>3, <2>4, <2>5 DEF TextWorld
<1>4. TextKeys
  <2>1. /\ attempts \in Seq(Attempts) /\ channel \in Seq(1..Len(attempts)) /\ tapQueue \in Seq(Presses)
        /\ history \in Seq(1..Len(attempts))
    BY <1>1
  <2>2. /\ Len(channel) = 0 /\ Len(history) = 0 /\ Len(tapQueue) = 0 /\ Len(attempts) = 0
        /\ 0 <= Capacity /\ 0 <= EventCapacity
    BY <1>1, ConstantsAre
  <2>3. /\ Len(channel) <= Capacity /\ Len(history) <= Capacity /\ Len(tapQueue) <= EventCapacity
        /\ received <= Len(attempts) /\ lossKnown <= Len(attempts) /\ restartedAt <= Len(attempts)
        /\ received \in Nat /\ lossKnown \in Nat /\ restartedAt \in Nat
    BY <1>1, <2>2
  <2>4. integrityLost \in BOOLEAN /\ lossPending \in BOOLEAN
    BY <1>1
  <2> QED BY <2>1, <2>3, <2>4 DEF TextKeys
<1>5. KeysKnown
  BY <1>1 DEF KeysKnown
<1>6. /\ Carries(fresh, inserted, content[focused], {}, withheld, attempts, restartedAt)
      /\ fresh.generation = 1 /\ fresh.element = focused
  <2>1. \A s \in DOMAIN attempts : s > restartedAt /\ attempts[s].kind = "key" => attempts[s].generation # 1
    BY <1>1
  <2> QED BY <1>3, <2>1, FreshCarries
<1> HIDE DEF fresh
<1>7. target # NoTarget
  <2>1. fresh.generation # NoTarget.generation
    BY <1>6 DEF NoTarget
  <2> QED BY <1>2, <2>1
<1>8. PublishedIs
  <2>1. published.generation = 1 /\ published.element = focused
    BY <1>1
  <2>2. published \in [generation : Nat, text : BOOLEAN, version : Nat, element : Elements \cup {0}]
    BY <1>1
  <2> QED BY <1>2, <1>6, <1>7, <2>1, <2>2 DEF PublishedIs
<1>9. Written(emitted, inserted) /\ Spelled(emitted) = {} /\ UnspelledBefore(retired, Len(retired) + 1) = {}
  <2>1. emitted = <<>> /\ retired = <<>>
    BY <1>1
  <2>2. Spelled(emitted) = {} /\ UnspelledBefore(retired, Len(retired) + 1) = {}
    BY <2>1 DEF Spelled, UnspelledBefore
  <2> QED BY <2>1, <2>2 DEF Written, Once
<1>10. /\ Numbered(attempts, restartedAt, generation) /\ Bounded(withheld, generation, inserted)
       /\ Behind(attempts, restartedAt, inserted, generation, retired, emitted, withheld)
  BY <1>1 DEF Numbered, Bounded, Behind
<1>11. InFocus(attempts, restartedAt, inserted, generation, target, content[target.element], retired,
             emitted, withheld)
  <2>1. Spelled(emitted) \cup UnspelledBefore(retired, Len(retired) + 1) = {}
    BY <1>9
  <2>2. target.generation = generation /\ target.element = focused
    BY <1>1, <1>2, <1>6
  <2> QED BY <1>2, <1>6, <2>1, <2>2 DEF InFocus
<1>12. TextCaptures
  BY <1>1, <1>9, <1>10, <1>11 DEF TextCaptures
<1> QED BY <1>3, <1>4, <1>5, <1>8, <1>12 DEF TextHolds

LEMMA TextSafe == TextHolds => TypedTypeOK /\ TypedOnce
<1> SUFFICES ASSUME TextHolds PROVE TypedTypeOK /\ TypedOnce
  OBVIOUS
<1>1. TextWorld /\ TextKeys /\ TextCaptures
  BY DEF TextHolds
<1>2. TypedOnce
  BY <1>1 DEF TextCaptures, Written, Once, TypedOnce
<1>3. content \in [Elements -> Seq(1..MaxChars)]
  <2>1. inserted \in Nat /\ MaxChars \in Nat /\ inserted <= MaxChars
    BY <1>1, ConstantsAre DEF TextWorld
  <2>2. \A x \in 1..inserted : x \in 1..MaxChars
    BY <2>1
  <2>3. content \in [Elements -> Seq(1..inserted)]
    BY <1>1 DEF TextWorld
  <2>4. \A e \in Elements : content[e] \in Seq(1..MaxChars)
    BY <2>2, <2>3, WiderSeq
  <2> QED BY <2>3, <2>4
<1>4. \A a \in Entries(attempts) : a.state \in {"none", "pending", "confirmed", "rejected", "invalidated"}
  <2>1. Entries(attempts) \subseteq Attempts
    BY <1>1, EntriesIn DEF TextKeys
  <2>2. \A a \in Attempts : a.state \in AttemptStates
    BY DEF Attempts
  <2> QED BY <2>1, <2>2 DEF AttemptStates
<1>5. Entries(channel) \cup Entries(history) \subseteq 1..Len(attempts)
  <2> DEFINE m == Len(attempts)
  <2>1. channel \in Seq(1..m) /\ history \in Seq(1..m)
    BY <1>1 DEF TextKeys
  <2> HIDE DEF m
  <2>2. Entries(channel) \subseteq 1..m
    BY <2>1, EntriesIn
  <2>3. Entries(history) \subseteq 1..m
    BY <2>1, EntriesIn
  <2> QED BY <2>2, <2>3 DEF m
<1>6. target = NoTarget \/ target.generation = generation
  BY <1>1 DEF TextCaptures, InFocus
<1>7. \A c \in Entries(retired) : c.generation < generation
  <2>1. Behind(attempts, restartedAt, inserted, generation, retired, emitted, withheld)
    BY <1>1 DEF TextCaptures
  <2>2. \A i \in DOMAIN retired : retired[i].generation < generation
    BY <2>1 DEF Behind
  <2> QED BY <2>2 DEF Entries
<1>8. TypedTypeOK
  <2>1. /\ clock \in 0..MaxTime /\ focused \in Elements /\ ruling \in Rulings
        /\ Len(channel) <= Capacity /\ Len(history) <= Capacity /\ Len(tapQueue) <= EventCapacity
        /\ received <= Len(attempts)
    BY <1>1 DEF TextWorld, TextKeys
  <2> QED BY <1>3, <1>4, <1>5, <1>6, <1>7, <2>1 DEF TypedTypeOK
<1> QED BY <1>2, <1>8

\* Every text recorded as typed rests on confirmed keys that no known loss voids, aimed at
\* its field or older than the last restart; nothing withheld is recorded, and no character
\* twice: TypedText's part of TextStaysGated, for all fields, capacities and times.
THEOREM TextIsGated == CaptureSpec => TextStaysGated
<1> DEFINE Typed == part = "typed" => TextHolds
           Gated == part = "typed" => GapVoids /\ WithheldStaysOut /\ TextFollowsTyping
<1>1. CaptureInit => Typed
  BY TextStarts DEF CaptureInit
<1>2. Typed /\ [CaptureNext]_captureVars => Typed' /\ Gated
  <2>1. ASSUME Typed, CaptureNext PROVE Typed' /\ Gated
    <3>1. part' = part /\ (part = "typed" => TypedNext)
      BY <2>1 DEF CaptureNext
    <3> QED BY <2>1, <3>1, TextStep, TextsAsTold
  <2>2. ASSUME Typed, UNCHANGED captureVars PROVE Typed' /\ Gated
    <3>1. part' = part /\ UNCHANGED typedVars
      BY <2>2 DEF captureVars
    <3> QED BY <2>2, <3>1, TextStutters, TextsAsTold
  <2> QED BY <2>1, <2>2
<1>3. Typed => (part = "typed" => TypedTypeOK /\ TypedOnce)
  BY TextSafe
<1>4. Typed /\ [CaptureNext]_captureVars =>
        [part = "typed" => GapVoids /\ WithheldStaysOut /\ TextFollowsTyping]_captureVars
  BY <1>2
<1> HIDE DEF Typed
<1> QED BY <1>1, <1>2, <1>3, <1>4, PTL DEF CaptureSpec, TextStaysGated
=============================================================================
