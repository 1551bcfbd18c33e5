-------------------------- MODULE SupervisorProofs --------------------------
(***************************************************************************)
(* Proofs about Supervisor for any collectors, channels, delays and        *)
(* failures: types, EventsAccounted, EventsInOrder and RestartsPaced.      *)
(***************************************************************************)
EXTENDS Supervisor, FiniteSetTheorems, TLAPS

\* What TypeOK says of the record of one collector.
Restarts == [timer : None .. Longest, index : 0 .. Len(Delays), asked : BOOLEAN, reason : BOOLEAN]
Fits(r) ==
  /\ Len(r.chan) <= ChannelSize /\ Len(r.held) <= 1
  /\ r.relay = "send" => r.held # <<>>
  /\ r.running <=> r.relay # "none" /\ r.worker # "none"
Good == {r \in Managed : Fits(r)}

\* Between a relay's end and its being joined nothing is left in its hands,
\* unless the pipeline has ended; a collector that does not run has no relay,
\* except the one the main thread waits for.
Relaying ==
  \A c \in Collectors :
    /\ m[c].relay \notin Exits => m[c].report = 0
    /\ m[c].relay \in {"none", "source_closed", "stopped"} => m[c].chan = <<>> /\ m[c].held = <<>>
    /\ m[c].relay = "pipeline_closed" => ~pipelineUp
    /\ m[c].relay = "none" => m[c].worker = "none"
    /\ m[c].relay # "none" /\ ~m[c].running => joining /\ c = Head(remaining)

\* No event has a number that was not given out yet.
Numbered == \A c \in Collectors : Line(c) \subseteq 0 .. produced[c]

\* The inductive invariant.
SupervisorInv == TypeOK /\ Relaying /\ Numbered /\ EventsAccounted /\ EventsInOrder

-----------------------------------------------------------------------------
(* Types.                                                                  *)

LEMMA DelayTypes ==
  /\ Len(Delays) \in Nat \ {0} /\ Longest \in Nat \ {0}
  /\ \A i \in 1 .. Len(Delays) : Delays[i] \in 1 .. Longest
BY DelaysAssumption DEF DelaysAssumption, Longest

LEMMA ScheduleTypes ==
  ASSUME NEW r \in Restarts, NEW allowed \in BOOLEAN
  PROVE  Schedule(r, allowed) \in Restarts /\ Started(r) \in Restarts
<1> DEFINE next == Capped(r.index + 1, Len(Delays))
<1>1. r.index + 1 \in Nat /\ r.index + 1 > 0
  BY DelayTypes DEF Restarts
<1>2. Len(Delays) \in Nat /\ Len(Delays) > 0
  BY DelayTypes
<1>3. next \in 1 .. Len(Delays)
  BY <1>1, <1>2 DEF Capped
<1>4. Delays[next] \in 1 .. Longest
  BY <1>3, DelayTypes
<1> HIDE DEF next
<1>5. next \in 0 .. Len(Delays) /\ Delays[next] \in None .. Longest /\ None \in None .. Longest
  BY <1>2, <1>3, <1>4, DelayTypes DEF None
<1>6. [r EXCEPT !.timer = Delays[next], !.index = next, !.asked = FALSE] \in Restarts
  BY <1>5 DEF Restarts
<1>7. [r EXCEPT !.timer = None, !.asked = TRUE] \in Restarts /\ Started(r) \in Restarts
  BY <1>5 DEF Restarts, Started
<1>8. Schedule(r, allowed) = IF allowed
        THEN [r EXCEPT !.timer = Delays[next], !.index = next, !.asked = FALSE]
        ELSE [r EXCEPT !.timer = None, !.asked = TRUE]
  BY DEF Schedule, next
<1>9. QED
  BY <1>6, <1>7, <1>8

LEMMA GoodIs == TypeOK => m \in [Collectors -> Good]
BY DEF TypeOK, Good, Fits

LEMMA GoodFields ==
  ASSUME NEW r \in Good
  PROVE  /\ r.restart \in Restarts /\ r.chan \in Seq(Nat) /\ r.held \in Seq(Nat)
         /\ r.report \in 0 .. ChannelSize + 1 /\ r.age \in None .. StableAfter
         /\ r.relay \in Relays /\ r.running \in BOOLEAN /\ Fits(r)
BY DEF Good, Managed, Restarts

LEMMA IdleTypes == Idle \in Good
<1>1. RestartNew \in Restarts
  BY DelayTypes DEF RestartNew, Restarts, None
<1>2. 0 \in 0 .. ChannelSize + 1 /\ None \in None .. StableAfter
  BY SizesAssumption, DelaysAssumption DEF SizesAssumption, DelaysAssumption, None
<1>3. <<>> \in Seq(Nat) /\ Len(<<>>) = 0 /\ 0 <= ChannelSize
  BY SizesAssumption DEF SizesAssumption
<1>4. Idle \in Managed
  BY <1>1, <1>2, <1>3 DEF Idle, Managed, Restarts, Relays
<1>5. Fits(Idle)
  BY <1>3 DEF Idle, Fits
<1>6. QED
  BY <1>4, <1>5 DEF Good

LEMMA StartTypes ==
  ASSUME NEW r \in Good, NEW ok \in BOOLEAN, NEW allowed \in BOOLEAN
  PROVE  StartManaged(r, ok, allowed) \in Good
<1>1. Started(r.restart) \in Restarts /\ Schedule(r.restart, allowed) \in Restarts
  BY GoodFields, ScheduleTypes
<1>2. 0 \in None .. StableAfter /\ 0 \in 0 .. ChannelSize + 1
  BY SizesAssumption, DelaysAssumption DEF SizesAssumption, DelaysAssumption, None
<1>3. CASE r.running
  BY <1>3 DEF StartManaged
<1>4. CASE ~r.running /\ ok
  <2> DEFINE s == [r EXCEPT !.running = TRUE, !.worker = "alive", !.relay = "wait",
                            !.flag = FALSE, !.report = 0, !.age = 0,
                            !.restart = Started(r.restart)]
  <2>1. s \in Managed
    BY <1>1, <1>2 DEF Good, Managed, Restarts, Relays
  <2>2. Fits(s)
    BY DEF Good, Managed, Fits
  <2>3. QED
    BY <1>4, <2>1, <2>2 DEF StartManaged, Good
<1>5. CASE ~r.running /\ ~ok
  <2> DEFINE s == [r EXCEPT !.restart = Schedule(r.restart, allowed)]
  <2>1. s \in Managed
    BY <1>1 DEF Good, Managed, Restarts
  <2>2. Fits(s)
    BY DEF Good, Managed, Fits
  <2>3. QED
    BY <1>5, <2>1, <2>2 DEF StartManaged, Good
<1>6. QED
  BY <1>3, <1>4, <1>5

LEMMA ExitedTypes ==
  ASSUME NEW r \in Good, NEW allowed \in BOOLEAN
  PROVE  /\ Exited(r, allowed) \in Good /\ ~Exited(r, allowed).running
         /\ Exited(r, allowed).relay = "none" /\ Exited(r, allowed).worker = "none"
         /\ Exited(r, allowed).chan = <<>> /\ Exited(r, allowed).held = <<>>
         /\ Exited(r, allowed).report = 0
<1> DEFINE s == Schedule(r.restart, allowed)
<1>1. s \in Restarts
  BY GoodFields, ScheduleTypes
<1>2. [s EXCEPT !.reason = TRUE] \in Restarts
  BY <1>1 DEF Restarts
<1> HIDE DEF s
<1>3. Exited(r, allowed) = [Idle EXCEPT !.restart = [s EXCEPT !.reason = TRUE]]
  BY DEF Exited, s
<1>4. Exited(r, allowed) \in Managed
  BY <1>2, <1>3, IdleTypes DEF Good, Managed, Restarts
<1>5. QED
  BY <1>3, <1>4, IdleTypes DEF Good, Fits, Idle, Managed

LEMMA StableTypes ==
  ASSUME NEW r \in Good
  PROVE  /\ Stable(r) \in Good /\ Stable(r).chan = r.chan /\ Stable(r).held = r.held
         /\ Stable(r).report = r.report /\ Stable(r).relay = r.relay
         /\ Stable(r).worker = r.worker /\ Stable(r).running = r.running
<1>1. RestartNew \in Restarts /\ None \in None .. StableAfter
  BY DelayTypes, DelaysAssumption DEF DelaysAssumption, RestartNew, Restarts, None
<1> DEFINE s == [r EXCEPT !.restart = RestartNew, !.age = None]
<1>2. s \in Managed /\ Fits(s)
  BY <1>1 DEF Good, Managed, Restarts, Fits
<1>3. QED
  BY <1>2 DEF Stable, Good, Managed
-----------------------------------------------------------------------------
(* Sequences: what they hold, that they rise, how long they are.           *)

LEMMA RangeEmpty == Range(<<>>) = {} /\ Rising(<<>>)
BY DEF Range, Rising

LEMMA RangeSingle ==
  ASSUME NEW s \in Seq(Nat), Len(s) = 1
  PROVE  Range(s) = {Head(s)} /\ s = <<Head(s)>> /\ Head(s) \in Nat
<1>1. DOMAIN s = {1}
  <2>1. DOMAIN s = 1 .. Len(s)
    OBVIOUS
  <2>2. 1 .. 1 = {1}
    OBVIOUS
  <2>3. QED
    BY <2>1, <2>2
<1>2. Range(s) = {s[1]}
  BY <1>1 DEF Range
<1>3. s = <<s[1]>>
  BY SMTT(30)
<1>4. s[1] \in Nat /\ Head(<<s[1]>>) = s[1]
  BY <1>1, SMTT(30)
<1>5. QED
  BY <1>2, <1>3, <1>4

LEMMA RangeOf ==
  ASSUME NEW s \in Seq(Nat)
  PROVE  Range(s) \subseteq Nat /\ (s = <<>> <=> Len(s) = 0)
BY DEF Range

LEMMA RisingAppend ==
  ASSUME NEW s \in Seq(Nat), NEW x \in Nat
  PROVE  /\ Range(Append(s, x)) = Range(s) \union {x}
         /\ Rising(s) /\ Below(Range(s), {x}) => Rising(Append(s, x))
<1> DEFINE t == Append(s, x)
<1>1. t \in Seq(Nat) /\ Len(t) = Len(s) + 1 /\ t[Len(s) + 1] = x
      /\ \A i \in 1 .. Len(s) : t[i] = s[i]
  OBVIOUS
<1>2. DOMAIN t = 1 .. Len(s) + 1 /\ DOMAIN s = 1 .. Len(s) /\ Len(s) \in Nat
  BY <1>1
<1>3. \A i \in 1 .. Len(s) + 1 : i \in 1 .. Len(s) \/ i = Len(s) + 1
  BY <1>2
<1> HIDE DEF t
<1>4. Range(t) = Range(s) \union {x}
  BY <1>1, <1>2, <1>3 DEF Range
<1>5. ASSUME Rising(s), Below(Range(s), {x}), NEW i \in 1 .. Len(t), NEW j \in 1 .. Len(t), i < j
      PROVE  t[i] < t[j]
  <2>1. i \in 1 .. Len(s) /\ t[i] = s[i]
    BY <1>1, <1>2, <1>5
  <2>2. CASE j \in 1 .. Len(s)
    BY <1>1, <1>5, <2>1, <2>2 DEF Rising
  <2>3. CASE j = Len(s) + 1
    BY <1>1, <1>2, <1>5, <2>1, <2>3 DEF Below, Range
  <2>4. QED
    BY <1>1, <1>3, <2>2, <2>3
<1>6. QED
  BY <1>4, <1>5 DEF t, Rising

LEMMA RisingTail ==
  ASSUME NEW s \in Seq(Nat), s # <<>>, Rising(s)
  PROVE  /\ Tail(s) \in Seq(Nat) /\ Head(s) \in Nat /\ Len(Tail(s)) = Len(s) - 1
         /\ Range(s) = {Head(s)} \union Range(Tail(s))
         /\ Rising(Tail(s)) /\ Below({Head(s)}, Range(Tail(s)))
<1> DEFINE t == Tail(s)
<1>1. t \in Seq(Nat) /\ Head(s) = s[1] /\ Len(s) \in Nat \ {0} /\ Len(t) = Len(s) - 1
      /\ s[1] \in Nat /\ \A i \in 1 .. Len(t) : t[i] = s[i + 1]
  OBVIOUS
<1>2. DOMAIN t = 1 .. Len(s) - 1 /\ DOMAIN s = 1 .. Len(s)
  BY <1>1
<1>3. /\ \A i \in 1 .. Len(s) : i = 1 \/ (i - 1 \in 1 .. Len(s) - 1 /\ s[i] = t[i - 1])
      /\ \A i \in 1 .. Len(s) - 1 : i + 1 \in 1 .. Len(s) /\ 1 < i + 1 /\ t[i] = s[i + 1]
      /\ 1 \in 1 .. Len(s)
  BY <1>1
<1> HIDE DEF t
<1>4. Range(s) = {s[1]} \union Range(t)
  <2>1. ASSUME NEW y \in Range(s)
        PROVE  y \in {s[1]} \union Range(t)
    <3>1. PICK i \in 1 .. Len(s) : y = s[i]
      BY <1>2 DEF Range
    <3>2. QED
      BY <1>2, <1>3, <3>1 DEF Range
  <2>2. ASSUME NEW y \in {s[1]} \union Range(t)
        PROVE  y \in Range(s)
    <3>1. CASE y = s[1]
      BY <1>2, <1>3, <3>1 DEF Range
    <3>2. CASE y \in Range(t)
      <4>1. PICK i \in 1 .. Len(s) - 1 : y = t[i]
        BY <1>2, <3>2 DEF Range
      <4>2. QED
        BY <1>2, <1>3, <4>1 DEF Range
    <3>3. QED
      BY <2>2, <3>1, <3>2
  <2>3. QED
    BY <2>1, <2>2
<1>5. \A i, j \in 1 .. Len(t) : i < j => t[i] < t[j]
  BY <1>1, <1>3 DEF Rising
<1>6. \A y \in Range(t) : s[1] < y
  BY <1>1, <1>2, <1>3 DEF Range, Rising
<1>7. QED
  BY <1>1, <1>4, <1>5, <1>6 DEF t, Rising, Below

\* A rising sequence repeats nothing.
LEMMA RisingCounts ==
  ASSUME NEW s \in Seq(Nat), Rising(s)
  PROVE  IsFiniteSet(Range(s)) /\ Cardinality(Range(s)) = Len(s)
<1>1. Len(s) \in Nat /\ DOMAIN s = 1 .. Len(s)
  OBVIOUS
<1>2. s \in [1 .. Len(s) -> Range(s)]
  BY <1>1 DEF Range
<1>3. \A i, j \in 1 .. Len(s) : s[i] = s[j] => i = j
  <2> SUFFICES ASSUME NEW i \in 1 .. Len(s), NEW j \in 1 .. Len(s), i # j
               PROVE  s[i] # s[j]
    OBVIOUS
  <2>1. s[i] \in Nat /\ s[j] \in Nat
    BY <1>1
  <2>2. i < j \/ j < i
    BY <1>1
  <2>3. QED
    BY <2>1, <2>2 DEF Rising
<1>4. \A y \in Range(s) : \E i \in 1 .. Len(s) : s[i] = y
  BY <1>1 DEF Range
<1>5. s \in Bijection(1 .. Len(s), Range(s))
  <2> DEFINE D == 1 .. Len(s)
             R == Range(s)
  <2>1. s \in [D -> R] /\ (\A i, j \in D : s[i] = s[j] => i = j)
        /\ (\A y \in R : \E i \in D : s[i] = y)
    BY <1>2, <1>3, <1>4
  <2> HIDE DEF D, R
  <2>2. s \in Injection(D, R)
    BY <2>1 DEF Injection, IsInjective
  <2>3. s \in Surjection(D, R)
    BY <2>1 DEF Surjection
  <2>4. QED
    BY <2>2, <2>3 DEF Bijection, D, R
<1>6. IsFiniteSet(1 .. Len(s)) /\ Cardinality(1 .. Len(s)) = Len(s)
  <2> DEFINE n == Len(s)
  <2>1. n \in Int /\ 1 \in Int /\ (IF 1 > n THEN 0 ELSE n - 1 + 1) = n
    BY <1>1
  <2> HIDE DEF n
  <2>2. QED
    BY <2>1, FS_Interval DEF n
<1>7. QED
  BY <1>5, <1>6, FS_Bijection DEF ExistsBijection

\* Two sets of numbers one of which is below the other have nothing in common.
LEMMA BelowApart ==
  ASSUME NEW S \in SUBSET Nat, NEW T \in SUBSET Nat, Below(S, T)
  PROVE  S \intersect T = {}
BY DEF Below

-----------------------------------------------------------------------------
(* The pipeline's queue, which the collectors share.                       *)

QueueRises(c) == \A i, j \in Mine(c) : i < j => queue[i][2] < queue[j][2]

LEMMA QueuedNumbers ==
  ASSUME TypeOK, NEW c \in Collectors
  PROVE  Queued(c) \in SUBSET Nat
<1>1. \A i \in 1 .. Len(queue) : queue[i] \in Collectors \X Nat
  BY DEF TypeOK
<1>2. QED
  BY <1>1 DEF Queued, Mine

LEMMA QueueAppends ==
  ASSUME TypeOK, NEW d \in Collectors, NEW x \in Nat, queue' = Append(queue, <<d, x>>),
         NEW c \in Collectors
  PROVE  /\ Queued(c)' = IF c = d THEN Queued(c) \union {x} ELSE Queued(c)
         /\ QueueRises(c) /\ (c = d => Below(Queued(c), {x})) => QueueRises(c)'
<1> DEFINE n == Len(queue)
<1>1. queue \in Seq(Collectors \X Nat)
  BY DEF TypeOK
<1>2. n \in Nat /\ Len(queue') = n + 1 /\ \A i \in 1 .. n : queue'[i] = queue[i]
  BY <1>1
<1>3. queue'[n + 1] = <<d, x>> /\ queue'[n + 1][1] = d /\ queue'[n + 1][2] = x
  BY <1>1
<1>4. \A i \in 1 .. n + 1 : i \in 1 .. n \/ i = n + 1
  BY <1>2
<1> HIDE DEF n
<1>5. Mine(c)' = IF c = d THEN Mine(c) \union {n + 1} ELSE Mine(c)
  <2>1. Mine(c)' = {i \in 1 .. n + 1 : queue'[i][1] = c}
    BY <1>2 DEF Mine
  <2>2. Mine(c) = {i \in 1 .. n : queue[i][1] = c}
    BY DEF Mine, n
  <2>3. 1 .. n + 1 = (1 .. n) \union {n + 1}
    BY <1>2, <1>4
  <2>4. QED
    BY <1>2, <1>3, <2>1, <2>2, <2>3
<1>6. \A i \in Mine(c) : i \in 1 .. n /\ queue'[i] = queue[i] /\ queue[i][2] \in Queued(c)
  BY <1>2 DEF Mine, Queued, n
<1>7. Queued(c)' = IF c = d THEN Queued(c) \union {x} ELSE Queued(c)
  <2>1. Queued(c)' = {queue'[i][2] : i \in Mine(c)'}
    BY DEF Queued
  <2>2. Queued(c) = {queue[i][2] : i \in Mine(c)}
    BY DEF Queued
  <2>3. {queue'[i][2] : i \in Mine(c)} = {queue[i][2] : i \in Mine(c)}
    BY <1>6
  <2>4. {queue'[i][2] : i \in Mine(c) \union {n + 1}} = {queue'[i][2] : i \in Mine(c)} \union {x}
    BY <1>3
  <2>5. QED
    BY <1>5, <2>1, <2>2, <2>3, <2>4
<1>8. ASSUME QueueRises(c), c = d => Below(Queued(c), {x}),
             NEW i \in Mine(c)', NEW j \in Mine(c)', i < j
      PROVE  queue'[i][2] < queue'[j][2]
  <2>1. i \in Mine(c) \/ (c = d /\ i = n + 1)
    BY <1>5
  <2>2. j \in Mine(c) \/ (c = d /\ j = n + 1)
    BY <1>5
  <2>3. i \in Mine(c)
    BY <1>2, <1>6, <1>8, <2>1, <2>2
  <2>4. CASE j \in Mine(c)
    BY <1>6, <1>8, <2>3, <2>4 DEF QueueRises
  <2>5. CASE c = d /\ j = n + 1
    <3>1. queue[i][2] < x
      BY <1>6, <1>8, <2>3, <2>5 DEF Below
    <3>2. QED
      BY <1>3, <1>6, <2>3, <2>5, <3>1
  <2>6. QED
    BY <2>2, <2>4, <2>5
<1>9. QED
  BY <1>7, <1>8 DEF QueueRises

LEMMA QueueTails ==
  ASSUME TypeOK, queue # <<>>, queue' = Tail(queue), NEW c \in Collectors, QueueRises(c)
  PROVE  /\ Head(queue) \in Collectors \X Nat
         /\ Head(queue)[1] # c => Queued(c)' = Queued(c)
         /\ Head(queue)[1] = c => /\ Queued(c) = {Head(queue)[2]} \union Queued(c)'
                                  /\ Below({Head(queue)[2]}, Queued(c)')
         /\ QueueRises(c)'
<1> DEFINE n == Len(queue)
<1>1. queue \in Seq(Collectors \X Nat)
  BY DEF TypeOK
<1>2. n \in Nat /\ n > 0 /\ Len(queue') = n - 1 /\ \A i \in 1 .. n - 1 : queue'[i] = queue[i + 1]
  BY <1>1
<1>3. Head(queue) = queue[1] /\ queue[1] \in Collectors \X Nat
  BY <1>1, <1>2
<1> HIDE DEF n
<1>4. Mine(c) = {i \in 1 .. n : queue[i][1] = c} /\ Mine(c)' = {i \in 1 .. n - 1 : queue'[i][1] = c}
  BY <1>2 DEF Mine, n
<1>5. \A i \in Mine(c)' : i + 1 \in Mine(c) /\ i \in Nat /\ 1 < i + 1 /\ queue'[i] = queue[i + 1]
  BY <1>2, <1>4
<1>6. \A i \in Mine(c) : \/ i = 1 /\ queue[1][1] = c
                         \/ i - 1 \in Mine(c)' /\ queue'[i - 1] = queue[i]
  <2> SUFFICES ASSUME NEW i \in Mine(c), i # 1
               PROVE  i - 1 \in Mine(c)' /\ queue'[i - 1] = queue[i]
    BY <1>4
  <2>1. i - 1 \in 1 .. n - 1 /\ i - 1 + 1 = i
    BY <1>2, <1>4
  <2>2. QED
    BY <1>2, <1>4, <2>1
<1>7. queue[1][1] = c => 1 \in Mine(c)
  BY <1>2, <1>4
<1>8. \A y \in Queued(c)' : \E i \in Mine(c)' : y = queue[i + 1][2]
  BY <1>5 DEF Queued
<1>9. Queued(c)' \subseteq Queued(c)
  BY <1>5, <1>8 DEF Queued
<1>10. \A y \in Queued(c) : y \in Queued(c)' \/ (queue[1][1] = c /\ y = queue[1][2])
  <2> SUFFICES ASSUME NEW y \in Queued(c), ~(queue[1][1] = c /\ y = queue[1][2])
               PROVE  y \in Queued(c)'
    OBVIOUS
  <2>1. PICK i \in Mine(c) : y = queue[i][2]
    BY DEF Queued
  <2>2. i - 1 \in Mine(c)' /\ queue'[i - 1] = queue[i]
    BY <1>6, <2>1
  <2>3. QED
    BY <2>1, <2>2 DEF Queued
<1>11. queue[1][1] = c => queue[1][2] \in Queued(c)
  BY <1>7 DEF Queued
<1>12. queue[1][1] = c => Below({queue[1][2]}, Queued(c)')
  BY <1>5, <1>7, <1>8 DEF QueueRises, Below
<1>13. ASSUME NEW i \in Mine(c)', NEW j \in Mine(c)', i < j
       PROVE  queue'[i][2] < queue'[j][2]
  <2>1. i + 1 \in Mine(c) /\ j + 1 \in Mine(c) /\ i + 1 < j + 1
    BY <1>5, <1>13
  <2>2. QED
    BY <1>5, <2>1 DEF QueueRises
<1>14. QED
  BY <1>3, <1>9, <1>10, <1>11, <1>12, <1>13 DEF QueueRises

-----------------------------------------------------------------------------
(* The way of one collector's events.                                      *)

NumberedAt(c) == Line(c) \subseteq 0 .. produced[c]
CountedAt(c) == Cardinality(Line(c)) + m[c].report + dropped[c] = produced[c]
OrderedAt(c) ==
  /\ Rising(out[c]) /\ Rising(m[c].chan) /\ QueueRises(c)
  /\ Below(Taken(c), Queued(c)) /\ Below(Taken(c) \union Queued(c), Held(c))
  /\ Below(Taken(c) \union Queued(c) \union Held(c), Sent(c))
FlowAt(c) == NumberedAt(c) /\ OrderedAt(c) /\ (pipelineUp => CountedAt(c))
Flow == \A c \in Collectors : FlowAt(c)

LEMMA FlowIs == Flow <=> Numbered /\ EventsAccounted /\ EventsInOrder
BY DEF Flow, FlowAt, NumberedAt, CountedAt, OrderedAt, QueueRises, Numbered, EventsAccounted,
       EventsInOrder

LEMMA FlowTypes ==
  ASSUME TypeOK, NEW c \in Collectors
  PROVE  /\ out[c] \in Seq(Nat) /\ m[c].held \in Seq(Nat) /\ m[c].chan \in Seq(Nat)
         /\ Taken(c) \in SUBSET Nat /\ Queued(c) \in SUBSET Nat
         /\ Held(c) \in SUBSET Nat /\ Sent(c) \in SUBSET Nat
         /\ produced[c] \in Nat /\ dropped[c] \in Nat /\ m[c].report \in Nat
<1>1. out[c] \in Seq(Nat) /\ m[c] \in Managed /\ produced[c] \in Nat /\ dropped[c] \in Nat
  BY DEF TypeOK
<1>2. m[c].held \in Seq(Nat) /\ m[c].chan \in Seq(Nat) /\ m[c].report \in Nat
  BY <1>1, SizesAssumption DEF Managed, SizesAssumption
<1>3. QED
  BY <1>1, <1>2, RangeOf, QueuedNumbers DEF Taken, Held, Sent

LEMMA FlowTypesNext ==
  ASSUME TypeOK', NEW c \in Collectors
  PROVE  /\ out'[c] \in Seq(Nat) /\ m'[c].held \in Seq(Nat) /\ m'[c].chan \in Seq(Nat)
         /\ produced'[c] \in Nat /\ dropped'[c] \in Nat /\ m'[c].report \in Nat
<1>1. out'[c] \in Seq(Nat) /\ m'[c] \in Managed /\ produced'[c] \in Nat /\ dropped'[c] \in Nat
  BY DEF TypeOK
<1>2. m'[c].held \in Seq(Nat) /\ m'[c].chan \in Seq(Nat) /\ m'[c].report \in Nat
  BY <1>1, SizesAssumption DEF Managed, SizesAssumption
<1>3. QED
  BY <1>1, <1>2

LEMMA LineFinite ==
  ASSUME TypeOK, NEW c \in Collectors, NumberedAt(c), NEW S \in SUBSET Line(c)
  PROVE  IsFiniteSet(S) /\ Cardinality(S) \in Nat
<1>1. IsFiniteSet(0 .. produced[c])
  BY FlowTypes, FS_Interval
<1>2. S \subseteq 0 .. produced[c]
  BY DEF NumberedAt
<1>3. QED
  BY <1>1, <1>2, FS_Subset, FS_CardinalityType

\* Nothing that concerns c happens.
Quiet(c) ==
  /\ queue' = queue /\ out'[c] = out[c] /\ produced'[c] = produced[c]
  /\ pipelineUp' => pipelineUp
  /\ m'[c].chan = m[c].chan /\ m'[c].held = m[c].held
  /\ m'[c].report + dropped'[c] = m[c].report + dropped[c]

LEMMA FlowStays ==
  ASSUME TypeOK, TypeOK', NEW c \in Collectors, FlowAt(c), Quiet(c)
  PROVE  FlowAt(c)'
<1>1. Taken(c)' = Taken(c) /\ Held(c)' = Held(c) /\ Sent(c)' = Sent(c)
  BY DEF Quiet, Taken, Held, Sent
<1>2. Mine(c)' = Mine(c)
  BY DEF Quiet, Mine
<1>3. Queued(c)' = Queued(c)
  BY <1>2 DEF Quiet, Queued
<1>4. QueueRises(c)' <=> QueueRises(c)
  BY <1>2 DEF Quiet, QueueRises
<1>5. Line(c)' = Line(c)
  BY <1>1, <1>3 DEF Line
<1>6. NumberedAt(c)'
  BY <1>5 DEF Quiet, NumberedAt, FlowAt
<1>7. OrderedAt(c)'
  BY <1>1, <1>3, <1>4 DEF Quiet, OrderedAt, FlowAt
<1>8. ASSUME pipelineUp' PROVE CountedAt(c)'
  <2>1. CountedAt(c)
    BY <1>8 DEF FlowAt, Quiet
  <2>2. Cardinality(Line(c)) \in Nat
    BY LineFinite DEF FlowAt
  <2>3. m[c].report \in Nat /\ dropped[c] \in Nat /\ m'[c].report \in Nat /\ dropped'[c] \in Nat
    BY FlowTypes, FlowTypesNext
  <2>4. QED
    BY <1>5, <2>1, <2>2, <2>3 DEF Quiet, CountedAt
<1>9. QED
  BY <1>6, <1>7, <1>8 DEF FlowAt

\* What was in the channel and in hand is counted, and gone.
Emptied(c) ==
  /\ queue' = queue /\ out'[c] = out[c] /\ produced'[c] = produced[c]
  /\ pipelineUp' => pipelineUp
  /\ m'[c].chan = <<>> /\ m'[c].held = <<>>
  /\ pipelineUp => m'[c].report + dropped'[c]
                     = m[c].report + dropped[c] + Len(m[c].chan) + Len(m[c].held)

LEMMA FlowEmpties ==
  ASSUME TypeOK, TypeOK', NEW c \in Collectors, FlowAt(c), Emptied(c)
  PROVE  FlowAt(c)'
<1>1. Taken(c)' = Taken(c) /\ Held(c)' = {} /\ Sent(c)' = {}
  BY RangeEmpty DEF Emptied, Taken, Held, Sent
<1>2. Mine(c)' = Mine(c)
  BY DEF Emptied, Mine
<1>3. Queued(c)' = Queued(c)
  BY <1>2 DEF Emptied, Queued
<1>4. QueueRises(c)' <=> QueueRises(c)
  BY <1>2 DEF Emptied, QueueRises
<1>5. Line(c)' = Taken(c) \union Queued(c) /\ Line(c)' \subseteq Line(c)
  BY <1>1, <1>3 DEF Line
<1>6. NumberedAt(c)'
  BY <1>5 DEF Emptied, NumberedAt, FlowAt
<1>7. Rising(out[c]) /\ Rising(m[c].chan) /\ Below(Taken(c), Queued(c))
  BY DEF FlowAt, OrderedAt
<1>8. OrderedAt(c)'
  <2>1. Rising(m'[c].chan) /\ Rising(out'[c])
    BY <1>7, RangeEmpty DEF Emptied
  <2>2. \A S : Below(S, {})
    BY DEF Below
  <2>3. QED
    BY <1>1, <1>3, <1>4, <1>7, <2>1, <2>2 DEF OrderedAt, FlowAt
<1>9. ASSUME pipelineUp' PROVE CountedAt(c)'
  <2> DEFINE A == Taken(c) \union Queued(c)
  <2>1. CountedAt(c) /\ m'[c].report + dropped'[c]
                           = m[c].report + dropped[c] + Len(m[c].chan) + Len(m[c].held)
    BY <1>9 DEF FlowAt, Emptied
  <2>2. IsFiniteSet(A) /\ Cardinality(A) \in Nat
    BY LineFinite DEF Line, FlowAt
  <2>3. IsFiniteSet(Held(c)) /\ Cardinality(Held(c)) = Len(m[c].held)
    <3>1. Rising(m[c].held)
      <4>1. Len(m[c].held) <= 1 /\ Len(m[c].held) \in Nat
        BY FlowTypes DEF TypeOK
      <4>2. QED
        BY <4>1 DEF Rising
    <3>2. QED
      BY <3>1, FlowTypes, RisingCounts DEF Held
  <2>4. IsFiniteSet(Sent(c)) /\ Cardinality(Sent(c)) = Len(m[c].chan)
    BY <1>7, FlowTypes, RisingCounts DEF Sent
  <2>5. A \intersect Held(c) = {} /\ (A \union Held(c)) \intersect Sent(c) = {}
    BY FlowTypes, BelowApart DEF FlowAt, OrderedAt
  <2> HIDE DEF A
  <2>6. Cardinality({}) = 0
    BY FS_EmptySet
  <2>7. /\ IsFiniteSet(A \union Held(c))
        /\ Cardinality(A \union Held(c)) = Cardinality(A) + Len(m[c].held) - 0
    <3>1. Cardinality(A \union Held(c))
            = Cardinality(A) + Cardinality(Held(c)) - Cardinality(A \intersect Held(c))
      BY <2>2, <2>3, FS_Union
    <3>2. IsFiniteSet(A \union Held(c))
      BY <2>2, <2>3, FS_Union
    <3>3. QED
      BY <2>3, <2>5, <2>6, <3>1, <3>2, Zenon
  <2>8. Cardinality(Line(c)) = Cardinality(A) + Len(m[c].held) - 0 + Len(m[c].chan) - 0
    <3>1. Cardinality((A \union Held(c)) \union Sent(c))
            = Cardinality(A \union Held(c)) + Cardinality(Sent(c))
                - Cardinality((A \union Held(c)) \intersect Sent(c))
      BY <2>4, <2>7, FS_Union
    <3>2. Line(c) = (A \union Held(c)) \union Sent(c)
      BY DEF Line, A
    <3>3. QED
      BY <2>4, <2>5, <2>6, <2>7, <3>1, <3>2, Zenon
  <2> DEFINE a  == Cardinality(A)
             l  == Cardinality(Line(c))
             h  == Len(m[c].held)
             s  == Len(m[c].chan)
             r  == m[c].report
             d  == dropped[c]
             rr == m'[c].report
             dd == dropped'[c]
             p  == produced[c]
  <2>9. /\ a \in Nat /\ h \in Nat /\ s \in Nat /\ r \in Nat /\ d \in Nat /\ rr \in Nat
        /\ dd \in Nat
    BY <2>2, FlowTypes, FlowTypesNext
  <2>10. l = a + h - 0 + s - 0 /\ l + r + d = p /\ rr + dd = r + d + s + h
    BY <2>1, <2>8 DEF CountedAt
  <2> HIDE DEF a, l, h, s, r, d, rr, dd, p
  <2>11. a + rr + dd = p
    BY <2>9, <2>10
  <2>12. Cardinality(Line(c)') + m'[c].report + dropped'[c] = produced'[c]
    BY <1>5, <2>11 DEF Emptied, A, a, rr, dd, p
  <2>13. QED
    BY <2>12 DEF CountedAt
<1>10. QED
  BY <1>6, <1>8, <1>9 DEF FlowAt

\* A worker sends its next event.
LEMMA FlowProduces ==
  ASSUME TypeOK, TypeOK', NEW c \in Collectors, FlowAt(c), queue' = queue, out'[c] = out[c],
         pipelineUp' = pipelineUp, produced'[c] = produced[c] + 1, dropped'[c] = dropped[c],
         m'[c].chan = Append(m[c].chan, produced'[c]), m'[c].held = m[c].held,
         m'[c].report = m[c].report
  PROVE  FlowAt(c)'
<1> DEFINE x == produced[c] + 1
<1>1. x \in Nat /\ produced[c] \in Nat /\ produced'[c] = x /\ m'[c].chan = Append(m[c].chan, x)
  BY FlowTypes
<1>2. Taken(c)' = Taken(c) /\ Held(c)' = Held(c)
  BY DEF Taken, Held
<1>3. Mine(c)' = Mine(c)
  BY DEF Mine
<1>4. Queued(c)' = Queued(c)
  BY <1>3 DEF Queued
<1>5. QueueRises(c)' <=> QueueRises(c)
  BY <1>3 DEF QueueRises
<1>6. Line(c) \subseteq 0 .. produced[c]
  BY DEF FlowAt, NumberedAt
<1>7. Below(Line(c), {x}) /\ x \notin Line(c)
  BY <1>1, <1>6 DEF Below
<1> HIDE DEF x
<1>8. Sent(c)' = Sent(c) \union {x}
  BY <1>1, FlowTypes, RisingAppend DEF Sent
<1>9. Rising(m'[c].chan)
  <2>1. Below(Range(m[c].chan), {x})
    BY <1>7 DEF Line, Sent, Below
  <2>2. QED
    BY <1>1, <2>1, FlowTypes, RisingAppend DEF FlowAt, OrderedAt
<1>10. Line(c)' = Line(c) \union {x}
  BY <1>2, <1>4, <1>8 DEF Line
<1>11. NumberedAt(c)'
  <2>1. 0 .. produced[c] \subseteq 0 .. x /\ x \in 0 .. x
    BY <1>1 DEF x
  <2>2. QED
    BY <1>1, <1>6, <1>10, <2>1 DEF NumberedAt
<1>12. OrderedAt(c)'
  <2>1. Below(Taken(c) \union Queued(c) \union Held(c), Sent(c) \union {x})
    BY <1>7 DEF FlowAt, OrderedAt, Line, Below
  <2>2. QED
    BY <1>2, <1>4, <1>5, <1>8, <1>9, <2>1 DEF FlowAt, OrderedAt
<1>13. ASSUME pipelineUp' PROVE CountedAt(c)'
  <2>1. CountedAt(c)
    BY <1>13 DEF FlowAt
  <2>2. IsFiniteSet(Line(c)) /\ Cardinality(Line(c)) \in Nat
    BY LineFinite DEF FlowAt
  <2>3. Cardinality(Line(c)') = Cardinality(Line(c)) + 1
    BY <1>7, <1>10, <2>2, FS_AddElement
  <2>4. m[c].report \in Nat /\ dropped[c] \in Nat
    BY FlowTypes
  <2> DEFINE l == Cardinality(Line(c))
             r == m[c].report
             d == dropped[c]
             p == produced[c]
  <2>5. /\ l \in Nat /\ r \in Nat /\ d \in Nat /\ p \in Nat /\ l + r + d = p /\ x = p + 1
        /\ Cardinality(Line(c)') = l + 1
    BY <1>1, <2>1, <2>2, <2>3, <2>4 DEF CountedAt, x
  <2> HIDE DEF l, r, d, p
  <2>6. (l + 1) + r + d = x
    BY <2>5
  <2>7. QED
    BY <1>1, <2>5, <2>6 DEF CountedAt, r, d
<1>14. QED
  BY <1>11, <1>12, <1>13 DEF FlowAt

\* What leaves one place for the next stays in line.
LEMMA FlowMoves ==
  ASSUME TypeOK, NEW c \in Collectors, FlowAt(c), OrderedAt(c)', Line(c)' = Line(c),
         produced'[c] = produced[c], pipelineUp' => pipelineUp, m'[c].report = m[c].report,
         dropped'[c] = dropped[c]
  PROVE  FlowAt(c)'
BY DEF FlowAt, NumberedAt, CountedAt

\* The relay takes the next event of the channel.
LEMMA FlowTakes ==
  ASSUME TypeOK, NEW c \in Collectors, FlowAt(c), queue' = queue, out'[c] = out[c],
         produced'[c] = produced[c], pipelineUp' = pipelineUp, m'[c].report = m[c].report,
         dropped'[c] = dropped[c], m[c].held = <<>>, m[c].chan # <<>>,
         m'[c].held = <<Head(m[c].chan)>>, m'[c].chan = Tail(m[c].chan)
  PROVE  FlowAt(c)'
<1>1. OrderedAt(c)
  BY DEF FlowAt
<1> DEFINE x == Head(m[c].chan)
           S == Range(Tail(m[c].chan))
<1>2. /\ m'[c].chan \in Seq(Nat) /\ x \in Nat /\ Sent(c) = {x} \union S /\ Sent(c)' = S
      /\ Rising(m'[c].chan) /\ Below({x}, S)
  BY <1>1, FlowTypes, RisingTail DEF OrderedAt, Sent
<1>3. Held(c) = {} /\ Held(c)' = {x}
  <2>1. m'[c].held \in Seq(Nat) /\ Len(m'[c].held) = 1 /\ Head(m'[c].held) = x
    BY <1>2
  <2>2. QED
    BY <2>1, RangeEmpty, RangeSingle DEF Held
<1> HIDE DEF x, S
<1>4. Mine(c)' = Mine(c)
  BY DEF Mine
<1>5. Taken(c)' = Taken(c) /\ Queued(c)' = Queued(c) /\ (QueueRises(c)' <=> QueueRises(c))
  BY <1>4 DEF Taken, Queued, QueueRises
<1>6. Line(c)' = Line(c)
  BY <1>2, <1>3, <1>5 DEF Line
<1>7. OrderedAt(c)'
  <2>1. Below(Taken(c) \union Queued(c), {x})
    BY <1>1, <1>2 DEF OrderedAt, Below
  <2>2. Below(Taken(c) \union Queued(c) \union {x}, S)
    BY <1>1, <1>2 DEF OrderedAt, Below
  <2>3. QED
    BY <1>1, <1>2, <1>3, <1>5, <2>1, <2>2 DEF OrderedAt
<1>8. QED
  BY <1>6, <1>7, FlowMoves

\* The relay hands an event over: for its collector and for the others.
LEMMA FlowSends ==
  ASSUME TypeOK, NEW c \in Collectors, FlowAt(c), queue' = Append(queue, <<c, Head(m[c].held)>>),
         out'[c] = out[c], produced'[c] = produced[c], pipelineUp' = pipelineUp,
         m'[c].report = m[c].report, dropped'[c] = dropped[c], m[c].held # <<>>,
         m'[c].held = <<>>, m'[c].chan = m[c].chan
  PROVE  FlowAt(c)'
<1>1. OrderedAt(c)
  BY DEF FlowAt
<1> DEFINE x == Head(m[c].held)
<1>2. x \in Nat /\ Held(c) = {x} /\ Held(c)' = {}
  <2>1. m[c].held \in Seq(Nat) /\ Len(m[c].held) = 1
    <3>1. m[c].held \in Seq(Nat) /\ Len(m[c].held) # 0
      BY FlowTypes, RangeOf
    <3>2. Len(m[c].held) <= 1 /\ Len(m[c].held) \in Nat
      BY FlowTypes DEF TypeOK
    <3> DEFINE n == Len(m[c].held)
    <3>3. n \in Nat /\ n <= 1 /\ n # 0
      BY <3>1, <3>2
    <3> HIDE DEF n
    <3>4. n = 1
      BY <3>3
    <3>5. QED
      BY <3>1, <3>4 DEF n
  <2>2. QED
    BY <2>1, RangeSingle, RangeEmpty DEF Held
<1> HIDE DEF x
<1>3. Taken(c)' = Taken(c) /\ Sent(c)' = Sent(c)
  BY DEF Taken, Sent
<1>4. queue' = Append(queue, <<c, x>>) /\ Below(Queued(c), {x})
  BY <1>1, <1>2 DEF OrderedAt, Below, x
<1>5. Queued(c)' = Queued(c) \union {x} /\ QueueRises(c)'
  BY <1>1, <1>2, <1>4, QueueAppends DEF OrderedAt
<1>6. Line(c)' = Line(c)
  BY <1>2, <1>3, <1>5 DEF Line
<1>7. OrderedAt(c)'
  <2>1. Below(Taken(c), Queued(c) \union {x}) /\ Below(Taken(c) \union (Queued(c) \union {x}), {})
        /\ Below(Taken(c) \union (Queued(c) \union {x}) \union {}, Sent(c))
    BY <1>1, <1>2 DEF OrderedAt, Below
  <2>2. QED
    BY <1>1, <1>2, <1>3, <1>5, <2>1 DEF OrderedAt
<1>8. QED
  BY <1>6, <1>7, FlowMoves

LEMMA FlowOtherSends ==
  ASSUME TypeOK, NEW c \in Collectors, NEW d \in Collectors, c # d, NEW x \in Nat, FlowAt(c),
         queue' = Append(queue, <<d, x>>), out'[c] = out[c], produced'[c] = produced[c],
         pipelineUp' = pipelineUp, m'[c] = m[c], dropped'[c] = dropped[c]
  PROVE  FlowAt(c)'
<1>1. OrderedAt(c)
  BY DEF FlowAt
<1>2. Taken(c)' = Taken(c) /\ Sent(c)' = Sent(c) /\ Held(c)' = Held(c)
  BY DEF Taken, Sent, Held
<1>3. Queued(c)' = Queued(c) /\ QueueRises(c)'
  BY <1>1, QueueAppends DEF OrderedAt
<1>4. Line(c)' = Line(c)
  BY <1>2, <1>3 DEF Line
<1>5. OrderedAt(c)'
  BY <1>1, <1>2, <1>3 DEF OrderedAt
<1>6. QED
  BY <1>4, <1>5, FlowMoves

\* The pipeline takes the head of its queue.
LEMMA FlowConsumes ==
  ASSUME TypeOK, NEW c \in Collectors, FlowAt(c), queue # <<>>, queue' = Tail(queue),
         out'[c] = IF Head(queue)[1] = c THEN Append(out[c], Head(queue)[2]) ELSE out[c],
         produced'[c] = produced[c], pipelineUp' = pipelineUp, m'[c] = m[c],
         dropped'[c] = dropped[c]
  PROVE  FlowAt(c)'
<1>1. OrderedAt(c)
  BY DEF FlowAt
<1>2. Sent(c)' = Sent(c) /\ Held(c)' = Held(c)
  BY DEF Sent, Held
<1> DEFINE x == Head(queue)[2]
<1>3. /\ Head(queue) \in Collectors \X Nat /\ QueueRises(c)'
      /\ Head(queue)[1] # c => Queued(c)' = Queued(c)
      /\ Head(queue)[1] = c => Queued(c) = {x} \union Queued(c)' /\ Below({x}, Queued(c)')
  BY <1>1, QueueTails DEF OrderedAt
<1>4. x \in Nat
  BY <1>3
<1> HIDE DEF x
<1>5. CASE Head(queue)[1] # c
  <2>1. Taken(c)' = Taken(c) /\ Queued(c)' = Queued(c) /\ out'[c] = out[c]
    BY <1>3, <1>5 DEF Taken
  <2>2. Line(c)' = Line(c)
    BY <1>2, <2>1 DEF Line
  <2>3. OrderedAt(c)'
    BY <1>1, <1>2, <1>3, <2>1 DEF OrderedAt
  <2>4. QED
    BY <2>2, <2>3, FlowMoves
<1>6. CASE Head(queue)[1] = c
  <2>1. out'[c] = Append(out[c], x)
    BY <1>6 DEF x
  <2>2. Below(Range(out[c]), {x}) /\ Rising(out[c])
    BY <1>1, <1>3, <1>6 DEF OrderedAt, Below, Taken
  <2>3. Taken(c)' = Taken(c) \union {x} /\ Rising(out'[c])
    BY <1>4, <2>1, <2>2, FlowTypes, RisingAppend DEF Taken
  <2>4. Line(c)' = Line(c)
    BY <1>2, <1>3, <1>6, <2>3 DEF Line
  <2>5. Below(Taken(c) \union {x}, Queued(c)')
    BY <1>1, <1>3, <1>6 DEF OrderedAt, Below
  <2>6. Taken(c)' \union Queued(c)' = Taken(c) \union Queued(c)
    BY <1>3, <1>6, <2>3
  <2>7. OrderedAt(c)'
    BY <1>1, <1>2, <1>3, <2>3, <2>5, <2>6 DEF OrderedAt
  <2>8. QED
    BY <2>4, <2>7, FlowMoves
<1>7. QED
  BY <1>5, <1>6

\* Once the pipeline has ended, what is lost is not accounted for; the order stays.
LEMMA FlowCut ==
  ASSUME TypeOK, NEW c \in Collectors, FlowAt(c), ~pipelineUp', queue' \in {queue, <<>>},
         out'[c] = out[c], produced'[c] = produced[c], m'[c].chan = m[c].chan,
         m'[c].held \in {m[c].held, <<>>}
  PROVE  FlowAt(c)'
<1>1. OrderedAt(c)
  BY DEF FlowAt
<1>2. Taken(c)' = Taken(c) /\ Sent(c)' = Sent(c)
  BY DEF Taken, Sent
<1>3. Held(c)' \subseteq Held(c)
  BY RangeEmpty DEF Held
<1>4. Queued(c)' \subseteq Queued(c) /\ QueueRises(c)'
  <2>1. CASE queue' = queue
    <3>1. Mine(c)' = Mine(c)
      BY <2>1 DEF Mine
    <3>2. QED
      BY <1>1, <2>1, <3>1 DEF Queued, QueueRises, OrderedAt
  <2>2. CASE queue' = <<>>
    <3>1. Mine(c)' = {}
      BY <2>2 DEF Mine
    <3>2. QED
      BY <3>1 DEF Queued, QueueRises
  <2>3. QED
    BY <2>1, <2>2
<1>5. NumberedAt(c)'
  <2>1. Line(c)' \subseteq Line(c)
    BY <1>2, <1>3, <1>4 DEF Line
  <2>2. QED
    BY <2>1 DEF FlowAt, NumberedAt
<1>6. OrderedAt(c)'
  <2>1. /\ Below(Taken(c), Queued(c)') /\ Below(Taken(c) \union Queued(c)', Held(c)')
        /\ Below(Taken(c) \union Queued(c)' \union Held(c)', Sent(c))
    BY <1>1, <1>3, <1>4 DEF OrderedAt, Below
  <2>2. QED
    BY <1>1, <1>2, <1>4, <2>1 DEF OrderedAt
<1>7. QED
  BY <1>5, <1>6 DEF FlowAt

-----------------------------------------------------------------------------
(* The steps of the workers, the relays and the pipeline.                  *)

QueueTypes == queue \in Seq(Collectors \X Nat) /\ Len(queue) <= QueueSize
MainTypes ==
  /\ permission \in {"pending", "granted", "denied"}
  /\ stopping \in {"no", "drain", "discard"} /\ remaining \in Seq(Collectors)
  /\ joining => stopping # "no" /\ remaining # <<>>
  /\ pipelineUp \in BOOLEAN /\ active \in BOOLEAN /\ joining \in BOOLEAN /\ ended \in BOOLEAN
  /\ due \subseteq Collectors
CountTypes ==
  /\ dropped \in [Collectors -> Nat] /\ produced \in [Collectors -> Nat]
  /\ out \in [Collectors -> Seq(Nat)]

LEMMA TypesAre ==
  TypeOK <=> m \in [Collectors -> Good] /\ QueueTypes /\ MainTypes /\ CountTypes
<1>1. {pipelineUp, active, joining, ended} \subseteq BOOLEAN
      <=> pipelineUp \in BOOLEAN /\ active \in BOOLEAN /\ joining \in BOOLEAN /\ ended \in BOOLEAN
  OBVIOUS
<1>2. m \in [Collectors -> Good]
      <=> m \in [Collectors -> Managed] /\ \A c \in Collectors : Fits(m[c])
  BY DEF Good
<1>3. QED
  BY <1>1, <1>2 DEF TypeOK, QueueTypes, MainTypes, CountTypes, Fits

LEMMA TypesAreNext ==
  TypeOK' <=> (m \in [Collectors -> Good])' /\ QueueTypes' /\ MainTypes' /\ CountTypes'
BY TypesAre, PTL

RelayingAt(c) ==
  /\ m[c].relay \notin Exits => m[c].report = 0
  /\ m[c].relay \in {"none", "source_closed", "stopped"} => m[c].chan = <<>> /\ m[c].held = <<>>
  /\ m[c].relay = "pipeline_closed" => ~pipelineUp
  /\ m[c].relay = "none" => m[c].worker = "none"
  /\ m[c].relay # "none" /\ ~m[c].running => joining /\ c = Head(remaining)

LEMMA InvIs ==
  SupervisorInv <=> TypeOK /\ (\A c \in Collectors : RelayingAt(c)) /\ Flow
BY FlowIs DEF SupervisorInv, Relaying, RelayingAt

LEMMA InvIsNext ==
  SupervisorInv' <=> TypeOK' /\ (\A c \in Collectors : RelayingAt(c))' /\ Flow'
BY InvIs, PTL

\* What happens to other collectors when only c's record changes.
LEMMA OthersKeep ==
  ASSUME TypeOK, TypeOK', NEW d \in Collectors, RelayingAt(d), FlowAt(d), m'[d] = m[d],
         queue' = queue, out'[d] = out[d], produced'[d] = produced[d], dropped'[d] = dropped[d],
         pipelineUp' = pipelineUp, joining' = joining, remaining' = remaining
  PROVE  RelayingAt(d)' /\ FlowAt(d)'
<1>1. Quiet(d)
  BY DEF Quiet
<1>2. FlowAt(d)'
  BY <1>1, FlowStays
<1>3. RelayingAt(d)'
  BY DEF RelayingAt
<1>4. QED
  BY <1>2, <1>3

LEMMA ProduceKeeps ==
  ASSUME SupervisorInv, NEW c \in Collectors, Produce(c)
  PROVE  SupervisorInv'
<1>1. TypeOK /\ RelayingAt(c) /\ FlowAt(c) /\ \A d \in Collectors : RelayingAt(d) /\ FlowAt(d)
  BY InvIs DEF Flow
<1>2. /\ m \in [Collectors -> Good] /\ QueueTypes /\ MainTypes /\ CountTypes
      /\ m[c] \in Good
  BY <1>1, TypesAre
<1> DEFINE x == produced[c] + 1
<1>3. x \in Nat /\ produced' = [produced EXCEPT ![c] = x] /\ produced'[c] = x
  BY <1>2 DEF Produce, CountTypes
<1> HIDE DEF x
<1> DEFINE s == Append(m[c].chan, x)
<1>4. s \in Seq(Nat) /\ Len(s) <= ChannelSize
  BY <1>2, <1>3, GoodFields, SizesAssumption DEF Produce, SizesAssumption
<1> HIDE DEF s
<1>5. m' = [m EXCEPT ![c] = [m[c] EXCEPT !.chan = s]]
  BY <1>2, <1>3 DEF Produce, s
<1>6. [m[c] EXCEPT !.chan = s] \in Good
  BY <1>2, <1>4 DEF Good, Managed, Fits
<1>7. TypeOK'
  <2>1. m' \in [Collectors -> Good]
    BY <1>2, <1>5, <1>6
  <2>2. QueueTypes' /\ MainTypes' /\ CountTypes'
    BY <1>2, <1>3 DEF Produce, NoMain, mainVars, QueueTypes, MainTypes, CountTypes
  <2>3. QED
    BY <2>1, <2>2, TypesAreNext
<1>8. /\ m'[c].chan = s /\ m'[c].held = m[c].held /\ m'[c].report = m[c].report
      /\ m'[c].relay = m[c].relay /\ m'[c].worker = m[c].worker /\ m'[c].running = m[c].running
  BY <1>2, <1>5 DEF Good, Managed
<1>9. FlowAt(c)'
  BY <1>1, <1>3, <1>7, <1>8, FlowProduces DEF Produce, NoMain, s, x
<1>10. RelayingAt(c)'
  BY <1>1, <1>8 DEF RelayingAt, Produce, NoMain, mainVars, Exits
<1>11. ASSUME NEW d \in Collectors, d # c
       PROVE  RelayingAt(d)' /\ FlowAt(d)'
  <2>1. m'[d] = m[d] /\ produced'[d] = produced[d]
    BY <1>2, <1>3, <1>5, <1>11 DEF CountTypes
  <2>2. QED
    BY <1>1, <1>7, <2>1, OthersKeep DEF Produce, NoMain, mainVars
<1>12. QED
  BY <1>7, <1>9, <1>10, <1>11, InvIsNext DEF Flow

LEMMA WorkerExitsKeeps ==
  ASSUME SupervisorInv, NEW c \in Collectors, WorkerExits(c)
  PROVE  SupervisorInv'
<1>1. TypeOK /\ \A d \in Collectors : RelayingAt(d) /\ FlowAt(d)
  BY InvIs DEF Flow
<1>2. m \in [Collectors -> Good] /\ QueueTypes /\ MainTypes /\ CountTypes /\ m[c] \in Good
  BY <1>1, TypesAre
<1>3. m' = [m EXCEPT ![c] = [m[c] EXCEPT !.worker = "gone"]] /\ m[c].worker = "alive"
  BY DEF WorkerExits
<1>4. [m[c] EXCEPT !.worker = "gone"] \in Good
  BY <1>2, <1>3 DEF Good, Managed, Fits
<1>5. TypeOK'
  <2>1. m' \in [Collectors -> Good]
    BY <1>2, <1>3, <1>4
  <2>2. QueueTypes' /\ MainTypes' /\ CountTypes'
    BY <1>2 DEF WorkerExits, NoMain, mainVars, QueueTypes, MainTypes, CountTypes
  <2>3. QED
    BY <2>1, <2>2, TypesAreNext
<1>6. /\ m'[c].chan = m[c].chan /\ m'[c].held = m[c].held /\ m'[c].report = m[c].report
      /\ m'[c].relay = m[c].relay /\ m'[c].running = m[c].running /\ m'[c].worker = "gone"
  BY <1>2, <1>3 DEF Good, Managed
<1>7. FlowAt(c)'
  <2>1. Quiet(c)
    BY <1>6 DEF Quiet, WorkerExits, NoMain
  <2>2. QED
    BY <1>1, <1>5, <2>1, FlowStays
<1>8. RelayingAt(c)'
  BY <1>1, <1>3, <1>6 DEF RelayingAt, WorkerExits, NoMain, mainVars
<1>9. ASSUME NEW d \in Collectors, d # c
      PROVE  RelayingAt(d)' /\ FlowAt(d)'
  <2>1. m'[d] = m[d]
    BY <1>2, <1>3, <1>9
  <2>2. QED
    BY <1>1, <1>5, <2>1, OthersKeep DEF WorkerExits, NoMain, mainVars
<1>10. QED
  BY <1>5, <1>7, <1>8, <1>9, InvIsNext DEF Flow

\* A relay that is told to stop counts what it holds.
LEMMA RelayTakeKeeps ==
  ASSUME SupervisorInv, NEW c \in Collectors, RelayTake(c)
  PROVE  SupervisorInv'
<1>1. TypeOK /\ \A d \in Collectors : RelayingAt(d) /\ FlowAt(d)
  BY InvIs DEF Flow
<1>2. m \in [Collectors -> Good] /\ QueueTypes /\ MainTypes /\ CountTypes /\ m[c] \in Good
  BY <1>1, TypesAre
<1>3. /\ m[c].relay = "wait" /\ m[c].report = 0 /\ queue' = queue /\ out' = out
      /\ pipelineUp' = pipelineUp /\ produced' = produced /\ dropped' = dropped
      /\ joining' = joining /\ remaining' = remaining
  BY <1>1 DEF RelayTake, RelayStep, NoMain, mainVars, RelayingAt, Exits
<1>4. QueueTypes' /\ MainTypes' /\ CountTypes'
  BY <1>2 DEF RelayTake, RelayStep, NoMain, mainVars, QueueTypes, MainTypes, CountTypes
<1>5. ASSUME NEW r \in Good, m' = [m EXCEPT ![c] = r]
      PROVE  /\ TypeOK' /\ m'[c] = r
             /\ \A d \in Collectors : d # c => RelayingAt(d)' /\ FlowAt(d)'
  <2>1. m' \in [Collectors -> Good] /\ m'[c] = r
    BY <1>2, <1>5
  <2>2. TypeOK'
    BY <1>4, <2>1, TypesAreNext
  <2>3. \A d \in Collectors : d # c => m'[d] = m[d]
    BY <1>2, <1>5
  <2>4. QED
    BY <1>1, <1>3, <2>1, <2>2, <2>3, OthersKeep
<1>6. ASSUME NEW r \in Good, m' = [m EXCEPT ![c] = r], FlowAt(c)', RelayingAt(c)'
      PROVE  SupervisorInv'
  BY <1>5, <1>6, InvIsNext DEF Flow
<1>7. CASE m[c].flag
  <2> DEFINE n == Len(m[c].chan) + Len(m[c].held)
  <2>1. n \in 0 .. ChannelSize + 1 /\ n \in Nat
    <3> DEFINE a == Len(m[c].chan)
               b == Len(m[c].held)
    <3>1. a \in Nat /\ b \in Nat /\ a <= ChannelSize /\ b <= 1
      BY <1>2, GoodFields DEF Fits
    <3> HIDE DEF a, b
    <3>2. a + b \in 0 .. ChannelSize + 1 /\ a + b \in Nat
      BY <3>1, SizesAssumption DEF SizesAssumption
    <3>3. QED
      BY <3>2 DEF a, b
  <2> DEFINE e == <<>>
  <2>2. m' = [m EXCEPT ![c] = [m[c] EXCEPT !.relay = "stopped", !.report = n, !.chan = e, !.held = e]]
    BY <1>2, <1>7 DEF RelayTake
  <2>3. e \in Seq(Nat) /\ Len(e) = 0 /\ e = <<>>
    OBVIOUS
  <2> HIDE DEF n, e
  <2> DEFINE r == [m[c] EXCEPT !.relay = "stopped", !.report = n, !.chan = e, !.held = e]
  <2>4. r \in Managed
    BY <1>2, <2>1, <2>3 DEF Good, Managed, Relays, Exits
  <2>5. /\ r.chan = <<>> /\ r.held = <<>> /\ r.report = n /\ r.relay = "stopped"
        /\ r.running = m[c].running /\ r.worker = m[c].worker
    BY <1>2, <2>3 DEF Good, Managed
  <2> HIDE DEF r
  <2>6. r \in Good
    <3>1. Fits(r)
      BY <1>2, <1>3, <2>3, <2>5, GoodFields, SizesAssumption DEF SizesAssumption, Fits
    <3>2. QED
      BY <2>4, <3>1 DEF Good
  <2>7. TypeOK' /\ m'[c] = r
    BY <1>5, <2>2, <2>6 DEF r
  <2>8. n = Len(m[c].chan) + Len(m[c].held)
    BY DEF n
  <2>9. Emptied(c)
    <3> DEFINE a == Len(m[c].chan)
               b == Len(m[c].held)
               d == dropped[c]
    <3>1. a \in Nat /\ b \in Nat /\ d \in Nat /\ n = a + b
      BY <1>1, <2>8, FlowTypes
    <3> HIDE DEF a, b, d
    <3>2. n + d = 0 + d + a + b
      BY <3>1
    <3>3. m'[c].report + dropped'[c] = m[c].report + dropped[c] + Len(m[c].chan) + Len(m[c].held)
      BY <1>3, <2>5, <2>7, <3>2 DEF a, b, d
    <3>4. QED
      BY <1>3, <2>5, <2>7, <3>3 DEF Emptied
  <2>10. FlowAt(c)'
    BY <1>1, <2>7, <2>9, FlowEmpties
  <2>11. RelayingAt(c)'
    BY <1>1, <1>3, <2>5, <2>7 DEF RelayingAt, Exits
  <2>12. QED
    BY <1>6, <2>2, <2>10, <2>11, <2>6 DEF r
<1>8. CASE ~m[c].flag /\ m[c].held # <<>>
  <2> DEFINE r == [m[c] EXCEPT !.relay = "send"]
  <2>1. m' = [m EXCEPT ![c] = r]
    BY <1>2, <1>8 DEF RelayTake
  <2>2. r \in Good
    BY <1>2, <1>3, <1>8 DEF Good, Managed, Relays, Fits
  <2>3. /\ r.chan = m[c].chan /\ r.held = m[c].held /\ r.report = m[c].report
        /\ r.relay = "send" /\ r.running = m[c].running
    BY <1>2 DEF Good, Managed
  <2> HIDE DEF r
  <2>4. TypeOK' /\ m'[c] = r
    BY <1>5, <2>1, <2>2
  <2>5. Quiet(c)
    BY <1>3, <2>3, <2>4 DEF Quiet
  <2>6. FlowAt(c)'
    BY <1>1, <2>4, <2>5, FlowStays
  <2>7. RelayingAt(c)'
    BY <1>1, <1>3, <2>3, <2>4 DEF RelayingAt, Exits
  <2>8. QED
    BY <1>6, <2>1, <2>2, <2>6, <2>7
<1>9. CASE ~m[c].flag /\ m[c].held = <<>> /\ m[c].chan # <<>>
  <2> DEFINE h == <<Head(m[c].chan)>>
             s == Tail(m[c].chan)
             r == [m[c] EXCEPT !.relay = "send", !.held = h, !.chan = s]
  <2>1. m' = [m EXCEPT ![c] = r]
    BY <1>2, <1>9 DEF RelayTake
  <2>2. h \in Seq(Nat) /\ s \in Seq(Nat) /\ Len(h) = 1 /\ h # <<>> /\ Len(s) <= ChannelSize
    <3>1. m[c].chan \in Seq(Nat) /\ Len(m[c].chan) <= ChannelSize
      BY <1>2, GoodFields DEF Fits
    <3>2. QED
      BY <1>9, <3>1, SizesAssumption DEF SizesAssumption
  <2>3. h = <<Head(m[c].chan)>> /\ s = Tail(m[c].chan)
    OBVIOUS
  <2> HIDE DEF h, s
  <2>4. r \in Managed
    BY <1>2, <2>2 DEF Good, Managed, Relays
  <2>5. /\ r.chan = s /\ r.held = h /\ r.report = m[c].report
        /\ r.relay = "send" /\ r.running = m[c].running /\ r.worker = m[c].worker
    BY <1>2 DEF Good, Managed
  <2> HIDE DEF r
  <2>6. r \in Good
    <3>1. Len(r.chan) <= ChannelSize /\ Len(r.held) <= 1 /\ r.held # <<>>
      <4>1. Len(s) <= ChannelSize /\ Len(h) <= 1 /\ h # <<>>
        BY <2>2
      <4>2. QED
        BY <2>5, <4>1, Zenon
    <3>2. m[c].running <=> m[c].worker # "none"
      BY <1>2, <1>3, GoodFields DEF Fits
    <3>3. r.running <=> r.relay # "none" /\ r.worker # "none"
      BY <2>5, <3>2
    <3>4. QED
      BY <2>4, <3>1, <3>3 DEF Good, Fits
  <2>7. TypeOK' /\ m'[c] = r
    BY <1>5, <2>1, <2>6 DEF r
  <2>8. FlowAt(c)'
    BY <1>1, <1>3, <1>9, <2>3, <2>5, <2>7, FlowTakes
  <2>9. RelayingAt(c)'
    BY <1>1, <1>3, <2>5, <2>7 DEF RelayingAt, Exits
  <2>10. QED
    BY <1>6, <2>1, <2>6, <2>8, <2>9 DEF r
<1>10. CASE ~m[c].flag /\ m[c].held = <<>> /\ m[c].chan = <<>>
  <2> DEFINE r == [m[c] EXCEPT !.relay = "source_closed"]
  <2>1. m' = [m EXCEPT ![c] = r]
    BY <1>2, <1>10 DEF RelayTake
  <2>2. r \in Good
    BY <1>2, <1>3 DEF Good, Managed, Relays, Exits, Fits
  <2>3. /\ r.chan = m[c].chan /\ r.held = m[c].held /\ r.report = m[c].report
        /\ r.relay = "source_closed" /\ r.running = m[c].running
    BY <1>2 DEF Good, Managed
  <2> HIDE DEF r
  <2>4. TypeOK' /\ m'[c] = r
    BY <1>5, <2>1, <2>2
  <2>5. Quiet(c)
    BY <1>3, <2>3, <2>4 DEF Quiet
  <2>6. FlowAt(c)'
    BY <1>1, <2>4, <2>5, FlowStays
  <2>7. RelayingAt(c)'
    BY <1>1, <1>3, <1>10, <2>3, <2>4 DEF RelayingAt, Exits
  <2>8. QED
    BY <1>6, <2>1, <2>2, <2>6, <2>7
<1>11. QED
  BY <1>7, <1>8, <1>9, <1>10

\* A relay keeps an event that does not fit, unless the pipeline has ended.
LEMMA RelaySendKeeps ==
  ASSUME SupervisorInv, NEW c \in Collectors, RelaySend(c)
  PROVE  SupervisorInv'
<1>1. TypeOK /\ \A d \in Collectors : RelayingAt(d) /\ FlowAt(d)
  BY InvIs DEF Flow
<1>2. m \in [Collectors -> Good] /\ QueueTypes /\ MainTypes /\ CountTypes /\ m[c] \in Good
  BY <1>1, TypesAre
<1>3. /\ m[c].relay = "send" /\ m[c].report = 0 /\ out' = out
      /\ pipelineUp' = pipelineUp /\ produced' = produced /\ dropped' = dropped
      /\ joining' = joining /\ remaining' = remaining
  BY <1>1 DEF RelaySend, RelayStep, NoMain, mainVars, RelayingAt, Exits
<1>4. MainTypes' /\ CountTypes'
  BY <1>2 DEF RelaySend, RelayStep, NoMain, mainVars, MainTypes, CountTypes
<1>5. m[c].held # <<>> /\ Head(m[c].held) \in Nat
  <2>1. m[c].held # <<>> /\ m[c].held \in Seq(Nat)
    BY <1>2, <1>3, GoodFields DEF Fits
  <2>2. QED
    BY <2>1
<1>6. ASSUME NEW r \in Good, m' = [m EXCEPT ![c] = r], QueueTypes'
      PROVE  TypeOK' /\ m'[c] = r /\ \A d \in Collectors : d # c => m'[d] = m[d] /\ RelayingAt(d)'
  <2>1. m' \in [Collectors -> Good] /\ m'[c] = r
    BY <1>2, <1>6
  <2>2. TypeOK'
    BY <1>4, <1>6, <2>1, TypesAreNext
  <2>3. \A d \in Collectors : d # c => m'[d] = m[d]
    BY <1>2, <1>6
  <2>4. \A d \in Collectors : d # c => RelayingAt(d)'
    BY <1>1, <1>3, <2>3 DEF RelayingAt
  <2>5. QED
    BY <2>1, <2>2, <2>3, <2>4
<1>7. CASE pipelineUp /\ Len(queue) < QueueSize /\ queue' = Append(queue, <<c, Head(m[c].held)>>)
           /\ m' = [m EXCEPT ![c].relay = "wait", ![c].held = <<>>]
  <2> DEFINE e == <<>>
  <2>1. e \in Seq(Nat) /\ Len(e) = 0 /\ e = <<>> /\ 0 <= 1
    OBVIOUS
  <2>2. m' = [m EXCEPT ![c] = [m[c] EXCEPT !.relay = "wait", !.held = e]]
    BY <1>2, <1>7
  <2> HIDE DEF e
  <2> DEFINE r == [m[c] EXCEPT !.relay = "wait", !.held = e]
  <2>3. r \in Managed
    BY <1>2, <2>1 DEF Good, Managed, Relays
  <2>4. /\ r.chan = m[c].chan /\ r.held = <<>> /\ r.report = 0 /\ r.relay = "wait"
        /\ r.running = m[c].running /\ r.worker = m[c].worker
    BY <1>2, <1>3, <2>1 DEF Good, Managed
  <2> HIDE DEF r
  <2>5. r \in Good
    <3>1. Len(r.chan) <= ChannelSize /\ Len(r.held) <= 1
      <4>1. Len(m[c].chan) <= ChannelSize
        BY <1>2, GoodFields DEF Fits
      <4>2. QED
        BY <2>1, <2>4, <4>1, Zenon
    <3>2. m[c].running <=> m[c].worker # "none"
      BY <1>2, <1>3, GoodFields DEF Fits
    <3>3. r.running <=> r.relay # "none" /\ r.worker # "none"
      BY <2>4, <3>2
    <3>4. QED
      BY <2>3, <2>4, <3>1, <3>3 DEF Good, Fits
  <2>6. QueueTypes'
    <3> DEFINE y == <<c, Head(m[c].held)>>
    <3>1. y \in Collectors \X Nat
      BY <1>5
    <3> HIDE DEF y
    <3>2. Append(queue, y) \in Seq(Collectors \X Nat) /\ Len(Append(queue, y)) = Len(queue) + 1
      BY <1>2, <3>1 DEF QueueTypes
    <3>3. Len(queue) + 1 <= QueueSize
      BY <1>2, <1>7, SizesAssumption DEF QueueTypes, SizesAssumption
    <3>4. QED
      BY <1>7, <3>2, <3>3 DEF QueueTypes, y
  <2>7. TypeOK' /\ m'[c] = r /\ \A d \in Collectors : d # c => m'[d] = m[d] /\ RelayingAt(d)'
    BY <1>6, <2>2, <2>5, <2>6 DEF r
  <2>8. FlowAt(c)'
    BY <1>1, <1>3, <1>5, <1>7, <2>4, <2>7, FlowSends
  <2>9. \A d \in Collectors : d # c => FlowAt(d)'
    BY <1>1, <1>3, <1>5, <1>7, <2>7, FlowOtherSends
  <2>10. RelayingAt(c)'
    BY <1>1, <1>3, <2>4, <2>7 DEF RelayingAt, Exits
  <2>11. QED
    BY <2>7, <2>8, <2>9, <2>10, InvIsNext DEF Flow
<1>8. CASE queue' = queue /\ m' = [m EXCEPT ![c].relay = "wait"]
  <2> DEFINE r == [m[c] EXCEPT !.relay = "wait"]
  <2>1. m' = [m EXCEPT ![c] = r] /\ QueueTypes'
    BY <1>2, <1>8 DEF QueueTypes
  <2>2. r \in Good
    BY <1>2, <1>3 DEF Good, Managed, Relays, Fits
  <2>3. /\ r.chan = m[c].chan /\ r.held = m[c].held /\ r.report = 0
        /\ r.relay = "wait" /\ r.running = m[c].running
    BY <1>2, <1>3 DEF Good, Managed
  <2> HIDE DEF r
  <2>4. TypeOK' /\ m'[c] = r /\ \A d \in Collectors : d # c => m'[d] = m[d] /\ RelayingAt(d)'
    BY <1>6, <2>1, <2>2
  <2>5. Quiet(c) /\ \A d \in Collectors : d # c => Quiet(d)
    BY <1>3, <1>8, <2>3, <2>4 DEF Quiet
  <2>6. \A d \in Collectors : FlowAt(d)'
    BY <1>1, <2>4, <2>5, FlowStays
  <2>7. RelayingAt(c)'
    BY <1>1, <1>3, <2>3, <2>4 DEF RelayingAt, Exits
  <2>8. QED
    BY <2>4, <2>6, <2>7, InvIsNext DEF Flow
<1>9. CASE ~pipelineUp /\ queue' = queue
           /\ m' = [m EXCEPT ![c].relay = "pipeline_closed", ![c].held = <<>>]
  <2> DEFINE e == <<>>
  <2>1. e \in Seq(Nat) /\ Len(e) = 0 /\ e = <<>> /\ 0 <= 1
    OBVIOUS
  <2>2. m' = [m EXCEPT ![c] = [m[c] EXCEPT !.relay = "pipeline_closed", !.held = e]] /\ QueueTypes'
    BY <1>2, <1>9 DEF QueueTypes
  <2> HIDE DEF e
  <2> DEFINE r == [m[c] EXCEPT !.relay = "pipeline_closed", !.held = e]
  <2>3. r \in Managed
    BY <1>2, <2>1 DEF Good, Managed, Relays, Exits
  <2>4. /\ r.chan = m[c].chan /\ r.held = <<>> /\ r.relay = "pipeline_closed"
        /\ r.running = m[c].running /\ r.worker = m[c].worker
    BY <1>2, <1>3, <2>1 DEF Good, Managed
  <2> HIDE DEF r
  <2>5. r \in Good
    <3>1. Len(r.chan) <= ChannelSize /\ Len(r.held) <= 1
      <4>1. Len(m[c].chan) <= ChannelSize
        BY <1>2, GoodFields DEF Fits
      <4>2. QED
        BY <2>1, <2>4, <4>1, Zenon
    <3>2. m[c].running <=> m[c].worker # "none"
      BY <1>2, <1>3, GoodFields DEF Fits
    <3>3. r.running <=> r.relay # "none" /\ r.worker # "none"
      BY <2>4, <3>2
    <3>4. QED
      BY <2>3, <2>4, <3>1, <3>3 DEF Good, Fits
  <2>6. TypeOK' /\ m'[c] = r /\ \A d \in Collectors : d # c => m'[d] = m[d] /\ RelayingAt(d)'
    BY <1>6, <2>2, <2>5 DEF r
  <2>7. FlowAt(c)'
    BY <1>1, <1>3, <1>9, <2>4, <2>6, FlowCut
  <2>8. \A d \in Collectors : d # c => FlowAt(d)'
    BY <1>1, <1>3, <1>9, <2>6, FlowCut
  <2>9. RelayingAt(c)'
    BY <1>1, <1>3, <1>9, <2>4, <2>6 DEF RelayingAt, Exits
  <2>10. QED
    BY <2>6, <2>7, <2>8, <2>9, InvIsNext DEF Flow
<1>10. QED
  BY <1>7, <1>8, <1>9 DEF RelaySend

LEMMA ConsumeKeeps ==
  ASSUME SupervisorInv, Consume
  PROVE  SupervisorInv'
<1>1. TypeOK /\ \A d \in Collectors : RelayingAt(d) /\ FlowAt(d)
  BY InvIs DEF Flow
<1>2. m \in [Collectors -> Good] /\ QueueTypes /\ MainTypes /\ CountTypes
  BY <1>1, TypesAre
<1> DEFINE d == Head(queue)[1]
           x == Head(queue)[2]
<1>3. /\ queue # <<>> /\ queue' = Tail(queue) /\ m' = m /\ pipelineUp' = pipelineUp
      /\ produced' = produced /\ dropped' = dropped /\ joining' = joining
      /\ remaining' = remaining /\ out' = [out EXCEPT ![d] = Append(out[d], x)]
  BY DEF Consume, RelayStep, NoMain, mainVars
<1>4. d \in Collectors /\ x \in Nat /\ QueueTypes'
  <2>1. Head(queue) \in Collectors \X Nat /\ Tail(queue) \in Seq(Collectors \X Nat)
        /\ Len(Tail(queue)) = Len(queue) - 1 /\ Len(queue) \in Nat
    BY <1>2, <1>3 DEF QueueTypes
  <2>2. Len(queue) - 1 <= QueueSize
    BY <1>2, <2>1, SizesAssumption DEF QueueTypes, SizesAssumption
  <2>3. QED
    BY <1>3, <2>1, <2>2 DEF QueueTypes
<1>5. \A c \in Collectors : out'[c] = IF d = c THEN Append(out[c], x) ELSE out[c]
  BY <1>2, <1>3, <1>4 DEF CountTypes
<1>6. CountTypes'
  <2>1. Append(out[d], x) \in Seq(Nat)
    BY <1>2, <1>4 DEF CountTypes
  <2> HIDE DEF d, x
  <2>2. QED
    BY <1>2, <1>3, <2>1 DEF CountTypes
<1>7. TypeOK'
  <2>1. MainTypes'
    BY <1>2 DEF Consume, RelayStep, NoMain, mainVars, MainTypes
  <2>2. (m \in [Collectors -> Good])'
    BY <1>2, <1>3
  <2>3. QED
    BY <1>4, <1>6, <2>1, <2>2, TypesAreNext
<1>8. \A c \in Collectors : RelayingAt(c)'
  BY <1>1, <1>3 DEF RelayingAt
<1>9. \A c \in Collectors : FlowAt(c)'
  BY <1>1, <1>3, <1>5, FlowConsumes
<1>10. QED
  BY <1>7, <1>8, <1>9, InvIsNext DEF Flow

LEMMA PipelineEndsKeeps ==
  ASSUME SupervisorInv, PipelineEnds
  PROVE  SupervisorInv'
<1>1. TypeOK /\ \A d \in Collectors : RelayingAt(d) /\ FlowAt(d)
  BY InvIs DEF Flow
<1>2. m \in [Collectors -> Good] /\ QueueTypes /\ MainTypes /\ CountTypes
  BY <1>1, TypesAre
<1>3. QueueTypes'
  <2>1. queue' = <<>> /\ <<>> \in Seq(Collectors \X Nat) /\ Len(<<>>) = 0
    BY DEF PipelineEnds
  <2>2. 0 <= QueueSize
    BY SizesAssumption DEF SizesAssumption
  <2>3. QED
    BY <2>1, <2>2 DEF QueueTypes
<1>4. TypeOK'
  <2>1. MainTypes' /\ CountTypes' /\ (m \in [Collectors -> Good])'
    BY <1>2 DEF PipelineEnds, NoMain, mainVars, MainTypes, CountTypes
  <2>2. QED
    BY <1>3, <2>1, TypesAreNext
<1>5. \A c \in Collectors : RelayingAt(c)'
  BY <1>1 DEF RelayingAt, PipelineEnds, NoMain, mainVars
<1>6. \A c \in Collectors : FlowAt(c)'
  BY <1>1, FlowCut DEF PipelineEnds, NoMain, mainVars
<1>7. QED
  BY <1>4, <1>5, <1>6, InvIsNext DEF Flow

LEMMA ElsewhereKeeps ==
  ASSUME SupervisorInv, TypeOK', \A c \in Collectors : RelayingAt(c)',
         \A c \in Collectors : Quiet(c) \/ Emptied(c)
  PROVE  SupervisorInv'
<1>1. TypeOK /\ \A c \in Collectors : FlowAt(c)
  BY InvIs DEF Flow
<1>2. \A c \in Collectors : FlowAt(c)'
  BY <1>1, FlowStays, FlowEmpties
<1>3. QED
  BY <1>2, InvIsNext DEF Flow

LEMMA PermissionKeeps ==
  ASSUME SupervisorInv, PermissionChanges
  PROVE  SupervisorInv'
<1>1. TypeOK /\ \A c \in Collectors : RelayingAt(c)
  BY InvIs
<1>2. m \in [Collectors -> Good] /\ QueueTypes /\ MainTypes /\ CountTypes
  BY <1>1, TypesAre
<1>3. QueueTypes' /\ MainTypes' /\ CountTypes' /\ (m \in [Collectors -> Good])'
  BY <1>2 DEF PermissionChanges, NoMain, mainVars, QueueTypes, MainTypes, CountTypes
<1>4. TypeOK'
  BY <1>3, TypesAreNext
<1>5. \A c \in Collectors : Quiet(c)
  BY DEF Quiet, PermissionChanges, NoMain
<1>6. \A c \in Collectors : RelayingAt(c)'
  BY <1>1 DEF RelayingAt, PermissionChanges, NoMain, mainVars
<1>7. QED
  BY <1>4, <1>5, <1>6, ElsewhereKeeps

LEMMA TickKeeps ==
  ASSUME SupervisorInv, Tick
  PROVE  SupervisorInv'
<1>1. TypeOK /\ \A c \in Collectors : RelayingAt(c)
  BY InvIs
<1>2. m \in [Collectors -> Good] /\ QueueTypes /\ MainTypes /\ CountTypes
  BY <1>1, TypesAre
<1> DEFINE Later(r) == [r EXCEPT !.restart.timer = IF @ > 0 THEN @ - 1 ELSE @,
                                 !.age = IF @ = None THEN None ELSE Capped(@ + 1, StableAfter)]
<1>3. m' = [c \in Collectors |-> Later(m[c])]
  BY DEF Tick
<1>4. ASSUME NEW r \in Good
      PROVE  /\ Later(r) \in Good /\ Later(r).chan = r.chan /\ Later(r).held = r.held
             /\ Later(r).report = r.report /\ Later(r).relay = r.relay
             /\ Later(r).worker = r.worker /\ Later(r).running = r.running
  <2> DEFINE u == IF r.restart.timer > 0 THEN r.restart.timer - 1 ELSE r.restart.timer
             a == IF r.age = None THEN None ELSE Capped(r.age + 1, StableAfter)
             s == [r.restart EXCEPT !.timer = u]
  <2>1. r.restart \in Restarts /\ r.restart.timer \in None .. Longest /\ r.age \in None .. StableAfter
    BY GoodFields DEF Restarts
  <2>2. u \in None .. Longest
    BY <2>1, DelayTypes DEF None
  <2>3. a \in None .. StableAfter
    BY <2>1, DelaysAssumption DEF DelaysAssumption, None, Capped
  <2> HIDE DEF u, a
  <2>4. s \in Restarts
    BY <2>1, <2>2 DEF Restarts
  <2>5. Later(r) = [r EXCEPT !.restart = s, !.age = a]
    BY DEF Good, Managed, u, a
  <2> HIDE DEF s
  <2>6. /\ Later(r) \in Managed /\ Later(r).chan = r.chan /\ Later(r).held = r.held
        /\ Later(r).report = r.report /\ Later(r).relay = r.relay
        /\ Later(r).worker = r.worker /\ Later(r).running = r.running
    BY <2>3, <2>4, <2>5 DEF Good, Managed, Restarts
  <2> HIDE DEF Later
  <2>7. Fits(Later(r))
    BY <2>6, GoodFields DEF Fits
  <2>8. QED
    BY <2>6, <2>7 DEF Good
<1> HIDE DEF Later
<1>5. \A c \in Collectors :
        /\ m'[c] \in Good /\ m'[c].chan = m[c].chan /\ m'[c].held = m[c].held
        /\ m'[c].report = m[c].report /\ m'[c].relay = m[c].relay
        /\ m'[c].worker = m[c].worker /\ m'[c].running = m[c].running
  BY <1>2, <1>3, <1>4
<1>6. TypeOK'
  <2>1. (m \in [Collectors -> Good])'
    BY <1>3, <1>5
  <2>2. QueueTypes' /\ CountTypes'
    BY <1>2 DEF Tick, QueueTypes, CountTypes
  <2>3. MainTypes'
    BY <1>2 DEF Tick, MainTypes
  <2>4. QED
    BY <2>1, <2>2, <2>3, TypesAreNext
<1>7. \A c \in Collectors : Quiet(c)
  BY <1>5 DEF Quiet, Tick
<1>8. \A c \in Collectors : RelayingAt(c)'
  <2>1. pipelineUp' = pipelineUp /\ joining' = joining /\ remaining' = remaining
    BY DEF Tick
  <2>2. QED
    BY <1>1, <1>5, <2>1 DEF RelayingAt
<1>9. QED
  BY <1>6, <1>7, <1>8, ElsewhereKeeps

-----------------------------------------------------------------------------
(* The steps of the main thread.                                           *)

\* While it is free the main thread waits for no relay: what does not run has none.
LEMMA FreeRests ==
  ASSUME SupervisorInv, Free
  PROVE  /\ joining = FALSE
         /\ \A c \in Collectors : ~m[c].running => m[c].relay = "none" /\ m[c].worker = "none"
                                                  /\ m[c].report = 0
<1>1. MainTypes /\ \A c \in Collectors : RelayingAt(c)
  BY InvIs, TypesAre
<1>2. joining = FALSE
  BY <1>1 DEF MainTypes, Free
<1>3. QED
  BY <1>1, <1>2 DEF RelayingAt, Exits

\* Stop and PipelineMissed: all collectors are to be stopped.
LEMMA BeginStopKeeps ==
  ASSUME SupervisorInv, Free, stopping' \in {"drain", "discard"}, remaining' = StopOrder,
         due' = {}, ended' \in BOOLEAN, Stopping, UNCHANGED <<m, active, joining, dropped>>
  PROVE  SupervisorInv'
<1>1. TypeOK /\ \A c \in Collectors : RelayingAt(c)
  BY InvIs
<1>2. m \in [Collectors -> Good] /\ QueueTypes /\ MainTypes /\ CountTypes
  BY <1>1, TypesAre
<1>3. joining' = FALSE /\ \A c \in Collectors : ~m[c].running => m[c].relay = "none"
  BY FreeRests
<1>4. TypeOK'
  <2>1. QueueTypes' /\ CountTypes' /\ (m \in [Collectors -> Good])'
    BY <1>2 DEF Stopping, QueueTypes, CountTypes
  <2>2. StopOrder \in Seq(Collectors)
    BY CollectorsAssumption DEF CollectorsAssumption
  <2>3. MainTypes'
    BY <1>2, <1>3, <2>2 DEF Stopping, MainTypes
  <2>4. QED
    BY <2>1, <2>3, TypesAreNext
<1>5. \A c \in Collectors : Quiet(c)
  BY DEF Quiet, Stopping
<1>6. \A c \in Collectors : RelayingAt(c)'
  BY <1>1, <1>3 DEF RelayingAt, Stopping
<1>7. QED
  BY <1>4, <1>5, <1>6, ElsewhereKeeps

LEMMA StopDoneKeeps ==
  ASSUME SupervisorInv, StopDone
  PROVE  SupervisorInv'
<1>1. TypeOK /\ \A c \in Collectors : RelayingAt(c)
  BY InvIs
<1>2. m \in [Collectors -> Good] /\ QueueTypes /\ MainTypes /\ CountTypes
  BY <1>1, TypesAre
<1>3. TypeOK'
  <2>1. QueueTypes' /\ CountTypes' /\ (m \in [Collectors -> Good])'
    BY <1>2 DEF StopDone, Stopping, QueueTypes, CountTypes
  <2>2. MainTypes'
    BY <1>2 DEF StopDone, Stopping, MainTypes
  <2>3. QED
    BY <2>1, <2>2, TypesAreNext
<1>4. \A c \in Collectors : Quiet(c)
  BY DEF Quiet, StopDone, Stopping
<1>5. \A c \in Collectors : RelayingAt(c)'
  BY <1>1 DEF RelayingAt, StopDone, Stopping
<1>6. QED
  BY <1>3, <1>4, <1>5, ElsewhereKeeps

LEMMA StopOneKeeps ==
  ASSUME SupervisorInv, StopOne
  PROVE  SupervisorInv'
<1>1. TypeOK /\ \A c \in Collectors : RelayingAt(c)
  BY InvIs
<1>2. m \in [Collectors -> Good] /\ QueueTypes /\ MainTypes /\ CountTypes
  BY <1>1, TypesAre
<1>3. Head(remaining) \in Collectors /\ Tail(remaining) \in Seq(Collectors)
  BY <1>2 DEF StopOne, MainTypes
<1>4. PICK c \in Collectors : c = Head(remaining)
  BY <1>3
<1> DEFINE discard == stopping = "discard" \/ c \in Discarding
<1>5. /\ m[c] \in Good /\ Tail(remaining) \in Seq(Collectors)
      /\ discard \in BOOLEAN /\ None \in None .. StableAfter
  BY <1>2, <1>3, DelaysAssumption DEF DelaysAssumption, None
<1>6. QueueTypes' /\ CountTypes' /\ pipelineUp' = pipelineUp /\ ~joining
  BY <1>2 DEF StopOne, Stopping, QueueTypes, CountTypes
<1>7. CASE m[c].relay = "none"
  <2> DEFINE r == [m[c] EXCEPT !.age = None]
  <2>1. m' = [m EXCEPT ![c] = r] /\ remaining' = Tail(remaining) /\ joining' = joining
    BY <1>2, <1>5, <1>7, <1>4 DEF StopOne
  <2>2. r \in Good
    BY <1>5 DEF Good, Managed, Fits
  <2>3. \A d \in Collectors :
          /\ m'[d].chan = m[d].chan /\ m'[d].held = m[d].held
          /\ m'[d].report = m[d].report /\ m'[d].relay = m[d].relay
          /\ m'[d].worker = m[d].worker /\ m'[d].running = m[d].running
    BY <1>2, <1>5, <2>1 DEF Good, Managed
  <2>4. (m \in [Collectors -> Good])'
    BY <1>2, <1>5, <2>1, <2>2
  <2>5. MainTypes'
    BY <1>2, <1>5, <1>6, <2>1 DEF StopOne, Stopping, MainTypes
  <2>6. TypeOK'
    BY <1>6, <2>4, <2>5, TypesAreNext
  <2>7. \A d \in Collectors : Quiet(d)
    BY <2>3 DEF Quiet, StopOne, Stopping
  <2>8. \A d \in Collectors : RelayingAt(d)'
    BY <1>1, <1>6, <2>3 DEF RelayingAt
  <2>9. QED
    BY <2>6, <2>7, <2>8, ElsewhereKeeps
<1>8. CASE m[c].relay # "none"
  <2> HIDE DEF discard
  <2> DEFINE r == [m[c] EXCEPT !.running = FALSE, !.worker = "none", !.age = None, !.flag = discard]
  <2>1. m' = [m EXCEPT ![c] = r] /\ joining' = TRUE /\ remaining' = remaining
    BY <1>2, <1>5, <1>8, <1>4 DEF StopOne, discard
  <2>2. /\ r \in Managed /\ r.chan = m[c].chan /\ r.held = m[c].held /\ r.report = m[c].report
        /\ r.relay = m[c].relay /\ r.worker = "none" /\ r.running = FALSE
    BY <1>5 DEF Good, Managed
  <2> HIDE DEF r
  <2>3. r \in Good
    BY <1>5, <2>2, GoodFields DEF Good, Fits
  <2>4. m'[c] = r /\ \A d \in Collectors : d # c => m'[d] = m[d]
    BY <1>2, <1>5, <2>1
  <2>5. (m \in [Collectors -> Good])'
    BY <1>2, <1>5, <2>1, <2>3
  <2>6. MainTypes'
    BY <1>2, <2>1 DEF StopOne, Stopping, MainTypes
  <2>7. TypeOK'
    BY <1>6, <2>5, <2>6, TypesAreNext
  <2>8. \A d \in Collectors : Quiet(d)
    BY <2>2, <2>4 DEF Quiet, StopOne, Stopping
  <2>9. RelayingAt(c)'
    BY <1>1, <1>5, <1>6, <1>4, <2>1, <2>2, <2>4 DEF RelayingAt
  <2>10. \A d \in Collectors : d # c => RelayingAt(d)'
    BY <1>1, <1>6, <2>1, <2>4 DEF RelayingAt
  <2>11. QED
    BY <2>7, <2>8, <2>9, <2>10, ElsewhereKeeps
<1>9. QED
  BY <1>7, <1>8

LEMMA JoinedKeeps ==
  ASSUME SupervisorInv, Joined
  PROVE  SupervisorInv'
<1>1. TypeOK /\ \A d \in Collectors : RelayingAt(d)
  BY InvIs
<1>2. m \in [Collectors -> Good] /\ QueueTypes /\ MainTypes /\ CountTypes
  BY <1>1, TypesAre
<1>3. Head(remaining) \in Collectors /\ Tail(remaining) \in Seq(Collectors)
  BY <1>2 DEF Joined, MainTypes
<1>4. PICK c \in Collectors : c = Head(remaining)
  BY <1>3
<1> DEFINE r == [Idle EXCEPT !.restart = m[c].restart]
           n == dropped[c] + m[c].report
<1>5. m[c] \in Good /\ m[c].relay \in Exits
  BY <1>2, <1>4 DEF Joined
<1>6. /\ m' = [m EXCEPT ![c] = r] /\ dropped' = [dropped EXCEPT ![c] = n]
      /\ joining' = FALSE /\ remaining' = Tail(remaining)
  BY <1>4 DEF Joined
<1>7. r \in Managed
  BY <1>5, IdleTypes, GoodFields DEF Good, Managed, Restarts
<1>8. /\ r.chan = <<>> /\ r.held = <<>> /\ r.report = 0 /\ r.relay = "none"
      /\ r.worker = "none" /\ r.running = FALSE
  BY DEF Idle
<1> HIDE DEF r
<1>9. r \in Good
  BY <1>7, <1>8, SizesAssumption DEF SizesAssumption, Good, Fits
<1>10. m'[c] = r /\ \A d \in Collectors : d # c => m'[d] = m[d] /\ dropped'[d] = dropped[d]
  BY <1>2, <1>5, <1>6 DEF CountTypes
<1>11. m[c].report \in Nat /\ dropped[c] \in Nat /\ n \in Nat /\ dropped'[c] = dropped[c] + m[c].report
  BY <1>1, <1>2, <1>6, FlowTypes DEF CountTypes
<1> HIDE DEF n
<1>12. TypeOK'
  <2>1. (m \in [Collectors -> Good])'
    BY <1>2, <1>5, <1>6, <1>9
  <2>2. dropped' \in [Collectors -> Nat]
    BY <1>2, <1>6, <1>11 DEF CountTypes
  <2>3. QueueTypes' /\ CountTypes'
    BY <1>2, <2>2 DEF Joined, Stopping, QueueTypes, CountTypes
  <2>4. MainTypes'
    BY <1>2, <1>3, <1>6 DEF Joined, Stopping, MainTypes
  <2>5. QED
    BY <2>1, <2>3, <2>4, TypesAreNext
<1>13. Emptied(c)
  <2>1. pipelineUp => m[c].chan = <<>> /\ m[c].held = <<>>
    BY <1>1, <1>5 DEF RelayingAt, Exits
  <2>2. m'[c].report + dropped'[c] = m[c].report + dropped[c] + 0 + 0
    BY <1>8, <1>10, <1>11
  <2>3. Len(<<>>) = 0
    OBVIOUS
  <2>4. QED
    BY <1>8, <1>10, <2>1, <2>2, <2>3 DEF Emptied, Joined, Stopping
<1>14. \A d \in Collectors : d # c => Quiet(d)
  BY <1>10 DEF Quiet, Joined, Stopping
<1>15. RelayingAt(c)'
  BY <1>8, <1>10 DEF RelayingAt, Exits
<1>16. ASSUME NEW d \in Collectors, d # c
       PROVE  RelayingAt(d)'
  <2>1. m'[d] = m[d] /\ pipelineUp' = pipelineUp
    BY <1>10, <1>16 DEF Joined, Stopping
  <2>2. QED
    BY <1>1, <1>4, <1>16, <2>1 DEF RelayingAt
<1>17. QED
  BY <1>12, <1>13, <1>14, <1>15, <1>16, ElsewhereKeeps

\* A start changes nothing of what a collector without a relay has in line.
LEMMA StartFields ==
  ASSUME NEW r \in Good, NEW ok \in BOOLEAN, NEW allowed \in BOOLEAN,
         ~r.running => r.relay = "none" /\ r.worker = "none" /\ r.report = 0
  PROVE  LET s == StartManaged(r, ok, allowed) IN
           /\ s.chan = r.chan /\ s.held = r.held /\ s.report = r.report
           /\ s.running => s = r \/ (s.relay = "wait" /\ s.worker = "alive")
           /\ ~s.running => s.relay = "none" /\ s.worker = "none"
<1>1. CASE r.running
  BY <1>1 DEF StartManaged
<1>2. CASE ~r.running /\ ok
  <2> DEFINE s == [r EXCEPT !.running = TRUE, !.worker = "alive", !.relay = "wait",
                            !.flag = FALSE, !.report = 0, !.age = 0,
                            !.restart = Started(r.restart)]
  <2>1. /\ s.chan = r.chan /\ s.held = r.held /\ s.report = r.report /\ s.running = TRUE
        /\ s.relay = "wait" /\ s.worker = "alive"
    BY <1>2 DEF Good, Managed
  <2>2. StartManaged(r, ok, allowed) = s
    BY <1>2 DEF StartManaged
  <2> HIDE DEF s
  <2>3. QED
    BY <2>1, <2>2
<1>3. CASE ~r.running /\ ~ok
  <2> DEFINE s == [r EXCEPT !.restart = Schedule(r.restart, allowed)]
  <2>1. /\ s.chan = r.chan /\ s.held = r.held /\ s.report = r.report /\ ~s.running
        /\ s.relay = "none" /\ s.worker = "none"
    BY <1>3 DEF Good, Managed
  <2>2. StartManaged(r, ok, allowed) = s
    BY <1>3 DEF StartManaged
  <2> HIDE DEF s
  <2>3. QED
    BY <2>1, <2>2
<1>4. QED
  BY <1>1, <1>2, <1>3

LEMMA StartAllKeeps ==
  ASSUME SupervisorInv, StartAll
  PROVE  SupervisorInv'
<1>1. TypeOK /\ \A c \in Collectors : RelayingAt(c)
  BY InvIs
<1>2. m \in [Collectors -> Good] /\ QueueTypes /\ MainTypes /\ CountTypes
  BY <1>1, TypesAre
<1>3. PICK bad \in SUBSET Collectors :
        m' = [c \in Collectors |-> StartManaged(m[c], c \notin bad, TRUE)]
  BY DEF StartAll
<1>4. /\ queue' = queue /\ out' = out /\ produced' = produced /\ dropped' = dropped
      /\ pipelineUp' = pipelineUp /\ joining' = joining /\ remaining' = remaining
  BY DEF StartAll
<1>5. ASSUME NEW c \in Collectors
      PROVE  m'[c] \in Good /\ Quiet(c) /\ RelayingAt(c)'
  <2> DEFINE ok == c \notin bad
             s  == StartManaged(m[c], ok, TRUE)
  <2>1. m[c] \in Good /\ ok \in BOOLEAN /\ m'[c] = s
    BY <1>2, <1>3
  <2>2. ~m[c].running => m[c].relay = "none" /\ m[c].worker = "none" /\ m[c].report = 0
    BY FreeRests DEF StartAll
  <2> HIDE DEF ok
  <2>3. /\ s.chan = m[c].chan /\ s.held = m[c].held /\ s.report = m[c].report
        /\ s.running => s = m[c] \/ (s.relay = "wait" /\ s.worker = "alive")
        /\ ~s.running => s.relay = "none" /\ s.worker = "none"
    BY <2>1, <2>2, StartFields
  <2>4. s \in Good
    BY <2>1, StartTypes
  <2> HIDE DEF s
  <2>5. Quiet(c)
    BY <1>4, <2>1, <2>3 DEF Quiet
  <2>6. RelayingAt(c)'
    <3>1. CASE m[c].running /\ s = m[c]
      BY <1>1, <1>4, <2>1, <3>1 DEF RelayingAt
    <3>2. CASE ~s.running /\ ~m[c].running
      BY <1>1, <1>4, <2>1, <2>2, <2>3, <3>2 DEF RelayingAt, Exits
    <3>3. CASE s.running /\ ~m[c].running
      <4>1. s.relay = "wait" /\ s.report = 0
        BY <2>2, <2>3, <3>3
      <4>2. QED
        BY <2>1, <3>3, <4>1 DEF RelayingAt, Exits
    <3>4. QED
      <4>1. s.running \/ ~s.running
        OBVIOUS
      <4>2. m[c].running => s = m[c]
        BY DEF StartManaged, s
      <4>3. QED
        BY <3>1, <3>2, <3>3, <4>1, <4>2
  <2>7. QED
    BY <2>1, <2>4, <2>5, <2>6
<1>6. TypeOK'
  <2>1. (m \in [Collectors -> Good])'
    BY <1>3, <1>5
  <2>2. QueueTypes' /\ CountTypes' /\ MainTypes'
    BY <1>2 DEF StartAll, QueueTypes, CountTypes, MainTypes
  <2>3. QED
    BY <2>1, <2>2, TypesAreNext
<1>7. QED
  BY <1>5, <1>6, ElsewhereKeeps

\* What supervision makes of a record: left alone, stable, or started.
After(f, r) ==
  /\ f \in Good /\ f.chan = r.chan /\ f.held = r.held /\ f.report = r.report
  /\ f.running => \/ r.running /\ f.relay = r.relay /\ f.worker = r.worker
                  \/ ~r.running /\ f.relay = "wait" /\ f.worker = "alive"
  /\ ~f.running => ~r.running /\ f.relay = "none" /\ f.worker = "none"

LEMMA AfterIs ==
  ASSUME NEW r \in Good, NEW allowed \in BOOLEAN,
         ~r.running => r.relay = "none" /\ r.worker = "none" /\ r.report = 0
  PROVE  /\ After(IF r.running THEN Stable(r) ELSE r, r)
         /\ ~r.running => \A ok \in BOOLEAN : After(StartManaged(r, ok, allowed), r)
<1>1. CASE r.running
  <2> DEFINE f == Stable(r)
  <2>1. /\ f \in Good /\ f.chan = r.chan /\ f.held = r.held /\ f.report = r.report
        /\ f.relay = r.relay /\ f.worker = r.worker /\ f.running = r.running
    BY StableTypes
  <2> HIDE DEF f
  <2>2. After(f, r)
    BY <1>1, <2>1 DEF After
  <2>3. QED
    BY <1>1, <2>2 DEF f
<1>2. CASE ~r.running
  <2>1. After(r, r)
    BY <1>2 DEF After
  <2>2. ASSUME NEW ok \in BOOLEAN
        PROVE  After(StartManaged(r, ok, allowed), r)
    <3> DEFINE f == StartManaged(r, ok, allowed)
    <3>1. /\ f.chan = r.chan /\ f.held = r.held /\ f.report = r.report
          /\ f.running => f = r \/ (f.relay = "wait" /\ f.worker = "alive")
          /\ ~f.running => f.relay = "none" /\ f.worker = "none"
      BY StartFields
    <3>2. f \in Good
      BY StartTypes
    <3> HIDE DEF f
    <3>3. After(f, r)
      BY <1>2, <3>1, <3>2 DEF After
    <3>4. QED
      BY <3>3 DEF f
  <2>3. QED
    BY <1>2, <2>1, <2>2
<1>3. QED
  BY <1>1, <1>2

LEMMA SuperviseKeeps ==
  ASSUME SupervisorInv, NEW c \in Collectors, Supervise(c)
  PROVE  SupervisorInv'
<1>1. TypeOK /\ \A d \in Collectors : RelayingAt(d)
  BY InvIs
<1>2. m \in [Collectors -> Good] /\ QueueTypes /\ MainTypes /\ CountTypes /\ m[c] \in Good
  BY <1>1, TypesAre
<1>3. /\ queue' = queue /\ out' = out /\ produced' = produced
      /\ pipelineUp' = pipelineUp /\ joining' = joining /\ remaining' = remaining
  BY DEF Supervise
<1> DEFINE allowed == permission = "granted" \/ c \notin Guarded
           exits   == m[c].running /\ m[c].relay \in Exits
           r       == IF exits THEN Exited(m[c], allowed) ELSE m[c]
           n       == IF exits THEN dropped[c] + m[c].report ELSE dropped[c]
           stays   == IF r.running THEN Stable(r) ELSE r
           starts  == StartManaged(r, TRUE, allowed)
           fails   == StartManaged(r, FALSE, allowed)
<1>4. dropped' = [dropped EXCEPT ![c] = n]
  BY DEF Supervise
<1>5. \/ m' = [m EXCEPT ![c] = stays]
      \/ ~r.running /\ m' = [m EXCEPT ![c] = starts]
      \/ ~r.running /\ m' = [m EXCEPT ![c] = fails]
  BY DEF Supervise
<1>6. allowed \in BOOLEAN /\ exits \in BOOLEAN
  BY <1>2 DEF Good, Managed
<1>7. m[c].report \in Nat /\ dropped[c] \in Nat /\ n \in Nat
  BY <1>1, <1>6, FlowTypes
<1> HIDE DEF allowed, stays, starts, fails, n
<1>8. /\ r \in Good /\ (~r.running => r.relay = "none" /\ r.worker = "none" /\ r.report = 0)
      /\ exits => ~r.running /\ r.chan = <<>> /\ r.held = <<>> /\ r.report = 0
      /\ ~exits => r = m[c]
  <2>1. CASE exits
    BY <1>2, <1>6, <2>1, ExitedTypes
  <2>2. CASE ~exits
    BY <1>2, <2>2, FreeRests DEF Supervise
  <2>3. QED
    BY <2>1, <2>2
<1>9. exits => m[c].relay \in Exits
  OBVIOUS
<1>10. ~exits => m[c].running \/ (~m[c].running /\ m[c].relay = "none")
  BY FreeRests DEF Supervise
<1>11. n = IF exits THEN dropped[c] + m[c].report ELSE dropped[c]
  BY DEF n
<1> HIDE DEF exits, r
<1>12. PICK f \in Good : After(f, r) /\ m' = [m EXCEPT ![c] = f]
  <2>1. After(stays, r) /\ (~r.running => After(starts, r) /\ After(fails, r))
    BY <1>6, <1>8, AfterIs DEF stays, starts, fails
  <2>2. stays \in Good /\ (~r.running => starts \in Good /\ fails \in Good)
    BY <2>1 DEF After
  <2>3. QED
    BY <1>5, <2>1, <2>2
<1>13. /\ m'[c] = f /\ dropped'[c] = n
       /\ \A d \in Collectors : d # c => m'[d] = m[d] /\ dropped'[d] = dropped[d]
  BY <1>2, <1>4, <1>12 DEF CountTypes
<1>14. TypeOK'
  <2>1. (m \in [Collectors -> Good])'
    BY <1>2, <1>12
  <2>2. dropped' \in [Collectors -> Nat]
    BY <1>2, <1>4, <1>7 DEF CountTypes
  <2>3. QueueTypes' /\ CountTypes' /\ MainTypes'
    BY <1>2, <2>2 DEF Supervise, QueueTypes, CountTypes, MainTypes
  <2>4. QED
    BY <2>1, <2>3, TypesAreNext
<1>15. Quiet(c) \/ Emptied(c)
  <2>1. CASE exits
    <3>1. pipelineUp => m[c].chan = <<>> /\ m[c].held = <<>>
      BY <1>1, <1>9, <2>1 DEF RelayingAt, Exits
    <3>2. f.chan = <<>> /\ f.held = <<>> /\ f.report = 0
      BY <1>8, <1>12, <2>1 DEF After
    <3>3. m'[c].report + dropped'[c] = m[c].report + dropped[c] + 0 + 0
      BY <1>7, <1>11, <1>13, <2>1, <3>2
    <3>4. Len(<<>>) = 0
      OBVIOUS
    <3>5. QED
      BY <1>3, <1>13, <3>1, <3>2, <3>3, <3>4 DEF Emptied
  <2>2. CASE ~exits
    <3>1. f.chan = m[c].chan /\ f.held = m[c].held /\ f.report = m[c].report /\ n = dropped[c]
      BY <1>8, <1>11, <1>12, <2>2 DEF After
    <3>2. QED
      BY <1>3, <1>13, <3>1 DEF Quiet
  <2>3. QED
    BY <2>1, <2>2
<1>16. RelayingAt(c)'
  <2>1. CASE ~f.running
    <3>1. f.relay = "none" /\ f.worker = "none" /\ ~r.running /\ f.report = 0
          /\ f.chan = r.chan /\ f.held = r.held
      BY <1>8, <1>12, <2>1 DEF After
    <3>2. r.chan = <<>> /\ r.held = <<>>
      BY <1>1, <1>8, <3>1 DEF RelayingAt
    <3>3. QED
      BY <1>13, <3>1, <3>2 DEF RelayingAt, Exits
  <2>2. CASE f.running /\ ~r.running
    <3>1. f.relay = "wait" /\ f.report = 0
      BY <1>8, <1>12, <2>2 DEF After
    <3>2. QED
      BY <1>13, <2>2, <3>1 DEF RelayingAt, Exits
  <2>3. CASE f.running /\ r.running
    <3>1. r = m[c] /\ f.relay = r.relay /\ f.worker = r.worker /\ f.chan = r.chan
          /\ f.held = r.held /\ f.report = r.report
      BY <1>8, <1>12, <2>3 DEF After
    <3>2. QED
      BY <1>1, <1>3, <1>13, <2>3, <3>1 DEF RelayingAt
  <2>4. QED
    BY <2>1, <2>2, <2>3
<1>17. \A d \in Collectors : d # c => Quiet(d) /\ RelayingAt(d)'
  BY <1>1, <1>3, <1>13 DEF Quiet, RelayingAt
<1>18. QED
  BY <1>14, <1>15, <1>16, <1>17, ElsewhereKeeps

-----------------------------------------------------------------------------
(* The theorems.                                                           *)

LEMMA InitKeeps == Init => SupervisorInv
<1> SUFFICES ASSUME Init
             PROVE  SupervisorInv
  OBVIOUS
<1>1. \A c \in Collectors : m[c] = Idle
  BY DEF Init
<1>2. m \in [Collectors -> Good]
  BY IdleTypes DEF Init
<1>3. TypeOK
  <2>1. <<>> \in Seq(Collectors \X Nat) /\ <<>> \in Seq(Collectors) /\ <<>> \in Seq(Nat)
        /\ Len(<<>>) = 0
    OBVIOUS
  <2>2. QueueTypes
    BY <2>1, SizesAssumption DEF Init, QueueTypes, SizesAssumption
  <2>3. MainTypes /\ CountTypes
    BY <2>1 DEF Init, MainTypes, CountTypes
  <2>4. QED
    BY <1>2, <2>2, <2>3, TypesAre
<1>4. \A c \in Collectors : RelayingAt(c)
  BY <1>1 DEF RelayingAt, Idle, Exits
<1>5. ASSUME NEW c \in Collectors
      PROVE  FlowAt(c)
  <2>1. out[c] = <<>> /\ m[c].chan = <<>> /\ m[c].held = <<>> /\ queue = <<>>
        /\ m[c].report = 0 /\ dropped[c] = 0 /\ produced[c] = 0
    BY <1>1 DEF Init, Idle
  <2>2. Mine(c) = {}
    BY <2>1 DEF Mine
  <2>3. Taken(c) = {} /\ Queued(c) = {} /\ Held(c) = {} /\ Sent(c) = {}
    BY <2>1, <2>2, RangeEmpty DEF Taken, Queued, Held, Sent
  <2>4. Line(c) = {}
    BY <2>3 DEF Line
  <2>5. NumberedAt(c)
    BY <2>4 DEF NumberedAt
  <2>6. OrderedAt(c)
    BY <2>1, <2>2, <2>3, RangeEmpty DEF OrderedAt, QueueRises, Below
  <2>7. Cardinality(Line(c)) = 0
    BY <2>4, FS_EmptySet
  <2>8. CountedAt(c)
    BY <2>1, <2>7 DEF CountedAt
  <2>9. QED
    BY <2>5, <2>6, <2>8 DEF FlowAt
<1>6. QED
  BY <1>3, <1>4, <1>5, InvIs DEF Flow

LEMMA NextKeeps ==
  ASSUME SupervisorInv, [Next]_vars
  PROVE  SupervisorInv'
<1>1. CASE \E c \in Collectors : Produce(c) \/ WorkerExits(c) \/ RelayTake(c) \/ RelaySend(c)
  BY <1>1, ProduceKeeps, WorkerExitsKeeps, RelayTakeKeeps, RelaySendKeeps
<1>2. CASE Consume \/ PipelineEnds \/ PermissionChanges \/ Tick
  BY <1>2, ConsumeKeeps, PipelineEndsKeeps, PermissionKeeps, TickKeeps
<1>3. CASE StartAll \/ \E c \in Collectors : Supervise(c)
  BY <1>3, StartAllKeeps, SuperviseKeeps
<1>4. ASSUME NEW mode \in {"drain", "discard"}, Stop(mode)
      PROVE  SupervisorInv'
  <2>1. MainTypes
    BY InvIs, TypesAre
  <2>2. ended' \in BOOLEAN
    BY <1>4, <2>1 DEF Stop, MainTypes
  <2>3. QED
    BY <1>4, <2>2, BeginStopKeeps DEF Stop
<1>5. CASE PipelineMissed
  BY <1>5, BeginStopKeeps DEF PipelineMissed
<1>6. CASE StopOne \/ Joined \/ StopDone
  BY <1>6, StopOneKeeps, JoinedKeeps, StopDoneKeeps
<1>7. CASE UNCHANGED vars
  <2>1. SupervisorInv' <=> SupervisorInv
    BY <1>7 DEF vars, mainVars, SupervisorInv, TypeOK, Relaying, Numbered, EventsAccounted,
                EventsInOrder, Line, Taken, Mine, Queued, Held, Sent
  <2>2. QED
    BY <2>1
<1>8. QED
  BY <1>1, <1>2, <1>3, <1>4, <1>5, <1>6, <1>7 DEF Next

\* The inductive invariant holds: what a relay still holds, what it has counted and
\* what the pipeline has taken of a collector fit together at every step (relay.rs,
\* supervisor.rs).
THEOREM SupervisorInvariant == Spec => []SupervisorInv
<1>1. Init => SupervisorInv
  BY InitKeeps
<1>2. SupervisorInv /\ [Next]_vars => SupervisorInv'
  BY NextKeeps
<1>3. QED
  BY <1>1, <1>2, PTL DEF Spec

\* The records, queues and channels keep their types and their bounds.
THEOREM TypeCorrect == Spec => []TypeOK
<1>1. SupervisorInv => TypeOK
  BY DEF SupervisorInv
<1>2. QED
  BY <1>1, SupervisorInvariant, PTL

\* However many collectors there are and however small the channels: an event a relay
\* has accepted is taken, on its way, or counted as dropped (relay.rs forward,
\* supervisor.rs stop_collector and supervise_collector_inner).
THEOREM EveryEventAccounted == Spec => []EventsAccounted
<1>1. SupervisorInv => EventsAccounted
  BY DEF SupervisorInv
<1>2. QED
  BY <1>1, SupervisorInvariant, PTL

\* The events of a collector reach the pipeline in the order they were sent, none
\* twice, through retries, stops and restarts (relay.rs forward).
THEOREM OrderKept == Spec => []EventsInOrder
<1>1. SupervisorInv => EventsInOrder
  BY DEF SupervisorInv
<1>2. QED
  BY <1>1, SupervisorInvariant, PTL

-----------------------------------------------------------------------------
(* How restarts are paced.                                                 *)

\* A delay under way, and the index the next one is taken from, are at least what
\* the failures in a row ask for.
Delayed(x, p) ==
  /\ p.ran < StableAfter => p.streak <= x.index
  /\ x.timer # None /\ p.streak > 0 => p.since + x.timer >= Delays[p.streak]
\* A collector is not taken to be older than its relay was open.
Aged(r, p) == r.age # None => r.running /\ (r.relay \notin Exits => r.age <= p.ran)
Paced(r, p) == Delayed(r.restart, p) /\ Aged(r, p)

\* Only a collector that is still to be stopped runs while the main thread stops them.
Halting ==
  \A c \in Collectors :
    m[c].running => active /\ (stopping = "no" \/ \E i \in 1 .. Len(remaining) : remaining[i] = c)
\* A collector that is wanted runs, or waits for a permission or for its delay.
Waits ==
  active /\ stopping = "no" =>
    \A c \in Collectors : m[c].running \/ m[c].restart.asked \/ m[c].restart.timer # None

Pasts == [ran : 0 .. StableAfter, since : 0 .. Longest, streak : 0 .. Len(Delays)]
PaceInv ==
  /\ past \in [Collectors -> Pasts]
  /\ Halting /\ Waits
  /\ \A c \in Collectors : Paced(m[c], past[c])

LEMMA DelaysGrow ==
  /\ StableAfter \in Nat \ {0}
  /\ \A i, j \in 1 .. Len(Delays) : i <= j => Delays[i] <= Delays[j]
  /\ \A i \in 1 .. Len(Delays) : Delays[i] \in Nat /\ 0 < Delays[i] /\ Delays[i] <= Longest
BY DelaysAssumption, DelayTypes DEF DelaysAssumption

LEMMA PastFields ==
  ASSUME NEW p \in Pasts
  PROVE  /\ p.ran \in Nat /\ p.ran <= StableAfter /\ p.since \in Nat /\ p.since <= Longest
         /\ p.streak \in Nat /\ p.streak <= Len(Delays)
BY DelaysGrow, DelayTypes DEF Pasts

LEMMA RestartFields ==
  ASSUME NEW x \in Restarts
  PROVE  /\ x.timer \in Int /\ x.timer >= None /\ x.timer <= Longest
         /\ x.index \in Nat /\ x.index <= Len(Delays)
         /\ x.asked \in BOOLEAN /\ x.reason \in BOOLEAN
BY DelayTypes DEF Restarts, None

LEMMA StreakIs ==
  ASSUME NEW p \in Pasts, NEW x \in Restarts, Delayed(x, p)
  PROVE  Streak(p) \in Nat /\ Streak(p) <= x.index /\ Streak(p) <= p.streak
<1>1. p.ran \in Nat /\ p.streak \in Nat /\ StableAfter \in Nat /\ x.index \in Nat
  BY PastFields, RestartFields, DelaysGrow
<1>2. CASE p.ran >= StableAfter
  BY <1>1, <1>2 DEF Streak
<1>3. CASE p.ran < StableAfter
  BY <1>1, <1>3 DEF Streak, Delayed
<1> QED BY <1>1, <1>2, <1>3

\* A failure: its delay is what the streak it makes asks for.
LEMMA FailedPaced ==
  ASSUME NEW x \in Restarts, NEW p \in Pasts, NEW allowed \in BOOLEAN, Delayed(x, p)
  PROVE  LET s == Schedule(x, allowed)
             q == PastFailed(p, allowed)
         IN  /\ q \in Pasts /\ Delayed(s, q) /\ s.reason = x.reason
             /\ s.asked \/ s.timer # None
<1> DEFINE n == Len(Delays)
           i == Capped(x.index + 1, n)
           k == Capped(Streak(p) + 1, n)
           s == Schedule(x, allowed)
           q == PastFailed(p, allowed)
<1>1. n \in Nat /\ n > 0 /\ x.index \in Nat /\ Streak(p) \in Nat /\ Streak(p) <= x.index
      /\ Streak(p) <= p.streak /\ p.streak \in Nat /\ p.streak <= n
  BY DelayTypes, PastFields, RestartFields, StreakIs
<1>2. i \in 1 .. n /\ k \in 1 .. n /\ k <= i
  BY <1>1 DEF Capped
<1>3. Delays[k] <= Delays[i] /\ Delays[i] \in Nat /\ Delays[i] # None /\ Delays[k] \in Nat
  BY <1>2, DelaysGrow DEF None
<1>4. 0 \in 0 .. StableAfter /\ 0 \in 0 .. Longest /\ p.since \in 0 .. Longest
  BY DelaysGrow, DelayTypes, PastFields
<1>5. CASE allowed
  <2>1. s.timer = Delays[i] /\ s.index = i /\ s.reason = x.reason
    BY <1>5 DEF Schedule, Restarts
  <2>2. q = [ran |-> 0, since |-> 0, streak |-> k]
    BY <1>5 DEF PastFailed
  <2> HIDE DEF s, q, i, k
  <2>3. q \in Pasts
    BY <1>2, <1>4, <2>2 DEF Pasts
  <2>4. q.ran = 0 /\ q.since = 0 /\ q.streak = k
    BY <2>2
  <2>5. q.streak <= s.index
    BY <1>2, <2>1, <2>4
  <2>6. q.since + s.timer >= Delays[q.streak]
    BY <1>3, <2>1, <2>4
  <2>7. s.timer # None
    BY <1>3, <2>1
  <2>8. QED
    BY <2>1, <2>3, <2>5, <2>6, <2>7 DEF Delayed, s, q
<1>6. CASE ~allowed
  <2>1. s.timer = None /\ s.index = x.index /\ s.reason = x.reason /\ s.asked = TRUE
    BY <1>6 DEF Schedule, Restarts
  <2>2. q = [ran |-> 0, since |-> p.since, streak |-> Streak(p)]
    BY <1>6 DEF PastFailed
  <2>3. Streak(p) \in 0 .. n
    BY <1>1
  <2> HIDE DEF s, q, i, k
  <2>4. q \in Pasts
    BY <1>4, <2>2, <2>3 DEF Pasts
  <2>5. q.streak <= s.index
    BY <1>1, <2>1, <2>2
  <2>6. QED
    BY <2>1, <2>4, <2>5 DEF Delayed, s, q
<1> QED BY <1>5, <1>6

\* A start: no delay is under way.
LEMMA StartedPaced ==
  ASSUME NEW x \in Restarts, NEW p \in Pasts, Delayed(x, p)
  PROVE  /\ PastStarted(p) \in Pasts /\ Delayed(Started(x), PastStarted(p))
         /\ PastStarted(p).ran = 0 /\ Started(x).reason = x.reason
<1> DEFINE s == Started(x)
           q == PastStarted(p)
<1>1. s.timer = None /\ s.index = x.index /\ s.reason = x.reason
  BY DEF Started, Restarts
<1>2. q.ran = 0 /\ q.streak = Streak(p) /\ q.since = p.since
  BY DEF PastStarted, Pasts
<1>3. Streak(p) <= x.index /\ Streak(p) \in 0 .. Len(Delays) /\ 0 \in 0 .. StableAfter
  BY StreakIs, PastFields, DelaysGrow, DelayTypes
<1>4. q \in Pasts
  BY <1>3 DEF PastStarted, Pasts
<1> HIDE DEF s, q
<1>5. Delayed(s, q)
  BY <1>1, <1>2, <1>3 DEF Delayed
<1> QED BY <1>1, <1>2, <1>4, <1>5 DEF s, q

\* start_managed of a collector that does not run.
LEMMA StartManagedPaced ==
  ASSUME NEW r \in Good, NEW p \in Pasts, NEW allowed \in BOOLEAN, Paced(r, p), ~r.running
  PROVE  /\ LET s == StartManaged(r, TRUE, allowed) IN
              /\ PastStarted(p) \in Pasts /\ Paced(s, PastStarted(p))
              /\ s.running /\ s.restart.reason = r.restart.reason
         /\ LET s == StartManaged(r, FALSE, allowed) IN
              /\ PastFailed(p, allowed) \in Pasts /\ Paced(s, PastFailed(p, allowed))
              /\ ~s.running /\ s.restart.reason = r.restart.reason
              /\ s.restart.asked \/ s.restart.timer # None
<1>1. r.restart \in Restarts /\ Delayed(r.restart, p) /\ r.age = None
  BY GoodFields DEF Paced, Aged
<1>2. /\ PastStarted(p) \in Pasts /\ Delayed(Started(r.restart), PastStarted(p))
      /\ PastStarted(p).ran = 0 /\ Started(r.restart).reason = r.restart.reason
  BY <1>1, StartedPaced
<1> DEFINE s == StartManaged(r, TRUE, allowed)
           q == PastStarted(p)
           x == Started(r.restart)
<1>3. s.running = TRUE /\ s.age = 0 /\ s.restart = x
  BY DEF StartManaged, Good, Managed
<1> HIDE DEF s, q, x
<1>4. Paced(s, q) /\ s.running /\ s.restart.reason = r.restart.reason /\ q \in Pasts
  BY <1>2, <1>3 DEF Paced, Aged, q, x
<1> DEFINE t == StartManaged(r, FALSE, allowed)
           o == PastFailed(p, allowed)
           y == Schedule(r.restart, allowed)
<1>5. o \in Pasts /\ Delayed(y, o) /\ y.reason = r.restart.reason /\ (y.asked \/ y.timer # None)
  BY <1>1, FailedPaced
<1>6. t.running = FALSE /\ t.age = r.age /\ t.restart = y
  BY DEF StartManaged, Good, Managed
<1> HIDE DEF t, o, y
<1>7. Paced(t, o) /\ ~t.running /\ t.restart.reason = r.restart.reason
      /\ (t.restart.asked \/ t.restart.timer # None) /\ o \in Pasts
  BY <1>1, <1>5, <1>6 DEF Paced, Aged
<1> QED BY <1>4, <1>7 DEF s, q, t, o

\* A collector whose relay has ended.
LEMMA ExitedPaced ==
  ASSUME NEW r \in Good, NEW p \in Pasts, NEW allowed \in BOOLEAN, Paced(r, p)
  PROVE  LET s == Exited(r, allowed)
             q == PastFailed(p, allowed)
         IN  /\ q \in Pasts /\ Paced(s, q) /\ ~s.running /\ s.restart.reason
             /\ s.restart.asked \/ s.restart.timer # None
<1>1. r.restart \in Restarts /\ Delayed(r.restart, p)
  BY GoodFields DEF Paced
<1> DEFINE s == Exited(r, allowed)
           q == PastFailed(p, allowed)
           x == Schedule(r.restart, allowed)
<1>2. q \in Pasts /\ Delayed(x, q) /\ (x.asked \/ x.timer # None)
  BY <1>1, FailedPaced
<1>3. x \in Restarts
  BY <1>1, ScheduleTypes
<1>4. s = [Idle EXCEPT !.restart = [x EXCEPT !.reason = TRUE]]
  BY DEF Exited
<1> HIDE DEF s, q, x
<1>5. LET y == [x EXCEPT !.reason = TRUE] IN
        y.timer = x.timer /\ y.index = x.index /\ y.asked = x.asked /\ y.reason = TRUE
  BY <1>3 DEF Restarts
<1>6. s.running = FALSE /\ s.age = None /\ s.restart = [x EXCEPT !.reason = TRUE]
  BY <1>4 DEF Idle
<1>7. /\ s.restart.timer = x.timer /\ s.restart.index = x.index /\ s.restart.asked = x.asked
      /\ s.restart.reason = TRUE
  BY <1>5, <1>6
<1>8. Delayed(s.restart, q)
  BY <1>2, <1>7 DEF Delayed
<1>9. Paced(s, q)
  BY <1>6, <1>8 DEF Paced, Aged
<1> QED BY <1>2, <1>6, <1>7, <1>9 DEF s, q

\* A collector that is taken to be stable was: its streak is over.
LEMMA StablePaced ==
  ASSUME NEW r \in Good, NEW p \in Pasts, Paced(r, p), r.relay \notin Exits
  PROVE  /\ Paced(Stable(r), p) /\ Stable(r).running = r.running
         /\ r.restart.reason /\ ~Stable(r).restart.reason => p.ran >= StableAfter
<1>1. CASE r.age # None /\ r.age >= StableAfter
  <2>1. r.age \in Int /\ p.ran \in Nat /\ StableAfter \in Nat /\ r.age <= p.ran
    BY <1>1, GoodFields, PastFields, DelaysGrow DEF Paced, Aged, None
  <2>2. p.ran >= StableAfter
    BY <1>1, <2>1
  <2>3. Stable(r).running = r.running /\ Stable(r).age = None /\ Stable(r).restart = RestartNew
    BY <1>1 DEF Stable, Good, Managed
  <2>4. Paced(Stable(r), p)
    BY <2>1, <2>2, <2>3 DEF Paced, Aged, Delayed, RestartNew
  <2> QED BY <2>2, <2>3, <2>4
<1>2. CASE ~(r.age # None /\ r.age >= StableAfter)
  BY <1>2 DEF Stable
<1> QED BY <1>1, <1>2

-----------------------------------------------------------------------------
(* Every action keeps the pace.                                            *)

Backs(c) ==
  active /\ ~m[c].running /\ m'[c].running /\ ~m[c].restart.asked /\ past[c].streak > 0
    => past[c].since >= Delays[past[c].streak]
Reports(c) == m[c].restart.reason /\ ~m'[c].restart.reason => past[c].ran >= StableAfter
PaceKept == PaceInv' /\ \A c \in Collectors : Backs(c) /\ Reports(c)

\* A step that neither starts nor fails a collector.
Untouched(c) ==
  /\ m'[c].restart = m[c].restart /\ past'[c] = past[c]
  /\ m'[c].running => m[c].running
  /\ \/ m'[c].age = None
     \/ m'[c].age = m[c].age /\ m'[c].running = m[c].running
        /\ (m[c].relay \in Exits => m'[c].relay \in Exits)

LEMMA UntouchedKeeps ==
  ASSUME PaceInv, past' = past, Halting', Waits', \A c \in Collectors : Untouched(c)
  PROVE  PaceKept
<1>1. ASSUME NEW c \in Collectors
      PROVE  Paced(m[c], past[c])' /\ Backs(c) /\ Reports(c)
  <2>1. Paced(m[c], past[c]) /\ Untouched(c)
    BY DEF PaceInv
  <2>2. Delayed(m[c].restart, past[c])'
    BY <2>1 DEF Paced, Delayed, Untouched
  <2>3. Aged(m[c], past[c])'
    BY <2>1 DEF Paced, Aged, Untouched
  <2> QED BY <2>1, <2>2, <2>3 DEF Paced, Backs, Reports, Untouched
<1> QED BY <1>1 DEF PaceKept, PaceInv

\* Workers, relays, the pipeline and permissions: the main thread rests.
LEMMA WorldKeeps ==
  ASSUME PaceInv, past' = past, UNCHANGED <<active, stopping, remaining>>,
         \A c \in Collectors : Untouched(c) /\ m'[c].running = m[c].running
  PROVE  PaceKept
<1>1. Halting'
  BY DEF PaceInv, Halting
<1>2. Waits'
  BY DEF PaceInv, Waits, Untouched
<1> QED BY <1>1, <1>2, UntouchedKeeps

LEMMA SameIsUntouched ==
  ASSUME NEW c \in Collectors, m'[c] = m[c], past' = past
  PROVE  Untouched(c) /\ m'[c].running = m[c].running
BY DEF Untouched

LEMMA WorkersPace ==
  ASSUME TypeOK, PaceInv, NEW c \in Collectors,
         Produce(c) \/ WorkerExits(c) \/ RelayTake(c) \/ RelaySend(c)
  PROVE  PaceKept
<1>1. m \in [Collectors -> Good] /\ m[c] \in Good
  BY TypesAre
<1>2. past' = past /\ UNCHANGED <<active, stopping, remaining>>
  BY DEF Produce, WorkerExits, RelayTake, RelaySend, RelayStep, NoMain, mainVars
<1>3. ASSUME NEW d \in Collectors, d # c
      PROVE  m'[d] = m[d]
  BY <1>1, <1>3 DEF Produce, WorkerExits, RelayTake, RelaySend
<1>4. Untouched(c) /\ m'[c].running = m[c].running
  <2>1. CASE Produce(c)
    BY <1>1, <1>2, <2>1 DEF Produce, Untouched, Good, Managed
  <2>2. CASE WorkerExits(c)
    BY <1>1, <1>2, <2>2 DEF WorkerExits, Untouched, Good, Managed
  <2>3. CASE RelayTake(c)
    BY <1>1, <1>2, <2>3 DEF RelayTake, Untouched, Good, Managed, Exits
  <2>4. CASE RelaySend(c)
    BY <1>1, <1>2, <2>4 DEF RelaySend, Untouched, Good, Managed, Exits
  <2> QED BY <2>1, <2>2, <2>3, <2>4
<1> QED BY <1>2, <1>3, <1>4, SameIsUntouched, WorldKeeps

LEMMA PipelinePaces ==
  ASSUME PaceInv, Consume \/ PipelineEnds \/ PermissionChanges
  PROVE  PaceKept
<1>1. m' = m /\ past' = past /\ UNCHANGED <<active, stopping, remaining>>
  BY DEF Consume, PipelineEnds, PermissionChanges, RelayStep, NoMain, mainVars
<1> QED BY <1>1, SameIsUntouched, WorldKeeps

\* Stops.
LEMMA BeginStopPaces ==
  ASSUME PaceInv, \E mode \in {"drain", "discard"} : Stop(mode) \/ PipelineMissed
  PROVE  PaceKept
<1>1. /\ m' = m /\ past' = past /\ active' = active /\ remaining' = StopOrder
      /\ stopping' # "no"
  BY DEF Stop, PipelineMissed, Stopping
<1>2. Halting'
  BY <1>1, CollectorsAssumption DEF PaceInv, Halting, CollectorsAssumption
<1>3. Waits'
  BY <1>1 DEF Waits
<1> QED BY <1>1, <1>2, <1>3, SameIsUntouched, UntouchedKeeps

LEMMA StopDonePaces ==
  ASSUME TypeOK, PaceInv, StopDone
  PROVE  PaceKept
<1>1. /\ m' = m /\ past' = past /\ active' = FALSE /\ stopping # "no" /\ remaining = <<>>
  BY DEF StopDone, Stopping
<1>2. \A c \in Collectors : ~m[c].running
  BY <1>1 DEF PaceInv, Halting
<1>3. Halting' /\ Waits'
  BY <1>1, <1>2 DEF Halting, Waits
<1> QED BY <1>1, <1>3, SameIsUntouched, UntouchedKeeps

\* What is left to be stopped without the first.
LEMMA Others ==
  ASSUME NEW s \in Seq(Collectors), s # <<>>, NEW c \in Collectors, c # Head(s),
         \E i \in 1 .. Len(s) : s[i] = c
  PROVE  \E i \in 1 .. Len(Tail(s)) : Tail(s)[i] = c
<1>1. PICK i \in 1 .. Len(s) : s[i] = c
  OBVIOUS
<1>2. Len(s) \in Nat \ {0} /\ Head(s) = s[1] /\ Len(Tail(s)) = Len(s) - 1
      /\ \A j \in 1 .. Len(Tail(s)) : Tail(s)[j] = s[j + 1]
  OBVIOUS
<1>3. i - 1 \in 1 .. Len(Tail(s)) /\ (i - 1) + 1 = i
  BY <1>1, <1>2
<1>4. Tail(s)[i - 1] = c
  BY <1>1, <1>2, <1>3
<1> QED BY <1>3, <1>4

LEMMA StopOnePaces ==
  ASSUME TypeOK, PaceInv, StopOne
  PROVE  PaceKept
<1>1. m \in [Collectors -> Good] /\ MainTypes
  BY TypesAre
<1> DEFINE c == Head(remaining)
<1>2. remaining \in Seq(Collectors) /\ remaining # <<>> /\ stopping' = stopping
      /\ stopping # "no" /\ c \in Collectors /\ past' = past /\ active' = active
  BY <1>1 DEF StopOne, Stopping, MainTypes
<1> HIDE DEF c
<1>3. \/ m[c].relay = "none" /\ m' = [m EXCEPT ![c].age = None] /\ remaining' = Tail(remaining)
      \/ /\ \E b : m' = [m EXCEPT ![c].running = FALSE, ![c].worker = "none",
                                  ![c].age = None, ![c].flag = b]
         /\ remaining' = remaining
  BY DEF StopOne, c
<1>4. m[c] \in Good
  BY <1>1, <1>2
<1>5. \A d \in Collectors : d # c => m'[d] = m[d]
  BY <1>1, <1>3
<1>6. /\ m'[c].restart = m[c].restart /\ m'[c].age = None /\ m'[c].running = FALSE
  <2>1. CASE m[c].relay = "none" /\ m' = [m EXCEPT ![c].age = None]
    <3>1. m'[c] = [m[c] EXCEPT !.age = None]
      BY <1>1, <1>2, <2>1
    <3>2. m[c].running = FALSE
      BY <1>4, <2>1 DEF Good, Managed, Fits
    <3> QED BY <1>4, <3>1, <3>2 DEF Good, Managed
  <2>2. ASSUME NEW b, m' = [m EXCEPT ![c].running = FALSE, ![c].worker = "none",
                                     ![c].age = None, ![c].flag = b]
        PROVE  /\ m'[c].restart = m[c].restart /\ m'[c].age = None /\ m'[c].running = FALSE
    BY <1>1, <1>2, <1>4, <2>2 DEF Good, Managed
  <2> QED BY <1>3, <2>1, <2>2
<1>7. Untouched(c)
  BY <1>2, <1>6 DEF Untouched
<1>8. Halting'
  <2> SUFFICES ASSUME NEW d \in Collectors, m'[d].running
               PROVE  active /\ \E i \in 1 .. Len(remaining') : remaining'[i] = d
    BY <1>2 DEF Halting
  <2>1. d # c /\ m[d].running
    BY <1>5, <1>6
  <2>2. active /\ \E i \in 1 .. Len(remaining) : remaining[i] = d
    BY <1>2, <2>1 DEF PaceInv, Halting
  <2>3. CASE remaining' = remaining
    BY <2>2, <2>3
  <2>4. CASE remaining' = Tail(remaining)
    <3>1. \E i \in 1 .. Len(Tail(remaining)) : Tail(remaining)[i] = d
      BY <1>2, <2>1, <2>2, Others DEF c
    <3> QED BY <2>2, <2>4, <3>1
  <2> QED BY <1>3, <2>3, <2>4
<1>9. Waits'
  BY <1>2 DEF Waits
<1> QED BY <1>2, <1>5, <1>7, <1>8, <1>9, SameIsUntouched, UntouchedKeeps

LEMMA JoinedPaces ==
  ASSUME TypeOK, PaceInv, Joined
  PROVE  PaceKept
<1>1. m \in [Collectors -> Good] /\ MainTypes
  BY TypesAre
<1> DEFINE c == Head(remaining)
<1>2. remaining \in Seq(Collectors) /\ remaining # <<>> /\ stopping' = stopping
      /\ stopping # "no" /\ c \in Collectors /\ past' = past /\ active' = active
      /\ remaining' = Tail(remaining)
  BY <1>1 DEF Joined, Stopping, MainTypes
<1> HIDE DEF c
<1>3. m' = [m EXCEPT ![c] = [Idle EXCEPT !.restart = m[c].restart]]
  BY DEF Joined, c
<1>4. \A d \in Collectors : d # c => m'[d] = m[d]
  BY <1>1, <1>3
<1>5. /\ m'[c].restart = m[c].restart /\ m'[c].age = None /\ m'[c].running = FALSE
  BY <1>1, <1>2, <1>3 DEF Idle
<1>6. Untouched(c)
  BY <1>2, <1>5 DEF Untouched
<1>7. Halting'
  <2> SUFFICES ASSUME NEW d \in Collectors, m'[d].running
               PROVE  active /\ \E i \in 1 .. Len(remaining') : remaining'[i] = d
    BY <1>2 DEF Halting
  <2>1. d # c /\ m[d].running
    BY <1>4, <1>5
  <2>2. active /\ \E i \in 1 .. Len(remaining) : remaining[i] = d
    BY <1>2, <2>1 DEF PaceInv, Halting
  <2>3. \E i \in 1 .. Len(Tail(remaining)) : Tail(remaining)[i] = d
    BY <1>2, <2>1, <2>2, Others DEF c
  <2> QED BY <1>2, <2>2, <2>3
<1>8. Waits'
  BY <1>2 DEF Waits
<1> QED BY <1>2, <1>4, <1>6, <1>7, <1>8, SameIsUntouched, UntouchedKeeps

\* While a delay gets shorter the time since the failure gets longer.
LEMMA DelayPasses ==
  ASSUME NEW since \in Nat, NEW timer \in Nat, NEW d \in Nat, NEW top \in Nat,
         d <= top, since + timer >= d
  PROVE  Capped(since + 1, top) + (IF timer > 0 THEN timer - 1 ELSE timer) >= d
BY DEF Capped

\* A heartbeat interval passes: ages, delays and the time they ran grow together.
LEMMA LaterPaced ==
  ASSUME NEW r \in Good, NEW p \in Pasts, Paced(r, p)
  PROVE  LET s == [r EXCEPT !.restart.timer = IF @ > 0 THEN @ - 1 ELSE @,
                            !.age = IF @ = None THEN None ELSE Capped(@ + 1, StableAfter)]
             q == [p EXCEPT !.ran = IF r.relay \in {"wait", "send"}
                                      THEN Capped(@ + 1, StableAfter) ELSE @,
                            !.since = IF p.streak = 0 THEN 0 ELSE Capped(@ + 1, Longest)]
         IN  /\ q \in Pasts /\ Paced(s, q) /\ s.running = r.running
             /\ s.restart.reason = r.restart.reason /\ s.restart.asked = r.restart.asked
             /\ s.restart.timer = None <=> r.restart.timer = None
<1> DEFINE time == IF r.restart.timer > 0 THEN r.restart.timer - 1 ELSE r.restart.timer
           old  == IF r.age = None THEN None ELSE Capped(r.age + 1, StableAfter)
           ran  == IF r.relay \in {"wait", "send"} THEN Capped(p.ran + 1, StableAfter) ELSE p.ran
           ago  == IF p.streak = 0 THEN 0 ELSE Capped(p.since + 1, Longest)
           s == [r EXCEPT !.restart.timer = IF @ > 0 THEN @ - 1 ELSE @,
                          !.age = IF @ = None THEN None ELSE Capped(@ + 1, StableAfter)]
           q == [p EXCEPT !.ran = IF r.relay \in {"wait", "send"}
                                    THEN Capped(@ + 1, StableAfter) ELSE @,
                          !.since = IF p.streak = 0 THEN 0 ELSE Capped(@ + 1, Longest)]
<1>1. /\ s.restart = [r.restart EXCEPT !.timer = time] /\ s.age = old
      /\ s.running = r.running /\ s.relay = r.relay
  BY DEF Good, Managed
<1>2. /\ DOMAIN q = {"ran", "since", "streak"}
      /\ q.ran = ran /\ q.since = ago /\ q.streak = p.streak
  BY DEF Pasts
<1>3. /\ s.restart.timer = time /\ s.restart.index = r.restart.index
      /\ s.restart.asked = r.restart.asked /\ s.restart.reason = r.restart.reason
  BY <1>1, GoodFields DEF Restarts
<1>4. q.ran = ran /\ q.since = ago /\ q.streak = p.streak
  BY <1>2
<1>5. /\ r.restart.timer \in Int /\ r.restart.timer >= -1 /\ r.restart.index \in Nat
      /\ r.age \in Int /\ r.age >= -1 /\ p.ran \in Nat /\ p.ran <= StableAfter
      /\ p.since \in Nat /\ p.since <= Longest /\ p.streak \in Nat /\ p.streak <= Len(Delays)
      /\ StableAfter \in Nat /\ Longest \in Nat /\ Len(Delays) \in Nat /\ None = -1
  <2>1. r.restart \in Restarts /\ r.age \in None .. StableAfter
    BY GoodFields
  <2> QED BY <2>1, RestartFields, PastFields, DelaysGrow, DelayTypes DEF None
<1>6. ran \in 0 .. StableAfter /\ ran >= p.ran /\ ago \in 0 .. Longest
  BY <1>5 DEF Capped
<1>7. q \in Pasts
  <2>1. q = [p EXCEPT !.ran = ran, !.since = ago]
    OBVIOUS
  <2> HIDE DEF q, ran, ago
  <2> QED BY <1>6, <2>1 DEF Pasts
<1>8. time = None <=> r.restart.timer = None
  BY <1>5
<1>9. q.ran < StableAfter => q.streak <= s.restart.index
  <2>1. p.ran < StableAfter => p.streak <= r.restart.index
    BY DEF Paced, Delayed
  <2> HIDE DEF s, q, ran
  <2> QED BY <1>3, <1>4, <1>5, <1>6, <2>1
<1>10. s.restart.timer # None /\ q.streak > 0 => q.since + s.restart.timer >= Delays[q.streak]
  <2> SUFFICES ASSUME s.restart.timer # None, q.streak > 0
               PROVE  ago + time >= Delays[p.streak]
    BY <1>3, <1>4
  <2>1. r.restart.timer # None /\ p.streak > 0 /\ p.streak \in 1 .. Len(Delays)
    BY <1>3, <1>4, <1>5, <1>8
  <2>2. p.since + r.restart.timer >= Delays[p.streak] /\ Delays[p.streak] \in Nat
        /\ Delays[p.streak] <= Longest
    BY <2>1, DelaysGrow DEF Paced, Delayed
  <2>3. ago = Capped(p.since + 1, Longest) /\ r.restart.timer >= 0
    BY <1>5, <2>1
  <2>4. r.restart.timer \in Nat
    BY <1>5, <2>3
  <2> HIDE DEF ago
  <2> QED BY <1>5, <2>2, <2>3, <2>4, DelayPasses
<1>11. Aged(s, q)
  <2> SUFFICES ASSUME s.age # None
               PROVE  s.running /\ (s.relay \notin Exits => s.age <= q.ran)
    BY DEF Aged
  <2>1. r.age # None /\ r.running /\ (r.relay \notin Exits => r.age <= p.ran)
    BY <1>1 DEF Paced, Aged
  <2>2. r.relay \notin Exits => r.relay \in {"wait", "send"}
    BY <2>1 DEF Good, Managed, Relays, Fits
  <2>3. old = Capped(r.age + 1, StableAfter)
    BY <2>1
  <2>4. r.relay \notin Exits => old <= ran
    BY <1>5, <2>1, <2>2, <2>3 DEF Capped
  <2> HIDE DEF s, q, old, ran
  <2> QED BY <1>1, <1>4, <2>1, <2>4
<1> HIDE DEF s, q, time
<1> QED BY <1>1, <1>3, <1>7, <1>8, <1>9, <1>10, <1>11 DEF Paced, Delayed, s, q

LEMMA TickPaces ==
  ASSUME TypeOK, PaceInv, Tick
  PROVE  PaceKept
<1>1. m \in [Collectors -> Good] /\ past \in [Collectors -> Pasts]
  BY TypesAre DEF PaceInv
<1>2. active' = active /\ stopping' = stopping /\ remaining' = remaining
  BY DEF Tick
<1>3. past' \in [Collectors -> Pasts]
      /\ \A c \in Collectors :
           /\ Paced(m[c], past[c])' /\ m'[c].running = m[c].running
           /\ m'[c].restart.reason = m[c].restart.reason
           /\ m'[c].restart.asked = m[c].restart.asked
           /\ m'[c].restart.timer = None <=> m[c].restart.timer = None
  <2> DEFINE Later(r) == [r EXCEPT !.restart.timer = IF @ > 0 THEN @ - 1 ELSE @,
                                   !.age = IF @ = None THEN None ELSE Capped(@ + 1, StableAfter)]
             Older(r, p) == [p EXCEPT !.ran = IF r.relay \in {"wait", "send"}
                                                THEN Capped(@ + 1, StableAfter) ELSE @,
                                      !.since = IF p.streak = 0 THEN 0 ELSE Capped(@ + 1, Longest)]
  <2>1. /\ m' = [c \in Collectors |-> Later(m[c])]
        /\ past' = [c \in Collectors |-> Older(m[c], past[c])]
    BY DEF Tick
  <2>2. ASSUME NEW r \in Good, NEW p \in Pasts, Paced(r, p)
        PROVE  /\ Older(r, p) \in Pasts /\ Paced(Later(r), Older(r, p))
               /\ Later(r).running = r.running
               /\ Later(r).restart.reason = r.restart.reason
               /\ Later(r).restart.asked = r.restart.asked
               /\ Later(r).restart.timer = None <=> r.restart.timer = None
    BY <2>2, LaterPaced
  <2> HIDE DEF Later, Older
  <2>3. ASSUME NEW c \in Collectors
        PROVE  /\ Older(m[c], past[c]) \in Pasts /\ Paced(m'[c], past'[c])
               /\ m'[c].running = m[c].running
               /\ m'[c].restart.reason = m[c].restart.reason
               /\ m'[c].restart.asked = m[c].restart.asked
               /\ m'[c].restart.timer = None <=> m[c].restart.timer = None
    <3>1. m[c] \in Good /\ past[c] \in Pasts /\ Paced(m[c], past[c])
      BY <1>1 DEF PaceInv
    <3>2. m'[c] = Later(m[c]) /\ past'[c] = Older(m[c], past[c])
      BY <2>1
    <3> QED BY <2>2, <3>1, <3>2
  <2> QED BY <2>1, <2>3
<1>4. Halting' /\ Waits'
  BY <1>2, <1>3 DEF PaceInv, Halting, Waits
<1> QED BY <1>3, <1>4 DEF PaceKept, PaceInv, Backs, Reports

LEMMA StartAllPaces ==
  ASSUME TypeOK, PaceInv, StartAll
  PROVE  PaceKept
<1>1. m \in [Collectors -> Good] /\ past \in [Collectors -> Pasts]
  BY TypesAre DEF PaceInv
<1>2. stopping = "no" /\ stopping' = "no" /\ active = FALSE /\ active' = TRUE
      /\ \A c \in Collectors : ~m[c].running
  BY DEF StartAll, Free, PaceInv, Halting
<1>3. PICK bad \in SUBSET Collectors :
        /\ m' = [c \in Collectors |-> StartManaged(m[c], c \notin bad, TRUE)]
        /\ past' = [c \in Collectors |-> IF c \in bad THEN PastFailed(past[c], TRUE)
                                                      ELSE PastStarted(past[c])]
  BY DEF StartAll
<1>4. ASSUME NEW c \in Collectors
      PROVE  /\ past'[c] \in Pasts /\ Paced(m'[c], past'[c])
             /\ m'[c].restart.reason = m[c].restart.reason
             /\ m'[c].running \/ m'[c].restart.asked \/ m'[c].restart.timer # None
  <2>1. m[c] \in Good /\ past[c] \in Pasts /\ Paced(m[c], past[c]) /\ ~m[c].running
    BY <1>1, <1>2 DEF PaceInv
  <2>2. CASE c \in bad
    <3> DEFINE s == StartManaged(m[c], FALSE, TRUE)
               q == PastFailed(past[c], TRUE)
    <3>1. m'[c] = s /\ past'[c] = q
      BY <1>3, <2>2
    <3>2. /\ q \in Pasts /\ Paced(s, q) /\ s.restart.reason = m[c].restart.reason
          /\ s.restart.asked \/ s.restart.timer # None
      BY <2>1, TRUE \in BOOLEAN, StartManagedPaced
    <3> HIDE DEF s, q
    <3> QED BY <3>1, <3>2
  <2>3. CASE c \notin bad
    <3> DEFINE s == StartManaged(m[c], TRUE, TRUE)
               q == PastStarted(past[c])
    <3>1. m'[c] = s /\ past'[c] = q
      BY <1>3, <2>3
    <3>2. /\ q \in Pasts /\ Paced(s, q) /\ s.restart.reason = m[c].restart.reason
          /\ s.running
      BY <2>1, TRUE \in BOOLEAN, StartManagedPaced
    <3> HIDE DEF s, q
    <3> QED BY <3>1, <3>2
  <2> QED BY <2>2, <2>3
<1>5. past' \in [Collectors -> Pasts]
  <2>1. past' = [c \in Collectors |-> past'[c]]
    BY <1>3
  <2> QED BY <1>4, <2>1
<1>6. Halting' /\ Waits'
  BY <1>2, <1>4 DEF Halting, Waits
<1>7. \A c \in Collectors : Backs(c) /\ Reports(c)
  BY <1>2, <1>4 DEF Backs, Reports
<1> QED BY <1>4, <1>5, <1>6, <1>7 DEF PaceKept, PaceInv

\* A collector is started from its delay or from a permission it waited for.
LEMMA ReadyWaited ==
  ASSUME NEW r \in Good, NEW p \in Pasts, NEW allowed \in BOOLEAN, Paced(r, p),
         r.restart.asked \/ r.restart.timer # None,
         Ready(r.restart, allowed), ~r.restart.asked, p.streak > 0
  PROVE  p.since >= Delays[p.streak]
<1>1. r.restart.timer = 0
  BY DEF Ready
<1>2. p.since + r.restart.timer >= Delays[p.streak]
  BY <1>1 DEF Paced, Delayed, None
<1>3. p.since \in Nat
  BY PastFields
<1> HIDE DEF Ready
<1> QED BY <1>1, <1>2, <1>3

LEMMA SupervisePaces ==
  ASSUME TypeOK, PaceInv, NEW c \in Collectors, Supervise(c)
  PROVE  PaceKept
<1>1. m \in [Collectors -> Good] /\ past \in [Collectors -> Pasts] /\ MainTypes
  BY TypesAre DEF PaceInv
<1>2. /\ stopping = "no" /\ active = TRUE
      /\ UNCHANGED <<active, stopping, remaining>>
  BY <1>1 DEF Supervise, Free, MainTypes
<1> DEFINE allowed == permission = "granted" \/ c \notin Guarded
           exits   == m[c].running /\ m[c].relay \in Exits
           r       == IF exits THEN Exited(m[c], allowed) ELSE m[c]
           p       == IF exits THEN PastFailed(past[c], allowed) ELSE past[c]
           stays   == IF r.running THEN Stable(r) ELSE r
           starts  == StartManaged(r, TRUE, allowed)
           fails   == StartManaged(r, FALSE, allowed)
<1>3. \/ /\ m' = [m EXCEPT ![c] = stays] /\ past' = [past EXCEPT ![c] = p]
      \/ /\ ~r.running /\ Ready(r.restart, allowed)
         /\ m' = [m EXCEPT ![c] = starts] /\ past' = [past EXCEPT ![c] = PastStarted(p)]
      \/ /\ ~r.running
         /\ m' = [m EXCEPT ![c] = fails] /\ past' = [past EXCEPT ![c] = PastFailed(p, allowed)]
  BY DEF Supervise
<1>4. allowed \in BOOLEAN /\ m[c] \in Good /\ past[c] \in Pasts /\ Paced(m[c], past[c])
      /\ (m[c].running \/ m[c].restart.asked \/ m[c].restart.timer # None)
  BY <1>1, <1>2 DEF PaceInv, Waits
<1> HIDE DEF allowed
<1>5. /\ r \in Good /\ p \in Pasts /\ Paced(r, p)
      /\ r.running \/ r.restart.asked \/ r.restart.timer # None
      /\ exits => ~r.running /\ r.restart.reason
      /\ ~exits => r = m[c] /\ p = past[c]
      /\ r.running => r.relay \notin Exits
  <2>1. CASE exits
    BY <1>4, <2>1, ExitedTypes, ExitedPaced
  <2>2. CASE ~exits
    BY <1>4, <2>2
  <2> QED BY <2>1, <2>2
<1>6. exits => m[c].running
  OBVIOUS
<1> HIDE DEF exits, r, p
<1>7. \/ /\ r.running /\ stays = Stable(r)
      \/ /\ ~r.running /\ stays = r
  BY <1>5
<1> HIDE DEF stays
<1>8. /\ past' \in [Collectors -> Pasts] /\ Paced(m'[c], past'[c])
      /\ m'[c].running \/ m'[c].restart.asked \/ m'[c].restart.timer # None
      /\ r.restart.reason /\ ~m'[c].restart.reason => r.running /\ p.ran >= StableAfter
      /\ ~r.running /\ m'[c].running => Ready(r.restart, allowed)
  <2>1. CASE m' = [m EXCEPT ![c] = stays] /\ past' = [past EXCEPT ![c] = p]
    <3>1. m'[c] = stays /\ past'[c] = p /\ past' \in [Collectors -> Pasts]
      BY <1>1, <1>5, <2>1
    <3> QED BY <1>5, <1>7, <3>1, StablePaced
  <2>2. CASE /\ ~r.running /\ Ready(r.restart, allowed)
             /\ m' = [m EXCEPT ![c] = starts] /\ past' = [past EXCEPT ![c] = PastStarted(p)]
    <3> HIDE DEF starts
    <3>1. PastStarted(p) \in Pasts /\ Paced(starts, PastStarted(p)) /\ starts.running
          /\ starts.restart.reason = r.restart.reason
      BY <1>4, <1>5, <2>2, StartManagedPaced DEF starts
    <3>2. m'[c] = starts /\ past'[c] = PastStarted(p) /\ past' \in [Collectors -> Pasts]
      BY <1>1, <2>2, <3>1
    <3> QED BY <2>2, <3>1, <3>2
  <2>3. CASE /\ ~r.running
             /\ m' = [m EXCEPT ![c] = fails] /\ past' = [past EXCEPT ![c] = PastFailed(p, allowed)]
    <3> HIDE DEF fails
    <3>1. /\ PastFailed(p, allowed) \in Pasts /\ Paced(fails, PastFailed(p, allowed))
          /\ ~fails.running /\ fails.restart.reason = r.restart.reason
          /\ fails.restart.asked \/ fails.restart.timer # None
      BY <1>4, <1>5, <2>3, StartManagedPaced DEF fails
    <3>2. m'[c] = fails /\ past'[c] = PastFailed(p, allowed) /\ past' \in [Collectors -> Pasts]
      BY <1>1, <2>3, <3>1
    <3> QED BY <3>1, <3>2
  <2> QED BY <1>3, <2>1, <2>2, <2>3
<1>9. \A d \in Collectors : d # c => m'[d] = m[d] /\ past'[d] = past[d]
  BY <1>1, <1>3
<1>10. Reports(c)
  BY <1>5, <1>8 DEF Reports
<1>11. Backs(c)
  BY <1>4, <1>5, <1>6, <1>8, ReadyWaited DEF Backs
<1>12. \A d \in Collectors : Backs(d) /\ Reports(d) /\ Paced(m[d], past[d])'
  BY <1>8, <1>9, <1>10, <1>11 DEF Backs, Reports, PaceInv
<1>13. Halting' /\ Waits'
  BY <1>2, <1>8, <1>9 DEF PaceInv, Halting, Waits
<1> QED BY <1>8, <1>12, <1>13 DEF PaceKept, PaceInv

LEMMA NextPaces ==
  ASSUME TypeOK, PaceInv, [Next]_vars
  PROVE  PaceKept
<1>1. CASE \E c \in Collectors : Produce(c) \/ WorkerExits(c) \/ RelayTake(c) \/ RelaySend(c)
  BY <1>1, WorkersPace
<1>2. CASE Consume \/ PipelineEnds \/ PermissionChanges
  BY <1>2, PipelinePaces
<1>3. CASE Tick
  BY <1>3, TickPaces
<1>4. CASE StartAll \/ \E c \in Collectors : Supervise(c)
  BY <1>4, StartAllPaces, SupervisePaces
<1>5. CASE Stop("drain") \/ Stop("discard") \/ PipelineMissed
  BY <1>5, BeginStopPaces
<1>6. CASE StopOne \/ Joined \/ StopDone
  BY <1>6, StopOnePaces, JoinedPaces, StopDonePaces
<1>7. CASE UNCHANGED vars
  <2>1. m' = m /\ past' = past /\ UNCHANGED <<active, stopping, remaining>>
    BY <1>7 DEF vars, mainVars
  <2> QED BY <2>1, SameIsUntouched, WorldKeeps
<1> QED BY <1>1, <1>2, <1>3, <1>4, <1>5, <1>6, <1>7 DEF Next

LEMMA InitPaces == Init => PaceInv
<1> SUFFICES ASSUME Init PROVE PaceInv
  OBVIOUS
<1> DEFINE p == [ran |-> 0, since |-> 0, streak |-> 0]
<1>1. m = [c \in Collectors |-> Idle] /\ past = [c \in Collectors |-> p] /\ active = FALSE
  BY DEF Init
<1>2. p \in Pasts
  BY DelaysGrow, DelayTypes DEF Pasts
<1>3. Paced(Idle, p) /\ ~Idle.running
  BY DelaysGrow DEF Paced, Delayed, Aged, Idle, RestartNew
<1> HIDE DEF p
<1> QED BY <1>1, <1>2, <1>3 DEF PaceInv, Halting, Waits

\* A collector that fails again and again is restarted after growing delays, and its
\* failure stays reported until it has run for the stable time, for any collectors,
\* delays, pauses and permissions (supervisor/health.rs, supervisor.rs).
THEOREM RestartsArePaced == Spec => RestartsPaced
<1>1. Init => SupervisorInv /\ PaceInv
  BY InitKeeps, InitPaces
<1>2. SupervisorInv /\ PaceInv /\ [Next]_vars => SupervisorInv' /\ PaceInv'
  BY NextKeeps, NextPaces DEF PaceKept, SupervisorInv
<1>3. SupervisorInv /\ PaceInv /\ [Next]_vars
      => /\ [\A c \in Collectors :
               active /\ ~m[c].running /\ m'[c].running /\ ~m[c].restart.asked /\ past[c].streak > 0
                 => past[c].since >= Delays[past[c].streak]]_vars
         /\ [\A c \in Collectors :
               m[c].restart.reason /\ ~m'[c].restart.reason => past[c].ran >= StableAfter]_vars
  BY NextPaces DEF PaceKept, SupervisorInv, Backs, Reports
<1> QED BY <1>1, <1>2, <1>3, PTL DEF Spec, RestartsPaced, RestartsBackOff, ReportedUntilStable

=============================================================================
