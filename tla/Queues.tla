------------------------------- MODULE Queues -------------------------------
(***************************************************************************)
(* What the models do with queues, in forms that can be reasoned about     *)
(* without induction: no operator here recurs over a sequence.             *)
(***************************************************************************)
EXTENDS Naturals, Sequences, FiniteSets

Entries(queue) == {queue[i] : i \in DOMAIN queue}

\* The entries at some places of a queue, in their order: the k-th is the one
\* with k - 1 of the places before it.
Picked(queue, places) ==
  LET Place(k) == CHOOSE i \in places : Cardinality({j \in places : j < i}) = k - 1
  IN  [k \in 1..Cardinality(places) |-> queue[Place(k)]]
=============================================================================
