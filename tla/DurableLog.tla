----------------------------- MODULE DurableLog -----------------------------
(***************************************************************************)
(* What the recording pipeline promises its clients, with no queue, buffer *)
(* or retry in sight: an accepted event stays in flight until it is either *)
(* durable or refused, a settled event never changes, a death of the       *)
(* process costs exactly the events in flight, and events once promised    *)
(* are settled.                                                            *)
(***************************************************************************)
CONSTANT Events

VARIABLES
  inflight,  \* accepted, not settled
  durable,   \* in the store
  refused,   \* let go of by a policy or as malformed
  lost,      \* died with the process
  promised   \* the client was told these are settled

vars == <<inflight, durable, refused, lost, promised>>

Init ==
  /\ inflight = {} /\ durable = {} /\ refused = {} /\ lost = {} /\ promised = {}

\* A new event is accepted.
Accept(e) ==
  /\ e \notin inflight \union durable \union refused \union lost
  /\ inflight' = inflight \union {e}
  /\ UNCHANGED <<durable, refused, lost, promised>>

\* Some events in flight become durable together, others are refused; the
\* client may be told of any events that are settled afterwards.
Settle ==
  \E S \in SUBSET inflight : \E R \in SUBSET (inflight \ S) :
    /\ inflight' = inflight \ (S \union R)
    /\ durable' = durable \union S
    /\ refused' = refused \union R
    /\ \E P \in SUBSET (durable' \union refused') : promised' = promised \union P
    /\ UNCHANGED lost

Die ==
  /\ lost' = lost \union inflight
  /\ inflight' = {}
  /\ UNCHANGED <<durable, refused, promised>>

Next == (\E e \in Events : Accept(e)) \/ Settle \/ Die

Spec == Init /\ [][Next]_vars
=============================================================================
