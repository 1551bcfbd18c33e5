---------------------------- MODULE SupervisorMC ----------------------------
EXTENDS Supervisor

CONSTANTS ax

MCStopOrder == <<ax>>

\* Two delays of the five, the second longer than the first.
MCDelays == <<1, 2>>

(* A suspension ends whatever the pipeline does, a pause ends if it takes  *)
(* events, and a collector that is wanted for good runs in the end         *)
(* (supervisor.rs).                                                        *)
StopsReturn == SuspendReturns /\ PauseReturns /\ CapturesAgain
=============================================================================
