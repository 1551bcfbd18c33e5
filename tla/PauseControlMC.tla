--------------------------- MODULE PauseControlMC ---------------------------
EXTENDS PauseControl, TLC

CONSTANTS ax, tap, first, second, third, fourth, fifth

MCStopOrder == <<ax, tap>>

\* A start that asks for a pause, a pause that runs out and one that does not, a resume and a stop.
PauseKinds == first :> "start_paused" @@ second :> "pause_for" @@ third :> "pause" @@ fourth :> "resume"
              @@ fifth :> "stop"

\* A start that asks for a pause beside a start that does not.
StartKinds == first :> "start_paused" @@ second :> "start"
=============================================================================
