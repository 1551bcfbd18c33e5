------------------------- MODULE FocusTransitionsMC -------------------------
EXTENDS FocusTransitions, TLC

CONSTANTS chromeA, chromeB, other, editor, chrome, safari, zed, w1, w2, w3, w4

MCAppOf == [v \in Views |->
  (chromeA :> chrome @@ chromeB :> chrome @@ other :> safari @@ editor :> zed)[v]]
MCWindowOf == [v \in Views |->
  (chromeA :> w1 @@ chromeB :> w2 @@ other :> w4 @@ editor :> w3)[v]]

(* With nothing left to hear the worker takes for the one in front the     *)
(* browser that is, and the newest focus is heard of, however many         *)
(* transitions were dropped (focus_context.rs, chrome/worker.rs).          *)
FocusFollowed == [](TypeOK /\ FrontFollowsFocus) /\ NewestHeard
=============================================================================
