-------------------------- MODULE BrowserBodiesMC ---------------------------
(***************************************************************************)
(* An instance of BrowserBodies: a work site, a site that one filter       *)
(* excludes, a private page; a filter that shows everything, one that      *)
(* excludes the site, and one with another app-owned policy.  A behaviour  *)
(* is of one of two parts, each with a bound of its own: the moves of the  *)
(* user between windows and sites under one filter with a text, or the     *)
(* reloads and the failures with a snapshot of one window.                 *)
(***************************************************************************)
EXTENDS BrowserBodies, TLC

CONSTANTS w1, w2, work, bank, hidden, open, strict, owned, t, s

VARIABLE part   \* "moves" or "rulings"

MCPrivate  == {hidden} \intersect Pages
MCAllows   == [f \in Filters |-> IF f = strict THEN Pages \ {bank, hidden} ELSE Pages \ {hidden}]
MCPolicyOf == [f \in Filters |-> IF f = owned THEN "owned" ELSE "standalone"]
MCKindOf   == [b \in Bodies |-> IF b = s THEN "snapshot" ELSE "text"]
WindowSymmetry == Permutations(Windows)

Idle(kind) == \A b \in Bodies : KindOf[b] = kind => body[b].status = "idle"

Within ==
  IF part = "moves"
  THEN /\ troubles <= 1 /\ filter = open /\ Idle("snapshot")
       /\ \A w \in Windows : page[w] \in {work, bank}
  ELSE /\ moves <= 1 /\ Idle("text")
       /\ \A w \in Windows \ {front} : page[w] = work

\* The filter of the moves treats the two sites alike, so which window shows
\* which does not matter.
BrowserInit ==
  /\ part \in {"moves", "rulings"} /\ Init /\ Within
  /\ part = "moves" => page = [w \in Windows |-> IF w = front THEN work ELSE bank]
BrowserNext ==
  /\ Next /\ UNCHANGED part /\ Within'
  /\ part = "rulings" => UNCHANGED front

BrowserSpec == BrowserInit /\ [][BrowserNext]_<<vars, part>>
=============================================================================
