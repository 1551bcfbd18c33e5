----------------------------- MODULE PipelineMC -----------------------------
(***************************************************************************)
(* Instances of Pipeline: keystrokes of one group, window titles of which  *)
(* the newer replaces the older, a click that is never coalesced; a filter *)
(* that shows everything and a filter that keeps clicks out and hides      *)
(* typed text.                                                             *)
(***************************************************************************)
EXTENDS Pipeline

CONSTANTS k1, k2, t1, t2, c1, keys, titles, open, quiet

SafetyEvents   == {k1, t1, t2}
LivenessEvents == {k1, c1}

MCGroups    == {keys, titles}
MCGroupOf   == [e \in Events |-> IF e \in {k1, k2} THEN keys
                                 ELSE IF e \in {t1, t2} THEN titles ELSE NoGroup]
MCReplacing == {titles}
MCPolicies  == {open, quiet}
MCAdmits    == [p \in Policies |-> IF p = quiet THEN Events \ {t2, c1} ELSE Events]
MCShowsBody == [p \in Policies |-> IF p = quiet THEN Events \ {k1, k2} ELSE Events]
=============================================================================
