---------------------------- MODULE MCLeadCycle ----------------------------
(* Instances of LeadCycle for TLC.                                         *)
EXTENDS LeadCycle, TLC

CONSTANTS r1, r2, v1, v2, a1, a2, p1, p2

\* Two units of the house at a1; one of them may move to a2.
Units == {r1 :> v @@ r2 :> v1 : v \in {v1, v2}}

Move == v1 :> a1 @@ v2 :> a2
Houses == p1 :> a1 @@ p2 :> a2
=============================================================================
