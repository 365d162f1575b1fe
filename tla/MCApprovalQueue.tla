--------------------------- MODULE MCApprovalQueue ---------------------------
(* Instances of ApprovalQueue for TLC.                                     *)
EXTENDS ApprovalQueue, TLC

\* One approval, by another than the requester, or two.
OneOrTwo == {[minimum |-> 1, separate |-> TRUE], [minimum |-> 2, separate |-> FALSE]}

\* Workers, keys, actions and actors are only compared.
Symmetry == Permutations(Workers) \cup Permutations(Keys)
              \cup Permutations(Actions) \cup Permutations(Actors)
=============================================================================
