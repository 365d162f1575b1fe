---------------------------- MODULE MCIngestion ----------------------------
(* Instances of Ingestion for TLC.                                         *)
EXTENDS Ingestion, TLC

CONSTANTS p1, p2

\* A page that is not full is the last; a full one is followed by another,
\* here an empty one.
OnePage       == <<{p1}>>
FullThenEmpty == <<{p1, p2}, {}>>

\* Workers, keys and fingerprints are only compared.
Symmetry == Permutations(Workers) \cup Permutations(Keys) \cup Permutations(Fps)
=============================================================================
