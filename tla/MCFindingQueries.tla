-------------------------- MODULE MCFindingQueries --------------------------
(* A small instance of FindingQueries for TLC.                             *)
EXTENDS FindingQueries, TLC

CONSTANTS f1, f2, f3, o1, o2, o3

RankOfIds == f1 :> 2 @@ f2 :> 1 @@ f3 :> 3

\* No filter, or a filter for what is new.
AllOrOpen == {FindingStatus, {"OPEN"}}

Symmetry == Permutations(Observations)
=============================================================================
