----------------------------- MODULE MCHostScan -----------------------------
(* A small instance of HostScan for TLC.                                   *)
EXTENDS HostScan, TLC

CONSTANTS p1, p2

\* Every kind of task: too many paths, a path that is named twice, limits of
\* which one is too small, one is reached and one is not.
ATaskOfEachKind ==
  {[capability |-> "UNKNOWN_CAP"]}
  \cup {[capability |-> "SCAN_FILE_INTEGRITY", paths |-> ps] :
          ps \in {<<>>, <<p1, p2>>, <<p1, p1>>, <<p1, p2, p1>>}}
  \cup {[capability |-> "SCAN_PROCESSES", max |-> n] : n \in {0, 2, 4}}

=============================================================================
