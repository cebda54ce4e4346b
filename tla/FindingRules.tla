---------------------------- MODULE FindingRules ----------------------------
(***************************************************************************)
(* The rules for the life of a finding, services/finding_engine.py: which  *)
(* changes of status are allowed, and what an observation makes of a row.  *)
(***************************************************************************)
EXTENDS Naturals

FindingStatus == {"OPEN", "ACKNOWLEDGED", "RESOLVED", "REOPENED", "MUTED"}

VALID_TRANSITIONS ==
  UNION { {"OPEN"}         \X {"ACKNOWLEDGED", "RESOLVED", "MUTED"},
          {"ACKNOWLEDGED"} \X {"RESOLVED", "OPEN", "MUTED"},
          {"RESOLVED"}     \X {"REOPENED"},
          {"REOPENED"}     \X {"ACKNOWLEDGED", "RESOLVED", "MUTED"},
          {"MUTED"}        \X {"OPEN", "ACKNOWLEDGED", "RESOLVED"} }

validate_finding_transition(from, to) ==
  from = to \/ <<from, to>> \in VALID_TRANSITIONS

NoFinding == [status |-> "NONE", lastSeen |-> 0]

FindingRow == [status : FindingStatus, lastSeen : Nat]
=============================================================================
