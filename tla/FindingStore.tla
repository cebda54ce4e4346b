---------------------------- MODULE FindingStore ----------------------------
(***************************************************************************)
(* What the findings of a tenant are to everybody but the ingestion: each  *)
(* observation and each change of status is one step.  An observation      *)
(* stores its evidence and makes, touches or reopens its finding; its time *)
(* was read earlier, so times may come in any order.  ("REOPENED: Set      *)
(* automatically if a previously RESOLVED finding is observed again",      *)
(* DATABASE_DESIGN 4.3; "Enforce valid vulnerability finding lifecycle     *)
(* state transitions", validate_finding_transition.)                       *)
(***************************************************************************)
EXTENDS FindingRules

CONSTANTS
  Fingerprints,   \* what identifies a finding
  Observations,   \* items of reports that are stored, each at most once
  Times           \* the values `now` takes

VARIABLES
  finding,        \* the findings rows, by fingerprint
  evidence        \* the finding_evidences rows

storeVars == <<finding, evidence>>

EvidenceRow == [id : Observations, fp : Fingerprints, at : Times]

StoreTypeOK ==
  /\ finding \in [Fingerprints -> {NoFinding} \cup FindingRow]
  /\ evidence \subseteq EvidenceRow

StoreInit ==
  /\ finding = [f \in Fingerprints |-> NoFinding]
  /\ evidence = {}

Observed(row, at) ==
  [status   |-> CASE row = NoFinding -> "OPEN"
                  [] row.status = "RESOLVED" -> "REOPENED"
                  [] OTHER -> row.status,
   lastSeen |-> at]

Observe(o, f, at) ==
  /\ \A e \in evidence : e.id # o
  /\ finding' = [finding EXCEPT ![f] = Observed(@, at)]
  /\ evidence' = evidence \cup {[id |-> o, fp |-> f, at |-> at]}

ChangeStatus(f, to) ==
  /\ finding[f] # NoFinding
  /\ validate_finding_transition(finding[f].status, to)
  /\ finding' = [finding EXCEPT ![f].status = to]
  /\ UNCHANGED evidence

StoreNext ==
  \E f \in Fingerprints :
    \/ \E o \in Observations, at \in Times : Observe(o, f, at)
    \/ \E to \in FindingStatus : ChangeStatus(f, to)

StoreSpec == StoreInit /\ [][StoreNext]_storeVars
=============================================================================
