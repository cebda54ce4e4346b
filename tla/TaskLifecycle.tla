--------------------------- MODULE TaskLifecycle ----------------------------
(***************************************************************************)
(* What the task engine promises of a task, each step atomic: it moves     *)
(* forward only, it is handed out at most once and only from the queue,    *)
(* and exactly one actor closes it, for good.  The promise is that of the  *)
(* transition table and the idempotency checks of task_engine.py.          *)
(***************************************************************************)
EXTENDS Naturals

CONSTANTS
  Tasks,
  Actors      \* whoever is handed a task or closes one

VARIABLES
  status,     \* where the task is in its life
  heldBy,     \* the actors it was handed to
  closedBy    \* the actors whose closing of it was accepted

vars == <<status, heldBy, closedBy>>

Closed == {"COMPLETED", "FAILED", "CANCELLED"}

\* How far along an open task is.
Progress == [NONE |-> 0, QUEUED |-> 1, DELIVERED |-> 2, ACKNOWLEDGED |-> 3,
             RUNNING |-> 4]

Open == DOMAIN Progress \ {"NONE"}

Init ==
  /\ status = [t \in Tasks |-> "NONE"]
  /\ heldBy = [t \in Tasks |-> {}]
  /\ closedBy = [t \in Tasks |-> {}]

Create(t) ==
  /\ status[t] = "NONE"
  /\ status' = [status EXCEPT ![t] = "QUEUED"]
  /\ UNCHANGED <<heldBy, closedBy>>

Deliver(t, a) ==
  /\ status[t] = "QUEUED"
  /\ heldBy[t] = {}
  /\ status' = [status EXCEPT ![t] = "DELIVERED"]
  /\ heldBy' = [heldBy EXCEPT ![t] = {a}]
  /\ UNCHANGED closedBy

Advance(t, s) ==
  /\ status[t] \in Open
  /\ Progress[status[t]] < Progress[s]
  /\ status' = [status EXCEPT ![t] = s]
  /\ UNCHANGED <<heldBy, closedBy>>

Close(t, s, a) ==
  /\ status[t] \in Open
  /\ closedBy[t] = {}
  /\ status' = [status EXCEPT ![t] = s]
  /\ closedBy' = [closedBy EXCEPT ![t] = {a}]
  /\ UNCHANGED heldBy

Next ==
  \E t \in Tasks :
    \/ Create(t)
    \/ \E a \in Actors : Deliver(t, a) \/ \E s \in Closed : Close(t, s, a)
    \/ \E s \in {"ACKNOWLEDGED", "RUNNING"} : Advance(t, s)

Spec == Init /\ [][Next]_vars
=============================================================================
