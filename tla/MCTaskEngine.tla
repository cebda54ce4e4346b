---------------------------- MODULE MCTaskEngine ----------------------------
(* Small instances of TaskEngine for TLC.                                  *)
EXTENDS TaskEngine, TLC

CONSTANTS t1, t2, t3, d1

OneTask == {t1}
TwoTasks == {t1, t2}
ThreeTasks == {t1, t2, t3}
OneDevice == {d1}

MCDeviceOf == [t \in Tasks |-> d1]

MCPriorityOf == [t \in Tasks |-> IF t = t1 THEN "NORMAL" ELSE "HIGH"]

\* A native enum orders its labels as declared (PostgreSQL).
DeclaredOrder == [LOW |-> 1, NORMAL |-> 2, HIGH |-> 3]

\* All findings of t2, whose clients are serial, may be refused by the table.
MCReports == [t \in Tasks |-> IF t = t2 THEN {"stored", "unstorable"}
                                         ELSE {"stored", "oversized"}]

MCSerialTasks == Tasks \cap {t2}

Symmetry == Permutations(Requests)
=============================================================================
