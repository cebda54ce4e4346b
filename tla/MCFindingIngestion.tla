------------------------- MODULE MCFindingIngestion -------------------------
(* Small instances of FindingIngestion for TLC.                            *)
EXTENDS FindingIngestion, TLC

CONSTANTS t1, t2, f1, f2, w1, w2, r1, r2, r3

TwoTasks == {t1, t2}

Sound(f) == [fp |-> f, kind |-> "sound"]

\* Two reports that name the same fingerprints in opposite orders; the table
\* refuses one row of f2 unless there is one already.
Uneven == [t \in Tasks |->
             IF t = t1 THEN <<Sound(f1), Sound(f2)>>
                       ELSE <<[fp |-> f2, kind |-> "unstorable"], Sound(f1)>>]

\* A report with a row the table refuses that names another finding twice, as
\* the scanners of users and of ports do, and one that is cut off by an
\* oversized item.
Mixed == [t \in Tasks |->
            IF t = t1
            THEN <<[fp |-> f2, kind |-> "unstorable"], Sound(f1), Sound(f1)>>
            ELSE <<Sound(f1), [fp |-> f2, kind |-> "oversized"]>>]

\* r1 is served by one process, the others by another.
Spread == [r \in Requests |-> IF r = r1 THEN w1 ELSE w2]
=============================================================================
