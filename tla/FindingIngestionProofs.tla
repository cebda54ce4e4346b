----------------------- MODULE FindingIngestionProofs -----------------------
(***************************************************************************)
(* Theorems about FindingIngestion, for any reports, submissions, users,   *)
(* processes and pools.                                                    *)
(***************************************************************************)
EXTENDS FindingIngestion, FiniteSetTheorems, TLAPS

-----------------------------------------------------------------------------
(* The strengthening.  It says of each submission what its stage knows of  *)
(* the rows, of what it has stored, and of the others' locks.              *)

\* Every row of evidence hangs on a row of its finding, and a user changes a
\* finding that there is: findings are never removed.
EvidenceHasRow == \A e \in evidence : finding[e.fp] # NoFinding

ChangeHasRow ==
  \A u \in Users : user[u].pc = "change" => finding[user[u].fp] # NoFinding

\* A submission has stored items before the one at hand only.
ItemsInOrder(r) ==
  \A e \in evidence : e.req = r =>
    /\ req[r].pc \notin {"idle", "flush", "noop"}
    /\ Working(r) => e.item < req[r].n

\* And it has stored all of those that can be.
StoredSoFar(r) ==
  Working(r) \/ req[r].pc \in {"answer", "ok"} =>
    \A n \in DOMAIN Report[req[r].task] :
      /\ Working(r) => n < req[r].n
      /\ Report[req[r].task][n].kind = "sound"
      => \E e \in evidence :
           e.req = r /\ e.item = n /\ e.fp = Report[req[r].task][n].fp

\* A submission that is about to save has inserted the row, which nobody sees
\* yet, or has found it.
LoadedRow(r) ==
  req[r].pc = "save" =>
    (req[r].loaded = "NEW" <=> finding[ItemOf(r).fp] = NoFinding)

\* The unique key has one holder, and a fingerprint lock one in each process.
KeyAlone(r) ==
  req[r].pc = "save" /\ req[r].loaded = "NEW" =>
    \A q \in Requests \ {r} :
      ~ (/\ req[q].pc = "save" /\ req[q].loaded = "NEW"
         /\ ItemOf(q).fp = ItemOf(r).fp)

LockAlone(r) ==
  req[r].pc \in Locking =>
    \A q \in Requests \ {r} :
      ~ (/\ req[q].pc \in Locking
         /\ WorkerOf[q] = WorkerOf[r]
         /\ ItemOf(q).fp = ItemOf(r).fp)

\* A row that appears between look-up and insertion was stored by another process.
StoredElsewhere(r) ==
  req[r].pc = "insert" /\ finding[ItemOf(r).fp] # NoFinding =>
    \E e \in evidence :
      e.fp = ItemOf(r).fp /\ WorkerOf[e.req] # WorkerOf[r]

\* An insertion of a storable row fails only where the next look-up finds one.
RetriedFound(r) ==
  /\ Working(r) /\ ItemOf(r).kind = "sound"
  /\ req[r].tries > 0 \/ req[r].pc = "fallback"
  => finding[ItemOf(r).fp] # NoFinding

Sane(r) ==
  /\ ItemsInOrder(r)
  /\ StoredSoFar(r)
  /\ LoadedRow(r)
  /\ KeyAlone(r)
  /\ LockAlone(r)
  /\ StoredElsewhere(r)
  /\ RetriedFound(r)

IInv ==
  /\ TypeOK
  /\ CompletedWithEvidence
  /\ EvidenceHasRow
  /\ ChangeHasRow
  /\ \A r \in Requests : Sane(r)

-----------------------------------------------------------------------------
(* Under SerialClients: a task has one submission at a time, which starts  *)
(* only when nothing of the task is stored.                                *)

OneAtATime ==
  \A q, r \in Requests :
    Started(q) /\ Started(r) /\ req[q].task = req[r].task => q = r

StartsAfresh ==
  \A r \in Requests :
    /\ req[r].pc = "flush" => ~completed[req[r].task]
    /\ Working(r) => \A e \in evidence : e.task = req[r].task => e.req = r

ClientsInv == SerialClients => OneAtATime /\ StartsAfresh /\ ObservedOnce

(* Under SerialFindings: what was read is still so at the commit, up to    *)
(* reopenings by other submissions.                                        *)

ChangeAlone(u) ==
  user[u].pc = "change" =>
    /\ finding[user[u].fp].status = user[u].from
    /\ validate_finding_transition(user[u].from, user[u].to)
    /\ \A v \in Users \ {u} : ~ (user[v].pc = "change" /\ user[v].fp = user[u].fp)
    /\ \A r \in Requests : ~ (req[r].pc = "save" /\ ItemOf(r).fp = user[u].fp)

LoadedHolds(r) ==
  req[r].pc = "save" /\ req[r].loaded # "NEW" =>
    IF req[r].loaded = "RESOLVED"
    THEN finding[ItemOf(r).fp].status \in {"RESOLVED", "REOPENED"}
    ELSE finding[ItemOf(r).fp].status # "RESOLVED"

FindingsInv ==
  SerialFindings => /\ \A u \in Users : ChangeAlone(u)
                    /\ \A r \in Requests : LoadedHolds(r)

(* The clock is read once by each submission.                              *)

Flushed == {r \in Requests : req[r].pc \notin {"idle", "flush", "noop"}}

ClockInv ==
  /\ clock <= Cardinality(Flushed)
  /\ \A r \in Requests : Working(r) => req[r].at \in 1..clock

-----------------------------------------------------------------------------
(* Facts about states and steps that most proofs below use.                *)

\* What each stage of a submission keeps.
LEMMA Fields ==
  ASSUME TypeOK, NEW r \in Requests
  PROVE  /\ req[r] \in RequestState
         /\ Started(r) => req[r].task \in Tasks
         /\ req[r].pc \in {"ok", "noop", "error", "lost"} => req[r].task \in Tasks
         /\ req[r].pc = "answer" => req[r].kept \in BOOLEAN /\ req[r].conn \in BOOLEAN
  BY DEF TypeOK, RequestState, Idle, Work, Started, Working, Locking

LEMMA WorkFields ==
  ASSUME TypeOK, NEW r \in Requests, Working(r)
  PROVE  /\ req[r] \in Work
         /\ Report[req[r].task] \in Seq(Item)
         /\ req[r].n \in 1..Len(Report[req[r].task])
         /\ Len(Report[req[r].task]) \in Nat \ {0}
         /\ ItemOf(r) \in Item
         /\ ItemOf(r).fp \in Fingerprints
         /\ ItemOf(r).kind \in {"sound", "unstorable", "oversized"}
  <1>1. req[r] \in Work
    BY DEF TypeOK, RequestState, Idle, Working, Locking
  <1>2. Report[req[r].task] \in Seq(Item) \ {<<>>}
    BY <1>1, IngestionAssumption DEF Work
  <1>3. req[r].n \in DOMAIN Report[req[r].task]
    BY DEF TypeOK, Working
  <1>4. /\ Len(Report[req[r].task]) \in Nat \ {0}
        /\ DOMAIN Report[req[r].task] = 1..Len(Report[req[r].task])
    BY <1>2
  <1>5. ItemOf(r) \in Item
    BY <1>2, <1>3, <1>4 DEF ItemOf
  <1>6. QED
    BY <1>1, <1>2, <1>3, <1>4, <1>5 DEF Item

LEMMA Moves ==
  ASSUME TypeOK, NEW r \in Requests, NEW state, Become(r, state)
  PROVE  /\ req'[r] = state
         /\ \A q \in Requests \ {r} : req'[q] = req[q]
         /\ DOMAIN req' = Requests
  BY DEF TypeOK, Become

\* A step of one submission that changes no row keeps the strengthening if it
\* does for the submission.
LEMMA MoveKeeps ==
  ASSUME IInv, NEW r \in Requests, NEW state \in RequestState, Become(r, state),
         state.pc \in {"item"} \cup Locking =>
           state.n \in DOMAIN Report[state.task],
         clock' \in Nat,
         UNCHANGED <<completed, finding, evidence, user, poolMax>>,
         Sane(r)'
  PROVE  IInv'
  <1>1. /\ req'[r] = state
        /\ \A q \in Requests \ {r} : req'[q] = req[q]
    BY Moves DEF IInv
  <1>2. TypeOK'
    BY <1>1 DEF IInv, TypeOK, Become
  <1>3. ASSUME NEW q \in Requests \ {r} PROVE Sane(q)'
    <2>1. Sane(q) /\ req'[q] = req[q]
      BY <1>1 DEF IInv
    <2>2. KeyAlone(q)'
      BY <1>1, <2>1 DEF Sane, KeyAlone, ItemOf
    <2>3. LockAlone(q)'
      BY <1>1, <2>1 DEF Sane, LockAlone, ItemOf
    <2>4. ItemsInOrder(q)' /\ StoredSoFar(q)'
      BY <2>1 DEF Sane, ItemsInOrder, StoredSoFar, Working
    <2>5. LoadedRow(q)' /\ StoredElsewhere(q)' /\ RetriedFound(q)'
      BY <2>1 DEF Sane, LoadedRow, StoredElsewhere, RetriedFound, Working, ItemOf
    <2>6. QED
      BY <2>2, <2>3, <2>4, <2>5 DEF Sane
  <1>4. CompletedWithEvidence' /\ EvidenceHasRow' /\ ChangeHasRow'
    BY DEF IInv, CompletedWithEvidence, EvidenceHasRow, ChangeHasRow
  <1>5. QED
    BY <1>2, <1>3, <1>4 DEF IInv

LEMMA InitInv == Init => IInv
  <1> SUFFICES ASSUME Init PROVE IInv
    OBVIOUS
  <1>1. TypeOK
    BY DEF Init, TypeOK, RequestState, UserState, Idle, Locking
  <1>2. \A r \in Requests : Sane(r)
    BY DEF Init, Sane, ItemsInOrder, StoredSoFar, LoadedRow, KeyAlone, LockAlone,
       StoredElsewhere, RetriedFound, Working, Locking, Idle
  <1>3. QED
    BY <1>1, <1>2 DEF IInv, Init, CompletedWithEvidence, EvidenceHasRow,
       ChangeHasRow, Idle

-----------------------------------------------------------------------------
(* Each step keeps the strengthening.                                      *)

LEMMA BeginStep ==
  ASSUME IInv, NEW r \in Requests, NEW t \in Tasks, Begin(r, t), UNCHANGED poolMax
  PROVE  IInv'
  <1>1. PICK state \in [pc : {"flush", "noop"}, task : Tasks] : Become(r, state)
    BY DEF Begin
  <1>2. \A e \in evidence : e.req # r
    BY DEF Begin, IInv, Sane, ItemsInOrder, Idle
  <1>3. state \in RequestState /\ state.pc \in {"flush", "noop"}
    BY DEF RequestState
  <1>4. req'[r] = state /\ UNCHANGED <<completed, finding, evidence, clock, user>>
    BY <1>1, Moves DEF IInv, Begin
  <1>5. Sane(r)'
    BY <1>2, <1>3, <1>4 DEF Sane, ItemsInOrder, StoredSoFar, LoadedRow, KeyAlone,
       LockAlone, StoredElsewhere, RetriedFound, Working, Locking
  <1>6. QED
    BY <1>1, <1>3, <1>4, <1>5, MoveKeeps DEF Locking, IInv, TypeOK

LEMMA FlushStep ==
  ASSUME IInv, NEW r \in Requests, Flush(r), UNCHANGED poolMax
  PROVE  IInv'
  <1> DEFINE state == [pc |-> "item", task |-> req[r].task, n |-> 1, at |-> clock + 1,
                       tries |-> 0, loaded |-> "NONE", kept |-> FALSE, conn |-> TRUE]
  <1>1. Become(r, state) /\ req[r].pc = "flush"
    BY DEF Flush
  <1>2. /\ req[r].task \in Tasks /\ clock + 1 \in Nat
        /\ Report[req[r].task] \in Seq(Item) \ {<<>>}
    BY <1>1, Fields, IngestionAssumption DEF IInv, TypeOK, Started
  <1>3. state \in Work /\ state.n \in DOMAIN Report[state.task]
    BY <1>2 DEF Work
  <1>4. \A e \in evidence : e.req # r
    BY <1>1 DEF IInv, Sane, ItemsInOrder
  <1>5. req'[r] = state /\ UNCHANGED <<completed, finding, evidence, user>>
    BY <1>1, Moves DEF IInv, Flush
  <1>6. Sane(r)'
    <2>1. ItemsInOrder(r)'
      BY <1>4, <1>5 DEF ItemsInOrder
    <2>2. StoredSoFar(r)'
      <3>1. \A n \in DOMAIN Report[req'[r].task] : ~ (n < 1)
        BY <1>2, <1>5
      <3>2. Working(r)' /\ req'[r].n = 1
        BY <1>5 DEF Working
      <3>3. QED
        BY <3>1, <3>2 DEF StoredSoFar
    <2>3. QED
      BY <1>5, <2>1, <2>2 DEF Sane, LoadedRow, KeyAlone, LockAlone,
         StoredElsewhere, RetriedFound, Working, Locking
  <1>7. QED
    <2>1. clock' \in Nat
      BY <1>2 DEF Flush
    <2>2. state \in RequestState
      BY <1>3 DEF RequestState
    <2>3. QED
      BY <1>1, <1>3, <1>5, <1>6, <2>1, <2>2, MoveKeeps

\* A submission that ends.
LEMMA EndStep ==
  ASSUME IInv, NEW r \in Requests, Reject(r) \/ Answer(r) \/ ConnectionTimeout(r),
         UNCHANGED poolMax
  PROVE  IInv'
  <1>1. PICK pc \in {"ok", "error"} :
          /\ Finish(r, pc)
          /\ pc = "ok" => req[r].pc = "answer"
    BY DEF Reject, Answer, ConnectionTimeout
  <1>2. /\ req[r].pc \in {"item", "select", "answer"}
        /\ UNCHANGED <<completed, finding, evidence, clock, user>>
    BY DEF Reject, Answer, ConnectionTimeout
  <1>3. req[r].task \in Tasks
    BY <1>2, Fields DEF IInv, Started, Working, Locking
  <1>4. [pc |-> pc, task |-> req[r].task] \in RequestState
    BY <1>3 DEF RequestState
  <1>5. req'[r] = [pc |-> pc, task |-> req[r].task]
    BY <1>1, Moves DEF IInv, Finish
  <1>6. Sane(r)'
    <2>1. ItemsInOrder(r)'
      BY <1>2, <1>5 DEF ItemsInOrder, Working, Locking
    <2>2. StoredSoFar(r)'
      BY <1>1, <1>2, <1>5 DEF IInv, Sane, StoredSoFar, Working, Locking
    <2>3. QED
      BY <1>5, <2>1, <2>2 DEF Sane, LoadedRow, KeyAlone, LockAlone,
         StoredElsewhere, RetriedFound, Working, Locking
  <1>7. QED
    BY <1>1, <1>2, <1>4, <1>6, MoveKeeps DEF Finish, Locking, IInv, TypeOK

\* What a step within an item has in common with all others: the item, and what
\* is stored before it.
LEMMA WithinItem ==
  ASSUME IInv, NEW r \in Requests, Working(r), NEW state \in Work,
         state.pc \in Locking,
         Become(r, state), state.task = req[r].task, state.n = req[r].n,
         UNCHANGED <<completed, finding, evidence, clock, user, poolMax>>
  PROVE  /\ req'[r] = state
         /\ \A q \in Requests \ {r} : req'[q] = req[q]
         /\ state \in RequestState /\ state.n \in DOMAIN Report[state.task]
         /\ ItemOf(r)' = ItemOf(r) /\ Working(r)'
         /\ ItemsInOrder(r)' /\ StoredSoFar(r)'
  <1>1. /\ req'[r] = state
        /\ \A q \in Requests \ {r} : req'[q] = req[q]
    BY Moves DEF IInv
  <1>2. ItemOf(r)' = ItemOf(r) /\ Working(r)'
    BY <1>1 DEF ItemOf, Working
  <1>3. ItemsInOrder(r)'
    BY <1>1 DEF IInv, Sane, ItemsInOrder, Working, Locking
  <1>4. StoredSoFar(r)'
    BY <1>1 DEF IInv, Sane, StoredSoFar, Working
  <1>5. state \in RequestState /\ state.n \in DOMAIN Report[state.task]
    BY WorkFields DEF IInv, RequestState, TypeOK, Working
  <1>6. QED
    BY <1>1, <1>2, <1>3, <1>4, <1>5

LEMMA LockStep ==
  ASSUME IInv, NEW r \in Requests, Lock(r), UNCHANGED poolMax
  PROVE  IInv'
  <1> DEFINE state == [req[r] EXCEPT !.pc = "select"]
  <1>1. /\ Working(r) /\ req[r].pc = "item" /\ Become(r, state)
        /\ UNCHANGED <<completed, finding, evidence, clock, user>>
    BY DEF Lock, Working
  <1>2. /\ state \in Work /\ state.pc = "select"
        /\ state.task = req[r].task /\ state.n = req[r].n
        /\ state.tries = req[r].tries
    BY <1>1, WorkFields DEF IInv, Work, Locking
  <1>3. /\ req'[r] = state
        /\ \A q \in Requests \ {r} : req'[q] = req[q]
        /\ state \in RequestState /\ state.n \in DOMAIN Report[state.task]
        /\ ItemOf(r)' = ItemOf(r) /\ Working(r)'
        /\ ItemsInOrder(r)' /\ StoredSoFar(r)'
    BY <1>1, <1>2, WithinItem DEF Locking
  <1>4. LockAlone(r)'
    BY <1>3 DEF Lock, LockAlone, HoldsLock, ItemOf
  <1>5. RetriedFound(r)'
    BY <1>1, <1>2, <1>3 DEF IInv, Sane, RetriedFound
  <1>6. Sane(r)'
    BY <1>2, <1>3, <1>4, <1>5 DEF Sane, LoadedRow, KeyAlone, StoredElsewhere
  <1>7. QED
    BY <1>1, <1>3, <1>6, MoveKeeps DEF IInv, TypeOK

\* A step of a submission that keeps its lock.
LEMMA LockedStep ==
  ASSUME IInv, NEW r \in Requests, req[r].pc \in Locking,
         NEW state \in Work, state.pc \in Locking,
         Become(r, state), state.task = req[r].task, state.n = req[r].n,
         UNCHANGED <<completed, finding, evidence, clock, user, poolMax>>,
         LoadedRow(r)', KeyAlone(r)', StoredElsewhere(r)', RetriedFound(r)'
  PROVE  IInv'
  <1>1. Working(r)
    BY DEF Working
  <1>2. /\ req'[r] = state
        /\ \A q \in Requests \ {r} : req'[q] = req[q]
        /\ state \in RequestState /\ state.n \in DOMAIN Report[state.task]
        /\ ItemOf(r)' = ItemOf(r)
        /\ ItemsInOrder(r)' /\ StoredSoFar(r)'
    BY <1>1, WithinItem
  <1>3. LockAlone(r)'
    BY <1>2 DEF IInv, Sane, LockAlone, ItemOf
  <1>4. Sane(r)'
    BY <1>2, <1>3 DEF Sane
  <1>5. QED
    BY <1>2, <1>4, MoveKeeps DEF IInv, TypeOK

\* A row that was found is loaded.
LEMMA FoundStep ==
  ASSUME IInv, NEW r \in Requests, req[r].pc \in {"select", "fallback"},
         finding[ItemOf(r).fp] # NoFinding, Found(r),
         UNCHANGED <<completed, finding, evidence, clock, user, poolMax>>
  PROVE  IInv'
  <1> DEFINE state == [req[r] EXCEPT !.pc = "save", !.conn = TRUE,
                                     !.loaded = finding[ItemOf(r).fp].status]
  <1>1. Working(r) /\ req[r].pc \in Locking
    BY DEF Working, Locking
  <1>2. finding[ItemOf(r).fp].status \in FindingStatus
    BY <1>1, WorkFields DEF IInv, TypeOK, FindingRow
  <1>3. /\ state \in Work /\ state.pc = "save" /\ state.loaded # "NEW"
        /\ state.task = req[r].task /\ state.n = req[r].n
        /\ state.tries = req[r].tries
    BY <1>1, <1>2, WorkFields DEF IInv, Work, Locking, FindingStatus
  <1>4. req'[r] = state /\ ItemOf(r)' = ItemOf(r)
    BY <1>1, <1>3, WithinItem DEF Found, Locking
  <1>5. LoadedRow(r)' /\ KeyAlone(r)' /\ StoredElsewhere(r)' /\ RetriedFound(r)'
    BY <1>3, <1>4 DEF LoadedRow, KeyAlone, StoredElsewhere, RetriedFound
  <1>6. QED
    BY <1>1, <1>3, <1>5, LockedStep DEF Found, Locking

LEMMA SelectStep ==
  ASSUME IInv, NEW r \in Requests, Select(r), UNCHANGED poolMax
  PROVE  IInv'
  <1>1. CASE finding[ItemOf(r).fp] # NoFinding
    BY <1>1, FoundStep DEF Select
  <1>2. CASE finding[ItemOf(r).fp] = NoFinding
    <2> DEFINE state == [req[r] EXCEPT !.pc = "insert", !.conn = TRUE]
    <2>1. Working(r) /\ req[r].pc \in Locking /\ Become(r, state)
      BY <1>2 DEF Select, Working, Locking
    <2>2. /\ state \in Work /\ state.pc = "insert"
          /\ state.task = req[r].task /\ state.n = req[r].n
          /\ state.tries = req[r].tries
      BY <2>1, WorkFields DEF IInv, Work, Locking
    <2>3. /\ req'[r] = state /\ ItemOf(r)' = ItemOf(r)
          /\ UNCHANGED <<completed, finding, evidence, clock, user>>
      BY <2>1, <2>2, WithinItem DEF Select, Locking
    <2>4. LoadedRow(r)' /\ KeyAlone(r)' /\ StoredElsewhere(r)'
      BY <1>2, <2>2, <2>3 DEF LoadedRow, KeyAlone, StoredElsewhere
    <2>5. RetriedFound(r)'
      BY <2>1, <2>2, <2>3 DEF IInv, Sane, RetriedFound
    <2>6. QED
      BY <2>1, <2>2, <2>3, <2>4, <2>5, LockedStep DEF Locking
  <1>3. QED
    BY <1>1, <1>2

LEMMA InsertStep ==
  ASSUME IInv, NEW r \in Requests, Insert(r), UNCHANGED poolMax
  PROVE  IInv'
  <1> DEFINE state == [req[r] EXCEPT !.pc = "save", !.loaded = "NEW"]
  <1>1. Working(r) /\ req[r].pc \in Locking /\ Become(r, state)
    BY DEF Insert, Working, Locking
  <1>2. /\ state \in Work /\ state.pc = "save" /\ state.loaded = "NEW"
        /\ state.task = req[r].task /\ state.n = req[r].n
        /\ state.tries = req[r].tries
    BY <1>1, WorkFields DEF IInv, Work, Locking
  <1>3. /\ req'[r] = state /\ ItemOf(r)' = ItemOf(r)
        /\ \A q \in Requests \ {r} : req'[q] = req[q]
        /\ UNCHANGED <<completed, finding, evidence, clock, user>>
    BY <1>1, <1>2, WithinItem DEF Insert, Locking
  <1>4. LoadedRow(r)' /\ StoredElsewhere(r)'
    BY <1>2, <1>3 DEF Insert, LoadedRow, StoredElsewhere
  <1>5. KeyAlone(r)'
    BY <1>3 DEF Insert, KeyAlone, HoldsKey, ItemOf
  <1>6. RetriedFound(r)'
    BY <1>1, <1>2, <1>3 DEF IInv, Sane, RetriedFound
  <1>7. QED
    BY <1>1, <1>2, <1>3, <1>4, <1>5, <1>6, LockedStep DEF Locking

LEMMA InsertFailsStep ==
  ASSUME IInv, NEW r \in Requests, InsertFails(r), UNCHANGED poolMax
  PROVE  IInv'
  <1> DEFINE state == [req[r] EXCEPT
                         !.tries = @ + 1,
                         !.pc = IF req[r].tries + 1 < MaxAttempts
                                THEN "select" ELSE "fallback"]
  <1>1. Working(r) /\ req[r].pc \in Locking /\ Become(r, state)
    BY DEF InsertFails, Working, Locking
  <1>2. /\ state \in Work /\ state.pc \in {"select", "fallback"}
        /\ state.task = req[r].task /\ state.n = req[r].n
    <2>1. req[r] \in Work
      BY <1>1, WorkFields DEF IInv
    <2>2. req[r].tries + 1 \in Nat
      BY <2>1 DEF Work
    <2>3. state = [req[r] EXCEPT !.tries = req[r].tries + 1, !.pc = state.pc]
          /\ state.pc \in {"select", "fallback"}
      BY <2>1 DEF Work
    <2>4. QED
      BY <2>1, <2>2, <2>3 DEF Work, Locking
  <1>3. /\ req'[r] = state /\ ItemOf(r)' = ItemOf(r)
        /\ UNCHANGED <<completed, finding, evidence, clock, user>>
    BY <1>1, <1>2, WithinItem DEF InsertFails, Locking
  <1>4. LoadedRow(r)' /\ KeyAlone(r)' /\ StoredElsewhere(r)'
    BY <1>2, <1>3 DEF LoadedRow, KeyAlone, StoredElsewhere
  <1>5. RetriedFound(r)'
    BY <1>3 DEF InsertFails, RetriedFound
  <1>6. QED
    BY <1>1, <1>2, <1>3, <1>4, <1>5, LockedStep DEF Locking

\* The step to the next item, or to the answer after the last.
LEMMA NextItemFields ==
  ASSUME TypeOK, NEW r \in Requests, Working(r),
         NEW kept \in BOOLEAN, NEW conn \in BOOLEAN, NextItem(r, kept, conn)
  PROVE  \E state \in RequestState :
           /\ Become(r, state)
           /\ state.pc \in {"item", "answer"}
           /\ state.task = req[r].task
           /\ state.pc = "item" =>
                /\ state.n \in DOMAIN Report[state.task]
                /\ state.n = req[r].n + 1 /\ state.tries = 0 /\ state.at = req[r].at
           /\ state.pc = "answer" => req[r].n = Len(Report[req[r].task])
  <1>1. /\ req[r] \in Work
        /\ req[r].n \in 1..Len(Report[req[r].task])
        /\ Len(Report[req[r].task]) \in Nat
        /\ DOMAIN Report[req[r].task] = 1..Len(Report[req[r].task])
        /\ req[r].task \in Tasks
    BY WorkFields DEF Work
  <1>2. CASE req[r].n = Len(Report[req[r].task])
    <2> DEFINE state == [pc |-> "answer", task |-> req[r].task,
                         kept |-> kept, conn |-> conn]
    <2>1. state \in RequestState
      BY <1>1 DEF RequestState
    <2>2. Become(r, state)
      BY <1>2 DEF NextItem
    <2>3. QED
      BY <1>2, <2>1, <2>2
  <1>3. CASE req[r].n # Len(Report[req[r].task])
    <2> DEFINE state == [req[r] EXCEPT !.pc = "item", !.n = @ + 1, !.tries = 0,
                                       !.loaded = "NONE", !.kept = kept,
                                       !.conn = conn]
    <2>1. state \in Work
      <3>1. req[r].n + 1 \in Nat /\ "item" \in {"item"} \cup Locking
        BY <1>1
      <3>2. req[r].n + 1 \in Nat /\ 0 \in Nat
            /\ "NONE" \in FindingStatus \cup {"NONE", "NEW"}
        BY <3>1
      <3>3. state = [req[r] EXCEPT !.pc = "item", !.n = req[r].n + 1, !.tries = 0,
                                   !.loaded = "NONE", !.kept = kept, !.conn = conn]
        BY <1>1 DEF Work
      <3>4. QED
        BY <1>1, <3>1, <3>2, <3>3 DEF Work
    <2>2. Become(r, state)
      BY <1>3 DEF NextItem
    <2>3. state.n = req[r].n + 1 /\ state.n \in DOMAIN Report[req[r].task]
      BY <1>1, <1>3 DEF Work
    <2>4. /\ state.pc = "item" /\ state.task = req[r].task
          /\ state.tries = 0 /\ state.at = req[r].at
      BY <1>1 DEF Work
    <2>5. QED
      BY <2>1, <2>2, <2>3, <2>4 DEF RequestState
  <1>4. QED
    BY <1>2, <1>3

LEMMA FallbackStep ==
  ASSUME IInv, NEW r \in Requests, Fallback(r), UNCHANGED poolMax
  PROVE  IInv'
  <1>0. req[r].pc = "fallback" /\ Working(r)
    BY DEF Fallback, Working, Locking
  <1>1. CASE finding[ItemOf(r).fp] # NoFinding
    BY <1>1, FoundStep DEF Fallback
  <1>2. CASE finding[ItemOf(r).fp] = NoFinding
    <2>1. PICK state \in RequestState :
           /\ Become(r, state)
           /\ state.pc \in {"item", "answer"}
           /\ state.task = req[r].task
           /\ state.pc = "item" =>
                /\ state.n \in DOMAIN Report[state.task]
                /\ state.n = req[r].n + 1 /\ state.tries = 0 /\ state.at = req[r].at
           /\ state.pc = "answer" => req[r].n = Len(Report[req[r].task])
      <3>1. req[r].kept \in BOOLEAN /\ TypeOK
        BY <1>0, WorkFields DEF IInv, Work
      <3>2. NextItem(r, req[r].kept, TRUE)
        BY <1>2 DEF Fallback
      <3>3. QED
        BY <1>0, <3>1, <3>2, NextItemFields
    <2>2. ItemOf(r).kind # "sound"
      BY <1>0, <1>2 DEF IInv, Sane, RetriedFound
    <2>3. /\ req'[r] = state
          /\ UNCHANGED <<completed, finding, evidence, clock, user>>
      BY <2>1, Moves DEF IInv, Fallback
    <2>4. /\ req[r].n \in 1..Len(Report[req[r].task])
          /\ Len(Report[req[r].task]) \in Nat
          /\ DOMAIN Report[req[r].task] = 1..Len(Report[req[r].task])
      BY <1>0, WorkFields DEF IInv
    <2>5. ItemsInOrder(r)'
      <3>1. ASSUME NEW e \in evidence, e.req = r, state.pc = "item"
            PROVE  e.item < state.n
        <4>1. e.item < req[r].n /\ e.item \in Nat
          BY <1>0, <3>1 DEF IInv, Sane, ItemsInOrder, TypeOK, Evidence
        <4>2. QED
          BY <2>1, <2>4, <3>1, <4>1
      <3>2. QED
        BY <2>1, <2>3, <3>1 DEF ItemsInOrder, Working, Locking
    <2>6. StoredSoFar(r)'
      <3>1. ASSUME NEW n \in DOMAIN Report[req[r].task],
                   state.pc = "item" => n < state.n,
                   Report[req[r].task][n].kind = "sound"
            PROVE  \E e \in evidence : /\ e.req = r /\ e.item = n
                                       /\ e.fp = Report[req[r].task][n].fp
        <4>1. n # req[r].n
          BY <2>2, <3>1 DEF ItemOf
        <4>2. n < req[r].n
          BY <2>1, <2>4, <3>1, <4>1
        <4>3. QED
          BY <1>0, <3>1, <4>2 DEF IInv, Sane, StoredSoFar
      <3>2. QED
        BY <2>1, <2>3, <3>1 DEF StoredSoFar, Working, Locking
    <2>7. Sane(r)'
      BY <2>1, <2>3, <2>5, <2>6 DEF Sane, LoadedRow, KeyAlone, LockAlone,
         StoredElsewhere, RetriedFound, Working, Locking
    <2>8. QED
      BY <2>1, <2>3, <2>7, MoveKeeps DEF IInv, TypeOK, Locking
  <1>3. QED
    BY <1>1, <1>2

\* What a saved item changes: its row, one row of evidence, and the status of the
\* task.
LEMMA SaveEffects ==
  ASSUME IInv, NEW r \in Requests, Save(r)
  PROVE  /\ req[r].pc = "save" /\ Working(r)
         /\ Saved(r) \in FindingRow
         /\ finding' \in [Fingerprints -> {NoFinding} \cup FindingRow]
         /\ \A f \in Fingerprints :
              finding'[f] = IF f = ItemOf(r).fp THEN Saved(r) ELSE finding[f]
         /\ \A f \in Fingerprints :
              finding[f] # NoFinding => finding'[f] # NoFinding
         /\ finding'[ItemOf(r).fp] # NoFinding
         /\ completed' \in [Tasks -> BOOLEAN]
         /\ \A t \in Tasks :
              completed'[t] = IF t = req[r].task THEN TRUE ELSE completed[t]
         /\ UNCHANGED <<clock, user>>
         /\ \E e \in Evidence :
              /\ e.req = r /\ e.task = req[r].task /\ e.item = req[r].n
              /\ e.fp = ItemOf(r).fp /\ e.at = req[r].at
              /\ evidence' = evidence \cup {e}
  <1>1. req[r].pc = "save" /\ Working(r)
    BY DEF Save, Working, Locking
  <1>2. /\ req[r] \in Work /\ ItemOf(r).fp \in Fingerprints
    BY <1>1, WorkFields DEF IInv
  <1>3. [req |-> r, task |-> req[r].task, item |-> req[r].n,
         fp |-> ItemOf(r).fp, at |-> req[r].at] \in Evidence
    BY <1>2 DEF Work, Evidence
  <1>4. Saved(r) \in FindingRow
    <2>1. CASE req[r].loaded \in {"NEW", "RESOLVED"}
      BY <1>2, <2>1 DEF Saved, Work, FindingRow, FindingStatus
    <2>2. CASE req[r].loaded \notin {"NEW", "RESOLVED"}
      <3>1. finding[ItemOf(r).fp] \in FindingRow
        BY <1>1, <1>2, <2>2 DEF IInv, Sane, LoadedRow, TypeOK
      <3>2. Saved(r) = [status |-> finding[ItemOf(r).fp].status, lastSeen |-> req[r].at]
        BY <2>2 DEF Saved
      <3>3. QED
        BY <1>2, <3>1, <3>2 DEF Work, FindingRow
    <2>3. QED
      BY <2>1, <2>2
  <1>5. NoFinding \notin FindingRow
    BY DEF NoFinding, FindingRow, FindingStatus
  <1>6. /\ finding' \in [Fingerprints -> {NoFinding} \cup FindingRow]
        /\ \A f \in Fingerprints :
             finding'[f] = IF f = ItemOf(r).fp THEN Saved(r) ELSE finding[f]
    BY <1>2, <1>4 DEF Save, IInv, TypeOK
  <1>7. /\ completed' \in [Tasks -> BOOLEAN]
        /\ \A t \in Tasks :
             completed'[t] = IF t = req[r].task THEN TRUE ELSE completed[t]
    BY <1>2 DEF Save, IInv, TypeOK, Work
  <1>8. \A f \in Fingerprints : finding[f] # NoFinding => finding'[f] # NoFinding
    BY <1>4, <1>5, <1>6
  <1>9. finding'[ItemOf(r).fp] # NoFinding
    BY <1>2, <1>4, <1>5, <1>6
  <1>10. /\ UNCHANGED <<clock, user>>
         /\ evidence' = evidence \cup
              {[req |-> r, task |-> req[r].task, item |-> req[r].n,
                fp |-> ItemOf(r).fp, at |-> req[r].at]}
    BY DEF Save
  <1>11. QED
    <2>1. PICK e : e = [req |-> r, task |-> req[r].task, item |-> req[r].n,
                        fp |-> ItemOf(r).fp, at |-> req[r].at]
      OBVIOUS
    <2>2. /\ e \in Evidence
          /\ e.req = r /\ e.task = req[r].task /\ e.item = req[r].n
          /\ e.fp = ItemOf(r).fp /\ e.at = req[r].at
          /\ evidence' = evidence \cup {e}
      BY <1>3, <1>10, <2>1
    <2>3. \E d \in Evidence :
            /\ d.req = r /\ d.task = req[r].task /\ d.item = req[r].n
            /\ d.fp = ItemOf(r).fp /\ d.at = req[r].at
            /\ evidence' = evidence \cup {d}
      BY <2>2
    <2>4. QED
      BY <1>1, <1>4, <1>6, <1>7, <1>8, <1>9, <1>10, <2>3

LEMMA SaveStep ==
  ASSUME IInv, NEW r \in Requests, Save(r), UNCHANGED poolMax
  PROVE  IInv'
  <1>0. PICK e \in Evidence :
          /\ e.req = r /\ e.task = req[r].task /\ e.item = req[r].n
          /\ e.fp = ItemOf(r).fp /\ e.at = req[r].at
          /\ evidence' = evidence \cup {e}
    BY SaveEffects
  <1>1. /\ req[r].pc = "save" /\ Working(r)
        /\ e \in Evidence
        /\ evidence' = evidence \cup {e}
        /\ finding' \in [Fingerprints -> {NoFinding} \cup FindingRow]
        /\ \A f \in Fingerprints : f # e.fp => finding'[f] = finding[f]
        /\ \A f \in Fingerprints : finding[f] # NoFinding => finding'[f] # NoFinding
        /\ finding'[e.fp] # NoFinding
        /\ completed' \in [Tasks -> BOOLEAN]
        /\ \A t \in Tasks : completed'[t] = IF t = e.task THEN TRUE ELSE completed[t]
        /\ UNCHANGED <<clock, user>>
    <2>1. /\ req[r].pc = "save" /\ Working(r)
          /\ finding' \in [Fingerprints -> {NoFinding} \cup FindingRow]
          /\ \A f \in Fingerprints :
               finding'[f] = IF f = ItemOf(r).fp THEN Saved(r) ELSE finding[f]
          /\ \A f \in Fingerprints : finding[f] # NoFinding => finding'[f] # NoFinding
          /\ finding'[ItemOf(r).fp] # NoFinding
          /\ completed' \in [Tasks -> BOOLEAN]
          /\ \A t \in Tasks :
               completed'[t] = IF t = req[r].task THEN TRUE ELSE completed[t]
          /\ UNCHANGED <<clock, user>>
      BY SaveEffects
    <2>2. QED
      BY <1>0, <2>1
  <1>2. PICK state \in RequestState :
          /\ Become(r, state)
          /\ state.pc \in {"item", "answer"}
          /\ state.task = req[r].task
          /\ state.pc = "item" =>
               /\ state.n \in DOMAIN Report[state.task]
               /\ state.n = req[r].n + 1 /\ state.tries = 0 /\ state.at = req[r].at
          /\ state.pc = "answer" => req[r].n = Len(Report[req[r].task])
    <2>1. NextItem(r, TRUE, FALSE)
      BY DEF Save
    <2>2. QED
      BY <1>1, <2>1, NextItemFields DEF IInv
  <1>3. /\ req'[r] = state
        /\ \A q \in Requests \ {r} : req'[q] = req[q]
    BY <1>2, Moves DEF IInv
  <1>4. /\ req[r].n \in 1..Len(Report[req[r].task])
        /\ Len(Report[req[r].task]) \in Nat
        /\ DOMAIN Report[req[r].task] = 1..Len(Report[req[r].task])
        /\ e.req = r /\ e.item = req[r].n /\ e.fp = ItemOf(r).fp
        /\ e.task = req[r].task /\ e.task \in Tasks /\ e.fp \in Fingerprints
    BY <1>0, <1>1, WorkFields DEF IInv, Evidence
  <1>5. TypeOK'
    BY <1>1, <1>2, <1>3 DEF IInv, TypeOK, Become, Locking
  <1>6. CompletedWithEvidence' /\ EvidenceHasRow' /\ ChangeHasRow'
    <2>1. CompletedWithEvidence'
      <3>1. ASSUME NEW t \in Tasks, t # e.task
            PROVE  completed'[t] <=> \E d \in evidence' : d.task = t
        BY <1>1, <3>1 DEF IInv, CompletedWithEvidence
      <3>2. completed'[e.task] <=> \E d \in evidence' : d.task = e.task
        BY <1>1, <1>4
      <3>3. QED
        BY <3>1, <3>2 DEF CompletedWithEvidence
    <2>2. EvidenceHasRow'
      BY <1>1, <1>4 DEF IInv, EvidenceHasRow, TypeOK, Evidence
    <2>3. \A u \in Users : user[u].pc = "change" => user[u].fp \in Fingerprints
      BY DEF IInv, TypeOK, UserState, Idle
    <2>4. ChangeHasRow'
      BY <1>1, <2>3 DEF IInv, ChangeHasRow
    <2>5. QED
      BY <2>1, <2>2, <2>4
  <1>7. Sane(r)'
    <2>1. ItemsInOrder(r)'
      <3>1. ASSUME NEW d \in evidence', d.req = r, state.pc = "item"
            PROVE  d.item < state.n
        <4>1. CASE d = e
          BY <1>2, <1>4, <3>1, <4>1
        <4>2. CASE d \in evidence
          <5>1. d.item < req[r].n /\ d.item \in Nat
            BY <1>1, <3>1, <4>2 DEF IInv, Sane, ItemsInOrder, TypeOK, Evidence
          <5>2. QED
            BY <1>2, <1>4, <3>1, <5>1
        <4>3. QED
          BY <1>1, <3>1, <4>1, <4>2
      <3>2. QED
        BY <1>2, <1>3, <3>1 DEF ItemsInOrder, Working, Locking
    <2>2. StoredSoFar(r)'
      <3>1. ASSUME NEW n \in DOMAIN Report[req[r].task],
                   state.pc = "item" => n < state.n,
                   Report[req[r].task][n].kind = "sound"
            PROVE  \E d \in evidence' : /\ d.req = r /\ d.item = n
                                        /\ d.fp = Report[req[r].task][n].fp
        <4>1. CASE n = req[r].n
          BY <1>1, <1>4, <4>1 DEF ItemOf
        <4>2. CASE n # req[r].n
          <5>1. n < req[r].n
            BY <1>2, <1>4, <3>1, <4>2
          <5>2. QED
            BY <1>1, <3>1, <5>1 DEF IInv, Sane, StoredSoFar
        <4>3. QED
          BY <4>1, <4>2
      <3>2. QED
        BY <1>2, <1>3, <3>1 DEF StoredSoFar, Working, Locking
    <2>3. QED
      BY <1>2, <1>3, <2>1, <2>2 DEF Sane, LoadedRow, KeyAlone, LockAlone,
         StoredElsewhere, RetriedFound, Working, Locking
  <1>8. ASSUME NEW q \in Requests \ {r} PROVE Sane(q)'
    <2>1. Sane(q) /\ Sane(r) /\ req'[q] = req[q]
      BY <1>3 DEF IInv
    <2>2. KeyAlone(q)' /\ LockAlone(q)'
      BY <1>2, <1>3, <2>1 DEF Sane, KeyAlone, LockAlone, ItemOf, Locking
    <2>3. ItemsInOrder(q)' /\ StoredSoFar(q)'
      <3>1. ItemsInOrder(q)'
        BY <1>1, <1>4, <2>1 DEF Sane, ItemsInOrder, Working
      <3>2. StoredSoFar(q)'
        BY <1>1, <2>1 DEF Sane, StoredSoFar, Working
      <3>3. QED
        BY <3>1, <3>2
    <2>4. Working(q) => ItemOf(q).fp \in Fingerprints
      BY WorkFields DEF IInv
    <2>5. LoadedRow(q)'
      <3>1. ASSUME req[q].pc = "save", ItemOf(q).fp = e.fp
            PROVE  req[q].loaded # "NEW"
        BY <1>1, <1>4, <2>1, <3>1 DEF Sane, LoadedRow, KeyAlone
      <3>2. QED
        BY <1>1, <2>1, <2>4, <3>1 DEF Sane, LoadedRow, Working, Locking, ItemOf
    <2>6. StoredElsewhere(q)'
      <3>1. ASSUME req[q].pc = "insert", ItemOf(q).fp = e.fp
            PROVE  WorkerOf[e.req] # WorkerOf[q]
        BY <1>1, <1>4, <2>1, <3>1 DEF Sane, LockAlone, Locking
      <3>2. QED
        BY <1>1, <2>1, <2>4, <3>1 DEF Sane, StoredElsewhere, Working, Locking, ItemOf
    <2>7. RetriedFound(q)'
      BY <1>1, <2>1, <2>4 DEF Sane, RetriedFound, Working, ItemOf
    <2>8. QED
      BY <2>2, <2>3, <2>5, <2>6, <2>7 DEF Sane
  <1>9. QED
    BY <1>5, <1>6, <1>7, <1>8 DEF IInv

LEMMA CrashStep ==
  ASSUME IInv, NEW w \in Workers, Crash(w), UNCHANGED poolMax
  PROVE  IInv'
  <1>1. /\ DOMAIN req' = Requests
        /\ UNCHANGED <<completed, finding, evidence, clock, user, poolMax>>
    BY DEF Crash
  <1>2. ASSUME NEW r \in Requests
        PROVE  \/ req'[r] = req[r]
               \/ Started(r) /\ req'[r] = [pc |-> "lost", task |-> req[r].task]
    BY DEF Crash
  <1>3. TypeOK'
    <2>1. ASSUME NEW r \in Requests
          PROVE  /\ req'[r] \in RequestState
                 /\ req'[r].pc \in {"item"} \cup Locking =>
                      req'[r].n \in DOMAIN Report[req'[r].task]
      <3>1. CASE req'[r] = req[r]
        BY <3>1 DEF IInv, TypeOK
      <3>2. CASE Started(r) /\ req'[r] = [pc |-> "lost", task |-> req[r].task]
        <4>1. req[r].task \in Tasks
          BY <3>2, Fields DEF IInv
        <4>2. req'[r] \in RequestState
          BY <3>2, <4>1 DEF RequestState
        <4>3. QED
          BY <3>2, <4>2 DEF Locking
      <3>3. QED
        BY <1>2, <3>1, <3>2
    <2>2. req' \in [Requests -> RequestState]
      BY <1>1, <2>1 DEF Crash
    <2>3. QED
      BY <1>1, <2>1, <2>2 DEF IInv, TypeOK
  <1>4. ASSUME NEW q \in Requests, req'[q].pc \in {"item", "answer", "ok"} \cup Locking
        PROVE  req'[q] = req[q]
    <2>1. CASE req'[q] = [pc |-> "lost", task |-> req[q].task]
      BY <1>4, <2>1 DEF Locking
    <2>2. QED
      BY <1>2, <2>1
  <1>5. ASSUME NEW r \in Requests PROVE Sane(r)'
    <2>1. CASE req'[r] = req[r]
      <3>1. Sane(r)
        BY DEF IInv
      <3>2. KeyAlone(r)' /\ LockAlone(r)'
        BY <1>4, <2>1, <3>1 DEF Sane, KeyAlone, LockAlone, ItemOf, Locking
      <3>3. QED
        BY <1>1, <2>1, <3>1, <3>2 DEF Sane, ItemsInOrder, StoredSoFar, LoadedRow,
           StoredElsewhere, RetriedFound, Working, ItemOf
    <2>2. CASE req'[r] = [pc |-> "lost", task |-> req[r].task]
      BY <1>1, <2>2 DEF Sane, ItemsInOrder, StoredSoFar, LoadedRow, KeyAlone,
         LockAlone, StoredElsewhere, RetriedFound, Working, Locking
    <2>3. QED
      BY <1>2, <2>1, <2>2
  <1>6. QED
    BY <1>1, <1>3, <1>5 DEF IInv, CompletedWithEvidence, EvidenceHasRow, ChangeHasRow

\* What users do keeps every row a row.
LEMMA ChangeStep ==
  ASSUME IInv, NEW u \in Users, Change(u), UNCHANGED poolMax
  PROVE  IInv'
  <1>1. /\ user' \in [Users -> UserState]
        /\ finding' \in [Fingerprints -> {NoFinding} \cup FindingRow]
        /\ \A f \in Fingerprints : finding'[f] = NoFinding <=> finding[f] = NoFinding
        /\ \A v \in Users : user'[v].pc = "change" =>
             user'[v] = user[v] \/ finding[user'[v].fp] # NoFinding
        /\ UNCHANGED <<completed, evidence, clock, req>>
    <2>1. ASSUME NEW f \in Fingerprints, NEW to \in FindingStatus, ChangeRead(u, f, to)
          PROVE  <1>1!:
      <3>1. PICK state \in UserState :
              /\ user' = [user EXCEPT ![u] = state]
              /\ state.pc = "change" => state.fp = f
        <4>1. finding[f].status \in FindingStatus
          BY <2>1 DEF ChangeRead, IInv, TypeOK, FindingRow
        <4>2. CASE validate_finding_transition(finding[f].status, to)
          <5> DEFINE state == [pc |-> "change", fp |-> f,
                               from |-> finding[f].status, to |-> to]
          <5>1. state \in UserState
            BY <4>1 DEF UserState
          <5>2. user' = [user EXCEPT ![u] = state]
            BY <2>1, <4>2 DEF ChangeRead
          <5>3. QED
            BY <5>1, <5>2
        <4>3. CASE ~validate_finding_transition(finding[f].status, to)
          <5>1. [pc |-> "refused"] \in UserState
            BY DEF UserState
          <5>2. user' = [user EXCEPT ![u] = [pc |-> "refused"]]
            BY <2>1, <4>3 DEF ChangeRead
          <5>3. QED
            BY <5>1, <5>2
        <4>4. QED
          BY <4>2, <4>3
      <3>2. QED
        BY <2>1, <3>1 DEF ChangeRead, IInv, TypeOK
    <2>2. ASSUME ChangeCommit(u) PROVE <1>1!:
      <3>1. /\ user[u].pc = "change" /\ user[u].fp \in Fingerprints
            /\ user[u].to \in FindingStatus
        BY <2>2 DEF ChangeCommit, IInv, TypeOK, UserState, Idle
      <3>2. finding[user[u].fp] \in FindingRow
        BY <3>1 DEF IInv, ChangeHasRow, TypeOK
      <3>3. [finding[user[u].fp] EXCEPT !.status = user[u].to] \in FindingRow
        BY <3>1, <3>2 DEF FindingRow
      <3>4. NoFinding \notin FindingRow
        BY DEF NoFinding, FindingRow, FindingStatus
      <3>5. /\ finding' \in [Fingerprints -> {NoFinding} \cup FindingRow]
            /\ \A f \in Fingerprints : finding'[f] = NoFinding <=> finding[f] = NoFinding
        BY <2>2, <3>1, <3>2, <3>3, <3>4 DEF ChangeCommit, IInv, TypeOK
      <3>6. /\ user' \in [Users -> UserState]
            /\ \A v \in Users : user'[v].pc = "change" => user'[v] = user[v]
        BY <2>2 DEF ChangeCommit, IInv, TypeOK, UserState
      <3>7. QED
        BY <2>2, <3>5, <3>6 DEF ChangeCommit
    <2>3. QED
      BY <2>1, <2>2 DEF Change
  <1>2. TypeOK'
    BY <1>1 DEF IInv, TypeOK
  <1>3. /\ \A e \in evidence : e.fp \in Fingerprints
        /\ \A v \in Users : user'[v].pc = "change" => user'[v].fp \in Fingerprints
        /\ \A r \in Requests : Working(r) => ItemOf(r).fp \in Fingerprints
    BY <1>1, WorkFields DEF IInv, TypeOK, Evidence, UserState, Idle
  <1>4. CompletedWithEvidence' /\ EvidenceHasRow' /\ ChangeHasRow'
    BY <1>1, <1>3 DEF IInv, CompletedWithEvidence, EvidenceHasRow, ChangeHasRow
  <1>5. ASSUME NEW r \in Requests PROVE Sane(r)'
    <2>1. Sane(r)
      BY DEF IInv
    <2>2. ItemsInOrder(r)' /\ StoredSoFar(r)' /\ KeyAlone(r)' /\ LockAlone(r)'
      BY <1>1, <2>1 DEF Sane, ItemsInOrder, StoredSoFar, KeyAlone, LockAlone,
         Working, ItemOf
    <2>3. LoadedRow(r)' /\ StoredElsewhere(r)' /\ RetriedFound(r)'
      BY <1>1, <1>3, <2>1 DEF Sane, LoadedRow, StoredElsewhere, RetriedFound,
         Working, Locking, ItemOf
    <2>4. QED
      BY <2>2, <2>3 DEF Sane
  <1>6. QED
    BY <1>2, <1>4, <1>5 DEF IInv

-----------------------------------------------------------------------------
(* The strengthening holds, and with it the first properties.              *)

LEMMA StepInv == IInv /\ [Next]_vars => IInv'
  <1> SUFFICES ASSUME IInv, [Next]_vars PROVE IInv'
    OBVIOUS
  <1>1. CASE UNCHANGED vars
    BY <1>1 DEF vars, IInv, TypeOK, CompletedWithEvidence, EvidenceHasRow, ChangeHasRow,
       Sane, ItemsInOrder, StoredSoFar, LoadedRow, KeyAlone, LockAlone,
       StoredElsewhere, RetriedFound, Working, ItemOf
  <1>2. ASSUME NEW r \in Requests, Ingest(r), UNCHANGED poolMax PROVE IInv'
    BY <1>2, FlushStep, EndStep, LockStep, SelectStep, InsertStep, InsertFailsStep,
       FallbackStep, SaveStep DEF Ingest
  <1>3. QED
    BY <1>1, <1>2, BeginStep, CrashStep, ChangeStep DEF Next

LEMMA Invariant == Spec => []IInv
  BY InitInv, StepInv, PTL DEF Spec

\* The state stays of its type: a finding has a status of the lifecycle, and a
\* submission is at an item of its report.
THEOREM IngestionTyped == Spec => []TypeOK
  BY Invariant, PTL DEF IInv

\* A task is COMPLETED exactly when some evidence of it is stored: status, audit
\* event and first finding are one commit of process_finding_ingestion.
THEOREM CompletedTogether == Spec => []CompletedWithEvidence
  BY Invariant, PTL DEF IInv

\* A submission that was answered has stored all of its report that can be
\* stored, whatever collided with it, for any report, processes and pools.
THEOREM AnsweredStored == Spec => []EvidenceForAnswered
  <1>1. IInv => EvidenceForAnswered
    <2> SUFFICES ASSUME IInv, NEW r \in Requests, req[r].pc = "ok",
                        NEW n \in DOMAIN Report[req[r].task],
                        Report[req[r].task][n].kind = "sound"
                 PROVE  /\ \E e \in evidence : /\ e.req = r /\ e.item = n
                                                /\ e.fp = Report[req[r].task][n].fp
                        /\ finding[Report[req[r].task][n].fp] # NoFinding
      BY DEF EvidenceForAnswered
    <2>1. PICK e \in evidence : /\ e.req = r /\ e.item = n
                                /\ e.fp = Report[req[r].task][n].fp
      BY DEF IInv, Sane, StoredSoFar, Working, Locking
    <2>2. QED
      BY <2>1 DEF IInv, EvidenceHasRow
  <1>2. QED
    BY <1>1, Invariant, PTL

\* A submission moves by itself.
LEMMA OthersStay ==
  ASSUME TypeOK, NEW q \in Requests, Ingest(q) \/ \E t \in Tasks : Begin(q, t)
  PROVE  \A r \in Requests \ {q} : req'[r] = req[r]
  <1>1. \E state : Become(q, state)
    <2>1. CASE \E t \in Tasks : Begin(q, t)
      BY <2>1 DEF Begin
    <2>2. CASE Flush(q) \/ Reject(q) \/ Lock(q) \/ Insert(q) \/ InsertFails(q)
      BY <2>2 DEF Flush, Reject, Lock, Insert, InsertFails, Finish
    <2>3. CASE Answer(q) \/ ConnectionTimeout(q)
      BY <2>3 DEF Answer, ConnectionTimeout, Finish
    <2>4. CASE Select(q) \/ Fallback(q) \/ Save(q)
      BY <2>4 DEF Select, Fallback, Save, Found, NextItem
    <2>5. QED
      BY <2>1, <2>2, <2>3, <2>4 DEF Ingest
  <1>2. QED
    BY <1>1, Moves

\* The fingerprint lock is enough within a process: an INSERT of a sound row only
\* fails because of a row that another process has stored in between.
THEOREM OnlyOthersCollide == Spec => NoCollision
  <1>1. ASSUME IInv, [Next]_vars, NEW r \in Requests,
               req[r].pc = "insert", ItemOf(r).kind = "sound",
               req'[r].pc \in {"select", "fallback"}
        PROVE  \E e \in evidence : e.fp = ItemOf(r).fp /\ WorkerOf[e.req] # WorkerOf[r]
    <2>1. req'[r] # req[r] /\ req'[r].pc # "lost"
      BY <1>1
    <2>2. CASE Ingest(r)
      <3>1. Insert(r) \/ InsertFails(r)
        BY <1>1, <2>2 DEF Ingest, Flush, Reject, Lock, Select, Fallback, Save, Answer,
           ConnectionTimeout
      <3>2. ~Insert(r)
        <4>1. req[r] \in Work
          BY <1>1, WorkFields DEF IInv, Working, Locking
        <4>2. [req[r] EXCEPT !.pc = "save", !.loaded = "NEW"].pc = "save"
          BY <4>1 DEF Work
        <4>3. Insert(r) => req'[r].pc = "save"
          BY <1>1, <4>2, Moves DEF Insert, IInv
        <4>4. QED
          BY <1>1, <4>3
      <3>3. QED
        BY <1>1, <3>1, <3>2 DEF InsertFails, IInv, Sane, StoredElsewhere
    <2>3. ASSUME NEW q \in Requests, Ingest(q) \/ \E t \in Tasks : Begin(q, t)
          PROVE  q = r /\ Ingest(r)
      <3>1. q = r
        BY <2>1, <2>3, OthersStay, <1>1 DEF IInv
      <3>2. ASSUME NEW t \in Tasks, Begin(r, t) PROVE FALSE
        <4>1. req[r].pc = "idle"
          BY <3>2 DEF Begin, Idle
        <4>2. QED
          BY <1>1, <4>1
      <3>3. QED
        BY <2>3, <3>1, <3>2
    <2>4. ASSUME NEW w \in Workers, Crash(w) PROVE FALSE
      BY <2>1, <2>4 DEF Crash
    <2>5. ASSUME NEW u \in Users, Change(u) PROVE FALSE
      BY <2>1, <2>5 DEF Change, ChangeRead, ChangeCommit
    <2>6. QED
      BY <1>1, <2>1, <2>2, <2>3, <2>4, <2>5 DEF Next, vars
  <1>2. IInv /\ [Next]_vars =>
          [\A r \in Requests :
             /\ req[r].pc = "insert" /\ ItemOf(r).kind = "sound"
             /\ req'[r].pc \in {"select", "fallback"}
             => \E e \in evidence : e.fp = ItemOf(r).fp /\ WorkerOf[e.req] # WorkerOf[r]]_vars
    BY <1>1
  <1>3. QED
    BY <1>2, Invariant, PTL DEF NoCollision, Spec

-----------------------------------------------------------------------------
(* What the strengthenings under SerialClients and SerialFindings, and the *)
(* clock, need of the steps that store nothing.                            *)

\* A step of r that stores nothing and reads no clock.
Quiet(r) ==
  /\ UNCHANGED <<completed, finding, evidence, clock, user>>
  /\ \A q \in Requests \ {r} : req'[q] = req[q]
  /\ req[r].pc \notin {"idle", "flush", "noop"}
  /\ req'[r].pc \notin {"idle", "flush", "noop"}
  /\ Started(r) /\ req'[r].task = req[r].task
  /\ Working(r)' => Working(r) /\ req'[r].at = req[r].at
  /\ req'[r].pc = "save" =>
       /\ ItemOf(r)' = ItemOf(r)
       /\ SerialFindings => ~Changing(ItemOf(r).fp)
       /\ req'[r].loaded \in {"NEW", finding[ItemOf(r).fp].status}

QuietMove(r, state) ==
  /\ Become(r, state)
  /\ state.pc \notin {"idle", "flush", "noop"}
  /\ state.task = req[r].task
  /\ state.pc \in {"item"} \cup Locking => Working(r) /\ state.at = req[r].at
  /\ state.pc = "save" =>
       /\ state.n = req[r].n
       /\ SerialFindings => ~Changing(ItemOf(r).fp)
       /\ state.loaded \in {"NEW", finding[ItemOf(r).fp].status}

LEMMA QuietIngest ==
  ASSUME IInv, NEW r \in Requests, Ingest(r), ~Flush(r), ~Save(r)
  PROVE  Quiet(r)
  <1>1. /\ UNCHANGED <<completed, finding, evidence, clock, user>>
        /\ req[r].pc \in {"item", "answer"} \cup Locking
    BY DEF Ingest, Reject, Lock, Select, Insert, InsertFails, Fallback, Answer,
       ConnectionTimeout, Locking
  <1>2. \A q \in Requests \ {r} : req'[q] = req[q]
    BY OthersStay DEF IInv
  <1>3. Started(r)
    BY <1>1 DEF Started, Working
  <1>4. PICK state : QuietMove(r, state)
    <2>1. CASE \E pc \in {"ok", "error"} : Finish(r, pc)
      <3>1. PICK pc \in {"ok", "error"} : Become(r, [pc |-> pc, task |-> req[r].task])
        BY <2>1 DEF Finish
      <3> DEFINE done == [pc |-> pc, task |-> req[r].task]
      <3>2. done.pc = pc /\ done.task = req[r].task /\ Become(r, done)
        BY <3>1
      <3>3. QED
        BY <3>2 DEF QuietMove, Locking
    <2>2. CASE Working(r) /\ \E kept, conn \in BOOLEAN : NextItem(r, kept, conn)
      <3>1. PICK next \in RequestState :
              /\ Become(r, next)
              /\ next.pc \in {"item", "answer"}
              /\ next.task = req[r].task
              /\ next.pc = "item" => next.at = req[r].at
        BY <2>2, NextItemFields DEF IInv
      <3>2. QED
        BY <2>2, <3>1 DEF QuietMove, Locking
    <2>3. ASSUME Working(r), NEW next, Become(r, next), next.pc \in Locking,
                 next.task = req[r].task, next.at = req[r].at,
                 next.pc = "save" =>
                   /\ next.n = req[r].n
                   /\ SerialFindings => ~Changing(ItemOf(r).fp)
                   /\ next.loaded \in {"NEW", finding[ItemOf(r).fp].status}
          PROVE  QuietMove(r, next)
      BY <2>3 DEF QuietMove, Locking
    <2>4. Working(r) => req[r] \in Work
      BY WorkFields DEF IInv
    <2>5. CASE Lock(r)
      <3> DEFINE next == [req[r] EXCEPT !.pc = "select"]
      <3>1. Working(r) /\ Become(r, next)
        BY <2>5 DEF Lock, Working
      <3>2. next.pc = "select" /\ next.task = req[r].task /\ next.at = req[r].at
        BY <2>4, <3>1 DEF Work
      <3>3. QED
        BY <2>3, <3>1, <3>2 DEF Locking
    <2>6. CASE InsertFails(r)
      <3> DEFINE next == [req[r] EXCEPT
                            !.tries = @ + 1,
                            !.pc = IF req[r].tries + 1 < MaxAttempts
                                   THEN "select" ELSE "fallback"]
      <3>1. Working(r) /\ Become(r, next)
        BY <2>6 DEF InsertFails, Working, Locking
      <3>2. /\ next.pc \in {"select", "fallback"}
            /\ next.task = req[r].task /\ next.at = req[r].at
        BY <2>4, <3>1 DEF Work
      <3>3. QED
        BY <2>3, <3>1, <3>2 DEF Locking
    <2>7. CASE Insert(r)
      <3> DEFINE next == [req[r] EXCEPT !.pc = "save", !.loaded = "NEW"]
      <3>1. Working(r) /\ Become(r, next)
        BY <2>7 DEF Insert, Working, Locking
      <3>2. /\ next.pc = "save" /\ next.loaded = "NEW" /\ next.n = req[r].n
            /\ next.task = req[r].task /\ next.at = req[r].at
        BY <2>4, <3>1 DEF Work
      <3>3. ~Changing(ItemOf(r).fp)
        BY <2>7 DEF Insert, Changing, IInv, ChangeHasRow
      <3>4. QED
        BY <2>3, <3>1, <3>2, <3>3 DEF Locking
    <2>8. CASE /\ Found(r) /\ req[r].pc \in {"select", "fallback"}
               /\ SerialFindings => ~Changing(ItemOf(r).fp)
      <3> DEFINE next == [req[r] EXCEPT !.pc = "save", !.conn = TRUE,
                                        !.loaded = finding[ItemOf(r).fp].status]
      <3>1. Working(r) /\ Become(r, next)
        BY <2>8 DEF Found, Working, Locking
      <3>2. /\ next.pc = "save" /\ next.loaded = finding[ItemOf(r).fp].status
            /\ next.n = req[r].n
            /\ next.task = req[r].task /\ next.at = req[r].at
        BY <2>4, <3>1 DEF Work
      <3>3. QED
        BY <2>3, <2>8, <3>1, <3>2 DEF Locking
    <2>9. CASE req[r].pc = "select" /\ Become(r, [req[r] EXCEPT !.pc = "insert", !.conn = TRUE])
      <3> DEFINE next == [req[r] EXCEPT !.pc = "insert", !.conn = TRUE]
      <3>1. Working(r) /\ Become(r, next)
        BY <2>9 DEF Working, Locking
      <3>2. next.pc = "insert" /\ next.task = req[r].task /\ next.at = req[r].at
        BY <2>4, <3>1 DEF Work
      <3>3. QED
        BY <2>3, <3>1, <3>2 DEF Locking
    <2>10. CASE Reject(r) \/ Answer(r) \/ ConnectionTimeout(r)
      <3>1. Finish(r, "ok") \/ Finish(r, "error")
        BY <2>10 DEF Reject, Answer, ConnectionTimeout
      <3>2. QED
        BY <2>1, <3>1
    <2>11. CASE Select(r)
      BY <2>8, <2>9, <2>11 DEF Select
    <2>12. CASE Fallback(r)
      <3>1. Working(r) /\ req[r].kept \in BOOLEAN
        BY <2>4, <2>12 DEF Fallback, Working, Locking, Work
      <3>2. QED
        BY <2>2, <2>8, <2>12, <3>1 DEF Fallback
    <2>13. QED
      BY <2>5, <2>6, <2>7, <2>10, <2>11, <2>12 DEF Ingest
  <1>5. req'[r] = state
    BY <1>4, Moves DEF QuietMove, IInv
  <1>6. QED
    BY <1>1, <1>2, <1>3, <1>4, <1>5 DEF QuietMove, Quiet, Working, Locking, ItemOf

LEMMA CrashMoves ==
  ASSUME NEW w \in Workers, Crash(w), NEW r \in Requests
  PROVE  \/ req'[r] = req[r]
         \/ Started(r) /\ req'[r].pc = "lost"
  BY DEF Crash

-----------------------------------------------------------------------------
(* Agents that retry only after an answer or a crash.                      *)

LEMMA ClientsInit == Init => ClientsInv
  BY DEF Init, ClientsInv, OneAtATime, StartsAfresh, ObservedOnce, Started, Working,
     Locking, Idle

LEMMA ClientsStep == IInv /\ ClientsInv /\ [Next]_vars => ClientsInv'
  <1> SUFFICES ASSUME IInv, ClientsInv, [Next]_vars, SerialClients
               PROVE  OneAtATime' /\ StartsAfresh' /\ ObservedOnce'
    BY DEF ClientsInv
  <1>1. OneAtATime /\ StartsAfresh
        /\ \A d, f \in evidence : d.task = f.task /\ d.item = f.item => d = f
    BY DEF ClientsInv, ObservedOnce
  \* Steps that store nothing, and after which no submission does what it did not do.
  <1>2. ASSUME UNCHANGED <<completed, evidence>>,
               \A r \in Requests : /\ Started(r)' => Started(r) /\ req'[r].task = req[r].task
                                   /\ req'[r].pc = "flush" => req[r].pc = "flush"
                                   /\ Working(r)' => Working(r)
        PROVE  OneAtATime' /\ StartsAfresh' /\ ObservedOnce'
    <2>1. OneAtATime'
      BY <1>1, <1>2 DEF OneAtATime
    <2>2. StartsAfresh'
      BY <1>1, <1>2 DEF StartsAfresh, Started
    <2>3. QED
      BY <1>1, <1>2, <2>1, <2>2 DEF ObservedOnce
  <1>3. ASSUME UNCHANGED <<completed, evidence, req>>
        PROVE  OneAtATime' /\ StartsAfresh' /\ ObservedOnce'
    BY <1>2, <1>3 DEF Started, Working
  <1>4. ASSUME NEW r \in Requests, NEW t \in Tasks, Begin(r, t)
        PROVE  OneAtATime' /\ StartsAfresh' /\ ObservedOnce'
    <2>1. /\ \A q \in Requests \ {r} : req'[q] = req[q]
          /\ req'[r] = [pc |-> IF completed[t] THEN "noop" ELSE "flush", task |-> t]
          /\ UNCHANGED <<completed, evidence>>
      BY <1>4, Moves DEF Begin, IInv
    <2>2. /\ ~Working(r)' /\ req'[r].task = t
          /\ req'[r].pc = "flush" <=> ~completed[t]
          /\ Started(r)' <=> ~completed[t]
      <3>1. req'[r].pc = IF completed[t] THEN "noop" ELSE "flush"
        BY <2>1
      <3>2. completed[t] \in BOOLEAN /\ req'[r].task = t
        BY <2>1 DEF IInv, TypeOK
      <3>3. QED
        BY <3>1, <3>2 DEF Started, Working, Locking
    <2>3. \A q \in Requests : Started(q) => req[q].task # t
      BY <1>4 DEF Begin, Admitted
    <2>4. \A q \in Requests \ {r} : /\ Started(q)' <=> Started(q)
                                    /\ Working(q)' <=> Working(q)
      BY <2>1 DEF Started, Working
    <2>5. OneAtATime'
      BY <1>1, <2>1, <2>2, <2>3, <2>4 DEF OneAtATime
    <2>6. StartsAfresh'
      BY <1>1, <2>1, <2>2, <2>4 DEF StartsAfresh
    <2>7. QED
      BY <1>1, <2>1, <2>5, <2>6 DEF ObservedOnce
  <1>5. ASSUME NEW r \in Requests, Flush(r)
        PROVE  OneAtATime' /\ StartsAfresh' /\ ObservedOnce'
    <2>1. /\ \A q \in Requests \ {r} : req'[q] = req[q]
          /\ req[r].pc = "flush" /\ req'[r].pc = "item" /\ req'[r].task = req[r].task
          /\ UNCHANGED <<completed, evidence>>
      BY <1>5, Moves DEF Flush, IInv
    <2>2. \A d \in evidence : d.task # req[r].task
      BY <1>1, <2>1, Fields DEF IInv, CompletedWithEvidence, StartsAfresh, Started
    <2>3. \A q \in Requests : Started(q)' => Started(q) /\ req'[q].task = req[q].task
      BY <2>1 DEF Started, Working
    <2>4. OneAtATime'
      BY <1>1, <2>3 DEF OneAtATime
    <2>5. StartsAfresh'
      BY <1>1, <2>1, <2>2 DEF StartsAfresh, Working
    <2>6. QED
      BY <1>1, <2>1, <2>4, <2>5 DEF ObservedOnce
  <1>6. ASSUME NEW r \in Requests, Save(r)
        PROVE  OneAtATime' /\ StartsAfresh' /\ ObservedOnce'
    <2>1. PICK e \in Evidence :
            /\ e.req = r /\ e.task = req[r].task /\ e.item = req[r].n
            /\ evidence' = evidence \cup {e}
      BY <1>6, SaveEffects
    <2>2. /\ req[r].pc = "save" /\ Working(r) /\ Started(r)
          /\ \A t \in Tasks : t # req[r].task => completed'[t] = completed[t]
      BY <1>6, SaveEffects DEF Started
    <2>3. PICK state \in RequestState :
            /\ Become(r, state)
            /\ state.pc \in {"item", "answer"}
            /\ state.task = req[r].task
      BY <1>6, <2>2, NextItemFields DEF Save, IInv
    <2>4. /\ req'[r] = state
          /\ \A q \in Requests \ {r} : req'[q] = req[q]
      BY <2>3, Moves DEF IInv
    <2>5. \A q \in Requests : Started(q)' => Started(q) /\ req'[q].task = req[q].task
      BY <2>2, <2>3, <2>4 DEF Started, Working
    <2>6. OneAtATime'
      BY <1>1, <2>5 DEF OneAtATime
    <2>7. StartsAfresh'
      <3>1. ASSUME NEW q \in Requests, q # r, Started(q)
            PROVE  req[q].task # req[r].task /\ req[q].task \in Tasks
        BY <1>1, <2>2, <3>1, Fields DEF OneAtATime, IInv
      <3>2. ASSUME NEW q \in Requests, req'[q].pc = "flush" PROVE ~completed'[req'[q].task]
        BY <1>1, <2>2, <2>3, <2>4, <3>1, <3>2 DEF StartsAfresh, Started
      <3>3. ASSUME NEW q \in Requests, Working(q)', NEW d \in evidence',
                   d.task = req'[q].task
            PROVE  d.req = q
        BY <1>1, <2>1, <2>2, <2>3, <2>4, <3>1, <3>3 DEF StartsAfresh, Working, Started
      <3>4. QED
        BY <3>2, <3>3 DEF StartsAfresh
    <2>8. ASSUME NEW d \in evidence, d.task = e.task, d.item = e.item PROVE FALSE
      <3>1. d.req = r
        BY <1>1, <2>1, <2>2, <2>8 DEF StartsAfresh
      <3>2. d.item < req[r].n
        BY <2>2, <3>1 DEF IInv, Sane, ItemsInOrder
      <3>3. QED
        BY <2>1, <2>8, <3>2 DEF Evidence
    <2>9. ObservedOnce'
      BY <1>1, <2>1, <2>8 DEF ObservedOnce
    <2>10. QED
      BY <2>6, <2>7, <2>9
  <1>7. ASSUME NEW r \in Requests, Quiet(r)
        PROVE  OneAtATime' /\ StartsAfresh' /\ ObservedOnce'
    BY <1>2, <1>7 DEF Quiet, Started, Working
  <1>8. ASSUME NEW w \in Workers, Crash(w)
        PROVE  OneAtATime' /\ StartsAfresh' /\ ObservedOnce'
    <2>1. UNCHANGED <<completed, evidence>>
      BY <1>8 DEF Crash
    <2>2. QED
      BY <1>2, <1>8, <2>1, CrashMoves DEF Started, Working, Locking
  <1>9. ASSUME NEW u \in Users, Change(u)
        PROVE  UNCHANGED <<completed, evidence, req>>
    BY <1>9 DEF Change, ChangeRead, ChangeCommit
  <1>10. QED
    BY <1>3, <1>4, <1>5, <1>6, <1>7, <1>8, <1>9, QuietIngest DEF Next, vars

\* Agents that retry only after an answer or a crash never store an observation
\* twice, wherever the first submission was cut off.
THEOREM StoredOnce == Spec => []ObservedOnce
  <1>1. ClientsInv => ObservedOnce
    BY DEF ClientsInv, ObservedOnce
  <1>2. QED
    BY <1>1, Invariant, ClientsInit, ClientsStep, PTL DEF Spec

-----------------------------------------------------------------------------
(* The clock: each submission reads it once, when it gets past its flush.  *)

LEMMA FlushedFinite ==
  /\ IsFiniteSet(Flushed) /\ Cardinality(Flushed) \in Nat
  /\ Cardinality(Flushed) <= Cardinality(Requests)
  BY IngestionAssumption, FS_Subset, FS_CardinalityType DEF Flushed

LEMMA FlushedFinitePrimed ==
  IsFiniteSet(Flushed') /\ Cardinality(Flushed') \in Nat
  BY IngestionAssumption, FS_Subset, FS_CardinalityType DEF Flushed

LEMMA ClockInit == Init => ClockInv
  BY FlushedFinite DEF Init, ClockInv, Working, Locking, Idle

LEMMA ClockStep == IInv /\ ClockInv /\ [Next]_vars => ClockInv'
  <1> SUFFICES ASSUME IInv, ClockInv, [Next]_vars PROVE ClockInv'
    OBVIOUS
  <1>0. clock \in Nat
    BY DEF IInv, TypeOK
  <1>1. ASSUME clock' = clock, Flushed \subseteq Flushed',
               \A r \in Requests : Working(r)' => Working(r) /\ req'[r].at = req[r].at
        PROVE  ClockInv'
    <2>1. Cardinality(Flushed) <= Cardinality(Flushed')
      BY <1>1, FlushedFinitePrimed, FS_Subset
    <2>2. clock' <= Cardinality(Flushed')
      BY <1>0, <1>1, <2>1, FlushedFinite, FlushedFinitePrimed DEF ClockInv
    <2>3. QED
      BY <1>1, <2>2 DEF ClockInv
  <1>2. ASSUME UNCHANGED <<clock, req>> PROVE ClockInv'
    BY <1>1, <1>2 DEF Flushed, Working
  <1>3. ASSUME NEW r \in Requests, NEW t \in Tasks, Begin(r, t) PROVE ClockInv'
    <2>1. PICK state \in [pc : {"flush", "noop"}, task : Tasks] : Become(r, state)
      BY <1>3 DEF Begin
    <2>2. /\ \A q \in Requests \ {r} : req'[q] = req[q]
          /\ req'[r] = state /\ req[r].pc = "idle" /\ clock' = clock
      BY <1>3, <2>1, Moves DEF Begin, IInv, Idle
    <2>3. Flushed \subseteq Flushed'
      BY <2>1, <2>2 DEF Flushed
    <2>4. QED
      BY <1>1, <2>1, <2>2, <2>3 DEF Working, Locking
  <1>4. ASSUME NEW r \in Requests, Flush(r) PROVE ClockInv'
    <2>1. /\ \A q \in Requests \ {r} : req'[q] = req[q]
          /\ req[r].pc = "flush" /\ req'[r].pc = "item" /\ req'[r].at = clock + 1
          /\ clock' = clock + 1
      BY <1>4, Moves DEF Flush, IInv
    <2>2. Flushed' = Flushed \cup {r} /\ r \notin Flushed
      BY <2>1 DEF Flushed
    <2>3. Cardinality(Flushed') = Cardinality(Flushed) + 1
      BY <2>2, FlushedFinite, FS_AddElement
    <2>4. clock' <= Cardinality(Flushed')
      BY <1>0, <2>1, <2>3, FlushedFinite DEF ClockInv
    <2>5. \A q \in Requests : Working(q)' => req'[q].at \in 1..clock'
      BY <1>0, <2>1 DEF ClockInv, Working
    <2>6. QED
      BY <2>4, <2>5 DEF ClockInv
  <1>5. ASSUME NEW r \in Requests, Save(r) PROVE ClockInv'
    <2>1. req[r].pc = "save" /\ Working(r) /\ clock' = clock
      BY <1>5, SaveEffects
    <2>2. PICK state \in RequestState :
            /\ Become(r, state)
            /\ state.pc \in {"item", "answer"}
            /\ state.pc = "item" => state.at = req[r].at
      BY <1>5, <2>1, NextItemFields DEF Save, IInv
    <2>3. /\ req'[r] = state
          /\ \A q \in Requests \ {r} : req'[q] = req[q]
      BY <2>2, Moves DEF IInv
    <2>4. Flushed \subseteq Flushed'
      BY <2>2, <2>3 DEF Flushed
    <2>5. QED
      BY <1>1, <2>1, <2>2, <2>3, <2>4 DEF Working, Locking
  <1>6. ASSUME NEW r \in Requests, Quiet(r) PROVE ClockInv'
    <2>1. Flushed \subseteq Flushed'
      BY <1>6 DEF Quiet, Flushed
    <2>2. QED
      BY <1>1, <1>6, <2>1 DEF Quiet, Working
  <1>7. ASSUME NEW w \in Workers, Crash(w) PROVE ClockInv'
    <2>1. clock' = clock
      BY <1>7 DEF Crash
    <2>2. Flushed \subseteq Flushed'
      BY <1>7, CrashMoves DEF Flushed
    <2>3. QED
      BY <1>1, <1>7, <2>1, <2>2, CrashMoves DEF Working, Locking
  <1>8. ASSUME NEW u \in Users, Change(u) PROVE UNCHANGED <<clock, req>>
    BY <1>8 DEF Change, ChangeRead, ChangeCommit
  <1>9. QED
    BY <1>2, <1>3, <1>4, <1>5, <1>6, <1>7, <1>8, QuietIngest DEF Next, vars

LEMMA ClockInvariant == Spec => []ClockInv
  BY Invariant, ClockInit, ClockStep, PTL DEF Spec

-----------------------------------------------------------------------------
(* Users that change a finding while nothing else works on it.             *)

\* What a submission that saves makes of the row depends on the row only.
LEMMA SavedIsObserved ==
  ASSUME IInv, FindingsInv, SerialFindings, NEW r \in Requests, req[r].pc = "save"
  PROVE  Saved(r) = Store!Observed(finding[ItemOf(r).fp], req[r].at)
  <1>1. /\ req[r].loaded = "NEW" <=> finding[ItemOf(r).fp] = NoFinding
        /\ LoadedHolds(r)
    BY DEF IInv, Sane, LoadedRow, FindingsInv
  <1>2. CASE req[r].loaded = "NEW"
    BY <1>1, <1>2 DEF Saved, Store!Observed, Store!NoFinding, NoFinding
  <1>3. CASE req[r].loaded # "NEW"
    <2>1. finding[ItemOf(r).fp] # Store!NoFinding
      BY <1>1, <1>3 DEF NoFinding, Store!NoFinding
    <2>2. CASE req[r].loaded = "RESOLVED"
      BY <1>1, <2>1, <2>2 DEF Saved, Store!Observed, LoadedHolds
    <2>3. CASE req[r].loaded # "RESOLVED"
      BY <1>1, <1>3, <2>1, <2>3 DEF Saved, Store!Observed, LoadedHolds
    <2>4. QED
      BY <2>2, <2>3
  <1>4. QED
    BY <1>2, <1>3

LEMMA FindingsInit == Init => FindingsInv
  BY DEF Init, FindingsInv, ChangeAlone, LoadedHolds, Idle

LEMMA FindingsStep == IInv /\ FindingsInv /\ [Next]_vars => FindingsInv'
  <1> SUFFICES ASSUME IInv, FindingsInv, [Next]_vars, SerialFindings
               PROVE  /\ \A u \in Users : ChangeAlone(u)'
                      /\ \A r \in Requests : LoadedHolds(r)'
    BY DEF FindingsInv
  <1>0. /\ \A u \in Users : ChangeAlone(u)
        /\ \A r \in Requests : LoadedHolds(r)
    BY DEF FindingsInv
  <1> DEFINE Goal == /\ \A u \in Users : ChangeAlone(u)'
                     /\ \A r \in Requests : LoadedHolds(r)'
  \* Steps that change no row, and after which no submission saves that did not,
  \* but r what it has just loaded.
  <1>1. ASSUME UNCHANGED <<finding, user>>, NEW r \in Requests,
               \A q \in Requests \ {r} : req'[q].pc = "save" => req'[q] = req[q],
               req'[r].pc = "save" =>
                 \/ req'[r] = req[r]
                 \/ /\ ItemOf(r)' = ItemOf(r)
                    /\ ~Changing(ItemOf(r).fp)
                    /\ req'[r].loaded \in {"NEW", finding[ItemOf(r).fp].status}
        PROVE  Goal
    <2>1. ASSUME NEW u \in Users PROVE ChangeAlone(u)'
      <3>1. ASSUME user[u].pc = "change", NEW q \in Requests, req'[q].pc = "save"
            PROVE  ItemOf(q)'.fp # user[u].fp
        BY <1>0, <1>1, <3>1 DEF ChangeAlone, Changing, ItemOf
      <3>2. QED
        BY <1>0, <1>1, <3>1 DEF ChangeAlone
    <2>2. ASSUME NEW q \in Requests PROVE LoadedHolds(q)'
      <3>1. CASE req'[q] = req[q]
        BY <1>0, <1>1, <3>1 DEF LoadedHolds, ItemOf
      <3>2. CASE req'[q] # req[q]
        BY <1>1, <3>2 DEF LoadedHolds
      <3>3. QED
        BY <3>1, <3>2
    <2>3. QED
      BY <2>1, <2>2
  <1>2. CASE UNCHANGED vars
    BY <1>0, <1>2 DEF vars, ChangeAlone, LoadedHolds, ItemOf
  <1>3. ASSUME NEW r \in Requests, NEW t \in Tasks, Begin(r, t) PROVE Goal
    <2>1. PICK state \in [pc : {"flush", "noop"}, task : Tasks] : Become(r, state)
      BY <1>3 DEF Begin
    <2>2. /\ \A q \in Requests \ {r} : req'[q] = req[q]
          /\ req'[r].pc # "save" /\ UNCHANGED <<finding, user>>
      BY <1>3, <2>1, Moves DEF Begin, IInv
    <2>3. QED
      BY <1>1, <2>2
  <1>4. ASSUME NEW r \in Requests, Flush(r) PROVE Goal
    <2>1. /\ \A q \in Requests \ {r} : req'[q] = req[q]
          /\ req'[r].pc # "save" /\ UNCHANGED <<finding, user>>
      BY <1>4, Moves DEF Flush, IInv
    <2>2. QED
      BY <1>1, <2>1
  <1>5. ASSUME NEW r \in Requests, Quiet(r) PROVE Goal
    BY <1>1, <1>5 DEF Quiet
  <1>6. ASSUME NEW r \in Requests, Save(r) PROVE Goal
    <2>1. /\ req[r].pc = "save" /\ Working(r) /\ user' = user
          /\ \A f \in Fingerprints :
               finding'[f] = IF f = ItemOf(r).fp THEN Saved(r) ELSE finding[f]
      BY <1>6, SaveEffects
    <2>2. /\ req'[r].pc # "save"
          /\ \A q \in Requests \ {r} : req'[q] = req[q]
      <3>1. PICK state \in RequestState :
              Become(r, state) /\ state.pc \in {"item", "answer"}
        BY <1>6, <2>1, NextItemFields DEF Save, IInv
      <3>2. QED
        BY <3>1, Moves DEF IInv
    <2>3. ASSUME NEW u \in Users PROVE ChangeAlone(u)'
      <3>1. user[u].pc = "change" =>
              user[u].fp \in Fingerprints /\ user[u].fp # ItemOf(r).fp
        BY <1>0, <2>1 DEF ChangeAlone, IInv, TypeOK, UserState, Idle
      <3>2. \A q \in Requests : req'[q].pc = "save" =>
              req[q].pc = "save" /\ ItemOf(q)' = ItemOf(q)
        BY <2>2 DEF ItemOf
      <3>3. QED
        BY <1>0, <2>1, <3>1, <3>2 DEF ChangeAlone
    <2>4. ASSUME NEW q \in Requests PROVE LoadedHolds(q)'
      <3> SUFFICES ASSUME req'[q].pc = "save", req'[q].loaded # "NEW"
                   PROVE  IF req'[q].loaded = "RESOLVED"
                          THEN finding'[ItemOf(q)'.fp].status \in {"RESOLVED", "REOPENED"}
                          ELSE finding'[ItemOf(q)'.fp].status # "RESOLVED"
        BY DEF LoadedHolds
      <3>1. q # r /\ req'[q] = req[q] /\ ItemOf(q)' = ItemOf(q)
        BY <2>2 DEF ItemOf
      <3>2. ItemOf(q).fp \in Fingerprints /\ finding[ItemOf(q).fp] # NoFinding
        BY <3>1, WorkFields DEF IInv, Sane, LoadedRow, Working, Locking
      <3>3. CASE ItemOf(q).fp # ItemOf(r).fp
        BY <1>0, <2>1, <3>1, <3>2, <3>3 DEF LoadedHolds
      <3>4. CASE ItemOf(q).fp = ItemOf(r).fp
        <4>1. req[r].loaded # "NEW"
          BY <2>1, <3>2, <3>4 DEF IInv, Sane, LoadedRow
        <4>2. Saved(r).status = IF req[r].loaded = "RESOLVED" THEN "REOPENED"
                                ELSE finding[ItemOf(r).fp].status
          BY <4>1 DEF Saved
        <4>3. finding'[ItemOf(q)'.fp].status = Saved(r).status
          BY <2>1, <3>1, <3>2, <3>4
        <4>4. QED
          BY <1>0, <3>1, <3>4, <4>2, <4>3 DEF LoadedHolds
      <3>5. QED
        BY <3>3, <3>4
    <2>5. QED
      BY <2>3, <2>4
  <1>7. ASSUME NEW w \in Workers, Crash(w) PROVE Goal
    <2>1. UNCHANGED <<finding, user>>
      BY <1>7 DEF Crash
    <2>2. ASSUME NEW u \in Users PROVE ChangeAlone(u)'
      BY <1>0, <1>7, <2>1, CrashMoves DEF ChangeAlone, ItemOf
    <2>3. ASSUME NEW r \in Requests PROVE LoadedHolds(r)'
      BY <1>0, <1>7, <2>1, CrashMoves DEF LoadedHolds, ItemOf
    <2>4. QED
      BY <2>2, <2>3
  <1>8. ASSUME NEW u \in Users, NEW f \in Fingerprints, NEW to \in FindingStatus,
               ChangeRead(u, f, to)
        PROVE  Goal
    <2>1. /\ UNCHANGED <<finding, req>> /\ user \in [Users -> UserState]
          /\ ~Changing(f)
          /\ \A r \in Requests : ~ (req[r].pc = "save" /\ ItemOf(r).fp = f)
      BY <1>8 DEF ChangeRead, IInv, TypeOK
    <2>2. \A r \in Requests : LoadedHolds(r)'
      BY <1>0, <2>1 DEF LoadedHolds, ItemOf
    <2>3. /\ \A v \in Users \ {u} : user'[v] = user[v]
          /\ user'[u].pc = "change" =>
               /\ user'[u].fp = f /\ user'[u].from = finding[f].status
               /\ validate_finding_transition(user'[u].from, user'[u].to)
      <3>1. CASE validate_finding_transition(finding[f].status, to)
        BY <1>8, <2>1, <3>1 DEF ChangeRead
      <3>2. CASE ~validate_finding_transition(finding[f].status, to)
        BY <1>8, <2>1, <3>2 DEF ChangeRead
      <3>3. QED
        BY <3>1, <3>2
    <2>4. \A v \in Users : user[v].pc = "change" => user[v].fp # f
      BY <2>1 DEF Changing
    <2>5. ChangeAlone(u)'
      BY <2>1, <2>3, <2>4 DEF ChangeAlone, ItemOf
    <2>6. ASSUME NEW v \in Users \ {u} PROVE ChangeAlone(v)'
      BY <1>0, <2>1, <2>3, <2>4 DEF ChangeAlone, ItemOf
    <2>7. QED
      BY <2>2, <2>5, <2>6
  <1>9. ASSUME NEW u \in Users, ChangeCommit(u) PROVE Goal
    <2>1. /\ user[u].pc = "change" /\ req' = req
          /\ \A v \in Users \ {u} : user'[v] = user[v]
          /\ user'[u].pc = "done"
          /\ finding \in [Fingerprints -> {NoFinding} \cup FindingRow]
      BY <1>9 DEF ChangeCommit, IInv, TypeOK
    <2>2. \A f \in Fingerprints : f # user[u].fp => finding'[f] = finding[f]
      BY <1>9, <2>1 DEF ChangeCommit
    <2>3. \A r \in Requests : req[r].pc = "save" =>
            ItemOf(r).fp # user[u].fp /\ ItemOf(r).fp \in Fingerprints
      BY <1>0, <2>1, WorkFields DEF ChangeAlone, IInv, Working, Locking
    <2>4. \A v \in Users \ {u} : user[v].pc = "change" =>
            user[v].fp # user[u].fp /\ user[v].fp \in Fingerprints
      BY <1>0, <2>1 DEF ChangeAlone, IInv, TypeOK, UserState, Idle
    <2>5. \A r \in Requests : LoadedHolds(r)'
      BY <1>0, <2>1, <2>2, <2>3 DEF LoadedHolds, ItemOf
    <2>6. \A v \in Users : ChangeAlone(v)'
      BY <1>0, <2>1, <2>2, <2>4 DEF ChangeAlone, ItemOf
    <2>7. QED
      BY <2>5, <2>6
  <1>10. QED
    BY <1>2, <1>3, <1>4, <1>5, <1>6, <1>7, <1>8, <1>9, QuietIngest DEF Next, Change

-----------------------------------------------------------------------------
(* Every step of the ingestion is a step of the store or a stutter.        *)

Stored == {[id |-> <<e.req, e.item>>, fp |-> e.fp, at |-> e.at] : e \in evidence}

StoreStep == [Store!StoreNext]_(Store!storeVars)

LEMMA SaveObserves ==
  ASSUME IInv, FindingsInv, ClockInv, SerialFindings, NEW r \in Requests, Save(r)
  PROVE  StoreStep
  <1>1. PICK e \in Evidence :
          /\ e.req = r /\ e.item = req[r].n
          /\ e.fp = ItemOf(r).fp /\ e.at = req[r].at
          /\ evidence' = evidence \cup {e}
    BY SaveEffects
  <1>2. /\ req[r].pc = "save" /\ Working(r) /\ req[r].task \in Tasks
        /\ ItemOf(r).fp \in Fingerprints
        /\ req[r].n \in DOMAIN Report[req[r].task]
    <2>1. req[r].pc = "save" /\ Working(r)
      BY SaveEffects
    <2>2. QED
      BY <2>1, WorkFields DEF IInv, Work, TypeOK, Working
  <1>4. req[r].at \in 1..Cardinality(Requests)
    <2>1. req[r].at \in 1..clock /\ clock \in Nat /\ clock <= Cardinality(Flushed)
      BY <1>2 DEF ClockInv, IInv, TypeOK
    <2>2. Cardinality(Requests) \in Nat
      BY IngestionAssumption, FS_CardinalityType
    <2>3. QED
      BY <2>1, <2>2, FlushedFinite
  <1>5. \A s \in Stored : s.id # <<r, req[r].n>>
    <2>1. ASSUME NEW d \in evidence, d.req = r PROVE d.item # req[r].n
      <3>1. d.item < req[r].n /\ d.item \in Nat
        BY <1>2, <2>1 DEF IInv, Sane, ItemsInOrder, TypeOK, Evidence
      <3>2. QED
        BY <3>1
    <2>2. QED
      BY <2>1 DEF Stored
  <1>6. finding' = [finding EXCEPT ![ItemOf(r).fp] =
                      Store!Observed(finding[ItemOf(r).fp], req[r].at)]
    BY <1>2, SavedIsObserved DEF Save
  <1>7. Stored' = Stored \cup {[id |-> <<r, req[r].n>>, fp |-> ItemOf(r).fp,
                                at |-> req[r].at]}
    BY <1>1 DEF Stored
  <1>8. PICK k \in UNION {DOMAIN Report[t] : t \in Tasks} : k = req[r].n
    BY <1>2
  <1>9. PICK f \in Fingerprints, at \in 1..Cardinality(Requests) :
          f = ItemOf(r).fp /\ at = req[r].at
    <2>1. PICK at \in 1..Cardinality(Requests) : at = req[r].at
      BY <1>4
    <2>2. QED
      BY <1>2, <2>1
  <1>10. Store!Observe(<<r, k>>, f, at)
    BY <1>5, <1>6, <1>7, <1>8, <1>9 DEF Store!Observe, Stored
  <1>11. QED
    BY <1>10 DEF StoreStep, Store!StoreNext

LEMMA CommitChanges ==
  ASSUME IInv, FindingsInv, SerialFindings, NEW u \in Users, ChangeCommit(u)
  PROVE  StoreStep
  <1>1. /\ user[u].pc = "change" /\ user[u].fp \in Fingerprints
        /\ user[u].to \in FindingStatus /\ evidence' = evidence
    BY DEF ChangeCommit, IInv, TypeOK, UserState, Idle
  <1>2. CASE user[u].from = user[u].to
    BY <1>1, <1>2 DEF ChangeCommit, StoreStep, Store!storeVars
  <1>3. CASE user[u].from # user[u].to
    <2>1. /\ finding[user[u].fp].status = user[u].from
          /\ validate_finding_transition(user[u].from, user[u].to)
          /\ finding[user[u].fp] # NoFinding
      BY <1>1 DEF FindingsInv, ChangeAlone, IInv, ChangeHasRow
    <2>2. Store!ChangeStatus(user[u].fp, user[u].to)
      BY <1>1, <1>3, <2>1
      DEF ChangeCommit, Store!ChangeStatus, NoFinding, Store!NoFinding,
          validate_finding_transition, Store!validate_finding_transition,
          VALID_TRANSITIONS, Store!VALID_TRANSITIONS
    <2>3. user[u].to \in Store!FindingStatus
      BY <1>1 DEF FindingStatus, Store!FindingStatus
    <2>4. QED
      BY <1>1, <2>2, <2>3 DEF StoreStep, Store!StoreNext
  <1>4. QED
    BY <1>2, <1>3

LEMMA StepStored ==
  IInv /\ FindingsInv /\ ClockInv /\ SerialFindings /\ [Next]_vars => StoreStep
  <1> SUFFICES ASSUME IInv, FindingsInv, ClockInv, SerialFindings, [Next]_vars
               PROVE  StoreStep
    OBVIOUS
  <1>1. ASSUME UNCHANGED <<finding, evidence>> PROVE StoreStep
    BY <1>1 DEF StoreStep, Store!storeVars
  <1>2. ASSUME NEW r \in Requests, Ingest(r) PROVE StoreStep
    BY <1>1, <1>2, SaveObserves, QuietIngest DEF Quiet, Flush
  <1>3. ASSUME NEW u \in Users, Change(u) PROVE StoreStep
    BY <1>1, <1>3, CommitChanges DEF Change, ChangeRead
  <1>4. QED
    BY <1>1, <1>2, <1>3 DEF Next, vars, Begin, Crash

LEMMA InitStored == Init => Store!StoreInit
  BY DEF Init, Store!StoreInit, NoFinding, Store!NoFinding

\* While no status change overlaps work on its finding, the findings are a
\* FindingStore: however submissions of several processes collide, fail and are cut
\* off, each observation and each change is one step, from the status the row has.
THEOREM StoreImplemented == ASSUME SerialFindings PROVE Spec => ImplementsStore
  <1>1. IInv /\ FindingsInv /\ ClockInv /\ [Next]_vars => StoreStep
    BY StepStored
  <1>2. QED
    BY <1>1, InitStored, Invariant, ClockInvariant, FindingsInit, FindingsStep, PTL
    DEF Spec, ImplementsStore, Store!StoreSpec, StoreStep
=============================================================================
