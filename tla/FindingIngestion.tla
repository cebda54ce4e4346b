-------------------------- MODULE FindingIngestion --------------------------
(***************************************************************************)
(* How the findings of a COMPLETED result reach the database:              *)
(* submit_task_result with process_finding_ingestion, and the users'       *)
(* mutate_finding_status (services/finding_engine.py).                     *)
(*                                                                         *)
(* The findings of a report are ingested one by one, each under an asyncio *)
(* lock of its fingerprint that is local to the worker process, and each   *)
(* committed by itself; the first commit also commits the task's status    *)
(* and its audit event.  Until then the transaction holds the row lock of  *)
(* the task, and from its INSERT to its commit the unique key of a new     *)
(* finding.  An execution_id with no row is left to TaskEngine.            *)
(*                                                                         *)
(* A session takes a connection from the pool of its process with its      *)
(* first statement and gives it back with its commit, so a submission      *)
(* needs a new one for every item after the first, and for its answer.     *)
(* Users are served by processes of their own.                             *)
(***************************************************************************)
EXTENDS FindingRules, Sequences, FiniteSets

CONSTANTS
  Tasks,
  Fingerprints,
  Report,          \* the findings an agent reports for a task, in order
  Requests,        \* submissions of a result; a retry is another request
  Workers,         \* processes serving the API on the same database
  WorkerOf,        \* the process that serves a request
  Users,           \* status changes asked for by users, one each
  MaxAttempts,     \* inserts tried for one finding (10 in the code)
  PoolSizes,       \* values DATABASE_POOL_MAX may have
  SerialClients,   \* TRUE: an agent retries only after an answer or a crash
  SerialFindings   \* TRUE: a status change overlaps no work on its finding

\* An item is stored, or refused by the findings table (a column too long or
\* of the wrong type), or over MAX_EVIDENCE_SIZE_BYTES.
Item == [fp : Fingerprints, kind : {"sound", "unstorable", "oversized"}]

ASSUME IngestionAssumption ==
  /\ IsFiniteSet(Requests)
  /\ Report \in [Tasks -> Seq(Item) \ {<<>>}]
  /\ WorkerOf \in [Requests -> Workers]
  /\ MaxAttempts \in Nat \ {0}
  /\ PoolSizes \subseteq Nat \ {0}
  /\ SerialClients \in BOOLEAN
  /\ SerialFindings \in BOOLEAN

VARIABLES
  completed,  \* committed: the task is COMPLETED, with its audit event
  finding,    \* committed findings rows, one per fingerprint by constraint
  evidence,   \* committed finding_evidences rows
  clock,      \* counts the readings of `now`
  req,        \* what each submission is doing
  user,       \* what each status change is doing
  poolMax     \* connections a process may have at once; it never changes

vars == <<completed, finding, evidence, clock, req, user, poolMax>>

-----------------------------------------------------------------------------
Evidence == [req : Requests, task : Tasks, item : Nat, fp : Fingerprints, at : Nat]

Idle == [pc |-> "idle"]

Locking == {"select", "insert", "fallback", "save"}

\* loaded is the status of the row as SELECTed, or "NEW" for a row that the
\* transaction inserted; kept tells whether something is committed already, and
\* conn whether the session has a connection.
Work == [pc : {"item"} \cup Locking, task : Tasks, n : Nat, at : Nat, tries : Nat,
         loaded : FindingStatus \cup {"NONE", "NEW"}, kept : BOOLEAN, conn : BOOLEAN]

RequestState ==
  {Idle} \cup Work
  \cup [pc : {"answer"}, task : Tasks, kept : BOOLEAN, conn : BOOLEAN]
  \cup [pc : {"flush", "ok", "noop", "error", "lost"}, task : Tasks]

UserState ==
  {Idle} \cup [pc : {"change"}, fp : Fingerprints, from : FindingStatus,
               to : FindingStatus]
  \cup [pc : {"done", "refused"}]

TypeOK ==
  /\ completed \in [Tasks -> BOOLEAN]
  /\ finding \in [Fingerprints -> {NoFinding} \cup FindingRow]
  /\ evidence \subseteq Evidence
  /\ clock \in Nat
  /\ req \in [Requests -> RequestState]
  /\ user \in [Users -> UserState]
  /\ poolMax \in PoolSizes
  /\ \A r \in Requests : req[r].pc \in {"item"} \cup Locking =>
       req[r].n \in DOMAIN Report[req[r].task]

Init ==
  /\ completed = [t \in Tasks |-> FALSE]
  /\ finding = [f \in Fingerprints |-> NoFinding]
  /\ evidence = {}
  /\ clock = 0
  /\ req = [r \in Requests |-> Idle]
  /\ user = [u \in Users |-> Idle]
  /\ poolMax \in PoolSizes

-----------------------------------------------------------------------------
Become(r, state) == req' = [req EXCEPT ![r] = state]

Finish(r, pc) == Become(r, [pc |-> pc, task |-> req[r].task])

Working(r) == req[r].pc \in {"item"} \cup Locking

Started(r) == req[r].pc \in {"flush", "answer"} \/ Working(r)

ItemOf(r) == Report[req[r].task][req[r].n]

\* The locks: the row of a task, the unique key of a finding, and the asyncio
\* lock of a fingerprint, which processes do not share.
HoldsTask(r, t) ==
  /\ Working(r) \/ req[r].pc = "answer"
  /\ ~req[r].kept
  /\ req[r].task = t

HoldsKey(r, f) == req[r].pc = "save" /\ req[r].loaded = "NEW" /\ ItemOf(r).fp = f

\* A mutation: the locks are kept until the whole report is ingested.
HoldsLockToEnd(r, f) ==
  /\ Working(r)
  /\ \E n \in 1..req[r].n :
       /\ n < req[r].n \/ req[r].pc \in Locking
       /\ Report[req[r].task][n].fp = f

HoldsLock(r, f) == req[r].pc \in Locking /\ ItemOf(r).fp = f

\* The connections of a process: those in use, and whether r has one or may have.
HoldsConnection(r) ==
  IF Working(r) \/ req[r].pc = "answer" THEN req[r].conn ELSE req[r].pc = "flush"

Connected(r) ==
  \/ HoldsConnection(r)
  \/ Cardinality({q \in Requests : WorkerOf[q] = WorkerOf[r] /\ HoldsConnection(q)})
       < poolMax

\* A mutation: one item too many.
NextItemPastEnd(r, kept, conn) ==
  IF req[r].n > Len(Report[req[r].task])
  THEN Become(r, [pc |-> "answer", task |-> req[r].task, kept |-> kept, conn |-> conn])
  ELSE Become(r, [req[r] EXCEPT !.pc = "item", !.n = @ + 1, !.tries = 0,
                                !.loaded = "NONE", !.kept = kept, !.conn = conn])

\* The next item of the report, or the answer when there is none.
NextItem(r, kept, conn) ==
  IF req[r].n = Len(Report[req[r].task])
  THEN Become(r, [pc |-> "answer", task |-> req[r].task, kept |-> kept, conn |-> conn])
  ELSE Become(r, [req[r] EXCEPT !.pc = "item", !.n = @ + 1, !.tries = 0,
                                !.loaded = "NONE", !.kept = kept, !.conn = conn])

Changing(f) == \E u \in Users : user[u].pc = "change" /\ user[u].fp = f

-----------------------------------------------------------------------------
(* submit_task_result: a completed task answers at once; otherwise the     *)
(* flush of its new status takes the row lock, and waits for it.           *)

Admitted(t) ==
  SerialClients => \A q \in Requests :
                     Started(q) => req[q].task # t

\* A mutation: a repeated submission is ingested again.
BeginAgain(r, t) ==
  /\ req[r] = Idle
  /\ Admitted(t)
  /\ Connected(r)
  /\ Become(r, [pc |-> "flush", task |-> t])
  /\ UNCHANGED <<completed, finding, evidence, clock, user>>

Begin(r, t) ==
  /\ req[r] = Idle
  /\ Admitted(t)
  /\ Connected(r)
  /\ Become(r, [pc |-> IF completed[t] THEN "noop" ELSE "flush", task |-> t])
  /\ UNCHANGED <<completed, finding, evidence, clock, user>>

\* A mutation: the status of the task is committed before the ingestion.
FlushCommits(r) ==
  /\ req[r].pc = "flush"
  /\ clock' = clock + 1
  /\ completed' = [completed EXCEPT ![req[r].task] = TRUE]
  /\ Become(r, [pc |-> "item", task |-> req[r].task, n |-> 1, at |-> clock + 1,
                tries |-> 0, loaded |-> "NONE", kept |-> TRUE,
                conn |-> FALSE])
  /\ UNCHANGED <<finding, evidence, user>>

Flush(r) ==
  /\ req[r].pc = "flush"
  /\ \A q \in Requests : ~HoldsTask(q, req[r].task)
  /\ clock' = clock + 1
  /\ Become(r, [pc |-> "item", task |-> req[r].task, n |-> 1, at |-> clock + 1,
                tries |-> 0, loaded |-> "NONE", kept |-> FALSE,
                conn |-> TRUE])
  /\ UNCHANGED <<completed, finding, evidence, user>>

-----------------------------------------------------------------------------
(* process_finding_ingestion, for one item.                                *)

\* Oversized evidence fails the request; the current transaction is undone.
Reject(r) ==
  /\ req[r].pc = "item"
  /\ ItemOf(r).kind = "oversized"
  /\ Finish(r, "error")
  /\ UNCHANGED <<completed, finding, evidence, clock, user>>

\* A mutation: no fingerprint lock.
LockFree(r) ==
  /\ req[r].pc = "item"
  /\ ItemOf(r).kind # "oversized"
  /\ Become(r, [req[r] EXCEPT !.pc = "select"])
  /\ UNCHANGED <<completed, finding, evidence, clock, user>>

Lock(r) ==
  /\ req[r].pc = "item"
  /\ ItemOf(r).kind # "oversized"
  /\ \A q \in Requests :
       WorkerOf[q] = WorkerOf[r] => ~HoldsLock(q, ItemOf(r).fp)
  /\ Become(r, [req[r] EXCEPT !.pc = "select"])
  /\ UNCHANGED <<completed, finding, evidence, clock, user>>

\* What a SELECT by fingerprint leads to.
Found(r) == Become(r, [req[r] EXCEPT !.pc = "save", !.conn = TRUE,
                                     !.loaded = finding[ItemOf(r).fp].status])

Select(r) ==
  /\ req[r].pc = "select"
  /\ Connected(r)
  /\ SerialFindings => ~Changing(ItemOf(r).fp)
  /\ IF finding[ItemOf(r).fp] # NoFinding
     THEN Found(r)
     ELSE Become(r, [req[r] EXCEPT !.pc = "insert", !.conn = TRUE])
  /\ UNCHANGED <<completed, finding, evidence, clock, user>>

\* The flush of the new row, in a savepoint.
Insert(r) ==
  /\ req[r].pc = "insert"
  /\ ItemOf(r).kind = "sound"
  /\ finding[ItemOf(r).fp] = NoFinding
  /\ \A q \in Requests : ~HoldsKey(q, ItemOf(r).fp)
  /\ Become(r, [req[r] EXCEPT !.pc = "save", !.loaded = "NEW"])
  /\ UNCHANGED <<completed, finding, evidence, clock, user>>

\* A mutation: an insert that collides is taken for work already done.
InsertFailsSkip(r) ==
  /\ req[r].pc = "insert"
  /\ ItemOf(r).kind = "unstorable" \/ finding[ItemOf(r).fp] # NoFinding
  /\ NextItem(r, req[r].kept, TRUE)
  /\ UNCHANGED <<completed, finding, evidence, clock, user>>

\* A collision with a row committed meanwhile, or a row the table refuses: the
\* savepoint is undone and the loop goes round again, MaxAttempts times.
InsertFails(r) ==
  /\ req[r].pc = "insert"
  /\ ItemOf(r).kind = "unstorable" \/ finding[ItemOf(r).fp] # NoFinding
  /\ Become(r, [req[r] EXCEPT
                  !.tries = @ + 1,
                  !.pc = IF req[r].tries + 1 < MaxAttempts THEN "select"
                                                            ELSE "fallback"])
  /\ UNCHANGED <<completed, finding, evidence, clock, user>>

\* After the last attempt one more SELECT, and if it finds nothing the item is
\* dropped: no evidence, no commit, on to the next.
Fallback(r) ==
  /\ req[r].pc = "fallback"
  /\ SerialFindings => ~Changing(ItemOf(r).fp)
  /\ IF finding[ItemOf(r).fp] # NoFinding
     THEN Found(r)
     ELSE NextItem(r, req[r].kept, TRUE)
  /\ UNCHANGED <<completed, finding, evidence, clock, user>>

\* A mutation: a resolved finding is not reopened.
SavedUnchanged(r) ==
  [status   |-> IF req[r].loaded = "NEW" THEN "OPEN"
                                         ELSE finding[ItemOf(r).fp].status,
   lastSeen |-> req[r].at]

\* The row as saved: a new one, or the one that is there, reopened if it was
\* RESOLVED when it was loaded.
Saved(r) ==
  LET row == finding[ItemOf(r).fp] IN
  [status   |-> CASE req[r].loaded = "NEW" -> "OPEN"
                  [] req[r].loaded = "RESOLVED" -> "REOPENED"
                  [] OTHER -> row.status,
   lastSeen |-> req[r].at]

Save(r) ==
  /\ req[r].pc = "save"
  /\ finding' = [finding EXCEPT ![ItemOf(r).fp] = Saved(r)]
  /\ evidence' = evidence \cup
       {[req |-> r, task |-> req[r].task, item |-> req[r].n,
         fp |-> ItemOf(r).fp, at |-> req[r].at]}
  /\ completed' = [completed EXCEPT ![req[r].task] = TRUE]
  /\ NextItem(r, TRUE, FALSE)
  /\ UNCHANGED <<clock, user>>

\* The answer reads the task once more.  If nothing was committed the session
\* still has its transaction, and closing it undoes all.
Answer(r) ==
  /\ req[r].pc = "answer"
  /\ Connected(r)
  /\ Finish(r, "ok")
  /\ UNCHANGED <<completed, finding, evidence, clock, user>>

\* A mutation: who waits for a connection waits until there is one.
WaitForConnection(r) == FALSE

\* A session that gets no connection within the pool's timeout fails its request.
ConnectionTimeout(r) ==
  /\ req[r].pc \in {"select", "answer"}
  /\ ~Connected(r)
  /\ Finish(r, "error")
  /\ UNCHANGED <<completed, finding, evidence, clock, user>>

-----------------------------------------------------------------------------
(* A worker process dies: its requests are lost with their transactions,   *)
(* and its fingerprint locks are gone.                                     *)

Crash(w) ==
  LET dying == {r \in Requests : WorkerOf[r] = w /\ Started(r)} IN
  /\ dying # {}
  /\ req' = [r \in Requests |->
               IF r \in dying THEN [pc |-> "lost", task |-> req[r].task]
                              ELSE req[r]]
  /\ UNCHANGED <<completed, finding, evidence, clock, user>>

-----------------------------------------------------------------------------
(* mutate_finding_status: a SELECT that validates, then a commit by id.    *)

ChangeRead(u, f, to) ==
  /\ user[u] = Idle
  /\ finding[f] # NoFinding
  /\ SerialFindings =>
       ~Changing(f) /\ \A r \in Requests :
                         ~(req[r].pc = "save" /\ ItemOf(r).fp = f)
  /\ user' = [user EXCEPT ![u] =
       IF validate_finding_transition(finding[f].status, to)
       THEN [pc |-> "change", fp |-> f, from |-> finding[f].status, to |-> to]
       ELSE [pc |-> "refused"]]
  /\ UNCHANGED <<completed, finding, evidence, clock, req>>

\* An unchanged status is not part of the UPDATE.
ChangeCommit(u) ==
  /\ user[u].pc = "change"
  /\ finding' = IF user[u].from = user[u].to
                THEN finding
                ELSE [finding EXCEPT ![user[u].fp].status = user[u].to]
  /\ user' = [user EXCEPT ![u] = [pc |-> "done"]]
  /\ UNCHANGED <<completed, evidence, clock, req>>

-----------------------------------------------------------------------------
Ingest(r) ==
  \/ Flush(r) \/ Reject(r) \/ Lock(r) \/ Select(r) \/ Insert(r)
  \/ InsertFails(r) \/ Fallback(r) \/ Save(r) \/ Answer(r)
  \/ ConnectionTimeout(r)

Change(u) ==
  \/ \E f \in Fingerprints, to \in FindingStatus : ChangeRead(u, f, to)
  \/ ChangeCommit(u)

Next ==
  /\ \/ \E r \in Requests : Ingest(r) \/ \E t \in Tasks : Begin(r, t)
     \/ \E w \in Workers : Crash(w)
     \/ \E u \in Users : Change(u)
  /\ UNCHANGED poolMax

Spec == Init /\ [][Next]_vars

\* Handlers run on while they can: the database and asyncio hand a free lock to
\* one of those that wait for it, and the pool's timeout runs out.
FairSpec ==
  Spec /\ \A r \in Requests : WF_vars(Ingest(r) /\ UNCHANGED poolMax)
       /\ \A u \in Users : WF_vars(ChangeCommit(u) /\ UNCHANGED poolMax)

-----------------------------------------------------------------------------
(***************************************************************************)
(* Properties.                                                             *)
(***************************************************************************)

\* An answered ingestion lost nothing: whatever it collided with, each item
\* that can be stored has its evidence, attached to the row of its fingerprint.
EvidenceForAnswered ==
  \A r \in Requests : req[r].pc = "ok" =>
    \A n \in DOMAIN Report[req[r].task] :
      LET item == Report[req[r].task][n] IN
      item.kind = "sound" =>
        /\ \E e \in evidence : e.req = r /\ e.item = n /\ e.fp = item.fp
        /\ finding[item.fp] # NoFinding

\* A task is COMPLETED exactly when some evidence of it is stored: the first
\* commit of an ingestion carries both, whatever dies before or after it.
CompletedWithEvidence ==
  \A t \in Tasks : completed[t] <=> \E e \in evidence : e.task = t

\* Agents that retry only after an answer or a crash never store an observation
\* twice, wherever the first attempt was cut off.
ObservedOnce ==
  SerialClients =>
    \A e, f \in evidence : e.task = f.task /\ e.item = f.item => e = f

\* The fingerprint lock keeps look-up and insert of a process together: of the
\* rows the table accepts, an insert only ever fails because of a row that
\* another process has stored in between.
NoCollision ==
  [][\A r \in Requests :
       /\ req[r].pc = "insert" /\ ItemOf(r).kind = "sound"
       /\ req'[r].pc \in {"select", "fallback"}
       => \E e \in evidence : e.fp = ItemOf(r).fp /\ WorkerOf[e.req] # WorkerOf[r]]_vars

\* Every submission comes to an end: the row locks, unique keys and fingerprint
\* locks of ingestions never wait for each other in a circle, in whatever orders
\* their reports name the fingerprints.  A circle through the pool, of a holder
\* of a fingerprint lock that waits for a connection and the holders of all the
\* connections that wait for the lock, is broken by the pool's timeout alone.
Answered == \A r \in Requests : Started(r) ~> ~Started(r)

\* However submissions of several processes collide, fail and are cut off, the
\* findings are a FindingStore: every observation and every change of a status
\* appears as one step, from the status that the row then has.
Store == INSTANCE FindingStore
           WITH Observations <- {<<r, n>> : r \in Requests,
                                 n \in UNION {DOMAIN Report[t] : t \in Tasks}},
                Times <- 1..Cardinality(Requests),
                evidence <- {[id |-> <<e.req, e.item>>, fp |-> e.fp, at |-> e.at] :
                               e \in evidence}

ImplementsStore == Store!StoreSpec

\* SYSTEM_DESIGN 7.5: "Each result ingestion request runs inside a dedicated
\* database transaction": it is stored as a whole or not at all.
StoredWhole ==
  \A t \in Tasks :
    (completed[t] /\ \A r \in Requests : Started(r) => req[r].task # t) =>
      \A n \in DOMAIN Report[t] : \E e \in evidence : e.task = t /\ e.item = n
=============================================================================
