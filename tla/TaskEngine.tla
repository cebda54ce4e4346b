----------------------------- MODULE TaskEngine -----------------------------
(***************************************************************************)
(* The task queue of the backend: services/task_engine.py, driven by the   *)
(* control and agent endpoints of api/v1/tasks.py and agent_tasks.py.      *)
(*                                                                         *)
(* Every HTTP request runs in a database session of its own, under READ    *)
(* COMMITTED.  A handler SELECTs the task, decides on the status it read,  *)
(* awaits, and commits an UPDATE keyed by the task id alone; only the      *)
(* claim repeats its condition in the UPDATE.  So a request is two steps,  *)
(* the read and the commit, and other requests run in between.  A session  *)
(* that ends without a commit is rolled back and leaves no trace.          *)
(*                                                                         *)
(* A member of Requests is one HTTP request; a client that repeats a call  *)
(* or loses a response is simply another member.                           *)
(***************************************************************************)
EXTENDS Naturals, FiniteSets

CONSTANTS
  Tasks,          \* task rows the users may create
  Devices,        \* enrolled devices; a device determines its tenant
  DeviceOf,       \* the target device of a task
  PriorityOf,     \* the priority a task is created with
  Collation,      \* how the database orders the values of tasks.priority
  Requests,       \* HTTP requests; a claim names its execution by its request
  NoExec,         \* an execution_id for which there is no row
  NoTask,         \* the task of a row that does not exist
  Reports,        \* the kinds of findings agents report of a task, see Kinds
  SerialTasks     \* tasks of clients that never overlap two changes of one

Priorities == {"LOW", "NORMAL", "HIGH"}

\* The findings of a result, as far as its first commit can tell: none, an item
\* that is stored, an item over MAX_EVIDENCE_SIZE_BYTES, or only items the
\* findings table refuses, which the ingestion drops.
Kinds == {"empty", "stored", "oversized", "unstorable"}

ASSUME ConstantsAssumption ==
  /\ IsFiniteSet(Tasks)
  /\ DeviceOf \in [Tasks -> Devices]
  /\ PriorityOf \in [Tasks -> Priorities]
  /\ Collation \in [Priorities -> Nat]
  /\ NoExec \notin Requests
  /\ NoTask \notin Tasks
  /\ Reports \in [Tasks -> SUBSET Kinds]
  /\ SerialTasks \subseteq Tasks

VARIABLES
  status,     \* committed tasks.status, "NONE" before the row is visible
  createdAt,  \* tasks.created_at as a position in insertion order, 0 before
  execution,  \* committed task_executions rows, by execution_id
  audit,      \* committed audit_events of tasks
  req         \* what each request is doing

vars == <<status, createdAt, execution, audit, req>>

-----------------------------------------------------------------------------
TaskStatus == {"CREATED", "QUEUED", "DELIVERED", "ACKNOWLEDGED", "RUNNING",
               "COMPLETED", "FAILED", "CANCELLED", "EXPIRED", "TIMEOUT"}

Terminal == {"COMPLETED", "FAILED", "CANCELLED", "EXPIRED", "TIMEOUT"}

Results == {"COMPLETED", "FAILED"}

ALLOWED_TRANSITIONS ==
  UNION { {"CREATED"}      \X {"QUEUED", "CANCELLED"},
          {"QUEUED"}       \X {"DELIVERED", "RUNNING", "COMPLETED", "FAILED",
                               "EXPIRED", "CANCELLED"},
          {"DELIVERED"}    \X {"ACKNOWLEDGED", "RUNNING", "COMPLETED",
                               "FAILED", "TIMEOUT", "CANCELLED"},
          {"ACKNOWLEDGED"} \X {"RUNNING", "COMPLETED", "FAILED", "CANCELLED",
                               "TIMEOUT"},
          {"RUNNING"}      \X {"COMPLETED", "FAILED", "CANCELLED", "TIMEOUT"} }

\* A mutation: only a result closes a task.
TransitionUnlessFinished(from, to) == from = to \/ from \notin Results

validate_state_transition(from, to) ==
  from = to \/ <<from, to>> \in ALLOWED_TRANSITIONS

\* The audit event a handler adds with the status it commits.
Event == [QUEUED |-> "TASK_CREATED", DELIVERED |-> "TASK_DELIVERED",
          ACKNOWLEDGED |-> "TASK_ACKNOWLEDGED", RUNNING |-> "TASK_STARTED",
          COMPLETED |-> "TASK_COMPLETED", FAILED |-> "TASK_FAILED",
          CANCELLED |-> "TASK_CANCELLED"]

Goals == DOMAIN Event

Findings(t) == Reports[t] \cup {"empty"}

NoRow == [task |-> NoTask, status |-> "NONE"]
ExecRow == [task : Tasks, status : Goals]

Idle == [pc |-> "idle"]
RequestState ==
  {Idle}
  \cup [pc : {"insert"}, task : Tasks]
  \cup [pc : {"claim"}, task : Tasks, seen : SUBSET Tasks]
  \cup [pc : {"write"}, task : Tasks, goal : Goals \ {"QUEUED", "DELIVERED"},
        exec : Requests \cup {NoExec}, findings : Kinds]
  \cup [pc : {"ok", "noop"}, task : Tasks, goal : Goals,
        exec : Requests \cup {NoExec}]
  \cup [pc : {"refused"}]

TypeOK ==
  /\ status \in [Tasks -> {"NONE"} \cup Goals]
  /\ createdAt \in [Tasks -> Nat]
  /\ execution \in [Requests -> {NoRow} \cup ExecRow]
  /\ audit \subseteq [req : Requests, task : Tasks, event : {Event[g] : g \in Goals}]
  /\ req \in [Requests -> RequestState]

Init ==
  /\ status = [t \in Tasks |-> "NONE"]
  /\ createdAt = [t \in Tasks |-> 0]
  /\ execution = [e \in Requests |-> NoRow]
  /\ audit = {}
  /\ req = [r \in Requests |-> Idle]

-----------------------------------------------------------------------------
Become(r, state) == req' = [req EXCEPT ![r] = state]

\* The 200 answer of a request that changed t, or found it as asked for.
Answer(pc, t, goal, e) == [pc |-> pc, task |-> t, goal |-> goal, exec |-> e]

\* UPDATE tasks SET status = goal WHERE id = t, committed with its audit event.
Commit(r, t, goal, e) ==
  /\ status' = [status EXCEPT ![t] = goal]
  /\ audit' = audit \cup {[req |-> r, task |-> t, event |-> Event[goal]]}
  /\ Become(r, Answer("ok", t, goal, e))
  /\ UNCHANGED createdAt

\* The execution row a handler loads WHERE task_id = t AND execution_id = e.
Matches(e, t) == e \in Requests /\ execution[e].task = t

SetExecution(e, t, goal) ==
  execution' = IF Matches(e, t)
               THEN [execution EXCEPT ![e].status = goal]
               ELSE execution

\* Who changes a task of SerialTasks waits for the answer to its last change.
Admitted(t) ==
  t \in SerialTasks => \A q \in Requests :
                          req[q].pc = "write" => req[q].task # t

-----------------------------------------------------------------------------
(* create_task: the flush inserts the row and stamps it, the commit makes  *)
(* it visible.                                                             *)

CreateInsert(r, t) ==
  /\ req[r] = Idle
  /\ createdAt[t] = 0
  /\ createdAt' = [createdAt EXCEPT
                     ![t] = 1 + Cardinality({u \in Tasks : createdAt[u] > 0})]
  /\ Become(r, [pc |-> "insert", task |-> t])
  /\ UNCHANGED <<status, execution, audit>>

CreateCommit(r) ==
  /\ req[r].pc = "insert"
  /\ Commit(r, req[r].task, "QUEUED", NoExec)
  /\ UNCHANGED execution

-----------------------------------------------------------------------------
(* claim_next_task_for_device: select a candidate, then update it if it is *)
(* still QUEUED; a claim that lost the race delivers nothing.              *)

Queued(d) == {t \in Tasks : DeviceOf[t] = d /\ status[t] = "QUEUED"}

\* A mutation: among equals the youngest first.
PrecedesYoungest(t, u) ==
  \/ Collation[PriorityOf[t]] > Collation[PriorityOf[u]]
  \/ /\ Collation[PriorityOf[t]] = Collation[PriorityOf[u]]
     /\ createdAt[t] > createdAt[u]

\* ORDER BY priority DESC, created_at ASC
Precedes(t, u) ==
  \/ Collation[PriorityOf[t]] > Collation[PriorityOf[u]]
  \/ /\ Collation[PriorityOf[t]] = Collation[PriorityOf[u]]
     /\ createdAt[t] < createdAt[u]

ClaimSelect(r, d) ==
  /\ req[r] = Idle
  /\ \/ /\ Queued(d) = {}
        /\ Become(r, [pc |-> "refused"])
     \/ \E t \in Queued(d) :
          /\ \A u \in Queued(d) \ {t} : ~Precedes(u, t)
          /\ Become(r, [pc |-> "claim", task |-> t, seen |-> Queued(d)])
  /\ UNCHANGED <<status, createdAt, execution, audit>>

\* Mutations: the UPDATE admits a task that was delivered already, or it only
\* makes sure that no other poll was first.
StillUnacknowledged(t) == status[t] \in {"QUEUED", "DELIVERED"}
StillUndelivered(t) == status[t] # "DELIVERED"

StillQueued(t) == status[t] = "QUEUED"

\* A mutation: the execution row is added without its task.
ClaimUpdateDetached(r) ==
  /\ req[r].pc = "claim"
  /\ status[req[r].task] = "QUEUED"
  /\ Commit(r, req[r].task, "DELIVERED", r)
  /\ execution' = [execution EXCEPT ![r] = [task |-> NoTask, status |-> "DELIVERED"]]

ClaimUpdate(r) ==
  /\ req[r].pc = "claim"
  /\ LET t == req[r].task IN
     IF StillQueued(t)
     THEN /\ Commit(r, t, "DELIVERED", r)
          /\ execution' = [execution EXCEPT
                             ![r] = [task |-> t, status |-> "DELIVERED"]]
     ELSE /\ Become(r, [pc |-> "refused"])
          /\ UNCHANGED <<status, createdAt, execution, audit>>

-----------------------------------------------------------------------------
(* The read of acknowledge_task, start_task, submit_task_result and        *)
(* cancel_task: answer at once if the task already has one of the statuses *)
(* in done, refuse what the transition table forbids, or go on to write.   *)

Read(r, t, goal, done, exec, findings) ==
  /\ req[r] = Idle
  /\ status[t] # "NONE"
  /\ Admitted(t)
  /\ Become(r, CASE status[t] \in done ->
                      Answer("noop", t, goal, exec)
                 [] status[t] \notin done /\ validate_state_transition(status[t], goal) ->
                      [pc |-> "write", task |-> t, goal |-> goal,
                       exec |-> exec, findings |-> findings]
                 [] OTHER -> [pc |-> "refused"])
  /\ UNCHANGED <<status, createdAt, execution, audit>>

AcknowledgeRead(r, t, e) ==
  Read(r, t, "ACKNOWLEDGED", {"ACKNOWLEDGED"}, e, "empty")

StartRead(r, t, e) ==
  Read(r, t, "RUNNING", {"RUNNING"}, e, "empty")

\* A mutation: any terminal task takes a result for a repeated one.
SubmitReadClosed(r, t, e, result, findings) ==
  Read(r, t, result, Terminal, e, findings)

SubmitRead(r, t, e, result, findings) ==
  Read(r, t, result, Results, e, findings)

CancelRead(r, t) ==
  /\ status[t] \notin Terminal   \* a terminal task answers 400
  /\ Read(r, t, "CANCELLED", {}, NoExec, "empty")

Writing(r, goals) == req[r].pc = "write" /\ req[r].goal \in goals

\* A mutation: the status is committed without its audit event.
ProgressUnaudited(r) ==
  /\ Writing(r, {"ACKNOWLEDGED", "RUNNING"})
  /\ status' = [status EXCEPT ![req[r].task] = req[r].goal]
  /\ Become(r, Answer("ok", req[r].task, req[r].goal, req[r].exec))
  /\ UNCHANGED <<createdAt, execution, audit>>

\* The commit of acknowledge_task and start_task.
ProgressCommit(r) ==
  /\ Writing(r, {"ACKNOWLEDGED", "RUNNING"})
  /\ Commit(r, req[r].task, req[r].goal, req[r].exec)
  /\ SetExecution(req[r].exec, req[r].task, req[r].goal)

\* submit_task_result without findings to ingest commits the execution too.
SubmitCommit(r) ==
  /\ Writing(r, Results)
  /\ req[r].goal = "FAILED" \/ req[r].findings = "empty"
  /\ Commit(r, req[r].task, req[r].goal, req[r].exec)
  /\ SetExecution(req[r].exec, req[r].task, req[r].goal)

\* With findings the first commit is that of process_finding_ingestion, whose
\* db.expire_all() has discarded the unflushed change of the execution row.
SubmitIngest(r) ==
  /\ Writing(r, {"COMPLETED"})
  /\ req[r].findings = "stored"
  /\ req[r].exec \in Requests /\ execution[req[r].exec] # NoRow
  /\ Commit(r, req[r].task, "COMPLETED", req[r].exec)
  /\ UNCHANGED execution

\* An oversized first item, or evidence whose execution_id has no row to
\* reference, fails the request: everything it flushed is rolled back.
SubmitRollback(r) ==
  /\ Writing(r, {"COMPLETED"})
  /\ \/ req[r].findings = "oversized"
     \/ /\ req[r].findings = "stored"
        /\ req[r].exec \in Requests => execution[req[r].exec] = NoRow
  /\ Become(r, [pc |-> "refused"])
  /\ UNCHANGED <<status, createdAt, execution, audit>>

\* When every item was dropped nothing has been committed: the answer reports
\* the flushed status, and closing the session rolls it back.
SubmitDropped(r) ==
  /\ Writing(r, {"COMPLETED"})
  /\ req[r].findings = "unstorable"
  /\ Become(r, Answer("ok", req[r].task, "COMPLETED", req[r].exec))
  /\ UNCHANGED <<status, createdAt, execution, audit>>

CancelCommit(r) ==
  /\ Writing(r, {"CANCELLED"})
  /\ Commit(r, req[r].task, "CANCELLED", NoExec)
  /\ UNCHANGED execution

-----------------------------------------------------------------------------
UserStep(r) ==
  \/ \E t \in Tasks : CreateInsert(r, t) \/ CancelRead(r, t)
  \/ CreateCommit(r)
  \/ CancelCommit(r)

PollStep(r) ==
  \/ \E d \in Devices : ClaimSelect(r, d)
  \/ ClaimUpdate(r)

AgentStep(r) ==
  \/ \E t \in Tasks, e \in {f \in Requests : execution[f] # NoRow} \cup {NoExec} :
       \/ AcknowledgeRead(r, t, e)
       \/ StartRead(r, t, e)
       \/ \E result \in Results, findings \in Findings(t) :
            SubmitRead(r, t, e, result, findings)
  \/ ProgressCommit(r)
  \/ SubmitCommit(r)
  \/ SubmitIngest(r)
  \/ SubmitRollback(r)
  \/ SubmitDropped(r)

Next == \E r \in Requests : UserStep(r) \/ PollStep(r) \/ AgentStep(r)

Spec == Init /\ [][Next]_vars

-----------------------------------------------------------------------------
(***************************************************************************)
(* Properties.                                                             *)
(***************************************************************************)

Holders(t) == {e \in Requests : execution[e].task = t}

\* However many polls, cancellations and stale writes overlap, a task is
\* claimed at most once: the conditional UPDATE of claim_next_task_for_device
\* admits one winner and no handler ever puts a task back into the queue.
SingleExecution ==
  \A e, f \in Requests :
    execution[e] # NoRow /\ execution[e].task = execution[f].task => e = f

\* A status and its audit event are one commit: whatever status a task has
\* now, the audit log holds the event of that transition.
AuditMatchesStatus ==
  \A t \in Tasks : status[t] # "NONE" =>
    \E a \in audit : a.task = t /\ a.event = Event[status[t]]

\* A call that answered 200 is on record: a result whose submission was
\* answered, by this commit or idempotently by an earlier one, has a result
\* event, and any other answered change has the event it asked for.  It takes
\* a task whose reports can be stored: see SubmitDropped.
SuccessIsRecorded ==
  \A r \in Requests : req[r].pc \in {"ok", "noop"}
                    /\ "unstorable" \notin Reports[req[r].task] =>
    \E a \in audit :
      /\ a.task = req[r].task
      /\ IF req[r].goal \in Results
         THEN a.event \in {Event[g] : g \in Results}
         ELSE a.event = Event[req[r].goal]

\* A task that left the queue without being claimed (cancelled, or started or
\* finished directly) is never handed out afterwards, not even by a poll that
\* had selected it before.
NeverClaimedLater ==
  [][\A t \in Tasks :
       status[t] \notin {"NONE", "QUEUED"} /\ Holders(t) = {} => Holders(t)' = {}]_vars

Urgency == [LOW |-> 1, NORMAL |-> 2, HIGH |-> 3]

\* "Atomically claim the highest priority QUEUED task for device": a claim
\* takes the most urgent task, and among equals the oldest, of those that
\* were queued for the device when the poll looked.  It takes a Collation that
\* follows the declared order, as a native enum does and a VARCHAR does not.
ClaimsMostUrgent ==
  [][\A r \in Requests : req[r].pc = "claim" /\ req'[r].pc = "ok" =>
       \A u \in req[r].seen :
         LET t == req[r].task IN
         \/ u = t
         \/ Urgency[PriorityOf[u]] < Urgency[PriorityOf[t]]
         \/ /\ Urgency[PriorityOf[u]] = Urgency[PriorityOf[t]]
            /\ createdAt[t] <= createdAt[u]]_vars

TerminalEvents == {"TASK_COMPLETED", "TASK_FAILED", "TASK_CANCELLED"}

Closers(t) ==
  {r \in Requests : \E a \in audit :
     a.req = r /\ a.task = t /\ a.event \in TerminalEvents}

\* As long as clients do not overlap two changes of a task, the engine is the
\* lifecycle it promises for that task, although polls race with every change
\* and the writes do not re-check the status they were decided on.
Promise == INSTANCE TaskLifecycle
             WITH Tasks <- SerialTasks,
                  Actors <- Requests,
                  status <- [t \in SerialTasks |-> status[t]],
                  heldBy <- [t \in SerialTasks |-> Holders(t)],
                  closedBy <- [t \in SerialTasks |-> Closers(t)]

Lifecycle == Promise!Spec

\* PHASE_05_COMPLETION_REPORT: the terminal states "are immutable".
TerminalImmutable ==
  [][\A t \in Tasks : status[t] \in Terminal => status'[t] = status[t]]_vars
=============================================================================
