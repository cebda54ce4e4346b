-------------------------- MODULE TaskEngineProofs --------------------------
(***************************************************************************)
(* Proofs about TaskEngine, for every set of tasks, devices and requests.  *)
(***************************************************************************)
EXTENDS TaskEngine, FiniteSetTheorems, TLAPS

-----------------------------------------------------------------------------
(* The fields of the records a request goes through.                       *)

LEMMA InsertFields ==
  ASSUME TypeOK, NEW r \in Requests, req[r].pc = "insert"
  PROVE  req[r].task \in Tasks
  BY DEF TypeOK, RequestState, Idle

LEMMA ClaimFields ==
  ASSUME TypeOK, NEW r \in Requests, req[r].pc = "claim"
  PROVE  req[r].task \in Tasks
  BY DEF TypeOK, RequestState, Idle

LEMMA WriteFields ==
  ASSUME TypeOK, NEW r \in Requests, req[r].pc = "write"
  PROVE  /\ req[r].task \in Tasks
         /\ req[r].goal \in Goals \ {"QUEUED", "DELIVERED"}
         /\ req[r].exec \in Requests \cup {NoExec}
  BY DEF TypeOK, RequestState, Idle

LEMMA GoalValues ==
  Goals = {"QUEUED", "DELIVERED", "ACKNOWLEDGED", "RUNNING", "COMPLETED",
           "FAILED", "CANCELLED"}
  BY DEF Goals, Event

-----------------------------------------------------------------------------
(* Type correctness.                                                       *)

LEMMA CommitType ==
  ASSUME TypeOK, NEW r \in Requests, NEW t \in Tasks, NEW goal \in Goals,
         NEW e \in Requests \cup {NoExec}, Commit(r, t, goal, e)
  PROVE  /\ status' \in [Tasks -> {"NONE"} \cup Goals]
         /\ createdAt' \in [Tasks -> Nat]
         /\ audit' \subseteq [req : Requests, task : Tasks,
                              event : {Event[g] : g \in Goals}]
         /\ req' \in [Requests -> RequestState]
  <1>1. Answer("ok", t, goal, e) \in RequestState
    BY DEF Answer, RequestState
  <1>2. [req |-> r, task |-> t, event |-> Event[goal]]
          \in [req : Requests, task : Tasks, event : {Event[g] : g \in Goals}]
    OBVIOUS
  <1>3. QED
    BY <1>1, <1>2 DEF Commit, Become, TypeOK

LEMMA SetExecutionType ==
  ASSUME TypeOK, NEW e, NEW t \in Tasks, NEW goal \in Goals,
         SetExecution(e, t, goal)
  PROVE  execution' \in [Requests -> {NoRow} \cup ExecRow]
  <1>1. CASE Matches(e, t)
    <2>1. execution[e] \in ExecRow
      BY <1>1, ConstantsAssumption DEF Matches, TypeOK, NoRow
    <2>2. [execution[e] EXCEPT !.status = goal] \in ExecRow
      BY <2>1 DEF ExecRow
    <2>3. execution' = [execution EXCEPT ![e] = [execution[e] EXCEPT !.status = goal]]
      BY <1>1 DEF SetExecution
    <2>4. QED
      BY <2>2, <2>3 DEF TypeOK
  <1>2. CASE ~Matches(e, t)
    BY <1>2 DEF SetExecution, TypeOK
  <1>3. QED
    BY <1>1, <1>2

LEMMA TypeInit == Init => TypeOK
  BY DEF Init, TypeOK, RequestState

LEMMA ReadType ==
  ASSUME TypeOK, NEW r \in Requests, NEW t \in Tasks,
         NEW goal \in Goals \ {"QUEUED", "DELIVERED"}, NEW done,
         NEW e \in Requests \cup {NoExec}, NEW findings \in Kinds,
         Read(r, t, goal, done, e, findings)
  PROVE  TypeOK'
  <1>1. PICK state \in RequestState : req' = [req EXCEPT ![r] = state]
    <2>1. /\ Answer("noop", t, goal, e) \in RequestState
          /\ [pc |-> "refused"] \in RequestState
          /\ [pc |-> "write", task |-> t, goal |-> goal, exec |-> e,
              findings |-> findings] \in RequestState
      BY DEF Answer, RequestState
    <2>2. QED
      BY <2>1 DEF Read, Become
  <1>2. QED
    BY <1>1 DEF Read, TypeOK

LEMMA TypeStep == TypeOK /\ [Next]_vars => TypeOK'
  <1> SUFFICES ASSUME TypeOK, [Next]_vars
               PROVE  TypeOK'
    OBVIOUS
  <1>1. CASE UNCHANGED vars
    BY <1>1 DEF TypeOK, vars
  <1>2. ASSUME NEW r \in Requests, NEW t \in Tasks, CreateInsert(r, t)
        PROVE  TypeOK'
    <2>1. [pc |-> "insert", task |-> t] \in RequestState
      BY DEF RequestState
    <2>2. req' \in [Requests -> RequestState]
      BY <1>2, <2>1 DEF CreateInsert, Become, TypeOK
    <2>3. Cardinality({u \in Tasks : createdAt[u] > 0}) \in Nat
      BY ConstantsAssumption, FS_Subset, FS_CardinalityType
    <2>4. QED
      BY <1>2, <2>2, <2>3 DEF CreateInsert, TypeOK
  <1>3. ASSUME NEW r \in Requests, CreateCommit(r)
        PROVE  TypeOK'
    BY <1>3, InsertFields, GoalValues, CommitType DEF CreateCommit, TypeOK
  <1>4. ASSUME NEW r \in Requests, NEW d \in Devices, ClaimSelect(r, d)
        PROVE  TypeOK'
    <2>1. ASSUME NEW t \in Queued(d)
          PROVE  [pc |-> "claim", task |-> t, seen |-> Queued(d)] \in RequestState
      BY DEF RequestState, Queued
    <2>2. [pc |-> "refused"] \in RequestState
      BY DEF RequestState
    <2>3. QED
      BY <1>4, <2>1, <2>2 DEF ClaimSelect, Become, TypeOK
  <1>5. ASSUME NEW r \in Requests, ClaimUpdate(r)
        PROVE  TypeOK'
    <2> DEFINE t == req[r].task
    <2>1. t \in Tasks
      BY <1>5, ClaimFields DEF ClaimUpdate
    <2>2. CASE StillQueued(t)
      <3>1. Commit(r, t, "DELIVERED", r)
        BY <1>5, <2>2 DEF ClaimUpdate
      <3>2. [task |-> t, status |-> "DELIVERED"] \in ExecRow
        BY <2>1, GoalValues DEF ExecRow
      <3>3. execution' \in [Requests -> {NoRow} \cup ExecRow]
        BY <1>5, <2>2, <3>2 DEF ClaimUpdate, TypeOK
      <3>4. QED
        BY <2>1, <3>1, <3>3, GoalValues, CommitType DEF TypeOK
    <2>3. CASE ~StillQueued(t)
      <3>1. [pc |-> "refused"] \in RequestState
        BY DEF RequestState
      <3>2. QED
        BY <1>5, <2>3, <3>1 DEF ClaimUpdate, Become, TypeOK
    <2>4. QED
      BY <2>2, <2>3
  <1>6. ASSUME NEW r \in Requests, NEW t \in Tasks,
               NEW e \in Requests \cup {NoExec},
               \/ AcknowledgeRead(r, t, e)
               \/ StartRead(r, t, e)
               \/ CancelRead(r, t)
               \/ \E result \in Results, findings \in Findings(t) :
                    SubmitRead(r, t, e, result, findings)
        PROVE  TypeOK'
    <2>1. "empty" \in Kinds /\ Findings(t) \subseteq Kinds
      BY ConstantsAssumption DEF Findings, Kinds
    <2>2. QED
      BY <1>6, <2>1, GoalValues, ReadType
      DEF AcknowledgeRead, StartRead, CancelRead, SubmitRead, Results
  <1>7. ASSUME NEW r \in Requests,
               \/ ProgressCommit(r) \/ SubmitCommit(r)
               \/ SubmitIngest(r) \/ CancelCommit(r)
        PROVE  TypeOK'
    <2>1. req[r].pc = "write"
      BY <1>7 DEF ProgressCommit, SubmitCommit, SubmitIngest, CancelCommit, Writing
    <2>2. PICK e \in Requests \cup {NoExec} : Commit(r, req[r].task, req[r].goal, e)
      BY <1>7, <2>1, WriteFields
      DEF ProgressCommit, SubmitCommit, SubmitIngest, CancelCommit, Writing
    <2>3. execution' \in [Requests -> {NoRow} \cup ExecRow]
      BY <1>7, <2>1, WriteFields, SetExecutionType
      DEF ProgressCommit, SubmitCommit, SubmitIngest, CancelCommit, TypeOK
    <2>4. QED
      BY <2>1, <2>2, <2>3, WriteFields, CommitType DEF TypeOK
  <1>8. ASSUME NEW r \in Requests, SubmitRollback(r)
        PROVE  TypeOK'
    <2>1. [pc |-> "refused"] \in RequestState
      BY DEF RequestState
    <2>2. QED
      BY <1>8, <2>1 DEF SubmitRollback, Become, TypeOK
  <1>9. ASSUME NEW r \in Requests, SubmitDropped(r)
        PROVE  TypeOK'
    <2>1. req[r].pc = "write" /\ "COMPLETED" \in Goals
      BY <1>9, GoalValues DEF SubmitDropped, Writing
    <2>2. Answer("ok", req[r].task, "COMPLETED", req[r].exec) \in RequestState
      BY <2>1, WriteFields DEF Answer, RequestState
    <2>3. QED
      BY <1>9, <2>2 DEF SubmitDropped, Become, TypeOK
  <1>10. QED
    BY <1>1, <1>2, <1>3, <1>4, <1>5, <1>6, <1>7, <1>8, <1>9
    DEF Next, UserStep, PollStep, AgentStep

\* Every reachable state of the task engine is of its types.
THEOREM TypeCorrect == Spec => []TypeOK
  BY TypeInit, TypeStep, PTL DEF Spec

-----------------------------------------------------------------------------
(* The invariant behind SingleExecution and AuditMatchesStatus.  A row     *)
(* that is inserted but not committed is invisible, and inserted by one    *)
(* request; the task of an execution row has left the queue.               *)

InsertOnce ==
  /\ \A t \in Tasks : status[t] # "NONE" => createdAt[t] # 0
  /\ \A r \in Requests : req[r].pc = "insert" =>
       createdAt[req[r].task] # 0 /\ status[req[r].task] = "NONE"
  /\ \A r, q \in Requests :
       /\ req[r].pc = "insert"
       /\ req[q].pc = "insert"
       /\ req[r].task = req[q].task
       => r = q

ClaimedLeftQueue ==
  \A e \in Requests :
    execution[e] # NoRow => status[execution[e].task] \notin {"NONE", "QUEUED"}

WriteVisible ==
  \A r \in Requests : req[r].pc = "write" => status[req[r].task] # "NONE"

IInv ==
  /\ TypeOK
  /\ InsertOnce
  /\ ClaimedLeftQueue
  /\ WriteVisible
  /\ SingleExecution
  /\ AuditMatchesStatus

LEMMA RowTask ==
  ASSUME TypeOK, NEW e \in Requests, execution[e] # NoRow
  PROVE  execution[e].task \in Tasks
  BY DEF TypeOK, ExecRow

\* Updating the status of an execution row changes no row's task.
LEMMA SetExecutionKeepsTasks ==
  ASSUME TypeOK, NEW e, NEW t \in Tasks, NEW goal \in Goals,
         SetExecution(e, t, goal), NEW f \in Requests
  PROVE  /\ execution'[f].task = execution[f].task
         /\ execution'[f] = NoRow <=> execution[f] = NoRow
  <1>1. CASE Matches(e, t)
    <2>1. execution[e] \in ExecRow
      BY <1>1, ConstantsAssumption DEF Matches, TypeOK, NoRow
    <2>2. execution' = [execution EXCEPT ![e] = [execution[e] EXCEPT !.status = goal]]
      BY <1>1 DEF SetExecution
    <2>3. [execution[e] EXCEPT !.status = goal].task = execution[e].task
      BY <2>1 DEF ExecRow
    <2>4. NoRow.task \notin Tasks /\ execution[e].task \in Tasks
      BY <2>1, ConstantsAssumption DEF NoRow, ExecRow
    <2>5. [execution[e] EXCEPT !.status = goal] # NoRow /\ execution[e] # NoRow
      BY <2>3, <2>4
    <2>6. QED
      BY <2>2, <2>3, <2>5 DEF TypeOK
  <1>2. CASE ~Matches(e, t)
    BY <1>2 DEF SetExecution
  <1>3. QED
    BY <1>1, <1>2

\* A step that only moves a request on, and not into an insert.
LEMMA QuietStep ==
  ASSUME IInv, TypeOK', NEW r \in Requests, NEW state, state.pc # "insert",
         state.pc = "write" => status[state.task] # "NONE",
         Become(r, state), UNCHANGED <<status, createdAt, execution, audit>>
  PROVE  IInv'
  <1>1. \A q \in Requests : req'[q].pc = "insert" =>
          req[q].pc = "insert" /\ req'[q] = req[q]
    BY DEF Become, IInv, TypeOK
  <1>2. InsertOnce'
    BY <1>1 DEF IInv, InsertOnce
  <1>3. WriteVisible'
    <2>1. \A q \in Requests : req'[q] = IF q = r THEN state ELSE req[q]
      BY DEF Become, IInv, TypeOK
    <2>2. QED
      BY <2>1 DEF IInv, WriteVisible
  <1>4. QED
    BY <1>2, <1>3 DEF IInv, ClaimedLeftQueue, SingleExecution, AuditMatchesStatus

\* A commit leaves its event in the audit log.
LEMMA CommitAudited ==
  ASSUME IInv, NEW r \in Requests, NEW t \in Tasks, NEW goal \in Goals, NEW e,
         Commit(r, t, goal, e)
  PROVE  AuditMatchesStatus'
  <1> SUFFICES ASSUME NEW u \in Tasks, status'[u] # "NONE"
               PROVE  \E a \in audit' : a.task = u /\ a.event = Event[status'[u]]
    BY DEF AuditMatchesStatus
  <1> DEFINE entry == [req |-> r, task |-> t, event |-> Event[goal]]
  <1>1. CASE u = t
    <2>1. entry \in audit' /\ entry.task = u /\ status'[u] = goal
      BY <1>1 DEF Commit, IInv, TypeOK
    <2>2. QED
      BY <2>1
  <1>2. CASE u # t
    <2>1. status'[u] = status[u] /\ audit \subseteq audit'
      BY <1>2 DEF Commit, IInv, TypeOK
    <2>2. QED
      BY <2>1 DEF IInv, AuditMatchesStatus
  <1>3. QED
    BY <1>1, <1>2

\* A commit makes its task visible and hides none.
LEMMA CommitVisible ==
  ASSUME IInv, NEW r \in Requests, NEW t \in Tasks, NEW goal \in Goals, NEW e,
         Commit(r, t, goal, e)
  PROVE  WriteVisible'
  <1>1. "NONE" \notin Goals
    BY GoalValues
  <1>2. \A q \in Requests : req'[q].pc = "write" => q # r /\ req'[q] = req[q]
    BY DEF Commit, Become, Answer, IInv, TypeOK
  <1>3. \A u \in Tasks : status'[u] = IF u = t THEN goal ELSE status[u]
    BY DEF Commit, IInv, TypeOK
  <1>4. ASSUME NEW q \in Requests, req'[q].pc = "write"
        PROVE  status'[req'[q].task] # "NONE"
    <2>1. req[q].pc = "write" /\ req'[q] = req[q]
      BY <1>2, <1>4
    <2>2. req[q].task \in Tasks /\ status[req[q].task] # "NONE"
      BY <2>1, WriteFields DEF IInv, WriteVisible
    <2>3. QED
      BY <1>1, <1>3, <2>1, <2>2
  <1>5. QED
    BY <1>4 DEF WriteVisible

\* A commit of a handler that found its task neither creates nor queues it.
LEMMA WriteStep ==
  ASSUME IInv, TypeOK', NEW r \in Requests, req[r].pc = "write",
         NEW e, Commit(r, req[r].task, req[r].goal, e),
         \A f \in Requests : /\ execution'[f].task = execution[f].task
                             /\ execution'[f] = NoRow <=> execution[f] = NoRow
  PROVE  IInv'
  <1> DEFINE t == req[r].task
  <1>1. t \in Tasks /\ req[r].goal \in Goals \ {"QUEUED", "DELIVERED"}
    BY WriteFields DEF IInv
  <1>2. req[r].goal \notin {"NONE", "QUEUED"}
    BY <1>1, GoalValues
  <1>3. /\ status' = [status EXCEPT ![t] = req[r].goal]
        /\ createdAt' = createdAt
        /\ \A q \in Requests : req'[q].pc = "insert" =>
             req[q].pc = "insert" /\ req'[q] = req[q]
    BY DEF Commit, Become, Answer, IInv, TypeOK
  <1>4. InsertOnce'
    <2>1. status[t] # "NONE"
      BY DEF IInv, WriteVisible
    <2>2. QED
      BY <1>1, <1>3, <2>1 DEF IInv, TypeOK, InsertOnce
  <1>5. ClaimedLeftQueue'
    BY <1>1, <1>2, <1>3, RowTask DEF IInv, TypeOK, ClaimedLeftQueue
  <1>6. SingleExecution'
    BY DEF IInv, SingleExecution
  <1>7. AuditMatchesStatus'
    BY <1>1, CommitAudited
  <1>8. WriteVisible'
    BY <1>1, CommitVisible
  <1>9. QED
    BY <1>4, <1>5, <1>6, <1>7, <1>8 DEF IInv

LEMMA CreateInsertStep ==
  ASSUME IInv, TypeOK', NEW r \in Requests, NEW t \in Tasks, CreateInsert(r, t)
  PROVE  IInv'
  <1>1. /\ \A q \in Requests :
              req'[q] = IF q = r THEN [pc |-> "insert", task |-> t] ELSE req[q]
        /\ createdAt[t] = 0
        /\ UNCHANGED <<status, execution, audit>>
    BY DEF CreateInsert, Become, IInv, TypeOK
  <1>2. Cardinality({u \in Tasks : createdAt[u] > 0}) \in Nat
    BY ConstantsAssumption, FS_Subset, FS_CardinalityType
  <1>3. /\ createdAt'[t] # 0
        /\ \A u \in Tasks : u # t => createdAt'[u] = createdAt[u]
    BY <1>2 DEF CreateInsert, IInv, TypeOK
  <1>4. status[t] = "NONE"
    BY <1>1 DEF IInv, InsertOnce
  <1>5. \A q \in Requests : req[q].pc = "insert" =>
          req[q].task # t /\ req[q].task \in Tasks
    BY <1>1, InsertFields DEF IInv, InsertOnce
  <1>6. InsertOnce'
    <2>1. \A u \in Tasks : status'[u] # "NONE" => createdAt'[u] # 0
      BY <1>1, <1>3 DEF IInv, InsertOnce
    <2>2. \A q \in Requests : req'[q].pc = "insert" =>
            createdAt'[req'[q].task] # 0 /\ status'[req'[q].task] = "NONE"
      BY <1>1, <1>3, <1>4, <1>5 DEF IInv, InsertOnce
    <2>3. \A p, q \in Requests :
            /\ req'[p].pc = "insert"
            /\ req'[q].pc = "insert"
            /\ req'[p].task = req'[q].task
            => p = q
      BY <1>1, <1>5 DEF IInv, InsertOnce
    <2>4. QED
      BY <2>1, <2>2, <2>3 DEF InsertOnce
  <1>7. WriteVisible'
    BY <1>1 DEF IInv, WriteVisible
  <1>8. QED
    BY <1>1, <1>6, <1>7
    DEF IInv, ClaimedLeftQueue, SingleExecution, AuditMatchesStatus

LEMMA CreateCommitStep ==
  ASSUME IInv, TypeOK', NEW r \in Requests, CreateCommit(r)
  PROVE  IInv'
  <1> DEFINE t == req[r].task
  <1>1. /\ req[r].pc = "insert" /\ t \in Tasks
        /\ status[t] = "NONE" /\ createdAt[t] # 0
    BY InsertFields DEF CreateCommit, IInv, InsertOnce
  <1>2. /\ Commit(r, t, "QUEUED", NoExec)
        /\ UNCHANGED <<createdAt, execution>>
        /\ status' = [status EXCEPT ![t] = "QUEUED"]
    BY DEF CreateCommit, Commit
  <1>3. \A q \in Requests : req'[q].pc = "insert" =>
          q # r /\ req[q].pc = "insert" /\ req'[q] = req[q]
    BY <1>2 DEF Commit, Become, Answer, IInv, TypeOK
  <1>4. \A q \in Requests : req'[q].pc = "insert" =>
          req[q].task # t /\ req[q].task \in Tasks
    BY <1>1, <1>3, InsertFields DEF IInv, InsertOnce
  <1>5. InsertOnce'
    BY <1>1, <1>2, <1>3, <1>4 DEF IInv, TypeOK, InsertOnce
  <1>6. \A e \in Requests : execution[e] # NoRow =>
          execution[e].task # t /\ execution[e].task \in Tasks
    BY <1>1, RowTask DEF IInv, ClaimedLeftQueue
  <1>7. ClaimedLeftQueue'
    BY <1>2, <1>6 DEF IInv, TypeOK, ClaimedLeftQueue
  <1>8. SingleExecution'
    BY <1>2 DEF IInv, SingleExecution
  <1>9. AuditMatchesStatus' /\ WriteVisible'
    BY <1>1, <1>2, GoalValues, CommitAudited, CommitVisible
  <1>10. QED
    BY <1>5, <1>7, <1>8, <1>9 DEF IInv

\* The winning claim: the task was in the queue, so it has no row yet.
LEMMA ClaimStep ==
  ASSUME IInv, TypeOK', NEW r \in Requests, ClaimUpdate(r),
         StillQueued(req[r].task)
  PROVE  IInv'
  <1> DEFINE t == req[r].task
  <1> DEFINE row == [task |-> t, status |-> "DELIVERED"]
  <1>1. t \in Tasks /\ status[t] = "QUEUED"
    BY ClaimFields DEF ClaimUpdate, StillQueued, IInv
  <1>2. /\ Commit(r, t, "DELIVERED", r)
        /\ status' = [status EXCEPT ![t] = "DELIVERED"]
        /\ createdAt' = createdAt
        /\ \A e \in Requests : execution'[e] = IF e = r THEN row ELSE execution[e]
    BY DEF ClaimUpdate, Commit, IInv, TypeOK
  <1>3. \A q \in Requests : req'[q].pc = "insert" =>
          req[q].pc = "insert" /\ req'[q] = req[q]
    BY <1>2 DEF Commit, Become, Answer, IInv, TypeOK
  <1>4. InsertOnce'
    BY <1>1, <1>2, <1>3 DEF IInv, TypeOK, InsertOnce
  <1>5. \A e \in Requests : execution[e] # NoRow =>
          execution[e].task # t /\ execution[e].task \in Tasks
    BY <1>1, RowTask DEF IInv, ClaimedLeftQueue
  <1>6. ClaimedLeftQueue'
    BY <1>1, <1>2, <1>5 DEF IInv, TypeOK, ClaimedLeftQueue
  <1>7. SingleExecution'
    <2>1. NoRow.task \notin Tasks
      BY ConstantsAssumption DEF NoRow
    <2>2. \A e \in Requests : execution[e].task # t
      BY <1>1, <1>5, <2>1
    <2>3. QED
      BY <1>2, <2>1, <2>2 DEF IInv, SingleExecution
  <1>8. AuditMatchesStatus' /\ WriteVisible'
    BY <1>1, <1>2, GoalValues, CommitAudited, CommitVisible
  <1>9. QED
    BY <1>4, <1>6, <1>7, <1>8 DEF IInv

LEMMA IInvInit == Init => IInv
  <1> SUFFICES ASSUME Init PROVE IInv
    OBVIOUS
  <1>1. TypeOK
    BY TypeInit
  <1>2. InsertOnce /\ WriteVisible
    BY DEF Init, Idle, InsertOnce, WriteVisible
  <1>3. ClaimedLeftQueue /\ SingleExecution /\ AuditMatchesStatus
    BY DEF Init, ClaimedLeftQueue, SingleExecution, AuditMatchesStatus
  <1>4. QED
    BY <1>1, <1>2, <1>3 DEF IInv

LEMMA IInvStep == IInv /\ [Next]_vars => IInv'
  <1> SUFFICES ASSUME IInv, [Next]_vars
               PROVE  IInv'
    OBVIOUS
  <1>0. TypeOK'
    BY TypeStep DEF IInv
  <1>1. CASE UNCHANGED vars
    BY <1>0, <1>1
    DEF vars, IInv, InsertOnce, ClaimedLeftQueue, WriteVisible,
        SingleExecution, AuditMatchesStatus
  <1>2. ASSUME NEW r \in Requests, NEW t \in Tasks, CreateInsert(r, t)
        PROVE  IInv'
    BY <1>0, <1>2, CreateInsertStep
  <1>3. ASSUME NEW r \in Requests, CreateCommit(r)
        PROVE  IInv'
    BY <1>0, <1>3, CreateCommitStep
  <1>4. ASSUME NEW r \in Requests, NEW d \in Devices, ClaimSelect(r, d)
        PROVE  IInv'
    <2>1. PICK state : Become(r, state) /\ state.pc \notin {"insert", "write"}
      <3>1. [pc |-> "refused"].pc = "refused"
        OBVIOUS
      <3>2. \A t : [pc |-> "claim", task |-> t, seen |-> Queued(d)].pc = "claim"
        OBVIOUS
      <3>3. QED
        BY <1>4, <3>1, <3>2, Zenon DEF ClaimSelect
    <2>2. QED
      BY <1>0, <1>4, <2>1, QuietStep DEF ClaimSelect
  <1>5. ASSUME NEW r \in Requests, ClaimUpdate(r)
        PROVE  IInv'
    <2>1. CASE StillQueued(req[r].task)
      BY <1>0, <1>5, <2>1, ClaimStep
    <2>2. CASE ~StillQueued(req[r].task)
      <3>1. /\ Become(r, [pc |-> "refused"])
            /\ UNCHANGED <<status, createdAt, execution, audit>>
        BY <1>5, <2>2 DEF ClaimUpdate
      <3>2. QED
        BY <1>0, <3>1, QuietStep
    <2>3. QED
      BY <2>1, <2>2
  <1>6. ASSUME NEW r \in Requests, NEW t \in Tasks, NEW goal, NEW done, NEW e,
               NEW findings, Read(r, t, goal, done, e, findings)
        PROVE  IInv'
    <2>1. status[t] # "NONE"
      BY <1>6 DEF Read
    <2>2. PICK state : /\ Become(r, state)
                       /\ state.pc # "insert"
                       /\ state.pc = "write" => state.task = t
      BY <1>6 DEF Read, Answer
    <2>3. QED
      BY <1>0, <1>6, <2>1, <2>2, QuietStep DEF Read
  <1>7. ASSUME NEW r \in Requests,
               \/ ProgressCommit(r) \/ SubmitCommit(r)
               \/ SubmitIngest(r) \/ CancelCommit(r)
        PROVE  IInv'
    <2>1. req[r].pc = "write"
      BY <1>7 DEF ProgressCommit, SubmitCommit, SubmitIngest, CancelCommit, Writing
    <2>2. req[r].task \in Tasks /\ req[r].goal \in Goals
      BY <2>1, WriteFields DEF IInv
    <2>3. PICK e : Commit(r, req[r].task, req[r].goal, e)
      BY <1>7, <2>1
      DEF ProgressCommit, SubmitCommit, SubmitIngest, CancelCommit, Writing
    <2>4. \/ SetExecution(req[r].exec, req[r].task, req[r].goal)
          \/ UNCHANGED execution
      BY <1>7 DEF ProgressCommit, SubmitCommit, SubmitIngest, CancelCommit
    <2>5. \A f \in Requests : /\ execution'[f].task = execution[f].task
                              /\ execution'[f] = NoRow <=> execution[f] = NoRow
      BY <2>2, <2>4, SetExecutionKeepsTasks DEF IInv
    <2>6. QED
      BY <1>0, <2>1, <2>3, <2>5, WriteStep
  <1>8. ASSUME NEW r \in Requests, SubmitRollback(r)
        PROVE  IInv'
    BY <1>0, <1>8, QuietStep DEF SubmitRollback
  <1>9. ASSUME NEW r \in Requests, SubmitDropped(r)
        PROVE  IInv'
    BY <1>0, <1>9, QuietStep DEF SubmitDropped, Answer
  <1>10. QED
    BY <1>1, <1>2, <1>3, <1>4, <1>5, <1>6, <1>7, <1>8, <1>9
    DEF Next, UserStep, PollStep, AgentStep, AcknowledgeRead, StartRead,
        SubmitRead, CancelRead

LEMMA Invariant == Spec => []IInv
  BY IInvInit, IInvStep, PTL DEF Spec

\* No interleaving of polls, cancellations and stale writes hands a task out
\* twice, whatever the numbers of tasks, devices and requests.
THEOREM ClaimedAtMostOnce == Spec => []SingleExecution
  <1>1. IInv => SingleExecution
    BY DEF IInv
  <1>2. QED
    BY <1>1, Invariant, PTL

\* The status of every task has its event in the audit log.
THEOREM AuditComplete == Spec => []AuditMatchesStatus
  <1>1. IInv => AuditMatchesStatus
    BY DEF IInv
  <1>2. QED
    BY <1>1, Invariant, PTL

LEMMA NoHolderLater ==
  ASSUME IInv, [Next]_vars, NEW t \in Tasks,
         status[t] \notin {"NONE", "QUEUED"}, Holders(t) = {}
  PROVE  Holders(t)' = {}
  <1>0. \A e \in Requests : execution[e].task # t
    BY DEF Holders
  <1>1. CASE UNCHANGED execution
    BY <1>0, <1>1 DEF Holders
  <1>2. ASSUME NEW r \in Requests, ClaimUpdate(r)
        PROVE  Holders(t)' = {}
    <2>1. CASE StillQueued(req[r].task)
      <3>1. req[r].task # t
        BY <2>1 DEF StillQueued
      <3>2. execution' = [execution EXCEPT
                            ![r] = [task |-> req[r].task, status |-> "DELIVERED"]]
        BY <1>2, <2>1 DEF ClaimUpdate
      <3>3. \A e \in Requests : execution'[e].task # t
        BY <1>0, <3>1, <3>2 DEF IInv, TypeOK
      <3>4. QED
        BY <3>3 DEF Holders
    <2>2. CASE ~StillQueued(req[r].task)
      BY <1>1, <1>2, <2>2 DEF ClaimUpdate
    <2>3. QED
      BY <2>1, <2>2
  <1>3. ASSUME NEW r \in Requests, ProgressCommit(r) \/ SubmitCommit(r)
        PROVE  Holders(t)' = {}
    <2>1. req[r].pc = "write"
      BY <1>3 DEF ProgressCommit, SubmitCommit, Writing
    <2>2. \A e \in Requests : execution'[e].task = execution[e].task
      BY <1>3, <2>1, WriteFields, SetExecutionKeepsTasks
      DEF ProgressCommit, SubmitCommit, IInv
    <2>3. QED
      BY <1>0, <2>2 DEF Holders
  <1>4. ASSUME NEW r \in Requests, UserStep(r)
        PROVE  UNCHANGED execution
    BY <1>4 DEF UserStep, CreateInsert, CancelRead, Read, CreateCommit, CancelCommit
  <1>5. ASSUME NEW r \in Requests, PollStep(r), ~ClaimUpdate(r)
        PROVE  UNCHANGED execution
    BY <1>5 DEF PollStep, ClaimSelect
  <1>6. ASSUME NEW r \in Requests, AgentStep(r),
               ~(ProgressCommit(r) \/ SubmitCommit(r))
        PROVE  UNCHANGED execution
    BY <1>6
    DEF AgentStep, AcknowledgeRead, StartRead, SubmitRead, Read, SubmitIngest,
        SubmitRollback, SubmitDropped
  <1>7. QED
    BY <1>1, <1>2, <1>3, <1>4, <1>5, <1>6 DEF Next, vars

\* A task that left the queue unclaimed is never handed out.
THEOREM LeftQueueForGood == Spec => NeverClaimedLater
  <1>1. IInv /\ [Next]_vars =>
          [\A t \in Tasks :
             status[t] \notin {"NONE", "QUEUED"} /\ Holders(t) = {}
               => Holders(t)' = {}]_vars
    BY NoHolderLater
  <1>2. QED
    BY <1>1, Invariant, PTL DEF Spec, NeverClaimedLater

-----------------------------------------------------------------------------
(* What a poll is about to claim.                                          *)

\* The database orders the priorities as they are declared, as a native enum does.
DeclaredCollation ==
  \A p, q \in Priorities : Urgency[p] < Urgency[q] => Collation[p] < Collation[q]

\* A candidate precedes, or ties with, all that were queued when it was selected,
\* and those have their times.
ClaimChoice ==
  \A r \in Requests : req[r].pc = "claim" =>
    /\ req[r].task \in req[r].seen
    /\ \A u \in req[r].seen :
         createdAt[u] # 0 /\ (u # req[r].task => ~Precedes(u, req[r].task))

LEMMA SeenTasks ==
  ASSUME TypeOK, NEW r \in Requests, req[r].pc = "claim"
  PROVE  req[r].seen \subseteq Tasks
  BY DEF TypeOK, RequestState, Idle

\* The time of a row is stamped once.
LEMMA TimesStay ==
  ASSUME TypeOK, [Next]_vars, NEW t \in Tasks, createdAt[t] # 0
  PROVE  createdAt'[t] = createdAt[t]
  <1>1. CASE UNCHANGED createdAt
    BY <1>1
  <1>2. ASSUME NEW r \in Requests, NEW u \in Tasks, CreateInsert(r, u)
        PROVE  createdAt'[t] = createdAt[t]
    BY <1>2 DEF CreateInsert, TypeOK
  <1>3. ASSUME NEW r \in Requests, UserStep(r), \A u \in Tasks : ~CreateInsert(r, u)
        PROVE  UNCHANGED createdAt
    BY <1>3 DEF UserStep, CancelRead, Read, CreateCommit, CancelCommit, Commit
  <1>4. ASSUME NEW r \in Requests, PollStep(r)
        PROVE  UNCHANGED createdAt
    BY <1>4 DEF PollStep, ClaimSelect, ClaimUpdate, Commit
  <1>5. ASSUME NEW r \in Requests, AgentStep(r)
        PROVE  UNCHANGED createdAt
    BY <1>5 DEF AgentStep, AcknowledgeRead, StartRead, SubmitRead, Read, ProgressCommit,
       SubmitCommit, SubmitIngest, SubmitRollback, SubmitDropped, Commit
  <1>6. QED
    BY <1>1, <1>2, <1>3, <1>4, <1>5 DEF Next, vars

\* Only the SELECT of a poll makes a candidate.
LEMMA CandidatesStay ==
  ASSUME TypeOK, [Next]_vars, NEW q \in Requests, req'[q].pc = "claim"
  PROVE  req'[q] = req[q] \/ \E d \in Devices : ClaimSelect(q, d)
  <1>1. ASSUME NEW r \in Requests, NEW state, Become(r, state), state.pc # "claim"
        PROVE  req'[q] = req[q]
    BY <1>1 DEF Become, TypeOK
  <1>2. ASSUME NEW r \in Requests, NEW t, NEW goal, NEW done, NEW e, NEW findings,
               Read(r, t, goal, done, e, findings)
        PROVE  req'[q] = req[q]
    <2>1. CASE status[t] \in done
      BY <1>1, <1>2, <2>1 DEF Read, Answer
    <2>2. CASE status[t] \notin done /\ validate_state_transition(status[t], goal)
      BY <1>1, <1>2, <2>2 DEF Read
    <2>3. CASE status[t] \notin done /\ ~validate_state_transition(status[t], goal)
      BY <1>1, <1>2, <2>3 DEF Read
    <2>4. QED
      BY <2>1, <2>2, <2>3
  <1>3. ASSUME NEW r \in Requests, NEW t, NEW goal, NEW e, Commit(r, t, goal, e)
        PROVE  req'[q] = req[q]
    BY <1>1, <1>3 DEF Commit, Answer
  <1>4. CASE UNCHANGED vars
    BY <1>4 DEF vars
  <1>5. ASSUME NEW r \in Requests, UserStep(r)
        PROVE  req'[q] = req[q]
    <2>1. CASE \E t \in Tasks : CreateInsert(r, t)
      BY <1>1, <2>1 DEF CreateInsert
    <2>2. CASE \E t \in Tasks : CancelRead(r, t)
      BY <1>2, <2>2 DEF CancelRead
    <2>3. CASE CreateCommit(r) \/ CancelCommit(r)
      BY <1>3, <2>3 DEF CreateCommit, CancelCommit
    <2>4. QED
      BY <1>5, <2>1, <2>2, <2>3 DEF UserStep
  <1>6. ASSUME NEW r \in Requests, PollStep(r)
        PROVE  req'[q] = req[q] \/ \E d \in Devices : ClaimSelect(q, d)
    <2>1. CASE ClaimUpdate(r)
      BY <1>1, <1>3, <2>1 DEF ClaimUpdate
    <2>2. ASSUME NEW d \in Devices, ClaimSelect(r, d)
          PROVE  req'[q] = req[q] \/ ClaimSelect(q, d)
      <3>1. CASE q = r
        BY <2>2, <3>1
      <3>2. CASE q # r
        BY <2>2, <3>2 DEF ClaimSelect, Become, TypeOK
      <3>3. QED
        BY <3>1, <3>2
    <2>3. QED
      BY <1>6, <2>1, <2>2 DEF PollStep
  <1>7. ASSUME NEW r \in Requests, AgentStep(r)
        PROVE  req'[q] = req[q]
    <2>1. CASE \E t \in Tasks, e \in {f \in Requests : execution[f] # NoRow} \cup {NoExec} :
                 \/ AcknowledgeRead(r, t, e)
                 \/ StartRead(r, t, e)
                 \/ \E result \in Results, findings \in Findings(t) :
                      SubmitRead(r, t, e, result, findings)
      BY <1>2, <2>1 DEF AcknowledgeRead, StartRead, SubmitRead
    <2>2. CASE ProgressCommit(r) \/ SubmitCommit(r) \/ SubmitIngest(r)
      BY <1>3, <2>2 DEF ProgressCommit, SubmitCommit, SubmitIngest
    <2>3. CASE SubmitRollback(r) \/ SubmitDropped(r)
      BY <1>1, <2>3 DEF SubmitRollback, SubmitDropped, Answer
    <2>4. QED
      BY <1>7, <2>1, <2>2, <2>3 DEF AgentStep
  <1>8. QED
    BY <1>4, <1>5, <1>6, <1>7 DEF Next

LEMMA ChoiceStep == IInv /\ ClaimChoice /\ [Next]_vars => ClaimChoice'
  <1> SUFFICES ASSUME IInv, ClaimChoice, [Next]_vars,
                      NEW r \in Requests, req'[r].pc = "claim"
               PROVE  /\ req'[r].task \in req'[r].seen
                      /\ \A u \in req'[r].seen :
                           /\ createdAt'[u] # 0
                           /\ u # req'[r].task =>
                                ~ (\/ Collation[PriorityOf[u]] > Collation[PriorityOf[req'[r].task]]
                                   \/ /\ Collation[PriorityOf[u]]
                                           = Collation[PriorityOf[req'[r].task]]
                                      /\ createdAt'[u] < createdAt'[req'[r].task])
    BY DEF ClaimChoice, Precedes
  <1>1. TypeOK /\ InsertOnce
    BY DEF IInv
  <1>2. CASE req'[r] = req[r]
    <2>1. /\ req[r].task \in req[r].seen /\ req[r].seen \subseteq Tasks
          /\ \A u \in req[r].seen : createdAt[u] # 0
      BY <1>1, <1>2, SeenTasks DEF ClaimChoice
    <2>2. \A u \in req[r].seen : createdAt'[u] = createdAt[u]
      BY <1>1, <2>1, TimesStay
    <2>3. QED
      BY <1>2, <2>1, <2>2 DEF ClaimChoice, Precedes
  <1>3. ASSUME NEW d \in Devices, ClaimSelect(r, d)
        PROVE  /\ req'[r].task \in req'[r].seen
               /\ \A u \in req'[r].seen :
                    /\ createdAt'[u] # 0
                    /\ u # req'[r].task => ~Precedes(u, req'[r].task)
               /\ createdAt' = createdAt
    <2>1. PICK t \in Queued(d) :
            /\ \A u \in Queued(d) \ {t} : ~Precedes(u, t)
            /\ req' = [req EXCEPT ![r] = [pc |-> "claim", task |-> t, seen |-> Queued(d)]]
      BY <1>1, <1>3 DEF ClaimSelect, Become, TypeOK
    <2>2. /\ req'[r].task = t /\ req'[r].seen = Queued(d) /\ createdAt' = createdAt
      BY <1>1, <1>3, <2>1 DEF ClaimSelect, TypeOK
    <2>3. \A u \in Queued(d) : createdAt[u] # 0
      BY <1>1 DEF Queued, InsertOnce
    <2>4. QED
      BY <2>1, <2>2, <2>3
  <1>4. CASE \E d \in Devices : ClaimSelect(r, d)
    BY <1>3, <1>4 DEF Precedes
  <1>5. QED
    BY <1>1, <1>2, <1>4, CandidatesStay

\* A candidate is the most urgent that the poll saw, and among equals the oldest.
LEMMA ChoiceUrgent ==
  ASSUME DeclaredCollation, TypeOK, ClaimChoice,
         NEW r \in Requests, req[r].pc = "claim", NEW u \in req[r].seen
  PROVE  LET t == req[r].task IN
         \/ u = t
         \/ Urgency[PriorityOf[u]] < Urgency[PriorityOf[t]]
         \/ /\ Urgency[PriorityOf[u]] = Urgency[PriorityOf[t]]
            /\ createdAt[t] <= createdAt[u]
  <1>1. PICK t : t = req[r].task
    OBVIOUS
  <1>2. t \in Tasks /\ u \in Tasks
    BY <1>1, SeenTasks DEF ClaimChoice
  <1>3. PICK p, q \in Priorities : p = PriorityOf[t] /\ q = PriorityOf[u]
    BY <1>2, ConstantsAssumption
  <1>4. /\ createdAt[t] \in Nat /\ createdAt[u] \in Nat
        /\ Collation[p] \in Nat /\ Collation[q] \in Nat
    BY <1>2, <1>3, ConstantsAssumption DEF TypeOK
  <1>5. u # t => Collation[q] <= Collation[p] /\ (q = p => createdAt[t] <= createdAt[u])
    BY <1>1, <1>3, <1>4 DEF ClaimChoice, Precedes
  <1>6. /\ Urgency[p] \in Nat /\ Urgency[q] \in Nat
        /\ Urgency[p] = Urgency[q] => p = q
    BY DEF Urgency, Priorities
  <1>7. u # t => ~ (Urgency[p] < Urgency[q])
    BY <1>4, <1>5 DEF DeclaredCollation
  <1>8. QED
    BY <1>1, <1>3, <1>5, <1>6, <1>7

\* claim_next_task_for_device hands out the most urgent and oldest of what it saw,
\* where the database orders the priorities as they are declared.
THEOREM MostUrgentClaimed == ASSUME DeclaredCollation PROVE Spec => ClaimsMostUrgent
  <1>1. Init => ClaimChoice
    BY DEF Init, Idle, ClaimChoice
  <1>2. TypeOK /\ ClaimChoice /\ [Next]_vars =>
          [\A r \in Requests : req[r].pc = "claim" /\ req'[r].pc = "ok" =>
             \A u \in req[r].seen :
               LET t == req[r].task IN
               \/ u = t
               \/ Urgency[PriorityOf[u]] < Urgency[PriorityOf[t]]
               \/ /\ Urgency[PriorityOf[u]] = Urgency[PriorityOf[t]]
                  /\ createdAt[t] <= createdAt[u]]_vars
    BY ChoiceUrgent
  <1>3. IInv => TypeOK
    BY DEF IInv
  <1>4. QED
    BY <1>1, <1>2, <1>3, ChoiceStep, Invariant, PTL DEF Spec, ClaimsMostUrgent

-----------------------------------------------------------------------------
(* Answered calls are on record.                                           *)

Recorded(t, goal) ==
  \E a \in audit :
    /\ a.task = t
    /\ IF goal \in Results
       THEN a.event \in {Event[g] : g \in Results}
       ELSE a.event = Event[goal]

\* A step that leaves the log alone and answers only what is on record.
LEMMA QuietRecorded ==
  ASSUME IInv, SuccessIsRecorded, NEW r \in Requests, NEW state,
         Become(r, state), audit' = audit,
         state.pc \in {"ok", "noop"} /\ "unstorable" \notin Reports[state.task] =>
           Recorded(state.task, state.goal)
  PROVE  SuccessIsRecorded'
  <1>1. \A q \in Requests : req'[q] = IF q = r THEN state ELSE req[q]
    BY DEF Become, IInv, TypeOK
  <1>2. QED
    BY <1>1 DEF SuccessIsRecorded, Recorded

LEMMA CommitRecorded ==
  ASSUME IInv, SuccessIsRecorded, NEW r \in Requests, NEW t, NEW goal, NEW e,
         Commit(r, t, goal, e)
  PROVE  SuccessIsRecorded'
  <1> DEFINE entry == [req |-> r, task |-> t, event |-> Event[goal]]
  <1>1. /\ \A q \in Requests : req'[q] = IF q = r THEN Answer("ok", t, goal, e)
                                         ELSE req[q]
        /\ audit' = audit \cup {entry}
    BY DEF Commit, Become, IInv, TypeOK
  <1>2. entry.task = t /\ entry.event = Event[goal] /\ entry \in audit'
    BY <1>1
  <1> HIDE DEF entry
  <1>3. /\ Answer("ok", t, goal, e).task = t
        /\ Answer("ok", t, goal, e).goal = goal
    BY DEF Answer
  <1>4. ASSUME NEW q \in Requests, req'[q].pc \in {"ok", "noop"},
               "unstorable" \notin Reports[req'[q].task]
        PROVE  Recorded(req[q].task, req[q].goal)'
    <2>1. CASE q = r
      BY <1>1, <1>2, <1>3, <2>1 DEF Recorded
    <2>2. CASE q # r
      BY <1>1, <1>4, <2>2 DEF SuccessIsRecorded, Recorded
    <2>3. QED
      BY <2>1, <2>2
  <1>5. QED
    BY <1>4 DEF SuccessIsRecorded, Recorded

\* An idempotent answer of ack, start or submit finds its event in the log.
LEMMA ReadRecorded ==
  ASSUME IInv, SuccessIsRecorded, NEW r \in Requests, NEW t \in Tasks,
         NEW goal, NEW done, NEW e, NEW findings,
         Read(r, t, goal, done, e, findings),
         \/ done = {goal} /\ goal \notin Results
         \/ done = Results /\ goal \in Results
         \/ done = {}
  PROVE  SuccessIsRecorded'
  <1>1. status[t] # "NONE" /\ audit' = audit
    BY DEF Read
  <1>2. \E a \in audit : a.task = t /\ a.event = Event[status[t]]
    BY <1>1 DEF IInv, AuditMatchesStatus
  <1>3. status[t] \in done => Recorded(t, goal)
    BY <1>2 DEF Recorded, Results
  <1>4. PICK state : /\ Become(r, state)
                     /\ state.pc \in {"ok", "noop"} =>
                          status[t] \in done /\ state.task = t /\ state.goal = goal
    BY DEF Read, Answer
  <1>5. QED
    BY <1>1, <1>3, <1>4, QuietRecorded

\* The findings of a write are among those reported of its task.
FindingsReported ==
  \A r \in Requests : req[r].pc = "write" => req[r].findings \in Findings(req[r].task)

LEMMA ReportedStep ==
  ASSUME TypeOK, FindingsReported, [Next]_vars
  PROVE  FindingsReported'
  <1>1. CASE UNCHANGED req
    BY <1>1 DEF FindingsReported
  <1>2. ASSUME NEW r \in Requests, NEW state, Become(r, state),
               state.pc = "write" => state.findings \in Findings(state.task)
        PROVE  FindingsReported'
    BY <1>2 DEF Become, FindingsReported, TypeOK
  <1>3. ASSUME NEW r \in Requests, NEW t \in Tasks, NEW goal, NEW done, NEW e,
               NEW findings \in Findings(t), Read(r, t, goal, done, e, findings)
        PROVE  FindingsReported'
    BY <1>2, <1>3 DEF Read, Answer
  <1>4. ASSUME NEW r \in Requests, NEW t, NEW goal, NEW e, Commit(r, t, goal, e)
        PROVE  FindingsReported'
    BY <1>2, <1>4 DEF Commit, Answer
  <1>5. ASSUME NEW r \in Requests, UserStep(r)
        PROVE  FindingsReported'
    <2>1. ASSUME NEW t \in Tasks, CreateInsert(r, t)
          PROVE  FindingsReported'
      BY <1>2, <2>1 DEF CreateInsert
    <2>2. ASSUME NEW t \in Tasks, CancelRead(r, t)
          PROVE  FindingsReported'
      <3>1. "empty" \in Findings(t)
        BY DEF Findings
      <3>2. QED
        BY <1>3, <2>2, <3>1 DEF CancelRead
    <2>3. QED
      BY <1>4, <1>5, <2>1, <2>2 DEF UserStep, CreateCommit, CancelCommit
  <1>6. ASSUME NEW r \in Requests, PollStep(r)
        PROVE  FindingsReported'
    <2>1. ASSUME NEW d \in Devices, ClaimSelect(r, d)
          PROVE  FindingsReported'
      BY <1>2, <2>1 DEF ClaimSelect
    <2>2. QED
      BY <1>2, <1>4, <1>6, <2>1 DEF PollStep, ClaimUpdate
  <1>7. ASSUME NEW r \in Requests, AgentStep(r)
        PROVE  FindingsReported'
    <2>1. ASSUME NEW t \in Tasks, NEW e,
                 \/ AcknowledgeRead(r, t, e)
                 \/ StartRead(r, t, e)
                 \/ \E result \in Results, findings \in Findings(t) :
                      SubmitRead(r, t, e, result, findings)
          PROVE  FindingsReported'
      <3>1. "empty" \in Findings(t)
        BY DEF Findings
      <3>2. QED
        BY <1>3, <2>1, <3>1 DEF AcknowledgeRead, StartRead, SubmitRead
    <2>2. CASE ProgressCommit(r) \/ SubmitCommit(r) \/ SubmitIngest(r)
      BY <1>4, <2>2 DEF ProgressCommit, SubmitCommit, SubmitIngest
    <2>3. CASE SubmitRollback(r) \/ SubmitDropped(r)
      BY <1>2, <2>3 DEF SubmitRollback, SubmitDropped, Answer
    <2>4. QED
      BY <1>7, <2>1, <2>2, <2>3 DEF AgentStep
  <1>8. QED
    BY <1>1, <1>5, <1>6, <1>7 DEF Next, vars

LEMMA RecordedStep ==
  ASSUME IInv, FindingsReported, SuccessIsRecorded, [Next]_vars
  PROVE  SuccessIsRecorded'
  <1>1. CASE UNCHANGED vars
    BY <1>1 DEF vars, SuccessIsRecorded
  <1>2. ASSUME NEW r \in Requests, NEW t \in Tasks, CreateInsert(r, t)
        PROVE  SuccessIsRecorded'
    BY <1>2, QuietRecorded DEF CreateInsert
  <1>3. ASSUME NEW r \in Requests, NEW d \in Devices, ClaimSelect(r, d)
        PROVE  SuccessIsRecorded'
    <2>1. PICK state : Become(r, state) /\ state.pc \notin {"ok", "noop"}
      <3>1. [pc |-> "refused"].pc = "refused"
        OBVIOUS
      <3>2. \A t : [pc |-> "claim", task |-> t, seen |-> Queued(d)].pc = "claim"
        OBVIOUS
      <3>3. QED
        BY <1>3, <3>1, <3>2, Zenon DEF ClaimSelect
    <2>2. QED
      BY <1>3, <2>1, QuietRecorded DEF ClaimSelect
  <1>4. ASSUME NEW r \in Requests, CreateCommit(r) \/ ClaimUpdate(r)
        PROVE  SuccessIsRecorded'
    BY <1>4, CommitRecorded, QuietRecorded DEF CreateCommit, ClaimUpdate
  <1>5. ASSUME NEW r \in Requests, NEW t \in Tasks, NEW e,
               \/ AcknowledgeRead(r, t, e)
               \/ StartRead(r, t, e)
               \/ CancelRead(r, t)
               \/ \E result \in Results, findings \in Findings(t) :
                    SubmitRead(r, t, e, result, findings)
        PROVE  SuccessIsRecorded'
    BY <1>5, ReadRecorded
    DEF AcknowledgeRead, StartRead, CancelRead, SubmitRead, Results
  <1>6. ASSUME NEW r \in Requests,
               \/ ProgressCommit(r) \/ SubmitCommit(r)
               \/ SubmitIngest(r) \/ CancelCommit(r)
        PROVE  SuccessIsRecorded'
    <2>1. PICK t, goal, e : Commit(r, t, goal, e)
      BY <1>6 DEF ProgressCommit, SubmitCommit, SubmitIngest, CancelCommit
    <2>2. QED
      BY <2>1, CommitRecorded
  <1>7. ASSUME NEW r \in Requests, SubmitRollback(r)
        PROVE  SuccessIsRecorded'
    BY <1>7, QuietRecorded DEF SubmitRollback
  <1>8. ASSUME NEW r \in Requests, SubmitDropped(r)
        PROVE  SuccessIsRecorded'
    <2>1. "unstorable" \in Reports[req[r].task]
      BY <1>8 DEF SubmitDropped, Writing, FindingsReported, Findings
    <2>2. QED
      BY <1>8, <2>1, QuietRecorded DEF SubmitDropped, Answer
  <1>9. QED
    BY <1>1, <1>2, <1>3, <1>4, <1>5, <1>6, <1>7, <1>8
    DEF Next, UserStep, PollStep, AgentStep

\* Every call the engine answered with success has its event in the audit log,
\* if what agents report of its task is what the database can store.
THEOREM AnswersRecorded == Spec => []SuccessIsRecorded
  <1>1. Init => SuccessIsRecorded /\ FindingsReported
    BY DEF Init, Idle, SuccessIsRecorded, FindingsReported
  <1>2. IInv /\ FindingsReported /\ SuccessIsRecorded /\ [Next]_vars
        => FindingsReported' /\ SuccessIsRecorded'
    BY RecordedStep, ReportedStep DEF IInv
  <1>3. QED
    BY <1>1, <1>2, Invariant, PTL DEF Spec

-----------------------------------------------------------------------------
(* The engine implements TaskLifecycle for the tasks of which clients do   *)
(* not overlap two changes.  The decision a write of such a task rests on  *)
(* still holds when it commits: nobody else writes the task, and a claim   *)
(* or a create in between leaves what was allowed allowed.                 *)

Closed == Promise!Closed
Open == Promise!Open
Progress == Promise!Progress

\* A commit from `from` to `to` is a Close or an Advance of the lifecycle.
Onward(from, to) ==
  from \in Open /\ (to \in Closed \/ Progress[from] < Progress[to])

SerialWrite(r) == req[r].pc = "write" /\ req[r].task \in SerialTasks

WriteOnward ==
  \A r \in Requests : SerialWrite(r) =>
    Onward(status[req[r].task], req[r].goal)

WriterAlone ==
  \A r, q \in Requests :
    /\ SerialWrite(r)
    /\ SerialWrite(q)
    /\ req[r].task = req[q].task
    => r = q

OpenNotClosed ==
  \A t \in SerialTasks : status[t] \notin Closed => Closers(t) = {}

RowOfAnswered ==
  \A e \in Requests : execution[e] # NoRow => req[e].pc = "ok"

SerialInv ==
  /\ IInv
  /\ WriteOnward
  /\ WriterAlone
  /\ OpenNotClosed
  /\ RowOfAnswered

LEMMA PhaseValues ==
  /\ Closed = {"COMPLETED", "FAILED", "CANCELLED"}
  /\ Open = {"QUEUED", "DELIVERED", "ACKNOWLEDGED", "RUNNING"}
  /\ Progress["QUEUED"] = 1 /\ Progress["DELIVERED"] = 2
  /\ Progress["ACKNOWLEDGED"] = 3 /\ Progress["RUNNING"] = 4
  BY DEF Closed, Open, Progress, Promise!Closed, Promise!Open, Promise!Progress

LEMMA ClosingEvents ==
  ASSUME NEW goal \in Goals
  PROVE  Event[goal] \in TerminalEvents <=> goal \in Closed
  BY PhaseValues, GoalValues DEF Event, TerminalEvents

\* A commit adds its request to the closers of its task if it closes it.
LEMMA CommitClosers ==
  ASSUME TypeOK, NEW r \in Requests, NEW t \in Tasks, NEW goal \in Goals, NEW e,
         Commit(r, t, goal, e), NEW u \in Tasks
  PROVE  Closers(u)' = IF u = t /\ goal \in Closed
                       THEN Closers(u) \cup {r} ELSE Closers(u)
  <1> DEFINE entry == [req |-> r, task |-> t, event |-> Event[goal]]
  <1>1. audit' = audit \cup {entry}
    BY DEF Commit
  <1>2. entry.req = r /\ entry.task = t
        /\ (entry.event \in TerminalEvents <=> goal \in Closed)
    BY ClosingEvents
  <1> HIDE DEF entry
  <1>3. QED
    BY <1>1, <1>2 DEF Closers

\* A step that commits nothing, of a request that is not answered yet.
LEMMA SerialQuiet ==
  ASSUME SerialInv, NEW r \in Requests, req[r].pc # "ok", NEW state,
         Become(r, state), UNCHANGED <<status, execution, audit>>,
         state.pc = "write" /\ state.task \in SerialTasks =>
           /\ Onward(status[state.task], state.goal)
           /\ \A q \in Requests : req[q].pc = "write" => req[q].task # state.task
  PROVE  WriteOnward' /\ WriterAlone' /\ OpenNotClosed' /\ RowOfAnswered'
  <1>1. \A q \in Requests : req'[q] = IF q = r THEN state ELSE req[q]
    BY DEF Become, SerialInv, IInv, TypeOK
  <1>2. WriteOnward'
    BY <1>1 DEF SerialInv, WriteOnward, SerialWrite, Onward
  <1>3. WriterAlone'
    BY <1>1 DEF SerialInv, WriterAlone, SerialWrite
  <1>4. OpenNotClosed'
    BY DEF SerialInv, OpenNotClosed, Closers
  <1>5. RowOfAnswered'
    BY <1>1 DEF SerialInv, RowOfAnswered
  <1>6. QED
    BY <1>2, <1>3, <1>4, <1>5

\* A commit that leaves the decisions of the other writers valid.
LEMMA SerialCommit ==
  ASSUME SerialInv, NEW r \in Requests, NEW t \in Tasks, NEW goal \in Goals, NEW e,
         Commit(r, t, goal, e),
         t \in SerialTasks => status[t] \notin Closed,
         \A f \in Requests \ {r} : execution'[f] # NoRow => execution[f] # NoRow,
         \A q \in Requests \ {r} : SerialWrite(q) /\ req[q].task = t =>
           Onward(goal, req[q].goal)
  PROVE  WriteOnward' /\ WriterAlone' /\ OpenNotClosed' /\ RowOfAnswered'
  <1>1. /\ req'[r].pc = "ok"
        /\ \A q \in Requests \ {r} : req'[q] = req[q]
        /\ \A u \in Tasks : status'[u] = IF u = t THEN goal ELSE status[u]
    BY DEF Commit, Become, Answer, SerialInv, IInv, TypeOK
  <1>2. WriteOnward'
    <2>1. ASSUME NEW q \in Requests, SerialWrite(q)'
          PROVE  Onward(status'[req'[q].task], req'[q].goal)
      <3>1. q # r /\ req'[q] = req[q] /\ SerialWrite(q)
        BY <1>1, <2>1 DEF SerialWrite
      <3>2. req[q].task \in Tasks
        BY <3>1, ConstantsAssumption DEF SerialWrite
      <3>3. QED
        BY <1>1, <3>1, <3>2 DEF SerialInv, WriteOnward
    <2>2. QED
      BY <2>1 DEF WriteOnward, Onward
  <1>3. WriterAlone'
    BY <1>1 DEF SerialInv, WriterAlone, SerialWrite
  <1>4. OpenNotClosed'
    <2>1. ASSUME NEW u \in SerialTasks, status'[u] \notin Closed
          PROVE  Closers(u)' = {}
      <3>0. u \in Tasks
        BY ConstantsAssumption
      <3>1. Closers(u) = {}
        BY <1>1, <2>1, <3>0 DEF SerialInv, OpenNotClosed
      <3>2. ~(u = t /\ goal \in Closed)
        BY <1>1, <2>1, <3>0
      <3>3. QED
        BY <3>0, <3>1, <3>2, CommitClosers DEF SerialInv, IInv
    <2>2. QED
      BY <2>1 DEF OpenNotClosed, Closed
  <1>5. RowOfAnswered'
    BY <1>1 DEF SerialInv, RowOfAnswered
  <1>6. QED
    BY <1>2, <1>3, <1>4, <1>5

\* What the transition table allows goes onward.
LEMMA AllowedOnward ==
  ASSUME NEW from \in Goals, NEW to \in Goals \ {"QUEUED", "DELIVERED"},
         <<from, to>> \in ALLOWED_TRANSITIONS
  PROVE  Onward(from, to)
  <1>1. /\ from \in Open
        /\ from = "ACKNOWLEDGED" => to # "ACKNOWLEDGED"
        /\ from = "RUNNING" => to \notin {"ACKNOWLEDGED", "RUNNING"}
    BY PhaseValues, GoalValues DEF ALLOWED_TRANSITIONS
  <1>2. to \in Closed \cup {"ACKNOWLEDGED", "RUNNING"}
    BY PhaseValues, GoalValues
  <1>3. QED
    BY <1>1, <1>2, PhaseValues DEF Onward

LEMMA ReadOnward ==
  ASSUME SerialInv, NEW r \in Requests, NEW t \in Tasks,
         NEW goal \in Goals \ {"QUEUED", "DELIVERED"}, NEW done, NEW e,
         NEW findings, Read(r, t, goal, done, e, findings),
         goal \in done \/ status[t] # goal
  PROVE  WriteOnward' /\ WriterAlone' /\ OpenNotClosed' /\ RowOfAnswered'
  <1>1. PICK state : /\ Become(r, state)
                     /\ state.pc = "write" =>
                          /\ state.task = t
                          /\ state.goal = goal
                          /\ status[t] \notin done
                          /\ validate_state_transition(status[t], goal)
    BY DEF Read, Answer
  <1>2. status[t] \in Goals
    BY DEF Read, SerialInv, IInv, TypeOK
  <1>3. state.pc = "write" => Onward(status[t], goal)
    BY <1>1, <1>2, AllowedOnward DEF validate_state_transition
  <1>4. t \in SerialTasks =>
          \A q \in Requests : req[q].pc = "write" => req[q].task # t
    BY DEF Read, Admitted
  <1>5. req[r].pc # "ok" /\ UNCHANGED <<status, execution, audit>>
    BY DEF Read, Idle
  <1>6. QED
    BY <1>1, <1>3, <1>4, <1>5, SerialQuiet

LEMMA SerialInit == Init => SerialInv
  <1> SUFFICES ASSUME Init PROVE SerialInv
    OBVIOUS
  <1>1. IInv
    BY IInvInit
  <1>2. WriteOnward /\ WriterAlone /\ RowOfAnswered
    BY DEF Init, Idle, WriteOnward, WriterAlone, SerialWrite, RowOfAnswered
  <1>3. OpenNotClosed
    BY ConstantsAssumption DEF Init, OpenNotClosed, Closers
  <1>4. QED
    BY <1>1, <1>2, <1>3 DEF SerialInv

LEMMA SerialStep ==
  ASSUME SerialInv, [Next]_vars
  PROVE  SerialInv'
  <1> DEFINE Rest == WriteOnward /\ WriterAlone /\ OpenNotClosed /\ RowOfAnswered
  <1>0. IInv'
    BY IInvStep DEF SerialInv
  <1>1. CASE UNCHANGED vars
    BY <1>0, <1>1
    DEF vars, SerialInv, WriteOnward, Onward, WriterAlone, SerialWrite,
        OpenNotClosed, Closers, RowOfAnswered
  <1>2. ASSUME NEW r \in Requests, NEW t \in Tasks, CreateInsert(r, t)
        PROVE  Rest'
    BY <1>2, SerialQuiet DEF CreateInsert, Idle
  <1>3. ASSUME NEW r \in Requests, CreateCommit(r)
        PROVE  Rest'
    <2> DEFINE t == req[r].task
    <2>1. /\ t \in Tasks /\ status[t] = "NONE"
          /\ Commit(r, t, "QUEUED", NoExec) /\ UNCHANGED execution
      BY <1>3, InsertFields DEF CreateCommit, SerialInv, IInv, InsertOnce
    <2>2. \A q \in Requests : req[q].pc = "write" => req[q].task # t
      BY <2>1 DEF SerialInv, IInv, WriteVisible
    <2>3. "QUEUED" \in Goals /\ status[t] \notin Closed
      BY <2>1, GoalValues, PhaseValues
    <2>4. QED
      BY <2>1, <2>2, <2>3, SerialCommit DEF SerialWrite
  <1>4. ASSUME NEW r \in Requests, NEW d \in Devices, ClaimSelect(r, d)
        PROVE  Rest'
    <2>1. PICK state : Become(r, state) /\ state.pc # "write"
      <3>1. [pc |-> "refused"].pc = "refused"
        OBVIOUS
      <3>2. \A t : [pc |-> "claim", task |-> t, seen |-> Queued(d)].pc = "claim"
        OBVIOUS
      <3>3. QED
        BY <1>4, <3>1, <3>2, Zenon DEF ClaimSelect
    <2>2. req[r].pc # "ok" /\ UNCHANGED <<status, execution, audit>>
      BY <1>4 DEF ClaimSelect, Idle
    <2>3. QED
      BY <2>1, <2>2, SerialQuiet
  <1>5. ASSUME NEW r \in Requests, ClaimUpdate(r)
        PROVE  Rest'
    <2> DEFINE t == req[r].task
    <2>1. t \in Tasks /\ req[r].pc = "claim"
      BY <1>5, ClaimFields DEF ClaimUpdate, SerialInv, IInv
    <2>2. CASE StillQueued(t)
      <3>1. /\ Commit(r, t, "DELIVERED", r)
            /\ status[t] = "QUEUED"
            /\ \A f \in Requests \ {r} : execution'[f] # NoRow => execution[f] # NoRow
        BY <1>5, <2>2 DEF ClaimUpdate, StillQueued, SerialInv, IInv, TypeOK
      <3>2. "DELIVERED" \in Goals /\ status[t] \notin Closed
        BY <3>1, GoalValues, PhaseValues
      <3>3. ASSUME NEW q \in Requests, req[q].pc = "write", req[q].task = t
            PROVE  Onward("DELIVERED", req[q].goal)
        BY <3>3, WriteFields, GoalValues, PhaseValues DEF Onward, SerialInv, IInv
      <3>4. QED
        BY <2>1, <3>1, <3>2, <3>3, SerialCommit DEF SerialWrite
    <2>3. CASE ~StillQueued(t)
      BY <1>5, <2>1, <2>3, SerialQuiet DEF ClaimUpdate
    <2>4. QED
      BY <2>2, <2>3
  <1>6. ASSUME NEW r \in Requests, NEW t \in Tasks, NEW e,
               \/ AcknowledgeRead(r, t, e)
               \/ StartRead(r, t, e)
               \/ CancelRead(r, t)
               \/ \E result \in Results, findings \in Findings(t) :
                    SubmitRead(r, t, e, result, findings)
        PROVE  Rest'
    BY <1>6, GoalValues, ReadOnward
    DEF AcknowledgeRead, StartRead, CancelRead, SubmitRead, Results, Terminal
  <1>7. ASSUME NEW r \in Requests,
               \/ ProgressCommit(r) \/ SubmitCommit(r)
               \/ SubmitIngest(r) \/ CancelCommit(r)
        PROVE  Rest'
    <2> DEFINE t == req[r].task
    <2>1. req[r].pc = "write"
      BY <1>7 DEF ProgressCommit, SubmitCommit, SubmitIngest, CancelCommit, Writing
    <2>2. t \in Tasks /\ req[r].goal \in Goals
      BY <2>1, WriteFields DEF SerialInv, IInv
    <2>3. PICK e : Commit(r, t, req[r].goal, e)
      BY <1>7, <2>1
      DEF ProgressCommit, SubmitCommit, SubmitIngest, CancelCommit, Writing
    <2>4. SetExecution(req[r].exec, t, req[r].goal) \/ UNCHANGED execution
      BY <1>7 DEF ProgressCommit, SubmitCommit, SubmitIngest, CancelCommit
    <2>5. \A f \in Requests : execution'[f] # NoRow => execution[f] # NoRow
      BY <2>2, <2>4, SetExecutionKeepsTasks DEF SerialInv, IInv
    <2>6. t \in SerialTasks => status[t] \notin Closed
      BY <2>1, PhaseValues DEF SerialInv, WriteOnward, SerialWrite, Onward
    <2>7. \A q \in Requests \ {r} : ~(SerialWrite(q) /\ req[q].task = t)
      BY <2>1 DEF SerialInv, WriterAlone, SerialWrite
    <2>8. QED
      BY <2>2, <2>3, <2>5, <2>6, <2>7, SerialCommit
  <1>8. ASSUME NEW r \in Requests, SubmitRollback(r)
        PROVE  Rest'
    BY <1>8, SerialQuiet DEF SubmitRollback, Writing
  <1>9. ASSUME NEW r \in Requests, SubmitDropped(r)
        PROVE  Rest'
    BY <1>9, SerialQuiet DEF SubmitDropped, Writing, Answer
  <1>10. QED
    BY <1>0, <1>1, <1>2, <1>3, <1>4, <1>5, <1>6, <1>7, <1>8, <1>9
    DEF SerialInv, Next, UserStep, PollStep, AgentStep

-----------------------------------------------------------------------------
(* Every step of the engine is a step of the lifecycle or a stutter.       *)

Promised == [Promise!Next]_(Promise!vars)

LEMMA SameRowsSameHolders ==
  ASSUME \A f \in Requests : execution'[f].task = execution[f].task
  PROVE  \A t \in Tasks : Holders(t)' = Holders(t)
  BY DEF Holders

\* What leaves the serial tasks as they are is a stutter of the lifecycle.
LEMMA OthersPromised ==
  ASSUME \A t \in SerialTasks : /\ status'[t] = status[t]
                                /\ Holders(t)' = Holders(t)
                                /\ Closers(t)' = Closers(t)
  PROVE  Promised
  <1>1. /\ [t \in SerialTasks |-> status[t]]' = [t \in SerialTasks |-> status[t]]
        /\ [t \in SerialTasks |-> Holders(t)]' = [t \in SerialTasks |-> Holders(t)]
        /\ [t \in SerialTasks |-> Closers(t)]' = [t \in SerialTasks |-> Closers(t)]
    OBVIOUS
  <1>2. QED
    BY <1>1 DEF Promised, Promise!vars

LEMMA StutterPromised ==
  ASSUME UNCHANGED <<status, execution, audit>>
  PROVE  Promised
  <1>1. \A t : Holders(t)' = Holders(t) /\ Closers(t)' = Closers(t)
    BY DEF Holders, Closers
  <1>2. QED
    BY <1>1, OthersPromised

\* A commit that touches no execution row's task: Create, Advance or Close.
LEMMA CommitPromised ==
  ASSUME SerialInv, NEW r \in Requests, NEW t \in Tasks, NEW goal \in Goals, NEW e,
         Commit(r, t, goal, e),
         \A f \in Requests : execution'[f].task = execution[f].task,
         t \in SerialTasks =>
           \/ status[t] = "NONE" /\ goal = "QUEUED"
           \/ Onward(status[t], goal) /\ goal \notin {"QUEUED", "DELIVERED"}
  PROVE  Promised
  <1> DEFINE state == [u \in SerialTasks |-> status[u]]
             closedBy == [u \in SerialTasks |-> Closers(u)]
  <1>1. \A u \in SerialTasks : u \in Tasks
    BY ConstantsAssumption
  <1>2. /\ \A u \in SerialTasks : Holders(u)' = Holders(u)
        /\ [u \in SerialTasks |-> Holders(u)]' = [u \in SerialTasks |-> Holders(u)]
    BY <1>1, SameRowsSameHolders
  <1>3. \A u \in SerialTasks : Closers(u)' = IF u = t /\ goal \in Closed
                                             THEN Closers(u) \cup {r} ELSE Closers(u)
    BY <1>1, CommitClosers DEF SerialInv, IInv
  <1>4. \A u \in SerialTasks : status'[u] = IF u = t THEN goal ELSE status[u]
    BY <1>1 DEF Commit, SerialInv, IInv, TypeOK
  <1>5. CASE t \notin SerialTasks
    BY <1>2, <1>3, <1>4, <1>5, OthersPromised
  <1>6. CASE t \in SerialTasks
    <2>1. state' = [state EXCEPT ![t] = goal]
      BY <1>4
    <2>2. CASE goal \in Closed
      <3>1. Onward(status[t], goal) /\ status[t] \notin Closed
        BY <1>6, <2>2, PhaseValues DEF Onward
      <3>2. Closers(t) = {}
        BY <1>6, <3>1 DEF SerialInv, OpenNotClosed
      <3>3. closedBy' = [closedBy EXCEPT ![t] = {r}]
        BY <1>3, <2>2, <3>2
      <3>4. Promise!Close(t, goal, r)
        BY <1>2, <1>6, <2>1, <3>1, <3>2, <3>3 DEF Promise!Close, Onward, Open
      <3>5. QED
        BY <1>6, <2>2, <3>4 DEF Promised, Promise!Next, Closed
    <2>3. CASE goal \notin Closed
      <3>1. closedBy' = closedBy
        BY <1>3, <2>3
      <3>2. CASE status[t] = "NONE" /\ goal = "QUEUED"
        <4>1. Promise!Create(t)
          BY <1>2, <1>6, <2>1, <3>1, <3>2 DEF Promise!Create
        <4>2. QED
          BY <1>6, <4>1 DEF Promised, Promise!Next
      <3>3. CASE Onward(status[t], goal) /\ goal \notin {"QUEUED", "DELIVERED"}
        <4>1. goal \in {"ACKNOWLEDGED", "RUNNING"}
          BY <2>3, <3>3, GoalValues, PhaseValues
        <4>2. Promise!Advance(t, goal)
          BY <1>2, <1>6, <2>1, <2>3, <3>1, <3>3
          DEF Promise!Advance, Onward, Open, Progress
        <4>3. QED
          BY <1>6, <4>1, <4>2 DEF Promised, Promise!Next
      <3>4. QED
        BY <1>6, <3>2, <3>3
    <2>4. QED
      BY <2>2, <2>3
  <1>7. QED
    BY <1>5, <1>6

LEMMA ClaimPromised ==
  ASSUME SerialInv, NEW r \in Requests, ClaimUpdate(r), NEW t \in Tasks,
         req[r].task = t, StillQueued(t)
  PROVE  Promised
  <1> DEFINE state == [u \in SerialTasks |-> status[u]]
             heldBy == [u \in SerialTasks |-> Holders(u)]
             closedBy == [u \in SerialTasks |-> Closers(u)]
  <1>0. \A u \in SerialTasks : u \in Tasks
    BY ConstantsAssumption
  <1>1. /\ status[t] = "QUEUED"
        /\ Commit(r, t, "DELIVERED", r)
        /\ \A u \in Tasks : status'[u] = IF u = t THEN "DELIVERED" ELSE status[u]
        /\ \A e \in Requests :
             execution'[e] = IF e = r THEN [task |-> t, status |-> "DELIVERED"]
                             ELSE execution[e]
    BY DEF ClaimUpdate, StillQueued, Commit, SerialInv, IInv, TypeOK
  <1>2. \A u \in Tasks : Closers(u)' = Closers(u)
    BY <1>1, CommitClosers, GoalValues, PhaseValues DEF SerialInv, IInv
  <1>3. execution[r] = NoRow /\ NoRow.task \notin Tasks
    BY ConstantsAssumption DEF ClaimUpdate, SerialInv, RowOfAnswered, NoRow
  <1>4. \A e \in Requests : execution[e].task # t
    BY <1>1, <1>3, RowTask DEF SerialInv, IInv, ClaimedLeftQueue
  <1>5. Holders(t) = {} /\ Holders(t)' = {r}
    <2>1. Holders(t) = {}
      BY <1>4 DEF Holders
    <2>2. \A e \in Requests : execution'[e].task = t <=> e = r
      BY <1>1, <1>4
    <2>3. Holders(t)' = {e \in Requests : e = r}
      BY <2>2 DEF Holders
    <2>4. QED
      BY <2>1, <2>3
  <1>6. \A u \in Tasks \ {t} : Holders(u)' = Holders(u)
    BY <1>1, <1>3 DEF Holders
  <1>7. CASE t \notin SerialTasks
    BY <1>0, <1>1, <1>2, <1>6, <1>7, OthersPromised
  <1>8. CASE t \in SerialTasks
    <2>1. state' = [state EXCEPT ![t] = "DELIVERED"]
      BY <1>0, <1>1
    <2>2. heldBy' = [heldBy EXCEPT ![t] = {r}]
      <3>1. \A u \in SerialTasks : Holders(u)' = IF u = t THEN {r} ELSE Holders(u)
        BY <1>0, <1>5, <1>6
      <3>2. QED
        BY <3>1, Zenon
    <2>3. closedBy' = closedBy
      BY <1>0, <1>2
    <2>4. Promise!Deliver(t, r)
      BY <1>1, <1>5, <1>8, <2>1, <2>2, <2>3 DEF Promise!Deliver
    <2>5. QED
      BY <1>8, <2>4 DEF Promised, Promise!Next
  <1>9. QED
    BY <1>7, <1>8

LEMMA InitPromised == Init => Promise!Init
  <1> SUFFICES ASSUME Init PROVE Promise!Init
    OBVIOUS
  <1>1. NoTask \notin Tasks
    BY ConstantsAssumption
  <1>2. \A t \in Tasks : Holders(t) = {} /\ Closers(t) = {}
    BY <1>1 DEF Init, Holders, Closers, NoRow
  <1>3. SerialTasks \subseteq Tasks
    BY ConstantsAssumption
  <1>4. QED
    BY <1>2, <1>3 DEF Init, Promise!Init

LEMMA StepPromised ==
  ASSUME SerialInv, [Next]_vars
  PROVE  Promised
  <1>1. CASE UNCHANGED <<status, execution, audit>>
    BY <1>1, StutterPromised
  <1>2. ASSUME NEW r \in Requests, CreateCommit(r)
        PROVE  Promised
    <2>1. req[r].task \in Tasks /\ status[req[r].task] = "NONE"
      BY <1>2, InsertFields DEF CreateCommit, SerialInv, IInv, InsertOnce
    <2>2. "QUEUED" \in Goals
      BY GoalValues
    <2>3. QED
      BY <1>2, <2>1, <2>2, CommitPromised DEF CreateCommit
  <1>3. ASSUME NEW r \in Requests, ClaimUpdate(r)
        PROVE  Promised
    <2>1. req[r].task \in Tasks
      BY <1>3, ClaimFields DEF ClaimUpdate, SerialInv, IInv
    <2>2. QED
      BY <1>1, <1>3, <2>1, ClaimPromised DEF ClaimUpdate
  <1>4. ASSUME NEW r \in Requests,
               \/ ProgressCommit(r) \/ SubmitCommit(r)
               \/ SubmitIngest(r) \/ CancelCommit(r)
        PROVE  Promised
    <2> DEFINE t == req[r].task
    <2>1. req[r].pc = "write"
      BY <1>4 DEF ProgressCommit, SubmitCommit, SubmitIngest, CancelCommit, Writing
    <2>2. t \in Tasks /\ req[r].goal \in Goals \ {"QUEUED", "DELIVERED"}
      BY <2>1, WriteFields DEF SerialInv, IInv
    <2>3. PICK e : Commit(r, t, req[r].goal, e)
      BY <1>4, <2>1
      DEF ProgressCommit, SubmitCommit, SubmitIngest, CancelCommit, Writing
    <2>4. SetExecution(req[r].exec, t, req[r].goal) \/ UNCHANGED execution
      BY <1>4 DEF ProgressCommit, SubmitCommit, SubmitIngest, CancelCommit
    <2>5. \A f \in Requests : execution'[f].task = execution[f].task
      BY <2>2, <2>4, SetExecutionKeepsTasks DEF SerialInv, IInv
    <2>6. t \in SerialTasks => Onward(status[t], req[r].goal)
      BY <2>1 DEF SerialInv, WriteOnward, SerialWrite
    <2>7. QED
      BY <2>2, <2>3, <2>5, <2>6, CommitPromised
  <1>5. ASSUME NEW r \in Requests, NEW t \in Tasks, NEW e,
               \/ CreateInsert(r, t) \/ CancelRead(r, t)
               \/ AcknowledgeRead(r, t, e) \/ StartRead(r, t, e)
        PROVE  UNCHANGED <<status, execution, audit>>
    BY <1>5 DEF CreateInsert, CancelRead, AcknowledgeRead, StartRead, Read
  <1>6. ASSUME NEW r \in Requests, NEW t \in Tasks, NEW e, NEW result, NEW findings,
               SubmitRead(r, t, e, result, findings)
        PROVE  UNCHANGED <<status, execution, audit>>
    BY <1>6 DEF SubmitRead, Read
  <1>7. ASSUME NEW r \in Requests, NEW d \in Devices, ClaimSelect(r, d)
        PROVE  UNCHANGED <<status, execution, audit>>
    BY <1>7 DEF ClaimSelect
  <1>8. ASSUME NEW r \in Requests, SubmitRollback(r) \/ SubmitDropped(r)
        PROVE  UNCHANGED <<status, execution, audit>>
    BY <1>8 DEF SubmitRollback, SubmitDropped
  <1>9. ASSUME NEW r \in Requests, UserStep(r)
        PROVE  Promised
    BY <1>1, <1>2, <1>4, <1>5, <1>9 DEF UserStep
  <1>10. ASSUME NEW r \in Requests, PollStep(r)
         PROVE  Promised
    BY <1>1, <1>3, <1>7, <1>10 DEF PollStep
  <1>11. ASSUME NEW r \in Requests, AgentStep(r)
         PROVE  Promised
    BY <1>1, <1>4, <1>5, <1>6, <1>8, <1>11 DEF AgentStep
  <1>12. QED
    BY <1>1, <1>9, <1>10, <1>11 DEF Next, vars

\* The task engine implements the lifecycle of every task of which clients do
\* not overlap two changes, whatever happens to the others.
THEOREM EngineImplementsLifecycle == Spec => Lifecycle
  <1>1. SerialInv /\ [Next]_vars => SerialInv'
    BY SerialStep
  <1>2. SerialInv /\ [Next]_vars => Promised
    BY StepPromised
  <1>3. QED
    BY <1>1, <1>2, SerialInit, InitPromised, PTL
    DEF Spec, Lifecycle, Promise!Spec, Promised

=============================================================================
