# NETRA: formal models, checks and proofs

NETRA is a backend (FastAPI, SQLAlchemy, PostgreSQL or SQLite) that queues
security scans for enrolled hosts, and an agent that enrolls a host, keeps a
WebSocket to the backend and reports findings. This directory specifies the
parts of it that keep state and run concurrently, checks them with TLC on small
instances, and proves the central theorems with TLAPS for all instances.

Paths below are relative to `src/`; `backend/…` stands for
`backend/src/netra_backend/…` and `agent/…` for `agent/src/netra_agent/…`.

## 1. The system

| Component | State | Operations | Hard because |
|---|---|---|---|
| task engine (`backend/services/task_engine.py`, `api/v1/tasks.py`, `agent_tasks.py`) | `tasks`, `task_executions`, `audit_events` | create, claim, acknowledge, start, submit result, cancel | every request reads, decides, awaits, and commits by id; only the claim repeats its condition |
| finding ingestion (`backend/services/finding_engine.py`, `database.py`) | `findings`, `finding_evidences`, asyncio locks by fingerprint, the connections of a process | ingest a report, change a status | one commit per item, locks local to a process, savepoints, retries, a pool that runs out, crashes between commits |
| finding queries (`list_findings`, `get_finding_detail`) | none of their own | count, page, row, evidence | every statement sees another state; offsets move while a client pages |
| refresh sessions (`backend/api/v1/auth.py`) | `user_sessions` | login, refresh, logout | rotation races with rotation, revocation and logout; lost answers |
| agent connection (`agent/connection/`, `backend/api/v1/wss.py`) | the client's loop, `attempt`, flags; the registry of connections | connect, welcome, receive, back off, poll, stop; accept, register, disconnect | both ends notice a broken connection on their own, in any order |
| signed requests (`verify_agent_signature_headers`, poll, handshake) | `nonce_caches` | look up, insert, effect | copies of a request overlap between look-up and insertion |
| enrollment (`backend/api/v1/devices.py`, `agent/cli/enroll.py`, `agent/auth/keyring.py`) | `enrollment_codes`, `devices`, `device_credentials`; keyring and configuration of the host | create code, enroll, generate key, save configuration | a code is used twice at once, an answer is lost, the keyring fails |
| tenant context (`backend/rls.py`, `database.py`) | a PostgreSQL setting, local to a transaction | enter the context | decided by roles and policies of the database |
| executor and scanners of the agent (`agent/executor/`, `agent/scanners/`) | none of their own | run a scan | the host changes between the calls that look at it; one exception costs the whole report |
| health, middleware, configuration, crypto, schemas, migrations, Discord tables | none at run time | | |

How they interact: the agent's poll and its acknowledge, start and result calls
pass the nonce check of *signed requests* and then run a handler of the *task
engine* in the same transaction (the poll: in the next one). A COMPLETED result
with findings calls the *ingestion*, which commits for its caller. *Enrollment*
makes the device and key that signed requests are checked against. The *agent
connection* falls back to the poll. Users reach the task engine and the status
of findings through the API; their sessions are the *refresh sessions*; they read through the
*queries*. The *executor* makes the reports that are ingested, but nothing in the
agent yet takes a polled task to it or its report to the backend.

What makes each component correct is stated by the properties of its module
(section 3); `PROJECT.json` lists every hazard of the code with its line and the
properties that watch it.

## 2. The modules

The common idea: **a request is an actor with a local state, and every stretch
of a handler between two awaits that other requests can observe is one action.**
A SELECT is one step, the commit that follows is another; a transaction that
ends without a commit leaves no trace. Identities that the code draws at random
(ids, tokens, nonces, key pairs) are named after the request that drew them. A
repeated or duplicated call is another request.

| Module | Models | State ↔ code |
|---|---|---|
| `TaskEngine` | all operations on tasks | `status`, `createdAt`, `execution`, `audit` are committed rows (`createdAt` is taken at the flush, before the commit); `req` is the program counter and the locals of a request |
| `TaskLifecycle` | abstract: what the engine promises of a task, each step atomic | `heldBy` the executions of a task, `closedBy` the requests whose closing event is recorded |
| `FindingRules` | findings rows and `validate_finding_transition` | shared by the three below |
| `FindingStore` | abstract: what findings are to everybody but the ingestion, each observation and each change of status one step | `finding`, `evidence` the two tables |
| `FindingIngestion` | one COMPLETED submission per request, item by item; status changes by users; crashing processes, the pool of connections | `completed` the committed task status, `finding`/`evidence` rows, `req.kept` whether the request has committed yet, `req.conn` whether its session holds a connection; locks are derived from `req` |
| `FindingQueries` | a client that reads the list page by page, or a detail, over a `FindingStore` that changes | `reader` is the request and what the client has been shown; `churn` remembers what changed meanwhile |
| `HostScan` | `execute_task` with the integrity and the process scanner on a changing host | `fs`, `procs` the host, `scan` the locals of the scanner, `past` all that was true since it began |
| `AuthSessions` | the sessions of one user | `token` is `refresh_token_hash`, `revoked` is `revoked_at`, `held` is what the client last received |
| `AgentConnection` | one device's client and the server's handlers of its connections | `client` is the loop of `connect_and_run`, `handler` where `agent_wss_gateway` is for each connection, `active` the registry entry |
| `AgentRequests` | the nonce protocol of one device | `nonces` is `nonce_caches`; `applied` the deliveries whose effect is committed |
| `Enrollment` | codes, devices, one host | `code`/`usedBy`, `device`, `keyring`, `config`; `run` is the command, `call` its request at the server |
| `TaskEngineProofs`, `FindingIngestionProofs`, `FindingQueriesProofs`, `HostScanProofs`, `AuthSessionsProofs`, `AgentConnectionProofs`, `AgentRequestsProofs`, `EnrollmentProofs` | theorems about the module of that name, see section 4 | |
| `MC…` | instances for TLC | |

`TaskEngine` takes from the ingestion only what its first commit decides (stored,
rolled back, nothing committed); `FindingIngestion` takes from the task engine
only the completion. They meet at `submit_task_result`: the three outcomes
`SubmitIngest`, `SubmitRollback` and `SubmitDropped` of the one are what `Save`,
`Reject` and `Fallback` of the other lead to. `FindingQueries` EXTENDS
`FindingStore` and makes its steps the steps of the others; `FindingIngestion`
implements `FindingStore` (`ImplementsStore`), so that what the queries promise
over the one they promise over the other, as far as status changes do not
overlap (`SerialFindings`). Likewise `AgentRequests` leaves
open which change a task admits, and `AgentConnection` how a handshake is
verified.

Definitions whose names end in words like `…Anyway` or `…Unstored`, introduced by
"A mutation:", are plausible mistakes. They are not part of any specification;
each property is shown to fail when its mutation takes the place of the
definition after it.

### Choices worth knowing

* READ COMMITTED, no `SELECT … FOR UPDATE` anywhere in the code; UPDATEs by the
  ORM name the primary key and the changed columns only.
* Sessions autoflush. `db.expire_all()` at the start of an item expires loaded
  objects, and a change of the execution row that was not flushed is lost; the
  audit event, which is pending, is not. The status of the task was flushed.
* An unknown `execution_id`: the `TaskExecution` built for it is never added to
  the session, so no row appears; with findings the evidence's foreign key makes
  the first commit fail (PostgreSQL).
* The row of a session expires with the JWT of its refresh token, up to the time
  between two readings of the clock, so that a valid token may meet an expired
  row: whether it does is left open at every refresh (`ExpireCommit`).
* A poll selects a task and then claims it by a conditional UPDATE. In `TaskEngine`
  these are two steps; in `AgentRequests`, where tasks are only counted, a poll may
  come back empty although tasks are queued once another has claimed one (`Outrun`).
* A session takes a connection of its process's pool at its first statement and
  gives it back with its commit, its rollback or its end. A request that waits
  for a connection gives up after the pool's timeout (`ConnectionTimeout`).
* The host is Python 3.11's: `exists()` and `is_file()` answer FALSE for what is
  not there, and raise in a directory that may not be searched. A file is its
  length and, chunk by chunk, which change of the host wrote it.
* The default deployment is one process, but nothing in the code forbids more;
  `Workers` allows both.
* `single_turn` of `connect_and_run` is used by tests only and left out. The
  server sends nothing through the registry (`send_json` has no caller).
* No code sets `is_revoked`, EXPIRED or TIMEOUT.

## 3. The runs

Deadlock checking is off in all runs: requests, deliveries, runs of the command
and troubles are finite sets or bounded, and the system rightly stops when they
are used up.

### Passing runs

| Run | Question | Bounds, and why they are enough |
|---|---|---|
| `TaskEngine_race` | claims, audit and answers when everything overlaps; does the engine refine `TaskLifecycle` for a task whose clients do not | 3 tasks of one device, one NORMAL and two HIGH, in any order of creation, and 5 requests. A task's whole life takes 5 requests, two tasks in competition take 4 (create, create, poll, poll), and one is left to disturb. The clients of `t2` are serial, and all findings of its report may be unstorable; those of `t1` and `t3` overlap |
| `FindingIngestion_crossed` | is everything storable stored, status with evidence, collisions across processes only, no circular wait | 2 crossed reports of 2 items, one unstorable when new, 3 submissions, 2 processes, crashes; a pool with 1 connection, which a single waiter exhausts, and one that never runs out; under fairness |
| `FindingIngestion_retry` | nothing stored twice by serial agents; are findings a `FindingStore` when changes of one finding's status do not overlap | a report that names a fingerprint twice and has an unstorable item, one with an oversized item, 3 submissions, crashes at every step, 2 users, both pools |
| `FindingQueries_reads` | what a client may miss or see twice when it pages through changing findings; does a detail explain its row | 3 findings in up to 3 pages of 1 or 2, 3 observations at 2 times (so that times are equal, later, or earlier than a committed one), any changes of status, a filter or none |
| `HostScan_changes` | is what a scan says true of the host at some time during the scan; what makes it fail | 2 paths, one of them named twice; files of up to 3 chunks with a limit of 2; 4 processes with limits of 0, 2 and 4; 2 changes of the host at any moment: a file can vanish and come back, or grow past the limit and be replaced |
| `AuthSessions_race` | revocation final, alarm complete, tokens apart; no false alarm and a working logout for a client that waits | 6 requests: two of the sessions may belong to a careful client, and rotations, a reuse and a logout still overlap |
| `AgentConnection_reconnect` | registry, reconnection, stop | 3 connections (two stale handlers beside a live one), 7 troubles, so that the limit of 5 failures and the fallback are reached |
| `AgentRequests_copies` | each signed request at most once, nonces | a change, three polls and a handshake, 5 deliveries in any split, two queued tasks: the polls compete for them, and one comes back empty |
| `Enrollment_runs` | one device per code; the configured host can sign | 2 codes, 3 runs, one of them careless: it overlaps the others, and its keyring may fail |

### What the program does not keep

Each of these runs checks one statement of the documentation or of a comment and
ends in a counterexample; `PROJECT.json` quotes the statement and explains the
trace.

| Run | Statement | What happens |
|---|---|---|
| `TaskEngine_terminal` | terminal states are immutable | a change that read the task before another one closed it overwrites the status |
| `FindingIngestion_whole` | one transaction per submission | a crash or an oversized item after the first commit leaves a part of the report, and no retry completes it |
| `AgentConnection_overflow` | back-off goes on | `OverflowError` at the 1025th failure in a row |

The models also contain the following departures, which have no run of their
own. Where a discipline avoids one, the passing runs are made under it; such a
property would not show that departure, and `PROJECT.json` lists it as a hazard
without a property.

* Two submissions of a result that read the task before either commits are both
  recorded, each with its event; `PHASE_05_AUDIT_REPORT.md` says duplicates add
  none. (`Lifecycle`, `ObservedOnce` need clients that do not overlap.)
* Where the priority enum is a text column (SQLite), NORMAL and LOW sort above
  HIGH. (`Collation` is the order of a native enum in the runs.)
* `db.expire_all()` drops the change of the execution row when a result has
  findings: the row keeps its old status.
* A delivered task nobody acknowledges stays DELIVERED: the 30-second lease of
  `SYSTEM_DESIGN.md` does not exist.
* When all findings of a result are unstorable, nothing is committed and the agent
  is answered COMPLETED. (`SuccessIsRecorded` is about tasks whose `Reports` has
  no `"unstorable"`.)
* The fallback poll makes the server hand out a task and drops the answer, though
  `ARCHITECTURE.md` gives polling as the way tasks reach an agent that cannot
  connect: the task stays DELIVERED, and nobody executes it.
* `has_more` compares the page with a count that may be older: when a finding
  moves up, or comes to match, between the two, the client stops although
  findings that nobody touched are left (`overtook` in `NoneMissed`). Findings
  that move down past a page that was read are missed too (`fell`).
* A path that vanishes between the check of its size and its opening, or that lies
  in a directory that may not be searched, fails the whole scan, and no finding
  of the other paths is reported. A path that is no regular file, or ceases to
  exist between `exists()` and `is_file()`, is not reported at all.
* The hash of a file that is written during the scan may belong to no state of it,
  and its size may be that of another state (`disturbed` in `FilesAccounted`).
* Overlapping status changes, or a change and a reopening observation, may commit a
  transition the table forbids; a finding resolved between an ingestion's SELECT
  and its commit is observed and stays RESOLVED. (`SerialFindings`.)
* An ingestion that began earlier and commits later moves `last_seen_at` back.
* Two overlapping refreshes with one token are both answered with tokens, of which
  one is dead; a logout with a token that was rotated meanwhile is answered as
  a success and revokes nothing. (`Careful`.)
* The gateway handler of an old connection, when it ends, removes the registry
  entry of the connection that replaced it; a client that waits in `recv()` on a
  quiet connection does not see `stop()`.
* A key pair generated while the keyring fails is lost with the process that
  enrolled it; two runs at once generate two key pairs and keep one; a host that
  enrolls again registers its old public key. (`Careless`.)

Disciplines of the environment are constants: `SerialTasks` (tasks whose clients
do not overlap changes), `SerialClients`, `SerialFindings`, the sets `Careful`
(sessions of a client that waits for its answers) and `Careless` (runs of the
command that overlap or have no keyring), and the values of `Reports` and
`Collation`.

### Fairness

* `FindingIngestion!FairSpec`: weak fairness of each ingestion as a whole. A
  waiting ingestion is enabled as soon as the lock it waits for is free, and
  both PostgreSQL and `asyncio.Lock` wake a waiter; with finitely many
  submissions nobody is overtaken for ever. A waiter for a connection is woken
  when one is given back, and by the timeout of the pool in any case. `Begin` and
  `Crash` are not fair, nor is what a user begins.
* `AgentConnection!FairSpec`: the client's loop and each handler go on. That a
  broken connection is noticed rests on the ping timeouts both ends configure
  (websockets: 30 s and 10 s; uvicorn's default) and on the open timeout of the
  client. `stop`, `Break`, `Refuse` and `Unreachable` are not fair; troubles are
  bounded by `MaxTrouble`, which is what "the trouble is over" means.

Other bounds: `MaxExponent` is 1023, the largest power of two a double holds;
`MaxReconnectAttempts` has the value of the code. `MaxAttempts` is 10 in the
code and 3 in the runs: an attempt at a row the table admits fails only when
another process committed the finding since the SELECT, after which the next one
finds it, so that no third is needed (`NoCollision`, `EvidenceForAnswered`); the
bound would show it if one were. The pools of the runs have 1 and 3 connections
for 3 submissions, the code's 10 by default (`database_pool_max`). The limits of
the scanners and the page sizes are scaled down with the files and the tables;
the endpoints admit no `page` or `page_size` below 1.

## 4. The proofs

TLAPS checks these for every value of the constants that meets the module's
`ASSUME`s (which TLC evaluates in every run). Every safety invariant and every
action property that a passing run checks is also a theorem, and so are the two
refinements.

The assumptions say no more than the code does. That `Requests` of the ingestion
and `Fingerprints` of the queries are finite is needed where the models count:
the number of submissions bounds the clock, and the place of a finding in a list
is the number of those before it. Submissions are finitely many in any history,
and fingerprints are SHA-256 digests. `IngestionAssumption`, `ScanAssumption` and
the others otherwise give the constants their types.

Each proof follows one pattern: an inductive invariant `IInv` (a conjunction of
named parts, the module's properties among them), `Init => IInv`, one lemma for
each action of `Next`, and the theorems of `Spec` from these by temporal logic.
What follows is why the properties alone are not inductive, which is the content
of the proof.

**`TaskEngineProofs`**

* `TypeCorrect`, `ClaimedAtMostOnce` (`SingleExecution`), `AuditComplete`
  (`AuditMatchesStatus`), `LeftQueueForGood` (`NeverClaimedLater`) hold of
  `Spec` without further assumption. `SingleExecution` is not inductive: a
  second claim is excluded because a claimed task has left the queue
  (`ClaimedLeftQueue`), which in turn needs that no step puts a task back into
  it, and the only one that could is a creation whose commit is still to come,
  which holds a row nobody sees and nobody else creates (`InsertOnce`); a
  pending write is on a visible row (`WriteVisible`). The conjunction is `IInv`.
* `MostUrgentClaimed` (`ClaimsMostUrgent`): where the database orders the
  priorities as they are declared (`DeclaredCollation`, true of a native enum and
  false of a text column, see the departures). The candidate of a poll stays the
  first of what the poll saw (`ClaimChoice`) because the time of a row is stamped
  once, and a row is visible only when it has been (`InsertOnce`).
* `AnswersRecorded`: `SuccessIsRecorded`, which is about the tasks whose reports
  can be stored in part at least; the others are a departure, see above.
* `EngineImplementsLifecycle`: the engine implements `TaskLifecycle` for every task
  of `SerialTasks`, whatever happens to the others. `SerialInv` adds to `IInv`,
  for those tasks, that a pending write is still a legal one when it commits
  (`WriteOnward`), that it is the only one (`WriterAlone`), that an open task has
  no closer (`OpenNotClosed`), and that an execution belongs to the request that
  claimed it (`RowOfAnswered`).

**`FindingIngestionProofs`**

* `IngestionTyped`, `CompletedTogether` (`CompletedWithEvidence`), `AnsweredStored`
  (`EvidenceForAnswered`) and `OnlyOthersCollide` (`NoCollision`) hold of `Spec` for any
  reports, processes and pools. The invariant says of each submission what its
  stage knows: it stored the items before the one at hand and nothing else
  (`ItemsInOrder`, `StoredSoFar`); what it is about to save, it has inserted or
  found (`LoadedRow`); the unique key has one holder and the fingerprint lock one
  in each process (`KeyAlone`, `LockAlone`), so that a row which appears between
  look-up and insertion was stored by another process (`StoredElsewhere`), and the
  next look-up finds it: the attempts are never used up on an item that can be
  stored (`RetriedFound`).
* `StoredOnce` (`ObservedOnce`, which is about `SerialClients`): of a task one
  submission is under way at a time (`OneAtATime`), and as long as it has not
  found the task completed, all evidence of the task is its own (`StartsAfresh`).
* `StoreImplemented` (`ImplementsStore`): assumes `SerialFindings`, without which it
  is false (see the departures). A status change that is under way validated the
  status the row still has (`ChangeAlone`), and an item about to be saved decided
  on a status that is as good as the present one (`LoadedHolds`: a RESOLVED
  finding may have been reopened by another submission, which is where both
  lead). Then `Save` maps to `Observe` and the commit of a user to `ChangeStatus`;
  all other steps stutter. The times of the store are those of the clock, which
  is read once by each submission (`ClockInv`).

**`FindingQueriesProofs`**: `QueriesTyped`, `ShownOnce` (`NoneTwice`), `ShownAll`
(`NoneMissed`) and `DetailExplained` (`DetailCovered`), of `Spec` for any store, filter
and size of a page. The central lemma is `PlaceInList`: the i-th of a list in the
order of the query has exactly i - 1 findings before it, because the order is
total; this is where the tie-break by id is needed. From it, a page shows the
findings whose place is between its offsets (`PageHas`). Then two invariants carry
the proof from page to page: unless a finding moved up, what was shown and did not
change lies before the offset (`ShownBehind`), and unless one moved down, what was
not shown lies behind it (`RestInFront`). `TotalHolds` says when the total is large
enough for `has_more`. For the details, a row tells of an observation that is
stored (`RowObserved`), and evidence stays (`KnownStays`).

**`HostScanProofs`**: `ScanTyped`, `FilesTold` (`FilesAccounted`), `FailureExcused`
(`FailsForAReason`) and `ProcessesTold` (`ProcessesAccounted`), of `Spec` for any tasks,
limits and any number of changes of the host. Of files the invariant relates every
stage to the history of the path: what was said is true of it (`SaidTrue`), only
what was a regular file is checked, opened and read (`WasRegular`), and while
nobody touches the path since its `stat`, its size is the one that was compared with
the limit and the chunks read so far are its own (`SizeHolds`, `HashHolds`). Of
processes: who is suspicious throughout is waiting for its turn or reported
(`Pending`), and turns come by number (`TurnsInOrder`), so that whoever is cut off by
`max_processes` comes after all that were inspected.

**`AuthSessionsProofs`**: `SessionsTyped`, `RevocationFinal` (`RevokedForever`),
`AlarmComplete` (`AlarmRevokesAll`), `TokensApart` (`TokensKeptApart`),
`CarefulNoFalseAlarm` (`NoFalseAlarm`) and `CarefulLogout` (`LogoutRevokes`), of `Spec`
without further assumption. The invariant says that a request presents a token
that was issued and read the session it was issued for (`PresentsIssued`,
`ReadItsSession`; what closes a session, a logout or its expiry, is one lemma,
`CloseStep`), that an alarm selects no fewer sessions than there were when it
was set off (`KnownSelected`), and that a careful client holds the token its row has
(`CarefulHolds`). Requests whose answer is on its way never change again, which is
why an issued token keeps its session (`IssuedForGood`).

**`AgentConnectionProofs`**: `ConnectionTyped` and `RegistryAlive` (`NoDeadEntry`), which
with the types is inductive as it stands: a handler that returns empties the
registry, whoever is in it. (That it empties it of its successor too is the
departure named above.)

**`AgentRequestsProofs`**: `RequestsTyped`, `EffectAtMostOnce` (`AppliedOnce`),
`NonceWithChange` (`NonceIffApplied`) and `ClaimsForNonces` (`ClaimsAreRecorded`). The
invariant says that at most one delivery of a nonce is between its insertion and
its commit (`SoleOwner`), that an effect's nonce is recorded (`OwnerRecorded`), and
that deliveries stay on the path of their kind (`KindsApart`). The count of the
claims is an invariant of its own (`ClaimsCounted`): they are finitely many, though
the deliveries need not be.

**`EnrollmentProofs`**: `EnrollmentTyped`, `OneDevicePerCode` (`CodeEnrollsOne`),
`RedeemedOnce` (`RedeemedForGood`), and `CarefulHostCanSign` (`HostCanSign`), all
of `Spec` without further assumption. For the last one the invariant says that,
until a careless run is started, there is one key pair at most and whatever uses
a key uses the one in the keyring (`OneKeyInv`); that a careless run stays
started (`StartedStays`) makes the condition stable.

**What stays with TLC.** Liveness (`Reconnects`, `StopsWhileConnecting`, `Answered`),
which is out of reach of these provers together with whatever needs ENABLED; and
the three counterexamples of section 3, which are statements about one behaviour.
No module uses RECURSIVE operators or induction over data. The theorems are about
the modules: that a module is what the code does is shown by reading both, and
that an environment keeps a discipline (`Serial…`, `Careful`, `DeclaredCollation`) is
for the reader to decide.

## 5. What is not modelled

* Row-level security: which rows a session sees is decided by policies and roles
  of PostgreSQL. The setting is local to a transaction and the ingestion commits
  within it, but a role to which row security applies is already refused the
  look-up of the device, ahead of that.
* Signature verification, time windows, password hashing: pure checks ahead of any
  change of state. Fingerprints are given; that two findings share one is an
  input.
* The queries' other filters (severity, device, capability), which select rows the
  way the status does, and `list_tasks` and the other lists that are one SELECT.
  Health only reads.
* The scanners of users, ports, connections, startup entries and the firewall: each
  takes one look at the host (psutil, one command, one directory) and formats
  it. Which of their findings share a fingerprint is an input of `FindingIngestion`:
  a fingerprint is computed from the title, so that a summary whose title has a
  count in it is a new finding whenever the count changes.
* From a polled task to `execute_task`, and from its report to the backend: the
  agent has no such code.
* Middleware, logging, configuration, migrations, the Discord tables.
* Access tokens: signed, never stored, not revocable.

## 6. Plan

Done: `TaskEngine` with `TaskLifecycle`; `FindingIngestion` with `FindingStore`;
`FindingQueries`; `HostScan`; `AuthSessions`; `AgentConnection`; `AgentRequests`;
`Enrollment`; a proof module for each. What is left, in this order:

1. An abstract specification of "at most once" for `AgentRequests`, and that the
   nonce protocol implements it.
2. Compositions: poll, nonce, claim and connection in one module, to follow a task
   from the queue to the agent.
3. What the abstract specifications promise their readers, proved of them
   (`FindingStore`: a status changes along the table or by an observation;
   `TaskLifecycle`: a closed task stays closed), so that the refinements carry it
   over.
