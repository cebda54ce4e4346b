--------------------------- MODULE AgentRequests ---------------------------
(***************************************************************************)
(* The signed requests of one device: verify_agent_signature_headers with  *)
(* the acknowledge, start and result endpoints (api/v1/tasks.py), the poll *)
(* of api/v1/agent_tasks.py, and the handshake of api/v1/wss.py.           *)
(*                                                                         *)
(* A signed request carries a nonce of its own and may arrive more than    *)
(* once: each arrival is a delivery.  The nonce is looked up, and inserted *)
(* later under the unique key (device_id, nonce).  A change keeps it in    *)
(* the transaction of the change itself, and a change that turns out to be *)
(* refused, or made already, ends its session without a commit.  A poll    *)
(* and a handshake commit the nonce at once, with the heartbeat.           *)
(*                                                                         *)
(* Signatures and time stamps decide on what arrives alone, so a request   *)
(* that fails them changes nothing; nonces are never removed.  Which       *)
(* change a task admits is the matter of TaskEngine.                       *)
(***************************************************************************)
EXTENDS Naturals, FiniteSets

CONSTANTS
  Signed,      \* signed requests, by nonce
  KindOf,      \* "change", "poll" or "connect"
  Deliveries,
  QueueLength  \* tasks queued for the device

Kinds == {"change", "poll", "connect"}

ASSUME RequestsAssumption ==
  /\ KindOf \in [Signed -> Kinds]
  /\ QueueLength \in Nat

VARIABLES
  nonces,   \* committed nonce_caches rows
  applied,  \* deliveries whose effect is committed: a change, a claim or a
            \* registered connection
  queue,    \* how many tasks are queued
  del       \* what each delivery is doing

vars == <<nonces, applied, queue, del>>

Idle == [pc |-> "idle"]

DeliveryState ==
  {Idle}
  \cup [pc : {"record", "decide", "write", "effect", "ok", "noop", "empty",
              "refused", "error", "lost"}, of : Signed]

TypeOK ==
  /\ nonces \subseteq Signed
  /\ applied \subseteq Deliveries
  /\ queue \in 0..QueueLength
  /\ del \in [Deliveries -> DeliveryState]
  /\ \A d \in applied : del[d] # Idle

Init ==
  /\ nonces = {}
  /\ applied = {}
  /\ queue = QueueLength
  /\ del = [d \in Deliveries |-> Idle]

-----------------------------------------------------------------------------
Move(d, pc) == del' = [del EXCEPT ![d] = [pc |-> pc, of |-> del[d].of]]

At(d, pcs, kinds) == del[d].pc \in pcs /\ KindOf[del[d].of] \in kinds

\* A delivery whose transaction holds the unique key of its nonce.
HoldsKey(d, s) == del[d].pc \in {"decide", "write"} /\ del[d].of = s

\* The look-up of the nonce: a known one is refused as a replay.
Check(d, s) ==
  /\ del[d] = Idle
  /\ del' = [del EXCEPT ![d] = [pc |-> IF s \in nonces THEN "refused" ELSE "record",
                                of |-> s]]
  /\ UNCHANGED <<nonces, applied, queue>>

\* A mutation: nothing but the look-up tells duplicates apart.
InsertAnyway(d) ==
  /\ At(d, {"record"}, {"change"})
  /\ Move(d, "decide")
  /\ UNCHANGED <<nonces, applied, queue>>

\* The INSERT of the nonce waits for a transaction that inserted the same one,
\* and fails when that has committed.
Insert(d) ==
  /\ At(d, {"record"}, {"change"})
  /\ \A e \in Deliveries : ~HoldsKey(e, del[d].of)
  /\ Move(d, IF del[d].of \in nonces THEN "error" ELSE "decide")
  /\ UNCHANGED <<nonces, applied, queue>>

\* A mutation: the nonce is committed by itself, before the change.
DecideRecorded(d) ==
  /\ At(d, {"decide"}, {"change"})
  /\ nonces' = nonces \cup {del[d].of}
  /\ Move(d, "write")
  /\ UNCHANGED <<applied, queue>>

\* The handler reads the task: it refuses, or answers that the change is made
\* already, both without a commit, or it goes on.
Decide(d) ==
  /\ At(d, {"decide"}, {"change"})
  /\ \E pc \in {"refused", "noop", "write"} : Move(d, pc)
  /\ UNCHANGED <<nonces, applied, queue>>

\* The first commit of the handler carries the change and the nonce.  It may
\* fail, and a result whose findings are all dropped is answered without one.
Write(d) ==
  /\ At(d, {"write"}, {"change"})
  /\ \/ /\ nonces' = nonces \cup {del[d].of}
        /\ applied' = applied \cup {d}
        /\ Move(d, "ok")
     \/ /\ \E pc \in {"error", "noop"} : Move(d, pc)
        /\ UNCHANGED <<nonces, applied>>
  /\ UNCHANGED queue

\* A mutation: of a poll only the heartbeat is committed.
RecordHeartbeat(d) ==
  /\ At(d, {"record"}, {"poll", "connect"})
  /\ Move(d, IF del[d].of \in nonces THEN "error" ELSE "effect")
  /\ UNCHANGED <<nonces, applied, queue>>

\* A poll or a handshake commits its nonce and the heartbeat.
Record(d) ==
  /\ At(d, {"record"}, {"poll", "connect"})
  /\ Move(d, IF del[d].of \in nonces THEN "error" ELSE "effect")
  /\ nonces' = nonces \cup {del[d].of}
  /\ UNCHANGED <<applied, queue>>

\* A mutation: there is always a task.
ClaimBlindly(d) ==
  /\ At(d, {"effect"}, {"poll"})
  /\ queue' = queue - 1
  /\ applied' = applied \cup {d}
  /\ Move(d, "ok")
  /\ UNCHANGED nonces

\* Another poll has claimed a task, which may be the one that d selected.
Outrun == \E e \in applied : KindOf[del[e].of] = "poll"

\* Then a poll claims a task.  It comes back empty when there is none, and when it
\* loses the one it selected to another poll, although others may be queued.  A
\* handshake is registered.
Claim(d) ==
  /\ At(d, {"effect"}, {"poll"})
  /\ \/ /\ queue > 0
        /\ queue' = queue - 1
        /\ applied' = applied \cup {d}
        /\ Move(d, "ok")
     \/ /\ queue = 0 \/ Outrun
        /\ Move(d, "empty")
        /\ UNCHANGED <<queue, applied>>
  /\ UNCHANGED nonces

Connect(d) ==
  /\ At(d, {"effect"}, {"connect"})
  /\ applied' = applied \cup {d}
  /\ Move(d, "ok")
  /\ UNCHANGED <<nonces, queue>>

\* The connection or the process goes down: what is not committed is undone.
Drop(d) ==
  /\ At(d, {"record", "decide", "write", "effect"}, Kinds)
  /\ Move(d, "lost")
  /\ UNCHANGED <<nonces, applied, queue>>

Next ==
  \E d \in Deliveries :
    \/ \E s \in Signed : Check(d, s)
    \/ Insert(d) \/ Decide(d) \/ Write(d)
    \/ Record(d) \/ Claim(d) \/ Connect(d)
    \/ Drop(d)

Spec == Init /\ [][Next]_vars

-----------------------------------------------------------------------------
(***************************************************************************)
(* Properties.                                                             *)
(***************************************************************************)

\* However many copies of a signed request arrive, and however they overlap,
\* it takes effect at most once: the look-up only saves work, the unique key
\* and the transaction decide.
AppliedOnce ==
  \A d, e \in applied : del[d].of = del[e].of => d = e

\* A change and its nonce are on record together: whatever was refused, found
\* done already, failed or lost left its nonce unused, so that the agent may
\* send the same request again.
NonceIffApplied ==
  \A s \in Signed : KindOf[s] = "change" =>
    (s \in nonces <=> \E d \in applied : del[d].of = s)

\* No task leaves the queue but for a poll whose nonce is used up: a copy of
\* the poll that arrives later cannot claim another.
ClaimsAreRecorded ==
  /\ \A d \in applied : del[d].of \in nonces
  /\ queue + Cardinality({d \in applied : KindOf[del[d].of] = "poll"}) = QueueLength
=============================================================================
