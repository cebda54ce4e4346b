------------------------ MODULE AgentConnectionProofs ------------------------
(***************************************************************************)
(* Theorems about AgentConnection, for any connections, tasks and limits.  *)
(***************************************************************************)
EXTENDS AgentConnection, TLAPS

\* Inductive as it stands: only a handler that serves is ever registered, and the
\* one that returns empties the registry, whoever is in it.
IInv == TypeOK /\ NoDeadEntry

LEMMA InitInv == Init => IInv
  <1> SUFFICES ASSUME Init PROVE IInv
    OBVIOUS
  <1>1. client \in Client /\ client.pc = "loop"
    BY DEF Init, Client
  <1>2. /\ shouldStop \in BOOLEAN /\ active = NoConn /\ broken \subseteq Conns
        /\ handler \in [Conns -> {"none", "verify", "accept", "register", "welcome", "serve"}]
        /\ task \in [Tasks -> {"QUEUED", "DELIVERED"}]
        /\ trouble \in 0..MaxTrouble
    <2>1. shouldStop \in BOOLEAN
      BY Zenon DEF Init
    <2>2. /\ active = NoConn /\ broken \subseteq Conns
          /\ handler \in [Conns -> {"none", "verify", "accept", "register",
                                   "welcome", "serve"}]
          /\ task \in [Tasks -> {"QUEUED", "DELIVERED"}]
      BY DEF Init
    <2>3. trouble \in 0..MaxTrouble
      BY ConnectionAssumption DEF Init
    <2>4. QED
      BY <2>1, <2>2, <2>3
  <1>3. QED
    BY <1>1, <1>2 DEF IInv, TypeOK, NoDeadEntry

LEMMA FailedTyped ==
  ASSUME TypeOK, Failed
  PROVE  client' \in Client /\ client'.pc \in {"poll", "backoff"}
  <1>1. client \in Client /\ client.attempt + 1 \in Nat
    BY DEF TypeOK, Client
  <1>2. PICK pc \in {"poll", "backoff"} :
          client' = [client EXCEPT !.pc = pc, !.conn = NoConn,
                                   !.attempt = client.attempt + 1, !.isConnected = FALSE]
    BY <1>1 DEF Failed, Client
  <1>3. QED
    BY <1>1, <1>2 DEF Client

LEMMA StepInv == IInv /\ [Next]_vars => IInv'
  <1> SUFFICES ASSUME IInv, [Next]_vars PROVE IInv'
    OBVIOUS
  <1> USE ConnectionAssumption DEF IInv
  <1>1. CASE UNCHANGED vars
    BY <1>1 DEF vars, TypeOK, NoDeadEntry
  <1>2. ASSUME NEW c \in Conns, Gateway(c) PROVE IInv'
    BY <1>2 DEF Gateway, Verify, Accept, Register, Welcome, Hangup, Serve, TypeOK,
       NoDeadEntry
  <1>3. ASSUME NEW c \in Conns, Break(c) \/ Refuse(c) PROVE IInv'
    BY <1>3 DEF Break, Refuse, Troubled, Serve, TypeOK, NoDeadEntry
  <1>4. ASSUME NEW c \in Conns, Connect(c) PROVE IInv'
    BY <1>4 DEF Connect, TypeOK, Client, NoDeadEntry
  <1>5. CASE Opened \/ Received \/ Quit
    <2>1. /\ UNCHANGED <<shouldStop, handler, active, task, trouble>>
          /\ broken' \subseteq Conns
      BY <1>5 DEF Opened, Received, Quit, server, TypeOK
    <2>2. /\ client' \in Client
          /\ client'.pc \in {"handshake", "welcome", "recv"} => client'.conn \in Conns
      <3>1. CASE Opened
        BY <3>1 DEF Opened, TypeOK, Client
      <3>2. CASE Received
        BY <3>2 DEF Received, TypeOK, Client
      <3>3. CASE Quit
        BY <3>3 DEF Quit, TypeOK, Client
      <3>4. QED
        BY <1>5, <3>1, <3>2, <3>3
    <2>3. QED
      BY <2>1, <2>2 DEF TypeOK, NoDeadEntry
  <1>6. CASE Lost \/ Unreachable
    BY <1>6, FailedTyped DEF Lost, Unreachable, Troubled, server, TypeOK, NoDeadEntry
  <1>7. CASE Poll
    BY <1>7 DEF Poll, server, TypeOK, Client, NoDeadEntry
  <1>8. CASE Backoff
    BY <1>8 DEF Backoff, server, TypeOK, Client, NoDeadEntry
  <1>9. CASE stop
    BY <1>9 DEF stop, server, TypeOK, NoDeadEntry
  <1>10. QED
    BY <1>1, <1>2, <1>3, <1>4, <1>5, <1>6, <1>7, <1>8, <1>9 DEF Next, Run

LEMMA Invariant == Spec => []IInv
  BY InitInv, StepInv, PTL DEF Spec

\* The state stays of its type: a client that is opening or using a connection
\* keeps it.
THEOREM ConnectionTyped == Spec => []TypeOK
  BY Invariant, PTL DEF IInv

\* The registry of the server never holds a connection whose handler has returned,
\* for any number of old connections that linger, register late and end early.
THEOREM RegistryAlive == Spec => []NoDeadEntry
  BY Invariant, PTL DEF IInv
=============================================================================
