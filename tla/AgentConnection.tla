-------------------------- MODULE AgentConnection --------------------------
(***************************************************************************)
(* The outbound WebSocket of one device: AgentWSSClient.connect_and_run of *)
(* the agent (connection/wss_client.py, rest_client.py), and on the server *)
(* the handler agent_wss_gateway with the ConnectionManager of one process *)
(* (api/v1/wss.py).                                                        *)
(*                                                                         *)
(* A connection that breaks is noticed at each end on its own, in any      *)
(* order, by an error or a ping timeout: the client may be on its next     *)
(* connection while the server still serves the last one.  A connection is *)
(* the member of Conns that carries it; a member is used again when its    *)
(* handler has returned.  The order in which a handshake is verified is    *)
(* that of AgentRequests; the message callback keeps no state.             *)
(***************************************************************************)
EXTENDS Naturals

CONSTANTS
  Conns,
  NoConn,
  Tasks,                 \* tasks queued for the device
  MaxReconnectAttempts,  \* failures in a row before REST is polled (5)
  MaxExponent,           \* the greatest k with 1.0 * 2^k a float (1023)
  MaxTrouble             \* bound: broken, refused and failed connections

ASSUME ConnectionAssumption ==
  /\ NoConn \notin Conns
  /\ MaxReconnectAttempts \in Nat \ {0}
  /\ MaxExponent \in Nat
  /\ MaxTrouble \in Nat

VARIABLES
  client,      \* where connect_and_run is: its connection, `attempt` and flag
  shouldStop,  \* should_stop
  handler,     \* where the server's handler of each connection is
  active,      \* active_connections[device_id]
  broken,      \* connections whose transport is gone
  task,        \* tasks.status
  trouble      \* how many times something broke

vars == <<client, shouldStop, handler, active, broken, task, trouble>>

server == <<handler, active, broken>>

Client == [pc : {"loop", "handshake", "welcome", "recv", "poll", "backoff",
                 "stopped", "crashed"},
           conn : Conns \cup {NoConn}, attempt : Nat, isConnected : BOOLEAN]

TypeOK ==
  /\ client \in Client
  /\ shouldStop \in BOOLEAN
  /\ handler \in [Conns -> {"none", "verify", "accept", "register", "welcome",
                            "serve"}]
  /\ active \in Conns \cup {NoConn}
  /\ broken \subseteq Conns
  /\ task \in [Tasks -> {"QUEUED", "DELIVERED"}]
  /\ trouble \in 0..MaxTrouble
  /\ client.pc \in {"handshake", "welcome", "recv"} => client.conn \in Conns

Init ==
  /\ client = [pc |-> "loop", conn |-> NoConn, attempt |-> 0,
               isConnected |-> FALSE]
  /\ shouldStop = FALSE
  /\ handler = [c \in Conns |-> "none"]
  /\ active = NoConn
  /\ broken = {}
  /\ task = [t \in Tasks |-> "QUEUED"]
  /\ trouble = 0

-----------------------------------------------------------------------------
(* The server's handler.                                                   *)

Serve(c, from, to) == handler[c] = from /\ handler' = [handler EXCEPT ![c] = to]

\* The handshake is verified and its nonce and the heartbeat are committed.
Verify(c) ==
  /\ Serve(c, "verify", "accept")
  /\ UNCHANGED <<client, shouldStop, active, broken, task, trouble>>

\* websocket.accept() may fail when the client is gone, and then nothing has
\* been registered.
Accept(c) ==
  /\ \/ Serve(c, "accept", "register")
     \/ c \in broken /\ Serve(c, "accept", "none")
  /\ UNCHANGED <<client, shouldStop, active, broken, task, trouble>>

Register(c) ==
  /\ Serve(c, "register", "welcome")
  /\ active' = c
  /\ UNCHANGED <<client, shouldStop, broken, task, trouble>>

Welcome(c) ==
  /\ Serve(c, "welcome", "serve")
  /\ UNCHANGED <<client, shouldStop, active, broken, task, trouble>>

\* A mutation: the entry of the registry is left when the handler returns.
HangupKeep(c) ==
  /\ handler[c] \in {"welcome", "serve"}
  /\ c \in broken
  /\ handler' = [handler EXCEPT ![c] = "none"]
  /\ UNCHANGED <<client, shouldStop, active, broken, task, trouble>>

\* manager.disconnect removes whatever is registered for the device.
Hangup(c) ==
  /\ handler[c] \in {"welcome", "serve"}
  /\ c \in broken
  /\ handler' = [handler EXCEPT ![c] = "none"]
  /\ active' = NoConn
  /\ UNCHANGED <<client, shouldStop, broken, task, trouble>>

Gateway(c) == Verify(c) \/ Accept(c) \/ Register(c) \/ Welcome(c) \/ Hangup(c)

-----------------------------------------------------------------------------
(* The client.                                                             *)

\* A mutation: the client does not keep the connection it is opening.
ConnectBlind(c) ==
  /\ client.pc = "loop" /\ ~shouldStop
  /\ handler[c] = "none"
  /\ client' = [client EXCEPT !.pc = "handshake"]
  /\ handler' = [handler EXCEPT ![c] = "verify"]
  /\ broken' = broken \ {c}
  /\ UNCHANGED <<shouldStop, active, task, trouble>>

Connect(c) ==
  /\ client.pc = "loop" /\ ~shouldStop
  /\ handler[c] = "none"
  /\ client' = [client EXCEPT !.pc = "handshake", !.conn = c]
  /\ handler' = [handler EXCEPT ![c] = "verify"]
  /\ broken' = broken \ {c}
  /\ UNCHANGED <<shouldStop, active, task, trouble>>

Opened ==
  /\ client.pc = "handshake" /\ client.conn \notin broken
  /\ handler[client.conn] \in {"register", "welcome", "serve"}
  /\ client' = [client EXCEPT !.pc = "welcome", !.attempt = 0,
                              !.isConnected = TRUE]
  /\ UNCHANGED <<shouldStop, server, task, trouble>>

\* A mutation: the flag is not looked at when a connection is made.
ReceivedAnyway ==
  /\ client.pc = "welcome" /\ client.conn \notin broken
  /\ handler[client.conn] = "serve"
  /\ client' = [client EXCEPT !.pc = "recv"]
  /\ UNCHANGED <<shouldStop, server, task, trouble>>

\* The welcome message; should_stop is looked at before the next recv(), and
\* leaving the block closes the connection.
Received ==
  /\ client.pc = "welcome" /\ client.conn \notin broken
  /\ handler[client.conn] = "serve"
  /\ IF shouldStop
     THEN /\ client' = [client EXCEPT !.pc = "stopped"]
          /\ broken' = broken \cup {client.conn}
     ELSE client' = [client EXCEPT !.pc = "recv"] /\ UNCHANGED broken
  /\ UNCHANGED <<shouldStop, handler, active, task, trouble>>

\* The except branch: count the failure, and from the limit on poll by REST.
Failed ==
  client' = [client EXCEPT
               !.pc = IF client.attempt + 1 >= MaxReconnectAttempts
                      THEN "poll" ELSE "backoff",
               !.conn = NoConn, !.attempt = @ + 1, !.isConnected = FALSE]

Lost ==
  /\ client.pc \in {"handshake", "welcome", "recv"}
  /\ client.conn \in broken
  /\ Failed
  /\ UNCHANGED <<shouldStop, server, task, trouble>>

\* poll_tasks: the server claims a queued task for the answer, or the call
\* fails; connect_and_run drops either result.
Poll ==
  /\ client.pc = "poll"
  /\ client' = [client EXCEPT !.pc = "backoff"]
  /\ \/ \E t \in Tasks : /\ task[t] = "QUEUED"
                         /\ task' = [task EXCEPT ![t] = "DELIVERED"]
     \/ UNCHANGED task
  /\ UNCHANGED <<shouldStop, server, trouble>>

\* A mutation: the client goes to sleep for good when it is in the fallback.
BackoffForever ==
  /\ client.pc = "backoff"
  /\ client.attempt < MaxReconnectAttempts
  /\ client' = [client EXCEPT !.pc = "loop"]
  /\ UNCHANGED <<shouldStop, server, task, trouble>>

\* min(base * 2 ** (attempt - 1), max): the product is computed first, and
\* raises OverflowError once the power is beyond the range of a float.
Backoff ==
  /\ client.pc = "backoff"
  /\ client' = [client EXCEPT
                  !.pc = IF client.attempt - 1 > MaxExponent THEN "crashed"
                                                             ELSE "loop"]
  /\ UNCHANGED <<shouldStop, server, task, trouble>>

Quit ==
  /\ client.pc = "loop" /\ shouldStop
  /\ client' = [client EXCEPT !.pc = "stopped"]
  /\ UNCHANGED <<shouldStop, server, task, trouble>>

Run ==
  \/ \E c \in Conns : Connect(c)
  \/ Opened \/ Received \/ Lost \/ Poll \/ Backoff \/ Quit

-----------------------------------------------------------------------------
(* What the host and the network do.                                       *)

stop ==
  /\ ~shouldStop
  /\ shouldStop' = TRUE
  /\ UNCHANGED <<client, server, task, trouble>>

Troubled == trouble < MaxTrouble /\ trouble' = trouble + 1

\* The transport of a connection is gone, or its handshake takes too long.
Break(c) ==
  /\ Troubled
  /\ handler[c] # "none"
  /\ broken' = broken \cup {c}
  /\ UNCHANGED <<client, shouldStop, handler, active, task>>

\* The server refuses a handshake: the database is down, the clock is off.
Refuse(c) ==
  /\ Troubled
  /\ Serve(c, "verify", "none")
  /\ broken' = broken \cup {c}
  /\ UNCHANGED <<client, shouldStop, active, task>>

\* No connection at all.
Unreachable ==
  /\ Troubled
  /\ client.pc = "loop" /\ ~shouldStop
  /\ Failed
  /\ UNCHANGED <<shouldStop, server, task>>

Next ==
  \/ Run
  \/ stop
  \/ Unreachable
  \/ \E c \in Conns : Gateway(c) \/ Break(c) \/ Refuse(c)

Spec == Init /\ [][Next]_vars

\* Both event loops run, and the ping timeouts of both ends and the open
\* timeout of the client make each of them notice a broken connection.
FairSpec == Spec /\ WF_vars(Run) /\ \A c \in Conns : WF_vars(Gateway(c))

-----------------------------------------------------------------------------
(***************************************************************************)
(* Properties.                                                             *)
(***************************************************************************)

\* The registry never holds a connection whose handler has returned, in
\* whatever order handlers of old and new connections register and end.
NoDeadEntry ==
  active # NoConn => handler[active] \in {"welcome", "serve"}

\* When the trouble is over the client is connected again, or was stopped,
\* however the old connections linger at the server and however long the
\* fallback lasted.
Reconnects == <>[](client.pc \in {"recv", "stopped"})

\* A client told to stop while it is not yet receiving does stop, and is not
\* caught by a connection that is made meanwhile.
StopsWhileConnecting ==
  shouldStop /\ client.pc # "recv" ~> client.pc = "stopped"

\* CODEBASE_AUDIT_REPORT: "exponential backoff reconnect logic (1s, 2s, 4s,
\* 8s... max 30s)": the client goes on trying until it is stopped.
KeepsTrying == client.pc # "crashed"
=============================================================================
