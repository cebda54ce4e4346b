---------------------------- MODULE AuthSessions ----------------------------
(***************************************************************************)
(* The refresh sessions of one user: login, refresh_tokens and logout of   *)
(* api/v1/auth.py.  A user's requests touch no other user's sessions.      *)
(*                                                                         *)
(* Each handler SELECTs, awaits, and commits an UPDATE by id of the        *)
(* columns it changed, so other requests run between its steps.  A login   *)
(* creates the session row that bears its name, and every successful login *)
(* or refresh issues the refresh token that bears its name.                *)
(*                                                                         *)
(* Access tokens are signed and never stored.  A refresh token that has    *)
(* expired as a JWT is refused before any statement.  Its session row      *)
(* expires at about the same time, and is compared with a later reading of *)
(* the clock: it may have expired although the token has not.  How long a  *)
(* session lives is left open.                                             *)
(***************************************************************************)
EXTENDS FiniteSets

CONSTANTS
  Requests,
  NoToken,
  Careful     \* sessions whose client sends one request at a time, with the
              \* last token it was given, and loses no answer

ASSUME AuthAssumption ==
  /\ NoToken \notin Requests
  /\ Careful \subseteq Requests

VARIABLES
  token,    \* user_sessions.refresh_token_hash, NoToken before the login
  revoked,  \* the sessions whose revoked_at is set
  held,     \* the last refresh token the client of a session was given
  req       \* what each request is doing

vars == <<token, revoked, held, req>>

Sessions == {s \in Requests : token[s] # NoToken}

Idle == [pc |-> "idle"]

RequestState ==
  {Idle}
  \cup [pc : {"rotate", "rotated", "expire", "logout"}, by : Requests,
        session : Requests]
  \cup [pc : {"reuse"}, by : Requests, known : SUBSET Requests]
  \cup [pc : {"revoke"}, by : Requests, known : SUBSET Requests,
        seen : SUBSET Requests]
  \cup [pc : {"alarm"}, known : SUBSET Requests]
  \cup [pc : {"loggedOut"}, by : Requests]
  \cup [pc : {"loggedIn", "expired"}]

TypeOK ==
  /\ token \in [Requests -> Requests \cup {NoToken}]
  /\ revoked \subseteq Sessions
  /\ held \in [Requests -> Requests \cup {NoToken}]
  /\ req \in [Requests -> RequestState]

Init ==
  /\ token = [s \in Requests |-> NoToken]
  /\ revoked = {}
  /\ held = [s \in Requests |-> NoToken]
  /\ req = [r \in Requests |-> Idle]

-----------------------------------------------------------------------------
Become(r, state) == req' = [req EXCEPT ![r] = state]

\* The session a refresh token was issued for, by a login or a refresh.
SessionOf(k) == IF req[k].pc = "rotated" THEN req[k].session ELSE k

Issued == {k \in Requests : req[k].pc \in {"loggedIn", "rotated"}}

Busy(s) ==
  \E q \in Requests :
    /\ req[q].pc \in {"rotate", "expire", "logout", "reuse", "revoke"}
    /\ SessionOf(req[q].by) = s

\* The tokens a client may present.
Presented(k) ==
  /\ k \in Issued
  /\ SessionOf(k) \in Careful => held[SessionOf(k)] = k /\ ~Busy(SessionOf(k))

\* SELECT ... WHERE refresh_token_hash = hash_token(k)
Matching(k) == {s \in Requests : token[s] = k}

-----------------------------------------------------------------------------
Login(r) ==
  /\ req[r] = Idle
  /\ token' = [token EXCEPT ![r] = r]
  /\ held' = [held EXCEPT ![r] = r]
  /\ Become(r, [pc |-> "loggedIn"])
  /\ UNCHANGED revoked

\* A token that matches no session, or a revoked one, counts as reused; an open
\* session is rotated, unless it has expired.
RefreshRead(r, k) ==
  /\ req[r] = Idle
  /\ Presented(k)
  /\ \/ \E s \in Matching(k) \ revoked :
          \E pc \in {"rotate", "expire"} :
            Become(r, [pc |-> pc, by |-> k, session |-> s])
     \/ /\ Matching(k) \ revoked = {}
        /\ Become(r, [pc |-> "reuse", by |-> k, known |-> Sessions])
  /\ UNCHANGED <<token, revoked, held>>

\* A mutation: the first session found stands for all of the user's.
RevokeSelectOne(r) ==
  /\ req[r].pc = "reuse"
  /\ \E s \in Sessions :
       Become(r, [pc |-> "revoke", by |-> req[r].by, known |-> req[r].known,
                  seen |-> {s}])
  /\ UNCHANGED <<token, revoked, held>>

\* Reuse: select all the user's sessions, then revoke those selected.
RevokeSelect(r) ==
  /\ req[r].pc = "reuse"
  /\ Become(r, [pc |-> "revoke", by |-> req[r].by, known |-> req[r].known,
                seen |-> Sessions])
  /\ UNCHANGED <<token, revoked, held>>

RevokeCommit(r) ==
  /\ req[r].pc = "revoke"
  /\ revoked' = revoked \cup req[r].seen
  /\ Become(r, [pc |-> "alarm", known |-> req[r].known])
  /\ UNCHANGED <<token, held>>

\* Mutations: the whole row is written back as it was loaded; the new token is
\* stored under the name of the old one; it is cleared; it is never stored.
RotateCommitRow(r) ==
  /\ req[r].pc = "rotate"
  /\ token' = [token EXCEPT ![req[r].session] = r]
  /\ held' = [held EXCEPT ![req[r].session] = r]
  /\ revoked' = revoked \ {req[r].session}
  /\ Become(r, [req[r] EXCEPT !.pc = "rotated"])
RotateCommitElsewhere(r) ==
  /\ req[r].pc = "rotate"
  /\ token' = [token EXCEPT ![req[r].by] = r]
  /\ held' = [held EXCEPT ![req[r].session] = r]
  /\ Become(r, [req[r] EXCEPT !.pc = "rotated"])
  /\ UNCHANGED revoked
RotateCommitCleared(r) ==
  /\ req[r].pc = "rotate"
  /\ token' = [token EXCEPT ![req[r].session] = NoToken]
  /\ Become(r, [req[r] EXCEPT !.pc = "rotated"])
  /\ UNCHANGED <<revoked, held>>
RotateCommitUnstored(r) ==
  /\ req[r].pc = "rotate"
  /\ held' = [held EXCEPT ![req[r].session] = r]
  /\ Become(r, [req[r] EXCEPT !.pc = "rotated"])
  /\ UNCHANGED <<token, revoked>>

\* The answer may be lost; only then does the client keep its old token.
RotateCommit(r) ==
  /\ req[r].pc = "rotate"
  /\ token' = [token EXCEPT ![req[r].session] = r]
  /\ \/ held' = [held EXCEPT ![SessionOf(req[r].by)] = r]
     \/ SessionOf(req[r].by) \notin Careful /\ UNCHANGED held
  /\ Become(r, [req[r] EXCEPT !.pc = "rotated"])
  /\ UNCHANGED revoked

\* The row of an expired session is revoked, by id, whatever it was rotated to.
ExpireCommit(r) ==
  /\ req[r].pc = "expire"
  /\ revoked' = revoked \cup {req[r].session}
  /\ Become(r, [pc |-> "expired"])
  /\ UNCHANGED <<token, held>>

\* A token that matches no open session is logged out already.
LogoutRead(r, k) ==
  /\ req[r] = Idle
  /\ Presented(k)
  /\ \/ \E s \in Matching(k) \ revoked :
          Become(r, [pc |-> "logout", by |-> k, session |-> s])
     \/ /\ Matching(k) \ revoked = {}
        /\ Become(r, [pc |-> "loggedOut", by |-> k])
  /\ UNCHANGED <<token, revoked, held>>

\* A mutation: the session is looked up and left as it is.
LogoutCommitNothing(r) ==
  /\ req[r].pc = "logout"
  /\ Become(r, [pc |-> "loggedOut", by |-> req[r].by])
  /\ UNCHANGED <<token, revoked, held>>

LogoutCommit(r) ==
  /\ req[r].pc = "logout"
  /\ revoked' = revoked \cup {req[r].session}
  /\ Become(r, [pc |-> "loggedOut", by |-> req[r].by])
  /\ UNCHANGED <<token, held>>

Next ==
  \E r \in Requests :
    \/ Login(r)
    \/ \E k \in Requests : RefreshRead(r, k) \/ LogoutRead(r, k)
    \/ RevokeSelect(r)
    \/ RevokeCommit(r)
    \/ RotateCommit(r) \/ ExpireCommit(r)
    \/ LogoutCommit(r)

Spec == Init /\ [][Next]_vars

-----------------------------------------------------------------------------
(***************************************************************************)
(* Properties.                                                             *)
(***************************************************************************)

\* Revocation is final: a rotation that read its session before the session was
\* revoked, and commits after it, does not bring the session back.
RevokedForever == [][revoked \subseteq revoked']_vars

\* Once the answer to a reused token is sent, every session that existed when
\* the reuse was noticed is revoked, however many were rotated meanwhile.
AlarmRevokesAll ==
  \A r \in Requests : req[r].pc = "alarm" => req[r].known \subseteq revoked

\* Two sessions never share a refresh token, and no token reopens another's
\* session: rotations that overlap stay within the session they read.
TokensKeptApart ==
  \A s \in Sessions : token[s] \in Issued /\ SessionOf(token[s]) = s

\* A client that sends one request at a time with its last token is never taken
\* for one that reuses a token, unless its session was revoked: by its logout, as
\* it had expired, or by the alarm another session of the user set off.
NoFalseAlarm ==
  \A r \in Requests :
    (req[r].pc \in {"reuse", "revoke"} /\ SessionOf(req[r].by) \in Careful) =>
      SessionOf(req[r].by) \in revoked

\* auth.py, logout: "Revoke user refresh session": a careful client that is told
\* "Successfully logged out" has no open session left, whatever the others do.
\* Others may present a token that has been rotated, and are told the same.
LogoutRevokes ==
  \A r \in Requests :
    (req[r].pc = "loggedOut" /\ SessionOf(req[r].by) \in Careful) =>
      SessionOf(req[r].by) \in revoked
=============================================================================
