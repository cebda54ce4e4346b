------------------------- MODULE AuthSessionsProofs -------------------------
(***************************************************************************)
(* Theorems about AuthSessions, for any number of requests and sessions.   *)
(***************************************************************************)
EXTENDS AuthSessions, TLAPS

-----------------------------------------------------------------------------
(* The strengthening.                                                      *)

\* The rows of user_sessions are those that a login made.
SessionsLoggedIn ==
  \A s \in Requests : token[s] # NoToken <=> req[s].pc = "loggedIn"

\* A request presents a token that was issued, and what it read under it is the
\* session the token was issued for.
PresentsIssued ==
  \A q \in Requests :
    req[q].pc \in {"rotate", "rotated", "expire", "logout",
                   "reuse", "revoke", "loggedOut"}
      => req[q].by \in Issued

ReadItsSession ==
  \A q \in Requests :
    req[q].pc \in {"rotate", "rotated", "expire", "logout"} =>
      /\ req[q].session \in Sessions
      /\ req[q].session = SessionOf(req[q].by)

\* The alarm selects no fewer sessions than there were when it was set off.
KnownSelected ==
  \A q \in Requests :
    /\ req[q].pc = "reuse" => req[q].known \subseteq Sessions
    /\ req[q].pc = "revoke" => /\ req[q].known \subseteq req[q].seen
                               /\ req[q].seen \subseteq Sessions

\* A careful client has the token that its session has.
CarefulHolds == \A s \in Careful \cap Sessions : held[s] = token[s]

IInv ==
  /\ TypeOK
  /\ SessionsLoggedIn
  /\ PresentsIssued
  /\ ReadItsSession
  /\ KnownSelected
  /\ CarefulHolds
  /\ AlarmRevokesAll
  /\ TokensKeptApart
  /\ NoFalseAlarm
  /\ LogoutRevokes

-----------------------------------------------------------------------------
LEMMA InitInv == Init => IInv
  BY AuthAssumption
  DEF Init, IInv, TypeOK, RequestState, Idle, SessionsLoggedIn, PresentsIssued,
      ReadItsSession, KnownSelected, CarefulHolds, AlarmRevokesAll,
      TokensKeptApart, NoFalseAlarm, LogoutRevokes, Sessions

\* What each stage of a request knows.
LEMMA RequestFields ==
  ASSUME TypeOK, NEW q \in Requests
  PROVE  /\ req[q].pc \in {"rotate", "rotated", "expire", "logout"} =>
              /\ req[q] \in [pc : {"rotate", "rotated", "expire", "logout"}, by : Requests,
                             session : Requests]
         /\ req[q].pc = "reuse" =>
              req[q] \in [pc : {"reuse"}, by : Requests, known : SUBSET Requests]
         /\ req[q].pc = "revoke" =>
              req[q] \in [pc : {"revoke"}, by : Requests,
                          known : SUBSET Requests, seen : SUBSET Requests]
         /\ req[q].pc = "loggedOut" => req[q].by \in Requests
  BY DEF TypeOK, RequestState, Idle

\* A token that was issued stays issued, for the same session: the request that
\* issued it has ended, and another one moves.
LEMMA IssuedForGood ==
  ASSUME TypeOK, NEW r \in Requests, NEW state, Become(r, state),
         req[r].pc \notin {"loggedIn", "rotated"}
  PROVE  /\ req'[r] = state
         /\ \A q \in Requests \ {r} : req'[q] = req[q]
         /\ \A k \in Issued :
              k \in Requests /\ k # r /\ k \in Issued' /\ SessionOf(k)' = SessionOf(k)
  BY DEF TypeOK, Become, Issued, SessionOf

\* The session of an issued token exists.
LEMMA IssuedHasSession ==
  ASSUME IInv, NEW k \in Issued
  PROVE  SessionOf(k) \in Sessions
  BY DEF IInv, Issued, SessionOf, SessionsLoggedIn, ReadItsSession, Sessions

\* What is true of the requests that do not move stays true.
LEMMA OthersKept ==
  ASSUME IInv, NEW r \in Requests, NEW state, Become(r, state),
         req[r].pc \notin {"loggedIn", "rotated"},
         Sessions \subseteq Sessions', revoked \subseteq revoked',
         NEW q \in Requests \ {r}
  PROVE  /\ req'[q] = req[q]
         /\ req[q].pc \in {"rotate", "rotated", "expire", "logout",
                           "reuse", "revoke", "loggedOut"}
              => /\ req'[q].by \in Issued'
                 /\ SessionOf(req[q].by)' = SessionOf(req[q].by)
         /\ req[q].pc \in {"rotate", "rotated", "expire", "logout"} =>
              /\ req'[q].session \in Sessions'
              /\ req'[q].session = SessionOf(req[q].by)'
         /\ req[q].pc = "reuse" => req'[q].known \subseteq Sessions'
         /\ req[q].pc = "revoke" => /\ req'[q].known \subseteq req'[q].seen
                                    /\ req'[q].seen \subseteq Sessions'
         /\ req[q].pc = "alarm" => req'[q].known \subseteq revoked'
         /\ /\ req[q].pc \in {"reuse", "revoke", "loggedOut"}
            /\ SessionOf(req[q].by)' \in Careful
            => SessionOf(req[q].by)' \in revoked'
  <1>1. /\ req'[q] = req[q]
        /\ \A k \in Issued :
             k \in Requests /\ k # r /\ k \in Issued' /\ SessionOf(k)' = SessionOf(k)
    BY IssuedForGood DEF IInv
  <1>2. req[q].pc \in {"rotate", "rotated", "expire", "logout",
                       "reuse", "revoke", "loggedOut"}
          => req[q].by \in Issued
    BY DEF IInv, PresentsIssued
  <1>3. req[q].pc \in {"rotate", "rotated", "expire", "logout"} =>
          /\ req[q].session \in Sessions'
          /\ req[q].session = SessionOf(req[q].by)'
    BY <1>1, <1>2 DEF IInv, ReadItsSession
  <1>4. /\ req[q].pc = "reuse" => req[q].known \subseteq Sessions'
        /\ req[q].pc = "revoke" => /\ req[q].known \subseteq req[q].seen
                                   /\ req[q].seen \subseteq Sessions'
        /\ req[q].pc = "alarm" => req[q].known \subseteq revoked'
    BY DEF IInv, KnownSelected, AlarmRevokesAll
  <1>5. /\ req[q].pc \in {"reuse", "revoke", "loggedOut"}
        /\ SessionOf(req[q].by) \in Careful
        => SessionOf(req[q].by) \in revoked'
    BY DEF IInv, NoFalseAlarm, LogoutRevokes
  <1>6. req'[q].by = req[q].by /\ req'[q].session = req[q].session
    BY <1>1
  <1>7. req[q].pc \in {"rotate", "rotated", "expire", "logout",
                       "reuse", "revoke", "loggedOut"}
          => /\ req'[q].by \in Issued'
             /\ SessionOf(req[q].by)' = SessionOf(req[q].by)
    BY <1>1, <1>2 DEF SessionOf
  <1>8. QED
    BY <1>1, <1>3, <1>4, <1>5, <1>6, <1>7

-----------------------------------------------------------------------------
(* Each step keeps the strengthening.                                      *)

LEMMA LoginStep ==
  ASSUME IInv, NEW r \in Requests, Login(r)
  PROVE  IInv'
  <1> USE DEF IInv
  <1>1. req[r].pc = "idle" /\ Become(r, [pc |-> "loggedIn"])
    BY DEF Login, Idle
  <1>2. /\ token[r] = NoToken
        /\ \A s \in Requests : token'[s] = IF s = r THEN r ELSE token[s]
        /\ \A s \in Requests : held'[s] = IF s = r THEN r ELSE held[s]
        /\ UNCHANGED revoked
    BY <1>1 DEF Login, SessionsLoggedIn, TypeOK
  <1>3. Sessions' = Sessions \cup {r} /\ r \notin Sessions
    BY <1>2, AuthAssumption DEF Sessions
  <1>4. /\ req'[r] = [pc |-> "loggedIn"]
        /\ \A q \in Requests \ {r} : req'[q] = req[q]
        /\ \A k \in Issued :
             k \in Requests /\ k # r /\ k \in Issued' /\ SessionOf(k)' = SessionOf(k)
        /\ r \in Issued' /\ SessionOf(r)' = r
    BY <1>1, IssuedForGood DEF Issued, SessionOf
  <1>5. TypeOK'
    BY <1>1, <1>2, <1>3 DEF Login, Become, TypeOK, RequestState
  <1>6. SessionsLoggedIn' /\ CarefulHolds'
    BY <1>2, <1>3, <1>4, AuthAssumption DEF SessionsLoggedIn, CarefulHolds
  <1>7. PresentsIssued' /\ ReadItsSession' /\ KnownSelected'
        /\ AlarmRevokesAll' /\ NoFalseAlarm' /\ LogoutRevokes'
    BY <1>1, <1>2, <1>3, <1>4, OthersKept
    DEF PresentsIssued, ReadItsSession, KnownSelected, AlarmRevokesAll,
        NoFalseAlarm, LogoutRevokes
  <1>8. TokensKeptApart'
    <2>1. \A s \in Sessions :
            token'[s] = token[s] /\ token[s] \in Issued /\ SessionOf(token[s]) = s
      BY <1>2, <1>3 DEF Sessions, TokensKeptApart
    <2>2. token'[r] = r
      BY <1>2
    <2>3. \A s \in Sessions' : token'[s] \in Issued' /\ SessionOf(token[s])' = s
      BY <1>3, <1>4, <2>1, <2>2 DEF SessionOf
    <2>4. QED
      BY <2>3 DEF TokensKeptApart
  <1>9. QED
    BY <1>5, <1>6, <1>7, <1>8

\* What a request that only reads leaves as it was.
LEMMA ReadingKeeps ==
  ASSUME IInv, NEW r \in Requests, NEW state, Become(r, state),
         req[r].pc \notin {"loggedIn", "rotated"},
         state.pc \notin {"loggedIn", "rotated"}, state \in RequestState,
         UNCHANGED <<token, held>>, revoked \subseteq revoked',
         revoked' \subseteq Sessions
  PROVE  TypeOK' /\ SessionsLoggedIn' /\ CarefulHolds' /\ TokensKeptApart'
  <1> USE DEF IInv
  <1>1. Sessions' = Sessions
    BY DEF Sessions
  <1>2. /\ req'[r] = state
        /\ \A q \in Requests \ {r} : req'[q] = req[q]
        /\ \A k \in Issued :
             k \in Requests /\ k # r /\ k \in Issued' /\ SessionOf(k)' = SessionOf(k)
    BY IssuedForGood
  <1>3. TypeOK'
    BY <1>1 DEF TypeOK, Become
  <1>4. SessionsLoggedIn' /\ CarefulHolds'
    BY <1>1, <1>2 DEF SessionsLoggedIn, CarefulHolds
  <1>5. TokensKeptApart'
    BY <1>1, <1>2 DEF TokensKeptApart
  <1>6. QED
    BY <1>3, <1>4, <1>5

LEMMA ReadStep ==
  ASSUME IInv, NEW r \in Requests, NEW k \in Requests,
         RefreshRead(r, k) \/ LogoutRead(r, k)
  PROVE  IInv'
  <1> USE DEF IInv
  <1>1. PICK state :
          /\ Become(r, state)
          /\ \/ \E s \in Matching(k) \ revoked :
                  state \in {[pc |-> p, by |-> k, session |-> s]
                             : p \in {"rotate", "expire", "logout"}}
             \/ /\ Matching(k) \ revoked = {}
                /\ state \in {[pc |-> "reuse", by |-> k, known |-> Sessions],
                              [pc |-> "loggedOut", by |-> k]}
    BY DEF RefreshRead, LogoutRead
  <1>2. /\ req[r].pc = "idle" /\ k \in Issued
        /\ SessionOf(k) \in Careful => held[SessionOf(k)] = k
        /\ UNCHANGED <<token, revoked, held>>
    BY DEF RefreshRead, LogoutRead, Idle, Presented
  <1>3. Sessions' = Sessions /\ Sessions \subseteq Requests /\ revoked \subseteq Sessions
    BY <1>2 DEF Sessions, TypeOK
  <1>4. /\ state.pc \in {"rotate", "expire", "logout", "reuse", "loggedOut"}
        /\ state \in RequestState
        /\ state.by = k
        /\ state.pc = "reuse" => state.known = Sessions
        /\ state.pc \in {"reuse", "loggedOut"} => Matching(k) \subseteq revoked
        /\ state.pc \in {"rotate", "expire", "logout"} => state.session \in Matching(k)
    BY <1>1, <1>3 DEF RequestState, Matching
  <1>5. /\ req'[r] = state
        /\ \A q \in Requests \ {r} : req'[q] = req[q]
        /\ \A i \in Issued :
             i \in Requests /\ i # r /\ i \in Issued' /\ SessionOf(i)' = SessionOf(i)
    BY <1>1, <1>2, IssuedForGood
  <1>6. \A s \in Matching(k) : s \in Sessions /\ SessionOf(k) = s
    BY <1>2, AuthAssumption DEF Matching, Sessions, TokensKeptApart
  <1>7. SessionOf(k) \in Careful => SessionOf(k) \in Matching(k)
    BY <1>2, IssuedHasSession DEF CarefulHolds, Matching, Sessions
  <1>8. TypeOK' /\ SessionsLoggedIn' /\ CarefulHolds' /\ TokensKeptApart'
    BY <1>1, <1>2, <1>3, <1>4, ReadingKeeps
  <1>9. PresentsIssued' /\ ReadItsSession' /\ KnownSelected'
        /\ AlarmRevokesAll' /\ NoFalseAlarm' /\ LogoutRevokes'
    BY <1>1, <1>2, <1>3, <1>4, <1>5, <1>6, <1>7, OthersKept
    DEF PresentsIssued, ReadItsSession, KnownSelected, AlarmRevokesAll,
        NoFalseAlarm, LogoutRevokes
  <1>10. QED
    BY <1>8, <1>9

LEMMA RevokeStep ==
  ASSUME IInv, NEW r \in Requests, RevokeSelect(r) \/ RevokeCommit(r)
  PROVE  IInv'
  <1> USE DEF IInv
  <1>1. PICK state :
          /\ Become(r, state)
          /\ \/ /\ req[r].pc = "reuse"
                /\ state = [pc |-> "revoke", by |-> req[r].by,
                            known |-> req[r].known, seen |-> Sessions]
                /\ UNCHANGED revoked
             \/ /\ req[r].pc = "revoke"
                /\ state = [pc |-> "alarm", known |-> req[r].known]
                /\ revoked' = revoked \cup req[r].seen
    BY DEF RevokeSelect, RevokeCommit
  <1>2. UNCHANGED <<token, held>>
    BY DEF RevokeSelect, RevokeCommit
  <1>3. /\ Sessions' = Sessions /\ Sessions \subseteq Requests
        /\ revoked \subseteq revoked' /\ revoked' \subseteq Sessions
    BY <1>1, <1>2 DEF Sessions, TypeOK, KnownSelected
  <1>4. /\ state.pc \in {"revoke", "alarm"}
        /\ state \in RequestState
        /\ state.pc = "revoke" =>
             /\ state.by = req[r].by /\ state.seen = Sessions
             /\ state.known \subseteq state.seen
        /\ state.pc = "alarm" => state.known \subseteq revoked'
    BY <1>1, <1>3, RequestFields DEF RequestState, KnownSelected
  <1>5. /\ req'[r] = state
        /\ \A q \in Requests \ {r} : req'[q] = req[q]
        /\ \A k \in Issued :
             k \in Requests /\ k # r /\ k \in Issued' /\ SessionOf(k)' = SessionOf(k)
    BY <1>1, IssuedForGood
  <1>6. TypeOK' /\ SessionsLoggedIn' /\ CarefulHolds' /\ TokensKeptApart'
    BY <1>1, <1>2, <1>3, <1>4, ReadingKeeps
  <1>7. state.pc = "revoke" =>
          /\ state.by \in Issued
          /\ SessionOf(state.by) \in Careful => SessionOf(state.by) \in revoked
    BY <1>1, <1>4 DEF PresentsIssued, NoFalseAlarm
  <1>8. PresentsIssued' /\ ReadItsSession' /\ KnownSelected'
        /\ AlarmRevokesAll' /\ NoFalseAlarm' /\ LogoutRevokes'
    BY <1>1, <1>3, <1>4, <1>5, <1>7, OthersKept
    DEF PresentsIssued, ReadItsSession, KnownSelected, AlarmRevokesAll,
        NoFalseAlarm, LogoutRevokes, SessionOf
  <1>9. QED
    BY <1>6, <1>8

\* A logout, or a session found expired, revokes the session that was read.
LEMMA CloseStep ==
  ASSUME IInv, NEW r \in Requests, LogoutCommit(r) \/ ExpireCommit(r)
  PROVE  IInv'
  <1> USE DEF IInv
  <1>1. PICK state :
          /\ Become(r, state)
          /\ \/ state = [pc |-> "loggedOut", by |-> req[r].by]
             \/ state = [pc |-> "expired"]
    BY DEF LogoutCommit, ExpireCommit
  <1>2. /\ req[r].pc \in {"logout", "expire"}
        /\ revoked' = revoked \cup {req[r].session}
        /\ UNCHANGED <<token, held>>
    BY DEF LogoutCommit, ExpireCommit
  <1>3. /\ req[r].by \in Issued
        /\ req[r].session \in Sessions
        /\ req[r].session = SessionOf(req[r].by)
    BY <1>2 DEF PresentsIssued, ReadItsSession
  <1>4. /\ Sessions' = Sessions
        /\ revoked \subseteq revoked' /\ revoked' \subseteq Sessions
    BY <1>2, <1>3 DEF Sessions, TypeOK
  <1>5. /\ state \in RequestState /\ state.pc \in {"loggedOut", "expired"}
        /\ state.pc = "loggedOut" => state.by = req[r].by
    BY <1>1, <1>2, RequestFields DEF RequestState
  <1>6. /\ req'[r] = state
        /\ \A q \in Requests \ {r} : req'[q] = req[q]
        /\ \A k \in Issued :
             k \in Requests /\ k # r /\ k \in Issued' /\ SessionOf(k)' = SessionOf(k)
    BY <1>1, <1>2, IssuedForGood
  <1>7. TypeOK' /\ SessionsLoggedIn' /\ CarefulHolds' /\ TokensKeptApart'
    BY <1>1, <1>2, <1>4, <1>5, ReadingKeeps
  <1>8. PresentsIssued' /\ ReadItsSession' /\ KnownSelected'
        /\ AlarmRevokesAll' /\ NoFalseAlarm' /\ LogoutRevokes'
    BY <1>1, <1>2, <1>3, <1>4, <1>5, <1>6, OthersKept
    DEF PresentsIssued, ReadItsSession, KnownSelected, AlarmRevokesAll,
        NoFalseAlarm, LogoutRevokes, SessionOf
  <1>9. QED
    BY <1>7, <1>8

\* A rotation gives the session it read a token that nobody has, and the client,
\* if it is careful, gets it.
LEMMA RotateStep ==
  ASSUME IInv, NEW r \in Requests, RotateCommit(r)
  PROVE  IInv'
  <1> USE DEF IInv
  <1>0. PICK session : session = req[r].session
    OBVIOUS
  <1>1. /\ req[r].pc = "rotate"
        /\ Become(r, [req[r] EXCEPT !.pc = "rotated"])
        /\ token' = [token EXCEPT ![session] = r]
        /\ UNCHANGED revoked
    BY <1>0 DEF RotateCommit
  <1>2. /\ req[r].by \in Issued
        /\ session \in Sessions /\ session \in Requests
        /\ session = SessionOf(req[r].by)
    BY <1>0, <1>1 DEF PresentsIssued, ReadItsSession, Sessions
  <1>3. /\ \A s \in Requests : token'[s] = IF s = session THEN r ELSE token[s]
        /\ token' \in [Requests -> Requests \cup {NoToken}]
    BY <1>1, <1>2 DEF TypeOK
  <1>4. Sessions' = Sessions
    BY <1>2, <1>3, AuthAssumption DEF Sessions
  <1>5. /\ held' \in [Requests -> Requests \cup {NoToken}]
        /\ \A s \in Careful : held'[s] = IF s = session THEN r ELSE held[s]
    BY <1>2, AuthAssumption DEF RotateCommit, TypeOK
  <1>6. /\ req'[r] = [req[r] EXCEPT !.pc = "rotated"]
        /\ \A q \in Requests \ {r} : req'[q] = req[q]
        /\ \A k \in Issued :
             k \in Requests /\ k # r /\ k \in Issued' /\ SessionOf(k)' = SessionOf(k)
    BY <1>1, IssuedForGood
  <1>7. /\ req'[r].pc = "rotated" /\ req'[r].by = req[r].by
        /\ req'[r].session = session /\ req'[r] \in RequestState
    BY <1>0, <1>1, <1>6, RequestFields DEF RequestState
  <1>8. r \in Issued' /\ SessionOf(r)' = session
    BY <1>7 DEF Issued, SessionOf
  <1>9. TypeOK' /\ SessionsLoggedIn' /\ CarefulHolds'
    <2>1. TypeOK'
      BY <1>1, <1>3, <1>4, <1>5, <1>6, <1>7 DEF TypeOK, Become
    <2>2. SessionsLoggedIn'
      <3>1. req[session].pc = "loggedIn" /\ session # r
        BY <1>1, <1>2 DEF SessionsLoggedIn, Sessions
      <3>2. \A s \in Requests : token'[s] # NoToken <=> token[s] # NoToken
        BY <1>2, <1>3, AuthAssumption DEF Sessions
      <3>3. \A s \in Requests : req'[s].pc = "loggedIn" <=> req[s].pc = "loggedIn"
        BY <1>1, <1>6, <1>7
      <3>4. QED
        BY <3>2, <3>3 DEF SessionsLoggedIn
    <2>3. CarefulHolds'
      BY <1>3, <1>4, <1>5, AuthAssumption DEF CarefulHolds
    <2>4. QED
      BY <2>1, <2>2, <2>3
  <1>10. TokensKeptApart'
    <2>1. \A s \in Sessions \ {session} :
            token'[s] = token[s] /\ token[s] \in Issued /\ SessionOf(token[s]) = s
      BY <1>3 DEF Sessions, TokensKeptApart
    <2>2. token'[session] = r
      BY <1>2, <1>3
    <2>3. \A s \in Sessions' : token'[s] \in Issued' /\ SessionOf(token[s])' = s
      <3>1. ASSUME NEW s \in Sessions \ {session}
            PROVE  token'[s] \in Issued' /\ SessionOf(token[s])' = s
        BY <1>6, <2>1 DEF SessionOf
      <3>2. token'[session] \in Issued' /\ SessionOf(token[session])' = session
        BY <1>8, <2>2 DEF SessionOf
      <3>3. QED
        BY <1>4, <3>1, <3>2
    <2>4. QED
      BY <2>3 DEF TokensKeptApart
  <1>11. PresentsIssued' /\ ReadItsSession' /\ KnownSelected'
         /\ AlarmRevokesAll' /\ NoFalseAlarm' /\ LogoutRevokes'
    <2>1. /\ req'[r].by \in Issued'
          /\ req'[r].session \in Sessions'
          /\ req'[r].session = SessionOf(req[r].by)'
      BY <1>2, <1>4, <1>6, <1>7 DEF SessionOf
    <2>2. PresentsIssued' /\ ReadItsSession'
      BY <1>1, <1>4, <1>6, <2>1, OthersKept DEF PresentsIssued, ReadItsSession
    <2>3. KnownSelected' /\ AlarmRevokesAll' /\ NoFalseAlarm' /\ LogoutRevokes'
      BY <1>1, <1>4, <1>6, <1>7, OthersKept
      DEF KnownSelected, AlarmRevokesAll, NoFalseAlarm, LogoutRevokes
    <2>4. QED
      BY <2>2, <2>3
  <1>12. QED
    BY <1>9, <1>10, <1>11

LEMMA StepInv == IInv /\ [Next]_vars => IInv'
  <1> SUFFICES ASSUME IInv, [Next]_vars PROVE IInv'
    OBVIOUS
  <1>1. CASE UNCHANGED vars
    BY <1>1 DEF vars, IInv, TypeOK, SessionsLoggedIn, PresentsIssued,
       ReadItsSession, KnownSelected, CarefulHolds, AlarmRevokesAll,
       TokensKeptApart, NoFalseAlarm, LogoutRevokes, Sessions, Issued, SessionOf
  <1>2. ASSUME NEW r \in Requests, NEW k \in Requests,
               RefreshRead(r, k) \/ LogoutRead(r, k)
        PROVE  IInv'
    BY <1>2, ReadStep
  <1>3. ASSUME NEW r \in Requests, Login(r) PROVE IInv'
    BY <1>3, LoginStep
  <1>4. ASSUME NEW r \in Requests, RevokeSelect(r) \/ RevokeCommit(r) PROVE IInv'
    BY <1>4, RevokeStep
  <1>5. ASSUME NEW r \in Requests, RotateCommit(r) PROVE IInv'
    BY <1>5, RotateStep
  <1>6. ASSUME NEW r \in Requests, LogoutCommit(r) \/ ExpireCommit(r) PROVE IInv'
    BY <1>6, CloseStep
  <1>7. QED
    BY <1>1, <1>2, <1>3, <1>4, <1>5, <1>6 DEF Next

LEMMA Invariant == Spec => []IInv
  BY InitInv, StepInv, PTL DEF Spec

-----------------------------------------------------------------------------
(* The theorems.                                                           *)

\* Rows, tokens and requests have their types; only sessions are revoked.
THEOREM SessionsTyped == Spec => []TypeOK
  <1>1. IInv => TypeOK
    BY DEF IInv
  <1>2. QED
    BY <1>1, Invariant, PTL

\* However refreshes, alarms and logouts overlap, a session that is revoked stays
\* revoked.
THEOREM RevocationFinal == Spec => RevokedForever
  <1>1. [Next]_vars => [revoked \subseteq revoked']_vars
    BY DEF Next, vars, Login, RefreshRead, LogoutRead, RevokeSelect, RevokeCommit,
       RotateCommit, ExpireCommit, LogoutCommit
  <1>2. QED
    BY <1>1, PTL DEF Spec, RevokedForever

\* An answered alarm has revoked every session there was when it was set off.
THEOREM AlarmComplete == Spec => []AlarmRevokesAll
  <1>1. IInv => AlarmRevokesAll
    BY DEF IInv
  <1>2. QED
    BY <1>1, Invariant, PTL

\* The token of a session was issued for it, and so for no other.
THEOREM TokensApart == Spec => []TokensKeptApart
  <1>1. IInv => TokensKeptApart
    BY DEF IInv
  <1>2. QED
    BY <1>1, Invariant, PTL

\* A careful client sets off no alarm while its session is open.
THEOREM CarefulNoFalseAlarm == Spec => []NoFalseAlarm
  <1>1. IInv => NoFalseAlarm
    BY DEF IInv
  <1>2. QED
    BY <1>1, Invariant, PTL

\* A careful client that was told it is logged out is logged out.
THEOREM CarefulLogout == Spec => []LogoutRevokes
  <1>1. IInv => LogoutRevokes
    BY DEF IInv
  <1>2. QED
    BY <1>1, Invariant, PTL
=============================================================================
