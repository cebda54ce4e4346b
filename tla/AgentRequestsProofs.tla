------------------------ MODULE AgentRequestsProofs ------------------------
(***************************************************************************)
(* Theorems about AgentRequests, for any number of requests and copies.    *)
(***************************************************************************)
EXTENDS AgentRequests, FiniteSetTheorems, TLAPS

\* A delivery owns the nonce of its request when it holds the unique key, or
\* has committed the nonce and has yet to take effect, or has taken effect.
Owns(d) == del[d].pc \in {"decide", "write", "effect"} \/ d \in applied

\* The strengthening: a nonce has one owner, it is committed when the owner has
\* gone beyond the transaction that inserts it, and not before.
SoleOwner ==
  \A d, e \in Deliveries : Owns(d) /\ Owns(e) /\ del[d].of = del[e].of => d = e

OwnerRecorded ==
  \A d \in Deliveries :
    /\ del[d].pc = "effect" \/ d \in applied => del[d].of \in nonces
    /\ del[d].pc \in {"decide", "write"} => del[d].of \notin nonces

KindsApart ==
  \A d \in Deliveries :
    /\ del[d].pc \in {"decide", "write"} => KindOf[del[d].of] = "change"
    /\ del[d].pc = "effect" => KindOf[del[d].of] # "change"
    /\ d \in applied => del[d].pc = "ok"

IInv == TypeOK /\ SoleOwner /\ OwnerRecorded /\ KindsApart /\ NonceIffApplied

\* The strengthening holds of no delivery at all.
LEMMA InitInv == Init => IInv
BY RequestsAssumption DEF Init, IInv, TypeOK, SoleOwner, Owns, OwnerRecorded,
   KindsApart, NonceIffApplied, DeliveryState, Idle

\* What every step that moves one delivery on has in common.
LEMMA MoveType ==
  ASSUME TypeOK, NEW d \in Deliveries, del[d] # Idle,
         NEW pc \in {"record", "decide", "write", "effect", "ok", "noop",
                     "empty", "refused", "error", "lost"},
         Move(d, pc)
  PROVE  /\ del[d].of \in Signed
         /\ del' \in [Deliveries -> DeliveryState]
         /\ del'[d].pc = pc /\ del'[d].of = del[d].of /\ del'[d] # Idle
         /\ \A e \in Deliveries \ {d} : del'[e] = del[e]
<1>1. del[d] \in [pc : {"record", "decide", "write", "effect", "ok", "noop",
                        "empty", "refused", "error", "lost"}, of : Signed]
  BY DEF TypeOK, DeliveryState
<1>2. del'[d] = [pc |-> pc, of |-> del[d].of]
  BY DEF Move, TypeOK
<1>3. del'[d] \in [pc : {"record", "decide", "write", "effect", "ok", "noop",
                         "empty", "refused", "error", "lost"}, of : Signed]
  BY <1>1, <1>2
<1>4. del' \in [Deliveries -> DeliveryState]
  BY <1>3 DEF Move, TypeOK, DeliveryState
<1>5. del'[d] # Idle
  BY <1>2 DEF Idle
<1> QED BY <1>1, <1>2, <1>4, <1>5 DEF Move, TypeOK

\* The strengthening is inductive.
LEMMA StepInv == IInv /\ [Next]_vars => IInv'
<1> SUFFICES ASSUME IInv, [Next]_vars PROVE IInv'
  OBVIOUS
<1> USE RequestsAssumption DEF IInv
<1>1. CASE UNCHANGED vars
  BY <1>1 DEF vars, TypeOK, SoleOwner, Owns, OwnerRecorded, KindsApart,
     NonceIffApplied
<1>2. ASSUME NEW d \in Deliveries, NEW s \in Signed, Check(d, s) PROVE IInv'
  <2>1. /\ del'[d] = [pc |-> IF s \in nonces THEN "refused" ELSE "record", of |-> s]
        /\ \A e \in Deliveries \ {d} : del'[e] = del[e]
        /\ d \notin applied
    BY <1>2 DEF Check, TypeOK
  <2>2. del'[d].pc \in {"refused", "record"} /\ del'[d].of = s /\ del'[d] # Idle
    BY <2>1 DEF Idle
  <2>3. TypeOK'
    BY <1>2, <2>1, <2>2 DEF Check, TypeOK, DeliveryState
  <2> QED
    BY <1>2, <2>1, <2>2, <2>3 DEF Check, TypeOK, SoleOwner, Owns, OwnerRecorded,
       KindsApart, NonceIffApplied
<1>3. ASSUME NEW d \in Deliveries, Insert(d) PROVE IInv'
  <2>1. PICK pc \in {"error", "decide"} :
          /\ Move(d, pc)
          /\ pc = "decide" => del[d].of \notin nonces
    BY <1>3 DEF Insert
  <2>2. del[d] # Idle /\ del[d].pc = "record" /\ KindOf[del[d].of] = "change"
    BY <1>3 DEF Insert, At, Idle
  <2>3. /\ del[d].of \in Signed
        /\ del' \in [Deliveries -> DeliveryState]
        /\ del'[d].pc = pc /\ del'[d].of = del[d].of /\ del'[d] # Idle
        /\ \A e \in Deliveries \ {d} : del'[e] = del[e]
    BY <2>1, <2>2, MoveType
  <2>4. UNCHANGED <<nonces, applied, queue>> /\ d \notin applied
    BY <1>3, <2>2 DEF Insert, KindsApart
  <2>5. \A e \in Deliveries : pc = "decide" /\ Owns(e) => del[e].of # del[d].of
    BY <1>3, <2>1 DEF Insert, HoldsKey, Owns, OwnerRecorded
  <2>6. TypeOK'
    BY <2>3, <2>4 DEF TypeOK
  <2>7. SoleOwner'
    BY <2>3, <2>4, <2>5 DEF SoleOwner, Owns
  <2> QED
    BY <2>1, <2>2, <2>3, <2>4, <2>6, <2>7 DEF OwnerRecorded, KindsApart,
       NonceIffApplied, TypeOK
<1>4. ASSUME NEW d \in Deliveries, Decide(d) \/ Drop(d) PROVE IInv'
  <2>1. PICK pc \in {"refused", "noop", "write", "lost"} :
          /\ Move(d, pc)
          /\ pc = "write" => del[d].pc = "decide"
    BY <1>4 DEF Decide, Drop, At
  <2>2. del[d] # Idle /\ del[d].pc \in {"record", "decide", "write", "effect"}
    BY <1>4 DEF Decide, Drop, At, Idle
  <2>3. /\ del[d].of \in Signed
        /\ del' \in [Deliveries -> DeliveryState]
        /\ del'[d].pc = pc /\ del'[d].of = del[d].of /\ del'[d] # Idle
        /\ \A e \in Deliveries \ {d} : del'[e] = del[e]
    BY <2>1, <2>2, MoveType
  <2>4. UNCHANGED <<nonces, applied, queue>> /\ d \notin applied
    BY <1>4, <2>2 DEF Decide, Drop, KindsApart
  <2>5. TypeOK'
    BY <2>3, <2>4 DEF TypeOK
  <2>6. SoleOwner'
    BY <2>1, <2>3, <2>4 DEF SoleOwner, Owns
  <2> QED
    BY <2>1, <2>2, <2>3, <2>4, <2>5, <2>6 DEF OwnerRecorded, KindsApart,
       NonceIffApplied, TypeOK
<1>5. ASSUME NEW d \in Deliveries, Write(d) PROVE IInv'
  <2>1. del[d] # Idle /\ del[d].pc = "write" /\ KindOf[del[d].of] = "change"
    BY <1>5 DEF Write, At, Idle
  <2>2. d \notin applied /\ Owns(d) /\ del[d].of \notin nonces
    BY <2>1 DEF KindsApart, Owns, OwnerRecorded
  <2>3. CASE /\ nonces' = nonces \cup {del[d].of}
             /\ applied' = applied \cup {d}
             /\ Move(d, "ok")
    <3>1. /\ del[d].of \in Signed
          /\ del' \in [Deliveries -> DeliveryState]
          /\ del'[d].pc = "ok" /\ del'[d].of = del[d].of /\ del'[d] # Idle
          /\ \A e \in Deliveries \ {d} : del'[e] = del[e]
      BY <2>1, <2>3, MoveType
    <3>2. TypeOK'
      BY <1>5, <2>3, <3>1 DEF Write, TypeOK
    <3>3. SoleOwner'
      BY <2>2, <2>3, <3>1 DEF SoleOwner, Owns
    <3>4. OwnerRecorded'
      BY <2>2, <2>3, <3>1 DEF OwnerRecorded, SoleOwner, Owns
    <3>5. KindsApart'
      BY <2>3, <3>1 DEF KindsApart
    <3>6. NonceIffApplied'
      BY <2>2, <2>3, <3>1, <3>2 DEF NonceIffApplied, TypeOK
    <3> QED BY <3>2, <3>3, <3>4, <3>5, <3>6
  <2>4. CASE (\E pc \in {"error", "noop"} : Move(d, pc)) /\ UNCHANGED <<nonces, applied>>
    <3>1. PICK pc \in {"error", "noop"} : Move(d, pc)
      BY <2>4
    <3>2. /\ del[d].of \in Signed
          /\ del' \in [Deliveries -> DeliveryState]
          /\ del'[d].pc = pc /\ del'[d].of = del[d].of /\ del'[d] # Idle
          /\ \A e \in Deliveries \ {d} : del'[e] = del[e]
      BY <2>1, <3>1, MoveType
    <3>3. TypeOK'
      BY <1>5, <2>4, <3>2 DEF Write, TypeOK
    <3>4. SoleOwner'
      BY <2>2, <2>4, <3>2 DEF SoleOwner, Owns
    <3> QED
      BY <2>2, <2>4, <3>1, <3>2, <3>3, <3>4 DEF OwnerRecorded, KindsApart,
         NonceIffApplied, TypeOK
  <2> QED BY <1>5, <2>3, <2>4 DEF Write
<1>6. ASSUME NEW d \in Deliveries, Record(d) PROVE IInv'
  <2>1. PICK pc \in {"error", "effect"} :
          /\ Move(d, pc)
          /\ pc = "effect" => del[d].of \notin nonces
    BY <1>6 DEF Record
  <2>2. del[d] # Idle /\ del[d].pc = "record" /\ KindOf[del[d].of] # "change"
    BY <1>6 DEF Record, At, Idle
  <2>3. /\ del[d].of \in Signed
        /\ del' \in [Deliveries -> DeliveryState]
        /\ del'[d].pc = pc /\ del'[d].of = del[d].of /\ del'[d] # Idle
        /\ \A e \in Deliveries \ {d} : del'[e] = del[e]
    BY <2>1, <2>2, MoveType
  <2>4. /\ UNCHANGED <<applied, queue>> /\ d \notin applied
        /\ nonces' = nonces \cup {del[d].of}
    BY <1>6, <2>2 DEF Record, KindsApart
  <2>5. \A e \in Deliveries :
          /\ del[e].pc \in {"decide", "write"} => del[e].of # del[d].of
          /\ pc = "effect" /\ Owns(e) => del[e].of # del[d].of
    BY <2>1, <2>2 DEF KindsApart, Owns, OwnerRecorded
  <2>6. TypeOK'
    BY <2>3, <2>4 DEF TypeOK
  <2>7. SoleOwner'
    BY <2>1, <2>2, <2>3, <2>4, <2>5 DEF SoleOwner, Owns
  <2>8. OwnerRecorded' /\ KindsApart'
    BY <2>1, <2>2, <2>3, <2>4, <2>5 DEF OwnerRecorded, KindsApart
  <2>9. NonceIffApplied'
    BY <2>2, <2>3, <2>4 DEF NonceIffApplied, TypeOK
  <2> QED BY <2>6, <2>7, <2>8, <2>9
<1>7. ASSUME NEW d \in Deliveries, Claim(d) \/ Connect(d) PROVE IInv'
  <2>1. PICK pc \in {"ok", "empty"} :
          /\ Move(d, pc)
          /\ applied' = IF pc = "ok" THEN applied \cup {d} ELSE applied
          /\ queue' \in 0..QueueLength
    BY <1>7, SMTT(30) DEF Claim, Connect, TypeOK
  <2>2. /\ del[d] # Idle /\ del[d].pc = "effect" /\ KindOf[del[d].of] # "change"
        /\ UNCHANGED nonces
    BY <1>7 DEF Claim, Connect, At, Idle
  <2>3. /\ del[d].of \in Signed
        /\ del' \in [Deliveries -> DeliveryState]
        /\ del'[d].pc = pc /\ del'[d].of = del[d].of /\ del'[d] # Idle
        /\ \A e \in Deliveries \ {d} : del'[e] = del[e]
    BY <2>1, <2>2, MoveType
  <2>4. d \notin applied /\ Owns(d) /\ del[d].of \in nonces
    BY <2>2 DEF KindsApart, Owns, OwnerRecorded
  <2>5. TypeOK'
    BY <2>1, <2>2, <2>3 DEF TypeOK
  <2>6. SoleOwner'
    BY <2>1, <2>3, <2>4 DEF SoleOwner, Owns
  <2>7. OwnerRecorded' /\ KindsApart'
    BY <2>1, <2>2, <2>3, <2>4 DEF OwnerRecorded, KindsApart
  <2>8. NonceIffApplied'
    BY <2>1, <2>2, <2>3, <2>4, <2>5 DEF NonceIffApplied, TypeOK
  <2> QED BY <2>5, <2>6, <2>7, <2>8
<1> QED
  BY <1>1, <1>2, <1>3, <1>4, <1>5, <1>6, <1>7 DEF Next

LEMMA Invariance == Spec => []IInv
BY InitInv, StepInv, PTL DEF Spec

\* The state of the nonce handling is what it is declared to be.
THEOREM RequestsTyped == Spec => []TypeOK
<1>1. IInv => TypeOK
  BY DEF IInv
<1> QED BY <1>1, Invariance, PTL

\* A signed request takes effect at most once, however many copies of it arrive
\* and however they overlap.
THEOREM EffectAtMostOnce == Spec => []AppliedOnce
<1>1. IInv => AppliedOnce
  BY DEF IInv, TypeOK, SoleOwner, Owns, AppliedOnce
<1> QED BY <1>1, Invariance, PTL

\* A change and its nonce are recorded together or not at all.
THEOREM NonceWithChange == Spec => []NonceIffApplied
<1>1. IInv => NonceIffApplied
  BY DEF IInv
<1> QED BY <1>1, Invariance, PTL

-----------------------------------------------------------------------------
\* The polls that claimed a task: finitely many, and one for each task that is no
\* longer queued.
Claims == {d \in applied : KindOf[del[d].of] = "poll"}

ClaimsCounted == IsFiniteSet(Claims) /\ queue + Cardinality(Claims) = QueueLength

LEMMA InitCounted == Init => ClaimsCounted
<1> SUFFICES ASSUME Init PROVE ClaimsCounted
  OBVIOUS
<1>1. Claims = {} /\ queue = QueueLength
  BY DEF Init, Claims
<1> QED
  BY <1>1, FS_EmptySet, RequestsAssumption DEF ClaimsCounted

\* Only a claim changes the number of claims, by one, and takes one task.
LEMMA StepCounted == IInv /\ ClaimsCounted /\ [Next]_vars => ClaimsCounted'
<1> SUFFICES ASSUME IInv, ClaimsCounted, [Next]_vars PROVE ClaimsCounted'
  OBVIOUS
<1>1. /\ del \in [Deliveries -> DeliveryState] /\ applied \subseteq Deliveries
      /\ \A d \in applied : del[d].pc = "ok" /\ del[d] # Idle
  BY DEF IInv, TypeOK, KindsApart
<1>2. ASSUME Claims' = Claims, queue' = queue PROVE ClaimsCounted'
  BY <1>2 DEF ClaimsCounted
<1>3. ASSUME UNCHANGED <<applied, queue>>, \A e \in applied : del'[e] = del[e]
      PROVE  ClaimsCounted'
  <2>1. Claims' = Claims
    BY <1>3 DEF Claims
  <2> QED BY <1>2, <1>3, <2>1
<1>4. ASSUME NEW d \in Deliveries, NEW pc, Move(d, pc)
      PROVE  /\ del'[d].of = del[d].of
             /\ \A e \in Deliveries \ {d} : del'[e] = del[e]
  BY <1>1, <1>4 DEF Move
<1>5. CASE UNCHANGED vars
  BY <1>3, <1>5 DEF vars
<1>6. ASSUME NEW d \in Deliveries, NEW s \in Signed, Check(d, s) PROVE ClaimsCounted'
  <2>1. /\ UNCHANGED <<applied, queue>> /\ d \notin applied
        /\ \A e \in Deliveries \ {d} : del'[e] = del[e]
    BY <1>1, <1>6 DEF Check
  <2> QED BY <1>1, <1>3, <2>1
<1>7. ASSUME NEW d \in Deliveries, Insert(d) \/ Decide(d) \/ Record(d) \/ Drop(d)
      PROVE  ClaimsCounted'
  <2>1. PICK pc : Move(d, pc)
    BY <1>7 DEF Insert, Decide, Record, Drop
  <2>2. UNCHANGED <<applied, queue>> /\ d \notin applied
    BY <1>1, <1>7 DEF Insert, Decide, Record, Drop, At
  <2> QED BY <1>1, <1>3, <1>4, <2>1, <2>2
<1>8. ASSUME NEW d \in Deliveries, Write(d) \/ Connect(d) PROVE ClaimsCounted'
  <2>1. PICK pc : Move(d, pc)
    BY <1>8 DEF Write, Connect
  <2>2. /\ applied' \subseteq applied \cup {d} /\ applied \subseteq applied'
        /\ queue' = queue /\ d \notin applied /\ KindOf[del[d].of] # "poll"
    BY <1>1, <1>8 DEF Write, Connect, At
  <2>3. Claims' = Claims
    BY <1>1, <1>4, <2>1, <2>2 DEF Claims
  <2> QED BY <1>2, <2>2, <2>3
<1>9. ASSUME NEW d \in Deliveries, Claim(d) PROVE ClaimsCounted'
  <2>1. d \notin applied /\ KindOf[del[d].of] = "poll" /\ queue \in Nat
    BY <1>1, <1>9, RequestsAssumption DEF Claim, At, IInv, TypeOK
  <2>2. CASE /\ queue > 0 /\ queue' = queue - 1
             /\ applied' = applied \cup {d} /\ Move(d, "ok")
    <3>1. queue' = queue - 1 /\ applied' = applied \cup {d} /\ Move(d, "ok")
      BY <2>2
    <3>2. Claims' = Claims \cup {d} /\ d \notin Claims
      BY <1>1, <1>4, <2>1, <3>1 DEF Claims
    <3>3. /\ IsFiniteSet(Claims \cup {d}) /\ Cardinality(Claims) \in Nat
          /\ Cardinality(Claims \cup {d}) = Cardinality(Claims) + 1
      BY <3>2, FS_AddElement, FS_CardinalityType DEF ClaimsCounted
    <3> QED
      BY <2>1, <2>2, <3>1, <3>2, <3>3 DEF ClaimsCounted
  <2>3. CASE Move(d, "empty") /\ UNCHANGED <<queue, applied>>
    BY <1>1, <1>3, <1>4, <2>1, <2>3
  <2> QED BY <1>9, <2>2, <2>3 DEF Claim
<1> QED
  BY <1>5, <1>6, <1>7, <1>8, <1>9 DEF Next

\* The tasks that left the queue are those that polls took whose nonce is used up:
\* a copy of a poll that comes later finds its nonce and claims nothing.
THEOREM ClaimsForNonces == Spec => []ClaimsAreRecorded
<1>1. IInv /\ ClaimsCounted => ClaimsAreRecorded
  <2> SUFFICES ASSUME IInv, ClaimsCounted PROVE ClaimsAreRecorded
    OBVIOUS
  <2>1. \A d \in applied : del[d].of \in nonces
    BY DEF IInv, TypeOK, OwnerRecorded
  <2> QED BY <2>1 DEF ClaimsCounted, Claims, ClaimsAreRecorded
<1>2. Spec => []ClaimsCounted
  BY InitCounted, StepCounted, Invariance, PTL DEF Spec
<1> QED BY <1>1, <1>2, Invariance, PTL
=============================================================================
