-------------------------- MODULE EnrollmentProofs --------------------------
(***************************************************************************)
(* Theorems about Enrollment, for any number of codes and runs.            *)
(***************************************************************************)
EXTENDS Enrollment, TLAPS

\* The strengthening: a device exists exactly when its run's request was
\* answered "enrolled", and then it is the one its code names.
DeviceOfRun ==
  \A p \in Runs :
    /\ call[p] = "enrolled" <=> device[p] # None
    /\ device[p] # None => device[p] = run[p].key
    /\ device[p] # None => usedBy[run[p].code] = p
    /\ \A c \in Codes : usedBy[c] = p => call[p] = "enrolled"

\* The phases of a run in which it has a key pair.
KeyOfRun ==
  \A p \in Runs :
    /\ run[p].pc \in {"post", "wait", "save"} => run[p].key # None
    /\ run[p].pc \in {"post", "wait", "save"} => run[p].code \in Codes
    /\ run[p].pc = "generate" => run[p].code \in Codes
    /\ run[p].pc = "generate" => run[p].key = None
    /\ run[p].pc \in {"idle", "generate", "post"} => call[p] = "none"
    /\ run[p].pc = "save" => call[p] = "enrolled"

IInv == TypeOK /\ DeviceOfRun /\ KeyOfRun

\* As long as no careless run was started there is one key pair, the one of the
\* keyring, from the first run that generated it.
OneKey ==
  /\ \A p \in Runs : run[p].key \in {None, keyring}
  /\ \A p \in Runs : run[p].pc = "generate" => keyring = None
  /\ \A p, q \in Runs : Running(p) /\ Running(q) => p = q
  /\ config # None => device[config] # None

OneKeyInv == NoneCareless => OneKey

-----------------------------------------------------------------------------
\* The strengthening holds at the start.
LEMMA InitInv == Init => IInv
BY EnrollmentAssumption DEF Init, IInv, TypeOK, DeviceOfRun, KeyOfRun, Keys

\* The steps of the codes and of the command leave the database of devices as
\* it is, and each step of a request belongs to one run.
LEMMA StepInv == IInv /\ [Next]_vars => IInv'
<1> SUFFICES ASSUME IInv, [Next]_vars PROVE IInv'
  OBVIOUS
<1> USE EnrollmentAssumption DEF IInv, Keys
<1>1. CASE UNCHANGED vars
  BY <1>1 DEF vars, TypeOK, DeviceOfRun, KeyOfRun
<1>2. ASSUME NEW c \in Codes, CreateCode(c) \/ Expire(c) PROVE IInv'
  <2>1. UNCHANGED <<usedBy, device, keyring, config, run, call>>
    BY <1>2 DEF CreateCode, Expire, host
  <2>2. TypeOK'
    BY <1>2, <2>1 DEF CreateCode, Expire, TypeOK
  <2> QED BY <2>1, <2>2 DEF DeviceOfRun, KeyOfRun
<1>3. ASSUME NEW p \in Runs, NEW c \in Codes, Start(p, c) PROVE IInv'
  <2>1. /\ UNCHANGED <<code, usedBy, device, keyring, config, call>>
        /\ run[p].pc = "idle"
        /\ run' = [run EXCEPT ![p] = run'[p]]
        /\ \/ run'[p] = [pc |-> "post", code |-> c, key |-> keyring] /\ keyring # None
           \/ run'[p] = [pc |-> "generate", code |-> c, key |-> None]
    BY <1>3 DEF Start, TypeOK, database
  <2>2. call[p] = "none" /\ device[p] = None
    BY <2>1 DEF KeyOfRun, DeviceOfRun
  <2>3. TypeOK'
    BY <2>1, <2>2 DEF TypeOK
  <2>4. DeviceOfRun'
    BY <2>1, <2>2 DEF DeviceOfRun, TypeOK
  <2>5. KeyOfRun'
    BY <2>1, <2>2 DEF KeyOfRun, TypeOK
  <2> QED BY <2>3, <2>4, <2>5
<1>4. ASSUME NEW p \in Runs, Generate(p) PROVE IInv'
  <2>1. /\ UNCHANGED <<code, usedBy, device, config, call>>
        /\ run[p].pc = "generate"
        /\ run' = [run EXCEPT ![p].pc = "post", ![p].key = p]
        /\ keyring' \in {p, keyring}
    BY <1>4 DEF Generate, database
  <2>2. call[p] = "none" /\ device[p] = None /\ run[p].code \in Codes
    BY <2>1 DEF KeyOfRun, DeviceOfRun
  <2>3. /\ run'[p] = [pc |-> "post", code |-> run[p].code, key |-> p]
        /\ \A q \in Runs \ {p} : run'[q] = run[q]
    BY <2>1 DEF TypeOK
  <2>4. run' \in [Runs -> [pc : {"idle", "generate", "post", "wait", "save", "end"},
                           code : Codes \cup {None}, key : Runs \cup {None}]]
    BY <2>1, <2>2, <2>3 DEF TypeOK
  <2>5. TypeOK'
    BY <2>1, <2>2, <2>3, <2>4 DEF TypeOK
  <2>6. DeviceOfRun'
    <3> SUFFICES ASSUME NEW q \in Runs
                 PROVE  /\ call[q] = "enrolled" <=> device[q] # None
                        /\ device[q] # None => device[q] = run'[q].key
                        /\ device[q] # None => usedBy[run'[q].code] = q
                        /\ \A c \in Codes : usedBy[c] = q => call[q] = "enrolled"
      BY <2>1 DEF DeviceOfRun
    <3>1. CASE q = p
      BY <2>2, <3>1 DEF DeviceOfRun
    <3>2. CASE q # p
      BY <2>3, <3>2 DEF DeviceOfRun
    <3> QED BY <3>1, <3>2
  <2>7. KeyOfRun'
    <3>1. p # None /\ call'[p] = "none"
      BY <2>1, <2>2
    <3>2. \A q \in Runs \ {p} : run'[q] = run[q] /\ call'[q] = call[q]
      BY <2>1, <2>3
    <3> QED BY <2>2, <2>3, <3>1, <3>2 DEF KeyOfRun
  <2> QED BY <2>5, <2>6, <2>7
<1>5. ASSUME NEW p \in Runs, Post(p) PROVE IInv'
  <2>1. /\ UNCHANGED <<code, usedBy, device, keyring, config>>
        /\ run[p].pc = "post"
        /\ run' = [run EXCEPT ![p].pc = "wait"]
        /\ call' = [call EXCEPT ![p] = "sent"]
    BY <1>5 DEF Post, database
  <2>2. call[p] = "none" /\ device[p] = None /\ run[p].code \in Codes /\ run[p].key \in Runs
    BY <2>1 DEF KeyOfRun, DeviceOfRun, TypeOK
  <2>3. TypeOK'
    BY <2>1, <2>2 DEF TypeOK
  <2>4. DeviceOfRun'
    BY <2>1, <2>2 DEF DeviceOfRun, TypeOK
  <2>5. KeyOfRun'
    BY <2>1, <2>2 DEF KeyOfRun, TypeOK
  <2> QED BY <2>3, <2>4, <2>5
<1>6. ASSUME NEW p \in Runs, Answered(p) \/ Unanswered(p) \/ SaveConfig(p) PROVE IInv'
  <2>1. PICK pc \in {"save", "end"} :
          /\ run' = [run EXCEPT ![p].pc = pc]
          /\ pc = "save" => run[p].pc = "wait" /\ call[p] = "enrolled"
    BY <1>6 DEF Answered, Unanswered, SaveConfig
  <2>2. UNCHANGED <<code, usedBy, device, keyring, call>> /\ config' \in {p, config}
    BY <1>6 DEF Answered, Unanswered, SaveConfig, database
  <2>3. TypeOK'
    BY <2>1, <2>2 DEF TypeOK
  <2>4. DeviceOfRun'
    BY <2>1, <2>2 DEF DeviceOfRun, TypeOK
  <2>5. KeyOfRun'
    BY <2>1, <2>2 DEF KeyOfRun, TypeOK
  <2> QED BY <2>3, <2>4, <2>5
<1>7. ASSUME NEW p \in Runs, EnrollRead(p) PROVE IInv'
  <2>1. /\ UNCHANGED <<code, usedBy, device, keyring, config, run>>
        /\ call[p] = "sent"
        /\ call' = [call EXCEPT ![p] = call'[p]]
        /\ call'[p] \in {"redeem", "refused"}
    BY <1>7 DEF EnrollRead, database, host, TypeOK
  <2>2. TypeOK'
    BY <2>1 DEF TypeOK
  <2> QED BY <2>1, <2>2 DEF DeviceOfRun, KeyOfRun, TypeOK
<1>8. ASSUME NEW p \in Runs, Redeem(p) PROVE IInv'
  <2>1. /\ call[p] = "redeem" /\ device[p] = None
        /\ run[p].code \in Codes /\ run[p].key \in Runs /\ run[p].key # None
        /\ UNCHANGED <<code, keyring, config, run>>
        /\ \A c \in Codes : usedBy[c] # p
    BY <1>8 DEF Redeem, DeviceOfRun, TypeOK, host
  <2>2. CASE usedBy[run[p].code] = None
    <3>1. /\ usedBy' = [usedBy EXCEPT ![run[p].code] = p]
          /\ device' = [device EXCEPT ![p] = run[p].key]
          /\ call' = [call EXCEPT ![p] = "enrolled"]
      BY <1>8, <2>2 DEF Redeem
    <3>2. TypeOK'
      BY <2>1, <3>1 DEF TypeOK
    <3>3. DeviceOfRun'
      BY <2>1, <2>2, <3>1 DEF DeviceOfRun, TypeOK
    <3>4. KeyOfRun'
      BY <2>1, <3>1 DEF KeyOfRun, TypeOK
    <3> QED BY <3>2, <3>3, <3>4
  <2>3. CASE usedBy[run[p].code] # None
    <3>1. call' = [call EXCEPT ![p] = "refused"] /\ UNCHANGED <<usedBy, device>>
      BY <1>8, <2>3 DEF Redeem
    <3>2. TypeOK'
      BY <2>1, <3>1 DEF TypeOK
    <3> QED BY <2>1, <3>1, <3>2 DEF DeviceOfRun, KeyOfRun, TypeOK
  <2> QED BY <2>2, <2>3
<1> QED
  BY <1>1, <1>2, <1>3, <1>4, <1>5, <1>6, <1>7, <1>8 DEF Next

LEMMA Invariance == Spec => []IInv
BY InitInv, StepInv, PTL DEF Spec

-----------------------------------------------------------------------------
\* The state of the enrollment is what it is declared to be.
THEOREM EnrollmentTyped == Spec => []TypeOK
<1>1. IInv => TypeOK
  BY DEF IInv
<1> QED BY <1>1, Invariance, PTL

\* A code enrolls at most one device, and every device has its code.
THEOREM OneDevicePerCode == Spec => []CodeEnrollsOne
<1>1. IInv => CodeEnrollsOne
  <2> SUFFICES ASSUME IInv, NEW p \in Runs
               PROVE  device[p] # None <=> \E c \in Codes : usedBy[c] = p
    BY DEF CodeEnrollsOne, Enrolled
  <2>1. ASSUME device[p] # None PROVE \E c \in Codes : usedBy[c] = p
    BY <2>1 DEF IInv, DeviceOfRun, TypeOK
  <2>2. ASSUME NEW c \in Codes, usedBy[c] = p PROVE device[p] # None
    BY <2>2 DEF IInv, DeviceOfRun
  <2> QED BY <2>1, <2>2
<1> QED BY <1>1, Invariance, PTL

\* A redeemed code is never redeemed again.
THEOREM RedeemedOnce == Spec => RedeemedForGood
<1>1. IInv /\ [Next]_vars =>
        [\A c \in Codes : usedBy[c] # None => usedBy'[c] = usedBy[c]]_vars
  <2> SUFFICES ASSUME IInv, Next, NEW c \in Codes, usedBy[c] # None
               PROVE  usedBy'[c] = usedBy[c]
    BY DEF vars
  <2>1. ASSUME NEW p \in Runs, Redeem(p) PROVE usedBy'[c] = usedBy[c]
    BY <2>1 DEF Redeem, IInv, TypeOK
  <2>2. ASSUME NEW p \in Runs, EnrollRead(p) PROVE usedBy'[c] = usedBy[c]
    BY <2>2 DEF EnrollRead, database
  <2>3. ASSUME NEW p \in Runs, NEW d \in Codes, Start(p, d)
        PROVE  usedBy'[c] = usedBy[c]
    BY <2>3 DEF Start, database
  <2>4. ASSUME NEW p \in Runs,
               Generate(p) \/ Post(p) \/ Answered(p) \/ Unanswered(p) \/ SaveConfig(p)
        PROVE  usedBy'[c] = usedBy[c]
    BY <2>4 DEF Generate, Post, Answered, Unanswered, SaveConfig, database
  <2>5. ASSUME NEW d \in Codes, CreateCode(d) \/ Expire(d) PROVE usedBy'[c] = usedBy[c]
    BY <2>5 DEF CreateCode, Expire
  <2> QED BY <2>1, <2>2, <2>3, <2>4, <2>5 DEF Next
<1> QED BY <1>1, Invariance, PTL DEF Spec, RedeemedForGood

-----------------------------------------------------------------------------
LEMMA InitOneKey == Init => OneKeyInv
BY DEF Init, OneKey, OneKeyInv, Running

\* No run ever becomes idle again.
LEMMA StartedStays == IInv /\ [Next]_vars /\ NoneCareless' => NoneCareless
<1> SUFFICES ASSUME IInv, [Next]_vars, NEW p \in Careless, run'[p].pc = "idle"
             PROVE  run[p].pc = "idle"
  BY DEF NoneCareless
<1> USE EnrollmentAssumption DEF IInv, TypeOK
<1>1. ASSUME NEW q \in Runs, NEW c \in Codes, Start(q, c) PROVE run[p].pc = "idle"
  BY <1>1 DEF Start
<1>2. ASSUME NEW q \in Runs,
             \/ Generate(q) \/ Post(q) \/ Answered(q) \/ Unanswered(q) \/ SaveConfig(q)
      PROVE  run[p].pc = "idle"
  BY <1>2 DEF Generate, Post, Answered, Unanswered, SaveConfig
<1>3. CASE UNCHANGED run
  BY <1>3
<1> QED BY <1>1, <1>2, <1>3 DEF Next, vars, CreateCode, Expire, EnrollRead, Redeem, host

LEMMA StepOneKey == IInv /\ IInv' /\ OneKeyInv /\ [Next]_vars => OneKeyInv'
<1> SUFFICES ASSUME IInv, IInv', OneKeyInv, [Next]_vars, NoneCareless'
             PROVE  OneKey'
  BY DEF OneKeyInv
<1>0. NoneCareless /\ OneKey
  BY StartedStays DEF OneKeyInv
<1> USE EnrollmentAssumption, <1>0 DEF Running
<1>1. CASE UNCHANGED vars
  BY <1>1 DEF vars, OneKey
<1>2. ASSUME NEW c \in Codes, CreateCode(c) \/ Expire(c) PROVE OneKey'
  BY <1>2 DEF CreateCode, Expire, OneKey, host
<1>3. ASSUME NEW p \in Runs, NEW c \in Codes, Start(p, c) PROVE OneKey'
  <2>0. p \notin Careless
    BY <1>3 DEF Start, NoneCareless, IInv, TypeOK
  <2>1. /\ UNCHANGED <<device, keyring, config>>
        /\ \A q \in Runs : run[q].pc \in {"idle", "end"}
        /\ run' = [run EXCEPT ![p] = run'[p]]
        /\ \/ run'[p] = [pc |-> "post", code |-> c, key |-> keyring]
           \/ /\ run'[p] = [pc |-> "generate", code |-> c, key |-> None]
              /\ keyring = None
    BY <1>3, <2>0 DEF Start, database, IInv, TypeOK
  <2>2. /\ run'[p].key \in {None, keyring}
        /\ run'[p].pc = "generate" => keyring = None
        /\ \A q \in Runs \ {p} : run'[q] = run[q]
    BY <2>1 DEF IInv, TypeOK
  <2> QED BY <2>1, <2>2 DEF OneKey
<1>4. ASSUME NEW p \in Runs, Generate(p) PROVE OneKey'
  <2>0. p \notin Careless
    BY <1>4 DEF Generate, NoneCareless
  <2>1. /\ UNCHANGED <<device, config>>
        /\ run[p].pc = "generate"
        /\ run' = [run EXCEPT ![p].pc = "post", ![p].key = p]
        /\ keyring' = p /\ keyring = None
    BY <1>4, <2>0 DEF Generate, database, OneKey
  <2>2. \A q \in Runs \ {p} : run'[q] = run[q] /\ run[q].key = None
    BY <2>1 DEF OneKey, IInv, TypeOK
  <2>3. run'[p].key = p /\ run'[p].pc = "post"
    BY <2>1 DEF IInv, TypeOK
  <2> QED BY <2>1, <2>2, <2>3 DEF OneKey
<1>5. ASSUME NEW p \in Runs, Post(p) \/ Answered(p) \/ Unanswered(p) \/ SaveConfig(p)
      PROVE  OneKey'
  <2>1. PICK pc \in {"wait", "save", "end"} :
          run' = [run EXCEPT ![p].pc = pc] /\ Running(p)
    BY <1>5 DEF Post, Answered, Unanswered, SaveConfig
  <2>2. UNCHANGED <<device, keyring>>
    BY <1>5 DEF Post, Answered, Unanswered, SaveConfig, database
  <2>3. config' # config => config' = p /\ run[p].pc = "save"
    BY <1>5 DEF Post, Answered, Unanswered, SaveConfig
  <2>4. run[p].pc = "save" => device[p] # None
    BY DEF IInv, DeviceOfRun, KeyOfRun
  <2> QED BY <2>1, <2>2, <2>3, <2>4 DEF OneKey, IInv, TypeOK
<1>6. ASSUME NEW p \in Runs, EnrollRead(p) \/ Redeem(p) PROVE OneKey'
  <2>1. UNCHANGED <<keyring, config, run>>
    BY <1>6 DEF EnrollRead, Redeem, host
  <2>2. \A q \in Runs : device[q] # None => device'[q] # None
    BY <1>6 DEF EnrollRead, Redeem, database, IInv, TypeOK, DeviceOfRun
  <2> QED BY <2>1, <2>2 DEF OneKey, IInv, TypeOK
<1> QED
  BY <1>1, <1>2, <1>3, <1>4, <1>5, <1>6 DEF Next

\* Until a careless run is started the enrolled host can sign as the device it
\* is configured to be, whatever answers got lost.
THEOREM CarefulHostCanSign == Spec => []HostCanSign
<1>1. IInv /\ OneKeyInv => HostCanSign
  <2> SUFFICES ASSUME IInv, OneKey, config # None PROVE keyring = device[config]
    BY DEF HostCanSign, OneKeyInv
  <2>1. config \in Runs /\ device[config] # None
    BY DEF IInv, TypeOK, OneKey
  <2> QED BY <2>1 DEF IInv, DeviceOfRun, OneKey
<1> QED BY <1>1, StepOneKey, InitOneKey, Invariance, PTL DEF Spec
=============================================================================
