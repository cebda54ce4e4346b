----------------------------- MODULE Enrollment -----------------------------
(***************************************************************************)
(* The enrollment of a host: enrollment codes and enroll_device on the     *)
(* server (api/v1/devices.py), the command `netra enroll` and its keyring  *)
(* on the host (cli/enroll.py, auth/keyring.py).                           *)
(*                                                                         *)
(* A member of Runs is one run of the command.  A key pair and a device    *)
(* bear the name of the run that generated or enrolled them.  The server   *)
(* works on a request whether or not the command still waits for the       *)
(* answer.  No code of the repository sets is_revoked, which is left out,  *)
(* as are the roles: who may not create a code changes nothing.            *)
(***************************************************************************)
CONSTANTS
  Codes,
  Runs,
  None,      \* no key, no device, no code
  Careless   \* runs started while another one is under way, or where calls
             \* of the OS keyring raise, as they do without its daemon

ASSUME EnrollmentAssumption ==
  /\ None \notin Runs
  /\ Careless \subseteq Runs

VARIABLES
  code,     \* enrollment_codes: unknown, open, or past expires_at
  usedBy,   \* used_by_device_id, set with used_at
  device,   \* devices and their credential: the public key, by device
  keyring,  \* the key pair the OS keyring keeps
  config,   \* ~/.netra/agent.json: the device of the host
  run,      \* the command: what it does, its code and its key pair
  call      \* its request at the server

vars == <<code, usedBy, device, keyring, config, run, call>>

host == <<keyring, config, run>>

database == <<code, usedBy, device>>

Keys == Runs \cup {None}

TypeOK ==
  /\ code \in [Codes -> {"unknown", "open", "expired"}]
  /\ usedBy \in [Codes -> Runs \cup {None}]
  /\ device \in [Runs -> Keys]
  /\ keyring \in Keys
  /\ config \in Runs \cup {None}
  /\ run \in [Runs -> [pc : {"idle", "generate", "post", "wait", "save", "end"},
                       code : Codes \cup {None}, key : Keys]]
  /\ call \in [Runs -> {"none", "sent", "redeem", "enrolled", "refused"}]
  /\ \A p \in Runs : call[p] # "none" => run[p].code \in Codes /\ run[p].key \in Runs

Init ==
  /\ code = [c \in Codes |-> "unknown"]
  /\ usedBy = [c \in Codes |-> None]
  /\ device = [p \in Runs |-> None]
  /\ keyring = None
  /\ config = None
  /\ run = [p \in Runs |-> [pc |-> "idle", code |-> None, key |-> None]]
  /\ call = [p \in Runs |-> "none"]

-----------------------------------------------------------------------------
(* The codes.                                                              *)

CreateCode(c) ==
  /\ code[c] = "unknown"
  /\ code' = [code EXCEPT ![c] = "open"]
  /\ UNCHANGED <<usedBy, device, host, call>>

Expire(c) ==
  /\ code[c] = "open"
  /\ code' = [code EXCEPT ![c] = "expired"]
  /\ UNCHANGED <<usedBy, device, host, call>>

-----------------------------------------------------------------------------
(* The command.                                                            *)

Running(p) == run[p].pc \notin {"idle", "end"}

\* A mutation: every run makes a key pair of its own.
StartFresh(p, c) ==
  /\ run[p].pc = "idle"
  /\ p \in Careless \/ \A q \in Runs : ~Running(q)
  /\ run' = [run EXCEPT ![p] = [pc |-> "generate", code |-> c, key |-> None]]
  /\ UNCHANGED <<database, keyring, config, call>>

\* _retrieve_private_key_pem: a failing keyring counts as one without a key.
Start(p, c) ==
  /\ run[p].pc = "idle"
  /\ p \in Careless \/ \A q \in Runs : ~Running(q)
  /\ \/ /\ keyring # None
        /\ run' = [run EXCEPT ![p] = [pc |-> "post", code |-> c, key |-> keyring]]
     \/ /\ keyring = None \/ p \in Careless
        /\ run' = [run EXCEPT ![p] = [pc |-> "generate", code |-> c, key |-> None]]
  /\ UNCHANGED <<database, keyring, config, call>>

\* _store_private_key_pem: when the keyring fails, the key pair stays in the
\* memory of the process and is gone when the process ends.
Generate(p) ==
  /\ run[p].pc = "generate"
  /\ run' = [run EXCEPT ![p].pc = "post", ![p].key = p]
  /\ \/ keyring' = p
     \/ p \in Careless /\ UNCHANGED keyring
  /\ UNCHANGED <<database, config, call>>

Post(p) ==
  /\ run[p].pc = "post"
  /\ run' = [run EXCEPT ![p].pc = "wait"]
  /\ call' = [call EXCEPT ![p] = "sent"]
  /\ UNCHANGED <<database, keyring, config>>

\* The answer: on success the configuration is to be written.
Answered(p) ==
  /\ run[p].pc = "wait"
  /\ call[p] \in {"enrolled", "refused"}
  /\ run' = [run EXCEPT ![p].pc = IF call[p] = "enrolled" THEN "save" ELSE "end"]
  /\ UNCHANGED <<database, keyring, config, call>>

\* No answer in 10 seconds, no connection, or the command is interrupted.
Unanswered(p) ==
  /\ Running(p)
  /\ run' = [run EXCEPT ![p].pc = "end"]
  /\ UNCHANGED <<database, keyring, config, call>>

SaveConfig(p) ==
  /\ run[p].pc = "save"
  /\ config' = p
  /\ run' = [run EXCEPT ![p].pc = "end"]
  /\ UNCHANGED <<database, keyring, call>>

-----------------------------------------------------------------------------
(* enroll_device: the code is read and judged, then redeemed by an UPDATE  *)
(* that repeats the condition, in the transaction that adds the device and *)
(* its credential.                                                         *)

EnrollRead(p) ==
  /\ call[p] = "sent"
  /\ call' = [call EXCEPT ![p] =
       IF code[run[p].code] = "open" /\ usedBy[run[p].code] = None
       THEN "redeem" ELSE "refused"]
  /\ UNCHANGED <<database, host>>

\* Mutations: the UPDATE is keyed by the id of the code alone; the device is
\* committed before the code is redeemed; the wrong column is written.
RedeemById(p) ==
  /\ call[p] = "redeem"
  /\ usedBy' = [usedBy EXCEPT ![run[p].code] = p]
  /\ device' = [device EXCEPT ![p] = run[p].key]
  /\ call' = [call EXCEPT ![p] = "enrolled"]
  /\ UNCHANGED <<code, host>>
RedeemCommitsEarly(p) ==
  /\ call[p] = "redeem"
  /\ device' = [device EXCEPT ![p] = run[p].key]
  /\ IF usedBy[run[p].code] = None
     THEN /\ usedBy' = [usedBy EXCEPT ![run[p].code] = p]
          /\ call' = [call EXCEPT ![p] = "enrolled"]
     ELSE /\ call' = [call EXCEPT ![p] = "refused"]
          /\ UNCHANGED usedBy
  /\ UNCHANGED <<code, host>>
RedeemUnchanged(p) ==
  /\ call[p] = "redeem"
  /\ usedBy' = [usedBy EXCEPT ![run[p].code] = code[run[p].code]]
  /\ device' = [device EXCEPT ![p] = run[p].key]
  /\ call' = [call EXCEPT ![p] = "enrolled"]
  /\ UNCHANGED <<code, host>>

Redeem(p) ==
  /\ call[p] = "redeem"
  /\ IF usedBy[run[p].code] = None
     THEN /\ usedBy' = [usedBy EXCEPT ![run[p].code] = p]
          /\ device' = [device EXCEPT ![p] = run[p].key]
          /\ call' = [call EXCEPT ![p] = "enrolled"]
     ELSE /\ call' = [call EXCEPT ![p] = "refused"]
          /\ UNCHANGED <<usedBy, device>>
  /\ UNCHANGED <<code, host>>

Next ==
  \/ \E c \in Codes : CreateCode(c) \/ Expire(c)
  \/ \E p \in Runs :
       \/ \E c \in Codes : Start(p, c)
       \/ Generate(p) \/ Post(p) \/ Answered(p) \/ Unanswered(p) \/ SaveConfig(p)
       \/ EnrollRead(p) \/ Redeem(p)

Spec == Init /\ [][Next]_vars

-----------------------------------------------------------------------------
(***************************************************************************)
(* Properties.                                                             *)
(***************************************************************************)

Enrolled(p) == device[p] # None

\* A code enrolls one device, whoever uses it at the same time or again after
\* an answer was lost, and it says which.
CodeEnrollsOne ==
  \A p \in Runs : Enrolled(p) <=> \E c \in Codes : usedBy[c] = p

\* A redeemed code stays with its device: it is never redeemed again.
RedeemedForGood ==
  [][\A c \in Codes : usedBy[c] # None => usedBy'[c] = usedBy[c]]_vars

NoneCareless == \A p \in Careless : run[p].pc = "idle"

\* keyring.py: "Retrieve existing local Ed25519 device keypair or generate a
\* new keypair": as long as no careless run was started, and when none is under
\* way, the configured device can sign: the keyring holds the key its credential
\* was registered with, although runs were refused, or interrupted, or lost the
\* answer of a server that enrolled them.
HostCanSign ==
  (config # None /\ NoneCareless /\ \A p \in Runs : ~Running(p)) =>
    keyring = device[config]
=============================================================================
