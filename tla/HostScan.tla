------------------------------ MODULE HostScan ------------------------------
(***************************************************************************)
(* execute_task of the agent (executor/task_executor.py) with the two      *)
(* scanners that walk through a list while the host changes under them:    *)
(* SCAN_FILE_INTEGRITY, one system call after the other for every path,    *)
(* and SCAN_PROCESSES, one process after the other.  What raises ends the  *)
(* scan (execute_with_safety_limits, scanners/base.py): it has FAILED and  *)
(* has no findings.  The other scanners take one look at the host.         *)
(*                                                                         *)
(* Python 3.11: exists() and is_file() answer FALSE for what is not there, *)
(* and raise PermissionError in a directory that may not be searched.      *)
(***************************************************************************)
EXTENDS Naturals, Sequences, FiniteSets

CONSTANTS
  Paths,           \* as resolved by validate_parameters
  Pids,            \* numbers: a process table is walked in their order
  Tasks,           \* what the agent may be told to do
  MaxFilesCount,   \* MAX_FILES_COUNT: 50
  MaxFileSize,     \* MAX_FILE_SIZE_BYTES, in chunks of 64 KB: 800
  MaxProcesses,    \* the most that max_processes may be: 5000
  MaxLength,       \* bound: chunks of a file
  MaxChanges       \* bound: changes of the host during the scan

FileTask == [capability : {"SCAN_FILE_INTEGRITY"}, paths : Seq(Paths)]
ProcessTask == [capability : {"SCAN_PROCESSES"}, max : Nat]
UnknownTask == [capability : {"UNKNOWN_CAP"}]

ASSUME ScanAssumption ==
  /\ Pids \subseteq Nat
  /\ \A t \in Tasks : t \in FileTask \/ t \in ProcessTask \/ t \in UnknownTask
  /\ {MaxFilesCount, MaxFileSize, MaxProcesses, MaxLength, MaxChanges} \subseteq Nat

VARIABLES
  fs,        \* what each path is
  procs,     \* the process table
  scan,      \* what execute_task is doing
  past,      \* history: all that each path and each process was since it began
  changes    \* how often the host changed; it also numbers what is written

vars == <<fs, procs, scan, past, changes>>

-----------------------------------------------------------------------------
\* A regular file is a number of chunks, all as some writing left them; one that
\* is "locked" may not be opened.  What is "hidden" lies in a directory that may
\* not be searched.
Regular == [kind : {"file", "locked"}, len : 0..MaxLength, ver : 0..MaxChanges]

File == Regular \cup [kind : {"none", "dir", "hidden"}]

\* A suspicious process runs from a temporary directory, or tells no name.
Names == {"none", "plain", "suspicious"}

\* What a path may be after the n-th change of the host.
Made(n) == {s \in File : s \in Regular => s.ver = n}

Idle == [pc |-> "idle"]

\* What the findings say of a path; "NOTHING" is none at all.
Said == [as : {"NOT_FOUND", "OVERSIZED", "PERMISSION_DENIED", "NOTHING"}]
        \cup [as : {"HASHED"}, hash : Seq(0..MaxChanges), size : 0..MaxLength,
              disturbed : BOOLEAN]

Calls == {"exists", "is_file", "stat", "open", "read"}

\* said is what is known of the paths done; size, hash and disturbed (history:
\* the path changed since its stat) belong to the one at hand, and file is what
\* the open descriptor reads, which its path names as long as linked is TRUE.
FileScan ==
  [pc : Calls, task : Tasks,
   said : Seq(Said), size : 0..MaxLength, hash : Seq(0..MaxChanges),
   file : File, linked : BOOLEAN, disturbed : BOOLEAN]

ProcessScan ==
  [pc : {"iterate"}, task : Tasks, left : SUBSET Pids, inspected : SUBSET Pids,
   suspicious : SUBSET Pids]

Ended ==
  [pc : {"FAILED"}, task : Tasks]
  \cup [pc : {"COMPLETED"}, task : Tasks, said : Seq(Said)]
  \cup [pc : {"COMPLETED"}, task : Tasks, inspected : SUBSET Pids,
        suspicious : SUBSET Pids]

TypeOK ==
  /\ fs \in [Paths -> File]
  /\ procs \in [Pids -> Names]
  /\ scan \in {Idle} \cup FileScan \cup ProcessScan \cup Ended
  /\ past \in [files : [Paths -> SUBSET File], names : [Pids -> SUBSET Names]]
  /\ changes \in 0..MaxChanges
  /\ scan \in FileScan => Len(scan.said) < Len(scan.task.paths)

Init ==
  /\ fs = [p \in Paths |-> [kind |-> "none"]]
  /\ procs = [p \in Pids |-> "none"]
  /\ scan = Idle
  /\ past = [files |-> [p \in Paths |-> {}], names |-> [p \in Pids |-> {}]]
  /\ changes = 0

-----------------------------------------------------------------------------
(* execute_task: a scanner is looked up and validates the parameters.      *)

\* validate_parameters; names that no path can have are not modelled.
Valid(t) ==
  \/ t \in FileTask /\ Len(t.paths) \in 1..MaxFilesCount
  \/ t \in ProcessTask /\ t.max \in 1..MaxProcesses

Fail == scan' = [pc |-> "FAILED", task |-> scan.task]

\* Before the first call for the next path.
NextPath(t, said) ==
  [pc |-> "exists", task |-> t, said |-> said, size |-> 0, hash |-> <<>>,
   file |-> [kind |-> "none"], linked |-> FALSE, disturbed |-> FALSE]

FailAtOnce(t) ==
  /\ scan' = [pc |-> "FAILED", task |-> t]
  /\ UNCHANGED <<fs, procs, past, changes>>

\* No scanner is registered for the capability.
Unsupported(t) == t \in UnknownTask /\ FailAtOnce(t)

\* validate_parameters raises ValueError.
Reject(t) == t \notin UnknownTask /\ ~Valid(t) /\ FailAtOnce(t)

\* The files are what they are when the task arrives.
ScanFiles(t) ==
  /\ Valid(t) /\ t \in FileTask
  /\ scan' = NextPath(t, <<>>)
  /\ fs' \in [Paths -> Made(0)]
  /\ past' = [past EXCEPT !.files = [p \in Paths |-> {fs'[p]}]]
  /\ UNCHANGED <<procs, changes>>

\* And so are the processes, whose numbers process_iter lists first.
ScanProcesses(t) ==
  /\ Valid(t) /\ t \in ProcessTask
  /\ procs' \in [Pids -> Names]
  /\ scan' = [pc |-> "iterate", task |-> t,
              left |-> {p \in Pids : procs'[p] # "none"},
              inspected |-> {}, suspicious |-> {}]
  /\ past' = [past EXCEPT !.names = [p \in Pids |-> {procs'[p]}]]
  /\ UNCHANGED <<fs, changes>>

execute_task(t) ==
  /\ scan = Idle
  /\ Unsupported(t) \/ Reject(t) \/ ScanFiles(t) \/ ScanProcesses(t)

-----------------------------------------------------------------------------
(* FileIntegrityScanner.run_scan: the calls for one path.                  *)

At(pc) == scan.pc = pc

Here == scan.task.paths[Len(scan.said) + 1]

Becomes(pc) == scan' = [scan EXCEPT !.pc = pc]

Completed(said) == scan' = [pc |-> "COMPLETED", task |-> scan.task, said |-> said]

\* A mutation: one path too many.
SayAndGoOn(what) ==
  IF Len(scan.said) = Len(scan.task.paths)
  THEN Completed(scan.said)
  ELSE scan' = NextPath(scan.task, Append(scan.said, what))

\* Done with this path, and after the last with the scan.
Say(what) ==
  IF Len(scan.said) + 1 = Len(scan.task.paths)
  THEN Completed(Append(scan.said, what))
  ELSE scan' = NextPath(scan.task, Append(scan.said, what))

exists ==
  /\ At("exists")
  /\ CASE fs[Here].kind = "none" -> Say([as |-> "NOT_FOUND"])
       [] fs[Here].kind = "hidden" -> Fail
       [] OTHER -> Becomes("is_file")
  /\ UNCHANGED <<fs, procs, past, changes>>

is_file ==
  /\ At("is_file")
  /\ CASE fs[Here] \in Regular -> Becomes("stat")
       [] fs[Here].kind = "hidden" -> Fail
       [] OTHER -> Say([as |-> "NOTHING"])
  /\ UNCHANGED <<fs, procs, past, changes>>

\* The limit is compared with the size that the path has now.
stat ==
  /\ At("stat")
  /\ CASE fs[Here].kind = "none" -> Fail
       [] fs[Here].kind = "hidden" -> Say([as |-> "PERMISSION_DENIED"])
       [] fs[Here].kind = "dir" ->
            scan' = [scan EXCEPT !.pc = "open", !.size = 0, !.disturbed = FALSE]
       [] fs[Here] \in Regular ->
            IF fs[Here].len > MaxFileSize
            THEN Say([as |-> "OVERSIZED"])
            ELSE scan' = [scan EXCEPT !.pc = "open", !.size = fs[Here].len,
                                      !.disturbed = FALSE]
  /\ UNCHANGED <<fs, procs, past, changes>>

\* A mutation: no error of open() is handled.
OpenOrFail ==
  /\ At("open")
  /\ IF fs[Here].kind = "file"
     THEN scan' = [scan EXCEPT !.pc = "read", !.file = fs[Here], !.linked = TRUE]
     ELSE Fail
  /\ UNCHANGED <<fs, procs, past, changes>>

open ==
  /\ At("open")
  /\ CASE fs[Here].kind \in {"none", "dir"} -> Fail
       [] fs[Here].kind \in {"locked", "hidden"} -> Say([as |-> "PERMISSION_DENIED"])
       [] fs[Here].kind = "file" ->
            scan' = [scan EXCEPT !.pc = "read", !.file = fs[Here], !.linked = TRUE]
  /\ UNCHANGED <<fs, procs, past, changes>>

\* A mutation: the first chunk is taken for the whole file.
ReadOnce ==
  /\ At("read")
  /\ IF Len(scan.hash) = 0 /\ scan.file.len > 0
     THEN scan' = [scan EXCEPT !.hash = Append(@, scan.file.ver)]
     ELSE Say([as |-> "HASHED", hash |-> scan.hash, size |-> scan.size,
               disturbed |-> scan.disturbed])
  /\ UNCHANGED <<fs, procs, past, changes>>

\* The next chunk, or the end of the file, which is hashed then.
read ==
  /\ At("read")
  /\ IF Len(scan.hash) < scan.file.len
     THEN scan' = [scan EXCEPT !.hash = Append(@, scan.file.ver)]
     ELSE Say([as |-> "HASHED", hash |-> scan.hash, size |-> scan.size,
               disturbed |-> scan.disturbed])
  /\ UNCHANGED <<fs, procs, past, changes>>

-----------------------------------------------------------------------------
(* ProcessScanner.run_scan, over psutil.process_iter: the processes there  *)
(* when it began, by number, each looked at when its turn comes; those     *)
(* gone by then are skipped.                                               *)

Foremost == CHOOSE p \in scan.left : \A q \in scan.left : p <= q

HasTurn ==
  /\ At("iterate")
  /\ scan.left # {}
  /\ Cardinality(scan.inspected) < scan.task.max

\* A mutation: the first process that is gone ends the walk.
PassEnds ==
  /\ HasTurn
  /\ procs[Foremost] = "none"
  /\ scan' = [scan EXCEPT !.left = {}]
  /\ UNCHANGED <<fs, procs, past, changes>>

Pass ==
  /\ HasTurn
  /\ procs[Foremost] = "none"
  /\ scan' = [scan EXCEPT !.left = @ \ {Foremost}]
  /\ UNCHANGED <<fs, procs, past, changes>>

Inspect ==
  /\ HasTurn
  /\ procs[Foremost] # "none"
  /\ scan' = [scan EXCEPT !.left = @ \ {Foremost},
                          !.inspected = @ \cup {Foremost},
                          !.suspicious = IF procs[Foremost] = "suspicious"
                                         THEN @ \cup {Foremost} ELSE @]
  /\ UNCHANGED <<fs, procs, past, changes>>

Summarise ==
  /\ At("iterate")
  /\ ~HasTurn
  /\ scan' = [pc |-> "COMPLETED", task |-> scan.task,
              inspected |-> scan.inspected, suspicious |-> scan.suspicious]
  /\ UNCHANGED <<fs, procs, past, changes>>

-----------------------------------------------------------------------------
(* The host changes, as far as the scan in progress looks at it.           *)

Changed == changes < MaxChanges /\ changes' = changes + 1

\* A file is written in place: who has it open reads what is written.
Write(p) ==
  /\ scan.pc \in Calls
  /\ Changed
  /\ fs[p].kind = "file"
  /\ \E n \in 0..MaxLength :
       LET written == [kind |-> "file", len |-> n, ver |-> changes'] IN
       /\ fs' = [fs EXCEPT ![p] = written]
       /\ past' = [past EXCEPT !.files[p] = @ \cup {written}]
       /\ scan' = [scan EXCEPT
                     !.disturbed = @ \/ p = Here,
                     !.file = IF p = Here /\ scan.linked THEN written ELSE @]
  /\ UNCHANGED procs

\* A path is removed, replaced, or has other permissions: who has its file open
\* reads on.
Replace(p) ==
  /\ scan.pc \in Calls
  /\ Changed
  /\ \E new \in Made(changes') :
       /\ fs' = [fs EXCEPT ![p] = new]
       /\ past' = [past EXCEPT !.files[p] = @ \cup {new}]
       /\ scan' = [scan EXCEPT !.disturbed = @ \/ p = Here,
                               !.linked = @ /\ p # Here]
  /\ UNCHANGED procs

\* Processes start and end; a number may be used again.
Become(p, name) ==
  /\ At("iterate")
  /\ Changed
  /\ procs[p] # name
  /\ procs' = [procs EXCEPT ![p] = name]
  /\ past' = [past EXCEPT !.names[p] = @ \cup {name}]
  /\ UNCHANGED <<fs, scan>>

-----------------------------------------------------------------------------
run_scan ==
  \/ exists \/ is_file \/ stat \/ open \/ read
  \/ Pass \/ Inspect \/ Summarise

Host ==
  \/ \E p \in Paths : Write(p) \/ Replace(p)
  \/ \E p \in Pids, name \in Names : Become(p, name)

Next ==
  \/ \E t \in Tasks : execute_task(t)
  \/ run_scan
  \/ Host

Spec == Init /\ [][Next]_vars

-----------------------------------------------------------------------------
(***************************************************************************)
(* Properties.                                                             *)
(***************************************************************************)

\* What a completed scan says of a path was true of it at some time during the
\* scan, however the path changed between the calls; a path it does not mention
\* was not a regular file at some time.  The hash of a file that nobody touched
\* since its size was checked is of all of it, and of nothing else.
FilesAccounted ==
  scan.pc = "COMPLETED" /\ scan.task \in FileTask =>
    \A n \in DOMAIN scan.task.paths :
      LET what == scan.said[n]
          was  == past.files[scan.task.paths[n]]
      IN CASE what.as = "NOT_FOUND" -> \E s \in was : s.kind = "none"
           [] what.as = "PERMISSION_DENIED" ->
                \E s \in was : s.kind \in {"locked", "hidden"}
           [] what.as = "OVERSIZED" ->
                \E s \in was \cap Regular : s.len > MaxFileSize
           [] what.as = "NOTHING" -> \E s \in was : s \notin Regular
           [] what.as = "HASHED" ->
                \/ what.disturbed
                \/ \E s \in was \cap Regular :
                     /\ s.len = what.size
                     /\ what.hash = [i \in 1..s.len |-> s.ver]

\* A task that is well formed fails only if a path is in a directory that may not
\* be searched, or a regular file ceased to be one during the scan: a file that
\* may not be read does not cost the findings of the others.
FailsForAReason ==
  scan.pc = "FAILED" /\ Valid(scan.task) =>
    \E n \in DOMAIN scan.task.paths :
      LET was == past.files[scan.task.paths[n]] IN
      \/ \E s \in was : s.kind = "hidden"
      \/ was \cap Regular # {} /\ \E s \in was : s.kind \in {"none", "dir"}

\* Who runs under a suspicious name during the whole scan is reported, unless
\* max_processes others come before it, whatever starts and ends meanwhile; and
\* who is reported did run under one.
ProcessesAccounted ==
  scan.pc = "COMPLETED" /\ scan.task \in ProcessTask =>
    /\ \A p \in scan.suspicious : "suspicious" \in past.names[p]
    /\ \A p \in Pids :
         past.names[p] = {"suspicious"} =>
           \/ p \in scan.suspicious
           \/ /\ Cardinality(scan.inspected) = scan.task.max
              /\ \A q \in scan.inspected : q < p
=============================================================================
