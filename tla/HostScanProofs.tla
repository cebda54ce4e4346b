--------------------------- MODULE HostScanProofs ---------------------------
(***************************************************************************)
(* Theorems about HostScan, for any tasks, limits, files and processes,    *)
(* and any number of changes of the host.                                  *)
(***************************************************************************)
EXTENDS HostScan, FiniteSetTheorems, SequenceTheorems, WellFoundedInduction, TLAPS

-----------------------------------------------------------------------------
(* What a scan of files knows between two calls.                           *)

\* What may be said of a path that has been all that is in `was`.
TrueOf(what, was) ==
  CASE what.as = "NOT_FOUND" -> \E s \in was : s.kind = "none"
    [] what.as = "PERMISSION_DENIED" -> \E s \in was : s.kind \in {"locked", "hidden"}
    [] what.as = "OVERSIZED" -> \E s \in was \cap Regular : s.len > MaxFileSize
    [] what.as = "NOTHING" -> \E s \in was : s \notin Regular
    [] what.as = "HASHED" ->
         \/ what.disturbed
         \/ \E s \in was \cap Regular :
              /\ s.len = what.size
              /\ what.hash = [i \in 1..s.len |-> s.ver]

Scanning == scan.pc \in Calls

\* History has what is there now.
PastHasNow == Scanning => \A p \in Paths : fs[p] \in past.files[p]

SaidTrue ==
  Scanning => /\ scan.task \in FileTask
              /\ \A n \in DOMAIN scan.said :
                   TrueOf(scan.said[n], past.files[scan.task.paths[n]])

\* Only what was a regular file is checked, opened and read.
WasRegular ==
  scan.pc \in {"stat", "open", "read"} => past.files[Here] \cap Regular # {}

\* A path that nobody touched since its size was checked has that size still, ...
SizeHolds ==
  scan.pc \in {"open", "read"} /\ ~scan.disturbed =>
    fs[Here].kind = "dir" \/ (fs[Here] \in Regular /\ fs[Here].len = scan.size)

\* ... and the open file is the one that the path names, read so far as it is.
HashHolds ==
  /\ Scanning /\ scan.pc # "read" => scan.hash = <<>>
  /\ scan.pc = "read" =>
       /\ scan.file \in Regular
       /\ ~scan.disturbed =>
            /\ scan.linked /\ scan.file = fs[Here]
            /\ Len(scan.hash) <= scan.file.len
            /\ scan.hash = [i \in 1..Len(scan.hash) |-> scan.file.ver]

FilesInv == PastHasNow /\ SaidTrue /\ WasRegular /\ SizeHolds /\ HashHolds

-----------------------------------------------------------------------------
(* What a scan of processes knows between two turns.                       *)

Iterating == scan.pc = "iterate"

\* Those who run under a suspicious name all the time have their turn yet, or had it.
Pending ==
  Iterating =>
    /\ \A p \in Pids : procs[p] \in past.names[p]
    /\ \A p \in scan.suspicious : "suspicious" \in past.names[p]
    /\ \A p \in Pids : past.names[p] = {"suspicious"} =>
                         p \in scan.left \cup scan.suspicious

\* Turns come by number, and no more than max_processes.
TurnsInOrder ==
  Iterating =>
    /\ scan.task \in ProcessTask
    /\ IsFiniteSet(scan.inspected)
    /\ Cardinality(scan.inspected) <= scan.task.max
    /\ \A q \in scan.inspected, p \in scan.left : q < p

ProcessesInv == Pending /\ TurnsInOrder

IInv ==
  /\ TypeOK
  /\ FilesInv
  /\ ProcessesInv
  /\ FilesAccounted
  /\ FailsForAReason
  /\ ProcessesAccounted

-----------------------------------------------------------------------------
(* Facts about data.                                                       *)

\* The process with the least number is the next one.
LEMMA LeastOf ==
  ASSUME NEW S, S \subseteq Nat, S # {}
  PROVE  \E p \in S : \A q \in S : p <= q
  <1> DEFINE Less == {ss \in Nat \X Nat : ss[1] < ss[2]}
  <1>1. IsWellFoundedOn(Less, Nat)
    BY NatLessThanWellFounded, Zenon DEF OpToRel
  <1> HIDE DEF Less
  <1>2. PICK p \in S : \A q \in S : ~ (<<q, p>> \in Less)
    BY <1>1, WFMin
  <1>3. \A q \in S : ~ (q < p)
    BY <1>2 DEF Less
  <1>4. QED
    BY <1>3

\* What was true of a path remains so.
LEMMA TrueRemains ==
  ASSUME NEW what \in Said, NEW was, NEW more, was \subseteq more, TrueOf(what, was)
  PROVE  TrueOf(what, more)
  BY DEF TrueOf, Said

\* The fields of a scan of files, and the path at hand.
LEMMA FileFields ==
  ASSUME TypeOK, SaidTrue, Scanning
  PROVE  /\ scan \in FileScan
         /\ scan.task \in Tasks /\ scan.task \in FileTask
         /\ scan.task.paths \in Seq(Paths)
         /\ scan.said \in Seq(Said) /\ Len(scan.said) \in Nat
         /\ Len(scan.said) < Len(scan.task.paths)
         /\ DOMAIN scan.task.paths = 1..Len(scan.task.paths)
         /\ Here \in Paths
  <1>1. scan \in FileScan
    BY DEF TypeOK, Scanning, Calls, Idle, ProcessScan, Ended
  <1>2. /\ scan.task \in Tasks /\ scan.task \in FileTask
        /\ scan.task.paths \in Seq(Paths)
        /\ scan.said \in Seq(Said)
    BY <1>1 DEF FileScan, SaidTrue, FileTask
  <1>3. /\ Len(scan.said) \in Nat /\ Len(scan.task.paths) \in Nat
        /\ Len(scan.said) < Len(scan.task.paths)
        /\ DOMAIN scan.task.paths = 1..Len(scan.task.paths)
    BY <1>1, <1>2 DEF TypeOK
  <1>4. Len(scan.said) + 1 \in 1..Len(scan.task.paths)
    BY <1>3
  <1>5. Here \in Paths
    BY <1>2, <1>3, <1>4 DEF Here
  <1>6. QED
    BY <1>1, <1>2, <1>3, <1>5

-----------------------------------------------------------------------------
(* The steps of a scan of files.                                           *)

LEMMA FirstCall ==
  ASSUME NEW t \in Tasks, NEW said \in Seq(Said)
  PROVE  /\ NextPath(t, said) \in FileScan
         /\ NextPath(t, said).pc = "exists" /\ NextPath(t, said).hash = <<>>
         /\ NextPath(t, said).task = t /\ NextPath(t, said).said = said
  <1>1. /\ "exists" \in Calls /\ 0 \in 0..MaxLength /\ <<>> \in Seq(0..MaxChanges)
        /\ [kind |-> "none"] \in File
    BY ScanAssumption DEF Calls, File
  <1>2. QED
    BY <1>1 DEF NextPath, FileScan

\* From one call to the next, for the same path.
LEMMA CallStep ==
  ASSUME IInv, Scanning, NEW state \in FileScan, scan' = state,
         state.task = scan.task, state.said = scan.said,
         UNCHANGED <<fs, procs, past, changes>>,
         WasRegular', SizeHolds', HashHolds'
  PROVE  IInv'
  <1>1. /\ scan.task \in FileTask /\ Len(scan.said) < Len(scan.task.paths)
        /\ \A n \in DOMAIN scan.said :
             TrueOf(scan.said[n], past.files[scan.task.paths[n]])
    BY FileFields DEF IInv, FilesInv, SaidTrue
  <1>2. state.pc \in Calls
    BY DEF FileScan
  <1>3. TypeOK'
    BY <1>1 DEF IInv, TypeOK
  <1>4. PastHasNow' /\ SaidTrue'
    BY <1>1 DEF IInv, FilesInv, PastHasNow, SaidTrue, Scanning
  <1>5. ProcessesInv' /\ FilesAccounted' /\ FailsForAReason' /\ ProcessesAccounted'
    BY <1>2 DEF ProcessesInv, Pending, TurnsInOrder, Iterating, FilesAccounted,
       FailsForAReason, ProcessesAccounted, Calls
  <1>6. QED
    BY <1>3, <1>4, <1>5 DEF IInv, FilesInv

\* The path is done, and something true is said of it.
LEMMA SayStep ==
  ASSUME IInv, Scanning, NEW what \in Said, TrueOf(what, past.files[Here]),
         Say(what), UNCHANGED <<fs, procs, past, changes>>
  PROVE  IInv'
  <1>1. /\ scan \in FileScan
        /\ scan.task \in Tasks /\ scan.task \in FileTask
        /\ scan.said \in Seq(Said) /\ Len(scan.said) \in Nat
        /\ Len(scan.said) < Len(scan.task.paths)
        /\ DOMAIN scan.task.paths = 1..Len(scan.task.paths)
        /\ scan.task.paths \in Seq(Paths)
    BY FileFields DEF IInv, FilesInv
  <1>2. PICK said : said = Append(scan.said, what)
    OBVIOUS
  <1>3. /\ said \in Seq(Said) /\ Len(said) = Len(scan.said) + 1
        /\ DOMAIN said = 1..Len(said)
        /\ said[Len(said)] = what
        /\ \A n \in 1..Len(scan.said) : said[n] = scan.said[n]
    BY <1>1, <1>2, AppendProperties
  <1>4. \A n \in 1..Len(said) : TrueOf(said[n], past.files[scan.task.paths[n]])
    BY <1>1, <1>3 DEF IInv, FilesInv, SaidTrue, Here
  <1>5. CASE Len(said) = Len(scan.task.paths)
    <2>1. scan' = [pc |-> "COMPLETED", task |-> scan.task, said |-> said]
      BY <1>2, <1>3, <1>5 DEF Say, Completed
    <2>2. scan' \in Ended /\ scan'.pc = "COMPLETED"
      BY <1>1, <1>3, <2>1 DEF Ended
    <2>3. TypeOK'
      BY <2>2 DEF IInv, TypeOK, Ended, FileScan, Calls
    <2>4. FilesAccounted'
      <3>1. \A n \in DOMAIN scan'.task.paths :
              TrueOf(scan'.said[n], past'.files[scan'.task.paths[n]])
        BY <1>1, <1>4, <1>5, <2>1
      <3>2. QED
        BY <3>1, Zenon DEF FilesAccounted, TrueOf
    <2>5. scan'.task \notin ProcessTask
      BY <1>1, <2>1 DEF FileTask, ProcessTask
    <2>6. FailsForAReason' /\ ProcessesAccounted'
      BY <2>2, <2>5 DEF FailsForAReason, ProcessesAccounted
    <2>7. FilesInv' /\ ProcessesInv'
      BY <2>2 DEF FilesInv, PastHasNow, SaidTrue, WasRegular, SizeHolds, HashHolds,
         ProcessesInv, Pending, TurnsInOrder, Iterating, Scanning, Calls
    <2>8. QED
      BY <2>3, <2>4, <2>6, <2>7 DEF IInv
  <1>6. CASE Len(said) # Len(scan.task.paths)
    <2>1. scan' = NextPath(scan.task, said)
      BY <1>2, <1>3, <1>6 DEF Say
    <2>2. /\ scan' \in FileScan /\ scan'.pc = "exists" /\ scan'.hash = <<>>
          /\ scan'.task = scan.task /\ scan'.said = said
      BY <1>1, <1>3, <2>1, FirstCall
    <2>3. TypeOK'
      BY <1>1, <1>3, <1>6, <2>2 DEF IInv, TypeOK
    <2>4. FilesInv'
      BY <1>1, <1>3, <1>4, <2>2 DEF IInv, FilesInv, PastHasNow, SaidTrue, WasRegular,
         SizeHolds, HashHolds, Scanning
    <2>5. ProcessesInv' /\ FilesAccounted' /\ FailsForAReason' /\ ProcessesAccounted'
      BY <2>2 DEF ProcessesInv, Pending, TurnsInOrder, Iterating, FilesAccounted,
         FailsForAReason, ProcessesAccounted
    <2>6. QED
      BY <2>3, <2>4, <2>5 DEF IInv
  <1>7. QED
    BY <1>5, <1>6

\* The scan fails, for a reason.
LEMMA FailStep ==
  ASSUME IInv, Scanning, Fail, UNCHANGED <<fs, procs, past, changes>>,
         \/ fs[Here].kind = "hidden"
         \/ scan.pc \in {"stat", "open", "read"} /\ fs[Here].kind \in {"none", "dir"}
  PROVE  IInv'
  <1>1. /\ scan.task \in Tasks /\ Here \in Paths
        /\ Len(scan.said) + 1 \in DOMAIN scan.task.paths
    BY FileFields DEF IInv, FilesInv
  <1>2. scan' = [pc |-> "FAILED", task |-> scan.task]
    BY DEF Fail
  <1>3. scan' \in Ended
    BY <1>1, <1>2 DEF Ended
  <1>4. TypeOK'
    BY <1>2, <1>3 DEF IInv, TypeOK, FileScan, Calls
  <1>5. fs[Here] \in past.files[Here]
    BY <1>1 DEF IInv, FilesInv, PastHasNow
  <1>6. FailsForAReason'
    BY <1>1, <1>2, <1>5 DEF IInv, FilesInv, WasRegular, FailsForAReason, Here
  <1>7. FilesInv' /\ ProcessesInv' /\ FilesAccounted' /\ ProcessesAccounted'
    BY <1>2 DEF FilesInv, PastHasNow, SaidTrue, WasRegular, SizeHolds, HashHolds,
       ProcessesInv, Pending, TurnsInOrder, Iterating, Scanning, Calls,
       FilesAccounted, ProcessesAccounted
  <1>8. QED
    BY <1>4, <1>6, <1>7 DEF IInv

\* What is known before every call.
LEMMA BeforeCall ==
  ASSUME IInv, Scanning
  PROVE  /\ scan \in FileScan /\ Here \in Paths
         /\ fs[Here] \in File /\ fs[Here] \in past.files[Here]
  BY FileFields DEF IInv, FilesInv, PastHasNow, TypeOK

LEMMA ExistsStep == ASSUME IInv, exists PROVE IInv'
  <1>1. /\ At("exists") /\ Scanning /\ UNCHANGED <<fs, procs, past, changes>>
    BY DEF exists, At, Scanning, Calls
  <1>2. CASE fs[Here].kind = "none"
    <2> DEFINE what == [as |-> "NOT_FOUND"]
    <2>1. what \in Said /\ TrueOf(what, past.files[Here]) /\ Say(what)
      BY <1>1, <1>2, BeforeCall DEF exists, Said, TrueOf
    <2>2. QED
      BY <1>1, <2>1, SayStep
  <1>3. CASE fs[Here].kind = "hidden"
    BY <1>1, <1>3, FailStep DEF exists
  <1>4. CASE fs[Here].kind \notin {"none", "hidden"}
    <2> DEFINE state == [scan EXCEPT !.pc = "is_file"]
    <2>1. scan' = state
      BY <1>4 DEF exists, Becomes
    <2>2. /\ state \in FileScan /\ state.pc = "is_file" /\ state.hash = scan.hash
          /\ state.task = scan.task /\ state.said = scan.said
      BY <1>1, BeforeCall DEF FileScan, Calls
    <2>3. WasRegular' /\ SizeHolds' /\ HashHolds'
      BY <1>1, <2>1, <2>2 DEF IInv, FilesInv, WasRegular, SizeHolds, HashHolds, Scanning, At
    <2>4. QED
      BY <1>1, <2>1, <2>2, <2>3, CallStep
  <1>5. QED
    BY <1>2, <1>3, <1>4

LEMMA IsFileStep == ASSUME IInv, is_file PROVE IInv'
  <1>1. /\ At("is_file") /\ Scanning /\ UNCHANGED <<fs, procs, past, changes>>
    BY DEF is_file, At, Scanning, Calls
  <1>2. CASE fs[Here] \in Regular
    <2> DEFINE state == [scan EXCEPT !.pc = "stat"]
    <2>1. scan' = state
      BY <1>2 DEF is_file, Becomes, Regular
    <2>2. /\ state \in FileScan /\ state.pc = "stat" /\ state.hash = scan.hash
          /\ state.task = scan.task /\ state.said = scan.said
      BY <1>1, BeforeCall DEF FileScan, Calls
    <2>3. past'.files[Here'] \cap Regular # {}
      BY <1>1, <1>2, <2>1, <2>2, BeforeCall DEF Here
    <2>4. WasRegular' /\ SizeHolds' /\ HashHolds'
      BY <1>1, <2>1, <2>2, <2>3 DEF IInv, FilesInv, WasRegular, SizeHolds, HashHolds,
         Scanning, At
    <2>5. QED
      BY <1>1, <2>1, <2>2, <2>4, CallStep
  <1>3. CASE fs[Here].kind = "hidden"
    <2>1. fs[Here] \notin Regular
      BY <1>3 DEF Regular
    <2>2. QED
      BY <1>1, <1>3, <2>1, FailStep DEF is_file
  <1>4. CASE fs[Here] \notin Regular /\ fs[Here].kind # "hidden"
    <2> DEFINE what == [as |-> "NOTHING"]
    <2>1. what \in Said /\ TrueOf(what, past.files[Here]) /\ Say(what)
      BY <1>1, <1>4, BeforeCall DEF is_file, Said, TrueOf
    <2>2. QED
      BY <1>1, <2>1, SayStep
  <1>5. QED
    BY <1>2, <1>3, <1>4

LEMMA Kinds ==
  ASSUME NEW s \in File
  PROVE  /\ s.kind \in {"file", "locked", "none", "dir", "hidden"}
         /\ s \in Regular <=> s.kind \in {"file", "locked"}
         /\ s \in Regular => s.len \in 0..MaxLength /\ s.ver \in 0..MaxChanges
  BY DEF File, Regular

LEMMA StatStep == ASSUME IInv, stat PROVE IInv'
  <1>1. /\ At("stat") /\ Scanning /\ UNCHANGED <<fs, procs, past, changes>>
        /\ scan.pc = "stat" /\ scan.hash = <<>>
        /\ past.files[Here] \cap Regular # {}
    BY DEF stat, At, Scanning, Calls, IInv, FilesInv, HashHolds, WasRegular
  \* The size is known, and the file is opened next.
  <1>2. ASSUME NEW size \in 0..MaxLength,
               scan' = [scan EXCEPT !.pc = "open", !.size = size, !.disturbed = FALSE],
               fs[Here].kind = "dir" \/ (fs[Here] \in Regular /\ fs[Here].len = size)
        PROVE  IInv'
    <2> DEFINE state == [scan EXCEPT !.pc = "open", !.size = size, !.disturbed = FALSE]
    <2>1. /\ state \in FileScan /\ state.pc = "open" /\ state.hash = <<>>
          /\ state.size = size
          /\ state.task = scan.task /\ state.said = scan.said
      BY <1>1, BeforeCall DEF FileScan, Calls
    <2>2. scan' = state
      BY <1>2
    <2>3. Here' = Here
      BY <2>1, <2>2 DEF Here
    <2>4. WasRegular' /\ SizeHolds' /\ HashHolds'
      BY <1>1, <1>2, <2>1, <2>2, <2>3 DEF WasRegular, SizeHolds, HashHolds
    <2>5. QED
      BY <1>1, <2>1, <2>2, <2>4, CallStep
  <1>3. CASE fs[Here].kind = "none"
    <2>1. Fail
      BY <1>3 DEF stat, Regular, Fail
    <2>2. QED
      BY <1>1, <1>3, <2>1, FailStep
  <1>4. CASE fs[Here].kind = "hidden"
    <2> DEFINE what == [as |-> "PERMISSION_DENIED"]
    <2>1. what \in Said /\ TrueOf(what, past.files[Here])
      BY <1>1, <1>4, BeforeCall DEF Said, TrueOf
    <2>2. Say(what)
      BY <1>4 DEF stat, Regular
    <2>3. QED
      BY <1>1, <2>1, <2>2, SayStep
  <1>5. CASE fs[Here].kind = "dir"
    <2>1. scan' = [scan EXCEPT !.pc = "open", !.size = 0, !.disturbed = FALSE]
      BY <1>5 DEF stat, Regular
    <2>2. 0 \in 0..MaxLength
      BY ScanAssumption
    <2>3. QED
      BY <1>2, <1>5, <2>1, <2>2
  <1>6. CASE fs[Here] \in Regular
    <2>1. fs[Here].kind \notin {"none", "hidden", "dir"} /\ fs[Here].len \in 0..MaxLength
      BY <1>6 DEF Regular
    <2>2. CASE fs[Here].len > MaxFileSize
      <3> DEFINE what == [as |-> "OVERSIZED"]
      <3>1. what \in Said /\ TrueOf(what, past.files[Here]) /\ Say(what)
        BY <1>1, <1>6, <2>1, <2>2, BeforeCall DEF stat, Said, TrueOf
      <3>2. QED
        BY <1>1, <3>1, SayStep
    <2>3. CASE ~ (fs[Here].len > MaxFileSize)
      <3>1. scan' = [scan EXCEPT !.pc = "open", !.size = fs[Here].len, !.disturbed = FALSE]
        BY <1>6, <2>1, <2>3 DEF stat
      <3>2. QED
        BY <1>2, <1>6, <2>1, <3>1
    <2>4. QED
      BY <2>2, <2>3
  <1>7. QED
    BY <1>1, <1>3, <1>4, <1>5, <1>6, BeforeCall, Kinds

LEMMA OpenStep == ASSUME IInv, open PROVE IInv'
  <1>1. /\ Scanning /\ UNCHANGED <<fs, procs, past, changes>>
        /\ scan.pc = "open" /\ scan.hash = <<>>
        /\ past.files[Here] \cap Regular # {}
    BY DEF open, At, Scanning, Calls, IInv, FilesInv, HashHolds, WasRegular
  <1>2. CASE fs[Here].kind \in {"none", "dir"}
    <2>1. Fail
      BY <1>2 DEF open
    <2>2. QED
      BY <1>1, <1>2, <2>1, FailStep
  <1>3. CASE fs[Here].kind \in {"locked", "hidden"}
    <2> DEFINE what == [as |-> "PERMISSION_DENIED"]
    <2>1. what \in Said /\ TrueOf(what, past.files[Here])
      BY <1>1, <1>3, BeforeCall DEF Said, TrueOf
    <2>2. Say(what)
      BY <1>3 DEF open
    <2>3. QED
      BY <1>1, <2>1, <2>2, SayStep
  <1>4. CASE fs[Here].kind = "file"
    <2> DEFINE state == [scan EXCEPT !.pc = "read", !.file = fs[Here], !.linked = TRUE]
    <2>1. scan' = state
      BY <1>4 DEF open
    <2>2. /\ state \in FileScan /\ state.pc = "read" /\ state.hash = <<>>
          /\ state.file = fs[Here] /\ state.linked = TRUE
          /\ state.size = scan.size /\ state.disturbed = scan.disturbed
          /\ state.task = scan.task /\ state.said = scan.said
      BY <1>1, BeforeCall DEF FileScan, Calls
    <2>3. Here' = Here
      BY <2>1, <2>2 DEF Here
    <2>4. fs[Here] \in Regular /\ fs[Here].len \in Nat
      BY <1>1, <1>4, BeforeCall, Kinds
    <2>5. /\ Len(<<>>) = 0 /\ <<>> = [i \in 1..Len(<<>>) |-> fs[Here].ver]
      OBVIOUS
    <2>6. HashHolds'
      BY <1>1, <2>1, <2>2, <2>3, <2>4, <2>5 DEF HashHolds
    <2>7. WasRegular' /\ SizeHolds'
      BY <1>1, <2>1, <2>2, <2>3 DEF IInv, FilesInv, WasRegular, SizeHolds
    <2>8. QED
      BY <1>1, <2>1, <2>2, <2>6, <2>7, CallStep
  <1>5. fs[Here].kind \in {"file", "locked", "none", "dir", "hidden"}
    BY <1>1, BeforeCall, Kinds
  <1>6. QED
    BY <1>2, <1>3, <1>4, <1>5

LEMMA AppendSame ==
  ASSUME NEW S, NEW v \in S, NEW s \in Seq(S), s = [i \in 1..Len(s) |-> v]
  PROVE  Append(s, v) = [i \in 1..(Len(s) + 1) |-> v]
  <1>1. /\ Append(s, v) \in Seq(S) /\ Len(s) \in Nat
        /\ Len(Append(s, v)) = Len(s) + 1
        /\ \A i \in 1..Len(s) : Append(s, v)[i] = s[i]
        /\ Append(s, v)[Len(s) + 1] = v
    BY AppendProperties
  <1> DEFINE t == [i \in 1..(Len(s) + 1) |-> v]
  <1>2. t \in Seq(S) /\ Len(t) = Len(s) + 1 /\ \A i \in 1..Len(t) : t[i] = v
    BY <1>1
  <1>3. \A i \in 1..Len(Append(s, v)) : Append(s, v)[i] = t[i]
    BY <1>1, <1>2
  <1> HIDE DEF t
  <1>4. Append(s, v) = t
    BY <1>1, <1>2, <1>3, SeqEqual
  <1>5. QED
    BY <1>4 DEF t

LEMMA ReadStep == ASSUME IInv, read PROVE IInv'
  <1>1. /\ Scanning /\ UNCHANGED <<fs, procs, past, changes>>
        /\ scan.pc = "read" /\ scan.file \in Regular
        /\ past.files[Here] \cap Regular # {}
    BY DEF read, At, Scanning, Calls, IInv, FilesInv, HashHolds, WasRegular
  <1>2. /\ scan \in FileScan /\ scan.file.len \in 0..MaxLength
        /\ scan.file.ver \in 0..MaxChanges
        /\ scan.hash \in Seq(0..MaxChanges) /\ Len(scan.hash) \in Nat
        /\ MaxLength \in Nat
    BY <1>1, BeforeCall, ScanAssumption DEF FileScan, Regular
  <1>3. ASSUME ~scan.disturbed
        PROVE  /\ scan.linked /\ scan.file = fs[Here]
               /\ Len(scan.hash) <= scan.file.len
               /\ scan.hash = [i \in 1..Len(scan.hash) |-> scan.file.ver]
               /\ fs[Here] \in Regular /\ fs[Here].len = scan.size
    BY <1>1, <1>3 DEF IInv, FilesInv, HashHolds, SizeHolds, Regular
  <1>4. CASE Len(scan.hash) < scan.file.len
    <2>1. PICK hash : hash = Append(scan.hash, scan.file.ver)
      OBVIOUS
    <2>2. hash \in Seq(0..MaxChanges) /\ Len(hash) = Len(scan.hash) + 1
      BY <1>2, <2>1, AppendProperties
    <2> DEFINE state == [scan EXCEPT !.hash = hash]
    <2>3. scan' = state
      BY <1>4, <2>1 DEF read
    <2>4. /\ state \in FileScan /\ state.pc = "read" /\ state.hash = hash
          /\ state.file = scan.file /\ state.linked = scan.linked
          /\ state.size = scan.size /\ state.disturbed = scan.disturbed
          /\ state.task = scan.task /\ state.said = scan.said
      BY <1>1, <1>2, <2>2 DEF FileScan
    <2> HIDE DEF state
    <2>5. Here' = Here
      BY <2>3, <2>4 DEF Here
    <2>6. ASSUME ~scan.disturbed
          PROVE  /\ Len(hash) <= scan.file.len
                 /\ hash = [i \in 1..Len(hash) |-> scan.file.ver]
      <3>1. Len(hash) <= scan.file.len
        BY <1>2, <1>4, <2>2
      <3>2. hash = [i \in 1..(Len(scan.hash) + 1) |-> scan.file.ver]
        BY <1>2, <1>3, <2>1, <2>6, AppendSame
      <3>3. QED
        BY <2>2, <3>1, <3>2
    <2>7. HashHolds'
      BY <1>1, <1>3, <2>3, <2>4, <2>5, <2>6 DEF HashHolds
    <2>8. WasRegular' /\ SizeHolds'
      BY <1>1, <2>3, <2>4, <2>5 DEF IInv, FilesInv, WasRegular, SizeHolds
    <2>9. QED
      BY <1>1, <2>3, <2>4, <2>7, <2>8, CallStep
  <1>5. CASE ~ (Len(scan.hash) < scan.file.len)
    <2> DEFINE what == [as |-> "HASHED", hash |-> scan.hash, size |-> scan.size,
                        disturbed |-> scan.disturbed]
    <2>1. what \in Said
      BY <1>2 DEF Said, FileScan
    <2>2. TrueOf(what, past.files[Here])
      <3>1. /\ what.as = "HASHED" /\ what.hash = scan.hash /\ what.size = scan.size
            /\ what.disturbed = scan.disturbed
        OBVIOUS
      <3>2. ASSUME ~scan.disturbed
            PROVE  \E s \in past.files[Here] \cap Regular :
                     /\ s.len = scan.size
                     /\ scan.hash = [i \in 1..s.len |-> s.ver]
        <4>1. Len(scan.hash) = scan.file.len
          BY <1>2, <1>3, <1>5, <3>2
        <4>2. fs[Here] \in past.files[Here] \cap Regular
          BY <1>1, <1>3, <3>2, BeforeCall
        <4>3. QED
          BY <1>3, <3>2, <4>1, <4>2
      <3> HIDE DEF what
      <3>3. QED
        BY <3>1, <3>2 DEF TrueOf
    <2>3. Say(what)
      BY <1>5 DEF read
    <2>4. QED
      BY <1>1, <2>1, <2>2, <2>3, SayStep
  <1>6. QED
    BY <1>4, <1>5

-----------------------------------------------------------------------------
(* The steps of the host during a scan of files.                           *)

\* A path changes between two calls.
LEMMA ChangeStep ==
  ASSUME IInv, Scanning, NEW p \in Paths, NEW new \in File, NEW state \in FileScan,
         scan' = state, fs' = [fs EXCEPT ![p] = new],
         past' = [past EXCEPT !.files[p] = @ \cup {new}], procs' = procs,
         changes' \in 0..MaxChanges,
         state.pc = scan.pc, state.task = scan.task, state.said = scan.said,
         state.size = scan.size, state.hash = scan.hash,
         ~state.disturbed => ~scan.disturbed /\ p # Here,
         state.pc = "read" =>
           /\ state.file \in Regular
           /\ ~state.disturbed => state.linked = scan.linked /\ state.file = scan.file
  PROVE  IInv'
  <1>1. /\ scan \in FileScan /\ Here \in Paths
        /\ scan.task \in Tasks /\ scan.task \in FileTask
        /\ scan.task.paths \in Seq(Paths)
        /\ scan.said \in Seq(Said) /\ Len(scan.said) \in Nat
        /\ Len(scan.said) < Len(scan.task.paths)
        /\ DOMAIN scan.task.paths = 1..Len(scan.task.paths)
    BY FileFields DEF IInv, FilesInv
  <1>2. /\ fs \in [Paths -> File]
        /\ past \in [files : [Paths -> SUBSET File], names : [Pids -> SUBSET Names]]
        /\ state.pc \in Calls
    BY DEF IInv, TypeOK, FileScan
  <1>3. /\ fs' \in [Paths -> File]
        /\ \A q \in Paths : fs'[q] = IF q = p THEN new ELSE fs[q]
    BY <1>2
  <1>4. /\ past' \in [files : [Paths -> SUBSET File], names : [Pids -> SUBSET Names]]
        /\ \A q \in Paths : past'.files[q] = past.files[q] \cup (IF q = p THEN {new} ELSE {})
        /\ past'.names = past.names
    BY <1>2
  <1>5. Here' = Here
    BY DEF Here
  <1>6. TypeOK'
    BY <1>1, <1>3, <1>4 DEF IInv, TypeOK
  <1>7. PastHasNow'
    BY <1>3, <1>4 DEF IInv, FilesInv, PastHasNow
  <1>8. SaidTrue'
    <2>1. ASSUME NEW n \in DOMAIN scan.said
          PROVE  TrueOf(scan.said[n], past'.files[scan.task.paths[n]])
      <3>1. /\ n \in 1..Len(scan.said) /\ scan.said[n] \in Said
            /\ scan.task.paths[n] \in Paths
        BY <1>1
      <3>2. /\ TrueOf(scan.said[n], past.files[scan.task.paths[n]])
            /\ past.files[scan.task.paths[n]] \subseteq past'.files[scan.task.paths[n]]
        BY <1>4, <3>1 DEF IInv, FilesInv, SaidTrue
      <3>3. QED
        BY <3>1, <3>2, TrueRemains
    <2>2. QED
      BY <1>1, <2>1 DEF SaidTrue
  <1>9. WasRegular' /\ SizeHolds'
    BY <1>1, <1>3, <1>4, <1>5 DEF IInv, FilesInv, WasRegular, SizeHolds
  <1>10. HashHolds'
    <2>1. HashHolds /\ scan'.pc = scan.pc /\ scan'.hash = scan.hash
      BY DEF IInv, FilesInv
    <2>2. ASSUME scan.pc = "read", ~state.disturbed
          PROVE  /\ state.linked /\ state.file = fs'[Here]
                 /\ Len(scan.hash) <= state.file.len
                 /\ scan.hash = [i \in 1..Len(scan.hash) |-> state.file.ver]
      <3>1. ~scan.disturbed /\ p # Here /\ fs'[Here] = fs[Here]
        BY <1>1, <1>3, <2>2
      <3>2. QED
        BY <2>1, <2>2, <3>1 DEF HashHolds
    <2>3. QED
      BY <1>2, <1>5, <2>1, <2>2 DEF HashHolds, Scanning
  <1>11. ProcessesInv' /\ FilesAccounted' /\ FailsForAReason' /\ ProcessesAccounted'
    BY <1>2 DEF ProcessesInv, Pending, TurnsInOrder, Iterating, FilesAccounted,
       FailsForAReason, ProcessesAccounted, Calls
  <1>12. QED
    BY <1>6, <1>7, <1>8, <1>9, <1>10, <1>11 DEF IInv, FilesInv

LEMMA NextChange ==
  ASSUME TypeOK, Changed
  PROVE  changes' \in 0..MaxChanges
  BY ScanAssumption DEF TypeOK, Changed

LEMMA WriteStep == ASSUME IInv, NEW p \in Paths, Write(p) PROVE IInv'
  <1>1. Scanning /\ changes' \in 0..MaxChanges
    BY NextChange DEF Write, Scanning, IInv
  <1>2. PICK n \in 0..MaxLength :
          LET written == [kind |-> "file", len |-> n, ver |-> changes'] IN
          /\ fs' = [fs EXCEPT ![p] = written]
          /\ past' = [past EXCEPT !.files[p] = @ \cup {written}]
          /\ scan' = [scan EXCEPT
                        !.disturbed = @ \/ p = Here,
                        !.file = IF p = Here /\ scan.linked THEN written ELSE @]
    BY DEF Write
  <1> DEFINE written == [kind |-> "file", len |-> n, ver |-> changes']
             state == [scan EXCEPT
                         !.disturbed = @ \/ p = Here,
                         !.file = IF p = Here /\ scan.linked THEN written ELSE @]
  <1>3. written \in Regular /\ written \in File
    BY <1>1 DEF Regular, File
  <1>4. /\ fs' = [fs EXCEPT ![p] = written]
        /\ past' = [past EXCEPT !.files[p] = @ \cup {written}]
        /\ scan' = state /\ procs' = procs
    BY <1>2 DEF Write
  <1>5. scan \in FileScan
    BY <1>1, BeforeCall
  <1> HIDE DEF written
  <1>6. /\ state \in FileScan
        /\ state.pc = scan.pc /\ state.task = scan.task /\ state.said = scan.said
        /\ state.size = scan.size /\ state.hash = scan.hash
        /\ state.linked = scan.linked
        /\ state.disturbed = (scan.disturbed \/ p = Here)
        /\ state.file = IF p = Here /\ scan.linked THEN written ELSE scan.file
    BY <1>3, <1>5 DEF FileScan
  <1> HIDE DEF state
  <1>7. state.pc = "read" => state.file \in Regular
    BY <1>3, <1>6 DEF IInv, FilesInv, HashHolds
  <1>8. ~state.disturbed => ~scan.disturbed /\ p # Here
    BY <1>6
  <1>9. QED
    BY <1>1, <1>3, <1>4, <1>6, <1>7, <1>8, ChangeStep

LEMMA ReplaceStep == ASSUME IInv, NEW p \in Paths, Replace(p) PROVE IInv'
  <1>1. Scanning /\ changes' \in 0..MaxChanges
    BY NextChange DEF Replace, Scanning, IInv
  <1>2. PICK new \in Made(changes') :
          /\ fs' = [fs EXCEPT ![p] = new]
          /\ past' = [past EXCEPT !.files[p] = @ \cup {new}]
          /\ scan' = [scan EXCEPT !.disturbed = @ \/ p = Here,
                                  !.linked = @ /\ p # Here]
    BY DEF Replace
  <1> DEFINE state == [scan EXCEPT !.disturbed = @ \/ p = Here, !.linked = @ /\ p # Here]
  <1>3. /\ fs' = [fs EXCEPT ![p] = new]
        /\ past' = [past EXCEPT !.files[p] = @ \cup {new}]
        /\ scan' = state /\ procs' = procs /\ new \in File
    BY <1>2 DEF Replace, Made
  <1>4. scan \in FileScan
    BY <1>1, BeforeCall
  <1>5. /\ state \in FileScan
        /\ state.pc = scan.pc /\ state.task = scan.task /\ state.said = scan.said
        /\ state.size = scan.size /\ state.hash = scan.hash
        /\ state.file = scan.file
        /\ state.linked = (scan.linked /\ p # Here)
        /\ state.disturbed = (scan.disturbed \/ p = Here)
    BY <1>4 DEF FileScan
  <1> HIDE DEF state
  <1>6. state.pc = "read" => state.file \in Regular
    BY <1>5 DEF IInv, FilesInv, HashHolds
  <1>7. /\ ~state.disturbed => ~scan.disturbed /\ p # Here
        /\ ~state.disturbed => state.linked = scan.linked
    <2>1. scan.linked \in BOOLEAN
      BY <1>4 DEF FileScan
    <2>2. QED
      BY <1>5, <2>1
  <1>8. QED
    BY <1>1, <1>3, <1>5, <1>6, <1>7, ChangeStep

-----------------------------------------------------------------------------
(* The steps that begin a scan.                                            *)

\* A task has one kind.
LEMMA TaskKinds ==
  ASSUME NEW t
  PROVE  /\ ~ (t \in FileTask /\ t \in ProcessTask)
         /\ Valid(t) /\ t \in FileTask => Len(t.paths) \in 1..MaxFilesCount
         /\ Valid(t) /\ t \in ProcessTask => t.max \in 1..MaxProcesses
  BY DEF FileTask, ProcessTask, Valid

LEMMA FailAtOnceStep ==
  ASSUME IInv, NEW t \in Tasks, ~Valid(t), FailAtOnce(t)
  PROVE  IInv'
  <1>1. /\ ~Valid(t) /\ scan' = [pc |-> "FAILED", task |-> t]
        /\ UNCHANGED <<fs, procs, past, changes>>
    BY DEF FailAtOnce
  <1>2. scan' \in Ended /\ scan'.pc = "FAILED" /\ scan'.task = t
    BY <1>1 DEF Ended
  <1>3. TypeOK'
    BY <1>1, <1>2 DEF IInv, TypeOK, FileScan, Calls
  <1>4. FilesInv' /\ ProcessesInv' /\ FilesAccounted' /\ ProcessesAccounted'
    BY <1>2 DEF FilesInv, PastHasNow, SaidTrue, WasRegular, SizeHolds, HashHolds,
       ProcessesInv, Pending, TurnsInOrder, Iterating, Scanning, Calls,
       FilesAccounted, ProcessesAccounted
  <1>5. FailsForAReason'
    BY <1>1, <1>2 DEF FailsForAReason, Valid
  <1>6. QED
    BY <1>3, <1>4, <1>5 DEF IInv

LEMMA ScanFilesStep == ASSUME IInv, NEW t \in Tasks, ScanFiles(t) PROVE IInv'
  <1>1. /\ t \in FileTask /\ Len(t.paths) \in 1..MaxFilesCount
        /\ scan' = NextPath(t, <<>>)
        /\ fs' \in [Paths -> Made(0)]
        /\ past' = [past EXCEPT !.files = [p \in Paths |-> {fs'[p]}]]
        /\ UNCHANGED <<procs, changes>>
    BY TaskKinds DEF ScanFiles
  <1>2. MaxFilesCount \in Nat /\ <<>> \in Seq(Said) /\ Len(<<>>) = 0 /\ DOMAIN <<>> = {}
    BY ScanAssumption
  <1>3. /\ scan' \in FileScan /\ scan'.pc = "exists" /\ scan'.hash = <<>>
        /\ scan'.task = t /\ scan'.said = <<>>
    BY <1>1, <1>2, FirstCall
  <1>4. fs' \in [Paths -> File]
    BY <1>1 DEF Made
  <1>5. /\ past' \in [files : [Paths -> SUBSET File], names : [Pids -> SUBSET Names]]
        /\ \A p \in Paths : fs'[p] \in past'.files[p]
    BY <1>1, <1>4 DEF IInv, TypeOK
  <1>6. TypeOK'
    BY <1>1, <1>2, <1>3, <1>4, <1>5 DEF IInv, TypeOK
  <1>7. FilesInv'
    BY <1>1, <1>2, <1>3, <1>5 DEF FilesInv, PastHasNow, SaidTrue, WasRegular, SizeHolds,
       HashHolds
  <1>8. ProcessesInv' /\ FilesAccounted' /\ FailsForAReason' /\ ProcessesAccounted'
    BY <1>3 DEF ProcessesInv, Pending, TurnsInOrder, Iterating, FilesAccounted,
       FailsForAReason, ProcessesAccounted
  <1>9. QED
    BY <1>6, <1>7, <1>8 DEF IInv

LEMMA ScanProcessesStep == ASSUME IInv, NEW t \in Tasks, ScanProcesses(t) PROVE IInv'
  <1>1. /\ t \in ProcessTask /\ t.max \in 1..MaxProcesses
        /\ procs' \in [Pids -> Names]
        /\ scan' = [pc |-> "iterate", task |-> t,
                    left |-> {p \in Pids : procs'[p] # "none"},
                    inspected |-> {}, suspicious |-> {}]
        /\ past' = [past EXCEPT !.names = [p \in Pids |-> {procs'[p]}]]
        /\ UNCHANGED <<fs, changes>>
    BY TaskKinds DEF ScanProcesses
  <1>2. MaxProcesses \in Nat /\ t.max \in Nat
    BY <1>1, ScanAssumption
  <1>3. scan' \in ProcessScan
    BY <1>1 DEF ProcessScan
  <1>4. /\ past' \in [files : [Paths -> SUBSET File], names : [Pids -> SUBSET Names]]
        /\ \A p \in Pids : past'.names[p] = {procs'[p]}
    BY <1>1 DEF IInv, TypeOK
  <1>5. TypeOK'
    BY <1>1, <1>3, <1>4 DEF IInv, TypeOK, FileScan, Calls
  <1>6. Pending'
    BY <1>1, <1>4 DEF Pending
  <1>7. TurnsInOrder'
    BY <1>1, <1>2, FS_EmptySet DEF TurnsInOrder
  <1>8. FilesInv' /\ FilesAccounted' /\ FailsForAReason' /\ ProcessesAccounted'
    BY <1>1 DEF FilesInv, PastHasNow, SaidTrue, WasRegular, SizeHolds, HashHolds,
       Scanning, Calls, FilesAccounted, FailsForAReason, ProcessesAccounted
  <1>9. QED
    BY <1>5, <1>6, <1>7, <1>8 DEF IInv, ProcessesInv

-----------------------------------------------------------------------------
(* The steps of a scan of processes.                                       *)

\* What is known before every turn.
LEMMA BeforeTurn ==
  ASSUME IInv, At("iterate")
  PROVE  /\ scan \in ProcessScan /\ Iterating
         /\ scan.task \in Tasks /\ scan.task \in ProcessTask /\ scan.task.max \in Nat
         /\ scan.left \subseteq Pids /\ scan.inspected \subseteq Pids
         /\ scan.suspicious \subseteq Pids
         /\ IsFiniteSet(scan.inspected) /\ Cardinality(scan.inspected) \in Nat
         /\ Cardinality(scan.inspected) <= scan.task.max
         /\ \A q \in scan.inspected, p \in scan.left : q < p
  <1>1. scan \in ProcessScan /\ Iterating
    BY DEF IInv, TypeOK, At, Iterating, Idle, FileScan, Calls, Ended
  <1>2. /\ scan.task \in ProcessTask /\ IsFiniteSet(scan.inspected)
        /\ Cardinality(scan.inspected) <= scan.task.max
        /\ \A q \in scan.inspected, p \in scan.left : q < p
    BY <1>1 DEF IInv, ProcessesInv, TurnsInOrder
  <1>3. Cardinality(scan.inspected) \in Nat
    BY <1>2, FS_CardinalityType
  <1>4. QED
    BY <1>1, <1>2, <1>3 DEF ProcessScan, ProcessTask

LEMMA ForemostLeast ==
  ASSUME scan.left \subseteq Pids, scan.left # {}
  PROVE  Foremost \in scan.left /\ \A q \in scan.left : Foremost <= q
  <1>1. \E p \in scan.left : \A q \in scan.left : p <= q
    BY LeastOf, ScanAssumption
  <1>2. QED
    BY <1>1 DEF Foremost

\* The walk goes on after a turn.
LEMMA TurnStep ==
  ASSUME IInv, At("iterate"), NEW state \in ProcessScan, scan' = state,
         UNCHANGED <<fs, procs, past, changes>>,
         state.pc = "iterate", state.task = scan.task,
         Pending', TurnsInOrder'
  PROVE  IInv'
  <1>1. TypeOK'
    BY DEF IInv, TypeOK, FileScan, Calls
  <1>2. FilesInv' /\ FilesAccounted' /\ FailsForAReason' /\ ProcessesAccounted'
    BY DEF FilesInv, PastHasNow, SaidTrue, WasRegular, SizeHolds, HashHolds,
       Scanning, Calls, FilesAccounted, FailsForAReason, ProcessesAccounted
  <1>3. QED
    BY <1>1, <1>2 DEF IInv, ProcessesInv

LEMMA PassStep == ASSUME IInv, Pass PROVE IInv'
  <1>1. /\ At("iterate") /\ scan.left # {} /\ procs[Foremost] = "none"
        /\ UNCHANGED <<fs, procs, past, changes>>
    BY DEF Pass, HasTurn
  <1>2. Foremost \in scan.left
    BY <1>1, BeforeTurn, ForemostLeast
  <1> DEFINE state == [scan EXCEPT !.left = @ \ {Foremost}]
  <1>3. scan' = state
    BY DEF Pass
  <1>4. /\ state \in ProcessScan /\ state.pc = "iterate" /\ state.task = scan.task
        /\ state.left = scan.left \ {Foremost} /\ state.inspected = scan.inspected
        /\ state.suspicious = scan.suspicious
    BY <1>1, BeforeTurn DEF ProcessScan, At
  <1> HIDE DEF state
  <1>5. past.names[Foremost] # {"suspicious"}
    BY <1>1, <1>2, BeforeTurn DEF IInv, ProcessesInv, Pending
  <1>6. Pending'
    BY <1>1, <1>3, <1>4, <1>5, BeforeTurn DEF IInv, ProcessesInv, Pending
  <1>7. TurnsInOrder'
    BY <1>1, <1>3, <1>4, BeforeTurn DEF TurnsInOrder
  <1>8. QED
    BY <1>1, <1>3, <1>4, <1>6, <1>7, TurnStep

LEMMA InspectStep == ASSUME IInv, Inspect PROVE IInv'
  <1>1. /\ At("iterate") /\ scan.left # {} /\ procs[Foremost] # "none"
        /\ Cardinality(scan.inspected) < scan.task.max
        /\ UNCHANGED <<fs, procs, past, changes>>
    BY DEF Inspect, HasTurn
  <1>2. Foremost \in scan.left /\ \A q \in scan.left : Foremost <= q
    BY <1>1, BeforeTurn, ForemostLeast
  <1>3. Foremost \in Pids /\ Foremost \in Nat /\ scan.left \subseteq Nat
    BY <1>1, <1>2, BeforeTurn, ScanAssumption
  <1> DEFINE now == IF procs[Foremost] = "suspicious" THEN {Foremost} ELSE {}
             state == [scan EXCEPT !.left = @ \ {Foremost},
                                   !.inspected = @ \cup {Foremost},
                                   !.suspicious = IF procs[Foremost] = "suspicious"
                                                  THEN @ \cup {Foremost} ELSE @]
  <1>4. scan' = state
    BY DEF Inspect
  <1>5. /\ state \in ProcessScan /\ state.pc = "iterate" /\ state.task = scan.task
        /\ state.left = scan.left \ {Foremost}
        /\ state.inspected = scan.inspected \cup {Foremost}
        /\ state.suspicious = scan.suspicious \cup now
    BY <1>1, <1>3, BeforeTurn DEF ProcessScan, At
  <1> HIDE DEF state
  <1>6. procs[Foremost] \in past.names[Foremost]
    BY <1>1, <1>3, BeforeTurn DEF IInv, ProcessesInv, Pending
  <1>7. past.names[Foremost] = {"suspicious"} => Foremost \in now
    BY <1>6
  <1>8. \A p \in now : "suspicious" \in past.names[p]
    BY <1>6
  <1> HIDE DEF now
  <1>9. Pending'
    BY <1>1, <1>4, <1>5, <1>7, <1>8, BeforeTurn DEF IInv, ProcessesInv, Pending
  <1>10. /\ IsFiniteSet(state.inspected)
         /\ Cardinality(state.inspected) <= scan.task.max
    <2>1. PICK inspected : inspected = scan.inspected
      OBVIOUS
    <2>2. /\ IsFiniteSet(inspected) /\ Cardinality(inspected) \in Nat
          /\ Cardinality(inspected) < scan.task.max /\ scan.task.max \in Nat
      BY <1>1, <2>1, BeforeTurn
    <2>3. /\ IsFiniteSet(inspected \cup {Foremost})
          /\ Cardinality(inspected \cup {Foremost}) \in
               {Cardinality(inspected), Cardinality(inspected) + 1}
      BY <2>2, FS_AddElement
    <2>4. QED
      BY <1>5, <2>1, <2>2, <2>3
  <1>11. \A q \in state.inspected, p \in state.left : q < p
    BY <1>1, <1>2, <1>3, <1>5, BeforeTurn
  <1>12. TurnsInOrder'
    BY <1>1, <1>4, <1>5, <1>10, <1>11, BeforeTurn DEF TurnsInOrder
  <1>13. QED
    BY <1>1, <1>4, <1>5, <1>9, <1>12, TurnStep

LEMMA SummariseStep == ASSUME IInv, Summarise PROVE IInv'
  <1>1. /\ At("iterate") /\ ~HasTurn
        /\ scan' = [pc |-> "COMPLETED", task |-> scan.task,
                    inspected |-> scan.inspected, suspicious |-> scan.suspicious]
        /\ UNCHANGED <<fs, procs, past, changes>>
    BY DEF Summarise
  <1>2. /\ scan'.pc = "COMPLETED" /\ scan'.task = scan.task
        /\ scan'.inspected = scan.inspected /\ scan'.suspicious = scan.suspicious
    BY <1>1
  <1>3. scan' \in Ended
    BY <1>1, BeforeTurn DEF Ended
  <1>4. TypeOK'
    BY <1>1, <1>2, <1>3 DEF IInv, TypeOK, FileScan, Calls
  <1>5. FilesInv' /\ ProcessesInv' /\ FailsForAReason'
    BY <1>2 DEF FilesInv, PastHasNow, SaidTrue, WasRegular, SizeHolds, HashHolds,
       ProcessesInv, Pending, TurnsInOrder, Iterating, Scanning, Calls, FailsForAReason
  <1>6. FilesAccounted'
    BY <1>1, <1>2, BeforeTurn, TaskKinds DEF FilesAccounted
  <1>7. ProcessesAccounted'
    <2>1. \A p \in scan.suspicious : "suspicious" \in past.names[p]
      BY <1>1, BeforeTurn DEF IInv, ProcessesInv, Pending
    <2>2. ASSUME NEW p \in Pids, past.names[p] = {"suspicious"}, p \notin scan.suspicious
          PROVE  /\ Cardinality(scan.inspected) = scan.task.max
                 /\ \A q \in scan.inspected : q < p
      <3>1. p \in scan.left
        BY <1>1, <2>2, BeforeTurn DEF IInv, ProcessesInv, Pending
      <3>2. ~ (Cardinality(scan.inspected) < scan.task.max)
        BY <1>1, <3>1 DEF HasTurn
      <3>3. QED
        BY <1>1, <3>1, <3>2, BeforeTurn
    <2>3. QED
      BY <1>1, <1>2, <2>1, <2>2 DEF ProcessesAccounted
  <1>8. QED
    BY <1>4, <1>5, <1>6, <1>7 DEF IInv

\* A process starts or ends: who was not suspicious all the time does not become so.
LEMMA BecomeStep ==
  ASSUME IInv, NEW p \in Pids, NEW name \in Names, Become(p, name)
  PROVE  IInv'
  <1>1. /\ At("iterate") /\ UNCHANGED <<fs, scan>> /\ changes' \in 0..MaxChanges
        /\ procs' = [procs EXCEPT ![p] = name]
        /\ past' = [past EXCEPT !.names[p] = @ \cup {name}]
    BY NextChange DEF Become, IInv
  <1>2. /\ procs \in [Pids -> Names]
        /\ past \in [files : [Paths -> SUBSET File], names : [Pids -> SUBSET Names]]
    BY DEF IInv, TypeOK
  <1>3. /\ procs' \in [Pids -> Names]
        /\ \A q \in Pids : procs'[q] = IF q = p THEN name ELSE procs[q]
        /\ past' \in [files : [Paths -> SUBSET File], names : [Pids -> SUBSET Names]]
        /\ \A q \in Pids : past'.names[q] = past.names[q] \cup (IF q = p THEN {name} ELSE {})
    BY <1>1, <1>2
  <1>4. TypeOK'
    BY <1>1, <1>3, BeforeTurn DEF IInv, TypeOK, ProcessScan, FileScan, Calls
  <1>5. Pending'
    <2>1. \A q \in Pids : procs'[q] \in past'.names[q]
      BY <1>1, <1>3, BeforeTurn DEF IInv, ProcessesInv, Pending
    <2>2. \A q \in scan.suspicious : "suspicious" \in past'.names[q]
      BY <1>1, <1>3, BeforeTurn DEF IInv, ProcessesInv, Pending
    <2>3. ASSUME NEW q \in Pids, past'.names[q] = {"suspicious"}
          PROVE  q \in scan.left \cup scan.suspicious
      <3>1. procs[q] \in past.names[q] /\ past.names[q] \subseteq {"suspicious"}
        BY <1>1, <1>3, <2>3, BeforeTurn DEF IInv, ProcessesInv, Pending
      <3>2. past.names[q] = {"suspicious"}
        BY <3>1
      <3>3. QED
        BY <1>1, <3>2, BeforeTurn DEF IInv, ProcessesInv, Pending
    <2>4. QED
      BY <1>1, <2>1, <2>2, <2>3 DEF Pending
  <1>6. TurnsInOrder'
    BY <1>1 DEF IInv, ProcessesInv, TurnsInOrder, Iterating
  <1>7. FilesInv' /\ FilesAccounted' /\ FailsForAReason' /\ ProcessesAccounted'
    BY <1>1 DEF At, FilesInv, PastHasNow, SaidTrue, WasRegular, SizeHolds, HashHolds,
       Scanning, Calls, FilesAccounted, FailsForAReason, ProcessesAccounted
  <1>8. QED
    BY <1>4, <1>5, <1>6, <1>7 DEF IInv, ProcessesInv

-----------------------------------------------------------------------------
(* The theorems.                                                           *)

LEMMA InitInv == Init => IInv
  <1> SUFFICES ASSUME Init PROVE IInv
    OBVIOUS
  <1>1. /\ scan = Idle /\ scan.pc = "idle" /\ changes \in 0..MaxChanges
    BY ScanAssumption DEF Init, Idle
  <1>2. TypeOK
    BY <1>1 DEF Init, TypeOK, File, Names, FileScan, Calls
  <1>3. QED
    BY <1>1, <1>2 DEF IInv, FilesInv, PastHasNow, SaidTrue, WasRegular, SizeHolds, HashHolds,
       ProcessesInv, Pending, TurnsInOrder, Iterating, Scanning, Calls,
       FilesAccounted, FailsForAReason, ProcessesAccounted

LEMMA StepInv == IInv /\ [Next]_vars => IInv'
  <1> SUFFICES ASSUME IInv, [Next]_vars PROVE IInv'
    OBVIOUS
  <1>1. ASSUME NEW t \in Tasks, execute_task(t) PROVE IInv'
    <2>1. Unsupported(t) \/ Reject(t) \/ ScanFiles(t) \/ ScanProcesses(t)
      BY <1>1 DEF execute_task
    <2>2. Unsupported(t) \/ Reject(t) => ~Valid(t) /\ FailAtOnce(t)
      BY DEF Unsupported, Reject, Valid, FileTask, ProcessTask, UnknownTask
    <2>3. QED
      BY <2>1, <2>2, FailAtOnceStep, ScanFilesStep, ScanProcessesStep
  <1>2. CASE run_scan
    BY <1>2, ExistsStep, IsFileStep, StatStep, OpenStep, ReadStep, PassStep, InspectStep,
       SummariseStep DEF run_scan
  <1>3. CASE Host
    BY <1>3, WriteStep, ReplaceStep, BecomeStep DEF Host
  <1>4. CASE UNCHANGED vars
    <2>1. UNCHANGED <<fs, procs, scan, past, changes>>
      BY <1>4 DEF vars
    <2>2. Here' = Here
      BY <2>1 DEF Here
    <2>3. TypeOK' /\ PastHasNow' /\ SaidTrue' /\ WasRegular' /\ SizeHolds'
      BY <2>1, <2>2 DEF IInv, TypeOK, FilesInv, PastHasNow, SaidTrue, WasRegular, SizeHolds,
         Scanning
    <2>4. HashHolds'
      BY <2>1, <2>2 DEF IInv, FilesInv, HashHolds, Scanning
    <2>5. ProcessesInv'
      BY <2>1 DEF IInv, ProcessesInv, Pending, TurnsInOrder, Iterating
    <2>6. FilesAccounted' <=> FilesAccounted
      BY <2>1, Zenon DEF FilesAccounted
    <2>7. FailsForAReason' /\ ProcessesAccounted'
      BY <2>1 DEF IInv, FailsForAReason, ProcessesAccounted
    <2>8. QED
      BY <2>3, <2>4, <2>5, <2>6, <2>7 DEF IInv, FilesInv
  <1>5. QED
    BY <1>1, <1>2, <1>3, <1>4 DEF Next

LEMMA Invariant == Spec => []IInv
  BY InitInv, StepInv, PTL DEF Spec

\* A scan has the fields and the values that its state says, and never more paths
\* done than the task names.
THEOREM ScanTyped == Spec => []TypeOK
  BY Invariant, PTL DEF IInv

\* A completed scan of files said of every path what was true of it at some time
\* during the scan, and the hash of an undisturbed file is of all of it, whatever
\* changes come between the system calls of FileIntegrityScanner.run_scan.
THEOREM FilesTold == Spec => []FilesAccounted
  BY Invariant, PTL DEF IInv

\* A well-formed task fails only for a directory that may not be searched or for a
\* file that ceased to be one during the scan.
THEOREM FailureExcused == Spec => []FailsForAReason
  BY Invariant, PTL DEF IInv

\* ProcessScanner.run_scan reports every process that is suspicious throughout, up
\* to max_processes, and none that never was.
THEOREM ProcessesTold == Spec => []ProcessesAccounted
  BY Invariant, PTL DEF IInv
=============================================================================
