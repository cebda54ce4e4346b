--------------------------- MODULE FindingQueries ---------------------------
(***************************************************************************)
(* Reading the findings of a tenant while they change: list_findings, page *)
(* by page, and get_finding_detail (services/finding_engine.py).  What     *)
(* changes them is a FindingStore, which FindingIngestion implements.      *)
(*                                                                         *)
(* Transactions are READ COMMITTED, so the statements of one request see   *)
(* different states: the count and the page, the row and its evidence.     *)
(* Readers leave nothing behind that another could see: one is enough.     *)
(***************************************************************************)
EXTENDS FindingStore, FiniteSets

CONSTANTS
  Rank,        \* the order of the ids, which are random UUIDs
  Filters,     \* status_filter: one status, or all without it
  PageSizes    \* page_size: 1..100, the endpoint admits no other

\* Fingerprints are SHA-256 digests: there are finitely many.
ASSUME QueriesAssumption ==
  /\ IsFiniteSet(Fingerprints)
  /\ Times \subseteq Nat
  /\ Rank \in [Fingerprints -> Nat]
  /\ \A f, g \in Fingerprints : Rank[f] = Rank[g] => f = g
  /\ Filters \subseteq SUBSET FindingStatus
  /\ PageSizes \subseteq Nat \ {0}

VARIABLES
  reader,   \* a client that reads page after page, or the detail of a finding
  churn     \* history: what has changed since the client began to read

vars == <<finding, evidence, reader, churn>>

-----------------------------------------------------------------------------
Idle == [pc |-> "idle"]

Listing ==
  [pc : {"count", "page"}, filter : Filters, size : PageSizes,
   page : Nat \ {0}, total : Nat, seen : SUBSET Fingerprints,
   twice : SUBSET Fingerprints]

Listed == [pc : {"end"}, seen : SUBSET Fingerprints, twice : SUBSET Fingerprints]

Detail ==
  [pc : {"evidences", "done"}, fp : Fingerprints, row : FindingRow,
   known : SUBSET EvidenceRow, evidences : SUBSET EvidenceRow]

\* Findings that changed; whether one moved up the list or into it, or down or
\* out of it; whether one moved up between the count and the page.
Calm == [touched |-> {}, rose |-> FALSE, fell |-> FALSE, overtook |-> FALSE]

TypeOK ==
  /\ StoreTypeOK
  /\ reader \in {Idle} \cup Listing \cup Listed \cup Detail
  /\ churn \in [touched : SUBSET Fingerprints,
                rose : BOOLEAN, fell : BOOLEAN, overtook : BOOLEAN]

Init ==
  /\ StoreInit
  /\ reader = Idle
  /\ churn = Calm

-----------------------------------------------------------------------------
(* list_findings: a count, then a page of the findings that match, the     *)
(* last seen first.                                                        *)

Matching == {f \in Fingerprints : finding[f].status \in reader.filter}

\* A mutation: findings of one ingestion, all last seen at once, in any order.
BeforeByTime(f, g) == finding[f].lastSeen > finding[g].lastSeen

Before(f, g) ==
  \/ finding[f].lastSeen > finding[g].lastSeen
  \/ finding[f].lastSeen = finding[g].lastSeen /\ Rank[f] > Rank[g]

\* What the database may answer to the ORDER BY.
Listings ==
  {o \in [1..Cardinality(Matching) -> Matching] :
     \A i, j \in DOMAIN o : i < j => o[i] # o[j] /\ ~Before(o[j], o[i])}

offset == (reader.page - 1) * reader.size

\* A mutation: pages that overlap.
PageInclusive(o) == {o[i] : i \in offset..(offset + reader.size) \cap DOMAIN o}

PageOf(o) == {o[i] : i \in (offset + 1)..(offset + reader.size) \cap DOMAIN o}

\* A mutation: off by one, a single finding that is left does not count.
NoMoreForOne(items) == offset + Cardinality(items) + 1 < reader.total

has_more(items) == offset + Cardinality(items) < reader.total

\* A mutation: pages are counted from 0.
AskFirstZero(filter, size) ==
  /\ reader = Idle
  /\ reader' = [pc |-> "count", filter |-> filter, size |-> size, page |-> 0,
              total |-> 0, seen |-> {}, twice |-> {}]
  /\ churn' = Calm
  /\ UNCHANGED <<finding, evidence>>

AskFirst(filter, size) ==
  /\ reader = Idle
  /\ reader' = [pc |-> "count", filter |-> filter, size |-> size, page |-> 1,
              total |-> 0, seen |-> {}, twice |-> {}]
  /\ churn' = Calm
  /\ UNCHANGED <<finding, evidence>>

Count ==
  /\ reader.pc = "count"
  /\ reader' = [reader EXCEPT !.pc = "page", !.total = Cardinality(Matching)]
  /\ UNCHANGED <<finding, evidence, churn>>

\* The answer, after which the client asks for the next page if there is one.
Page ==
  /\ reader.pc = "page"
  /\ \E o \in Listings :
       LET items == PageOf(o)
           seen  == reader.seen \cup items
           twice == reader.twice \cup (reader.seen \cap items)
       IN reader' =
            IF has_more(items)
            THEN [reader EXCEPT !.pc = "count", !.page = @ + 1, !.total = 0,
                                !.seen = seen, !.twice = twice]
            ELSE [pc |-> "end", seen |-> seen, twice |-> twice]
  /\ churn' = [churn EXCEPT !.overtook = FALSE]
  /\ UNCHANGED <<finding, evidence>>

-----------------------------------------------------------------------------
(* get_finding_detail: the row, then its evidence (selectinload).          *)

DetailRow(f) ==
  /\ reader = Idle
  /\ finding[f] # NoFinding
  /\ reader' = [pc |-> "evidences", fp |-> f, row |-> finding[f],
                known |-> {e \in evidence : e.fp = f}, evidences |-> {}]
  /\ UNCHANGED <<finding, evidence, churn>>

\* A mutation: the evidence is loaded before the row.
DetailRowLast ==
  /\ reader.pc = "evidences"
  /\ reader' = [reader EXCEPT !.pc = "done", !.row = finding[reader.fp],
                              !.evidences = reader.known]
  /\ UNCHANGED <<finding, evidence, churn>>

DetailEvidences ==
  /\ reader.pc = "evidences"
  /\ reader' = [reader EXCEPT !.pc = "done",
                  !.evidences = {e \in evidence : e.fp = reader.fp}]
  /\ UNCHANGED <<finding, evidence, churn>>

-----------------------------------------------------------------------------
(* The findings change.                                                    *)

Reading == reader.pc \in {"count", "page"}

Shown(row) == row.status \in reader.filter

Up(old, new) == Shown(new) /\ (Shown(old) => new.lastSeen > old.lastSeen)

Noted ==
  LET up == \E f \in Fingerprints : Up(finding[f], finding'[f]) IN
  [touched  |-> churn.touched \cup
                  {f \in Fingerprints : finding'[f] # finding[f]},
   rose     |-> churn.rose \/ up,
   fell     |-> churn.fell \/ \E f \in Fingerprints : Up(finding'[f], finding[f]),
   overtook |-> churn.overtook \/ (up /\ reader.pc = "page")]

StoreStep ==
  /\ StoreNext
  /\ churn' = IF Reading THEN Noted ELSE churn
  /\ UNCHANGED reader

Next ==
  \/ \E filter \in Filters, size \in PageSizes : AskFirst(filter, size)
  \/ Count
  \/ Page
  \/ \E f \in Fingerprints : DetailRow(f)
  \/ DetailEvidences
  \/ StoreStep

Spec == Init /\ [][Next]_vars

-----------------------------------------------------------------------------
(***************************************************************************)
(* Properties.                                                             *)
(***************************************************************************)

\* A client that reads on while has_more is true has been shown every finding
\* that matched all the time, however others changed: one is missed only if
\* another moved back past the end of a page that was read, or moved up between
\* the count and the page, so that total was too small.
NoneMissed ==
  [][reader.pc = "page" /\ reader'.pc = "end" =>
       \A f \in Matching \ churn.touched :
         f \in reader'.seen \/ churn.fell \/ churn.overtook]_vars

\* A finding that did not change is shown twice only if another came before it
\* since: findings with equal times keep their order from page to page.
NoneTwice ==
  reader.pc \in {"count", "page", "end"} =>
    reader.twice \subseteq churn.touched \/ churn.rose

\* The detail of a finding explains its row: it has the observation that was
\* the last when the row was read, and all evidence stored until then.
DetailCovered ==
  reader.pc = "done" =>
    /\ reader.known \subseteq reader.evidences
    /\ \E e \in reader.evidences : e.at = reader.row.lastSeen
=============================================================================
