------------------------ MODULE FindingQueriesProofs ------------------------
(***************************************************************************)
(* Theorems about FindingQueries, for any findings, observations, times,   *)
(* filters and sizes of a page, and any number of pages.                   *)
(***************************************************************************)
EXTENDS FindingQueries, FiniteSetTheorems, TLAPS

-----------------------------------------------------------------------------
(* What a list read page by page has shown, by the place of each finding.  *)

\* Those that come before a finding now, and how many they are.
Ahead(f) == {g \in Matching : Before(g, f)}

Place(f) == Cardinality(Ahead(f))

\* Unless one moved up, what was shown and did not change is behind the reader, ...
ShownBehind ==
  Reading /\ ~churn.rose =>
    \A f \in reader.seen \ churn.touched : f \in Matching /\ Place(f) < offset

\* ... and unless one fell, what was not shown is in front of it.
RestInFront ==
  Reading /\ ~churn.fell =>
    \A f \in Matching \ churn.touched : f \in reader.seen \/ Place(f) >= offset

\* The total is too small only if one moved up after the count.
TotalHolds ==
  reader.pc = "page" /\ ~churn.overtook => Cardinality(Matching) <= reader.total

ListInv == NoneTwice /\ ShownBehind /\ RestInFront /\ TotalHolds

-----------------------------------------------------------------------------
(* What the detail of a finding is made of.                                *)

\* A row was last seen when one of its observations was.
RowObserved ==
  \A f \in Fingerprints : finding[f] # NoFinding =>
    \E e \in evidence : e.fp = f /\ e.at = finding[f].lastSeen

\* The evidence known with the row has that observation, and stays.
KnownStays ==
  reader.pc \in {"evidences", "done"} =>
    /\ reader.known \subseteq {e \in evidence : e.fp = reader.fp}
    /\ \E e \in reader.known : e.at = reader.row.lastSeen

DetailInv == RowObserved /\ KnownStays /\ DetailCovered

IInv == TypeOK /\ ListInv /\ DetailInv

-----------------------------------------------------------------------------
(* Facts about the order of the findings.                                  *)

LEMMA MatchingFinite ==
  /\ Matching \subseteq Fingerprints
  /\ IsFiniteSet(Matching)
  /\ Cardinality(Matching) \in Nat
  <1>1. Matching \subseteq Fingerprints
    BY DEF Matching
  <1>2. IsFiniteSet(Matching)
    BY <1>1, QueriesAssumption, FS_Subset
  <1>3. QED
    BY <1>1, <1>2, FS_CardinalityType

LEMMA AheadFinite ==
  ASSUME NEW f
  PROVE  IsFiniteSet(Ahead(f)) /\ Place(f) \in Nat
  <1>1. Ahead(f) \in SUBSET Matching
    BY DEF Ahead
  <1>2. IsFiniteSet(Ahead(f))
    BY <1>1, MatchingFinite, FS_Subset
  <1>3. QED
    BY <1>2, FS_CardinalityType DEF Place

\* A row that matches has a time.
LEMMA MatchingRow ==
  ASSUME TypeOK, Reading, NEW f \in Matching
  PROVE  f \in Fingerprints /\ finding[f] \in FindingRow /\ finding[f].lastSeen \in Nat
         /\ Rank[f] \in Nat
  <1>1. /\ f \in Fingerprints /\ finding[f] \in {NoFinding} \cup FindingRow
        /\ finding[f].status \in reader.filter /\ reader \in Listing
    BY DEF TypeOK, StoreTypeOK, Matching, Reading, Idle, Listed, Detail
  <1>2. finding[f].status \in FindingStatus
    BY <1>1, QueriesAssumption DEF Listing
  <1>3. finding[f] \in FindingRow
    BY <1>1, <1>2 DEF NoFinding, FindingStatus
  <1>4. QED
    BY <1>1, <1>3, QueriesAssumption DEF FindingRow

\* Of two findings one comes before the other, and none comes before itself.
LEMMA BeforeTotal ==
  ASSUME TypeOK, Reading, NEW f \in Matching, NEW g \in Matching
  PROVE  /\ f # g => Before(f, g) \/ Before(g, f)
         /\ ~Before(f, f)
  <1>1. /\ f \in Fingerprints /\ finding[f].lastSeen \in Nat /\ Rank[f] \in Nat
        /\ g \in Fingerprints /\ finding[g].lastSeen \in Nat /\ Rank[g] \in Nat
    BY MatchingRow
  <1>2. f # g => Rank[f] # Rank[g]
    BY <1>1, QueriesAssumption
  <1>3. QED
    BY <1>1, <1>2 DEF Before

\* A list in the order of the query has every finding that matches, and the i-th
\* has i - 1 others before it.
LEMMA PlaceInList ==
  ASSUME TypeOK, Reading, NEW o \in Listings
  PROVE  /\ DOMAIN o = 1..Cardinality(Matching)
         /\ \A i \in DOMAIN o : o[i] \in Matching /\ Place(o[i]) = i - 1
         /\ \A f \in Matching : \E i \in DOMAIN o : o[i] = f
  <1>1. PICK n : n = Cardinality(Matching)
    OBVIOUS
  <1>2. n \in Nat /\ IsFiniteSet(Matching)
    BY <1>1, MatchingFinite
  <1>3. /\ o \in [1..n -> Matching]
        /\ \A i, j \in 1..n : i < j => o[i] # o[j] /\ ~Before(o[j], o[i])
    BY <1>1 DEF Listings
  <1>4. \A i, j \in 1..n : o[i] = o[j] => i = j
    BY <1>2, <1>3
  <1>5. o \in Injection(1..n, Matching)
    BY <1>3, <1>4 DEF Injection, IsInjective
  <1>6. Cardinality(1..n) = n
    BY <1>2, FS_Interval
  <1>7. o \in Surjection(1..n, Matching)
    BY <1>1, <1>2, <1>5, <1>6, FS_Injection
  <1>8. \A f \in Matching : \E i \in 1..n : o[i] = f
    BY <1>7 DEF Surjection
  <1>9. ASSUME NEW i \in 1..n
        PROVE  Place(o[i]) = i - 1
    <2> DEFINE first == [j \in 1..(i - 1) |-> o[j]]
    <2>1. i - 1 \in Nat /\ 1..(i - 1) \subseteq 1..n
      BY <1>2, <1>9
    <2>2. ASSUME NEW j \in 1..(i - 1)
          PROVE  o[j] \in Ahead(o[i])
      <3>1. /\ j \in 1..n /\ j < i /\ o[j] \in Matching /\ o[i] \in Matching
        BY <1>3, <1>9, <2>1, <2>2
      <3>2. o[j] # o[i] /\ ~Before(o[i], o[j])
        BY <1>3, <1>9, <3>1
      <3>3. Before(o[j], o[i])
        BY <3>1, <3>2, BeforeTotal
      <3>4. QED
        BY <3>1, <3>3 DEF Ahead
    <2>3. ASSUME NEW g \in Ahead(o[i])
          PROVE  \E j \in 1..(i - 1) : o[j] = g
      <3>1. g \in Matching /\ Before(g, o[i]) /\ o[i] \in Matching
        BY <1>3, <1>9, <2>3 DEF Ahead
      <3>2. PICK j \in 1..n : o[j] = g
        BY <1>8, <3>1
      <3>3. j # i
        BY <3>1, <3>2, BeforeTotal
      <3>4. ~ (i < j)
        BY <1>3, <1>9, <3>1, <3>2
      <3>5. j \in 1..(i - 1)
        BY <1>2, <1>9, <3>3, <3>4
      <3>6. QED
        BY <3>2, <3>5
    <2>4. first \in [1..(i - 1) -> Ahead(o[i])]
      BY <2>2
    <2>5. \A j, k \in 1..(i - 1) : first[j] = first[k] => j = k
      BY <1>4, <2>1
    <2>6. \A g \in Ahead(o[i]) : \E j \in 1..(i - 1) : first[j] = g
      BY <2>3
    <2> HIDE DEF first
    <2>7. first \in Bijection(1..(i - 1), Ahead(o[i]))
      BY <2>4, <2>5, <2>6 DEF Bijection, Injection, Surjection, IsInjective
    <2>8. ExistsBijection(1..(i - 1), Ahead(o[i]))
      BY <2>7 DEF ExistsBijection
    <2>9. IsFiniteSet(1..(i - 1)) /\ Cardinality(1..(i - 1)) = i - 1
      BY <2>1, FS_Interval
    <2>10. QED
      BY <2>8, <2>9, FS_Bijection DEF Place
  <1>10. QED
    BY <1>1, <1>3, <1>8, <1>9

-----------------------------------------------------------------------------
(* Facts about pages.                                                      *)

\* The next page begins where this one ends.
LEMMA NextOffset ==
  ASSUME NEW page \in Nat \ {0}, NEW size \in Nat \ {0}
  PROVE  /\ (page - 1) * size \in Nat
         /\ ((page + 1) - 1) * size = (page - 1) * size + size
  <1>1. PICK n \in Nat : page = n + 1
    <2>1. page - 1 \in Nat /\ page = (page - 1) + 1
      OBVIOUS
    <2>2. QED
      BY <2>1
  <1>2. n * size \in Nat
    OBVIOUS
  <1>3. page - 1 = n /\ (page + 1) - 1 = n + 1
    BY <1>1
  <1>4. (n + 1) * size = n * size + size
    OBVIOUS
  <1>5. QED
    BY <1>2, <1>3, <1>4

LEMMA ListingFields ==
  ASSUME TypeOK, Reading
  PROVE  /\ reader \in Listing
         /\ reader.page \in Nat \ {0} /\ reader.size \in Nat \ {0}
         /\ reader.total \in Nat /\ reader.filter \in Filters
         /\ reader.seen \subseteq Fingerprints /\ reader.twice \subseteq Fingerprints
         /\ offset \in Nat
  <1>1. reader \in Listing
    BY DEF TypeOK, Reading, Idle, Listed, Detail
  <1>2. /\ reader.page \in Nat \ {0} /\ reader.size \in Nat \ {0}
        /\ reader.total \in Nat /\ reader.filter \in Filters
        /\ reader.seen \subseteq Fingerprints /\ reader.twice \subseteq Fingerprints
    BY <1>1, QueriesAssumption DEF Listing
  <1>3. offset \in Nat
    BY <1>2, NextOffset DEF offset
  <1>4. QED
    BY <1>1, <1>2, <1>3

\* A page shows the findings of the places from offset to offset + size - 1, and so
\* no more than size.
LEMMA PageHas ==
  ASSUME TypeOK, Reading, NEW o \in Listings
  PROVE  /\ PageOf(o) \subseteq Matching
         /\ IsFiniteSet(PageOf(o)) /\ Cardinality(PageOf(o)) \in Nat
         /\ Cardinality(PageOf(o)) <= reader.size
         /\ \A f \in Matching : f \in PageOf(o) <=>
                                  Place(f) >= offset /\ Place(f) < offset + reader.size
  <1>1. /\ offset \in Nat /\ reader.size \in Nat
        /\ Cardinality(Matching) \in Nat
    BY ListingFields, MatchingFinite
  <1>2. PICK first, size, n \in Nat :
          first = offset /\ size = reader.size /\ n = Cardinality(Matching)
    BY <1>1
  <1> DEFINE shown == (first + 1)..(first + size) \cap 1..n
  <1>3. /\ DOMAIN o = 1..n
        /\ \A i \in 1..n : o[i] \in Matching /\ Place(o[i]) = i - 1
        /\ \A f \in Matching : \E i \in 1..n : o[i] = f
    BY <1>2, PlaceInList
  <1>4. PageOf(o) = {o[i] : i \in shown}
    BY <1>2, <1>3 DEF PageOf
  <1>5. PageOf(o) \subseteq Matching
    BY <1>3, <1>4
  <1>6. \A f \in Matching : f \in PageOf(o) <=> Place(f) >= first /\ Place(f) < first + size
    <2>1. ASSUME NEW f \in PageOf(o)
          PROVE  Place(f) >= first /\ Place(f) < first + size
      <3>1. PICK i \in shown : f = o[i]
        BY <1>4, <2>1
      <3>2. Place(f) = i - 1 /\ i \in (first + 1)..(first + size)
        BY <1>3, <3>1
      <3>3. QED
        BY <3>2
    <2>2. ASSUME NEW f \in Matching, Place(f) >= first, Place(f) < first + size
          PROVE  f \in PageOf(o)
      <3>1. PICK i \in 1..n : f = o[i]
        BY <1>3
      <3>2. Place(f) = i - 1
        BY <1>3, <3>1
      <3>3. i \in shown
        BY <2>2, <3>1, <3>2
      <3>4. QED
        BY <1>4, <3>1, <3>3
    <2>3. QED
      BY <2>1, <2>2
  <1>7. /\ IsFiniteSet((first + 1)..(first + size))
        /\ Cardinality((first + 1)..(first + size)) <= size
    <2>1. PICK a, b \in Int : a = first + 1 /\ b = first + size
      BY <1>2
    <2>2. IsFiniteSet(a..b) /\ Cardinality(a..b) = IF a > b THEN 0 ELSE b - a + 1
      BY FS_Interval
    <2>3. Cardinality(a..b) <= size
      BY <1>2, <2>1, <2>2
    <2>4. QED
      BY <2>1, <2>2, <2>3
  <1>8. shown \in SUBSET ((first + 1)..(first + size))
    OBVIOUS
  <1>9. /\ IsFiniteSet(shown)
        /\ Cardinality(shown) <= Cardinality((first + 1)..(first + size))
    BY <1>7, <1>8, FS_Subset
  <1> DEFINE page == [i \in shown |-> o[i]]
  <1>10. page \in Surjection(shown, PageOf(o))
    BY <1>4 DEF Surjection
  <1> HIDE DEF shown, page
  <1>11. IsFiniteSet(PageOf(o)) /\ Cardinality(PageOf(o)) <= Cardinality(shown)
    BY <1>9, <1>10, FS_Surjection
  <1>12. /\ Cardinality(PageOf(o)) \in Nat /\ Cardinality(shown) \in Nat
         /\ Cardinality((first + 1)..(first + size)) \in Nat
    BY <1>7, <1>9, <1>11, FS_CardinalityType
  <1>13. Cardinality(PageOf(o)) <= size
    BY <1>2, <1>7, <1>9, <1>11, <1>12
  <1>14. QED
    BY <1>2, <1>5, <1>6, <1>11, <1>12, <1>13

-----------------------------------------------------------------------------
(* The steps of the reader.                                                *)

LEMMA AskStep ==
  ASSUME IInv, NEW filter \in Filters, NEW size \in PageSizes, AskFirst(filter, size)
  PROVE  IInv'
  <1>1. /\ reader' = [pc |-> "count", filter |-> filter, size |-> size, page |-> 1,
                      total |-> 0, seen |-> {}, twice |-> {}]
        /\ churn' = Calm /\ UNCHANGED <<finding, evidence>>
    BY DEF AskFirst
  <1>2. reader' \in Listing
    BY <1>1 DEF Listing
  <1>3. TypeOK'
    BY <1>1, <1>2 DEF IInv, TypeOK, StoreTypeOK, Calm
  <1>4. /\ reader'.pc = "count" /\ reader'.seen = {} /\ reader'.twice = {}
        /\ reader'.page = 1 /\ reader'.size \in Nat
    BY <1>1, QueriesAssumption
  <1>5. offset' = 0
    BY <1>4 DEF offset
  <1>6. NoneTwice' /\ ShownBehind' /\ TotalHolds'
    BY <1>4 DEF NoneTwice, ShownBehind, TotalHolds
  <1>7. \A f : Place(f)' \in Nat
    <2>1. ASSUME NEW f PROVE Place(f)' \in Nat
      <3>1. Matching' \subseteq Fingerprints /\ Ahead(f)' \subseteq Fingerprints
        BY DEF Matching, Ahead
      <3>2. IsFiniteSet(Ahead(f)')
        BY <3>1, QueriesAssumption, FS_Subset
      <3>3. QED
        BY <3>2, FS_CardinalityType DEF Place
    <2>2. QED
      BY <2>1
  <1>8. RestInFront'
    BY <1>5, <1>7 DEF RestInFront
  <1>9. DetailInv'
    BY <1>1, <1>4 DEF IInv, DetailInv, RowObserved, KnownStays, DetailCovered
  <1>10. QED
    BY <1>3, <1>6, <1>8, <1>9 DEF IInv, ListInv

LEMMA CountStep == ASSUME IInv, Count PROVE IInv'
  <1>1. /\ reader.pc = "count" /\ Reading /\ UNCHANGED <<finding, evidence, churn>>
        /\ reader' = [reader EXCEPT !.pc = "page", !.total = Cardinality(Matching)]
    BY DEF Count, Reading
  <1>2. reader \in Listing /\ Cardinality(Matching) \in Nat
    BY <1>1, ListingFields, MatchingFinite DEF IInv
  <1>3. /\ reader' \in Listing /\ reader'.pc = "page"
        /\ reader'.total = Cardinality(Matching)
        /\ reader'.filter = reader.filter /\ reader'.size = reader.size
        /\ reader'.page = reader.page
        /\ reader'.seen = reader.seen /\ reader'.twice = reader.twice
    BY <1>1, <1>2 DEF Listing
  <1>4. TypeOK'
    BY <1>1, <1>3 DEF IInv, TypeOK, StoreTypeOK
  <1>5. Matching' = Matching /\ offset' = offset
    BY <1>1, <1>3 DEF Matching, offset
  <1>6. \A f : Place(f)' = Place(f)
    BY <1>1, <1>5 DEF Place, Ahead, Before
  <1>7. ListInv'
    BY <1>1, <1>2, <1>3, <1>5, <1>6 DEF IInv, ListInv, NoneTwice, ShownBehind, RestInFront,
       TotalHolds, Reading
  <1>8. DetailInv'
    BY <1>1, <1>3 DEF IInv, DetailInv, RowObserved, KnownStays, DetailCovered
  <1>9. QED
    BY <1>4, <1>7, <1>8 DEF IInv

\* What a page shows twice has changed, or another moved up.
LEMMA ShownTwice ==
  ASSUME IInv, Reading, NEW o \in Listings, ~churn.rose
  PROVE  reader.twice \cup (reader.seen \cap PageOf(o)) \subseteq churn.touched
  <1>1. reader.twice \subseteq churn.touched
    BY DEF IInv, ListInv, NoneTwice, Reading
  <1>2. ASSUME NEW f \in reader.seen \cap PageOf(o), f \notin churn.touched
        PROVE  FALSE
    <2>1. f \in Matching /\ Place(f) < offset
      BY <1>2 DEF IInv, ListInv, ShownBehind
    <2>2. Place(f) >= offset
      BY <1>2, <2>1, PageHas DEF IInv
    <2>3. QED
      BY <2>1, <2>2, AheadFinite, ListingFields DEF IInv
  <1>3. QED
    BY <1>1, <1>2

LEMMA PageStep == ASSUME IInv, Page PROVE IInv'
  <1>1. /\ reader.pc = "page" /\ Reading
        /\ churn' = [churn EXCEPT !.overtook = FALSE] /\ UNCHANGED <<finding, evidence>>
    BY DEF Page, Reading
  <1>2. PICK o \in Listings :
          LET items == PageOf(o)
              seen  == reader.seen \cup items
              twice == reader.twice \cup (reader.seen \cap items)
          IN reader' =
               IF has_more(items)
               THEN [reader EXCEPT !.pc = "count", !.page = @ + 1, !.total = 0,
                                   !.seen = seen, !.twice = twice]
               ELSE [pc |-> "end", seen |-> seen, twice |-> twice]
    BY DEF Page
  <1>3. PICK seen, twice :
          /\ seen = reader.seen \cup PageOf(o)
          /\ twice = reader.twice \cup (reader.seen \cap PageOf(o))
    OBVIOUS
  <1>4. /\ reader \in Listing
        /\ reader.page \in Nat \ {0} /\ reader.size \in Nat \ {0} /\ offset \in Nat
        /\ PageOf(o) \subseteq Matching /\ Matching \subseteq Fingerprints
        /\ \A f \in Matching : f \in PageOf(o) <=>
                                 Place(f) >= offset /\ Place(f) < offset + reader.size
    BY <1>1, ListingFields, PageHas, MatchingFinite DEF IInv
  <1>5. seen \subseteq Fingerprints /\ twice \subseteq Fingerprints
    BY <1>1, <1>3, <1>4, ListingFields DEF IInv
  <1>6. /\ churn' \in [touched : SUBSET Fingerprints,
                       rose : BOOLEAN, fell : BOOLEAN, overtook : BOOLEAN]
        /\ churn'.touched = churn.touched /\ churn'.rose = churn.rose
        /\ churn'.fell = churn.fell
    BY <1>1 DEF IInv, TypeOK
  <1>7. twice \subseteq churn.touched \/ churn.rose
    BY <1>1, <1>3, ShownTwice
  <1>8. CASE has_more(PageOf(o))
    <2>1. reader' = [reader EXCEPT !.pc = "count", !.page = @ + 1, !.total = 0,
                                   !.seen = seen, !.twice = twice]
      BY <1>2, <1>3, <1>8
    <2>2. reader.page + 1 \in Nat \ {0}
      BY <1>4
    <2>3. /\ reader' \in Listing /\ reader'.pc = "count"
          /\ reader'.filter = reader.filter /\ reader'.size = reader.size
          /\ reader'.page = reader.page + 1
          /\ reader'.seen = seen /\ reader'.twice = twice
      BY <1>4, <1>5, <2>1, <2>2 DEF Listing
    <2>4. TypeOK'
      BY <1>1, <1>6, <2>3 DEF IInv, TypeOK, StoreTypeOK
    <2>5. Matching' = Matching
      BY <1>1, <2>3 DEF Matching
    <2>6. \A f : Place(f)' = Place(f)
      BY <1>1, <2>5 DEF Place, Ahead, Before
    <2>7. offset' = offset + reader.size
      BY <1>4, <2>3, NextOffset DEF offset
    <2>8. ASSUME NEW f \in seen \ churn.touched, ~churn.rose
          PROVE  f \in Matching /\ Place(f) < offset + reader.size
      <3>1. CASE f \in PageOf(o)
        BY <1>4, <3>1
      <3>2. CASE f \in reader.seen
        <4>1. f \in Matching /\ Place(f) < offset
          BY <1>1, <2>8, <3>2 DEF IInv, ListInv, ShownBehind
        <4>2. QED
          BY <1>4, <4>1, AheadFinite
      <3>3. QED
        BY <1>3, <2>8, <3>1, <3>2
    <2>9. ASSUME NEW f \in Matching \ churn.touched, ~churn.fell, f \notin seen
          PROVE  Place(f) >= offset + reader.size
      <3>1. Place(f) >= offset /\ f \notin PageOf(o)
        BY <1>1, <1>3, <2>9 DEF IInv, ListInv, RestInFront
      <3>2. QED
        BY <1>4, <2>9, <3>1, AheadFinite
    <2>10. ListInv'
      <3>1. NoneTwice' /\ TotalHolds'
        BY <1>6, <1>7, <2>3 DEF NoneTwice, TotalHolds
      <3>2. ShownBehind'
        BY <1>6, <2>3, <2>5, <2>6, <2>7, <2>8 DEF ShownBehind
      <3>3. RestInFront'
        BY <1>6, <2>3, <2>5, <2>6, <2>7, <2>9 DEF RestInFront
      <3>4. QED
        BY <3>1, <3>2, <3>3 DEF ListInv
    <2>11. DetailInv'
      BY <1>1, <2>3 DEF IInv, DetailInv, RowObserved, KnownStays, DetailCovered
    <2>12. QED
      BY <2>4, <2>10, <2>11 DEF IInv
  <1>9. CASE ~has_more(PageOf(o))
    <2>1. reader' = [pc |-> "end", seen |-> seen, twice |-> twice]
      BY <1>2, <1>3, <1>9
    <2>2. reader' \in Listed
      BY <1>5, <2>1 DEF Listed
    <2>3. TypeOK'
      BY <1>1, <1>6, <2>2 DEF IInv, TypeOK, StoreTypeOK
    <2>4. ListInv'
      BY <1>6, <1>7, <2>1 DEF ListInv, NoneTwice, ShownBehind, RestInFront, TotalHolds, Reading
    <2>5. DetailInv'
      BY <1>1, <2>1 DEF IInv, DetailInv, RowObserved, KnownStays, DetailCovered
    <2>6. QED
      BY <2>3, <2>4, <2>5 DEF IInv
  <1>10. QED
    BY <1>8, <1>9

LEMMA DetailRowStep == ASSUME IInv, NEW f \in Fingerprints, DetailRow(f) PROVE IInv'
  <1> DEFINE known == {e \in evidence : e.fp = f}
  <1>1. /\ finding[f] # NoFinding /\ UNCHANGED <<finding, evidence, churn>>
        /\ reader' = [pc |-> "evidences", fp |-> f, row |-> finding[f],
                      known |-> known, evidences |-> {}]
    BY DEF DetailRow
  <1>2. finding[f] \in FindingRow /\ evidence \subseteq EvidenceRow
    BY <1>1 DEF IInv, TypeOK, StoreTypeOK
  <1>3. reader' \in Detail
    BY <1>1, <1>2 DEF Detail
  <1>4. TypeOK'
    BY <1>1, <1>3 DEF IInv, TypeOK, StoreTypeOK
  <1>5. PICK e \in evidence : e.fp = f /\ e.at = finding[f].lastSeen
    BY <1>1 DEF IInv, DetailInv, RowObserved
  <1>6. KnownStays'
    BY <1>1, <1>5 DEF KnownStays
  <1>7. RowObserved' /\ DetailCovered'
    BY <1>1 DEF IInv, DetailInv, RowObserved, DetailCovered
  <1>8. ListInv'
    BY <1>1 DEF ListInv, NoneTwice, ShownBehind, RestInFront, TotalHolds, Reading
  <1>9. QED
    BY <1>4, <1>6, <1>7, <1>8 DEF IInv, DetailInv

LEMMA DetailFields ==
  ASSUME TypeOK, reader.pc \in {"evidences", "done"}
  PROVE  reader \in Detail
  BY DEF TypeOK, Idle, Listing, Listed

LEMMA DetailEvidencesStep == ASSUME IInv, DetailEvidences PROVE IInv'
  <1> DEFINE all == {e \in evidence : e.fp = reader.fp}
  <1>1. /\ reader.pc = "evidences" /\ UNCHANGED <<finding, evidence, churn>>
        /\ reader' = [reader EXCEPT !.pc = "done", !.evidences = all]
    BY DEF DetailEvidences
  <1>2. all \subseteq EvidenceRow /\ reader \in Detail
    BY <1>1, DetailFields DEF IInv, TypeOK, StoreTypeOK
  <1>3. /\ reader' \in Detail /\ reader'.pc = "done"
        /\ reader'.evidences = all /\ reader'.known = reader.known
        /\ reader'.row = reader.row /\ reader'.fp = reader.fp
    BY <1>1, <1>2 DEF Detail
  <1>4. TypeOK'
    BY <1>1, <1>3 DEF IInv, TypeOK, StoreTypeOK
  <1>5. /\ reader.known \subseteq all
        /\ \E e \in reader.known : e.at = reader.row.lastSeen
    BY <1>1 DEF IInv, DetailInv, KnownStays
  <1>6. KnownStays' /\ DetailCovered'
    BY <1>1, <1>3, <1>5 DEF KnownStays, DetailCovered
  <1>7. RowObserved'
    BY <1>1 DEF IInv, DetailInv, RowObserved
  <1>8. ListInv'
    BY <1>3 DEF ListInv, NoneTwice, ShownBehind, RestInFront, TotalHolds, Reading
  <1>9. QED
    BY <1>4, <1>6, <1>7, <1>8 DEF IInv, DetailInv

-----------------------------------------------------------------------------
(* The steps of the store.                                                 *)

\* Evidence is never removed, rows stay, and each tells its last observation.
LEMMA StoreKeeps ==
  ASSUME StoreTypeOK, RowObserved, StoreNext
  PROVE  StoreTypeOK' /\ RowObserved' /\ evidence \subseteq evidence'
  <1>1. /\ finding \in [Fingerprints -> {NoFinding} \cup FindingRow]
        /\ evidence \subseteq EvidenceRow
    BY DEF StoreTypeOK
  <1>2. ASSUME NEW f \in Fingerprints, NEW o \in Observations, NEW at \in Times,
               Observe(o, f, at)
        PROVE  StoreTypeOK' /\ RowObserved' /\ evidence \subseteq evidence'
    <2> DEFINE e == [id |-> o, fp |-> f, at |-> at]
               row == Observed(finding[f], at)
    <2>1. /\ finding' = [finding EXCEPT ![f] = row]
          /\ evidence' = evidence \cup {e}
      BY <1>2 DEF Observe
    <2>2. at \in Nat
      BY QueriesAssumption
    <2>3. row \in FindingRow /\ row.lastSeen = at
      BY <1>1, <2>2 DEF Observed, FindingRow, FindingStatus, NoFinding
    <2>4. e \in EvidenceRow /\ e.fp = f /\ e.at = at
      BY DEF EvidenceRow
    <2> HIDE DEF e, row
    <2>5. StoreTypeOK'
      BY <1>1, <2>1, <2>3, <2>4 DEF StoreTypeOK
    <2>6. RowObserved'
      BY <1>1, <2>1, <2>3, <2>4 DEF RowObserved
    <2>7. QED
      BY <2>1, <2>5, <2>6
  <1>3. ASSUME NEW f \in Fingerprints, NEW to \in FindingStatus, ChangeStatus(f, to)
        PROVE  StoreTypeOK' /\ RowObserved' /\ evidence \subseteq evidence'
    <2>1. /\ finding[f] # NoFinding /\ finding[f] \in FindingRow
          /\ finding' = [finding EXCEPT ![f].status = to] /\ evidence' = evidence
      BY <1>1, <1>3 DEF ChangeStatus
    <2>2. /\ finding' \in [Fingerprints -> {NoFinding} \cup FindingRow]
          /\ \A g \in Fingerprints \ {f} : finding'[g] = finding[g]
          /\ finding'[f].lastSeen = finding[f].lastSeen
      BY <1>1, <2>1 DEF FindingRow
    <2>3. StoreTypeOK'
      BY <1>1, <2>1, <2>2 DEF StoreTypeOK
    <2>4. RowObserved'
      BY <2>1, <2>2 DEF RowObserved
    <2>5. QED
      BY <2>1, <2>3, <2>4
  <1>4. QED
    BY <1>2, <1>3 DEF StoreNext

\* If none moved up, all that match now did before, and no more come before one
\* that did not change.
LEMMA NoneUp ==
  ASSUME TypeOK, Reading, StoreTypeOK', reader' = reader,
         \A g \in Fingerprints : ~Up(finding[g], finding'[g])
  PROVE  /\ Matching' \subseteq Matching
         /\ Cardinality(Matching') \in Nat /\ Cardinality(Matching') <= Cardinality(Matching)
         /\ \A f \in Matching : finding'[f] = finding[f] =>
              Place(f)' \in Nat /\ Place(f)' <= Place(f)
  <1>1. ASSUME NEW g \in Matching'
        PROVE  /\ g \in Matching /\ finding[g].lastSeen \in Nat
               /\ finding'[g].lastSeen \in Nat /\ Rank[g] \in Nat
               /\ finding'[g].lastSeen <= finding[g].lastSeen
    <2>1. g \in Fingerprints /\ Shown(finding'[g]) /\ reader.filter \subseteq FindingStatus
      BY <1>1, ListingFields, QueriesAssumption DEF Matching, Shown
    <2>2. Shown(finding[g]) /\ ~ (finding'[g].lastSeen > finding[g].lastSeen)
      BY <2>1 DEF Up
    <2>3. g \in Matching
      BY <2>1, <2>2 DEF Matching, Shown
    <2>4. finding'[g].lastSeen \in Nat
      BY <2>1 DEF StoreTypeOK, Shown, NoFinding, FindingRow, FindingStatus
    <2>5. QED
      BY <2>2, <2>3, <2>4, MatchingRow
  <1>2. Matching' \in SUBSET Matching
    BY <1>1
  <1>3. /\ IsFiniteSet(Matching')
        /\ Cardinality(Matching') <= Cardinality(Matching)
    BY <1>2, MatchingFinite, FS_Subset
  <1>4. Cardinality(Matching') \in Nat
    BY <1>3, FS_CardinalityType
  <1>5. ASSUME NEW f \in Matching, finding'[f] = finding[f]
        PROVE  Place(f)' \in Nat /\ Place(f)' <= Place(f)
    <2>1. finding[f].lastSeen \in Nat /\ Rank[f] \in Nat
      BY MatchingRow
    <2>2. ASSUME NEW g \in Ahead(f)'
          PROVE  g \in Ahead(f)
      <3>1. /\ g \in Matching'
            /\ \/ finding'[g].lastSeen > finding[f].lastSeen
               \/ finding'[g].lastSeen = finding[f].lastSeen /\ Rank[g] > Rank[f]
        BY <1>5, <2>2 DEF Ahead, Before
      <3>2. g \in Matching /\ Before(g, f)
        BY <1>1, <2>1, <3>1 DEF Before
      <3>3. QED
        BY <3>2 DEF Ahead
    <2>3. Ahead(f)' \in SUBSET Ahead(f)
      BY <2>2
    <2>4. /\ IsFiniteSet(Ahead(f)')
          /\ Cardinality(Ahead(f)') <= Cardinality(Ahead(f))
      BY <2>3, AheadFinite, FS_Subset
    <2>5. Cardinality(Ahead(f)') \in Nat
      BY <2>4, FS_CardinalityType
    <2>6. QED
      BY <2>4, <2>5 DEF Place
  <1>6. QED
    BY <1>2, <1>3, <1>4, <1>5

\* And if none fell, no fewer come before it.
LEMMA NoneDown ==
  ASSUME TypeOK, Reading, StoreTypeOK', reader' = reader,
         \A g \in Fingerprints : ~Up(finding'[g], finding[g])
  PROVE  \A f \in Matching : finding'[f] = finding[f] =>
           Place(f)' \in Nat /\ Place(f)' >= Place(f)
  <1>1. ASSUME NEW g \in Matching
        PROVE  /\ g \in Matching' /\ finding[g].lastSeen \in Nat
               /\ finding'[g].lastSeen \in Nat /\ Rank[g] \in Nat
               /\ finding[g].lastSeen <= finding'[g].lastSeen
    <2>1. g \in Fingerprints /\ Shown(finding[g]) /\ reader.filter \subseteq FindingStatus
      BY <1>1, ListingFields, QueriesAssumption DEF Matching, Shown
    <2>2. Shown(finding'[g]) /\ ~ (finding[g].lastSeen > finding'[g].lastSeen)
      BY <2>1 DEF Up
    <2>3. g \in Matching'
      BY <2>1, <2>2 DEF Matching, Shown
    <2>4. finding'[g].lastSeen \in Nat
      BY <2>1, <2>2 DEF StoreTypeOK, Shown, NoFinding, FindingRow, FindingStatus
    <2>5. QED
      BY <2>2, <2>3, <2>4, MatchingRow
  <1>2. ASSUME NEW f \in Matching, finding'[f] = finding[f]
        PROVE  Place(f)' \in Nat /\ Place(f)' >= Place(f)
    <2>1. finding[f].lastSeen \in Nat /\ Rank[f] \in Nat
      BY MatchingRow
    <2>2. ASSUME NEW g \in Ahead(f)
          PROVE  g \in Ahead(f)'
      <3>1. g \in Matching /\ Before(g, f)
        BY <2>2 DEF Ahead
      <3>2. /\ g \in Matching'
            /\ \/ finding'[g].lastSeen > finding[f].lastSeen
               \/ finding'[g].lastSeen = finding[f].lastSeen /\ Rank[g] > Rank[f]
        BY <1>1, <2>1, <3>1 DEF Before
      <3>3. QED
        BY <1>2, <3>2 DEF Ahead, Before
    <2>3. Ahead(f) \in SUBSET (Ahead(f)')
      BY <2>2
    <2>4. Ahead(f)' \in SUBSET Fingerprints
      BY DEF Ahead, Matching
    <2>5. IsFiniteSet(Ahead(f)')
      BY <2>4, QueriesAssumption, FS_Subset
    <2>6. /\ Cardinality(Ahead(f)) <= Cardinality(Ahead(f)')
          /\ Cardinality(Ahead(f)') \in Nat
      BY <2>3, <2>5, FS_Subset, FS_CardinalityType
    <2>7. Cardinality(Ahead(f)) \in Nat
      BY AheadFinite DEF Place
    <2>8. QED
      BY <2>6, <2>7 DEF Place
  <1>3. QED
    BY <1>2

LEMMA StoreStepStep == ASSUME IInv, StoreStep PROVE IInv'
  <1>1. /\ StoreNext /\ churn' = (IF Reading THEN Noted ELSE churn) /\ reader' = reader
    BY DEF StoreStep
  <1>2. StoreTypeOK' /\ RowObserved' /\ evidence \subseteq evidence'
    BY <1>1, StoreKeeps DEF IInv, TypeOK, DetailInv
  <1>3. DetailInv'
    BY <1>1, <1>2 DEF IInv, DetailInv, KnownStays, DetailCovered
  <1>4. CASE ~Reading
    BY <1>1, <1>2, <1>3, <1>4 DEF IInv, TypeOK, ListInv, NoneTwice, ShownBehind, RestInFront,
       TotalHolds, Reading
  <1>5. CASE Reading
    <2> DEFINE up == \E f \in Fingerprints : Up(finding[f], finding'[f])
               down == \E f \in Fingerprints : Up(finding'[f], finding[f])
               changed == {f \in Fingerprints : finding'[f] # finding[f]}
    <2>1. up \in BOOLEAN /\ down \in BOOLEAN /\ churn' = Noted
      BY <1>1, <1>5
    <2>2. /\ churn'.touched = churn.touched \cup changed
          /\ churn'.rose = (churn.rose \/ up)
          /\ churn'.fell = (churn.fell \/ down)
          /\ churn'.overtook = (churn.overtook \/ (up /\ reader.pc = "page"))
      BY <2>1 DEF Noted
    <2>3. churn' \in [touched : SUBSET Fingerprints,
                      rose : BOOLEAN, fell : BOOLEAN, overtook : BOOLEAN]
      <3>1. churn.touched \subseteq Fingerprints /\ changed \subseteq Fingerprints
        BY DEF IInv, TypeOK
      <3>2. churn' = [touched |-> churn'.touched, rose |-> churn'.rose,
                      fell |-> churn'.fell, overtook |-> churn'.overtook]
        BY <2>1 DEF Noted
      <3>3. QED
        BY <2>2, <3>1, <3>2
    <2>4. TypeOK'
      BY <1>1, <1>2, <2>3 DEF IInv, TypeOK
    <2>5. offset' = offset /\ offset \in Nat /\ reader.total \in Nat
      BY <1>1, <1>5, ListingFields DEF IInv, offset
    <2>6. ~up => /\ Matching' \subseteq Matching
                 /\ Cardinality(Matching') \in Nat
                 /\ Cardinality(Matching') <= Cardinality(Matching)
                 /\ \A f \in Matching : finding'[f] = finding[f] =>
                      Place(f)' \in Nat /\ Place(f)' <= Place(f)
      BY <1>1, <1>2, <1>5, NoneUp DEF IInv
    <2>7. ~down => \A f \in Matching : finding'[f] = finding[f] =>
                     Place(f)' \in Nat /\ Place(f)' >= Place(f)
      BY <1>1, <1>2, <1>5, NoneDown DEF IInv
    <2>8. \A f \in Fingerprints : finding'[f] = finding[f] =>
            (f \in Matching' <=> f \in Matching)
      BY <1>1 DEF Matching
    <2>9. \A f \in Fingerprints \ churn'.touched :
            f \notin churn.touched /\ finding'[f] = finding[f]
      BY <2>2
    <2> HIDE DEF up, down, changed
    <2>10. NoneTwice'
      BY <1>1, <2>2 DEF IInv, ListInv, NoneTwice
    <2>11. ShownBehind'
      <3>1. ASSUME NEW f \in reader.seen \ churn'.touched, ~churn'.rose
            PROVE  f \in Matching' /\ Place(f)' < offset
        <4>1. ~churn.rose /\ ~up
          BY <2>2, <3>1
        <4>2. f \in Fingerprints /\ f \notin churn.touched /\ finding'[f] = finding[f]
          BY <1>5, <2>9, <3>1, ListingFields DEF IInv
        <4>3. f \in Matching /\ Place(f) < offset
          BY <1>5, <3>1, <4>1, <4>2 DEF IInv, ListInv, ShownBehind
        <4>4. Place(f)' \in Nat /\ Place(f)' <= Place(f) /\ Place(f) \in Nat
          BY <2>6, <4>1, <4>2, <4>3, AheadFinite
        <4>5. QED
          BY <2>5, <2>8, <4>2, <4>3, <4>4
      <3>2. QED
        BY <1>1, <2>5, <3>1 DEF ShownBehind
    <2>12. RestInFront'
      <3>1. ASSUME NEW f \in Matching' \ churn'.touched, ~churn'.fell, f \notin reader.seen
            PROVE  Place(f)' >= offset
        <4>1. ~churn.fell /\ ~down
          BY <2>2, <3>1
        <4>2. f \in Fingerprints
          BY <3>1 DEF Matching
        <4>3. f \notin churn.touched /\ finding'[f] = finding[f] /\ f \in Matching
          BY <2>8, <2>9, <3>1, <4>2
        <4>4. Place(f) >= offset
          BY <1>5, <3>1, <4>1, <4>3 DEF IInv, ListInv, RestInFront
        <4>5. Place(f)' \in Nat /\ Place(f)' >= Place(f) /\ Place(f) \in Nat
          BY <2>7, <4>1, <4>3, AheadFinite
        <4>6. QED
          BY <2>5, <4>4, <4>5
      <3>2. QED
        BY <1>1, <2>5, <3>1 DEF RestInFront
    <2>13. TotalHolds'
      <3>1. ASSUME reader.pc = "page", ~churn'.overtook
            PROVE  Cardinality(Matching') <= reader.total
        <4>1. ~churn.overtook /\ ~up
          BY <2>2, <3>1
        <4>2. Cardinality(Matching) <= reader.total
          BY <3>1, <4>1 DEF IInv, ListInv, TotalHolds
        <4>3. QED
          BY <2>5, <2>6, <4>1, <4>2, MatchingFinite
      <3>2. QED
        BY <1>1, <3>1 DEF TotalHolds
    <2>14. QED
      BY <1>3, <2>4, <2>10, <2>11, <2>12, <2>13 DEF IInv, ListInv
  <1>6. QED
    BY <1>4, <1>5

-----------------------------------------------------------------------------
(* The theorems.                                                           *)

LEMMA InitInv == Init => IInv
  <1> SUFFICES ASSUME Init PROVE IInv
    OBVIOUS
  <1>1. reader = Idle /\ reader.pc = "idle"
    BY DEF Init, Idle
  <1>2. TypeOK
    BY <1>1 DEF Init, StoreInit, TypeOK, StoreTypeOK, Calm
  <1>3. RowObserved
    BY DEF Init, StoreInit, RowObserved
  <1>4. ListInv /\ KnownStays /\ DetailCovered
    BY <1>1 DEF ListInv, NoneTwice, ShownBehind, RestInFront, TotalHolds, Reading,
       KnownStays, DetailCovered
  <1>5. QED
    BY <1>2, <1>3, <1>4 DEF IInv, DetailInv

LEMMA StepInv == IInv /\ [Next]_vars => IInv'
  <1> SUFFICES ASSUME IInv, [Next]_vars PROVE IInv'
    OBVIOUS
  <1>1. CASE Next
    BY <1>1, AskStep, CountStep, PageStep, DetailRowStep, DetailEvidencesStep, StoreStepStep
    DEF Next
  <1>2. CASE UNCHANGED vars
    <2>1. UNCHANGED <<finding, evidence, reader, churn>>
      BY <1>2 DEF vars
    <2>2. Matching' = Matching /\ offset' = offset
      BY <2>1 DEF Matching, offset
    <2>3. \A f : Place(f)' = Place(f)
      BY <2>1, <2>2 DEF Place, Ahead, Before
    <2>4. ListInv'
      BY <2>1, <2>2, <2>3 DEF IInv, ListInv, NoneTwice, ShownBehind, RestInFront, TotalHolds,
         Reading
    <2>5. TypeOK' /\ DetailInv'
      BY <2>1 DEF IInv, TypeOK, StoreTypeOK, DetailInv, RowObserved, KnownStays, DetailCovered
    <2>6. QED
      BY <2>4, <2>5 DEF IInv
  <1>3. QED
    BY <1>1, <1>2

LEMMA Invariant == Spec => []IInv
  BY InitInv, StepInv, PTL DEF Spec

\* Rows, pages and counts have the values that the code gives them, whatever the
\* store does between two requests.
THEOREM QueriesTyped == Spec => []TypeOK
  BY Invariant, PTL DEF IInv

\* list_findings shows a finding that did not change twice only if another came
\* before it since the first page.
THEOREM ShownOnce == Spec => []NoneTwice
  BY Invariant, PTL DEF IInv, ListInv

\* get_finding_detail has the observation that its row tells of, and all evidence
\* stored before the row was read.
THEOREM DetailExplained == Spec => []DetailCovered
  BY Invariant, PTL DEF IInv, DetailInv

\* The page after which has_more is FALSE is the last that has anything to show.
LEMMA LastPage ==
  ASSUME IInv, reader.pc = "page", Page, reader'.pc = "end",
         NEW f \in Matching \ churn.touched, ~churn.fell, ~churn.overtook
  PROVE  f \in reader'.seen
  <1>1. Reading /\ reader.pc # "end"
    BY DEF Reading
  <1>2. PICK o \in Listings :
          LET items == PageOf(o)
              seen  == reader.seen \cup items
              twice == reader.twice \cup (reader.seen \cap items)
          IN reader' =
               IF has_more(items)
               THEN [reader EXCEPT !.pc = "count", !.page = @ + 1, !.total = 0,
                                   !.seen = seen, !.twice = twice]
               ELSE [pc |-> "end", seen |-> seen, twice |-> twice]
    BY DEF Page
  <1>3. reader \in Listing /\ offset \in Nat /\ reader.size \in Nat /\ reader.total \in Nat
    BY <1>1, ListingFields DEF IInv
  <1>4. ~has_more(PageOf(o)) /\ reader'.seen = reader.seen \cup PageOf(o)
    BY <1>2, <1>3 DEF Listing
  <1>5. /\ Cardinality(PageOf(o)) \in Nat /\ Cardinality(PageOf(o)) <= reader.size
        /\ f \in PageOf(o) <=> Place(f) >= offset /\ Place(f) < offset + reader.size
    BY <1>1, PageHas DEF IInv
  <1>6. Cardinality(Matching) <= reader.total /\ Cardinality(Matching) \in Nat
    BY MatchingFinite DEF IInv, ListInv, TotalHolds
  <1>7. Cardinality(Matching) <= offset + reader.size
    BY <1>3, <1>4, <1>5, <1>6 DEF has_more
  <1>8. Place(f) \in Nat /\ Place(f) < Cardinality(Matching)
    <2>1. PICK n : n = Cardinality(Matching)
      OBVIOUS
    <2>2. /\ \A i \in 1..n : Place(o[i]) = i - 1
          /\ \E i \in 1..n : o[i] = f
      BY <1>1, <2>1, PlaceInList DEF IInv
    <2>3. PICK i \in 1..n : o[i] = f /\ Place(f) = i - 1
      BY <2>2
    <2>4. QED
      BY <1>6, <2>1, <2>3
  <1>9. f \in reader.seen \/ Place(f) >= offset
    BY <1>1 DEF IInv, ListInv, RestInFront
  <1>10. QED
    BY <1>3, <1>4, <1>5, <1>6, <1>7, <1>8, <1>9

\* A client that reads list_findings to the end has been shown every finding that
\* matched all the time, unless one fell out of reach or a count was overtaken.
THEOREM ShownAll == Spec => NoneMissed
  <1>1. IInv /\ [Next]_vars =>
          [reader.pc = "page" /\ reader'.pc = "end" =>
             \A f \in Matching \ churn.touched :
               f \in reader'.seen \/ churn.fell \/ churn.overtook]_vars
    <2>1. ASSUME IInv, Next, reader.pc = "page", reader'.pc = "end"
          PROVE  Page
      BY <2>1 DEF Next, AskFirst, Idle, Count, DetailRow, DetailEvidences, StoreStep
    <2>2. QED
      BY <2>1, LastPage
  <1>2. QED
    BY Invariant, <1>1, PTL DEF Spec, NoneMissed
=============================================================================
