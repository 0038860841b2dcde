----------------------------- MODULE StoreProofs ----------------------------
(***************************************************************************)
(* Proofs about Store, for every set of fingerprints, every dedupe of      *)
(* titles and every retention: the state keeps its type whatever processes *)
(* run; and while one process has the directory open and writes land whole *)
(* or not at all, what it remembers is what a restart would load, a repeat *)
(* keeps its original, an accepted row can be read back, and the log is    *)
(* the table of module Ledger.                                             *)
(*                                                                         *)
(* A row is judged against memory (Seen, TitleClash), read at one step and *)
(* saved or compacted at another.  StoreInv says what links the copies:    *)
(* who owns a title is in the file, a mark has a delivery behind it, and   *)
(* what was read to be written back is still what readers see.             *)
(***************************************************************************)
EXTENDS Store, FiniteSetTheorems, WellFoundedInduction, TLAPS

-----------------------------------------------------------------------------
\* A non-empty set of naturals has a least element, and Min is it.
LEMMA MinOfNaturals ==
    ASSUME NEW T \in SUBSET Nat, T # {}
    PROVE  Min(T) \in T /\ \A y \in T : Min(T) <= y
<1> DEFINE U == {0..t : t \in T}
<1>1. U \subseteq FiniteSubsetsOf(Nat) /\ U # {}
  <2>1. \A t \in T : 0..t \subseteq Nat /\ IsFiniteSet(0..t)
      BY FS_Interval
  <2>2. QED
      BY <2>1 DEF FiniteSubsetsOf
<1>2. PICK m \in U : \A u \in U : ~(<<u, m>> \in StrictSubsetOrdering(Nat))
    BY <1>1, FS_StrictSubsetOrderingWellFounded, WFMin
<1>3. PICK x \in T : m = 0..x
    OBVIOUS
<1>4. \A y \in T : x <= y
  <2> SUFFICES ASSUME NEW y \in T, y < x PROVE FALSE
      OBVIOUS
  <2>1. 0..y \subseteq 0..x /\ 0..y # 0..x /\ 0..y \in U
    <3>1. x \in 0..x /\ x \notin 0..y
        OBVIOUS
    <3>2. QED
        BY <3>1
  <2>2. 0..y \subseteq Nat /\ 0..x \subseteq Nat
      OBVIOUS
  <2>3. QED
      BY <1>2, <1>3, <2>1, <2>2 DEF StrictSubsetOrdering
<1>5. QED
    BY <1>4 DEF Min

\* ... and a bounded one has a greatest, and Max is it.
LEMMA MaxOfNaturals ==
    ASSUME NEW n \in Nat, NEW T \in SUBSET (0..n), T # {}
    PROVE  Max(T) \in T /\ \A y \in T : Max(T) >= y
<1> DEFINE U == {m \in Nat : n - m \in T}
<1>1. U \in SUBSET Nat /\ U # {}
  <2>1. PICK t \in T : TRUE
      OBVIOUS
  <2>2. n - t \in Nat /\ n - (n - t) = t
      BY <2>1
  <2>3. QED
      BY <2>1, <2>2
<1>2. Min(U) \in U /\ \A y \in U : Min(U) <= y
    BY <1>1, MinOfNaturals
<1>3. n - Min(U) \in T
    BY <1>2
<1>4. \A y \in T : n - Min(U) >= y
  <2> TAKE y \in T
  <2>1. n - y \in Nat /\ n - (n - y) = y
      OBVIOUS
  <2>2. n - y \in U
      BY <2>1
  <2>3. Min(U) \in Nat /\ Min(U) <= n - y
      BY <1>2, <2>2
  <2>4. QED
      BY <2>3, <2>1
<1>5. QED
    BY <1>3, <1>4 DEF Max
-----------------------------------------------------------------------------
\* A finite set under a strict total order can be listed in that order: the
\* place of an element is the number of those not after it.
LEMMA SortedListing ==
    ASSUME NEW S, IsFiniteSet(S), NEW after,
           \A x \in S : x \notin after[x],
           \A x, y, z \in S : y \in after[x] /\ z \in after[y] => z \in after[x],
           \A x, y \in S : x = y \/ y \in after[x] \/ x \in after[y]
    PROVE  \E rows \in [1..Cardinality(S) -> S] :
               \A i, j \in DOMAIN rows : i < j => rows[j] \in after[rows[i]]
<1> DEFINE UpTo(x) == {q \in S : q = x \/ x \in after[q]}
           place == [x \in S |-> Cardinality(UpTo(x))]
           n == Cardinality(S)
<1>1. n \in Nat
    BY FS_CardinalityType
<1>2. \A x \in S : /\ IsFiniteSet(UpTo(x))
                     /\ Cardinality(UpTo(x)) \in Nat /\ Cardinality(UpTo(x)) <= n
                     /\ Cardinality(UpTo(x)) # 0
  <2> TAKE x \in S
  <2>1. IsFiniteSet(UpTo(x)) /\ Cardinality(UpTo(x)) <= n
      BY FS_Subset
  <2>2. x \in UpTo(x)
      OBVIOUS
  <2>3. QED
      BY <2>1, <2>2, FS_CardinalityType, FS_EmptySet
<1>3. \A x, y \in S : y \in after[x] => place[x] < place[y]
  <2> SUFFICES ASSUME NEW x \in S, NEW y \in S, y \in after[x]
               PROVE  Cardinality(UpTo(x)) < Cardinality(UpTo(y))
      OBVIOUS
  <2>1. UpTo(x) \in SUBSET UpTo(y)
      OBVIOUS
  <2>2. y \in UpTo(y) /\ y \notin UpTo(x)
      OBVIOUS
  <2>3. UpTo(x) # UpTo(y)
      BY <2>2
  <2>4. /\ Cardinality(UpTo(x)) <= Cardinality(UpTo(y))
        /\ Cardinality(UpTo(x)) # Cardinality(UpTo(y))
      BY <1>2, <2>1, <2>3, FS_Subset
  <2>5. QED
      BY <1>2, <2>4
<1>4. place \in [S -> 1..n]
    BY <1>1, <1>2
<1>5. place \in Injection(S, 1..n)
  <2>1. \A x \in S : place[x] \in Nat
      BY <1>2
  <2>2. \A x, y \in S : place[x] = place[y] => x = y
    <3> HIDE DEF place
    <3> SUFFICES ASSUME NEW x \in S, NEW y \in S, place[x] = place[y], x # y PROVE FALSE
        OBVIOUS
    <3>1. place[x] < place[y] \/ place[y] < place[x]
        BY <1>3
    <3>2. QED
        BY <3>1, <2>1
  <2>3. QED
      BY <1>4, <2>2 DEF Injection, IsInjective
<1>6. place \in Surjection(S, 1..n)
  <2>1. IsFiniteSet(1..n) /\ Cardinality(1..n) = n
      BY <1>1, FS_Interval
  <2>2. QED
      BY <1>5, <2>1, FS_Injection
<1> DEFINE rows == [i \in 1..n |-> CHOOSE x \in S : place[x] = i]
<1>7. \A i \in 1..n : rows[i] \in S /\ place[rows[i]] = i
  <2>1. \A i \in 1..n : \E x \in S : place[x] = i
      BY <1>6 DEF Surjection
  <2>2. QED
      BY <2>1
<1>8. rows \in [1..n -> S] /\ DOMAIN rows = 1..n
    BY <1>7
<1>9. ASSUME NEW i \in 1..n, NEW j \in 1..n, i < j
      PROVE  rows[j] \in after[rows[i]]
  <2>1. rows[i] \in S /\ rows[j] \in S /\ place[rows[i]] = i /\ place[rows[j]] = j
      BY <1>7
  <2>2. i \in Int /\ j \in Int
      OBVIOUS
  <2> HIDE DEF place, rows
  <2>3. rows[i] # rows[j] /\ ~(place[rows[j]] < place[rows[i]])
      BY <2>1, <2>2, <1>9
  <2>4. rows[i] \notin after[rows[j]]
      BY <2>1, <2>3, <1>3
  <2>5. QED
      BY <2>1, <2>3, <2>4
<1>10. QED
  <2> HIDE DEF place, rows
  <2>1. \A i, j \in DOMAIN rows : i < j => rows[j] \in after[rows[i]]
      BY <1>8, <1>9
  <2>2. QED
      BY <1>8, <2>1
-----------------------------------------------------------------------------
(***************************************************************************)
(* The readers' view of a log given as a value, so that a fact about it    *)
(* serves the log before a step and the log after it.                      *)
(***************************************************************************)
LEMMA PlaceBounds ==
    ASSUME NEW rows \in Seq(Row), NEW f \in FpsOf(rows)
    PROVE  /\ PlacesIn(rows, f) \in SUBSET (0..Len(rows))
           /\ PlacesIn(rows, f) \in SUBSET Nat
           /\ PlacesIn(rows, f) # {}
BY DEF PlacesIn, FpsOf

\* The first and the latest row of a fingerprint are rows of it.
LEMMA LatestIsARow ==
    ASSUME NEW rows \in Seq(Row), NEW f \in FpsOf(rows)
    PROVE  /\ Max(PlacesIn(rows, f)) \in PlacesIn(rows, f)
           /\ Max(PlacesIn(rows, f)) \in DOMAIN rows
           /\ LatestIn(rows, f) \in Row /\ LatestIn(rows, f).fp = f
<1>1. Max(PlacesIn(rows, f)) \in PlacesIn(rows, f)
    BY PlaceBounds, MaxOfNaturals
<1>2. QED
    BY <1>1 DEF PlacesIn, LatestIn

LEMMA FirstIsAPlace ==
    ASSUME NEW rows \in Seq(Row), NEW f \in FpsOf(rows)
    PROVE  FirstIn(rows, f) \in Nat /\ FirstIn(rows, f) \in DOMAIN rows /\ rows[FirstIn(rows, f)].fp = f
<1>1. FirstIn(rows, f) \in PlacesIn(rows, f)
    BY PlaceBounds, MinOfNaturals DEF FirstIn
<1>2. QED
    BY <1>1 DEF PlacesIn

\* Appending a row makes it the latest of its fingerprint and no other's.
LEMMA AppendedRow ==
    ASSUME NEW rows \in Seq(Row), NEW r \in Row
    PROVE  LET more == Append(rows, r) IN
           /\ more \in Seq(Row)
           /\ FpsOf(more) = FpsOf(rows) \union {r.fp}
           /\ LatestIn(more, r.fp) = r
           /\ \A g \in FpsOf(rows) : g # r.fp => LatestIn(more, g) = LatestIn(rows, g)
<1> DEFINE more == Append(rows, r)
           n == Len(rows) + 1
<1>1. /\ more \in Seq(Row) /\ DOMAIN more = 1..n /\ DOMAIN rows = 1..Len(rows)
      /\ Len(rows) \in Nat /\ n \in Nat /\ Len(more) = n
      /\ more[n] = r /\ \A i \in DOMAIN rows : more[i] = rows[i]
    OBVIOUS
<1>2. DOMAIN more = DOMAIN rows \union {n} /\ n \notin DOMAIN rows
    BY <1>1
<1> HIDE DEF more, n
<1>3. FpsOf(more) = FpsOf(rows) \union {r.fp}
  <2>1. FpsOf(more) \subseteq FpsOf(rows) \union {r.fp}
      BY <1>1, <1>2 DEF FpsOf
  <2>2. FpsOf(rows) \union {r.fp} \subseteq FpsOf(more)
      BY <1>1, <1>2 DEF FpsOf
  <2>3. QED
      BY <2>1, <2>2
<1>4. LatestIn(more, r.fp) = r
  <2>1. r.fp \in FpsOf(more)
      BY <1>3
  <2>2. /\ Max(PlacesIn(more, r.fp)) \in PlacesIn(more, r.fp)
        /\ \A y \in PlacesIn(more, r.fp) : Max(PlacesIn(more, r.fp)) >= y
      BY <1>1, <2>1, PlaceBounds, MaxOfNaturals
  <2>3. n \in PlacesIn(more, r.fp)
      BY <1>1, <1>2 DEF PlacesIn
  <2>4. Max(PlacesIn(more, r.fp)) \in 1..n
      BY <1>1, <2>2 DEF PlacesIn
  <2>5. Max(PlacesIn(more, r.fp)) = n
      BY <1>1, <2>2, <2>3, <2>4
  <2>6. QED
      BY <1>1, <2>5 DEF LatestIn
<1>5. ASSUME NEW g \in FpsOf(rows), g # r.fp
      PROVE  LatestIn(more, g) = LatestIn(rows, g)
  <2>1. PlacesIn(more, g) = PlacesIn(rows, g)
      BY <1>1, <1>2, <1>5 DEF PlacesIn
  <2>2. Max(PlacesIn(rows, g)) \in DOMAIN rows
      BY PlaceBounds, MaxOfNaturals, <1>1 DEF PlacesIn
  <2>3. QED
      BY <1>1, <2>1, <2>2 DEF LatestIn
<1>6. QED
  <2>1. more \in Seq(Row)
      BY <1>1
  <2>2. QED
      BY <2>1, <1>3, <1>4, <1>5 DEF more

\* The view of a fingerprint is its latest row with another repeat mark.
LEMMA ViewIsARow ==
    ASSUME NEW rows \in Seq(Row), NEW f \in FpsOf(rows)
    PROVE  /\ ViewIn(rows, f) \in Row /\ ViewIn(rows, f).fp = f
           /\ ViewIn(rows, f).at = LatestIn(rows, f).at
           /\ ViewIn(rows, f).pushed = LatestIn(rows, f).pushed
           /\ ViewIn(rows, f).dup = FoldedIn(rows, f)
<1>1. LatestIn(rows, f) \in Row /\ LatestIn(rows, f).fp = f
    BY LatestIsARow
<1>2. FoldedIn(rows, f) \in BOOLEAN
    BY <1>1 DEF FoldedIn, Row
<1> DEFINE r == LatestIn(rows, f)
<1> HIDE DEF r
<1>3. r \in Row /\ r.fp = f /\ ViewIn(rows, f) = [r EXCEPT !.dup = FoldedIn(rows, f)]
    BY <1>1 DEF r, ViewIn
<1>4. /\ ViewIn(rows, f) \in Row /\ ViewIn(rows, f).fp = f
      /\ ViewIn(rows, f).at = r.at
      /\ ViewIn(rows, f).pushed = r.pushed
      /\ ViewIn(rows, f).dup = FoldedIn(rows, f)
    BY <1>2, <1>3 DEF Row
<1>5. QED
    BY <1>4 DEF r

\* An announcement with an unmarked latest row is shown by one of its rows:
\* of the unmarked ones, the one that comes first in the file.
LEMMA UnmarkedIsShown ==
    ASSUME NEW rows \in Seq(Row), NEW g \in FpsOf(rows), ~LatestIn(rows, g).dup
    PROVE  \E o \in FpsOf(rows) : TitleOf[o] = TitleOf[g] /\ ~ViewIn(rows, o).dup
<1> DEFINE U == {o \in FpsOf(rows) : TitleOf[o] = TitleOf[g] /\ ~LatestIn(rows, o).dup}
           T == {FirstIn(rows, o) : o \in U}
<1>1. T \in SUBSET Nat /\ T # {}
    BY FirstIsAPlace
<1>2. Min(T) \in T /\ \A y \in T : Min(T) <= y
    BY <1>1, MinOfNaturals
<1>3. PICK o \in U : FirstIn(rows, o) = Min(T)
    BY <1>2
<1>4. \A p \in U : ~(FirstIn(rows, p) < FirstIn(rows, o))
  <2> TAKE p \in U
  <2>1. FirstIn(rows, p) \in T /\ FirstIn(rows, p) \in Nat /\ FirstIn(rows, o) \in Nat
      BY FirstIsAPlace
  <2> HIDE DEF T
  <2>2. QED
      BY <2>1, <1>2, <1>3
<1>5. ~FoldedIn(rows, o)
    BY <1>3, <1>4 DEF FoldedIn
<1>6. QED
    BY <1>3, <1>5, ViewIsARow

\* A log made of views shows, as the latest row of each, its view.
LEMMA LatestOfViews ==
    ASSUME NEW rows \in Seq(Row), NEW kept \in Seq(Row),
           \A i \in DOMAIN kept : kept[i] = ViewIn(rows, kept[i].fp),
           NEW f \in FpsOf(kept)
    PROVE  LatestIn(kept, f) = ViewIn(rows, f)
<1>1. LatestIn(kept, f).fp = f
    BY LatestIsARow
<1>2. Max(PlacesIn(kept, f)) \in DOMAIN kept
  <2>1. /\ PlacesIn(kept, f) \in SUBSET (0..Len(kept)) /\ PlacesIn(kept, f) # {}
        /\ Len(kept) \in Nat
      BY PlaceBounds
  <2>2. Max(PlacesIn(kept, f)) \in PlacesIn(kept, f)
      BY <2>1, MaxOfNaturals
  <2>3. QED
      BY <2>2 DEF PlacesIn
<1>3. QED
    BY <1>1, <1>2 DEF LatestIn

\* The readers' view of the log, by these names.
LEMMA ViewsOfTheLog ==
    /\ Kept = FpsOf(log)
    /\ \A f : First(f) = FirstIn(log, f) /\ Latest(f) = LatestIn(log, f)
    /\ \A f : View(f) = ViewIn(log, f)
BY DEF Kept, First, Latest, View

LEMMA ViewsOfTheNextLog ==
    /\ Kept' = FpsOf(log')
    /\ \A f : (First(f))' = FirstIn(log', f) /\ (Latest(f))' = LatestIn(log', f)
    /\ \A f : (View(f))' = ViewIn(log', f)
BY DEF Kept, First, Latest, View
-----------------------------------------------------------------------------
\* A log has finitely many fingerprints, no more than it has rows.
LEMMA FingerprintsAreFew ==
    ASSUME NEW rows \in Seq(Row)
    PROVE  IsFiniteSet(FpsOf(rows)) /\ Cardinality(FpsOf(rows)) <= Len(rows)
<1> DEFINE f == [i \in 1..Len(rows) |-> rows[i].fp]
<1>1. Len(rows) \in Nat /\ DOMAIN rows = 1..Len(rows)
    OBVIOUS
<1>2. f \in Surjection(1..Len(rows), FpsOf(rows))
    BY <1>1 DEF Surjection, FpsOf
<1>3. IsFiniteSet(1..Len(rows)) /\ Cardinality(1..Len(rows)) = Len(rows)
    BY <1>1, FS_Interval
<1>4. QED
    BY <1>2, <1>3, FS_Surjection

\* Any set of views is finite, and no larger than the rows are many.
LEMMA ViewsAreFew ==
    ASSUME NEW rows \in Seq(Row), NEW S \in SUBSET ViewsOf(rows)
    PROVE  /\ IsFiniteSet(S) /\ Cardinality(S) \in Nat /\ Cardinality(S) <= Len(rows)
           /\ S \subseteq Row
<1> DEFINE V == ViewsOf(rows)
           F == FpsOf(rows)
           v == [f \in F |-> ViewIn(rows, f)]
<1>1. v \in Surjection(F, V)
    BY DEF Surjection, ViewsOf
<1>2. /\ IsFiniteSet(F) /\ Cardinality(F) <= Len(rows)
      /\ Cardinality(F) \in Nat /\ Len(rows) \in Nat
    BY FingerprintsAreFew, FS_CardinalityType
<1>3. IsFiniteSet(V) /\ Cardinality(V) <= Cardinality(F) /\ Cardinality(V) \in Nat
    BY <1>1, <1>2, FS_Surjection, FS_CardinalityType
<1>4. IsFiniteSet(S) /\ Cardinality(S) <= Cardinality(V) /\ Cardinality(S) \in Nat
    BY <1>3, FS_Subset, FS_CardinalityType
<1>5. V \subseteq Row
    BY ViewIsARow DEF ViewsOf
<1>6. QED
    BY <1>2, <1>3, <1>4, <1>5

\* NewestFirst lists a set of views: each of them, and nothing else.
LEMMA NewestFirstLists ==
    ASSUME NEW rows \in Seq(Row), NEW S \in SUBSET ViewsOf(rows)
    PROVE  LET list == NewestFirst(rows, S) IN
           /\ list \in Seq(Row) /\ Len(list) <= Len(rows)
           /\ {list[i] : i \in DOMAIN list} = S
<1> DEFINE after == [x \in S |-> {y \in S : Before(rows, x, y)}]
           n == Cardinality(S)
           list == NewestFirst(rows, S)
<1>1. IsFiniteSet(S) /\ n \in Nat /\ n <= Len(rows) /\ S \subseteq Row
    BY ViewsAreFew
<1>2. \A x, y \in S : y \in after[x] <=> Before(rows, x, y)
    OBVIOUS
<1>3. \A x \in S : /\ x.at \in Nat /\ FirstIn(rows, x.fp) \in Nat
                     /\ x = ViewIn(rows, x.fp)
                     /\ rows[FirstIn(rows, x.fp)].fp = x.fp
  <2> TAKE x \in S
  <2>1. PICK f \in FpsOf(rows) : x = ViewIn(rows, f)
      BY DEF ViewsOf
  <2>2. x.fp = f
      BY <2>1, ViewIsARow
  <2>3. FirstIn(rows, f) \in Nat /\ rows[FirstIn(rows, f)].fp = f
      BY <2>1, FirstIsAPlace
  <2>4. x.at \in Nat
      BY <1>1, StoreAssumption DEF Row
  <2>5. QED
      BY <2>1, <2>2, <2>3, <2>4
<1>4. \A x, y \in S : FirstIn(rows, x.fp) = FirstIn(rows, y.fp) => x = y
    BY <1>3
<1>5. \A x \in S : ~Before(rows, x, x)
    BY <1>3 DEF Before
<1>6. \A x, y, z \in S : Before(rows, x, y) /\ Before(rows, y, z) => Before(rows, x, z)
    BY <1>3 DEF Before
<1>7. \A x, y \in S : x = y \/ Before(rows, x, y) \/ Before(rows, y, x)
    BY <1>3, <1>4 DEF Before
<1> HIDE DEF after
<1>8. \E s \in [1..Cardinality(S) -> S] : \A i, j \in DOMAIN s : i < j => s[j] \in after[s[i]]
  <2>1. \A x \in S : x \notin after[x]
      BY <1>2, <1>5
  <2>2. \A x, y, z \in S : y \in after[x] /\ z \in after[y] => z \in after[x]
      BY <1>2, <1>6
  <2>3. \A x, y \in S : x = y \/ y \in after[x] \/ x \in after[y]
      BY <1>2, <1>7
  <2>4. IsFiniteSet(S)
      BY <1>1
  <2>5. QED
      BY <2>1, <2>2, <2>3, <2>4, SortedListing
<1>9. \E s \in [1..n -> S] : \A i, j \in DOMAIN s : i < j => Before(rows, s[i], s[j])
    BY <1>2, <1>8
<1>10. /\ list \in [1..n -> S]
       /\ \A i, j \in DOMAIN list : i < j => Before(rows, list[i], list[j])
    BY <1>9 DEF NewestFirst
<1> HIDE DEF list
<1>11. list \in Injection(1..n, S)
  <2>1. \A i, j \in 1..n : i # j => list[i] # list[j]
    <3> SUFFICES ASSUME NEW i \in 1..n, NEW j \in 1..n, i # j, list[i] = list[j] PROVE FALSE
        OBVIOUS
    <3>1. i < j \/ j < i
        BY <1>1
    <3>2. list[i] \in S /\ list[j] \in S
        BY <1>10
    <3>3. QED
        BY <3>1, <3>2, <1>5, <1>10
  <2>2. QED
      BY <1>10, <2>1 DEF Injection, IsInjective
<1>12. list \in Surjection(1..n, S)
  <2>1. IsFiniteSet(1..n) /\ Cardinality(1..n) = n
      BY <1>1, FS_Interval
  <2>2. QED
      BY <1>1, <1>11, <2>1, FS_Injection
<1>13. DOMAIN list = 1..n /\ {list[i] : i \in DOMAIN list} = S
    BY <1>10, <1>12 DEF Surjection
<1>14. list \in Seq(Row) /\ Len(list) = n
    BY <1>1, <1>10
<1>15. QED
    BY <1>1, <1>13, <1>14 DEF list
-----------------------------------------------------------------------------
(***************************************************************************)
(* A read that may have ended early.                                       *)
(***************************************************************************)
\* What a reader is given are the first rows of the log.
LEMMA PrefixOfTheLog ==
    ASSUME log \in Seq(Row), NEW read \in Prefixes(log)
    PROVE  /\ read \in Seq(Row) /\ Len(read) \in Nat /\ Len(read) <= Len(log)
           /\ DOMAIN read \subseteq DOMAIN log
           /\ \A i \in DOMAIN read : read[i] = log[i]
           /\ FpsOf(read) \subseteq Kept
           /\ \A i \in DOMAIN log : i \in DOMAIN read \/ log[i].fp \in MissedBy(read)
           /\ MissedBy(read) \subseteq Kept
<1>1. PICK n \in 0..Len(log) : read = SubSeq(log, 1, n)
    BY DEF Prefixes
<1>2. Len(log) \in Nat /\ n \in Nat /\ n <= Len(log) /\ DOMAIN log = 1..Len(log)
    BY <1>1
<1>3. /\ read \in Seq(Row) /\ Len(read) = n /\ DOMAIN read = 1..n
      /\ \A i \in 1..n : read[i] = log[i]
    BY <1>1, <1>2
<1> HIDE DEF Prefixes
<1>4. DOMAIN read \subseteq DOMAIN log
    BY <1>2, <1>3
<1>5. FpsOf(read) \subseteq Kept
    BY <1>3, <1>4 DEF FpsOf, Kept
<1>6. ASSUME NEW i \in DOMAIN log, i \notin DOMAIN read
      PROVE  log[i].fp \in MissedBy(read)
  <2>1. i \in (n + 1)..Len(log)
      BY <1>2, <1>3, <1>6
  <2>2. QED
      BY <1>3, <2>1 DEF MissedBy
<1>7. MissedBy(read) \subseteq Kept
  <2>1. \A i \in (n + 1)..Len(log) : i \in DOMAIN log
      BY <1>2
  <2>2. QED
      BY <1>3, <2>1 DEF MissedBy, Kept, FpsOf
<1>8. QED
    BY <1>2, <1>3, <1>4, <1>5, <1>6, <1>7

\* The latest row a reader is given of a fingerprint is a row of the log.
LEMMA ReadRowIsInTheLog ==
    ASSUME log \in Seq(Row), NEW read \in Prefixes(log), NEW f \in FpsOf(read)
    PROVE  \E i \in DOMAIN log : log[i] = LatestIn(read, f) /\ log[i].fp = f
<1>1. /\ read \in Seq(Row) /\ DOMAIN read \subseteq DOMAIN log
      /\ \A i \in DOMAIN read : read[i] = log[i]
    BY PrefixOfTheLog
<1>2. LatestIn(read, f).fp = f /\ Max(PlacesIn(read, f)) \in DOMAIN read
    BY <1>1, LatestIsARow
<1>3. QED
    BY <1>1, <1>2 DEF LatestIn

\* A fingerprint the read reached in full is read as the log has it.
LEMMA ReadInFull ==
    ASSUME log \in Seq(Row), NEW read \in Prefixes(log),
           NEW f \in Kept, f \notin MissedBy(read)
    PROVE  /\ f \in FpsOf(read) /\ FirstIn(read, f) = First(f)
           /\ LatestIn(read, f) = Latest(f)
<1>1. /\ read \in Seq(Row) /\ DOMAIN read \subseteq DOMAIN log
      /\ \A i \in DOMAIN read : read[i] = log[i]
      /\ \A i \in DOMAIN log : i \in DOMAIN read \/ log[i].fp \in MissedBy(read)
    BY PrefixOfTheLog
<1>2. \A i \in DOMAIN log : log[i].fp = f => i \in DOMAIN read /\ read[i].fp = f
    BY <1>1
<1>3. PlacesIn(read, f) = PlacesIn(log, f)
    BY <1>1, <1>2 DEF PlacesIn
<1>4. f \in FpsOf(read)
    BY <1>2 DEF FpsOf, Kept
<1>5. Max(PlacesIn(read, f)) \in DOMAIN read
    BY <1>1, <1>4, LatestIsARow
<1>6. LatestIn(read, f) = LatestIn(log, f)
    BY <1>1, <1>3, <1>5 DEF LatestIn
<1>7. QED
    BY <1>3, <1>4, <1>6 DEF FirstIn, First, Latest

\* An announcement the read reached in full is shown as the log shows it.
LEMMA ReadFoldsAlike ==
    ASSUME log \in Seq(Row), NEW read \in Prefixes(log), NEW f \in FpsOf(read),
           \A g \in MissedBy(read) : TitleOf[g] # TitleOf[f]
    PROVE  ViewIn(read, f) = View(f)
<1>1. f \in Kept /\ FpsOf(read) \subseteq Kept
    BY PrefixOfTheLog
<1>2. \A g \in Kept : TitleOf[g] = TitleOf[f] =>
          /\ g \in FpsOf(read) /\ FirstIn(read, g) = FirstIn(log, g)
          /\ LatestIn(read, g) = LatestIn(log, g)
    BY ReadInFull DEF First, Latest
<1>3. FoldedIn(read, f) <=> FoldedIn(log, f)
    BY <1>1, <1>2 DEF FoldedIn, Kept
<1>4. FoldedIn(read, f) = FoldedIn(log, f)
  <2>1. FoldedIn(read, f) \in BOOLEAN /\ FoldedIn(log, f) \in BOOLEAN
    <3>1. LatestIn(read, f) \in Row /\ LatestIn(log, f) \in Row
        BY <1>1, PrefixOfTheLog, LatestIsARow DEF Kept
    <3>2. LatestIn(read, f).dup \in BOOLEAN /\ LatestIn(log, f).dup \in BOOLEAN
        BY <3>1 DEF Row
    <3>3. QED
        BY <3>2 DEF FoldedIn
  <2>2. QED
      BY <1>3, <2>1
<1>5. QED
    BY <1>1, <1>2, <1>4 DEF ViewIn, View
-----------------------------------------------------------------------------
(***************************************************************************)
(* The inductive invariant of one process on an undamaged file.            *)
(***************************************************************************)
\* One process has the directory open, and a write lands whole or not at all.
Orderly == (\A g, h \in Handles : g = h) /\ ~Tears

\* The file ends with a full line and the descriptor is not of a replaced one.
FileInv == tail = "line" /\ \A h \in Handles : fd[h] # "stale"

\* Who owns a title is in the file, or the title has been parted from a row.
TitlesInv ==
    \A h \in Handles : \A f \in owners[h] : f \in Kept \/ TitleOf[f] \in parted

\* A pushed mark, in the file or in memory, is of a finding that was delivered.
GivenInv == PushedRows \subseteq given /\ \A h \in Handles : high[h] \subseteq given

\* The rows of a fingerprint agree on the instant of its discovery.
InstantsAgree(rows) == \A i \in DOMAIN rows : rows[i].at = LatestIn(rows, rows[i].fp).at
InstantsInv == InstantsAgree(log)

\* What a read missed belongs to announcements counted as parted.
MissedInv == \A h \in Handles : \A f \in missed[h] : TitleOf[f] \in parted

\* A row read earlier is of a fingerprint in the file, with its instant.  It
\* has the mark readers see unless the read missed a row of it, the repeat mark
\* unless its announcement is parted, and a mark it does have is in the file.
ReadRow(h, r) ==
    /\ r.fp \in Kept /\ r.at = View(r.fp).at
    /\ r.fp \in missed[h] \/ r.pushed = View(r.fp).pushed
    /\ r.pushed => r.fp \in PushedRows
    /\ TitleOf[r.fp] \in parted \/ r = View(r.fp)

\* A row read to be saved again is such a row.
HeldInv == \A h \in Handles : held[h] # None => ReadRow(h, held[h])

\* So are the rows Compact decided to keep, and the others have expired or were
\* missed.
PlanInv ==
    \A h \in Handles : plan[h] # None =>
        /\ held[h] = None /\ fd[h] # "down"
        /\ \A i \in DOMAIN plan[h] : ReadRow(h, plan[h][i])
        /\ \A f \in Kept \ FpsOf(plan[h]) : Expired(h, View(f)) \/ f \in missed[h]

\* An announcement in the file has a latest row that is not a repeat, or has
\* been parted from a row.
OriginalsInv ==
    \A f \in Kept : \/ TitleOf[f] \in parted
                    \/ \E g \in Kept : TitleOf[g] = TitleOf[f] /\ ~Latest(g).dup

StoreInv == /\ FileInv /\ RestartAgrees /\ TitlesInv /\ GivenInv
            /\ InstantsInv /\ MissedInv /\ HeldInv /\ PlanInv /\ OriginalsInv

\* What Compact read fits in the file it will replace.
PlanFits == \A h \in Handles : plan[h] # None => Len(plan[h]) <= MaxRows
-----------------------------------------------------------------------------
(***************************************************************************)
(* Type correctness, with any number of processes and torn writes.         *)
(***************************************************************************)
\* What a write leaves is a log, whatever the file ended with.
LEMMA LandedIsALog ==
    ASSUME TypeOK, NEW r \in Row
    PROVE  Landed(r) \in Seq(Row)
<1>1. log \in Seq(Row) /\ tail \in {"line", "part", "row"}
    BY DEF TypeOK
<1>2. Append(log, r) \in Seq(Row)
    BY <1>1
<1>3. Front(log) \in Seq(Row)
    BY <1>1 DEF Front
<1>4. CASE tail = "line"
    BY <1>2, <1>4 DEF Landed
<1>5. CASE tail = "part"
    BY <1>1, <1>5 DEF Landed
<1>6. CASE tail = "row"
    BY <1>3, <1>6 DEF Landed
<1>7. QED
    BY <1>1, <1>4, <1>5, <1>6

FileTypes ==
    /\ log \in Seq(Row) /\ Len(log) <= MaxRows
    /\ tail \in {"line", "part", "row"}
    /\ faults \in 0..MaxFaults

IndexTypes ==
    /\ seen \in [Handles -> SUBSET Fps] /\ high \in [Handles -> SUBSET Fps]
    /\ owners \in [Handles -> SUBSET Fps]
    /\ \A h \in Handles : \A f, g \in owners[h] : TitleOf[f] = TitleOf[g] => f = g

LEMMA FaultTypes ==
    ASSUME TypeOK, Fault
    PROVE  faults' \in 0..MaxFaults
<1>1. /\ faults \in Nat /\ misreads \in Nat /\ MaxFaults \in Nat
      /\ faults + misreads < MaxFaults /\ faults' = faults + 1
    BY StoreAssumption DEF TypeOK, Fault
<1>2. QED
    BY <1>1

LEMMA WriteTypes ==
    ASSUME TypeOK, NEW h \in Handles, NEW r \in Row, Written(h, r) \/ Refused(h, r)
    PROVE  FileTypes'
<1>1. FileTypes
    BY DEF TypeOK, FileTypes
<1>2. CASE Written(h, r)
  <2>1. Landed(r) \in Seq(Row)
      BY LandedIsALog
  <2>2. QED
      BY <1>1, <1>2, <2>1 DEF FileTypes, Written
<1>3. CASE Refused(h, r)
  <2>1. Append(log, r) \in Seq(Row)
      BY <1>1 DEF FileTypes
  <2>2. faults' \in 0..MaxFaults
      BY <1>1, <1>3, FaultTypes DEF FileTypes, Refused
  <2>3. QED
      BY <1>1, <1>3, <2>1, <2>2 DEF FileTypes, Refused
<1>4. QED
    BY <1>2, <1>3

LEMMA RememberTypes ==
    ASSUME IndexTypes, NEW h \in Handles, NEW r \in Row, Remember(h, r)
    PROVE  IndexTypes'
<1>1. r.fp \in Fps
    BY DEF Row
<1>2. seen' \in [Handles -> SUBSET Fps] /\ high' \in [Handles -> SUBSET Fps]
    BY <1>1 DEF Remember, IndexTypes
<1>3. owners' \in [Handles -> SUBSET Fps]
    BY <1>1 DEF Remember, IndexTypes
<1>4. ASSUME NEW k \in Handles, NEW f \in owners'[k], NEW g \in owners'[k],
             TitleOf[f] = TitleOf[g]
      PROVE  f = g
  <2>1. CASE k # h \/ TitleClash(h, r.fp)
    <3>1. owners'[k] = owners[k]
        BY <2>1 DEF Remember, IndexTypes
    <3>2. QED
        BY <3>1, <1>4 DEF IndexTypes
  <2>2. CASE k = h /\ ~TitleClash(h, r.fp)
    <3>1. owners'[h] = owners[h] \union {r.fp}
        BY <2>2 DEF Remember, IndexTypes
    <3>2. \A e \in owners[h] : e = r.fp \/ TitleOf[e] # TitleOf[r.fp]
        BY <2>2 DEF TitleClash
    <3>3. QED
        BY <2>2, <3>1, <3>2, <1>4 DEF IndexTypes
  <2>3. QED
      BY <2>1, <2>2
<1>5. QED
    BY <1>2, <1>3, <1>4 DEF IndexTypes

LEMMA SaveTypes ==
    ASSUME TypeOK, NEW h \in Handles, NEW r \in Row, Save(h, r)
    PROVE  /\ FileTypes' /\ IndexTypes' /\ acked' \in SUBSET Fps
           /\ UNCHANGED <<now, fd, plan, given, parted, lost, misreads>>
<1>1. r.fp \in Fps
    BY DEF Row
<1>2. FileTypes'
    BY WriteTypes DEF Save
<1>3. IndexTypes
    BY DEF TypeOK, IndexTypes
<1>4. IndexTypes'
  <2>1. CASE Remember(h, r)
      BY <1>3, <2>1, RememberTypes
  <2>2. CASE UNCHANGED <<seen, high, owners>>
      BY <1>3, <2>2 DEF IndexTypes
  <2>3. QED
      BY <2>1, <2>2 DEF Save
<1>5. acked' \in SUBSET Fps
    BY <1>1 DEF Save, TypeOK
<1>6. QED
    BY <1>2, <1>4, <1>5 DEF Save

\* The rest of the state, apart from what the file and the indexes hold.
ProcessTypes ==
    /\ fd \in [Handles -> {"down", "path", "stale", "closed"}]
    /\ held \in [Handles -> Row \union {None}]
    /\ plan \in [Handles -> Seq(Row) \union {None}]
    /\ missed \in [Handles -> SUBSET Fps]

OtherTypes ==
    /\ now \in 0..MaxTime
    /\ given \in SUBSET Fps /\ acked \in SUBSET Fps /\ parted \in SUBSET Fps
    /\ lost \in SUBSET Fps /\ misreads \in 0..MaxFaults

LEMMA TypesOfParts == TypeOK <=> FileTypes /\ IndexTypes /\ ProcessTypes /\ OtherTypes
BY DEF TypeOK, FileTypes, IndexTypes, ProcessTypes, OtherTypes

LEMMA TypesOfPartsNext ==
    FileTypes' /\ IndexTypes' /\ ProcessTypes' /\ OtherTypes' => TypeOK'
BY DEF TypeOK, FileTypes, IndexTypes, ProcessTypes, OtherTypes

\* What a reader is shown of a fingerprint in the file is a row of it.
LEMMA ViewTypes ==
    ASSUME TypeOK, NEW f \in Kept
    PROVE  View(f) \in Row /\ f \in Fps /\ View(f).fp = f
<1>1. log \in Seq(Row) /\ f \in FpsOf(log) /\ View(f) = ViewIn(log, f)
    BY ViewsOfTheLog DEF TypeOK
<1>2. View(f) \in Row /\ View(f).fp = f
    BY <1>1, ViewIsARow
<1>3. QED
    BY <1>2 DEF Row

LEMMA FingerprintTypes ==
    ASSUME NEW rows \in Seq(Row)
    PROVE  FpsOf(rows) \in SUBSET Fps
<1>1. \A i \in DOMAIN rows : rows[i] \in Row
    OBVIOUS
<1>2. \A i \in DOMAIN rows : rows[i].fp \in Fps
    BY <1>1 DEF Row
<1>3. QED
    BY <1>2 DEF FpsOf

LEMMA KeptTypes ==
    ASSUME TypeOK
    PROVE  Kept \in SUBSET Fps /\ PushedRows \in SUBSET Fps
<1>1. Kept \in SUBSET Fps
    BY FingerprintTypes DEF TypeOK, Kept
<1>2. QED
    BY <1>1 DEF Kept, FpsOf, PushedRows

\* What a read is given and what it misses are fingerprints of the log.
LEMMA ReadTypes ==
    ASSUME TypeOK, NEW read \in Prefixes(log), Reads(read)
    PROVE  /\ read \in Seq(Row) /\ Len(read) \in Nat /\ Len(read) <= MaxRows
           /\ FpsOf(read) \subseteq Kept
           /\ \A f \in FpsOf(read) : ViewIn(read, f) \in Row /\ ViewIn(read, f).fp = f
           /\ MissedBy(read) \in SUBSET Fps
           /\ parted' \in SUBSET Fps /\ parted \subseteq parted'
           /\ \A f \in MissedBy(read) : TitleOf[f] \in parted'
           /\ misreads' \in 0..MaxFaults
<1>1. /\ read \in Seq(Row) /\ Len(read) \in Nat /\ Len(read) <= Len(log)
      /\ FpsOf(read) \subseteq Kept /\ MissedBy(read) \subseteq Kept
    BY PrefixOfTheLog DEF TypeOK
<1>2. Len(read) <= MaxRows
  <2>1. Len(log) \in Nat /\ MaxRows \in Nat /\ Len(log) <= MaxRows
      BY StoreAssumption DEF TypeOK
  <2>2. QED
      BY <1>1, <2>1
<1>3. \A f \in FpsOf(read) : ViewIn(read, f) \in Row /\ ViewIn(read, f).fp = f
    BY <1>1, ViewIsARow
<1>4. MissedBy(read) \in SUBSET Fps
    BY <1>1, KeptTypes
<1>5. parted' = parted \union {TitleOf[f] : f \in MissedBy(read)}
    BY DEF Reads
<1>6. parted' \in SUBSET Fps
    BY <1>4, <1>5, StoreAssumption DEF TypeOK
<1>7. misreads' \in 0..MaxFaults
  <2>1. /\ faults \in Nat /\ misreads \in 0..MaxFaults /\ MaxFaults \in Nat
        /\ \/ misreads' = misreads
           \/ faults + misreads < MaxFaults /\ misreads' = misreads + 1
      BY StoreAssumption DEF TypeOK, Reads
  <2>2. QED
      BY <2>1
<1>8. QED
    BY <1>1, <1>2, <1>3, <1>4, <1>5, <1>6, <1>7

\* loadLog gives a title one owner: the fingerprint whose row comes first.
LEMMA FirstOfTitleIsUnique ==
    ASSUME TypeOK, NEW f \in FirstOfTitle, NEW g \in FirstOfTitle, TitleOf[f] = TitleOf[g]
    PROVE  f = g
<1>1. f \in Kept /\ g \in Kept /\ First(f) <= First(g) /\ First(g) <= First(f)
    BY DEF FirstOfTitle
<1>2. \A e \in Kept : First(e) \in Nat /\ log[First(e)].fp = e
    BY ViewsOfTheLog, FirstIsAPlace DEF TypeOK
<1>3. First(f) = First(g)
    BY <1>1, <1>2
<1>4. QED
    BY <1>1, <1>2, <1>3

LEMMA TypesStep ==
    ASSUME TypeOK, PlanFits, [Next]_vars
    PROVE  TypeOK' /\ PlanFits'
<1>1. FileTypes /\ IndexTypes /\ ProcessTypes /\ OtherTypes
    BY TypesOfParts
<1>2. ASSUME UNCHANGED plan PROVE PlanFits'
    BY <1>2 DEF PlanFits
<1>3. CASE Tick
  <2>1. FileTypes' /\ IndexTypes' /\ ProcessTypes'
      BY <1>1, <1>3 DEF Tick, handles, history, FileTypes, IndexTypes, ProcessTypes
  <2>2. OtherTypes'
      BY <1>1, <1>3, StoreAssumption DEF Tick, handles, history, OtherTypes
  <2>3. QED
      BY <2>1, <2>2, <1>2, <1>3, TypesOfPartsNext DEF Tick, handles
<1>4. ASSUME NEW h \in Handles, Open(h) PROVE TypeOK' /\ PlanFits'
  <2>1. FileTypes' /\ OtherTypes'
      BY <1>1, <1>4 DEF Open, history, FileTypes, OtherTypes
  <2>2. ProcessTypes'
      BY <1>1, <1>4 DEF Open, history, ProcessTypes
  <2>3. FirstOfTitle \in SUBSET Fps
      BY KeptTypes DEF FirstOfTitle
  <2>4. \A k \in Handles : \/ owners'[k] = FirstOfTitle
                            \/ owners'[k] = owners[k]
      BY <1>1, <1>4 DEF Open, IndexTypes
  <2>5. \A k \in Handles : \A f, g \in owners'[k] : TitleOf[f] = TitleOf[g] => f = g
      BY <1>1, <2>4, FirstOfTitleIsUnique DEF IndexTypes
  <2>6. IndexTypes'
      BY <1>1, <1>4, <2>3, <2>5, KeptTypes DEF Open, IndexTypes
  <2>7. QED
      BY <2>1, <2>2, <2>6, <1>2, <1>4, TypesOfPartsNext DEF Open
<1>5. ASSUME NEW h \in Handles, Stop(h) PROVE TypeOK' /\ PlanFits'
  <2>1. FileTypes' /\ OtherTypes'
      BY <1>1, <1>5 DEF Stop, FileTypes, OtherTypes
  <2>2. ProcessTypes'
      BY <1>1, <1>5 DEF Stop, ProcessTypes
  <2>3. IndexTypes'
      BY <1>1, <1>5 DEF Stop, IndexTypes
  <2>4. PlanFits'
      BY <1>1, <1>5 DEF Stop, PlanFits, ProcessTypes
  <2>5. QED
      BY <2>1, <2>2, <2>3, <2>4, TypesOfPartsNext
<1>6. ASSUME NEW h \in Handles, SaveHeld(h) PROVE TypeOK' /\ PlanFits'
  <2>1. held[h] \in Row
      BY <1>1, <1>6 DEF SaveHeld, ProcessTypes
  <2>2. /\ FileTypes' /\ IndexTypes' /\ acked' \in SUBSET Fps
        /\ UNCHANGED <<now, fd, plan, given, parted, lost, misreads>>
      BY <1>6, <2>1, SaveTypes DEF SaveHeld
  <2>3. ProcessTypes' /\ OtherTypes'
      BY <1>1, <1>6, <2>2 DEF SaveHeld, ProcessTypes, OtherTypes
  <2>4. QED
      BY <2>2, <2>3, <1>2, TypesOfPartsNext
<1>7. ASSUME NEW h \in Handles, CompactRead(h) PROVE TypeOK' /\ PlanFits'
  <2>1. PICK read \in Prefixes(log) :
          /\ Reads(read)
          /\ plan' = [plan EXCEPT ![h] =
                        NewestFirst(read, {r \in ViewsOf(read) : ~Expired(h, r)})]
          /\ missed' = [missed EXCEPT ![h] = MissedBy(read)]
      BY <1>7 DEF CompactRead
  <2> DEFINE S == {r \in ViewsOf(read) : ~Expired(h, r)}
  <2>2. FileTypes' /\ IndexTypes'
      BY <1>1, <1>7 DEF CompactRead, FileTypes, IndexTypes
  <2>3. read \in Seq(Row) /\ Len(read) \in Nat /\ Len(read) <= MaxRows
      BY <2>1, ReadTypes
  <2>4. NewestFirst(read, S) \in Seq(Row) /\ Len(NewestFirst(read, S)) <= Len(read)
      BY <2>3, NewestFirstLists
  <2>5. plan' = [plan EXCEPT ![h] = NewestFirst(read, S)] /\ UNCHANGED <<fd, held>>
      BY <1>7, <2>1 DEF CompactRead
  <2> HIDE DEF S
  <2>6. ProcessTypes'
      BY <1>1, <2>1, <2>4, <2>5, ReadTypes DEF ProcessTypes
  <2>7. OtherTypes'
      BY <1>1, <1>7, <2>1, ReadTypes DEF CompactRead, OtherTypes
  <2>8. Len(NewestFirst(read, S)) <= MaxRows
    <3>1. Len(NewestFirst(read, S)) \in Nat /\ MaxRows \in Nat
        BY <2>4, StoreAssumption
    <3>2. QED
        BY <2>3, <2>4, <3>1
  <2>9. PlanFits'
      BY <1>1, <2>5, <2>8 DEF PlanFits, ProcessTypes
  <2>10. QED
      BY <2>2, <2>6, <2>7, <2>9, TypesOfPartsNext
<1>8. ASSUME NEW h \in Handles, CompactFails(h) PROVE TypeOK' /\ PlanFits'
  <2>1. FileTypes'
      BY <1>1, <1>8, FaultTypes DEF CompactFails, FileTypes
  <2>2. IndexTypes' /\ OtherTypes'
      BY <1>1, <1>8 DEF CompactFails, IndexTypes, OtherTypes
  <2>3. ProcessTypes'
      BY <1>1, <1>8 DEF CompactFails, ProcessTypes
  <2>4. PlanFits'
      BY <1>1, <1>8 DEF CompactFails, PlanFits, ProcessTypes
  <2>5. QED
      BY <2>1, <2>2, <2>3, <2>4, TypesOfPartsNext
<1>9. ASSUME NEW h \in Handles, CompactSwap(h) PROVE TypeOK' /\ PlanFits'
  <2>1. plan[h] \in Seq(Row) /\ Len(plan[h]) <= MaxRows
      BY <1>1, <1>9 DEF CompactSwap, ProcessTypes, PlanFits
  <2>2. faults' \in 0..MaxFaults
      BY <1>1, <1>9, FaultTypes DEF CompactSwap, FileTypes
  <2>3. FileTypes'
      BY <1>9, <2>1, <2>2 DEF CompactSwap, FileTypes
  <2>4. FpsOf(plan[h]) \in SUBSET Fps
      BY <2>1, FingerprintTypes
  <2>5. IndexTypes'
      BY <1>1, <1>9, <2>4 DEF CompactSwap, IndexTypes
  <2>6. fd' \in [Handles -> {"down", "path", "stale", "closed"}]
    <3>1. PICK reopened \in BOOLEAN :
            fd' = [g \in Handles |->
                     CASE g = h -> IF reopened THEN "path" ELSE "closed"
                       [] g # h /\ fd[g] = "path" -> "stale"
                       [] OTHER -> fd[g]]
        BY <1>9 DEF CompactSwap
    <3>2. QED
        BY <1>1, <3>1 DEF ProcessTypes
  <2>7. ProcessTypes'
      BY <1>1, <1>9, <2>6 DEF CompactSwap, ProcessTypes
  <2>8. acked' \in SUBSET Fps /\ parted' \in SUBSET Fps /\ lost' \in SUBSET Fps
      BY <1>1, <1>9, KeptTypes, StoreAssumption DEF CompactSwap, OtherTypes, ProcessTypes
  <2>9. OtherTypes'
      BY <1>1, <1>9, <2>8 DEF CompactSwap, OtherTypes
  <2>10. PlanFits'
      BY <1>1, <1>9 DEF CompactSwap, PlanFits, ProcessTypes
  <2>11. QED
      BY <2>3, <2>5, <2>7, <2>9, <2>10, TypesOfPartsNext
<1>10. ASSUME NEW h \in Handles, NEW f \in Fps, Discover(h, f) PROVE TypeOK' /\ PlanFits'
  <2> DEFINE r == [fp |-> f, at |-> now, dup |-> TitleClash(h, f), pushed |-> FALSE]
  <2>1. r \in Row
      BY <1>1 DEF Row, OtherTypes, TitleClash
  <2>2. Save(h, r) /\ UNCHANGED <<held, missed>>
      BY <1>10 DEF Discover
  <2> HIDE DEF r
  <2>3. /\ FileTypes' /\ IndexTypes' /\ acked' \in SUBSET Fps
        /\ UNCHANGED <<now, fd, plan, given, parted, lost, misreads>>
      BY <2>1, <2>2, SaveTypes
  <2>4. ProcessTypes' /\ OtherTypes'
      BY <1>1, <2>2, <2>3 DEF ProcessTypes, OtherTypes
  <2>5. QED
      BY <2>3, <2>4, <1>2, TypesOfPartsNext
<1>11. ASSUME NEW h \in Handles, NEW f \in Fps, Hold(h, f) PROVE TypeOK' /\ PlanFits'
  <2>1. PICK read \in Prefixes(log) :
          /\ Reads(read) /\ f \in FpsOf(read)
          /\ held' = [held EXCEPT ![h] = ViewIn(read, f)]
          /\ missed' = [missed EXCEPT ![h] = MissedBy(read)]
      BY <1>11 DEF Hold
  <2>2. FileTypes' /\ IndexTypes'
      BY <1>1, <1>11 DEF Hold, FileTypes, IndexTypes
  <2>3. ViewIn(read, f) \in Row /\ MissedBy(read) \in SUBSET Fps
      BY <2>1, ReadTypes
  <2>4. ProcessTypes'
      BY <1>1, <1>11, <2>1, <2>3 DEF Hold, ProcessTypes
  <2>5. OtherTypes'
      BY <1>1, <1>11, <2>1, ReadTypes DEF Hold, OtherTypes
  <2>6. QED
      BY <2>2, <2>4, <2>5, <1>2, <1>11, TypesOfPartsNext DEF Hold
<1>12. ASSUME NEW h \in Handles, NEW f \in Fps, MarkPushed(h, f) PROVE TypeOK' /\ PlanFits'
  <2>1. PICK read \in Prefixes(log) :
          /\ Reads(read)
          /\ IF f \in FpsOf(read)
             THEN LET r == [ViewIn(read, f) EXCEPT !.pushed = TRUE] IN
                  Written(h, r) \/ Refused(h, r)
             ELSE UNCHANGED <<log, tail, faults>>
      BY <1>12 DEF MarkPushed
  <2>2. FileTypes'
    <3>1. CASE f \in FpsOf(read)
      <4> DEFINE r == [ViewIn(read, f) EXCEPT !.pushed = TRUE]
      <4>1. r \in Row
        <5>1. ViewIn(read, f) \in Row
            BY <1>1, <2>1, <3>1, ReadTypes
        <5>2. QED
            BY <5>1 DEF Row
      <4>2. Written(h, r) \/ Refused(h, r)
          BY <2>1, <3>1
      <4> HIDE DEF r
      <4>3. QED
          BY <1>1, <4>1, <4>2, WriteTypes
    <3>2. CASE f \notin FpsOf(read)
        BY <1>1, <2>1, <3>2 DEF FileTypes
    <3>3. QED
        BY <3>1, <3>2
  <2>3. IndexTypes'
      BY <1>1, <1>12 DEF MarkPushed, IndexTypes
  <2>4. ProcessTypes'
      BY <1>1, <1>12 DEF MarkPushed, ProcessTypes
  <2>5. OtherTypes'
      BY <1>1, <1>12, <2>1, ReadTypes DEF MarkPushed, OtherTypes
  <2>6. QED
      BY <2>2, <2>3, <2>4, <2>5, <1>2, <1>12, TypesOfPartsNext DEF MarkPushed
<1>13. CASE UNCHANGED vars
  <2>1. FileTypes' /\ IndexTypes' /\ ProcessTypes' /\ OtherTypes'
      BY <1>1, <1>13 DEF vars, handles, history, FileTypes, IndexTypes, ProcessTypes, OtherTypes
  <2>2. QED
      BY <2>1, <1>2, <1>13, TypesOfPartsNext DEF vars, handles
<1>14. QED
    BY <1>3, <1>4, <1>5, <1>6, <1>7, <1>8, <1>9, <1>10, <1>11, <1>12, <1>13 DEF Next

\* Every variable stays in its range, and no process has two owners for one
\* title, whatever processes run and however writes fail.
THEOREM TypeCorrect == Spec => []TypeOK
<1>1. Init => TypeOK /\ PlanFits
  <2> SUFFICES ASSUME Init PROVE TypeOK /\ PlanFits
      OBVIOUS
  <2>1. FileTypes /\ OtherTypes
      BY StoreAssumption DEF Init, FileTypes, OtherTypes
  <2>2. IndexTypes /\ ProcessTypes
      BY DEF Init, IndexTypes, ProcessTypes
  <2>3. PlanFits
      BY DEF Init, PlanFits
  <2>4. QED
      BY <2>1, <2>2, <2>3, TypesOfParts
<1>2. TypeOK /\ PlanFits /\ [Next]_vars => (TypeOK /\ PlanFits)'
    BY TypesStep
<1>3. QED
    BY <1>1, <1>2, PTL DEF Spec
-----------------------------------------------------------------------------
(***************************************************************************)
(* One process on an undamaged file: StoreInv is inductive.                *)
(***************************************************************************)
\* What StoreInv reads of the log.
LEMMA SameLogSameViews ==
    ASSUME UNCHANGED log
    PROVE  /\ Kept' = Kept /\ PushedRows' = PushedRows
           /\ \A f : (View(f))' = View(f) /\ (Latest(f))' = Latest(f)
<1>1. Kept' = Kept /\ \A f : (View(f))' = View(f) /\ (Latest(f))' = Latest(f)
    BY ViewsOfTheLog, ViewsOfTheNextLog
<1>2. PushedRows' = PushedRows
    BY DEF PushedRows
<1>3. QED
    BY <1>1, <1>2

LEMMA SameLogSameInstants ==
    ASSUME UNCHANGED log, InstantsInv
    PROVE  InstantsInv'
BY DEF InstantsInv

\* What readers see of a fingerprint has the instant and the mark of its latest
\* row.
LEMMA ViewOfLatest ==
    /\ TypeOK => \A f \in Kept : /\ View(f).at = Latest(f).at
                                  /\ View(f).pushed = Latest(f).pushed
    /\ TypeOK' => \A f \in Kept' : /\ (View(f))'.at = (Latest(f))'.at
                                    /\ (View(f))'.pushed = (Latest(f))'.pushed
<1>1. ASSUME TypeOK, NEW f \in Kept
      PROVE  View(f).at = Latest(f).at /\ View(f).pushed = Latest(f).pushed
  <2>1. log \in Seq(Row) /\ f \in FpsOf(log)
      BY <1>1, ViewsOfTheLog DEF TypeOK
  <2>2. View(f) = ViewIn(log, f) /\ Latest(f) = LatestIn(log, f)
      BY ViewsOfTheLog
  <2>3. QED
      BY <2>1, <2>2, ViewIsARow
<1>2. ASSUME TypeOK', NEW f \in Kept'
      PROVE  (View(f))'.at = (Latest(f))'.at /\ (View(f))'.pushed = (Latest(f))'.pushed
  <2>1. log' \in Seq(Row) /\ f \in FpsOf(log')
      BY <1>2, ViewsOfTheNextLog DEF TypeOK
  <2>2. (View(f))' = ViewIn(log', f) /\ (Latest(f))' = LatestIn(log', f)
      BY ViewsOfTheNextLog
  <2>3. QED
      BY <2>1, <2>2, ViewIsARow
<1>3. QED
    BY <1>1, <1>2

\* A row shown as pushed has a pushed row in the file.
LEMMA PushedViews ==
    ASSUME log \in Seq(Row), NEW f \in Kept, View(f).pushed
    PROVE  f \in PushedRows
<1>1. f \in FpsOf(log) /\ View(f) = ViewIn(log, f)
    BY ViewsOfTheLog
<1>2. LatestIn(log, f).pushed /\ LatestIn(log, f).fp = f
    BY <1>1, ViewIsARow, LatestIsARow
<1>3. Max(PlacesIn(log, f)) \in DOMAIN log
  <2>1. /\ PlacesIn(log, f) \in SUBSET (0..Len(log)) /\ PlacesIn(log, f) # {}
        /\ Len(log) \in Nat
      BY <1>1, PlaceBounds
  <2>2. Max(PlacesIn(log, f)) \in PlacesIn(log, f)
      BY <2>1, MaxOfNaturals
  <2>3. QED
      BY <2>2 DEF PlacesIn
<1>4. QED
    BY <1>2, <1>3 DEF LatestIn, PushedRows

LEMMA AppendedMark ==
    ASSUME log \in Seq(Row), NEW r \in Row, log' = Append(log, r)
    PROVE  \A f \in PushedRows' : f \in PushedRows \/ (f = r.fp /\ r.pushed)
<1> SUFFICES ASSUME NEW i \in DOMAIN log', log'[i].pushed
             PROVE  log'[i].fp \in PushedRows \/ (log'[i].fp = r.fp /\ r.pushed)
    BY DEF PushedRows
<1>1. CASE i \in DOMAIN log
  <2>1. log'[i] = log[i]
      BY <1>1
  <2>2. QED
      BY <1>1, <2>1 DEF PushedRows
<1>2. CASE i \notin DOMAIN log
  <2>1. log'[i] = r
      BY <1>2
  <2>2. QED
      BY <2>1
<1>3. QED
    BY <1>1, <1>2

\* The log after a row is appended, by the names of the model.
LEMMA AppendedViews ==
    ASSUME log \in Seq(Row), NEW r \in Row, log' = Append(log, r)
    PROVE  /\ Kept' = Kept \union {r.fp}
           /\ \A g : g = r.fp => (Latest(g))' = r
           /\ \A g \in Kept : g # r.fp => (Latest(g))' = Latest(g)
<1>1. Kept = FpsOf(log) /\ Kept' = FpsOf(log')
    BY ViewsOfTheLog, ViewsOfTheNextLog
<1>2. \A g : Latest(g) = LatestIn(log, g) /\ (Latest(g))' = LatestIn(log', g)
    BY ViewsOfTheLog, ViewsOfTheNextLog
<1>3. Kept' = Kept \union {r.fp}
    BY <1>1, AppendedRow
<1>4. LatestIn(log', r.fp) = r
    BY AppendedRow
<1>5. \A g \in Kept : g # r.fp => LatestIn(log', g) = LatestIn(log, g)
    BY <1>1, AppendedRow
<1>6. QED
    BY <1>2, <1>3, <1>4, <1>5

\* A title with an unmarked latest row has a row that is shown.
LEMMA ShownOriginal ==
    ASSUME log \in Seq(Row), NEW g \in Kept, ~Latest(g).dup
    PROVE  \E o \in Kept : /\ TitleOf[o] = TitleOf[g]
                           /\ ~View(o).dup /\ ~Latest(o).dup
<1>1. /\ Kept = FpsOf(log) /\ g \in FpsOf(log) /\ ~LatestIn(log, g).dup
      /\ \A f : View(f) = ViewIn(log, f) /\ Latest(f) = LatestIn(log, f)
    BY ViewsOfTheLog
<1>2. PICK o \in FpsOf(log) : TitleOf[o] = TitleOf[g] /\ ~ViewIn(log, o).dup
    BY <1>1, UnmarkedIsShown
<1>3. ~LatestIn(log, o).dup
    BY <1>2, ViewIsARow DEF FoldedIn
<1>4. QED
    BY <1>1, <1>2, <1>3

\* Saving a row with the repeat mark readers see leaves every announcement its
\* original; so does any row of a parted one.
LEMMA SavedViewKeepsOriginals ==
    ASSUME log \in Seq(Row), OriginalsInv, NEW r \in Row, r.fp \in Kept,
           TitleOf[r.fp] \in parted' \/ r.dup = View(r.fp).dup,
           log' = Append(log, r), parted \subseteq parted'
    PROVE  OriginalsInv'
<1>1. /\ Kept' = Kept /\ \A g : g = r.fp => (Latest(g))' = r
      /\ \A g \in Kept : g # r.fp => (Latest(g))' = Latest(g)
  <2>1. /\ Kept' = Kept \union {r.fp} /\ \A g : g = r.fp => (Latest(g))' = r
        /\ \A g \in Kept : g # r.fp => (Latest(g))' = Latest(g)
      BY AppendedViews
  <2>2. Kept \union {r.fp} = Kept
      OBVIOUS
  <2>3. QED
      BY <2>1, <2>2
<1> SUFFICES ASSUME NEW f \in Kept, TitleOf[f] \notin parted'
             PROVE  \E g \in Kept : TitleOf[g] = TitleOf[f] /\ ~(Latest(g))'.dup
    BY <1>1 DEF OriginalsInv
<1>0. TitleOf[f] \notin parted
    OBVIOUS
<1>2. PICK g \in Kept : TitleOf[g] = TitleOf[f] /\ ~Latest(g).dup
    BY <1>0 DEF OriginalsInv
<1>3. PICK o \in Kept : TitleOf[o] = TitleOf[g] /\ ~View(o).dup /\ ~Latest(o).dup
    BY <1>2, ShownOriginal
<1>4. CASE o = r.fp
  <2>1. ~r.dup
      BY <1>0, <1>2, <1>3, <1>4
  <2>2. ~(Latest(o))'.dup
      BY <1>1, <1>4, <2>1
  <2>3. QED
      BY <1>2, <1>3, <2>2
<1>5. CASE o # r.fp
    BY <1>1, <1>2, <1>3, <1>5
<1>6. QED
    BY <1>4, <1>5

\* A row saved with the instant of its fingerprint, or of a new one, leaves the
\* instants in agreement.
LEMMA SavedInstant ==
    ASSUME log \in Seq(Row), InstantsInv, NEW r \in Row,
           r.fp \in Kept => r.at = Latest(r.fp).at, log' = Append(log, r)
    PROVE  InstantsInv'
<1> DEFINE more == Append(log, r)
<1>1. /\ LatestIn(more, r.fp) = r
      /\ \A g \in FpsOf(log) : g # r.fp => LatestIn(more, g) = LatestIn(log, g)
    BY AppendedRow
<1>2. /\ DOMAIN more = DOMAIN log \union {Len(log) + 1}
      /\ more[Len(log) + 1] = r
      /\ \A i \in DOMAIN log : more[i] = log[i]
    OBVIOUS
<1> HIDE DEF more
<1>3. ASSUME NEW i \in DOMAIN log PROVE more[i].at = LatestIn(more, more[i].fp).at
  <2>1. more[i] = log[i] /\ log[i].fp \in FpsOf(log) /\ log[i].at = LatestIn(log, log[i].fp).at
      BY <1>2 DEF InstantsInv, InstantsAgree, FpsOf
  <2>2. CASE log[i].fp = r.fp
      BY <1>1, <2>1, <2>2 DEF Kept, Latest
  <2>3. CASE log[i].fp # r.fp
      BY <1>1, <2>1, <2>3
  <2>4. QED
      BY <2>2, <2>3
<1>4. InstantsAgree(more)
    BY <1>1, <1>2, <1>3 DEF InstantsAgree
<1>5. QED
    BY <1>4 DEF InstantsInv, more

\* What a read gives satisfies ReadRow, once what it missed is on record.
LEMMA ReadGivesReadRows ==
    ASSUME TypeOK, InstantsInv, NEW read \in Prefixes(log), NEW f \in FpsOf(read)
    PROVE  LET r == ViewIn(read, f) IN
           /\ r.fp = f /\ f \in Kept /\ r.at = View(f).at
           /\ f \in MissedBy(read) \/ r.pushed = View(f).pushed
           /\ r.pushed => f \in PushedRows
           /\ \/ TitleOf[f] \in {TitleOf[g] : g \in MissedBy(read)}
              \/ r = View(f)
<1> DEFINE r == ViewIn(read, f)
<1>1. log \in Seq(Row) /\ read \in Seq(Row) /\ f \in Kept /\ f \in FpsOf(log)
    BY PrefixOfTheLog DEF TypeOK, Kept
<1>2. r.fp = f /\ r.at = LatestIn(read, f).at /\ r.pushed = LatestIn(read, f).pushed
    BY <1>1, ViewIsARow
<1>3. /\ View(f) = ViewIn(log, f) /\ Latest(f) = LatestIn(log, f)
      /\ View(f).at = Latest(f).at /\ View(f).pushed = Latest(f).pushed
    BY <1>1, ViewIsARow DEF View, Latest
<1>4. PICK i \in DOMAIN log : log[i] = LatestIn(read, f) /\ log[i].fp = f
    BY <1>1, ReadRowIsInTheLog
<1>5. log[i].at = Latest(f).at
    BY <1>4 DEF InstantsInv, InstantsAgree, Latest
<1>6. r.at = View(f).at
    BY <1>2, <1>3, <1>4, <1>5
<1>7. r.pushed => f \in PushedRows
    BY <1>2, <1>4 DEF PushedRows
<1>8. ASSUME f \notin MissedBy(read) PROVE r.pushed = View(f).pushed
  <2>1. LatestIn(read, f) = Latest(f)
      BY <1>1, <1>8, ReadInFull
  <2>2. QED
      BY <1>2, <1>3, <2>1
<1>9. ASSUME TitleOf[f] \notin {TitleOf[g] : g \in MissedBy(read)} PROVE r = View(f)
  <2>1. \A g \in MissedBy(read) : TitleOf[g] # TitleOf[f]
      BY <1>9
  <2>2. QED
      BY <1>1, <2>1, ReadFoldsAlike
<1>10. QED
    BY <1>1, <1>2, <1>6, <1>7, <1>8, <1>9

\* Without torn writes a row is appended whole, or not at all.
LEMMA WriteEffect ==
    ASSUME Orderly, FileInv, NEW h \in Handles, NEW r
    PROVE  /\ Written(h, r) => log' = Append(log, r) /\ UNCHANGED tail
           /\ Refused(h, r) => UNCHANGED <<log, tail>>
<1>1. tail = "line" /\ fd[h] # "stale" /\ Landed(r) = Append(log, r)
    BY DEF FileInv, Landed
<1>2. QED
    BY <1>1 DEF Written, Refused, Orderly

\* What a process remembers of a row it saved.
LEMMA RememberEffect ==
    ASSUME TypeOK, NEW h \in Handles, NEW r, Remember(h, r)
    PROVE  /\ seen'[h] = seen[h] \union {r.fp}
           /\ high'[h] = IF r.pushed THEN high[h] \union {r.fp} ELSE high[h]
           /\ owners'[h] \subseteq owners[h] \union {r.fp}
BY DEF Remember, TypeOK

\* Discover: the row is marked a repeat only behind an owner of its title.
LEMMA DiscoverKeepsInv ==
    ASSUME Orderly, TypeOK, StoreInv, NEW h \in Handles, NEW f \in Fps, Discover(h, f)
    PROVE  StoreInv'
<1> DEFINE r == [fp |-> f, at |-> now, dup |-> TitleClash(h, f), pushed |-> FALSE]
<1>1. /\ r \in Row /\ r.fp = f /\ r.pushed = FALSE /\ r.dup = TitleClash(h, f)
    BY DEF TypeOK, Row, TitleClash
<1>2. Save(h, r) /\ UNCHANGED <<held, missed>> /\ Idle(h) /\ f \notin seen[h]
    BY DEF Discover
<1>3. log \in Seq(Row) /\ \A k \in Handles : k = h
    BY DEF TypeOK, Orderly
<1>4. fd[h] # "down" /\ held[h] = None /\ plan[h] = None /\ seen[h] = Kept /\ f \notin Kept
    BY <1>2 DEF Idle, StoreInv, RestartAgrees
<1> HIDE DEF r
<1>5. UNCHANGED <<now, fd, plan, given, parted, held, missed>>
    BY <1>2 DEF Save
<1>6. HeldInv' /\ PlanInv' /\ MissedInv'
    BY <1>3, <1>4, <1>5 DEF HeldInv, PlanInv, StoreInv, MissedInv
<1>7. CASE Written(h, r) /\ Remember(h, r)
  <2>1. log' = Append(log, r) /\ UNCHANGED tail
      BY <1>7, WriteEffect DEF StoreInv
  <2>2. /\ seen'[h] = seen[h] \union {f} /\ high'[h] = high[h]
        /\ owners'[h] \subseteq owners[h] \union {f}
      BY <1>1, <1>7, RememberEffect
  <2>3. /\ Kept' = Kept \union {f} /\ \A g : g = f => (Latest(g))' = r
        /\ \A g \in Kept : g # f => (Latest(g))' = Latest(g)
      BY <1>1, <1>3, <2>1, AppendedViews
  <2>4. FileInv'
      BY <1>5, <2>1 DEF StoreInv, FileInv
  <2>5. RestartAgrees'
      BY <1>3, <1>4, <2>2, <2>3 DEF RestartAgrees
  <2>6. TitlesInv'
      BY <1>3, <1>5, <2>2, <2>3 DEF StoreInv, TitlesInv
  <2>7. GivenInv'
    <3>1. PushedRows' \subseteq PushedRows
        BY <1>1, <1>3, <2>1, AppendedMark
    <3>2. QED
        BY <1>3, <1>5, <2>2, <3>1 DEF StoreInv, GivenInv
  <2>8. OriginalsInv'
    <3>1. ASSUME NEW g \in Kept, TitleOf[g] \notin parted
          PROVE  \E o \in Kept' : TitleOf[o] = TitleOf[g] /\ ~(Latest(o))'.dup
      <4>1. PICK o \in Kept : TitleOf[o] = TitleOf[g] /\ ~Latest(o).dup
          BY <3>1 DEF StoreInv, OriginalsInv
      <4>2. o \in Kept' /\ (Latest(o))' = Latest(o)
          BY <1>4, <2>3
      <4>3. QED
          BY <4>1, <4>2
    <3>2. ASSUME TitleOf[f] \notin parted
          PROVE  \E o \in Kept' : TitleOf[o] = TitleOf[f] /\ ~(Latest(o))'.dup
      <4>1. CASE TitleClash(h, f)
        <5>1. PICK g \in owners[h] : TitleOf[g] = TitleOf[f]
            BY <4>1 DEF TitleClash
        <5>2. g \in Kept /\ TitleOf[g] \notin parted
            BY <3>2, <5>1 DEF StoreInv, TitlesInv
        <5>3. QED
            BY <3>1, <5>1, <5>2
      <4>2. CASE ~TitleClash(h, f)
        <5>1. f \in Kept' /\ (Latest(f))' = r /\ ~r.dup
            BY <1>1, <2>3, <4>2
        <5>2. QED
            BY <5>1
      <4>3. QED
          BY <4>1, <4>2
    <3>3. \A g \in Kept' : g \in Kept \/ g = f
        BY <2>3
    <3>4. QED
        BY <1>5, <3>1, <3>2, <3>3 DEF OriginalsInv
  <2>9. InstantsInv'
      BY <1>1, <1>3, <1>4, <2>1, SavedInstant DEF StoreInv
  <2>10. QED
      BY <1>6, <2>4, <2>5, <2>6, <2>7, <2>8, <2>9 DEF StoreInv
<1>8. CASE Refused(h, r) /\ UNCHANGED <<seen, high, owners>>
  <2>1. UNCHANGED <<log, tail>>
      BY <1>8, WriteEffect DEF StoreInv
  <2>2. /\ Kept' = Kept /\ PushedRows' = PushedRows
        /\ \A g : (Latest(g))' = Latest(g)
      BY <2>1, SameLogSameViews
  <2>3. FileInv' /\ RestartAgrees' /\ TitlesInv' /\ GivenInv'
      BY <1>5, <1>8, <2>1, <2>2 DEF StoreInv, FileInv, RestartAgrees, TitlesInv, GivenInv
  <2>4. OriginalsInv' /\ InstantsInv'
      BY <1>5, <2>1, <2>2, SameLogSameInstants DEF StoreInv, OriginalsInv
  <2>5. QED
      BY <1>6, <2>3, <2>4 DEF StoreInv
<1>9. QED
    BY <1>2, <1>7, <1>8 DEF Save

\* SaveHeld: the row is what readers saw, and mostly still see.
LEMMA SaveHeldKeepsInv ==
    ASSUME Orderly, TypeOK, StoreInv, NEW h \in Handles, SaveHeld(h)
    PROVE  StoreInv'
<1> DEFINE r == held[h]
<1>1. /\ Save(h, r) /\ held' = [held EXCEPT ![h] = None] /\ r # None
      /\ missed' = [missed EXCEPT ![h] = {}]
    BY DEF SaveHeld
<1>2. r \in Row /\ log \in Seq(Row) /\ \A k \in Handles : k = h
    BY <1>1 DEF TypeOK, Orderly
<1>3. /\ r.fp \in Kept /\ r.at = View(r.fp).at
      /\ r.pushed => r.fp \in PushedRows
      /\ TitleOf[r.fp] \in parted \/ r = View(r.fp)
    BY <1>1 DEF StoreInv, HeldInv, ReadRow
<1>4. plan[h] = None /\ held'[h] = None /\ missed'[h] = {}
    BY <1>1 DEF StoreInv, PlanInv, TypeOK
<1> HIDE DEF r
<1>5. UNCHANGED <<now, fd, plan, given, parted>>
    BY <1>1 DEF Save
<1>6. HeldInv' /\ PlanInv' /\ MissedInv'
    BY <1>2, <1>4, <1>5 DEF HeldInv, PlanInv, MissedInv
<1>7. CASE Written(h, r) /\ Remember(h, r)
  <2>1. log' = Append(log, r) /\ UNCHANGED tail
      BY <1>7, WriteEffect DEF StoreInv
  <2>2. /\ seen'[h] = seen[h] \union {r.fp}
        /\ high'[h] = IF r.pushed THEN high[h] \union {r.fp} ELSE high[h]
        /\ owners'[h] \subseteq owners[h] \union {r.fp}
      BY <1>7, RememberEffect
  <2>3. Kept' = Kept
    <3>1. Kept' = Kept \union {r.fp}
        BY <1>2, <2>1, AppendedViews
    <3>2. QED
        BY <1>3, <3>1
  <2>5. FileInv'
      BY <1>5, <2>1 DEF StoreInv, FileInv
  <2>6. RestartAgrees'
    <3>1. fd[h] # "down" => seen'[h] = Kept
        BY <1>3, <2>2 DEF StoreInv, RestartAgrees
    <3>2. QED
        BY <1>2, <1>5, <2>3, <3>1 DEF RestartAgrees
  <2>7. TitlesInv'
      BY <1>2, <1>3, <1>5, <2>2, <2>3 DEF StoreInv, TitlesInv
  <2>8. GivenInv'
    <3>1. PushedRows' \subseteq PushedRows
        BY <1>2, <1>3, <2>1, AppendedMark
    <3>2. high'[h] \subseteq given
        BY <1>3, <2>2 DEF StoreInv, GivenInv
    <3>3. QED
        BY <1>2, <1>5, <3>1, <3>2 DEF StoreInv, GivenInv
  <2>9. OriginalsInv'
    <3>1. TitleOf[r.fp] \in parted \/ r.dup = View(r.fp).dup
        BY <1>3
    <3>2. QED
        BY <1>2, <1>3, <1>5, <2>1, <3>1, SavedViewKeepsOriginals DEF StoreInv
  <2>10. InstantsInv'
    <3>1. r.at = Latest(r.fp).at
        BY <1>2, <1>3, ViewOfLatest
    <3>2. QED
        BY <1>2, <2>1, <3>1, SavedInstant DEF StoreInv
  <2>11. QED
      BY <1>6, <2>5, <2>6, <2>7, <2>8, <2>9, <2>10 DEF StoreInv
<1>8. CASE Refused(h, r) /\ UNCHANGED <<seen, high, owners>>
  <2>1. UNCHANGED <<log, tail>>
      BY <1>8, WriteEffect DEF StoreInv
  <2>2. /\ Kept' = Kept /\ PushedRows' = PushedRows
        /\ \A g : (Latest(g))' = Latest(g)
      BY <2>1, SameLogSameViews
  <2>3. FileInv' /\ RestartAgrees' /\ TitlesInv' /\ GivenInv'
      BY <1>5, <1>8, <2>1, <2>2 DEF StoreInv, FileInv, RestartAgrees, TitlesInv, GivenInv
  <2>4. OriginalsInv' /\ InstantsInv'
      BY <1>5, <2>1, <2>2, SameLogSameInstants DEF StoreInv, OriginalsInv
  <2>5. QED
      BY <1>6, <2>3, <2>4 DEF StoreInv
<1>9. QED
    BY <1>1, <1>7, <1>8 DEF Save

\* MarkPushed: the row as it was read with its mark, which the delivery
\* justifies, or no row when the read does not show one.
LEMMA MarkPushedKeepsInv ==
    ASSUME Orderly, TypeOK, StoreInv, NEW h \in Handles, NEW f \in Fps, MarkPushed(h, f)
    PROVE  StoreInv'
<1>1. /\ Idle(h) /\ f \in seen[h] /\ high' = [high EXCEPT ![h] = @ \union {f}]
      /\ given' = given \union {f}
      /\ UNCHANGED <<now, fd, seen, owners, held, plan, acked, missed>>
    BY DEF MarkPushed
<1>2. log \in Seq(Row) /\ \A k \in Handles : k = h
    BY DEF TypeOK, Orderly
<1>3. /\ fd[h] # "down" /\ held[h] = None /\ plan[h] = None
      /\ seen[h] = Kept /\ f \in Kept
    BY <1>1 DEF Idle, StoreInv, RestartAgrees
<1>4. PICK read \in Prefixes(log) :
        /\ Reads(read)
        /\ IF f \in FpsOf(read)
           THEN LET r == [ViewIn(read, f) EXCEPT !.pushed = TRUE] IN
                Written(h, r) \/ Refused(h, r)
           ELSE UNCHANGED <<log, tail, faults>>
    BY DEF MarkPushed
<1>5. parted \subseteq parted' /\ \A g \in MissedBy(read) : TitleOf[g] \in parted'
    BY <1>4, ReadTypes
<1> DEFINE r == [ViewIn(read, f) EXCEPT !.pushed = TRUE]
<1>6. HeldInv' /\ PlanInv' /\ MissedInv'
    BY <1>1, <1>2, <1>3, <1>5 DEF HeldInv, PlanInv, StoreInv, MissedInv
<1>7. high'[h] = high[h] \union {f}
    BY <1>1 DEF TypeOK
<1>8. CASE f \in FpsOf(read) /\ Written(h, r)
  <2>1. /\ ViewIn(read, f) \in Row /\ ViewIn(read, f).fp = f
        /\ ViewIn(read, f).at = View(f).at
        /\ \/ TitleOf[f] \in {TitleOf[g] : g \in MissedBy(read)}
           \/ ViewIn(read, f) = View(f)
      BY <1>4, <1>8, ReadTypes, ReadGivesReadRows DEF StoreInv
  <2>2. /\ r \in Row /\ r.fp = f /\ r.at = View(f).at
        /\ r.dup = ViewIn(read, f).dup
      BY <2>1 DEF Row
  <2>3. TitleOf[f] \in parted' \/ r.dup = View(f).dup
      BY <1>5, <2>1, <2>2
  <2>4. Written(h, r)
      BY <1>8
  <2> HIDE DEF r
  <2>5. log' = Append(log, r) /\ UNCHANGED tail
      BY <2>4, WriteEffect DEF StoreInv
  <2>6. Kept' = Kept
    <3>1. Kept' = Kept \union {f}
        BY <1>2, <2>2, <2>5, AppendedViews
    <3>2. QED
        BY <1>3, <3>1
  <2>7. FileInv'
      BY <1>1, <2>5 DEF StoreInv, FileInv
  <2>8. RestartAgrees' /\ TitlesInv'
      BY <1>1, <1>5, <2>6 DEF StoreInv, RestartAgrees, TitlesInv
  <2>9. GivenInv'
    <3>1. PushedRows' \subseteq PushedRows \union {f}
        BY <1>2, <2>2, <2>5, AppendedMark
    <3>2. QED
        BY <1>1, <1>2, <1>7, <3>1 DEF StoreInv, GivenInv
  <2>10. OriginalsInv'
    <3>1. r.fp \in Kept /\ (TitleOf[r.fp] \in parted' \/ r.dup = View(r.fp).dup)
        BY <1>3, <2>2, <2>3
    <3>2. QED
        BY <1>2, <1>5, <2>2, <2>5, <3>1, SavedViewKeepsOriginals DEF StoreInv
  <2>11. InstantsInv'
    <3>1. r.at = Latest(r.fp).at
        BY <1>3, <2>2, ViewOfLatest
    <3>2. QED
        BY <1>2, <2>2, <2>5, <3>1, SavedInstant DEF StoreInv
  <2>12. QED
      BY <1>6, <2>7, <2>8, <2>9, <2>10, <2>11 DEF StoreInv
<1>9. CASE UNCHANGED <<log, tail>>
  <2>1. /\ Kept' = Kept /\ PushedRows' = PushedRows
        /\ \A g : (Latest(g))' = Latest(g)
      BY <1>9, SameLogSameViews
  <2>2. FileInv' /\ RestartAgrees' /\ TitlesInv'
      BY <1>1, <1>5, <1>9, <2>1 DEF StoreInv, FileInv, RestartAgrees, TitlesInv
  <2>3. OriginalsInv' /\ InstantsInv'
      BY <1>5, <1>9, <2>1, SameLogSameInstants DEF StoreInv, OriginalsInv
  <2>4. GivenInv'
      BY <1>1, <1>2, <1>7, <2>1 DEF StoreInv, GivenInv
  <2>5. QED
      BY <1>6, <2>2, <2>3, <2>4 DEF StoreInv
<1>10. ASSUME Refused(h, r) PROVE UNCHANGED <<log, tail>>
  <2> HIDE DEF r
  <2>1. QED
      BY <1>10, WriteEffect DEF StoreInv
<1>11. QED
    BY <1>4, <1>8, <1>9, <1>10

\* What Compact plans is what it read less what has expired.
LEMMA CompactReadKeepsInv ==
    ASSUME Orderly, TypeOK, StoreInv, NEW h \in Handles, CompactRead(h)
    PROVE  StoreInv'
<1>1. PICK read \in Prefixes(log) :
        /\ Reads(read)
        /\ plan' = [plan EXCEPT ![h] =
                      NewestFirst(read, {r \in ViewsOf(read) : ~Expired(h, r)})]
        /\ missed' = [missed EXCEPT ![h] = MissedBy(read)]
    BY DEF CompactRead
<1> DEFINE S == {r \in ViewsOf(read) : ~Expired(h, r)}
<1>2. /\ Idle(h) /\ UNCHANGED <<now, log, tail, fd, seen, high, owners, held, given>>
    BY DEF CompactRead
<1>3. log \in Seq(Row) /\ \A k \in Handles : k = h
    BY DEF TypeOK, Orderly
<1>4. /\ Kept' = Kept /\ PushedRows' = PushedRows
      /\ \A g : (Latest(g))' = Latest(g) /\ (View(g))' = View(g)
    BY <1>2, SameLogSameViews
<1>5. /\ parted \subseteq parted' /\ \A g \in MissedBy(read) : TitleOf[g] \in parted'
      /\ read \in Seq(Row)
    BY <1>1, ReadTypes
<1>6. FileInv' /\ RestartAgrees' /\ TitlesInv' /\ GivenInv'
    BY <1>2, <1>4, <1>5 DEF StoreInv, FileInv, RestartAgrees, TitlesInv, GivenInv
<1>7. OriginalsInv' /\ InstantsInv'
    BY <1>2, <1>4, <1>5, SameLogSameInstants DEF StoreInv, OriginalsInv
<1>8. fd[h] # "down" /\ held[h] = None /\ missed'[h] = MissedBy(read)
    BY <1>1, <1>2 DEF Idle, TypeOK
<1>9. HeldInv' /\ MissedInv'
    BY <1>2, <1>3, <1>5, <1>8 DEF HeldInv, MissedInv
<1>10. {plan'[h][i] : i \in DOMAIN plan'[h]} = S
  <2>1. S \in SUBSET ViewsOf(read)
      OBVIOUS
  <2>2. plan'[h] = NewestFirst(read, S)
      BY <1>1 DEF TypeOK
  <2> HIDE DEF S
  <2>3. {NewestFirst(read, S)[i] : i \in DOMAIN NewestFirst(read, S)} = S
      BY <1>5, <2>1, NewestFirstLists
  <2>4. QED
      BY <2>2, <2>3
<1>11. ASSUME NEW r \in S
       PROVE  \E f \in FpsOf(read) : /\ r = ViewIn(read, f) /\ r.fp = f /\ f \in Kept
                                     /\ r.at = View(f).at
                                     /\ f \in MissedBy(read) \/ r.pushed = View(f).pushed
                                     /\ r.pushed => f \in PushedRows
                                     /\ \/ TitleOf[f] \in parted'
                                        \/ r = View(f)
  <2>1. PICK f \in FpsOf(read) : r = ViewIn(read, f)
      BY DEF ViewsOf
  <2>2. QED
      BY <1>5, <2>1, ReadGivesReadRows DEF StoreInv
<1>12. ASSUME NEW i \in DOMAIN plan'[h] PROVE ReadRow(h, plan[h][i])'
  <2> DEFINE r == plan'[h][i]
  <2>1. r \in S
      BY <1>10
  <2>2. /\ r.fp \in Kept /\ r.at = View(r.fp).at
        /\ r.fp \in MissedBy(read) \/ r.pushed = View(r.fp).pushed
        /\ r.pushed => r.fp \in PushedRows
        /\ TitleOf[r.fp] \in parted' \/ r = View(r.fp)
      BY <1>11, <2>1
  <2>3. (View(plan[h][i].fp))' = View(r.fp)
      BY <1>4
  <2>4. QED
      BY <1>4, <1>8, <2>2, <2>3 DEF ReadRow
<1>13. ASSUME NEW f \in Kept, f \notin FpsOf(plan'[h]), f \notin MissedBy(read)
       PROVE  Expired(h, View(f))
  <2> SUFFICES ASSUME ~Expired(h, View(f)) PROVE FALSE
      OBVIOUS
  <2> DEFINE r == ViewIn(read, f)
  <2>1. f \in FpsOf(read)
      BY <1>3, <1>13, ReadInFull
  <2>2. r.fp = f /\ r.at = View(f).at /\ View(f).fp = f
      BY <2>1, ReadGivesReadRows, ViewTypes DEF StoreInv
  <2>3. ~Expired(h, r)
      BY <2>2 DEF Expired
  <2>4. r \in S
      BY <2>1, <2>3 DEF ViewsOf
  <2>5. PICK i \in DOMAIN plan'[h] : plan'[h][i] = r
      BY <1>10, <2>4
  <2>6. QED
      BY <1>13, <2>2, <2>5 DEF FpsOf
<1> HIDE DEF S
<1>14. PlanInv'
  <2>1. \A f : (Expired(h, View(f)))' <=> Expired(h, View(f))
      BY <1>2, <1>4 DEF Expired
  <2>2. \A f \in Kept' \ FpsOf(plan'[h]) : (Expired(h, View(f)))' \/ f \in missed'[h]
      BY <1>4, <1>8, <1>13, <2>1
  <2>3. held'[h] = None /\ fd'[h] # "down"
      BY <1>2, <1>8
  <2>4. QED
      BY <1>3, <1>12, <2>2, <2>3 DEF PlanInv
<1>15. QED
    BY <1>6, <1>7, <1>9, <1>14 DEF StoreInv

\* Compact gives up: the plan goes, nothing else that the invariant reads.
LEMMA CompactFailsKeepsInv ==
    ASSUME Orderly, TypeOK, StoreInv, NEW h \in Handles, CompactFails(h)
    PROVE  StoreInv'
<1>1. /\ plan[h] # None /\ plan' = [plan EXCEPT ![h] = None]
      /\ missed' = [missed EXCEPT ![h] = {}]
      /\ fd' = fd \/ fd' = [fd EXCEPT ![h] = "closed"]
      /\ UNCHANGED <<now, log, tail, seen, high, owners, held, given, parted>>
    BY DEF CompactFails
<1>2. \A k \in Handles : k = h
    BY DEF Orderly
<1>3. /\ Kept' = Kept /\ PushedRows' = PushedRows
      /\ \A g : (Latest(g))' = Latest(g) /\ (View(g))' = View(g)
    BY <1>1, SameLogSameViews
<1>4. /\ plan'[h] = None /\ missed'[h] = {} /\ held[h] = None /\ fd[h] # "down"
      /\ fd'[h] = fd[h] \/ fd'[h] = "closed"
    BY <1>1 DEF TypeOK, StoreInv, PlanInv
<1>5. FileInv' /\ RestartAgrees'
    BY <1>1, <1>2, <1>3, <1>4 DEF StoreInv, FileInv, RestartAgrees
<1>6. TitlesInv' /\ GivenInv' /\ OriginalsInv' /\ InstantsInv'
    BY <1>1, <1>3, SameLogSameInstants DEF StoreInv, TitlesInv, GivenInv, OriginalsInv
<1>7. HeldInv' /\ PlanInv' /\ MissedInv'
    BY <1>1, <1>2, <1>4 DEF HeldInv, PlanInv, MissedInv
<1>8. QED
    BY <1>5, <1>6, <1>7 DEF StoreInv

\* What a swap makes of the log: rows as they were read, each the latest of its
\* fingerprint.
LEMMA SwappedViews ==
    ASSUME Orderly, TypeOK, StoreInv, NEW h \in Handles, CompactSwap(h)
    PROVE  /\ Kept' = FpsOf(plan[h]) /\ Kept' \subseteq Kept
           /\ \A f \in Kept' :
                /\ (Latest(f))'.at = View(f).at
                /\ f \in missed[h] \/ (Latest(f))'.pushed = View(f).pushed
                /\ TitleOf[f] \in parted \/ (Latest(f))' = View(f)
           /\ \A f \in Kept \ Kept' : Expired(h, View(f)) \/ f \in missed[h]
           /\ PushedRows' \subseteq PushedRows
           /\ InstantsInv'
<1>1. plan[h] # None /\ log' = plan[h]
    BY DEF CompactSwap
<1>2. log \in Seq(Row) /\ plan[h] \in Seq(Row)
    BY <1>1 DEF TypeOK
<1>3. /\ \A i \in DOMAIN plan[h] : ReadRow(h, plan[h][i])
      /\ \A f \in Kept \ FpsOf(plan[h]) : Expired(h, View(f)) \/ f \in missed[h]
    BY <1>1 DEF StoreInv, PlanInv
<1>4. Kept' = FpsOf(plan[h])
    BY <1>1, ViewsOfTheNextLog
<1>5. Kept' \subseteq Kept
    BY <1>3, <1>4 DEF FpsOf, ReadRow
<1>6. ASSUME NEW f \in FpsOf(plan[h])
      PROVE  LET r == LatestIn(plan[h], f) IN
             /\ r.at = View(f).at
             /\ f \in missed[h] \/ r.pushed = View(f).pushed
             /\ TitleOf[f] \in parted \/ r = View(f)
  <2> DEFINE r == LatestIn(plan[h], f)
  <2>1. r.fp = f /\ Max(PlacesIn(plan[h], f)) \in DOMAIN plan[h]
      BY <1>2, LatestIsARow
  <2>2. ReadRow(h, r)
      BY <1>3, <2>1 DEF LatestIn
  <2> HIDE DEF r
  <2>3. /\ r.at = View(f).at /\ (f \in missed[h] \/ r.pushed = View(f).pushed)
        /\ TitleOf[f] \in parted \/ r = View(f)
      BY <2>1, <2>2 DEF ReadRow
  <2>4. QED
      BY <2>3 DEF r
<1>7. \A f \in Kept' :
        /\ (Latest(f))'.at = View(f).at
        /\ f \in missed[h] \/ (Latest(f))'.pushed = View(f).pushed
        /\ TitleOf[f] \in parted \/ (Latest(f))' = View(f)
  <2>1. \A f : (Latest(f))' = LatestIn(plan[h], f)
      BY <1>1, ViewsOfTheNextLog
  <2>2. QED
      BY <1>4, <1>6, <2>1
<1>8. \A i \in DOMAIN plan[h] : plan[h][i].pushed => plan[h][i].fp \in PushedRows
    BY <1>3 DEF ReadRow
<1>9. PushedRows' \subseteq PushedRows
  <2>1. PushedRows' = {plan[h][i].fp : i \in {j \in DOMAIN plan[h] : plan[h][j].pushed}}
      BY <1>1 DEF PushedRows
  <2>2. QED
      BY <1>8, <2>1
<1>10. InstantsInv'
  <2>1. ASSUME NEW i \in DOMAIN plan[h]
        PROVE  plan[h][i].at = LatestIn(plan[h], plan[h][i].fp).at
    <3>1. plan[h][i].fp \in FpsOf(plan[h]) /\ plan[h][i].at = View(plan[h][i].fp).at
        BY <1>3 DEF ReadRow, FpsOf
    <3>2. QED
        BY <1>6, <3>1
  <2>2. InstantsAgree(plan[h])
      BY <2>1 DEF InstantsAgree
  <2>3. QED
      BY <1>1, <2>2 DEF InstantsInv
<1>11. QED
    BY <1>3, <1>4, <1>5, <1>7, <1>9, <1>10

\* Compact replaces the file: a title loses its shown row only to retention, or
\* to a read that missed it.
LEMMA CompactSwapKeepsInv ==
    ASSUME Orderly, TypeOK, StoreInv, NEW h \in Handles, CompactSwap(h)
    PROVE  StoreInv'
<1> DEFINE dropped == {f \in Kept \ FpsOf(plan[h]) : Expired(h, View(f))}
<1>1. /\ plan[h] # None /\ tail' = "line" /\ plan' = [plan EXCEPT ![h] = None]
      /\ missed' = [missed EXCEPT ![h] = {}]
      /\ seen' = [seen EXCEPT ![h] = FpsOf(plan[h])]
      /\ parted' = parted \union {TitleOf[f] : f \in dropped}
      /\ UNCHANGED <<now, high, owners, held, given>>
    BY DEF CompactSwap
<1>2. log \in Seq(Row) /\ \A k \in Handles : k = h
    BY DEF TypeOK, Orderly
<1>3. /\ Kept' = FpsOf(plan[h]) /\ Kept' \subseteq Kept
      /\ \A f \in Kept' : TitleOf[f] \in parted \/ (Latest(f))' = View(f)
      /\ \A f \in Kept \ Kept' : Expired(h, View(f)) \/ f \in missed[h]
      /\ PushedRows' \subseteq PushedRows
      /\ InstantsInv'
    BY SwappedViews
<1>4. \A f \in Kept \ Kept' : f \in dropped \/ f \in missed[h]
    BY <1>3
<1>5. /\ plan'[h] = None /\ held[h] = None /\ seen'[h] = Kept' /\ missed'[h] = {}
    BY <1>1, <1>3 DEF TypeOK, StoreInv, PlanInv
<1>6. fd'[h] # "stale"
    BY DEF CompactSwap
<1>7. \A f \in Kept \ Kept' : TitleOf[f] \in parted'
    BY <1>1, <1>4 DEF StoreInv, MissedInv
<1>8. parted \subseteq parted'
    BY <1>1
<1> HIDE DEF dropped
<1>9. FileInv' /\ RestartAgrees'
    BY <1>1, <1>2, <1>5, <1>6 DEF FileInv, RestartAgrees
<1>10. TitlesInv'
    BY <1>1, <1>7, <1>8 DEF StoreInv, TitlesInv
<1>11. GivenInv'
    BY <1>1, <1>3 DEF StoreInv, GivenInv
<1>12. HeldInv' /\ PlanInv' /\ MissedInv'
    BY <1>1, <1>2, <1>5 DEF HeldInv, PlanInv, MissedInv
<1>13. OriginalsInv'
  <2> SUFFICES ASSUME NEW f \in Kept', TitleOf[f] \notin parted'
               PROVE  \E o \in Kept' : TitleOf[o] = TitleOf[f] /\ ~(Latest(o))'.dup
      BY DEF OriginalsInv
  <2>1. PICK g \in Kept : TitleOf[g] = TitleOf[f] /\ ~Latest(g).dup
      BY <1>3, <1>8 DEF StoreInv, OriginalsInv
  <2>2. PICK o \in Kept : TitleOf[o] = TitleOf[g] /\ ~View(o).dup
      BY <1>2, <2>1, ShownOriginal
  <2>3. o \in Kept'
      BY <1>7, <2>1, <2>2
  <2>4. (Latest(o))' = View(o)
      BY <1>3, <1>8, <2>1, <2>2, <2>3
  <2>5. QED
      BY <2>1, <2>2, <2>3, <2>4
<1>14. QED
    BY <1>3, <1>9, <1>10, <1>11, <1>12, <1>13 DEF StoreInv

LEMMA TimeKeepsInv ==
    ASSUME TypeOK, StoreInv, Tick \/ UNCHANGED vars
    PROVE  StoreInv'
<1>1. /\ UNCHANGED <<log, tail, given, parted, missed, fd, seen, high, owners, held, plan>>
      /\ now' = now \/ now' = now + 1
    BY DEF Tick, vars, handles, history
<1>2. /\ Kept' = Kept /\ PushedRows' = PushedRows
      /\ \A g : (Latest(g))' = Latest(g) /\ (View(g))' = View(g)
    BY <1>1, SameLogSameViews
<1>3. FileInv' /\ RestartAgrees' /\ TitlesInv' /\ GivenInv'
    BY <1>1, <1>2 DEF StoreInv, FileInv, RestartAgrees, TitlesInv, GivenInv
<1>4. OriginalsInv' /\ InstantsInv' /\ MissedInv'
    BY <1>1, <1>2, SameLogSameInstants DEF StoreInv, OriginalsInv, MissedInv
<1>5. ASSUME NEW h \in Handles, NEW f \in Kept, Expired(h, View(f))
      PROVE  (Expired(h, View(f)))'
  <2>1. View(f).at \in 0..MaxTime /\ View(f) \in Row /\ now \in 0..MaxTime
      BY ViewTypes DEF Row, TypeOK
  <2>2. View(f).at \in Int /\ now \in Int /\ Keep \in Int
      BY <2>1, StoreAssumption
  <2>3. QED
      BY <1>1, <1>2, <1>5, <2>2 DEF Expired
<1>7. HeldInv'
  <2> SUFFICES ASSUME NEW h \in Handles, held[h] # None PROVE ReadRow(h, held[h])'
      BY <1>1 DEF HeldInv
  <2>1. ReadRow(h, held[h])
      BY DEF StoreInv, HeldInv
  <2>2. QED
      BY <1>1, <1>2, <2>1 DEF ReadRow
<1>8. PlanInv'
  <2> SUFFICES ASSUME NEW h \in Handles, plan[h] # None
               PROVE  /\ held[h] = None /\ fd[h] # "down"
                      /\ \A i \in DOMAIN plan[h] : ReadRow(h, plan[h][i])'
                      /\ \A f \in Kept \ FpsOf(plan[h]) :
                            (Expired(h, View(f)))' \/ f \in missed[h]
      BY <1>1, <1>2 DEF PlanInv
  <2>1. \A i \in DOMAIN plan[h] : ReadRow(h, plan[h][i])'
    <3>1. \A i \in DOMAIN plan[h] : ReadRow(h, plan[h][i])
        BY DEF StoreInv, PlanInv
    <3>2. QED
        BY <1>1, <1>2, <3>1 DEF ReadRow
  <2>2. QED
      BY <1>5, <2>1 DEF StoreInv, PlanInv
<1>9. QED
    BY <1>3, <1>4, <1>7, <1>8 DEF StoreInv

LEMMA OpenKeepsInv ==
    ASSUME Orderly, TypeOK, StoreInv, NEW h \in Handles, Open(h)
    PROVE  StoreInv'
<1>1. /\ UNCHANGED <<now, log, tail, given, parted, missed, held, plan>>
      /\ \A k \in Handles : k = h
    BY DEF Open, Orderly, history
<1>2. /\ Kept' = Kept /\ PushedRows' = PushedRows
      /\ \A g : (Latest(g))' = Latest(g) /\ (View(g))' = View(g)
    BY <1>1, SameLogSameViews
<1>3. OriginalsInv' /\ InstantsInv' /\ MissedInv'
    BY <1>1, <1>2, SameLogSameInstants DEF StoreInv, OriginalsInv, MissedInv
<1>4. /\ fd[h] = "down" /\ fd'[h] = "path"
      /\ seen'[h] = Kept /\ high'[h] = PushedRows /\ owners'[h] = FirstOfTitle
    BY DEF Open, TypeOK
<1>5. FirstOfTitle \subseteq Kept
    BY DEF FirstOfTitle
<1>6. FileInv' /\ RestartAgrees'
    BY <1>1, <1>2, <1>4 DEF StoreInv, FileInv, RestartAgrees
<1>7. TitlesInv'
    BY <1>1, <1>2, <1>4, <1>5 DEF TitlesInv
<1>8. GivenInv'
    BY <1>1, <1>2, <1>4 DEF StoreInv, GivenInv
<1>9. PlanInv'
    BY <1>1, <1>4 DEF StoreInv, PlanInv
<1>10. HeldInv'
  <2> SUFFICES ASSUME held[h] # None PROVE ReadRow(h, held[h])'
      BY <1>1 DEF HeldInv
  <2>1. ReadRow(h, held[h])
      BY DEF StoreInv, HeldInv
  <2>2. QED
      BY <1>1, <1>2, <2>1 DEF ReadRow
<1>11. QED
    BY <1>3, <1>6, <1>7, <1>8, <1>9, <1>10 DEF StoreInv

LEMMA StopKeepsInv ==
    ASSUME Orderly, TypeOK, StoreInv, NEW h \in Handles, Stop(h)
    PROVE  StoreInv'
<1>1. UNCHANGED <<log, tail, given, parted>> /\ \A k \in Handles : k = h
    BY DEF Stop, Orderly
<1>2. /\ Kept' = Kept /\ PushedRows' = PushedRows
      /\ \A g : (Latest(g))' = Latest(g)
    BY <1>1, SameLogSameViews
<1>3. /\ fd'[h] = "down" /\ high'[h] = {} /\ owners'[h] = {}
      /\ held'[h] = None /\ plan'[h] = None /\ missed'[h] = {}
    BY DEF Stop, TypeOK
<1>4. FileInv' /\ RestartAgrees' /\ TitlesInv'
    BY <1>1, <1>3 DEF StoreInv, FileInv, RestartAgrees, TitlesInv
<1>5. HeldInv' /\ PlanInv' /\ MissedInv'
    BY <1>1, <1>3 DEF HeldInv, PlanInv, MissedInv
<1>6. GivenInv' /\ OriginalsInv' /\ InstantsInv'
    BY <1>1, <1>2, <1>3, SameLogSameInstants DEF StoreInv, GivenInv, OriginalsInv
<1>7. QED
    BY <1>4, <1>5, <1>6 DEF StoreInv

\* Hold: the row as it was read.
LEMMA HoldKeepsInv ==
    ASSUME Orderly, TypeOK, StoreInv, NEW h \in Handles, NEW f \in Fps, Hold(h, f)
    PROVE  StoreInv'
<1>1. PICK read \in Prefixes(log) :
        /\ Reads(read) /\ f \in FpsOf(read)
        /\ held' = [held EXCEPT ![h] = ViewIn(read, f)]
        /\ missed' = [missed EXCEPT ![h] = MissedBy(read)]
    BY DEF Hold
<1>2. /\ plan[h] = None /\ UNCHANGED <<now, log, tail, fd, seen, high, owners, plan, given>>
      /\ \A k \in Handles : k = h
    BY DEF Hold, Idle, Orderly
<1>3. /\ Kept' = Kept /\ PushedRows' = PushedRows
      /\ \A g : (Latest(g))' = Latest(g) /\ (View(g))' = View(g)
    BY <1>2, SameLogSameViews
<1>4. parted \subseteq parted' /\ \A g \in MissedBy(read) : TitleOf[g] \in parted'
    BY <1>1, ReadTypes
<1>5. held'[h] = ViewIn(read, f) /\ missed'[h] = MissedBy(read)
    BY <1>1 DEF TypeOK
<1>6. FileInv' /\ RestartAgrees' /\ TitlesInv' /\ GivenInv'
    BY <1>2, <1>3, <1>4 DEF StoreInv, FileInv, RestartAgrees, TitlesInv, GivenInv
<1>7. OriginalsInv' /\ InstantsInv'
    BY <1>2, <1>3, <1>4, SameLogSameInstants DEF StoreInv, OriginalsInv
<1>8. MissedInv' /\ PlanInv'
    BY <1>2, <1>4, <1>5 DEF MissedInv, PlanInv
<1>9. HeldInv'
  <2> DEFINE r == ViewIn(read, f)
  <2>1. /\ r.fp = f /\ f \in Kept /\ r.at = View(f).at
        /\ f \in MissedBy(read) \/ r.pushed = View(f).pushed
        /\ r.pushed => f \in PushedRows
        /\ TitleOf[f] \in parted' \/ r = View(f)
      BY <1>1, <1>4, ReadGivesReadRows DEF StoreInv
  <2>2. (View(held[h].fp))' = View(f)
      BY <1>3, <1>5, <2>1
  <2> HIDE DEF r
  <2>3. held'[h] = r
      BY <1>5 DEF r
  <2>4. ReadRow(h, held[h])'
      BY <1>3, <1>5, <2>1, <2>2, <2>3 DEF ReadRow
  <2>5. QED
      BY <1>2, <2>4 DEF HeldInv
<1>10. QED
    BY <1>6, <1>7, <1>8, <1>9 DEF StoreInv

LEMMA StoreStep ==
    ASSUME Orderly, TypeOK, StoreInv, [Next]_vars
    PROVE  StoreInv'
<1>1. CASE Tick \/ UNCHANGED vars
    BY <1>1, TimeKeepsInv
<1>2. ASSUME NEW h \in Handles, Open(h) \/ Stop(h) \/ \E f \in Fps : Hold(h, f)
      PROVE  StoreInv'
    BY <1>2, OpenKeepsInv, StopKeepsInv, HoldKeepsInv
<1>3. ASSUME NEW h \in Handles, SaveHeld(h) PROVE StoreInv'
    BY <1>3, SaveHeldKeepsInv
<1>4. ASSUME NEW h \in Handles, CompactRead(h) PROVE StoreInv'
    BY <1>4, CompactReadKeepsInv
<1>5. ASSUME NEW h \in Handles, CompactFails(h) PROVE StoreInv'
    BY <1>5, CompactFailsKeepsInv
<1>6. ASSUME NEW h \in Handles, CompactSwap(h) PROVE StoreInv'
    BY <1>6, CompactSwapKeepsInv
<1>7. ASSUME NEW h \in Handles, NEW f \in Fps, Discover(h, f) PROVE StoreInv'
    BY <1>7, DiscoverKeepsInv
<1>8. ASSUME NEW h \in Handles, NEW f \in Fps, MarkPushed(h, f) PROVE StoreInv'
    BY <1>8, MarkPushedKeepsInv
<1>9. QED
    BY <1>1, <1>2, <1>3, <1>4, <1>5, <1>6, <1>7, <1>8 DEF Next

LEMMA StoreInit == Init => StoreInv
<1> SUFFICES ASSUME Init PROVE StoreInv
    OBVIOUS
<1>1. Kept = {} /\ PushedRows = {}
    BY DEF Init, Kept, FpsOf, PushedRows
<1>2. FileInv /\ RestartAgrees /\ TitlesInv /\ GivenInv
    BY <1>1 DEF Init, FileInv, RestartAgrees, TitlesInv, GivenInv
<1>3. HeldInv /\ PlanInv /\ OriginalsInv /\ InstantsInv /\ MissedInv
    BY <1>1 DEF Init, HeldInv, PlanInv, OriginalsInv, InstantsInv, InstantsAgree, MissedInv
<1>4. QED
    BY <1>2, <1>3 DEF StoreInv

\* StoreInv holds while one process has the directory open and no write leaves
\* part of a line.
LEMMA StoreInvariant == Orderly /\ Spec => []StoreInv
<1> DEFINE Inv == Orderly /\ StoreInv
<1>1. Orderly /\ Init => Inv
    BY StoreInit
<1>2. TypeOK /\ Inv /\ [Next]_vars => Inv'
  <2>1. Orderly => Orderly'
      BY DEF Orderly
  <2>2. QED
      BY <2>1, StoreStep
<1>3. Inv => StoreInv
    OBVIOUS
<1> HIDE DEF Inv
<1>4. QED
    BY <1>1, <1>2, <1>3, TypeCorrect, PTL DEF Spec

\* While one process has the directory open and no write leaves part of a line,
\* the process suppresses exactly the findings the file holds, through refused
\* writes and failed compactions: a restart changes nothing.
THEOREM RestartSafe == Orderly /\ Spec => []RestartAgrees
<1>1. StoreInv => RestartAgrees
    BY DEF StoreInv
<1>2. QED
    BY <1>1, StoreInvariant, PTL

LEMMA OriginalsAreShown ==
    ASSUME TypeOK, OriginalsInv
    PROVE  RepeatsHaveAnOriginal
<1> SUFFICES ASSUME NEW f \in Kept, TitleOf[f] \notin parted
             PROVE  \E g \in Kept : TitleOf[g] = TitleOf[f] /\ ~View(g).dup
    BY DEF RepeatsHaveAnOriginal
<1>1. PICK g \in Kept : TitleOf[g] = TitleOf[f] /\ ~Latest(g).dup
    BY DEF OriginalsInv
<1>2. PICK o \in Kept : TitleOf[o] = TitleOf[g] /\ ~View(o).dup
    BY <1>1, ShownOriginal DEF TypeOK
<1>3. QED
    BY <1>1, <1>2

\* Under the same conditions a finding readers skip as a repeat has an original
\* they do not skip, unless retention has taken a row of its announcement.
THEOREM OriginalsSafe == Orderly /\ Spec => []RepeatsHaveAnOriginal
<1>1. TypeOK /\ StoreInv => RepeatsHaveAnOriginal
    BY OriginalsAreShown DEF StoreInv
<1>2. QED
    BY <1>1, TypeCorrect, StoreInvariant, PTL

LEMMA SavedStep ==
    ASSUME Orderly, TypeOK, StoreInv, SavedUnlessMissed, [Next]_vars
    PROVE  SavedUnlessMissed'
<1>1. acked \subseteq Kept \union lost /\ log \in Seq(Row)
    BY DEF SavedUnlessMissed, TypeOK
<1>2. ASSUME UNCHANGED <<log, acked, lost>> PROVE SavedUnlessMissed'
    BY <1>1, <1>2, SameLogSameViews DEF SavedUnlessMissed
<1>3. ASSUME NEW h \in Handles, NEW r \in Row, Save(h, r) PROVE SavedUnlessMissed'
  <2>1. CASE Written(h, r) /\ acked' = acked \union {r.fp}
    <3>1. log' = Append(log, r)
        BY <2>1, WriteEffect DEF StoreInv
    <3>2. Kept' = Kept \union {r.fp}
        BY <1>1, <3>1, AppendedViews
    <3>3. QED
        BY <1>1, <1>3, <2>1, <3>2 DEF SavedUnlessMissed, Save
  <2>2. CASE Refused(h, r) /\ UNCHANGED acked
    <3>1. UNCHANGED log
        BY <2>2, WriteEffect DEF StoreInv
    <3>2. QED
        BY <1>2, <1>3, <2>2, <3>1 DEF Save
  <2>3. QED
      BY <1>3, <2>1, <2>2 DEF Save
<1>4. ASSUME NEW h \in Handles, SaveHeld(h) PROVE SavedUnlessMissed'
  <2>1. held[h] \in Row /\ Save(h, held[h])
      BY <1>4 DEF SaveHeld, TypeOK
  <2>2. QED
      BY <1>3, <2>1
<1>5. ASSUME NEW h \in Handles, NEW f \in Fps, Discover(h, f) PROVE SavedUnlessMissed'
  <2> DEFINE r == [fp |-> f, at |-> now, dup |-> TitleClash(h, f), pushed |-> FALSE]
  <2>1. r \in Row /\ Save(h, r)
      BY <1>5 DEF Discover, TypeOK, Row, TitleClash
  <2> HIDE DEF r
  <2>2. QED
      BY <1>3, <2>1
<1>6. ASSUME NEW h \in Handles, NEW f \in Fps, MarkPushed(h, f) PROVE SavedUnlessMissed'
  <2>1. PICK read \in Prefixes(log) :
          /\ Reads(read)
          /\ IF f \in FpsOf(read)
             THEN LET r == [ViewIn(read, f) EXCEPT !.pushed = TRUE] IN
                  Written(h, r) \/ Refused(h, r)
             ELSE UNCHANGED <<log, tail, faults>>
      BY <1>6 DEF MarkPushed
  <2> DEFINE r == [ViewIn(read, f) EXCEPT !.pushed = TRUE]
  <2>2. f \in FpsOf(read) => r \in Row
    <3>1. f \in FpsOf(read) => ViewIn(read, f) \in Row
        BY <2>1, ReadTypes
    <3>2. QED
        BY <3>1 DEF Row
  <2>3. (f \in FpsOf(read) /\ (Written(h, r) \/ Refused(h, r))) \/ log' = log
      BY <2>1
  <2> HIDE DEF r
  <2>4. (r \in Row /\ log' = Append(log, r)) \/ log' = log
    <3>1. Written(h, r) => log' = Append(log, r)
        BY <1>1, WriteEffect DEF StoreInv
    <3>2. Refused(h, r) => log' = log
        BY <1>1, WriteEffect DEF StoreInv
    <3>3. QED
        BY <2>2, <2>3, <3>1, <3>2
  <2>5. Kept \subseteq Kept'
      BY <1>1, <2>4, AppendedViews, SameLogSameViews
  <2>6. QED
      BY <1>1, <1>6, <2>5 DEF SavedUnlessMissed, MarkPushed
<1>7. ASSUME NEW h \in Handles, CompactSwap(h) PROVE SavedUnlessMissed'
  <2>1. /\ Kept' = FpsOf(plan[h]) /\ Kept' \subseteq Kept
        /\ \A f \in Kept \ Kept' : Expired(h, View(f)) \/ f \in missed[h]
      BY <1>7, SwappedViews
  <2>2. /\ acked' = acked \ {f \in Kept \ FpsOf(plan[h]) : Expired(h, View(f))}
        /\ lost' = lost \union (missed[h] \ FpsOf(plan[h]))
      BY <1>7 DEF CompactSwap
  <2>3. QED
      BY <1>1, <2>1, <2>2 DEF SavedUnlessMissed
<1>8. QED
    BY <1>2, <1>4, <1>5, <1>6, <1>7
       DEF Next, vars, history, Tick, Open, Stop, CompactRead, CompactFails, Hold

\* What Save accepted can be read back until retention drops it, or a compaction
\* whose own read missed it leaves it out - while one process has the directory
\* open and no write leaves part of a line.  Runs of module MCStore show how a
\* row is lost to another process, and to such a read.
THEOREM SavesAreReadable == Orderly /\ Spec => []SavedUnlessMissed
<1> DEFINE Inv == Orderly /\ StoreInv /\ SavedUnlessMissed
<1>1. Orderly /\ Init => Inv
    BY StoreInit DEF Init, SavedUnlessMissed
<1>2. TypeOK /\ Inv /\ [Next]_vars => Inv'
  <2>1. Orderly => Orderly'
      BY DEF Orderly
  <2>2. QED
      BY <2>1, StoreStep, SavedStep
<1>3. Inv => SavedUnlessMissed
    OBVIOUS
<1> HIDE DEF Inv
<1>4. QED
    BY <1>1, <1>2, <1>3, TypeCorrect, PTL DEF Spec
-----------------------------------------------------------------------------
(***************************************************************************)
(* The log implements the table of module Ledger.                          *)
(***************************************************************************)
TableRows == [f \in Kept |-> View(f).at]
TableMarked == {f \in Kept : View(f).pushed}
TableMissed == UNION {missed[h] : h \in Handles}

\* What the table has marked in the next state was delivered.
LEMMA MarksAreGivenNext ==
    ASSUME TypeOK', StoreInv'
    PROVE  TableMarked' \subseteq given'
<1> SUFFICES ASSUME NEW f \in Kept', (View(f))'.pushed PROVE f \in PushedRows'
    BY DEF TableMarked, StoreInv, GivenInv
<1>1. log' \in Seq(Row) /\ f \in FpsOf(log') /\ (Latest(f))' = LatestIn(log', f)
    BY ViewsOfTheNextLog DEF TypeOK
<1>2. (Latest(f))'.pushed /\ LatestIn(log', f).fp = f
    BY <1>1, ViewOfLatest, LatestIsARow
<1>3. Max(PlacesIn(log', f)) \in DOMAIN log'
    BY <1>1, LatestIsARow
<1>4. QED
    BY <1>1, <1>2, <1>3 DEF LatestIn, PushedRows

LEMMA TableUnchanged ==
    ASSUME Kept' = Kept, \A f \in Kept : (View(f))' = View(f)
    PROVE  UNCHANGED <<TableRows, TableMarked>>
BY DEF TableRows, TableMarked

TableVars == <<TableRows, TableMarked, given, TableMissed, now>>

\* One process: what the table has missed is what its read has.
LEMMA MissedOfOne ==
    ASSUME Orderly, NEW h \in Handles
    PROVE  TableMissed = missed[h] /\ TableMissed' = missed'[h]
BY DEF Orderly, TableMissed

LEMMA MissedUnchanged == UNCHANGED missed => UNCHANGED TableMissed
BY DEF TableMissed

\* Saving a row the table has, with its instant, leaves the rows as they are.
LEMMA TableResaved ==
    ASSUME TypeOK, TypeOK', NEW r \in Row, log' = Append(log, r),
           r.fp \in Kept, r.at = View(r.fp).at
    PROVE  /\ TableRows' = TableRows
           /\ TableMarked' = IF r.pushed THEN TableMarked \union {r.fp}
                                         ELSE TableMarked \ {r.fp}
<1>1. log \in Seq(Row)
    BY DEF TypeOK
<1>2. /\ Kept' = Kept \union {r.fp} /\ \A g : g = r.fp => (Latest(g))' = r
      /\ \A g \in Kept : g # r.fp => (Latest(g))' = Latest(g)
    BY <1>1, AppendedViews
<1>3. Kept' = Kept
    BY <1>2
<1>4. \A g \in Kept : /\ (View(g))'.at = View(g).at
                       /\ (View(g))'.pushed = IF g = r.fp THEN r.pushed ELSE View(g).pushed
  <2> TAKE g \in Kept
  <2>1. /\ (View(g))'.at = (Latest(g))'.at /\ (View(g))'.pushed = (Latest(g))'.pushed
        /\ View(g).at = Latest(g).at /\ View(g).pushed = Latest(g).pushed
      BY <1>3, ViewOfLatest
  <2>2. CASE g = r.fp
      BY <1>2, <2>1, <2>2
  <2>3. CASE g # r.fp
      BY <1>2, <2>1, <2>3
  <2>4. QED
      BY <2>2, <2>3
<1>5. TableRows' = TableRows
    BY <1>3, <1>4 DEF TableRows
<1>6. TableMarked' = {g \in Kept : (View(g))'.pushed}
    BY <1>3 DEF TableMarked
<1>7. TableMarked' = {g \in Kept : IF g = r.fp THEN r.pushed ELSE View(g).pushed}
    BY <1>4, <1>6
<1>8. QED
    BY <1>5, <1>7 DEF TableMarked

\* Discover is the table's Record, or nothing when the row is refused.
LEMMA DiscoverIsRecord ==
    ASSUME Orderly, TypeOK, TypeOK', StoreInv,
           NEW h \in Handles, NEW f \in Fps, Discover(h, f)
    PROVE  Table!Record(f) \/ UNCHANGED TableVars
<1> DEFINE r == [fp |-> f, at |-> now, dup |-> TitleClash(h, f), pushed |-> FALSE]
<1>1. r \in Row /\ r.fp = f /\ r.pushed = FALSE /\ r.at = now
    BY DEF TypeOK, Row, TitleClash
<1>2. Save(h, r) /\ fd[h] # "down" /\ f \notin seen[h]
    BY DEF Discover, Idle
<1>3. f \notin Kept
    BY <1>2 DEF StoreInv, RestartAgrees
<1> HIDE DEF r
<1>4. UNCHANGED <<now, given, TableMissed>>
    BY <1>2, MissedUnchanged DEF Save, Discover
<1>5. CASE Written(h, r)
  <2>1. log' = Append(log, r)
      BY <1>5, WriteEffect DEF StoreInv
  <2>2. /\ Kept' = Kept \union {f} /\ \A g : g = f => (Latest(g))' = r
        /\ \A g \in Kept : g # f => (Latest(g))' = Latest(g)
      BY <1>1, <2>1, AppendedViews DEF TypeOK
  <2>3. (View(f))'.at = now /\ (View(f))'.pushed = FALSE
      BY <1>1, <2>2, ViewOfLatest
  <2>4. \A g \in Kept : (View(g))'.at = View(g).at /\ (View(g))'.pushed = View(g).pushed
    <3> TAKE g \in Kept
    <3>1. g \in Kept' /\ (Latest(g))' = Latest(g)
        BY <1>3, <2>2
    <3>2. QED
        BY <3>1, ViewOfLatest
  <2>5. DOMAIN TableRows = Kept
      BY DEF TableRows
  <2>6. TableRows' = [g \in Kept \union {f} |-> IF g = f THEN now ELSE TableRows[g]]
      BY <1>3, <2>2, <2>3, <2>4 DEF TableRows
  <2>7. TableMarked' = TableMarked
      BY <1>3, <2>2, <2>3, <2>4 DEF TableMarked
  <2>8. Table!Record(f)
      BY <1>3, <1>4, <2>5, <2>6, <2>7 DEF Table!Record, TableRows, TableMarked, TableMissed
  <2>9. QED
      BY <2>8
<1>6. CASE Refused(h, r)
  <2>1. UNCHANGED log
      BY <1>6, WriteEffect DEF StoreInv
  <2>2. UNCHANGED <<TableRows, TableMarked>>
      BY <2>1, SameLogSameViews, TableUnchanged
  <2>3. QED
      BY <1>4, <2>2 DEF TableVars
<1>7. QED
    BY <1>2, <1>5, <1>6 DEF Save

\* SaveHeld is the table's Rewrite: a row whose read missed one may bring an
\* older mark back, nothing else.
LEMMA SaveHeldIsRewrite ==
    ASSUME Orderly, TypeOK, TypeOK', StoreInv, NEW h \in Handles, SaveHeld(h)
    PROVE  Table!Rewrite({})
<1> DEFINE r == held[h]
<1>1. Save(h, r) /\ r # None /\ missed' = [missed EXCEPT ![h] = {}]
    BY DEF SaveHeld
<1>2. r \in Row
    BY <1>1 DEF TypeOK
<1>3. ReadRow(h, r)
    BY <1>1 DEF StoreInv, HeldInv
<1>4. TableMissed = missed[h] /\ TableMissed' = {}
    BY <1>1, MissedOfOne DEF TypeOK
<1> HIDE DEF r
<1>5. UNCHANGED <<now, given>> /\ (Written(h, r) \/ Refused(h, r))
    BY <1>1 DEF Save
<1>6. /\ TableRows' = TableRows
      /\ \A f \in Kept \ TableMissed : f \in TableMarked' <=> f \in TableMarked
  <2>1. CASE Written(h, r)
    <3>1. log' = Append(log, r)
        BY <2>1, WriteEffect DEF StoreInv
    <3>2. /\ TableRows' = TableRows
          /\ TableMarked' = IF r.pushed THEN TableMarked \union {r.fp}
                                        ELSE TableMarked \ {r.fp}
        BY <1>2, <1>3, <3>1, TableResaved DEF ReadRow
    <3>3. r.fp \notin missed[h] => (r.pushed <=> r.fp \in TableMarked)
        BY <1>2, <1>3 DEF TableMarked, Row, ReadRow
    <3>4. QED
        BY <1>4, <3>2, <3>3
  <2>2. CASE Refused(h, r)
    <3>1. UNCHANGED log
        BY <2>2, WriteEffect DEF StoreInv
    <3>2. QED
        BY <3>1, SameLogSameViews, TableUnchanged
  <2>3. QED
      BY <1>5, <2>1, <2>2
<1>7. DOMAIN TableRows = Kept /\ [g \in DOMAIN TableRows \ {} |-> TableRows[g]] = TableRows
    BY DEF TableRows
<1>8. TableMarked' \subseteq given'
  <2>1. StoreInv'
      BY SaveHeldKeepsInv
  <2>2. QED
      BY <2>1, MarksAreGivenNext
<1>9. QED
    BY <1>4, <1>5, <1>6, <1>7, <1>8 DEF Table!Rewrite, TableRows, TableMarked, TableMissed

\* MarkPushed is the table's Mark, whether or not the row reached the file.
LEMMA MarkPushedIsMark ==
    ASSUME Orderly, TypeOK, TypeOK', StoreInv,
           NEW h \in Handles, NEW f \in Fps, MarkPushed(h, f)
    PROVE  Table!Mark(f)
<1>1. f \in Kept
    BY DEF MarkPushed, Idle, StoreInv, RestartAgrees
<1>2. PICK read \in Prefixes(log) :
        /\ Reads(read)
        /\ IF f \in FpsOf(read)
           THEN LET r == [ViewIn(read, f) EXCEPT !.pushed = TRUE] IN
                Written(h, r) \/ Refused(h, r)
           ELSE UNCHANGED <<log, tail, faults>>
    BY DEF MarkPushed
<1>3. given' = given \union {f} /\ UNCHANGED <<now, missed>>
    BY DEF MarkPushed
<1> DEFINE r == [ViewIn(read, f) EXCEPT !.pushed = TRUE]
<1>4. ASSUME f \in FpsOf(read), Written(h, r)
      PROVE  TableRows' = TableRows /\ TableMarked' = TableMarked \union {f}
  <2>1. /\ ViewIn(read, f) \in Row /\ ViewIn(read, f).fp = f
        /\ ViewIn(read, f).at = View(f).at
      BY <1>2, <1>4, ReadTypes, ReadGivesReadRows DEF StoreInv
  <2>2. r \in Row /\ r.fp = f /\ r.at = View(f).at /\ r.pushed = TRUE
      BY <2>1 DEF Row
  <2> HIDE DEF r
  <2>3. log' = Append(log, r)
      BY <1>4, WriteEffect DEF StoreInv
  <2>4. /\ TableRows' = TableRows
        /\ TableMarked' = IF r.pushed THEN TableMarked \union {r.fp}
                                      ELSE TableMarked \ {r.fp}
      BY <1>1, <2>2, <2>3, TableResaved
  <2>5. QED
      BY <2>2, <2>4
<1>5. ASSUME UNCHANGED log PROVE TableRows' = TableRows /\ TableMarked' = TableMarked
    BY <1>5, SameLogSameViews, TableUnchanged
<1>6. ASSUME Refused(h, r) PROVE UNCHANGED log
  <2> HIDE DEF r
  <2>1. QED
      BY <1>6, WriteEffect DEF StoreInv
<1>7. TableRows' = TableRows /\ TableMarked' \in {TableMarked, TableMarked \union {f}}
  <2>1. (f \in FpsOf(read) /\ (Written(h, r) \/ Refused(h, r))) \/ UNCHANGED log
      BY <1>2
  <2> HIDE DEF r
  <2>2. QED
      BY <1>4, <1>5, <1>6, <2>1
<1>8. f \in DOMAIN TableRows
    BY <1>1 DEF TableRows
<1>9. UNCHANGED TableMissed
    BY <1>3, MissedUnchanged
<1>10. QED
    BY <1>3, <1>7, <1>8, <1>9 DEF Table!Mark, TableRows, TableMarked, TableMissed

\* CompactSwap is the table's Rewrite: what it drops is past retention, and weak
\* or delivered, or was missed; a row it keeps has its mark unless it was missed.
LEMMA CompactSwapIsRewrite ==
    ASSUME Orderly, TypeOK, TypeOK', StoreInv, NEW h \in Handles, CompactSwap(h),
           NEW S, S = Kept \ Kept'
    PROVE  Table!Rewrite(S)
<1>1. /\ Kept' \subseteq Kept
      /\ \A f \in Kept' : /\ (Latest(f))'.at = View(f).at
                          /\ f \in missed[h] \/ (Latest(f))'.pushed = View(f).pushed
      /\ \A f \in Kept \ Kept' : Expired(h, View(f)) \/ f \in missed[h]
    BY SwappedViews
<1>2. UNCHANGED <<now, given>> /\ missed' = [missed EXCEPT ![h] = {}]
    BY DEF CompactSwap
<1>3. TableMissed = missed[h] /\ TableMissed' = {}
    BY <1>2, MissedOfOne DEF TypeOK
<1>4. \A f \in Kept' : /\ (View(f))'.at = View(f).at
                       /\ f \in missed[h] \/ (View(f))'.pushed = View(f).pushed
    BY <1>1, ViewOfLatest
<1>5. DOMAIN TableRows = Kept
    BY DEF TableRows
<1>6. ASSUME NEW f \in Kept \ Kept', f \notin TableMissed
      PROVE  Keep > 0 /\ TableRows[f] < now - Keep /\ f \in given \union (Fps \ Strong)
  <2>1. Expired(h, View(f)) /\ View(f).fp = f /\ f \in Fps
      BY <1>1, <1>3, <1>6, ViewTypes
  <2>2. high[h] \subseteq given
      BY DEF StoreInv, GivenInv
  <2>3. TableRows[f] = View(f).at
      BY DEF TableRows
  <2>4. QED
      BY <2>1, <2>2, <2>3 DEF Expired
<1>7. Kept \ (Kept \ Kept') = Kept'
    BY <1>1
<1>8. TableRows' = [g \in Kept \ (Kept \ Kept') |-> TableRows[g]]
  <2>1. TableRows' = [g \in Kept' |-> (View(g))'.at]
      BY DEF TableRows
  <2>2. \A g \in Kept' : (View(g))'.at = TableRows[g]
    <3>1. \A g \in Kept : TableRows[g] = View(g).at
        BY DEF TableRows
    <3>2. QED
        BY <1>1, <1>4, <3>1
  <2>3. QED
      BY <1>7, <2>1, <2>2
<1>9. DOMAIN TableRows' = Kept'
    BY <1>7, <1>8
<1>10. TableMarked' = {g \in Kept' : (View(g))'.pushed}
    BY DEF TableMarked
<1>11. TableMarked' \subseteq given \ (Kept \ Kept')
  <2>1. StoreInv'
      BY CompactSwapKeepsInv
  <2>2. TableMarked' \subseteq given'
      BY <2>1, MarksAreGivenNext
  <2>3. QED
      BY <1>2, <1>10, <2>2
<1>12. \A f \in Kept' \ TableMissed : f \in TableMarked' <=> f \in TableMarked
  <2> TAKE f \in Kept' \ TableMissed
  <2>1. (View(f))'.pushed = View(f).pushed
      BY <1>3, <1>4
  <2>2. f \in TableMarked' <=> (View(f))'.pushed
      BY <1>10
  <2>3. f \in TableMarked <=> View(f).pushed
      BY <1>1 DEF TableMarked
  <2>4. QED
      BY <2>1, <2>2, <2>3
<1>13. QED
    BY <1>2, <1>3, <1>5, <1>6, <1>8, <1>9, <1>11, <1>12
       DEF Table!Rewrite, Table!Old, TableRows, TableMarked, TableMissed

\* A step that only starts or drops a read is the table's Read.
LEMMA QuietStepIsRead ==
    ASSUME Orderly, TypeOK, NEW h \in Handles,
           UNCHANGED <<log, now, given>>,
           NEW S, S = missed'[h], S \subseteq Kept
    PROVE  Table!Read(S)
<1>1. UNCHANGED <<TableRows, TableMarked>>
    BY SameLogSameViews, TableUnchanged
<1>2. DOMAIN TableRows = Kept /\ TableMissed' = missed'[h]
    BY MissedOfOne DEF TableRows
<1>3. QED
    BY <1>1, <1>2 DEF Table!Read, TableRows, TableMarked, TableMissed

LEMMA TableInit == Init => Table!Init
<1> SUFFICES ASSUME Init PROVE Table!Init
    OBVIOUS
<1>1. Kept = {}
    BY DEF Init, Kept, FpsOf
<1>2. TableRows = << >> /\ TableMarked = {} /\ TableMissed = {}
    BY <1>1 DEF Init, TableRows, TableMarked, TableMissed
<1>3. QED
    BY <1>2 DEF Init, Table!Init, TableRows, TableMarked, TableMissed

LEMMA TableStep ==
    ASSUME Orderly, TypeOK, TypeOK', StoreInv, [Next]_vars
    PROVE  [Table!Next]_TableVars
<1>1. ASSUME UNCHANGED <<log, now, given, missed>> PROVE UNCHANGED TableVars
    BY <1>1, SameLogSameViews, TableUnchanged, MissedUnchanged DEF TableVars
<1>2. CASE Tick
  <2>1. UNCHANGED <<TableRows, TableMarked, TableMissed>>
      BY <1>2, SameLogSameViews, TableUnchanged, MissedUnchanged DEF Tick, history
  <2>2. Table!Tick
      BY <1>2, <2>1 DEF Tick, history, Table!Tick, TableRows, TableMarked, TableMissed
  <2>3. QED
      BY <2>2 DEF Table!Next
<1>3. ASSUME NEW h \in Handles,
             \/ Open(h) \/ Stop(h) \/ CompactRead(h) \/ CompactFails(h)
             \/ \E f \in Fps : Hold(h, f)
      PROVE  Table!Next \/ UNCHANGED TableVars
  <2>1. CASE Open(h)
      BY <1>1, <2>1 DEF Open, history
  <2>2. ASSUME UNCHANGED <<log, now, given>>, missed'[h] \subseteq Kept
        PROVE  Table!Next
    <3> PICK S : S = missed'[h]
        OBVIOUS
    <3>1. Table!Read(S) /\ S \in SUBSET Fps
        BY <2>2, QuietStepIsRead, KeptTypes
    <3>2. QED
        BY <3>1 DEF Table!Next
  <2>3. CASE Stop(h) \/ CompactFails(h)
    <3>1. missed'[h] = {}
        BY <2>3 DEF Stop, CompactFails, TypeOK
    <3>2. QED
        BY <2>2, <2>3, <3>1 DEF Stop, CompactFails
  <2>4. CASE CompactRead(h) \/ \E f \in Fps : Hold(h, f)
    <3>1. \E read \in Prefixes(log) : missed' = [missed EXCEPT ![h] = MissedBy(read)]
        BY <2>4 DEF CompactRead, Hold
    <3>2. missed'[h] \subseteq Kept
        BY <3>1, PrefixOfTheLog DEF TypeOK
    <3>3. QED
        BY <2>2, <2>4, <3>2 DEF CompactRead, Hold
  <2>5. QED
      BY <1>3, <2>1, <2>3, <2>4
<1>4. ASSUME NEW h \in Handles, SaveHeld(h) PROVE Table!Next
  <2> DEFINE none == {}
  <2>1. Table!Rewrite(none) /\ none \in SUBSET Fps
      BY <1>4, SaveHeldIsRewrite
  <2> HIDE DEF none
  <2>2. QED
      BY <2>1 DEF Table!Next
<1>5. ASSUME NEW h \in Handles, CompactSwap(h) PROVE Table!Next
  <2> PICK S : S = Kept \ Kept'
      OBVIOUS
  <2>1. Table!Rewrite(S)
      BY <1>5, CompactSwapIsRewrite
  <2>2. S \in SUBSET Fps
      BY KeptTypes
  <2>3. QED
      BY <2>1, <2>2 DEF Table!Next
<1>6. ASSUME NEW h \in Handles, NEW f \in Fps, Discover(h, f)
      PROVE  Table!Next \/ UNCHANGED TableVars
  <2>1. Table!Record(f) \/ UNCHANGED TableVars
      BY <1>6, DiscoverIsRecord
  <2>2. QED
      BY <2>1 DEF Table!Next
<1>7. ASSUME NEW h \in Handles, NEW f \in Fps, MarkPushed(h, f) PROVE Table!Next
  <2>1. Table!Mark(f)
      BY <1>7, MarkPushedIsMark
  <2>2. QED
      BY <2>1 DEF Table!Next
<1>8. CASE UNCHANGED vars
    BY <1>1, <1>8 DEF vars, history
<1>9. QED
    BY <1>2, <1>3, <1>4, <1>5, <1>6, <1>7, <1>8 DEF Next

\* While one process has the directory open and no write leaves part of a line,
\* the log with its corrections, folds and compactions is the table of module
\* Ledger: a row enters once with its instant, and only retention, or a rewrite
\* from a read that missed it, removes it or takes its mark back.
THEOREM LogImplementsLedger == Orderly /\ Spec => ImplementsLedger
<1> DEFINE Inv == Orderly /\ StoreInv
<1>1. Orderly /\ Init => Inv
    BY StoreInit
<1>2. TypeOK /\ Inv /\ [Next]_vars => Inv'
  <2>1. Orderly => Orderly'
      BY DEF Orderly
  <2>2. QED
      BY <2>1, StoreStep
<1>3. TypeOK /\ TypeOK' /\ Inv /\ [Next]_vars => [Table!Next]_TableVars
    BY TableStep
<1>4. ImplementsLedger <=> Table!Init /\ [][Table!Next]_TableVars
    BY DEF ImplementsLedger, Table!Spec, TableVars, TableRows, TableMarked, TableMissed
<1> HIDE DEF Inv
<1>5. QED
    BY <1>1, <1>2, <1>3, <1>4, TypeCorrect, TableInit, PTL DEF Spec
=============================================================================
