---------------------------- MODULE TablesProofs ----------------------------
(***************************************************************************)
(* For any finite set of rows, any sizes of pages and any tables whose     *)
(* controls go back to the first page: every row found is on a page that   *)
(* the bar offers, and a list that says it is empty is empty.              *)
(***************************************************************************)
EXTENDS Tables, Functions, FiniteSetTheorems, TLAPS

-----------------------------------------------------------------------------
(* Ranks and pages *)

\* How many elements of S come before r.
Rank(S, r) == Cardinality({q \in S : q < r})

LEMMA RankType ==
    ASSUME NEW S \in SUBSET Nat, IsFiniteSet(S), NEW r \in S
    PROVE  Rank(S, r) \in Nat /\ Rank(S, r) < Cardinality(S)
  <1> DEFINE before == {q \in S : q < r}
  <1>1. before \in SUBSET S /\ r \notin before
    OBVIOUS
  <1> HIDE DEF before
  <1>2. /\ IsFiniteSet(before)
        /\ Cardinality(before) <= Cardinality(S)
        /\ Cardinality(S) = Cardinality(before) => S = before
    BY <1>1, FS_Subset
  <1>3. Cardinality(before) \in Nat /\ Cardinality(S) \in Nat /\ S # before
    BY <1>1, <1>2, FS_CardinalityType
  <1> QED
    BY <1>2, <1>3 DEF Rank, before

LEMMA RankGrows ==
    ASSUME NEW S \in SUBSET Nat, IsFiniteSet(S), NEW r \in S, NEW q \in S, q < r
    PROVE  Rank(S, q) < Rank(S, r)
  <1> DEFINE beforeR == {x \in S : x < r}
             beforeQ == {x \in S : x < q}
  <1>1. beforeR \in SUBSET S /\ beforeQ \in SUBSET beforeR /\ q \in beforeR /\ q \notin beforeQ
    <2>1. \A x \in S : x < q => x < r
      OBVIOUS
    <2>2. beforeQ \in SUBSET beforeR
      BY <2>1, Zenon
    <2>3. ~(q < q)
      OBVIOUS
    <2>4. q \in beforeR /\ q \notin beforeQ
      BY <2>3
    <2> QED
      BY <2>2, <2>4
  <1> HIDE DEF beforeR, beforeQ
  <1>2. IsFiniteSet(beforeR)
    BY <1>1, FS_Subset
  <1>3. /\ IsFiniteSet(beforeQ)
        /\ Cardinality(beforeQ) <= Cardinality(beforeR)
        /\ Cardinality(beforeR) = Cardinality(beforeQ) => beforeR = beforeQ
    BY <1>1, <1>2, FS_Subset
  <1>4. Cardinality(beforeR) \in Nat /\ Cardinality(beforeQ) \in Nat /\ beforeR # beforeQ
    BY <1>1, <1>2, <1>3, FS_CardinalityType
  <1> QED
    BY <1>3, <1>4 DEF Rank, beforeR, beforeQ

\* No rank is left out: they are as many as the elements, and all different.
LEMMA RankExists ==
    ASSUME NEW S \in SUBSET Nat, IsFiniteSet(S), NEW k \in Nat, k < Cardinality(S)
    PROVE  \E r \in S : Rank(S, r) = k
  <1> DEFINE n == Cardinality(S)
             ranks == 0..(n - 1)
             f == [r \in S |-> Rank(S, r)]
  <1>1. n \in Nat
    BY FS_CardinalityType
  <1>2. IsFiniteSet(ranks) /\ Cardinality(ranks) = n
    <2> HIDE DEF n
    <2>1. /\ IsFiniteSet(0..(n - 1))
          /\ Cardinality(0..(n - 1)) = IF 0 > n - 1 THEN 0 ELSE (n - 1) - 0 + 1
      BY <1>1, FS_Interval
    <2> QED
      BY <1>1, <2>1
  <1>3. f \in [S -> ranks]
    BY <1>1, RankType
  <1>4. ASSUME NEW r \in S, NEW q \in S, f[r] = f[q] PROVE r = q
    <2>1. Rank(S, r) = Rank(S, q) /\ Rank(S, r) \in Nat
      BY <1>4, RankType
    <2>2. ~(r < q) /\ ~(q < r)
      BY <2>1, RankGrows, RankType
    <2> QED
      BY <2>2
  <1>5. f \in Injection(S, ranks)
    BY <1>3, <1>4 DEF Injection, IsInjective
  <1>6. f \in Surjection(S, ranks)
    <2> HIDE DEF f, ranks
    <2> QED
      BY <1>2, <1>5, FS_Injection DEF n
  <1>7. k \in ranks
    BY <1>1
  <1> QED
    BY <1>6, <1>7 DEF Surjection

LEMMA DivBounds ==
    ASSUME NEW a \in Nat, NEW n \in Nat \ {0}
    PROVE  (a \div n) \in Nat /\ (a \div n) * n <= a /\ a < (a \div n) * n + n
  OBVIOUS

\* Multiples of a page's size are in the order of the pages.
LEMMA MultipleOrder ==
    ASSUME NEW p \in Int, NEW q \in Int, NEW n \in Nat \ {0}, p * n < q * n
    PROVE  p < q
  <1>1. CASE q <= p
    <2>1. PICK d \in Nat : p = q + d
      BY <1>1
    <2>2. p * n = q * n + d * n /\ d * n >= 0
      BY <2>1
    <2> QED
      BY <2>2
  <1> QED
    BY <1>1

\* The pages that components/TablePagination.tsx counts are those that are begun.
LEMMA PagesBegun ==
    ASSUME TypeOK, NEW total \in Nat, NEW p \in Nat \ {0}
    PROVE  /\ TotalPages(total) \in Nat
           /\ (p - 1) * size < total => p <= TotalPages(total)
           /\ p <= TotalPages(total) /\ TotalPages(total) > 1 => (p - 1) * size < total
  <1>0. size \in Nat \ {0}
    BY SizesAssumption DEF TypeOK
  <1> DEFINE a == total + size - 1
             t == a \div size
  <1>1. a \in Nat /\ a = total + size - 1
    BY <1>0
  <1> HIDE DEF a
  <1>2. t \in Nat /\ t * size <= a /\ a < t * size + size
    BY <1>0, <1>1, DivBounds
  <1> HIDE DEF t
  <1>3. CASE total = 0
    <2>1. (p - 1) * size \in Int /\ (p - 1) * size >= 0
      BY <1>0
    <2>2. TotalPages(total) = 1
      BY <1>3 DEF TotalPages
    <2> QED
      BY <1>3, <2>1, <2>2
  <1>4. CASE total # 0
    <2>1. TotalPages(total) = t
      BY <1>4 DEF TotalPages, t, a
    <2>2. /\ (p - 1) * size \in Int /\ (p - 1) * size + size = p * size
          /\ t * size \in Int /\ (t + 1) * size = t * size + size
      BY <1>0, <1>2
    <2>3. ASSUME (p - 1) * size < total PROVE p <= t
      <3>1. p * size < (t + 1) * size
        BY <1>0, <1>1, <1>2, <2>2, <2>3
      <3>2. p < t + 1
        BY <1>0, <1>2, <3>1, MultipleOrder
      <3> QED
        BY <1>2, <3>2
    <2>4. ASSUME p <= t PROVE (p - 1) * size < total
      <3>1. PICK d \in Nat : t = p + d
        BY <1>2, <2>4
      <3>2. t * size = p * size + d * size /\ d * size >= 0
        BY <1>0, <3>1
      <3> QED
        BY <1>0, <1>1, <1>2, <2>2, <3>2
    <2> QED
      BY <1>2, <2>1, <2>3, <2>4
  <1> QED
    BY <1>3, <1>4

-----------------------------------------------------------------------------
(* What is found *)

LEMMA FoundFinite ==
    ASSUME TypeOK
    PROVE  /\ IsFiniteSet(rows) /\ Cardinality(rows) \in Nat
           /\ Found \in SUBSET rows /\ Found \in SUBSET Nat /\ IsFiniteSet(Found)
           /\ Cardinality(Found) \in Nat /\ Cardinality(Found) <= Cardinality(rows)
  <1>1. IsFiniteSet(rows) /\ rows \in SUBSET Nat
    BY RowsAssumption, FS_Subset DEF TypeOK
  <1>2. Found \in SUBSET rows
    BY DEF Found
  <1> QED
    BY <1>1, <1>2, FS_Subset, FS_CardinalityType

\* The rows on a page are those of the ranks of the page.
LEMMA OnPageRank ==
    ASSUME NEW p, NEW r
    PROVE  r \in OnPage(p) <=>
             r \in Found /\ (p - 1) * size <= Rank(Found, r) /\ Rank(Found, r) < p * size
  BY DEF OnPage, Rank

\* A page that what is found reaches is not empty.
LEMMA PageReached ==
    ASSUME TypeOK, NEW p \in Nat \ {0}
    PROVE  Cardinality(Found) > (p - 1) * size <=> OnPage(p) # {}
  <1>0. size \in Nat \ {0} /\ (p - 1) * size \in Nat /\ (p - 1) * size < p * size
    <2>1. size \in Nat \ {0}
      BY SizesAssumption DEF TypeOK
    <2>2. PICK m \in Nat : m = p - 1
      OBVIOUS
    <2>3. m * size \in Nat /\ (m + 1) * size = m * size + size
      BY <2>1
    <2> QED
      BY <2>1, <2>2, <2>3
  <1>1. ASSUME Cardinality(Found) > (p - 1) * size PROVE OnPage(p) # {}
    <2>1. PICK r \in Found : Rank(Found, r) = (p - 1) * size
      BY <1>0, <1>1, FoundFinite, RankExists
    <2> QED
      BY <1>0, <2>1, OnPageRank
  <1>2. ASSUME NEW r \in OnPage(p) PROVE Cardinality(Found) > (p - 1) * size
    <2>1. r \in Found /\ (p - 1) * size <= Rank(Found, r)
      BY <1>2, OnPageRank
    <2>2. Rank(Found, r) \in Nat /\ Rank(Found, r) < Cardinality(Found)
      BY <2>1, FoundFinite, RankType
    <2> QED
      BY <1>0, <2>1, <2>2, FoundFinite
  <1> QED
    BY <1>1, <1>2

LEMMA TotalType ==
    ASSUME TypeOK, Orderly(table)
    PROVE  /\ Total \in Nat
           /\ table.total = "none" => Total = 0
           /\ table.total = "all" => Total = Cardinality(rows)
           /\ table.total # "none" => Cardinality(rows) <= Total
  BY FoundFinite DEF TypeOK, Orderly, Total

-----------------------------------------------------------------------------
(* Types *)

LEMMA NextType ==
    ASSUME TypeOK, Orderly(table), [Next]_vars
    PROVE  TypeOK'
  <1>1. CASE Answer
    <2>1. OnPage(page) \in SUBSET Rows
      BY DEF OnPage, Found, TypeOK
    <2>2. answer' \in [rows : SUBSET Rows, total : Int]
      BY <1>1, <2>1, TotalType DEF Answer
    <2> QED
      BY <1>1, <2>2 DEF Answer, TypeOK
  <1>2. CASE Add
    BY <1>2 DEF Add, TypeOK
  <1>3. CASE Delete
    BY <1>3 DEF Delete, TypeOK
  <1>4. CASE Move
    BY <1>4 DEF Move, TypeOK
  <1>5. CASE Filter
    BY <1>5 DEF Filter, TypeOK, None
  <1>6. CASE TurnTo
    BY <1>6 DEF TurnTo, TypeOK, None, Pages
  <1>7. CASE Resize
    BY <1>7 DEF Resize, TypeOK, None
  <1>8. CASE UNCHANGED vars
    BY <1>8 DEF vars, TypeOK
  <1> QED
    BY <1>1, <1>2, <1>3, <1>4, <1>5, <1>6, <1>7, <1>8 DEF Next

\* Every variable keeps its type.
THEOREM TypeCorrect ==
    ASSUME \A t \in TableSubjects : Orderly(t)
    PROVE  Spec => []TypeOK
  <1>1. Init => TypeOK
    <2> SUFFICES ASSUME Init PROVE TypeOK
      OBVIOUS
    <2>1. answer \in [rows : SUBSET Rows, total : Int]
      BY DEF Init, None
    <2>2. others \in Nat
      BY DEF Init
    <2>3. table \in TableSubjects /\ rows \subseteq Rows /\ set \subseteq table.filters
      BY DEF Init
    <2>4. matching \in [table.filters -> SUBSET Rows] /\ page \in Nat \ {0} /\ size \in Sizes
      BY DEF Init
    <2>5. beyond \in BOOLEAN /\ shrunk \in BOOLEAN
      BY DEF Init
    <2> QED
      BY <2>1, <2>2, <2>3, <2>4, <2>5 DEF TypeOK
  <1>2. TypeOK /\ [Next]_vars => TypeOK'
    BY NextType DEF TypeOK
  <1> QED
    BY <1>1, <1>2, PTL DEF Spec

-----------------------------------------------------------------------------
(* Pages for all rows *)

LEMMA RowHasAPage ==
    ASSUME TypeOK, Orderly(table)
    PROVE  EveryRowHasAPage
  <1> SUFFICES ASSUME Current, Bar, page <= TotalPages(answer.total), ~table.uncounted,
                      NEW r \in Found
               PROVE  \E p \in Pages \union {page} : r \in OnPage(p)
    BY DEF EveryRowHasAPage
  <1>1. size \in Nat \ {0} /\ page \in Nat \ {0}
    BY SizesAssumption DEF TypeOK
  <1>2. answer.total = Total /\ Total \in Nat /\ Cardinality(Found) <= Total
    <2>1. answer.total = Total
      BY DEF Current
    <2> QED
      BY <2>1, TotalType, FoundFinite DEF Orderly
  <1>3. PICK k \in Nat : k = Rank(Found, r) /\ k < Total
    BY <1>2, FoundFinite, RankType
  <1>4. (k \div size) \in Nat /\ (k \div size) * size <= k /\ k < (k \div size) * size + size
    BY <1>1, DivBounds
  <1>5. PICK p \in Nat \ {0} : (p - 1) * size <= k /\ k < p * size
    <2>1. PICK q \in Nat : q = k \div size
      BY <1>4
    <2>2. (q + 1) * size = q * size + size /\ (q + 1) - 1 = q /\ q + 1 \in Nat \ {0}
      BY <1>1
    <2> QED
      BY <1>4, <2>1, <2>2
  <1>6. r \in OnPage(p)
    BY <1>3, <1>5, OnPageRank
  <1>7. TotalPages(Total) \in Nat /\ p <= TotalPages(Total)
    <2>1. (p - 1) * size < Total
      BY <1>1, <1>2, <1>3, <1>5
    <2> QED
      BY <1>2, <2>1, PagesBegun
  <1>8. p \in Pages \union {page}
    BY <1>1, <1>2, <1>7 DEF Pages
  <1> QED
    BY <1>6, <1>8

\* Where the list has a bar and the bar a total, every row that the server finds
\* is on a page that components/TablePagination.tsx offers or on the present one.
THEOREM EveryRowHasAPageHolds ==
    ASSUME \A t \in TableSubjects : Orderly(t)
    PROVE  Spec => []EveryRowHasAPage
  <1>1. TypeOK => EveryRowHasAPage
    BY RowHasAPage DEF TypeOK
  <1>2. Spec => []TypeOK
    BY TypeCorrect
  <1> QED
    BY <1>1, <1>2, PTL

-----------------------------------------------------------------------------
(* Empty lists *)

\* A page is chosen by a total that does not count too much, or one that does.
LEMMA TurnToPage ==
    ASSUME TypeOK, Orderly(table), TurnTo
    PROVE  PageInv'
  <1>1. PICK p \in Pages :
          /\ page' = p /\ beyond' = (OnPage(p) = {}) /\ shrunk' = ~Current
          /\ UNCHANGED <<table, rows, others, matching, set, size>>
    BY DEF TurnTo
  <1>2. Found' = Found
    BY <1>1 DEF Found
  <1> SUFFICES ASSUME Current
               PROVE  IF OnPage(p) = {} THEN "server" \in set \/ table.total = "more"
                                        ELSE Cardinality(Found) > (p - 1) * size
    BY <1>1, <1>2 DEF PageInv
  <1>3. Total \in Nat /\ answer.total = Total
    BY TotalType DEF Current
  <1>4. p \in Nat \ {0} /\ p <= TotalPages(Total) /\ TotalPages(Total) > 1
    BY <1>1, <1>3 DEF Pages
  <1>5. (p - 1) * size < Total
    BY <1>3, <1>4, PagesBegun
  <1>6. CASE OnPage(p) # {}
    BY <1>4, <1>6, PageReached
  <1>7. ASSUME OnPage(p) = {}, "server" \notin set, table.total # "more" PROVE FALSE
    <2>1. table.total # "none"
      BY <1>3, <1>4, TotalType DEF TotalPages
    <2>2. Total = Cardinality(rows)
      BY <1>7, <2>1, TotalType DEF Orderly
    <2>3. Found = rows
      BY <1>7 DEF Found
    <2> QED
      BY <1>4, <1>5, <1>7, <2>2, <2>3, PageReached
  <1> QED
    BY <1>6, <1>7

LEMMA NextPage ==
    ASSUME TypeOK, PageInv, Orderly(table), [Next]_vars
    PROVE  PageInv'
  <1>1. CASE Answer \/ UNCHANGED vars
    BY <1>1 DEF Answer, vars, PageInv, Found
  <1>2. CASE Add
    <2>1. PICK r \in Rows : /\ rows' = rows \union {r}
                            /\ UNCHANGED <<table, matching, set, page, size, beyond, shrunk>>
      BY <1>2 DEF Add
    <2>2. Found \in SUBSET Found'
      BY <2>1 DEF Found
    <2>3. Found' \in SUBSET Rows
      BY <2>1 DEF Found, TypeOK
    <2>4. IsFiniteSet(Found') /\ Cardinality(Found') \in Nat
      BY <2>3, RowsAssumption, FS_Subset, FS_CardinalityType
    <2>5. Cardinality(Found) <= Cardinality(Found')
      BY <2>2, <2>4, FS_Subset
    <2>6. (page - 1) * size \in Int
      BY SizesAssumption DEF TypeOK
    <2> QED
      BY <2>1, <2>4, <2>5, <2>6, FoundFinite DEF PageInv
  <1>3. CASE Delete \/ Move
    BY <1>3 DEF Delete, Move, PageInv
  <1>4. CASE Filter
    <2>1. PICK f \in table.filters :
            /\ set' = IF f \in set THEN set \ {f} ELSE set \union {f}
            /\ page' = IF f \in table.resets THEN 1 ELSE page
            /\ beyond' = (beyond /\ f \notin table.resets)
            /\ shrunk' = (shrunk /\ f \notin table.resets)
            /\ UNCHANGED <<table, rows, others, matching, size>>
      BY <1>4 DEF Filter
    <2>2. CASE f \in table.resets
      BY <2>1, <2>2 DEF PageInv
    <2>3. CASE f \notin table.resets /\ ~table.keepsPage
      <3>1. f # "server"
        BY <2>3 DEF Orderly
      <3>2. "server" \in set' <=> "server" \in set
        BY <2>1, <3>1
      <3>3. Found' = Found
        BY <2>1, <3>2 DEF Found
      <3> QED
        BY <2>1, <2>3, <3>2, <3>3 DEF PageInv, TypeOK
    <2>4. CASE table.keepsPage
      BY <2>1, <2>4 DEF PageInv
    <2> QED
      BY <2>2, <2>3, <2>4
  <1>5. CASE TurnTo
    BY <1>5, TurnToPage
  <1>6. CASE Resize
    BY <1>6 DEF Resize, PageInv, Orderly
  <1> QED
    BY <1>1, <1>2, <1>3, <1>4, <1>5, <1>6 DEF Next

LEMMA NothingMissed ==
    ASSUME TypeOK, PageInv
    PROVE  EmptyMeansNone
  <1> SUFFICES ASSUME Current, Shown = {}, ~table.keepsPage, ~Explained
               PROVE  Matching = {}
    BY DEF EmptyMeansNone
  <1>1. answer.rows = OnPage(page) /\ size \in Nat \ {0} /\ page \in Nat \ {0}
    BY SizesAssumption DEF Current, TypeOK
  <1>2. CASE "client" \in set
    <2>1. Cardinality(Found) <= size
      BY <1>1, <1>2, FoundFinite DEF Explained
    <2>2. page = 1
      <3>1. ASSUME page > 1 PROVE FALSE
        <4>1. Cardinality(Found) > (page - 1) * size
          BY <3>1 DEF PageInv, Explained
        <4>2. PICK m \in Nat : page - 1 = m + 1
          BY <1>1, <3>1
        <4>3. (m + 1) * size = m * size + size /\ m * size >= 0
          BY <1>1
        <4> QED
          BY <1>1, <2>1, <4>1, <4>2, <4>3, FoundFinite
      <3> QED
        BY <1>1, <3>1
    <2>3. Found \subseteq OnPage(page)
      <3> SUFFICES ASSUME NEW r \in Found PROVE r \in OnPage(1)
        BY <2>2
      <3>1. Rank(Found, r) \in Nat /\ Rank(Found, r) < Cardinality(Found)
        BY FoundFinite, RankType
      <3>2. (1 - 1) * size = 0 /\ 1 * size = size
        BY <1>1
      <3> QED
        BY <1>1, <2>1, <3>1, <3>2, FoundFinite, OnPageRank
    <2> QED
      BY <1>1, <1>2, <2>3 DEF Shown, Matching
  <1>3. CASE "client" \notin set
    <2>1. OnPage(page) = {}
      BY <1>1, <1>3 DEF Shown
    <2>2. ~(Cardinality(Found) > (page - 1) * size)
      BY <1>1, <2>1, PageReached
    <2>3. page = 1
      BY <1>1, <2>2 DEF PageInv, Explained
    <2>4. Cardinality(Found) = 0
      <3>1. (1 - 1) * size = 0
        BY <1>1
      <3> QED
        BY <2>2, <2>3, <3>1, FoundFinite
    <2>5. Found = {}
      BY <2>4, FoundFinite, FS_EmptySet
    <2> QED
      BY <2>5 DEF Matching
  <1> QED
    BY <1>2, <1>3

\* A list that says it is empty is empty, unless rows have left it meanwhile, it
\* searches one page of several, or its total counts what is filtered out: for
\* any rows, however they come and go, and any order of filters, pages and sizes.
THEOREM EmptyMeansNoneHolds ==
    ASSUME \A t \in TableSubjects : Orderly(t)
    PROVE  Spec => []EmptyMeansNone
  <1>1. Init => PageInv
    BY DEF Init, PageInv
  <1>2. TypeOK /\ PageInv /\ [Next]_vars => PageInv'
    BY NextPage DEF TypeOK
  <1>3. TypeOK /\ PageInv => EmptyMeansNone
    BY NothingMissed
  <1>4. Spec => []TypeOK
    BY TypeCorrect
  <1> QED
    BY <1>1, <1>2, <1>3, <1>4, PTL DEF Spec
=============================================================================
