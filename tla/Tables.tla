--------------------------------- MODULE Tables ---------------------------------
(***************************************************************************)
(* The lists of the console: their filters, their pages and the number of   *)
(* rows that the server tells with each page.  A filter is sent to the      *)
(* server with the page, or applied in the browser to the rows of the page  *)
(* that was answered.                                                       *)
(***************************************************************************)
EXTENDS Integers, FiniteSets

CONSTANTS
  TableSubjects,  \* the tables looked at: see TableSubject in Console
  Rows,           \* the rows that may exist, numbered in the order listed
  Sizes           \* the rows per page that can be chosen

ASSUME RowsAssumption  == Rows \subseteq Nat /\ IsFiniteSet(Rows)
ASSUME SizesAssumption == Sizes \subseteq Nat \ {0} /\ Sizes # {}

VARIABLES
  table,      \* the table
  rows,       \* the rows that exist
  others,     \* rows that the total counts and the list never shows
  matching,   \* per filter, the rows that match it when it is set
  set,        \* the filters that are set
  page, size, \* the page and the rows per page
  answer,     \* what was answered for them: its rows and total, or None
  beyond,     \* the page was empty when the bar offered it
  shrunk      \* rows left the list since the page was chosen, or before that
              \* without being seen

vars == <<table, rows, others, matching, set, page, size, answer, beyond, shrunk>>

None == [rows |-> {}, total |-> -1]

-----------------------------------------------------------------------------
(* The server (list handlers and get_all of the repositories).               *)

\* The rows a query with the present server filters finds.
Found == {r \in rows : "server" \in set => r \in matching["server"]}

\* skip and limit: the rows of Found whose rank is on the page.
OnPage(p) ==
  {r \in Found : LET rank == Cardinality({q \in Found : q < r})
                 IN  (p - 1) * size <= rank /\ rank < p * size}

\* X-Total-Count does not look at the filters: it counts the rows of the
\* organization, and is missing from two lists.
Total ==
  CASE table.total = "all"  -> Cardinality(rows)
    [] table.total = "more" -> Cardinality(rows) + others
    [] table.total = "none" -> 0

\* The answer is what the server would answer now.
Current == answer = [rows |-> OnPage(page), total |-> Total]

Answer ==
  /\ answer' = [rows |-> OnPage(page), total |-> Total]
  /\ UNCHANGED <<table, rows, others, matching, set, page, size, beyond, shrunk>>

\* Rows are added and deleted, and come to match a filter or not, by this
\* user or by anybody else; what is shown stays until the next answer.
Add ==
  \E r \in Rows \ rows :
    /\ rows' = rows \union {r}
    /\ UNCHANGED <<table, others, matching, set, page, size, answer, beyond, shrunk>>

Delete ==
  \E r \in rows :
    /\ rows' = rows \ {r}
    /\ shrunk' = TRUE
    /\ UNCHANGED <<table, others, matching, set, page, size, answer, beyond>>

Move ==
  \E f \in table.filters, r \in rows :
    /\ matching' = [matching EXCEPT ![f] = IF r \in @ THEN @ \ {r} ELSE @ \union {r}]
    /\ shrunk' = TRUE
    /\ UNCHANGED <<table, rows, others, set, page, size, answer, beyond>>

-----------------------------------------------------------------------------
(* The user.                                                                 *)

\* Setting or clearing a filter.  One that is sent is part of the query's
\* key: the answer of the former key is not shown for it.
Filter ==
  \E f \in table.filters :
    /\ set' = IF f \in set THEN set \ {f} ELSE set \union {f}
    /\ page' = IF f \in table.resets THEN 1 ELSE page
    /\ answer' = IF f = "server" \/ page' # page THEN None ELSE answer
    /\ beyond' = (beyond /\ f \notin table.resets)
    /\ shrunk' = (shrunk /\ f \notin table.resets)
    /\ UNCHANGED <<table, rows, others, matching, size>>

(* components/TablePagination.tsx                                            *)

TotalPagesWrong(total) == total \div size
TotalPages(total) == IF total = 0 THEN 1 ELSE (total + size - 1) \div size

\* The bar is below the rows, and with some tables not there without them;
\* its pages are there when there is more than one.
Shown == {r \in answer.rows : "client" \in set => r \in matching["client"]}

Bar   == answer # None /\ (table.bar = "always" \/ Shown # {})
Pages == IF Bar /\ TotalPages(answer.total) > 1 THEN 1..TotalPages(answer.total) ELSE {}

TurnTo ==
  \E p \in Pages \ {page} :
    /\ page' = p
    /\ answer' = None
    /\ beyond' = (OnPage(p) = {})
    /\ shrunk' = ~Current
    /\ UNCHANGED <<table, rows, others, matching, set, size>>

Resize ==
  /\ Bar
  /\ \E n \in Sizes \ {size} :
       /\ size' = n
       /\ page' = IF "pageSize" \in table.resets THEN 1 ELSE page
       /\ answer' = None
       /\ beyond' = (beyond /\ "pageSize" \notin table.resets)
       /\ shrunk' = (shrunk /\ "pageSize" \notin table.resets)
       /\ UNCHANGED <<table, rows, others, matching, set>>

-----------------------------------------------------------------------------
Init ==
  /\ table \in TableSubjects
  /\ rows \in SUBSET Rows
  /\ others \in (IF table.total = "more" THEN 0..1 ELSE {0})
  /\ matching \in [table.filters -> SUBSET Rows]
  /\ set = {} /\ page = 1 /\ size \in Sizes
  /\ answer = None
  /\ beyond = FALSE /\ shrunk = FALSE

Next == Answer \/ Add \/ Delete \/ Move \/ Filter \/ TurnTo \/ Resize

Spec == Init /\ [][Next]_vars

-----------------------------------------------------------------------------

Matching == {r \in Found : "client" \in set => r \in matching["client"]}

\* What can explain an empty page of a list that is not empty: rows that left
\* the list; a search that sees one page of several; a page offered by a total
\* that counts too much.
Explained ==
  \/ shrunk
  \/ "client" \in set /\ Cardinality(Found) > size
  \/ beyond /\ ("server" \in set \/ table.total = "more")

\* A list that says it is empty is empty: the controls that narrow it go back
\* to its first page.  The tables whose controls do not are in Console.
EmptyMeansNone ==
  Current /\ Shown = {} /\ ~table.keepsPage /\ ~Explained => Matching = {}

\* On a page that exists, every row is on it or on one that the bar offers.
\* It does not hold of the tables without a total, listed in Console.
EveryRowHasAPage ==
  Current /\ Bar /\ page <= TotalPages(answer.total) /\ ~table.uncounted
    => \A r \in Found : \E p \in Pages \union {page} : r \in OnPage(p)

\* From an empty page beyond the first, whatever led there, the first can be
\* reached without changing what is listed: by the bar, or by another size.
WayBack ==
  Current /\ page > 1 /\ Shown = {} /\ ~table.trap
    => 1 \in Pages \/ ENABLED (Resize /\ page' = 1)

-----------------------------------------------------------------------------
(* What a table must be for these to hold of any rows, and the invariant     *)
(* that carries it.                                                          *)

\* The screens that are not listed in Console go back to the first page when
\* the server's filter or the size is changed, and the lists that are not, tell
\* a total.
Orderly(t) ==
  /\ t.total \in {"all", "more", "none"}
  /\ t.total = "none" => t.uncounted
  /\ ~t.keepsPage => (t.filters \intersect {"server"}) \union {"pageSize"} \subseteq t.resets

TypeOK ==
  /\ table \in TableSubjects
  /\ rows \subseteq Rows /\ others \in Nat
  /\ matching \in [table.filters -> SUBSET Rows] /\ set \subseteq table.filters
  /\ page \in Nat \ {0} /\ size \in Sizes
  /\ answer \in [rows : SUBSET Rows, total : Int]
  /\ beyond \in BOOLEAN /\ shrunk \in BOOLEAN

\* A later page that nothing has emptied since it was chosen has a row on it,
\* or was offered by a total that counts too much.
PageInv ==
  ~table.keepsPage /\ ~shrunk /\ page > 1 =>
    IF beyond THEN "server" \in set \/ table.total = "more"
              ELSE Cardinality(Found) > (page - 1) * size
=============================================================================
