-------------------------------- MODULE Paging --------------------------------
(***************************************************************************)
(* Listing jobs or datasets page by page (read/queries.rs jobs, datasets):  *)
(* every page counts the rows, then reads LIMIT rows from OFFSET on, in the *)
(* order of their names.  PostgreSQL promises no order among equal names,   *)
(* and the projection inserts rows meanwhile.  Rows are <<namespace, name>>.*)
(***************************************************************************)
EXTENDS Integers, SequencesExt

CONSTANTS
  Rows,    \* the rows there may be
  Scopes,  \* the namespaces that are listed; AllNamespaces lists all
  Rank,    \* Rank[name]: the order of the names
  Limit,   \* page size
  AllNamespaces

ASSUME PagingAssumption ==
  /\ Limit \in Nat \ {0}
  /\ \A r \in Rows : r = <<r[1], r[2]>> /\ Rank[r[2]] \in Int
  /\ \A r, q \in Rows : Rank[r[2]] = Rank[q[2]] => r[2] = q[2]

VARIABLES
  table,   \* the rows
  pc,      \* "idle", "count", "page"
  scope,   \* what is listed
  offset,  \* of the next page
  total,   \* total_count of the last page
  got,     \* the rows received, in order
  first,   \* the rows there were at the start (history variable)
  late     \* a row came between the last count and its page (history variable)

listing == <<pc, scope, offset, total, got, first>>
vars == <<table, listing, late>>

Matching == {r \in table : scope \in {r[1], AllNamespaces}}

\* ORDER BY name
ByName(r, q) == Rank[r[2]] <= Rank[q[2]]
Ordered ==
  {s \in SetToSeqs(Matching) : \A i \in 1..(Len(s) - 1) : ByName(s[i], s[i + 1])}

\* LIMIT and OFFSET
Slice(s, from) ==
  [i \in 1..Max({0, Min({Limit, Len(s) - from})}) |-> s[from + i]]

Init ==
  /\ table = {} /\ pc = "idle" /\ scope \in Scopes
  /\ offset = 0 /\ total = 0 /\ got = << >> /\ first = {} /\ late = FALSE

\* Listing begins: the offset is 0 by default.
List(s) ==
  /\ pc = "idle"
  /\ pc' = "count" /\ scope' = s /\ offset' = 0 /\ total' = 0 /\ got' = << >>
  /\ first' = {r \in table : s \in {r[1], AllNamespaces}}
  /\ UNCHANGED <<table, late>>

Count ==
  /\ pc = "count"
  /\ total' = Cardinality(Matching)
  /\ pc' = "page" /\ late' = FALSE
  /\ UNCHANGED <<table, scope, offset, got, first>>

\* Mutation: the offset counts from one.
PageFromOne ==
  /\ pc = "page"
  /\ \E s \in Ordered :
       LET page == Slice(s, offset + 1)
       IN got' = got \o page /\ offset' = offset + Limit
  /\ pc' = IF offset' >= total THEN "idle" ELSE "count"
  /\ UNCHANGED <<table, scope, total, first, late>>
\* The client advances "until total is reached".
Page ==
  /\ pc = "page"
  /\ \E s \in Ordered :
       LET page == Slice(s, offset)
       IN got' = got \o page /\ offset' = offset + Limit
  /\ pc' = IF offset' >= total THEN "idle" ELSE "count"
  /\ UNCHANGED <<table, scope, total, first, late>>

\* The projection meets a new job or dataset.
Insert(r) ==
  /\ r \notin table
  /\ table' = table \cup {r}
  /\ late' = (late \/ pc = "page")
  /\ UNCHANGED listing

Next ==
  \/ \E s \in Scopes : List(s)
  \/ Count \/ Page
  \/ \E r \in Rows : Insert(r)

Spec == Init /\ [][Next]_vars

-------------------------------------------------------------------------------
(* Properties *)

\* A client that pages "by advancing until total is reached" has every row there
\* was when it began, although rows inserted meanwhile move the others, if none
\* came between the last page and its count (jobs, datasets: the count first);
\* and if no row of the listing came at all, its pages are the ordered list, no
\* row missing or repeated.
CountedPagingReachesAll ==
  pc = "idle" /\ ~ late =>
    /\ first \subseteq ToSet(got)
    /\ Matching = first => got \in Ordered

-------------------------------------------------------------------------------
(* The inductive invariant behind it *)

\* No two rows of a listing have the same name, so that ORDER BY name is one order.
NamesDiffer ==
  \A s \in Scopes : \A r, q \in {x \in Rows : s \in {x[1], AllNamespaces}} :
    r[2] = q[2] => r = q

TypeOK ==
  /\ table \subseteq Rows /\ IsFiniteSet(table)
  /\ pc \in {"idle", "count", "page"} /\ scope \in Scopes
  /\ offset \in Nat /\ total \in Nat /\ got \in Seq(Rows)

\* A row still owed lies at or after the offset, wherever inserts moved it: the rows
\* before it only become more.
Preceding(r) == {q \in Matching : Rank[q[2]] < Rank[r[2]]}
OwedLieAhead ==
  /\ first \subseteq Matching
  /\ pc # "idle" => \A r \in first \ ToSet(got) : offset <= Cardinality(Preceding(r))

\* Until a row comes the rows received are the first ones of the order.
ReceivedInOrder ==
  Matching = first =>
    /\ \A i \in DOMAIN got : got[i] \in Matching /\ Cardinality(Preceding(got[i])) = i - 1
    /\ pc # "idle" => Len(got) = IF offset <= Cardinality(Matching) THEN offset
                                ELSE Cardinality(Matching)

\* The last count still holds.
CountIsFresh == pc = "page" /\ ~ late => total = Cardinality(Matching)

IInv ==
  TypeOK /\ OwedLieAhead /\ ReceivedInOrder /\ CountIsFresh /\ CountedPagingReachesAll
==============================================================================
