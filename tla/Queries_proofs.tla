---------------------------- MODULE Queries_proofs ----------------------------
(***************************************************************************)
(* Theorems about the queries a client repeats: the pages of a list, for   *)
(* any rows and any page size, and the lineage of a dataset's columns and  *)
(* of a tag, for any datasets, edges and tags.                             *)
(***************************************************************************)
EXTENDS Paging, FieldLineage, SequenceLemmas

-------------------------------------------------------------------------------
(* One order *)

\* The rows M in the order of their names, when these differ.
Sorted(M, s) ==
  /\ s \in SetToSeqs(M)
  /\ \A i \in 1..(Len(s) - 1) : ByName(s[i], s[i + 1])
Distinct(M) ==
  /\ \A r \in M : Rank[r[2]] \in Int
  /\ \A r, q \in M : Rank[r[2]] = Rank[q[2]] => r = q

LEMMA SortedHasAll ==
  ASSUME NEW M, IsFiniteSet(M), NEW s, Sorted(M, s)
  PROVE  /\ Cardinality(M) \in Nat /\ s \in Seq(M) /\ Len(s) = Cardinality(M)
         /\ \A i, j \in 1..Len(s) : i # j => s[i] # s[j]
         /\ \A r \in M : \E k \in 1..Len(s) : s[k] = r
<1> DEFINE n == Cardinality(M)
<1>1. n \in Nat
  BY FS_CardinalityType
<1>2. s \in [1..n -> M] /\ \A i, j \in 1..n : i # j => s[i] # s[j]
  BY DEF Sorted, SetToSeqs
<1>3. s \in Seq(M) /\ Len(s) = n
  BY <1>1, <1>2
<1>4. s \in Injection(1..n, M)
  BY <1>2 DEF Injection, IsInjective
<1>5. Cardinality(1..n) = n
  BY <1>1, FS_Interval
<1>6. s \in Surjection(1..n, M)
  BY <1>4, <1>5, FS_Injection
<1>7. \A r \in M : \E k \in 1..n : s[k] = r
  BY <1>6 DEF Surjection
<1> QED BY <1>1, <1>2, <1>3, <1>7

LEMMA SortedIncreases ==
  ASSUME NEW M, IsFiniteSet(M), Distinct(M), NEW s, Sorted(M, s),
         NEW i \in 1..Len(s), NEW j \in 1..Len(s), i < j
  PROVE  Rank[s[i][2]] < Rank[s[j][2]]
<1>1. /\ Len(s) \in Nat /\ \A k \in 1..Len(s) : s[k] \in M /\ Rank[s[k][2]] \in Int
      /\ \A k, l \in 1..Len(s) : k # l => s[k] # s[l]
  <2>1. Len(s) \in Nat /\ \A k \in 1..Len(s) : s[k] \in M
    BY SortedHasAll
  <2> QED BY <2>1, SortedHasAll DEF Distinct
<1> DEFINE T == {k \in Nat : k + i < Len(s) => Rank[s[i][2]] < Rank[s[i + k + 1][2]]}
<1>2. ASSUME NEW k \in 1..Len(s), k + 1 \in 1..Len(s)
      PROVE  Rank[s[k][2]] < Rank[s[k + 1][2]]
  <2>1. k \in 1..(Len(s) - 1)
    BY <1>1, <1>2
  <2>2. Rank[s[k][2]] <= Rank[s[k + 1][2]]
    BY <2>1 DEF Sorted, ByName
  <2>3. s[k] # s[k + 1]
    BY <1>1, <1>2
  <2>4. Rank[s[k][2]] # Rank[s[k + 1][2]]
    BY <1>1, <1>2, <2>3 DEF Distinct
  <2> QED BY <1>1, <1>2, <2>2, <2>4
<1>3. 0 \in T
  <2>1. i + 0 + 1 = i + 1 /\ 0 + i = i
    OBVIOUS
  <2>2. i < Len(s) => i + 1 \in 1..Len(s)
    BY <1>1
  <2> QED BY <1>2, <2>1, <2>2
<1>4. ASSUME NEW k \in T
      PROVE  k + 1 \in T
  <2>1. SUFFICES ASSUME (k + 1) + i < Len(s)
                 PROVE  Rank[s[i][2]] < Rank[s[i + (k + 1) + 1][2]]
    OBVIOUS
  <2>2. k \in Nat /\ k + i < Len(s)
    BY <1>1, <2>1
  <2>3. Rank[s[i][2]] < Rank[s[i + k + 1][2]]
    BY <2>2
  <2>4. i + k + 1 \in 1..Len(s) /\ (i + k + 1) + 1 \in 1..Len(s)
        /\ (i + k + 1) + 1 = i + (k + 1) + 1
    BY <1>1, <2>1
  <2>5. Rank[s[i + k + 1][2]] < Rank[s[i + (k + 1) + 1][2]]
    BY <1>2, <2>4
  <2> QED BY <1>1, <2>3, <2>4, <2>5
<1>5. T = Nat
  <2> HIDE DEF T
  <2>1. T \in SUBSET Nat
    BY DEF T
  <2> QED BY <1>3, <1>4, <2>1, Induction
<1>6. j - i - 1 \in T /\ (j - i - 1) + i < Len(s) /\ i + (j - i - 1) + 1 = j
  <2> HIDE DEF T
  <2> QED BY <1>1, <1>5
<1> QED BY <1>6

\* The place of a row in the order tells how many come before it.
LEMMA PlaceCounts ==
  ASSUME NEW M, IsFiniteSet(M), Distinct(M), NEW s, Sorted(M, s), NEW k \in 1..Len(s)
  PROVE  Cardinality({q \in M : Rank[q[2]] < Rank[s[k][2]]}) = k - 1
<1> DEFINE before == {q \in M : Rank[q[2]] < Rank[s[k][2]]}
           f == [i \in 1..(k - 1) |-> s[i]]
<1>1. /\ Len(s) \in Nat /\ \A i \in 1..Len(s) : s[i] \in M /\ Rank[s[i][2]] \in Int
      /\ \A i, j \in 1..Len(s) : i # j => s[i] # s[j]
      /\ \A r \in M : \E i \in 1..Len(s) : s[i] = r
  <2>1. /\ Len(s) \in Nat /\ \A i \in 1..Len(s) : s[i] \in M
        /\ \A i, j \in 1..Len(s) : i # j => s[i] # s[j]
        /\ \A r \in M : \E i \in 1..Len(s) : s[i] = r
    BY SortedHasAll
  <2>2. \A i \in 1..Len(s) : Rank[s[i][2]] \in Int
    BY <2>1 DEF Distinct
  <2> QED BY <2>1, <2>2
<1>2. ASSUME NEW i \in 1..(k - 1)
      PROVE  i \in 1..Len(s) /\ s[i] \in before
  <2>1. i \in 1..Len(s) /\ i < k
    BY <1>1
  <2>2. Rank[s[i][2]] < Rank[s[k][2]]
    BY <2>1, SortedIncreases
  <2> QED BY <1>1, <2>1, <2>2
<1>3. ASSUME NEW q \in before
      PROVE  \E i \in 1..(k - 1) : f[i] = q
  <2>1. PICK i \in 1..Len(s) : s[i] = q
    BY <1>1
  <2>2. i < k
    <3>1. CASE i = k
      BY <1>1, <2>1, <3>1
    <3>2. CASE k < i
      <4>1. Rank[s[k][2]] < Rank[s[i][2]]
        BY <3>2, SortedIncreases
      <4> QED BY <1>1, <2>1, <4>1
    <3> QED BY <3>1, <3>2
  <2>3. i \in 1..(k - 1)
    BY <2>2
  <2> QED BY <2>1, <2>3
<1>4. f \in Bijection(1..(k - 1), before)
  <2>1. f \in [1..(k - 1) -> before]
    BY <1>2
  <2>2. \A a, b \in 1..(k - 1) : f[a] = f[b] => a = b
    BY <1>1, <1>2
  <2> HIDE DEF f, before
  <2> QED BY <1>3, <2>1, <2>2 DEF Bijection, Injection, Surjection, IsInjective
<1> HIDE DEF f, before
<1>5. IsFiniteSet(1..(k - 1)) /\ Cardinality(1..(k - 1)) = k - 1
  BY FS_Interval
<1>6. ExistsBijection(1..(k - 1), before)
  BY <1>4 DEF ExistsBijection
<1>7. Cardinality(before) = k - 1
  BY <1>5, <1>6, FS_Bijection
<1> QED BY <1>7 DEF before

-------------------------------------------------------------------------------
(* One page *)

\* A page holds what lies in it.
LEMMA SliceHolds ==
  ASSUME NEW V, NEW s \in Seq(V), NEW from \in Nat
  PROVE  /\ Slice(s, from) \in Seq(V)
         /\ \A k \in 1..Len(s) : from < k /\ k <= from + Limit => s[k] \in ToSet(Slice(s, from))
<1>1. Limit \in Nat /\ Len(s) \in Nat /\ \A k \in 1..Len(s) : s[k] \in V
  <2>1. Len(s) \in Nat /\ \A k \in 1..Len(s) : s[k] \in V
    BY ElementOfSeq
  <2> QED BY <2>1, PagingAssumption
<1> DEFINE l == IF Limit <= Len(s) - from THEN Limit ELSE Len(s) - from
           m == IF 0 >= l THEN 0 ELSE l
<1>2. Slice(s, from) = [i \in 1..m |-> s[from + i]]
  <2>1. Min({Limit, Len(s) - from}) = l
    BY <1>1, MinOfTwo
  <2>2. l \in Int
    BY <1>1
  <2> HIDE DEF l
  <2>3. Max({0, l}) = m
    BY <2>2, MaxOfTwo
  <2> QED BY <2>1, <2>3 DEF Slice
<1>3. m \in Nat /\ \A i \in 1..m : from + i \in 1..Len(s)
  BY <1>1
<1>4. Slice(s, from) \in Seq(V) /\ DOMAIN Slice(s, from) = 1..m
  <2> HIDE DEF m
  <2> QED BY <1>1, <1>2, <1>3
<1>5. ASSUME NEW k \in 1..Len(s), from < k, k <= from + Limit
      PROVE  s[k] \in ToSet(Slice(s, from))
  <2>1. k - from \in 1..m /\ from + (k - from) = k
    BY <1>1, <1>5
  <2> HIDE DEF m
  <2>2. Slice(s, from)[k - from] = s[k]
    BY <1>2, <2>1
  <2> QED BY <1>4, <2>1, <2>2 DEF ToSet
<1> QED BY <1>4, <1>5

LEMMA ConcatHolds ==
  ASSUME NEW V, NEW s \in Seq(V), NEW t \in Seq(V)
  PROVE  s \o t \in Seq(V) /\ ToSet(s \o t) = ToSet(s) \cup ToSet(t)
<1>1. s \o t \in Seq(V)
  BY ConcatProperties
<1>2. s \in Seq(ToSet(s)) /\ t \in Seq(ToSet(t))
  BY SeqOfElements
<1> QED BY <1>1, <1>2, ConcatElements

-------------------------------------------------------------------------------
(* The invariant *)

LEMMA MatchingIsFinite ==
  ASSUME TypeOK
  PROVE  Matching \subseteq table /\ IsFiniteSet(Matching) /\ Cardinality(Matching) \in Nat
<1>1. Matching \subseteq table
  BY DEF Matching
<1>2. IsFiniteSet(Matching)
  BY <1>1, FS_Subset DEF TypeOK
<1> QED BY <1>1, <1>2, FS_CardinalityType

LEMMA MatchingDiffers ==
  ASSUME TypeOK, NamesDiffer
  PROVE  Distinct(Matching)
<1>1. Matching \subseteq {x \in Rows : scope \in {x[1], AllNamespaces}} /\ scope \in Scopes
  BY DEF Matching, TypeOK
<1>2. Matching \subseteq Rows
  BY <1>1
<1> QED BY <1>1, <1>2, PagingAssumption DEF Distinct, NamesDiffer

LEMMA PrecedingIsFinite ==
  ASSUME TypeOK, NEW r
  PROVE  /\ Preceding(r) \subseteq Matching /\ IsFiniteSet(Preceding(r))
         /\ Cardinality(Preceding(r)) \in Nat
<1>1. Preceding(r) \subseteq Matching
  BY DEF Preceding
<1>2. IsFiniteSet(Preceding(r))
  BY <1>1, MatchingIsFinite, FS_Subset
<1> QED BY <1>1, <1>2, FS_CardinalityType

\* A page is the rows after the offset, Limit of them or those there are.
PageLength(n, from) ==
  IF from + Limit <= n THEN Limit ELSE IF from <= n THEN n - from ELSE 0

LEMMA SliceIs ==
  ASSUME NEW s, Len(s) \in Nat, NEW from \in Nat, NEW m, m = PageLength(Len(s), from)
  PROVE  m \in Nat /\ Slice(s, from) = [i \in 1..m |-> s[from + i]]
<1>1. Limit \in Nat /\ Len(s) \in Nat
  BY PagingAssumption
<1> DEFINE l == IF Limit <= Len(s) - from THEN Limit ELSE Len(s) - from
<1>2. m \in Nat /\ m = IF 0 >= l THEN 0 ELSE l
  BY <1>1 DEF PageLength
<1>3. Min({Limit, Len(s) - from}) = l /\ l \in Int
  BY <1>1, MinOfTwo
<1> HIDE DEF l
<1>4. Max({0, l}) = m
  BY <1>2, <1>3, MaxOfTwo
<1> QED BY <1>2, <1>3, <1>4 DEF Slice

\* Rows received in the order of their places, all of them, are the ordered list.
LEMMA AllInOrder ==
  ASSUME NEW M, M \subseteq Rows, IsFiniteSet(M), NEW g \in Seq(Rows), Len(g) = Cardinality(M),
         \A i \in DOMAIN g : /\ g[i] \in M
                             /\ Cardinality({q \in M : Rank[q[2]] < Rank[g[i][2]]}) = i - 1
  PROVE  Sorted(M, g)
<1> DEFINE n == Cardinality(M)
           P(r) == {q \in M : Rank[q[2]] < Rank[r[2]]}
<1>1. n \in Nat /\ DOMAIN g = 1..n
  BY FS_CardinalityType
<1>2. /\ g \in [1..n -> M]
      /\ \A i \in 1..n : g[i] \in Rows /\ Cardinality(P(g[i])) = i - 1
  <2>1. \A i \in 1..n : g[i] \in M /\ Cardinality(P(g[i])) = i - 1
    BY <1>1
  <2>2. g = [i \in 1..n |-> g[i]]
    BY <1>1
  <2> QED BY <2>1, <2>2
<1> HIDE DEF P
<1>3. \A i, j \in 1..n : i # j => g[i] # g[j]
  <2>1. \A i, j \in 1..n : i # j => i - 1 # j - 1
    OBVIOUS
  <2> QED BY <1>2, <2>1
<1>4. ASSUME NEW i \in 1..(n - 1)
      PROVE  ByName(g[i], g[i + 1])
  <2>1. i \in 1..n /\ i + 1 \in 1..n
    BY <1>1
  <2>2. /\ Rank[g[i][2]] \in Int /\ Rank[g[i + 1][2]] \in Int
        /\ Cardinality(P(g[i])) = i - 1 /\ Cardinality(P(g[i + 1])) = i
    BY <1>2, <2>1, PagingAssumption
  <2>3. SUFFICES ASSUME Rank[g[i + 1][2]] < Rank[g[i][2]]
                 PROVE  FALSE
    BY <2>2 DEF ByName
  <2>4. ASSUME NEW q \in P(g[i + 1])
        PROVE  q \in P(g[i])
    <3>1. q \in M /\ Rank[q[2]] < Rank[g[i + 1][2]]
      BY DEF P
    <3>2. Rank[q[2]] \in Int
      BY <3>1, PagingAssumption
    <3>3. Rank[q[2]] < Rank[g[i][2]]
      BY <2>2, <2>3, <3>1, <3>2
    <3> QED BY <3>1, <3>3 DEF P
  <2>5. P(g[i + 1]) \subseteq P(g[i]) /\ P(g[i]) \subseteq M
    BY <2>4 DEF P
  <2>6. IsFiniteSet(P(g[i]))
    BY <2>5, FS_Subset
  <2>7. Cardinality(P(g[i + 1])) <= Cardinality(P(g[i]))
    BY <2>5, <2>6, FS_Subset
  <2> QED BY <2>1, <2>2, <2>7
<1> QED BY <1>1, <1>2, <1>3, <1>4 DEF Sorted, SetToSeqs

\* While no row has come, a page goes on where the rows received end.
LEMMA PageGoesOn ==
  ASSUME TypeOK, NamesDiffer, ReceivedInOrder, pc = "page", Matching = first,
         NEW s \in Ordered, NEW new, new = got \o Slice(s, offset), NEW n, n = Cardinality(Matching)
  PROVE  /\ \A i \in DOMAIN new : new[i] \in Matching /\ Cardinality(Preceding(new[i])) = i - 1
         /\ Len(new) = IF offset + Limit <= n THEN offset + Limit ELSE n
<1> DEFINE m == PageLength(n, offset)
<1>1. IsFiniteSet(Matching) /\ Distinct(Matching) /\ Sorted(Matching, s)
  BY MatchingIsFinite, MatchingDiffers DEF Ordered, Sorted
<1>2. n \in Nat /\ s \in Seq(Matching) /\ Len(s) = n
  BY <1>1, SortedHasAll
<1>3. m \in Nat /\ Slice(s, offset) = [i \in 1..m |-> s[offset + i]]
  <2>1. offset \in Nat /\ m = PageLength(Len(s), offset) /\ Len(s) \in Nat
    BY <1>2 DEF TypeOK
  <2> HIDE DEF m
  <2> QED BY ONLY <2>1, SliceIs
<1>4. /\ offset \in Nat /\ Limit \in Nat /\ got \in Seq(Rows) /\ Len(got) \in Nat
      /\ DOMAIN got = 1..Len(got)
  BY PagingAssumption DEF TypeOK
<1>5. Len(got) = IF offset <= n THEN offset ELSE n
  BY DEF ReceivedInOrder
<1>6. m = IF offset + Limit <= n THEN Limit ELSE IF offset <= n THEN n - offset ELSE 0
  BY DEF PageLength
<1> HIDE DEF m
<1>7. /\ Len(new) = Len(got) + m /\ DOMAIN new = 1..(Len(got) + m)
      /\ \A i \in 1..Len(got) : new[i] = got[i]
      /\ \A i \in 1..m : new[Len(got) + i] = s[offset + i]
  <2>1. PICK page : page = Slice(s, offset)
    OBVIOUS
  <2>2. page = [i \in 1..m |-> s[offset + i]] /\ m \in Nat
    BY <1>3, <2>1
  <2>3. page \in Seq({s[offset + i] : i \in 1..m}) /\ Len(page) = m
    BY <2>2
  <2>4. page \in Seq(ToSet(page)) /\ got \in Seq(ToSet(got))
    BY <1>4, <2>3, SeqOfElements
  <2>5. new = got \o page
    BY <2>1
  <2> QED BY <1>4, <2>2, <2>3, <2>4, <2>5
<1>8. ASSUME NEW i \in DOMAIN new
      PROVE  new[i] \in Matching /\ Cardinality(Preceding(new[i])) = i - 1
  <2>1. CASE i \in 1..Len(got)
    BY <1>4, <1>7, <2>1 DEF ReceivedInOrder
  <2>2. CASE i \notin 1..Len(got)
    <3>1. PICK j \in 1..m : i = Len(got) + j
      <4>1. i - Len(got) \in 1..m /\ i = Len(got) + (i - Len(got))
        BY <1>3, <1>4, <1>7, <2>2
      <4> QED BY <4>1
    <3>2. Len(got) = offset /\ i \in 1..n
      BY <1>2, <1>3, <1>4, <1>5, <1>6, <3>1
    <3>3. new[i] = s[i]
      BY <1>7, <3>1, <3>2
    <3>4. s[i] \in Matching
      BY <1>2, <3>2
    <3>5. Cardinality(Preceding(s[i])) = i - 1
      BY <1>1, <1>2, <3>2, PlaceCounts DEF Preceding
    <3> QED BY <3>3, <3>4, <3>5
  <2> QED BY <2>1, <2>2
<1>9. Len(new) = IF offset + Limit <= n THEN offset + Limit ELSE n
  BY <1>2, <1>3, <1>4, <1>5, <1>6, <1>7
<1> QED BY <1>8, <1>9

\* Of the rows that lie at or after the offset, those not in its page lie at or after
\* the next one.
LEMMA PageTakes ==
  ASSUME TypeOK, NamesDiffer, NEW s \in Ordered, NEW r \in Matching,
         offset <= Cardinality(Preceding(r)), r \notin ToSet(Slice(s, offset))
  PROVE  offset + Limit <= Cardinality(Preceding(r))
<1>1. IsFiniteSet(Matching) /\ Distinct(Matching) /\ Sorted(Matching, s)
  BY MatchingIsFinite, MatchingDiffers DEF Ordered, Sorted
<1>2. s \in Seq(Matching) /\ Len(s) \in Nat
  BY <1>1, SortedHasAll
<1>3. PICK k \in 1..Len(s) : s[k] = r
  BY <1>1, SortedHasAll
<1>4. Cardinality(Preceding(r)) = k - 1
  BY <1>1, <1>3, PlaceCounts DEF Preceding
<1>5. offset \in Nat /\ Limit \in Nat
  BY PagingAssumption DEF TypeOK
<1>6. ~ (offset < k /\ k <= offset + Limit)
  BY <1>2, <1>3, <1>5, SliceHolds
<1> QED BY <1>2, <1>4, <1>5, <1>6

LEMMA TypeHolds == TypeOK /\ [Next]_vars => TypeOK'
<1> SUFFICES ASSUME TypeOK, [Next]_vars
             PROVE  TypeOK'
  OBVIOUS
<1> USE DEF TypeOK
<1>1. ASSUME NEW s \in Scopes, List(s)
      PROVE  TypeOK'
  BY <1>1 DEF List
<1>2. CASE Count
  BY <1>2, MatchingIsFinite DEF Count
<1>3. CASE Page
  <2>1. PICK s \in Ordered : got' = got \o Slice(s, offset)
    BY <1>3 DEF Page
  <2>2. Slice(s, offset) \in Seq(Rows)
    <3>1. s \in Seq(Matching) /\ Matching \subseteq Rows
      BY MatchingIsFinite, SortedHasAll DEF Ordered, Sorted
    <3>2. Slice(s, offset) \in Seq(Matching)
      BY <3>1, SliceHolds
    <3> QED BY <3>1, <3>2
  <2>3. got' \in Seq(Rows)
    BY <2>1, <2>2, ConcatHolds
  <2>4. offset' \in Nat
    BY <1>3, PagingAssumption DEF Page
  <2> QED BY <1>3, <2>3, <2>4 DEF Page
<1>4. ASSUME NEW r \in Rows, Insert(r)
      PROVE  TypeOK'
  <2>1. IsFiniteSet(table')
    BY <1>4, FS_AddElement DEF Insert
  <2> QED BY <1>4, <2>1 DEF Insert, listing
<1>5. CASE UNCHANGED vars
  BY <1>5 DEF vars, listing
<1> QED BY <1>1, <1>2, <1>3, <1>4, <1>5 DEF Next

\* A page brings the rows it holds closer to none owed.
LEMMA PageStep ==
  ASSUME IInv, NamesDiffer, TypeOK', Page
  PROVE  OwedLieAhead' /\ ReceivedInOrder' /\ CountIsFresh' /\ CountedPagingReachesAll'
<1>1. /\ pc = "page" /\ table' = table /\ scope' = scope /\ first' = first /\ late' = late
      /\ total' = total /\ offset' = offset + Limit
      /\ pc' = IF offset' >= total THEN "idle" ELSE "count"
  BY DEF Page
<1>2. PICK s \in Ordered : got' = got \o Slice(s, offset)
  BY DEF Page
<1>3. TypeOK /\ first \subseteq Matching /\ ReceivedInOrder
  BY DEF IInv, OwedLieAhead
<1>4. ToSet(got') = ToSet(got) \cup ToSet(Slice(s, offset))
  <2>1. s \in Seq(Matching) /\ Matching \subseteq Rows
    BY <1>3, MatchingIsFinite, SortedHasAll DEF Ordered, Sorted, TypeOK
  <2>2. Slice(s, offset) \in Seq(Matching)
    BY <1>3, <2>1, SliceHolds DEF TypeOK
  <2>3. Slice(s, offset) \in Seq(Rows)
    BY <2>1, <2>2
  <2> QED BY <1>2, <1>3, <2>3, ConcatHolds DEF TypeOK
<1>5. ASSUME NEW r \in first, r \notin ToSet(got')
      PROVE  offset + Limit <= Cardinality(Preceding(r))
  <2>1. offset <= Cardinality(Preceding(r))
    BY <1>1, <1>4, <1>5 DEF IInv, OwedLieAhead
  <2> QED BY <1>3, <1>4, <1>5, <2>1, PageTakes
<1>6. Matching' = Matching /\ \A r : Preceding(r)' = Preceding(r)
  BY <1>1 DEF Matching, Preceding
<1>7. OwedLieAhead'
  BY <1>1, <1>3, <1>5, <1>6 DEF OwedLieAhead
<1>8. CountIsFresh'
  BY <1>1 DEF CountIsFresh
<1>9. ASSUME Matching = first
      PROVE  /\ \A i \in DOMAIN got' :
                  got'[i] \in Matching /\ Cardinality(Preceding(got'[i])) = i - 1
             /\ Len(got') = IF offset + Limit <= Cardinality(Matching) THEN offset + Limit
                            ELSE Cardinality(Matching)
  BY <1>1, <1>2, <1>3, <1>9, PageGoesOn
<1>10. ReceivedInOrder'
  BY <1>1, <1>6, <1>9 DEF ReceivedInOrder
<1>11. ASSUME offset + Limit >= total, ~ late
       PROVE  first \subseteq ToSet(got')
  <2>1. SUFFICES ASSUME NEW r \in first, r \notin ToSet(got')
                 PROVE  FALSE
    OBVIOUS
  <2>2. total = Cardinality(Matching)
    BY <1>1, <1>11 DEF IInv, CountIsFresh
  <2>3. offset + Limit <= Cardinality(Preceding(r))
    BY <1>5, <2>1
  <2>4. r \in Matching /\ r \notin Preceding(r)
    <3>1. r \in Matching /\ Rank[r[2]] \in Int
      BY <1>3, <2>1, MatchingIsFinite, PagingAssumption DEF TypeOK
    <3> QED BY <3>1 DEF Preceding
  <2>5. /\ Preceding(r) \subseteq Matching /\ IsFiniteSet(Matching)
        /\ Cardinality(Preceding(r)) \in Nat /\ Cardinality(Matching) \in Nat
    BY <1>3, MatchingIsFinite, PrecedingIsFinite
  <2>6. /\ Cardinality(Preceding(r)) <= Cardinality(Matching)
        /\ Cardinality(Matching) = Cardinality(Preceding(r)) => Matching = Preceding(r)
    BY <2>5, FS_Subset
  <2>7. offset \in Nat /\ Limit \in Nat /\ total \in Nat
    BY <1>3, PagingAssumption DEF TypeOK
  <2> QED BY <1>11, <2>2, <2>3, <2>4, <2>5, <2>6, <2>7
<1>12. ASSUME offset + Limit >= total, ~ late, Matching = first
       PROVE  got' \in Ordered'
  <2>1. total = Cardinality(Matching)
    BY <1>1, <1>12 DEF IInv, CountIsFresh
  <2>2. offset \in Nat /\ Limit \in Nat /\ Cardinality(Matching) \in Nat
    BY <1>3, MatchingIsFinite, PagingAssumption DEF TypeOK
  <2>3. Len(got') = Cardinality(Matching)
    BY <1>9, <1>12, <2>1, <2>2
  <2>4. SUFFICES ASSUME NEW M, M = Matching, NEW g, g = got'
                 PROVE  g \in Ordered'
    OBVIOUS
  <2>5. M \subseteq Rows /\ IsFiniteSet(M) /\ g \in Seq(Rows) /\ Len(g) = Cardinality(M)
    BY <1>3, <2>3, <2>4, MatchingIsFinite DEF TypeOK
  <2>6. \A i \in DOMAIN g : /\ g[i] \in M
                            /\ Cardinality({q \in M : Rank[q[2]] < Rank[g[i][2]]}) = i - 1
    BY <1>9, <1>12, <2>4 DEF Preceding
  <2>7. Sorted(M, g)
    BY <2>5, <2>6, AllInOrder
  <2> QED BY <1>6, <2>4, <2>7 DEF Ordered, Sorted
<1>13. CountedPagingReachesAll'
  BY <1>1, <1>6, <1>11, <1>12 DEF CountedPagingReachesAll
<1> QED BY <1>7, <1>8, <1>10, <1>13

\* A row that is inserted takes none from those before an owed one.
LEMMA InsertStep ==
  ASSUME IInv, TypeOK', NEW x \in Rows, Insert(x)
  PROVE  OwedLieAhead' /\ ReceivedInOrder' /\ CountIsFresh' /\ CountedPagingReachesAll'
<1>1. /\ table' = table \cup {x} /\ late' = (late \/ pc = "page") /\ pc' = pc /\ scope' = scope
      /\ offset' = offset /\ total' = total /\ got' = got /\ first' = first
  BY DEF Insert, listing
<1>2. Matching \subseteq Matching' /\ \A r : Preceding(r) \subseteq Preceding(r)'
  BY <1>1 DEF Matching, Preceding
<1>3. ASSUME NEW r
      PROVE  Cardinality(Preceding(r)) <= Cardinality(Preceding(r)')
             /\ Cardinality(Preceding(r)) \in Nat /\ Cardinality(Preceding(r)') \in Nat
  <2>1. Matching' \subseteq table' /\ IsFiniteSet(table')
    BY DEF Matching, TypeOK
  <2>2. Preceding(r)' \subseteq table'
    BY <2>1 DEF Preceding
  <2>3. IsFiniteSet(Preceding(r)')
    BY <2>1, <2>2, FS_Subset
  <2> QED BY <1>2, <2>3, FS_Subset, FS_CardinalityType
<1>4. OwedLieAhead'
  <2>1. first \subseteq Matching'
    BY <1>2 DEF IInv, OwedLieAhead
  <2>2. ASSUME pc # "idle", NEW r \in first \ ToSet(got)
        PROVE  offset <= Cardinality(Preceding(r)')
    <3>1. offset <= Cardinality(Preceding(r)) /\ offset \in Nat
      BY <2>2 DEF IInv, OwedLieAhead, TypeOK
    <3> QED BY <1>3, <3>1
  <2> QED BY <1>1, <2>1, <2>2 DEF OwedLieAhead
<1>5. CountIsFresh'
  BY <1>1 DEF CountIsFresh
<1>6. ASSUME Matching' = first'
      PROVE  Matching = first /\ Matching' = Matching /\ \A r : Preceding(r)' = Preceding(r)
  <2>1. first \subseteq Matching
    BY DEF IInv, OwedLieAhead
  <2>2. Matching = first /\ Matching' = Matching
    BY <1>1, <1>2, <1>6, <2>1
  <2> QED BY <2>2 DEF Preceding
<1>7. ReceivedInOrder'
  BY <1>1, <1>6 DEF IInv, ReceivedInOrder
<1>8. CountedPagingReachesAll'
  <2>1. Matching' = first' => Matching = first /\ Ordered' = Ordered
    BY <1>6 DEF Ordered
  <2> QED BY <1>1, <2>1 DEF IInv, CountedPagingReachesAll
<1> QED BY <1>4, <1>5, <1>7, <1>8

LEMMA OthersStep ==
  ASSUME IInv, TypeOK', (\E s \in Scopes : List(s)) \/ Count \/ UNCHANGED vars
  PROVE  OwedLieAhead' /\ ReceivedInOrder' /\ CountIsFresh' /\ CountedPagingReachesAll'
<1>1. ASSUME NEW s \in Scopes, List(s)
      PROVE  OwedLieAhead' /\ ReceivedInOrder' /\ CountIsFresh' /\ CountedPagingReachesAll'
  <2>1. /\ pc' = "count" /\ scope' = s /\ offset' = 0 /\ got' = << >> /\ table' = table
        /\ first' = {r \in table : s \in {r[1], AllNamespaces}}
    BY <1>1 DEF List
  <2>2. first' = Matching'
    BY <2>1 DEF Matching
  <2>3. ASSUME NEW r
        PROVE  0 <= Cardinality(Preceding(r)')
    <3>1. Preceding(r)' \subseteq table' /\ IsFiniteSet(table')
      BY DEF Preceding, Matching, TypeOK
    <3>2. Cardinality(Preceding(r)') \in Nat
      BY <3>1, FS_Subset, FS_CardinalityType
    <3> QED BY <3>2
  <2>4. Cardinality(Matching') \in Nat
    BY <1>1, FS_Subset, FS_CardinalityType DEF Matching, TypeOK
  <2>5. ReceivedInOrder'
    BY <2>1, <2>4 DEF ReceivedInOrder
  <2> QED BY <2>1, <2>2, <2>3, <2>5 DEF OwedLieAhead, CountIsFresh, CountedPagingReachesAll
<1>2. CASE Count
  <2>1. /\ pc = "count" /\ pc' = "page" /\ table' = table /\ scope' = scope
        /\ offset' = offset /\ got' = got /\ first' = first /\ total' = Cardinality(Matching)
    BY <1>2 DEF Count
  <2>2. Matching' = Matching /\ \A r : Preceding(r)' = Preceding(r)
    BY <2>1 DEF Matching, Preceding
  <2>3. Ordered' = Ordered
    BY <2>2 DEF Ordered
  <2> QED BY <2>1, <2>2, <2>3
          DEF IInv, OwedLieAhead, ReceivedInOrder, CountIsFresh, CountedPagingReachesAll
<1>3. CASE UNCHANGED vars
  <2>1. /\ table' = table /\ pc' = pc /\ scope' = scope /\ offset' = offset /\ total' = total
        /\ got' = got /\ first' = first /\ late' = late
    BY <1>3 DEF vars, listing
  <2>2. Matching' = Matching /\ \A r : Preceding(r)' = Preceding(r)
    BY <2>1 DEF Matching, Preceding
  <2>3. Ordered' = Ordered
    BY <2>2 DEF Ordered
  <2> QED BY <2>1, <2>2, <2>3
          DEF IInv, OwedLieAhead, ReceivedInOrder, CountIsFresh, CountedPagingReachesAll
<1> QED BY <1>1, <1>2, <1>3

\* Paging keeps the rows it owes ahead of its offset, whatever is inserted between the
\* statements.
THEOREM InductiveInvariant ==
  ASSUME NamesDiffer
  PROVE  Spec => []IInv
<1>1. Init => IInv
  <2> SUFFICES ASSUME Init
               PROVE  IInv
    OBVIOUS
  <2>1. TypeOK
    BY FS_EmptySet DEF Init, TypeOK
  <2>2. Matching = {} /\ got = << >> /\ first = {} /\ pc = "idle" /\ table = {}
    BY DEF Init, Matching
  <2>3. got \in Ordered
    <3>1. /\ {} \subseteq Rows /\ IsFiniteSet({}) /\ Cardinality({}) = 0
          /\ << >> \in Seq(Rows) /\ Len(<< >>) = 0 /\ DOMAIN << >> = {}
      BY FS_EmptySet
    <3>2. Sorted({}, << >>)
      BY <3>1, AllInOrder
    <3> QED BY <2>2, <3>2 DEF Ordered, Sorted
  <2> QED BY <2>1, <2>2, <2>3
          DEF IInv, OwedLieAhead, ReceivedInOrder, CountIsFresh, CountedPagingReachesAll
<1>2. IInv /\ [Next]_vars => IInv'
  <2> SUFFICES ASSUME IInv, [Next]_vars
               PROVE  IInv'
    OBVIOUS
  <2>1. TypeOK'
    BY TypeHolds DEF IInv
  <2>2. OwedLieAhead' /\ ReceivedInOrder' /\ CountIsFresh' /\ CountedPagingReachesAll'
    BY <2>1, PageStep, InsertStep, OthersStep DEF Next
  <2> QED BY <2>1, <2>2 DEF IInv
<1> QED BY <1>1, <1>2, PTL DEF Spec

\* A client that pages until the total is reached has every row there was when it
\* began, for every page size and every way rows are inserted meanwhile, but for
\* those between the last count and its page; and its pages are the ordered list
\* if no row came.
THEOREM PagingReachesAll ==
  ASSUME NamesDiffer
  PROVE  Spec => []CountedPagingReachesAll
<1>1. IInv => CountedPagingReachesAll
  BY DEF IInv
<1> QED BY <1>1, InductiveInvariant, PTL

\* The names of one namespace differ; those of all namespaces need not.
THEOREM OneNamespaceNamesDiffer ==
  ASSUME AllNamespaces \notin Scopes
  PROVE  NamesDiffer
<1> SUFFICES ASSUME NEW s \in Scopes, NEW r \in Rows, NEW q \in Rows,
                    s \in {r[1], AllNamespaces}, s \in {q[1], AllNamespaces}, r[2] = q[2]
             PROVE  r = q
  BY DEF NamesDiffer
<1>1. r[1] = s /\ q[1] = s
  OBVIOUS
<1>2. r = <<r[1], r[2]>> /\ q = <<q[1], q[2]>>
  BY PagingAssumption
<1> QED BY <1>1, <1>2

-------------------------------------------------------------------------------
(* Columns asked for one by one (FieldLineage) *)

\* A client that takes the first of its columns has the others left.
LEMMA TailLosesHead ==
  ASSUME NEW V, NEW s \in Seq(V), s # << >>, IsInjective(s)
  PROVE  /\ Tail(s) \in Seq(ToSet(Tail(s))) /\ IsInjective(Tail(s))
         /\ Head(s) \in ToSet(s) /\ ToSet(Tail(s)) = ToSet(s) \ {Head(s)}
<1>1. /\ Len(s) \in Nat /\ DOMAIN s = 1..Len(s) /\ 1 \in DOMAIN s /\ Head(s) = s[1]
      /\ Tail(s) \in Seq(V) /\ Len(Tail(s)) = Len(s) - 1 /\ DOMAIN Tail(s) = 1..(Len(s) - 1)
  OBVIOUS
<1>2. \A i \in 1..(Len(s) - 1) : Tail(s)[i] = s[i + 1] /\ i + 1 \in DOMAIN s
  BY <1>1
<1> DEFINE t == Tail(s)
<1> HIDE DEF t
<1>3. t \in [1..(Len(s) - 1) -> ToSet(t)]
  <2>1. t \in [1..(Len(s) - 1) -> V] /\ DOMAIN t = 1..(Len(s) - 1)
    <3>1. t \in Seq(V) /\ Len(t) = Len(s) - 1
      BY <1>1 DEF t
    <3> QED BY <1>1, <3>1
  <2>2. \A i \in DOMAIN t : t[i] \in ToSet(t)
    BY DEF ToSet
  <2> QED BY <2>1, <2>2
<1>4. t \in Seq(ToSet(t))
  BY <1>1, <1>3
<1>5. IsInjective(t)
  BY <1>1, <1>2 DEF IsInjective, t
<1>6. Head(s) \in ToSet(s)
  BY <1>1 DEF ToSet
<1>7. ASSUME NEW x \in ToSet(t)
      PROVE  x \in ToSet(s) /\ x # Head(s)
  <2>1. PICK i \in 1..(Len(s) - 1) : x = s[i + 1]
    BY <1>1, <1>2, <1>7 DEF ToSet, t
  <2>2. i + 1 \in DOMAIN s /\ i + 1 # 1
    BY <1>2
  <2> QED BY <1>1, <2>1, <2>2 DEF ToSet, IsInjective
<1>8. ASSUME NEW x \in ToSet(s), x # Head(s)
      PROVE  x \in ToSet(t)
  <2>1. PICK i \in DOMAIN s : x = s[i]
    BY <1>8 DEF ToSet
  <2>2. i - 1 \in 1..(Len(s) - 1) /\ (i - 1) + 1 = i
    BY <1>1, <1>8, <2>1
  <2>3. t[i - 1] = x
    BY <1>2, <2>1, <2>2 DEF t
  <2> QED BY <1>1, <2>2, <2>3 DEF ToSet, t
<1>9. ToSet(t) = ToSet(s) \ {Head(s)}
  BY <1>7, <1>8
<1> QED BY <1>4, <1>5, <1>6, <1>9 DEF t

\* What each request holds.
LEMMA FieldTypeHolds ==
  ASSUME FieldTypeOK, [FieldNext]_fieldVars
  PROVE  FieldTypeOK'
<1>1. ASSUME NEW d \in Datasets, Fetch(d)
      PROVE  FieldTypeOK'
  BY <1>1, FieldLineageAssumption DEF Fetch, FieldTypeOK
<1>2. ASSUME FetchColumn
      PROVE  FieldTypeOK'
  <2>1. /\ todo \in Seq(ToSet(todo)) /\ todo # << >> /\ IsInjective(todo)
        /\ todo' = Tail(todo)
    BY <1>2 DEF FetchColumn, FieldTypeOK
  <2>2. /\ todo' \in Seq(ToSet(todo')) /\ IsInjective(todo')
        /\ ToSet(todo') \subseteq ToSet(todo)
    BY <2>1, TailLosesHead
  <2> QED BY <1>2, <2>2 DEF FetchColumn, FieldTypeOK
<1>3. ASSUME Render
      PROVE  FieldTypeOK'
  BY <1>3 DEF Render, FieldTypeOK
<1>4. ASSUME NEW f \in Fields, NEW S \in SUBSET Sources[f], Replace(f, S)
      PROVE  FieldTypeOK'
  BY <1>4 DEF Replace, FieldTypeOK, request
<1>5. ASSUME NEW t \in Tagged, Tag(t)
      PROVE  FieldTypeOK'
  BY <1>5 DEF Tag, FieldTypeOK, request
<1>6. CASE UNCHANGED fieldVars
  BY <1>6 DEF fieldVars, FieldTypeOK, request
<1> QED BY <1>1, <1>2, <1>3, <1>4, <1>5, <1>6 DEF FieldNext

\* What is asked for is a field.
LEMMA AskedAreFields ==
  ASSUME FieldTypeOK, target # Null
  PROVE  Asked \subseteq Fields
<1>1. target \in Datasets
  BY DEF FieldTypeOK
<1> QED BY <1>1 DEF Asked, Fields

\* The answer for one column: its edges, its own node with all of them when there
\* are any, and the nodes of its inputs.
LEMMA AnswerForOne ==
  ASSUME NEW a \in Fields
  PROVE  LET E == {<<g, a>> : g \in inputs[a]}
             N == column_lineage({a})
         IN /\ \A n \in N : /\ n.id = a \/ n.id \in inputs[a]
                            /\ n.in_edges \subseteq E /\ n.out_edges \subseteq E
            /\ E # {} => \E n \in N : n.id = a /\ n.in_edges = E
<1> DEFINE E == {<<g, a>> : g \in inputs[a]}
           D == {e \in Edges : e[2] \in {a}}
           Node(x) == [id |-> x, in_edges |-> {e \in D : e[2] = x},
                       out_edges |-> {e \in D : e[1] = x}]
           N == {Node(x) : x \in UNION {{e[1], e[2]} : e \in D}}
<1>1. D = E
  <2>1. ASSUME NEW e \in D
        PROVE  e \in E
    <3>1. PICK f \in Fields : e \in {<<g, f>> : g \in inputs[f]}
      BY DEF Edges
    <3>2. PICK g \in inputs[f] : e = <<g, f>>
      BY <3>1
    <3> QED BY <3>2
  <2>2. ASSUME NEW e \in E
        PROVE  e \in D
    BY DEF Edges
  <2> HIDE DEF D, E
  <2> QED BY <2>1, <2>2
<1>2. column_lineage({a}) = N
  BY DEF column_lineage
<1>3. \A e \in E : e[2] = a /\ e[1] \in inputs[a]
  OBVIOUS
<1> HIDE DEF D, E
<1>4. ASSUME NEW n \in N
      PROVE  /\ n.id = a \/ n.id \in inputs[a]
             /\ n.in_edges \subseteq E /\ n.out_edges \subseteq E
  <2>1. PICK e \in D : \E x \in {e[1], e[2]} : n = Node(x)
    OBVIOUS
  <2>2. PICK x \in {e[1], e[2]} : n = Node(x)
    BY <2>1
  <2>3. n.id = x /\ n.in_edges \subseteq D /\ n.out_edges \subseteq D
    BY <2>2
  <2> QED BY <1>1, <1>3, <2>3
<1>5. ASSUME E # {}
      PROVE  \E n \in N : n.id = a /\ n.in_edges = E
  <2>1. PICK e \in D : e[2] = a
    BY <1>1, <1>3, <1>5
  <2>2. Node(a) \in N
    <3>1. a \in UNION {{x[1], x[2]} : x \in D}
      BY <2>1
    <3> HIDE DEF Node
    <3> QED BY <3>1
  <2>3. Node(a).id = a /\ Node(a).in_edges = {x \in D : x[2] = a}
    OBVIOUS
  <2>4. {x \in D : x[2] = a} = E
    BY <1>1, <1>3
  <2> QED BY <2>2, <2>3, <2>4
<1> QED BY <1>2, <1>4, <1>5 DEF E

\* The answer for the next column merges: no node had before stands in its way.
LEMMA FetchColumnMerges ==
  ASSUME NoneFromSiblings, FieldTypeOK, MergedInStep, FetchColumn
  PROVE  MergedInStep'
<1> DEFINE a == <<target, Head(todo)>>
           E == {<<g, a>> : g \in inputs[a]}
           K == {n \in column_lineage({a}) : n.id \notin {m.id : m \in merged}}
<1>1. /\ todo \in Seq(ToSet(todo)) /\ todo # << >> /\ IsInjective(todo)
      /\ todo' = Tail(todo) /\ merged' = merged \cup K
      /\ target' = target /\ inputs' = inputs /\ seen' = seen
  BY DEF FetchColumn, FieldTypeOK
<1>2. /\ Head(todo) \in ToSet(todo) /\ ToSet(todo') = ToSet(todo) \ {Head(todo)}
  BY <1>1, TailLosesHead
<1>3. target # Null /\ target \in Datasets /\ Head(todo) \in ToSet(Columns[target])
  BY <1>1, <1>2 DEF FieldTypeOK
<1>4. a \in Fields /\ a[1] = target /\ a \notin Asked /\ Asked' = Asked \cup {a}
  <2>1. a \in Fields
    BY <1>3 DEF Fields
  <2>2. a \notin Asked
    BY <1>2 DEF Asked
  <2>3. Asked' = Asked \cup {a}
    BY <1>1, <1>2, <1>3 DEF Asked
  <2> QED BY <2>1, <2>2, <2>3
<1>5. /\ \A n \in column_lineage({a}) :
           /\ n.id = a \/ n.id \in inputs[a]
           /\ n.in_edges \subseteq E /\ n.out_edges \subseteq E
      /\ E # {} => \E n \in column_lineage({a}) : n.id = a /\ n.in_edges = E
  <2> HIDE DEF a
  <2> QED BY <1>4, AnswerForOne
<1>6. /\ \A f \in Fields : inputs[f] \in seen[f]
      /\ \A n \in merged : n.id[1] = target => n.id \in Asked
      /\ \A e \in edges(merged) : e[2] \in Asked /\ \E n \in merged : n.id = e[2]
      /\ \A f \in Asked : {e[1] : e \in Into(f)} \in seen[f]
  BY <1>3 DEF MergedInStep
<1>7. \A e \in E : e[2] = a
  OBVIOUS
<1>8. {e[1] : e \in E} = inputs[a]
  <2>1. \A g \in inputs[a] : <<g, a>> \in E /\ <<g, a>>[1] = g
    OBVIOUS
  <2>2. \A e \in E : e[1] \in inputs[a]
    OBVIOUS
  <2> HIDE DEF E, a
  <2> QED BY <2>1, <2>2
<1>9. \A g \in inputs[a] : g[1] = target => g = a
  BY <1>4 DEF FieldTypeOK, NoneFromSiblings
<1> HIDE DEF a, E
<1>10. \A m \in merged : m.id # a
  BY <1>4, <1>6
<1>11. E # {} => \E n \in K : n.id = a /\ n.in_edges = E
  BY <1>5, <1>10
<1>12. edges(merged') = edges(merged) \cup E
  <2>1. edges(merged') = edges(merged) \cup edges(K)
    BY <1>1 DEF edges
  <2>2. edges(K) \subseteq E
    BY <1>5 DEF edges
  <2>3. E \subseteq edges(K)
    <3> SUFFICES ASSUME NEW e \in E
                 PROVE  e \in edges(K)
      OBVIOUS
    <3>1. PICK n \in K : n.in_edges = E
      BY <1>11
    <3> HIDE DEF K
    <3>2. e \in n.in_edges \cup n.out_edges
      BY <3>1
    <3> QED BY <3>2 DEF edges
  <2> QED BY <2>1, <2>2, <2>3
<1>13. \A n \in merged' : n.id[1] = target => n.id \in Asked'
  BY <1>1, <1>4, <1>5, <1>6, <1>9
<1>14. \A e \in edges(merged') : e[2] \in Asked' /\ \E n \in merged' : n.id = e[2]
  BY <1>1, <1>4, <1>6, <1>7, <1>11, <1>12
<1>15. ASSUME NEW f \in Asked'
       PROVE  {e[1] : e \in Into(f)'} \in seen[f]
  <2>1. Into(f)' = {e \in edges(merged) \cup E : e[2] = f}
    BY <1>12 DEF Into
  <2>2. CASE f = a
    <3>1. Into(f)' = E
      BY <1>4, <1>6, <1>7, <2>1, <2>2
    <3> QED BY <1>4, <1>6, <1>8, <2>2, <3>1
  <2>3. CASE f # a
    <3>1. Into(f)' = Into(f)
      BY <1>7, <2>1, <2>3 DEF Into
    <3> QED BY <1>4, <1>6, <2>3, <3>1
  <2> QED BY <2>2, <2>3
<1>16. \A f \in Asked' : {e[1] : e \in Into(f)'} \in seen'[f]
  BY <1>1, <1>15
<1> QED BY <1>1, <1>6, <1>13, <1>14, <1>16 DEF MergedInStep

\* The others leave the edges the client has alone, and only add to what was seen.
LEMMA MergedHolds ==
  ASSUME NoneFromSiblings, FieldTypeOK, MergedInStep, [FieldNext]_fieldVars
  PROVE  MergedInStep'
<1>1. ASSUME NEW d \in Datasets, Fetch(d)
      PROVE  MergedInStep'
  <2>1. merged' = {} /\ todo' = Columns[d] /\ target' = d
        /\ \A f \in Fields : inputs'[f] \in seen'[f]
    BY <1>1 DEF Fetch
  <2>2. edges(merged)' = {} /\ Asked' = {}
    BY <2>1 DEF edges, Asked
  <2> QED BY <2>1, <2>2 DEF MergedInStep
<1>2. ASSUME Render
      PROVE  MergedInStep'
  BY <1>2 DEF Render, MergedInStep
<1>3. ASSUME NEW f \in Fields, NEW S \in SUBSET Sources[f], Replace(f, S)
      PROVE  MergedInStep'
  <2>1. /\ target' = target /\ todo' = todo /\ merged' = merged
        /\ inputs' = [inputs EXCEPT ![f] = S] /\ seen' = [seen EXCEPT ![f] = @ \cup {S}]
        /\ DOMAIN inputs = Fields /\ DOMAIN seen = Fields
    BY <1>3 DEF Replace, request, FieldTypeOK
  <2>2. \A g \in Fields : seen[g] \subseteq seen'[g]
                            /\ inputs'[g] = (IF g = f THEN S ELSE inputs[g])
                            /\ S \in seen'[f]
    BY <2>1
  <2>3. Asked' = Asked /\ edges(merged)' = edges(merged)
        /\ \A g : Into(g)' = Into(g)
    BY <2>1 DEF Asked, edges, Into
  <2>4. SUFFICES ASSUME target # Null
                 PROVE  /\ \A g \in Fields : inputs'[g] \in seen'[g]
                        /\ \A g \in Asked : {e[1] : e \in Into(g)} \in seen'[g]
    BY <2>1, <2>3 DEF MergedInStep
  <2>5. Asked \subseteq Fields
    BY <2>4, AskedAreFields
  <2> QED BY <2>2, <2>4, <2>5 DEF MergedInStep
<1>4. ASSUME NEW t \in Tagged, Tag(t)
      PROVE  MergedInStep'
  BY <1>4 DEF Tag, MergedInStep, request, Asked, Into, edges
<1>5. CASE UNCHANGED fieldVars
  BY <1>5 DEF fieldVars, MergedInStep, request, Asked, Into, edges
<1> QED BY <1>1, <1>2, <1>3, <1>4, <1>5, FetchColumnMerges DEF FieldNext

\* A field whose column was asked for has, in the client's hands, the edges of that
\* one answer, and a node to be found by (column_lineage of the client).
THEOREM MergeInvariant ==
  ASSUME NoneFromSiblings
  PROVE  FieldSpec => []FieldIInv
<1>1. FieldInit => FieldIInv
  <2>1. ASSUME FieldInit
        PROVE  FieldTypeOK
    BY <2>1 DEF FieldInit, FieldTypeOK, ToSet, IsInjective
  <2>2. ASSUME FieldInit
        PROVE  MergedInStep
    BY <2>2 DEF FieldInit, MergedInStep
  <2> QED BY <2>1, <2>2 DEF FieldIInv
<1>2. FieldIInv /\ [FieldNext]_fieldVars => FieldIInv'
  BY FieldTypeHolds, MergedHolds DEF FieldIInv
<1> QED BY <1>1, <1>2, PTL DEF FieldSpec

\* The derivation shown of a column is one it had during the request, although the
\* answers are merged by node: true when no column is computed from a sibling.
THEOREM DerivationsAreOfTheRequest ==
  ASSUME NoneFromSiblings
  PROVE  FieldSpec => []DerivationsAreReal
<1>1. ASSUME FieldIInv
      PROVE  DerivationsAreReal
  <2> SUFFICES ASSUME target # Null, todo = << >>, NEW c \in ToSet(Columns[target])
               PROVE  Derivation(<<target, c>>) \in seen[<<target, c>>]
    BY DEF DerivationsAreReal
  <2> DEFINE f == <<target, c>>
  <2>1. f \in Asked
    BY DEF Asked, ToSet
  <2> HIDE DEF f
  <2>2. /\ {e[1] : e \in Into(f)} \in seen[f]
        /\ \A e \in Into(f) : \E n \in merged : n.id = f
    BY <1>1, <2>1 DEF FieldIInv, MergedInStep, Into
  <2>3. Derivation(f) = {e[1] : e \in Into(f)}
    <3>1. CASE f \in {n.id : n \in merged}
      BY <3>1 DEF Derivation, Into
    <3>2. CASE f \notin {n.id : n \in merged}
      <4>1. Into(f) = {}
        BY <2>2, <3>2
      <4> QED BY <3>2, <4>1 DEF Derivation
    <3> QED BY <3>1, <3>2
  <2> QED BY <2>2, <2>3 DEF f
<1> QED BY <1>1, MergeInvariant, PTL

-------------------------------------------------------------------------------
(* Where a tag reaches *)

\* The recursive function of the query, round by round, and that it exists.
Round(g, d) == IF d = 0 THEN Seeds ELSE Step(Edges, g[d - 1], "Down")
IsWork(g, K) == g = [d \in 0..K |-> Round(g, d)]

LEMMA WorkExists ==
  ASSUME NEW n \in Nat
  PROVE  \E g : IsWork(g, n)
<1> DEFINE Down(S) == Step(Edges, S, "Down")
           Upto(k, g) == g = [d \in 0..k |-> IF d = 0 THEN Seeds ELSE Down(g[d - 1])]
           T == {k \in Nat : \E g : Upto(k, g)}
<1>1. 0 \in T
  <2> HIDE DEF Down
  <2> DEFINE g == [d \in 0..0 |-> Seeds]
  <2>1. g = [d \in 0..0 |-> IF d = 0 THEN Seeds ELSE Down(g[d - 1])]
    OBVIOUS
  <2> QED BY <2>1
<1>2. ASSUME NEW k \in T
      PROVE  k + 1 \in T
  <2> HIDE DEF Down
  <2>1. PICK g : g = [d \in 0..k |-> IF d = 0 THEN Seeds ELSE Down(g[d - 1])]
    OBVIOUS
  <2> DEFINE h == [d \in 0..(k + 1) |-> IF d <= k THEN g[d] ELSE Down(g[k])]
  <2>2. ASSUME NEW d \in 0..(k + 1)
        PROVE  h[d] = IF d = 0 THEN Seeds ELSE Down(h[d - 1])
    <3>1. CASE d = 0
      <4>1. d \in 0..k /\ d <= k
        BY <3>1
      <4> QED BY <2>1, <3>1, <4>1
    <3>2. CASE d # 0 /\ d <= k
      <4>1. d \in 0..k /\ d - 1 \in 0..k /\ d - 1 \in 0..(k + 1) /\ d - 1 <= k
        BY <3>2
      <4>2. h[d] = g[d] /\ h[d - 1] = g[d - 1]
        BY <4>1
      <4>3. g[d] = Down(g[d - 1])
        BY <2>1, <3>2, <4>1
      <4> QED BY <3>2, <4>2, <4>3
    <3>3. CASE d # 0 /\ d > k
      <4>1. d = k + 1 /\ k \in 0..(k + 1) /\ d - 1 = k /\ ~ (d <= k)
        BY <3>3
      <4>2. h[k] = g[k] /\ h[d - 1] = h[k] /\ d # 0
        BY <3>3, <4>1
      <4>3. h[d] = Down(g[k])
        BY <3>3, <4>1
      <4> QED BY ONLY <4>2, <4>3
    <3> QED BY <3>1, <3>2, <3>3
  <2> HIDE DEF h
  <2>3. h = [d \in 0..(k + 1) |-> IF d = 0 THEN Seeds ELSE Down(h[d - 1])]
    BY <2>2 DEF h
  <2>4. Upto(k + 1, h)
    BY <2>3
  <2> HIDE DEF Upto
  <2> QED BY <2>4
<1>3. T = Nat
  <2> HIDE DEF T
  <2>1. T \in SUBSET Nat
    BY DEF T
  <2> QED BY <1>1, <1>2, <2>1, Induction
<1>4. PICK g : Upto(n, g)
  BY <1>3
<1> QED BY <1>4 DEF IsWork, Round

\* A path of l fields down the lineage, from a tagged one to f.
PathTo(p, l, f) ==
  /\ p \in [1..l -> Fields] /\ p[1] \in Seeds /\ p[l] = f
  /\ \A i \in 1..(l - 1) : p[i] \in inputs[p[i + 1]]

\* One round down the lineage.
LEMMA StepDown ==
  ASSUME NEW S, NEW f
  PROVE  f \in Step(Edges, S, "Down") <=> f \in Fields /\ \E h \in S : h \in inputs[f]
<1>1. ASSUME f \in Step(Edges, S, "Down")
      PROVE  f \in Fields /\ \E h \in S : h \in inputs[f]
  <2>1. PICK e \in Edges : e[1] \in S /\ f = e[2]
    BY <1>1 DEF Step
  <2>2. PICK x \in Fields : e \in {<<h, x>> : h \in inputs[x]}
    BY DEF Edges
  <2>3. PICK h \in inputs[x] : e = <<h, x>>
    BY <2>2
  <2> QED BY <2>1, <2>3
<1>2. ASSUME f \in Fields, NEW h \in S, h \in inputs[f]
      PROVE  f \in Step(Edges, S, "Down")
  <2>1. <<h, f>> \in Edges
    BY <1>2 DEF Edges
  <2>2. <<h, f>>[1] = h /\ <<h, f>>[2] = f
    OBVIOUS
  <2> QED BY <1>2, <2>1, <2>2 DEF Step
<1> QED BY <1>1, <1>2

\* One field more.
LEMMA PathGrows ==
  ASSUME NEW l \in Nat \ {0}, NEW h, NEW p, PathTo(p, l, h), NEW f \in Fields,
         h \in inputs[f]
  PROVE  \E q : PathTo(q, l + 1, f)
<1> DEFINE q == [i \in 1..(l + 1) |-> IF i <= l THEN p[i] ELSE f]
<1>1. p \in [1..l -> Fields] /\ p[1] \in Seeds /\ p[l] = h
      /\ \A i \in 1..(l - 1) : p[i] \in inputs[p[i + 1]]
  BY DEF PathTo
<1>2. q \in [1..(l + 1) -> Fields] /\ q[1] = p[1] /\ q[l + 1] = f
  BY <1>1
<1>3. ASSUME NEW i \in 1..((l + 1) - 1)
      PROVE  q[i] \in inputs[q[i + 1]]
  <2>1. CASE i = l
    BY <1>1, <2>1
  <2>2. CASE i # l
    <3>1. i \in 1..(l - 1) /\ q[i] = p[i] /\ q[i + 1] = p[i + 1]
      BY <2>2
    <3> QED BY <1>1, <3>1
  <2> QED BY <2>1, <2>2
<1> HIDE DEF q
<1>4. PathTo(q, l + 1, f)
  BY <1>1, <1>2, <1>3 DEF PathTo
<1> QED BY <1>4

\* One field less.
LEMMA PathShrinks ==
  ASSUME NEW l \in Nat \ {0}, NEW p, NEW f, PathTo(p, l + 1, f)
  PROVE  \E h \in Fields : h \in inputs[f] /\ \E q : PathTo(q, l, h)
<1> DEFINE q == [i \in 1..l |-> p[i]]
<1>1. p \in [1..(l + 1) -> Fields] /\ p[1] \in Seeds /\ p[l + 1] = f
      /\ \A i \in 1..((l + 1) - 1) : p[i] \in inputs[p[i + 1]]
  BY DEF PathTo
<1>2. l \in 1..((l + 1) - 1) /\ l \in 1..(l + 1) /\ l \in 1..l /\ 1 \in 1..l
  OBVIOUS
<1>3. p[l] \in Fields /\ p[l] \in inputs[f]
  BY <1>1, <1>2
<1>4. q \in [1..l -> Fields] /\ q[1] = p[1] /\ q[l] = p[l]
  BY <1>1, <1>2
<1>5. ASSUME NEW i \in 1..(l - 1)
      PROVE  q[i] \in inputs[q[i + 1]]
  <2>1. i \in 1..((l + 1) - 1) /\ q[i] = p[i] /\ q[i + 1] = p[i + 1]
    OBVIOUS
  <2> QED BY <1>1, <2>1
<1> HIDE DEF q
<1>6. PathTo(q, l, p[l])
  BY <1>1, <1>4, <1>5 DEF PathTo
<1> QED BY <1>3, <1>6

\* After d rounds the working table holds the ends of the paths of d steps.
LEMMA WorkHoldsEnds ==
  ASSUME NEW K \in Nat, NEW g, IsWork(g, K)
  PROVE  \A d \in 0..K : g[d] = {f \in Fields : \E p : PathTo(p, d + 1, f)}
<1> DEFINE Ends(d) == {f \in Fields : \E p : PathTo(p, d + 1, f)}
           T == {d \in Nat : d <= K => g[d] = Ends(d)}
<1>1. \A d \in 0..K : g[d] = Round(g, d)
  BY Zenon DEF IsWork
<1>2. g[0] = Seeds /\ \A d \in 0..K : d # 0 => g[d] = Step(Edges, g[d - 1], "Down")
  <2>1. 0 \in 0..K
    OBVIOUS
  <2>2. g[0] = Round(g, 0)
    BY <1>1, <2>1
  <2>3. g[0] = Seeds
    BY <2>2 DEF Round
  <2> QED BY <1>1, <2>3 DEF Round
<1>3. 0 \in T
  <2>1. ASSUME NEW f \in Seeds
        PROVE  f \in Ends(0)
    <3>1. f \in Fields
      BY DEF Seeds
    <3>2. PathTo([i \in 1..1 |-> f], 1, f)
      BY <3>1 DEF PathTo
    <3>3. 0 + 1 = 1
      OBVIOUS
    <3> QED BY <3>1, <3>2, <3>3
  <2>2. ASSUME NEW f \in Ends(0)
        PROVE  f \in Seeds
    <3>1. PICK p : PathTo(p, 0 + 1, f)
      OBVIOUS
    <3>2. 0 + 1 = 1
      OBVIOUS
    <3> QED BY <3>1, <3>2 DEF PathTo
  <2> HIDE DEF Ends
  <2>3. g[0] = Ends(0)
    BY <1>2, <2>1, <2>2
  <2> QED BY <2>3
<1>4. ASSUME NEW d \in T
      PROVE  d + 1 \in T
  <2> HIDE DEF Ends
  <2>1. SUFFICES ASSUME d + 1 <= K
                 PROVE  g[d + 1] = Ends(d + 1)
    OBVIOUS
  <2>2. d \in Nat /\ d <= K /\ g[d] = Ends(d)
    BY <2>1
  <2>3. d + 1 \in 0..K /\ d + 1 # 0 /\ (d + 1) - 1 = d /\ d + 1 \in Nat \ {0}
    BY <2>1, <2>2
  <2>4. g[d + 1] = Step(Edges, Ends(d), "Down")
    BY <1>2, <2>2, <2>3
  <2>5. ASSUME NEW f \in Step(Edges, Ends(d), "Down")
        PROVE  f \in Ends(d + 1)
    <3>1. f \in Fields /\ \E h \in Ends(d) : h \in inputs[f]
      BY <2>5, StepDown
    <3>2. PICK h \in Ends(d) : h \in inputs[f]
      BY <3>1
    <3>3. PICK p : PathTo(p, d + 1, h)
      BY DEF Ends
    <3>4. \E q : PathTo(q, (d + 1) + 1, f)
      BY <2>3, <3>1, <3>2, <3>3, PathGrows
    <3> QED BY <3>1, <3>4 DEF Ends
  <2>6. ASSUME NEW f \in Ends(d + 1)
        PROVE  f \in Step(Edges, Ends(d), "Down")
    <3>1. f \in Fields /\ \E p : PathTo(p, (d + 1) + 1, f)
      BY DEF Ends
    <3>2. PICK h \in Fields : h \in inputs[f] /\ \E q : PathTo(q, d + 1, h)
      BY <2>3, <3>1, PathShrinks
    <3>3. h \in Ends(d)
      BY <3>2 DEF Ends
    <3> QED BY <3>1, <3>2, <3>3, StepDown
  <2> QED BY <2>4, <2>5, <2>6
<1>5. T = Nat
  <2> HIDE DEF T
  <2>1. T \in SUBSET Nat
    BY DEF T
  <2> QED BY <1>3, <1>4, <2>1, Induction
<1> QED BY <1>5

\* The answer of tag_downstream.
LEMMA TagReaches ==
  ASSUME MAX_DEPTH \in Nat
  PROVE  tag_downstream = {f \in Fields : Reaches(f, MAX_DEPTH)}
<1> DEFINE work == CHOOSE f : f = [d \in 0..MAX_DEPTH |->
                      IF d = 0 THEN Seeds ELSE Step(Edges, f[d - 1], "Down")]
<1>1. tag_downstream = UNION {work[d] : d \in 0..MAX_DEPTH}
  BY Zenon DEF tag_downstream
<1>2. IsWork(work, MAX_DEPTH)
  <2>1. work = CHOOSE f : IsWork(f, MAX_DEPTH)
    BY Zenon DEF IsWork, Round
  <2>2. \E f : IsWork(f, MAX_DEPTH)
    BY WorkExists
  <2> HIDE DEF work
  <2> QED BY <2>1, <2>2, Zenon
<1> HIDE DEF work
<1>3. \A d \in 0..MAX_DEPTH : work[d] = {f \in Fields : \E p : PathTo(p, d + 1, f)}
  BY <1>2, WorkHoldsEnds
<1>4. ASSUME NEW f
      PROVE  Reaches(f, MAX_DEPTH)
               <=> \E l \in 1..(MAX_DEPTH + 1) : \E p : PathTo(p, l, f)
  BY DEF Reaches, PathTo
<1>5. ASSUME NEW d \in 0..MAX_DEPTH, NEW f \in work[d]
      PROVE  f \in Fields /\ Reaches(f, MAX_DEPTH)
  <2>1. f \in Fields /\ \E p : PathTo(p, d + 1, f)
    BY <1>3
  <2>2. d + 1 \in 1..(MAX_DEPTH + 1)
    OBVIOUS
  <2> QED BY <1>4, <2>1, <2>2
<1>6. ASSUME NEW f \in Fields, Reaches(f, MAX_DEPTH)
      PROVE  \E d \in 0..MAX_DEPTH : f \in work[d]
  <2>1. PICK l \in 1..(MAX_DEPTH + 1) : \E p : PathTo(p, l, f)
    BY <1>4, <1>6
  <2>2. l - 1 \in 0..MAX_DEPTH /\ (l - 1) + 1 = l
    OBVIOUS
  <2>3. f \in work[l - 1]
    BY <1>3, <2>1, <2>2
  <2> QED BY <2>2, <2>3
<1> QED BY <1>1, <1>5, <1>6

\* Whatever the tables hold, the fields a tag exposes are the ends of the paths of
\* at most MAX_DEPTH steps (tag_downstream), dataset by dataset (by_dataset).
THEOREM ExposureIsReach == FieldSpec => []ExposureIsTheColumnReach
<1>1. ExposureIsTheColumnReach
  <2> SUFFICES ASSUME NEW f \in Fields
               PROVE  (f[1] \in DOMAIN by_dataset /\ f[2] \in by_dataset[f[1]])
                        = Reaches(f, MAX_DEPTH)
    BY DEF ExposureIsTheColumnReach
  <2> DEFINE tagged == tag_downstream
             of == [d \in {x[1] : x \in tagged} |-> {x[2] : x \in {y \in tagged : y[1] = d}}]
  <2>1. by_dataset = of
    BY DEF by_dataset
  <2>2. tagged = {x \in Fields : Reaches(x, MAX_DEPTH)}
    BY TagReaches, FieldLineageAssumption
  <2> HIDE DEF tagged
  <2>3. \A x \in Fields : x = <<x[1], x[2]>>
    BY DEF Fields
  <2>4. ASSUME f[1] \in DOMAIN of, f[2] \in of[f[1]]
        PROVE  f \in tagged
    <3>1. PICK x \in tagged : x[1] = f[1] /\ x[2] = f[2]
      BY <2>4
    <3>2. x \in Fields
      BY <2>2
    <3> QED BY <2>3, <3>1, <3>2
  <2>5. ASSUME f \in tagged
        PROVE  f[1] \in DOMAIN of /\ f[2] \in of[f[1]]
    BY <2>5
  <2> HIDE DEF of
  <2>6. f \in tagged <=> Reaches(f, MAX_DEPTH)
    BY <2>2
  <2>7. Reaches(f, MAX_DEPTH) \in BOOLEAN
    BY DEF Reaches
  <2> QED BY <2>1, <2>4, <2>5, <2>6, <2>7
<1> QED BY <1>1, PTL
==============================================================================
