---------------------------- MODULE SequenceLemmas ----------------------------
(***************************************************************************)
(* Facts about numbers, finite sets and sequences that the proofs of       *)
(* several components cite.  The induction theorems of the library take a  *)
(* predicate as their parameter, which no installed prover instantiates;   *)
(* Induction takes the set of the numbers that satisfy it.                 *)
(***************************************************************************)
EXTENDS Selection, Integers, SequencesExt, WellFoundedInduction, FiniteSetTheorems,
        SequenceTheorems, TLAPS

-------------------------------------------------------------------------------
(* Induction *)

LEMMA LeastNumber ==
  ASSUME NEW T \in SUBSET Nat, T # {}
  PROVE  \E x \in T : \A y \in T : x <= y
<1>1. IsWellFoundedOn(OpToRel(<, Nat), Nat)
  BY NatLessThanWellFounded
<1>2. PICK x \in T : \A y \in T : ~ (<<y, x>> \in OpToRel(<, Nat))
  BY <1>1, WFMin
<1>3. \A y \in T : <<y, x>> \in OpToRel(<, Nat) <=> y < x
  BY DEF OpToRel
<1>4. \A y \in T : ~ (y < x)
  BY <1>2, <1>3, Zenon
<1> QED BY <1>4

LEMMA Induction ==
  ASSUME NEW T \in SUBSET Nat, 0 \in T, \A n \in T : n + 1 \in T
  PROVE  T = Nat
<1>1. SUFFICES ASSUME Nat \ T # {}
               PROVE  FALSE
  OBVIOUS
<1>2. PICK x \in Nat \ T : \A y \in Nat \ T : x <= y
  BY <1>1, LeastNumber
<1>3. x # 0 /\ x - 1 \in Nat
  BY <1>2
<1>4. x - 1 \in T
  BY <1>2, <1>3
<1> QED BY <1>2, <1>4

-------------------------------------------------------------------------------
(* The smaller and the larger of two numbers *)

LEMMA MinOfTwo ==
  ASSUME NEW a \in Int, NEW b \in Int
  PROVE  Min({a, b}) = IF a <= b THEN a ELSE b
<1> DEFINE m == IF a <= b THEN a ELSE b
<1>1. m \in {a, b} /\ \A x \in {a, b} : m <= x
  OBVIOUS
<1>2. \A y \in {a, b} : (\A x \in {a, b} : y <= x) => y = m
  OBVIOUS
<1> HIDE DEF m
<1>3. Min({a, b}) = m
  BY <1>1, <1>2 DEF Min
<1> QED BY <1>3 DEF m

LEMMA MaxOfTwo ==
  ASSUME NEW a \in Int, NEW b \in Int
  PROVE  Max({a, b}) = IF a >= b THEN a ELSE b
<1> DEFINE m == IF a >= b THEN a ELSE b
<1>1. m \in {a, b} /\ \A x \in {a, b} : m >= x
  OBVIOUS
<1>2. \A y \in {a, b} : (\A x \in {a, b} : y >= x) => y = m
  OBVIOUS
<1> HIDE DEF m
<1>3. Max({a, b}) = m
  BY <1>1, <1>2 DEF Max
<1> QED BY <1>3 DEF m

-------------------------------------------------------------------------------
(* Selection *)

\* s lists the members of S in ascending order.
Lists(s, S) ==
  /\ s \in [1..Cardinality(S) -> S]
  /\ \A i, j \in DOMAIN s : i < j => s[i] < s[j]

LEMMA ListExists ==
  ASSUME NEW S \in SUBSET Nat, IsFiniteSet(S)
  PROVE  \E s : Lists(s, S)
<1> DEFINE Listed == {n \in Nat : \A R \in SUBSET Nat :
                        IsFiniteSet(R) /\ Cardinality(R) = n => \E s : Lists(s, R)}
<1>1. 0 \in Listed
  <2>1. ASSUME NEW R \in SUBSET Nat, IsFiniteSet(R), Cardinality(R) = 0
        PROVE  Lists(<< >>, R)
    BY <2>1 DEF Lists
  <2> QED BY <2>1
<1>2. ASSUME NEW n \in Listed
      PROVE  n + 1 \in Listed
  <2>1. ASSUME NEW R \in SUBSET Nat, IsFiniteSet(R), Cardinality(R) = n + 1
        PROVE  \E s : Lists(s, R)
    <3>1. R # {} /\ n \in Nat
      BY <2>1, FS_EmptySet
    <3>2. PICK x \in R : \A y \in R : x <= y
      BY <3>1, LeastNumber
    <3> DEFINE Q == R \ {x}
    <3>3. IsFiniteSet(Q) /\ Cardinality(Q) = n /\ Q \in SUBSET Nat
      <4>1. IsFiniteSet(Q) /\ Cardinality(Q) = Cardinality(R) - 1
        BY <2>1, FS_RemoveElement
      <4> QED BY <2>1, <3>1, <4>1
    <3>4. PICK s : Lists(s, Q)
      BY <3>1, <3>3
    <3> DEFINE t == [i \in 1..(n + 1) |-> IF i = 1 THEN x ELSE s[i - 1]]
    <3>5. s \in [1..n -> Q] /\ \A i, j \in 1..n : i < j => s[i] < s[j]
      BY <3>3, <3>4 DEF Lists
    <3>6. \A i \in 1..(n + 1) : i # 1 => i - 1 \in 1..n
      BY <3>1
    <3>7. t \in [1..(n + 1) -> R]
      BY <3>5, <3>6
    <3>8. ASSUME NEW i \in 1..(n + 1), NEW j \in 1..(n + 1), i < j
          PROVE  t[i] < t[j]
      <4>1. j # 1 /\ j - 1 \in 1..n /\ t[j] = s[j - 1] /\ s[j - 1] \in Q
        BY <3>1, <3>5, <3>6, <3>8
      <4>2. CASE i = 1
        <5>1. t[i] = x /\ s[j - 1] \in R /\ s[j - 1] # x /\ x \in Nat /\ s[j - 1] \in Nat
          BY <4>1, <4>2
        <5> QED BY <3>2, <4>1, <5>1
      <4>3. CASE i # 1
        <5>1. i - 1 \in 1..n /\ i - 1 < j - 1 /\ t[i] = s[i - 1]
          BY <3>1, <3>6, <3>8, <4>3
        <5> QED BY <3>5, <4>1, <5>1
      <4> QED BY <4>2, <4>3
    <3> HIDE DEF t
    <3>9. DOMAIN t = 1..(n + 1)
      BY <3>7
    <3> QED BY <2>1, <3>7, <3>8, <3>9 DEF Lists
  <2> QED BY <2>1
<1>3. Listed = Nat
  <2> HIDE DEF Listed
  <2>1. Listed \in SUBSET Nat
    BY DEF Listed
  <2> QED BY <1>1, <1>2, <2>1, Induction
<1> QED BY <1>3, FS_CardinalityType

\* InOrder lists every member once, ascending.
LEMMA InOrderProperties ==
  ASSUME NEW S \in SUBSET Nat, IsFiniteSet(S)
  PROVE  /\ InOrder(S) \in [1..Cardinality(S) -> S]
         /\ \A i, j \in 1..Cardinality(S) : i < j => InOrder(S)[i] < InOrder(S)[j]
         /\ \A x \in S : \E i \in 1..Cardinality(S) : InOrder(S)[i] = x
<1> DEFINE n == Cardinality(S)
<1>1. n \in Nat
  BY FS_CardinalityType
<1>2. Lists(InOrder(S), S)
  <2>1. PICK s : Lists(s, S)
    BY ListExists
  <2> QED BY <2>1 DEF Lists, InOrder
<1>3. /\ InOrder(S) \in [1..n -> S]
      /\ \A i, j \in 1..n : i < j => InOrder(S)[i] < InOrder(S)[j]
  BY <1>2 DEF Lists
<1>4. ASSUME NEW i \in 1..n, NEW j \in 1..n, InOrder(S)[i] = InOrder(S)[j]
      PROVE  i = j
  <2>1. InOrder(S)[i] \in Nat
    BY <1>3
  <2>2. ~ (i < j) /\ ~ (j < i)
    BY <1>3, <1>4, <2>1
  <2> QED BY <1>1, <2>2
<1>5. InOrder(S) \in Injection(1..n, S)
  BY <1>3, <1>4 DEF Injection, IsInjective
<1>6. Cardinality(1..n) = n
  BY <1>1, FS_Interval
<1>7. InOrder(S) \in Surjection(1..n, S)
  BY <1>5, <1>6, FS_Injection
<1> QED BY <1>3, <1>7 DEF Surjection

\* What Selected holds, and that it keeps the order.
LEMMA SelectedProperties ==
  ASSUME NEW V, NEW s \in Seq(V), NEW I \in SUBSET DOMAIN s
  PROVE  /\ Selected(s, I) \in Seq(V)
         /\ Cardinality(I) \in Nat
         /\ DOMAIN Selected(s, I) = 1..Cardinality(I)
         /\ Len(Selected(s, I)) = Cardinality(I)
         /\ \A n \in 1..Cardinality(I) :
              InOrder(I)[n] \in I /\ Selected(s, I)[n] = s[InOrder(I)[n]]
         /\ \A i \in I : \E n \in 1..Cardinality(I) : Selected(s, I)[n] = s[i]
<1>1. I \in SUBSET Nat /\ DOMAIN s = 1..Len(s) /\ Len(s) \in Nat
  OBVIOUS
<1>2. IsFiniteSet(I) /\ Cardinality(I) \in Nat
  <2>1. IsFiniteSet(1..Len(s))
    BY <1>1, FS_Interval
  <2>2. I \in SUBSET (1..Len(s))
    BY <1>1
  <2> QED BY <2>1, <2>2, FS_Subset, FS_CardinalityType
<1>3. /\ InOrder(I) \in [1..Cardinality(I) -> I]
      /\ \A x \in I : \E i \in 1..Cardinality(I) : InOrder(I)[i] = x
  BY <1>1, <1>2, InOrderProperties
<1>4. \A n \in 1..Cardinality(I) :
        InOrder(I)[n] \in I /\ Selected(s, I)[n] = s[InOrder(I)[n]]
  BY <1>3 DEF Selected
<1>5. DOMAIN Selected(s, I) = 1..Cardinality(I)
  BY DEF Selected
<1>6. Selected(s, I) \in [1..Cardinality(I) -> V]
  BY <1>1, <1>3 DEF Selected
<1>7. Selected(s, I) \in Seq(V) /\ Len(Selected(s, I)) = Cardinality(I)
  BY <1>2, <1>6
<1>8. \A i \in I : \E n \in 1..Cardinality(I) : Selected(s, I)[n] = s[i]
  BY <1>3, <1>4
<1> QED BY <1>2, <1>4, <1>5, <1>7, <1>8
-------------------------------------------------------------------------------
(* Concatenation *)

\* A sequence over its own elements.
LEMMA SeqOfElements ==
  ASSUME NEW V, NEW s \in Seq(V)
  PROVE  s \in Seq(ToSet(s)) /\ ToSet(s) \in SUBSET V /\ DOMAIN s = 1..Len(s)
<1>1. DOMAIN s = 1..Len(s) /\ s \in [1..Len(s) -> V] /\ Len(s) \in Nat
  OBVIOUS
<1>2. \A i \in 1..Len(s) : s[i] \in ToSet(s)
  BY <1>1 DEF ToSet
<1>3. s \in [1..Len(s) -> ToSet(s)]
  BY <1>1, <1>2
<1>4. s \in Seq(ToSet(s))
  BY <1>1, <1>3
<1>5. ToSet(s) \in SUBSET V
  BY <1>1 DEF ToSet
<1> QED BY <1>1, <1>4, <1>5

\* A concatenation holds the elements of both parts, the second's behind the
\* first's.
LEMMA ConcatElements ==
  ASSUME NEW s, s \in Seq(ToSet(s)), NEW t, t \in Seq(ToSet(t))
  PROVE  /\ s \o t \in Seq(ToSet(s \o t))
         /\ ToSet(s \o t) = ToSet(s) \cup ToSet(t)
         /\ Len(s \o t) = Len(s) + Len(t)
         /\ Len(s) \in Nat /\ Len(t) \in Nat
         /\ \A i \in 1..Len(s) : (s \o t)[i] = s[i]
         /\ \A i \in 1..Len(t) : (s \o t)[Len(s) + i] = t[i]
<1> DEFINE V == ToSet(s) \cup ToSet(t)
           c == s \o t
<1>1. s \in Seq(V) /\ t \in Seq(V)
  OBVIOUS
<1>2. /\ c \in Seq(V)
      /\ Len(c) = Len(s) + Len(t) /\ Len(s) \in Nat /\ Len(t) \in Nat
      /\ DOMAIN s = 1..Len(s) /\ DOMAIN t = 1..Len(t)
      /\ DOMAIN c = 1..Len(c)
  BY <1>1
<1>3. /\ \A i \in 1..Len(s) : c[i] = s[i]
      /\ \A i \in 1..Len(t) : c[Len(s) + i] = t[i]
  BY <1>1
<1>4. c \in Seq(ToSet(c)) /\ ToSet(c) \in SUBSET V
  BY <1>2, SeqOfElements
<1>5. ASSUME NEW x \in V
      PROVE  x \in ToSet(c)
  <2>1. CASE x \in ToSet(s)
    <3>1. PICK i \in 1..Len(s) : s[i] = x
      BY <1>2, <2>1 DEF ToSet
    <3>2. i \in DOMAIN c /\ c[i] = x
      BY <1>2, <1>3, <3>1
    <3> QED BY <3>2 DEF ToSet
  <2>2. CASE x \in ToSet(t)
    <3>1. PICK i \in 1..Len(t) : t[i] = x
      BY <1>2, <2>2 DEF ToSet
    <3>2. Len(s) + i \in DOMAIN c /\ c[Len(s) + i] = x
      BY <1>2, <1>3, <3>1
    <3> QED BY <3>2 DEF ToSet
  <2> QED BY <2>1, <2>2
<1>6. ToSet(c) = V
  BY <1>4, <1>5
<1> QED BY <1>2, <1>3, <1>4, <1>6

\* The recursive function of FlattenSeq exists.
LEMMA FlattenExists ==
  ASSUME NEW ss, NEW n \in Nat
  PROVE  \E g : g = [i \in 1..n |-> IF i = 1 THEN ss[i] ELSE g[i - 1] \o ss[i]]
<1> DEFINE Upto(k, g) == g = [i \in 1..k |-> IF i = 1 THEN ss[i] ELSE g[i - 1] \o ss[i]]
           T == {k \in Nat : \E g : Upto(k, g)}
<1>1. 0 \in T
  <2>1. Upto(0, [i \in 1..0 |-> 0])
    OBVIOUS
  <2> QED BY <2>1
<1>2. ASSUME NEW k \in T
      PROVE  k + 1 \in T
  <2>1. PICK g : g = [i \in 1..k |-> IF i = 1 THEN ss[i] ELSE g[i - 1] \o ss[i]]
    OBVIOUS
  <2> DEFINE h == [i \in 1..(k + 1) |->
                     IF i <= k THEN g[i] ELSE IF i = 1 THEN ss[i] ELSE g[k] \o ss[i]]
  <2>2. ASSUME NEW i \in 1..(k + 1)
        PROVE  h[i] = IF i = 1 THEN ss[i] ELSE h[i - 1] \o ss[i]
    <3>1. CASE i = 1
      BY <2>1, <3>1
    <3>2. CASE i # 1 /\ i <= k
      <4>1. i \in 1..k /\ i - 1 \in 1..k /\ i - 1 \in 1..(k + 1) /\ i - 1 <= k
        BY <3>2
      <4>2. h[i] = g[i] /\ h[i - 1] = g[i - 1]
        BY <4>1
      <4>3. g[i] = g[i - 1] \o ss[i]
        BY <2>1, <3>2, <4>1
      <4> QED BY <3>2, <4>2, <4>3
    <3>3. CASE i # 1 /\ i > k
      <4>1. i = k + 1 /\ k \in 1..(k + 1) /\ i - 1 = k /\ ~ (i <= k)
        BY <3>3
      <4>2. h[k] = g[k] /\ h[i - 1] = h[k] /\ i # 1
        BY <3>3, <4>1
      <4>3. h[i] = g[k] \o ss[i]
        BY <3>3, <4>1
      <4> QED BY ONLY <4>2, <4>3
    <3> QED BY <3>1, <3>2, <3>3
  <2> HIDE DEF h
  <2>3. h = [i \in 1..(k + 1) |-> IF i = 1 THEN ss[i] ELSE h[i - 1] \o ss[i]]
    BY <2>2 DEF h
  <2>4. Upto(k + 1, h)
    BY <2>3
  <2> HIDE DEF Upto
  <2> QED BY <2>4
<1>3. T = Nat
  <2> HIDE DEF T
  <2>1. T \in SUBSET Nat
    BY DEF T
  <2> QED BY <1>1, <1>2, <2>1, Induction
<1> QED BY <1>3

\* FlattenSeq holds the elements of every part.
LEMMA FlattenElements ==
  ASSUME NEW ss, NEW n \in Nat, ss \in [1..n -> {ss[i] : i \in 1..n}],
         \A i \in 1..n : ss[i] \in Seq(ToSet(ss[i]))
  PROVE  /\ FlattenSeq(ss) \in Seq(ToSet(FlattenSeq(ss)))
         /\ ToSet(FlattenSeq(ss)) = UNION {ToSet(ss[i]) : i \in 1..n}
<1>1. DOMAIN ss = 1..n /\ ss \in Seq({ss[i] : i \in 1..n}) /\ Len(ss) = n
  OBVIOUS
<1>2. CASE n = 0
  <2>1. FlattenSeq(ss) = ss /\ ss = << >>
    BY <1>1, <1>2 DEF FlattenSeq
  <2>2. << >> \in Seq(ToSet(<< >>)) /\ ToSet(<< >>) = {}
    BY DEF ToSet
  <2> QED BY <1>2, <2>1, <2>2
<1>3. CASE n # 0
  <2>1. PICK g : g = [i \in 1..n |-> IF i = 1 THEN ss[i] ELSE g[i - 1] \o ss[i]]
    BY FlattenExists
  <2> DEFINE fl == CHOOSE f : f = [i \in 1..n |-> IF i = 1 THEN ss[i] ELSE f[i - 1] \o ss[i]]
  <2>2. fl = [i \in 1..n |-> IF i = 1 THEN ss[i] ELSE fl[i - 1] \o ss[i]]
    BY <2>1
  <2>3. FlattenSeq(ss) = fl[n]
    BY <1>1, <1>3 DEF FlattenSeq
  <2> HIDE DEF fl
  <2> DEFINE Good(k) == /\ fl[k] \in Seq(ToSet(fl[k]))
                        /\ ToSet(fl[k]) = UNION {ToSet(ss[i]) : i \in 1..k}
             T == {k \in Nat : k + 1 \in 1..n => Good(k + 1)}
  <2>4. 0 \in T
    <3>1. 1 \in 1..n
      BY <1>3
    <3>2. fl[1] = ss[1]
      BY <2>2, <3>1
    <3>3. UNION {ToSet(ss[i]) : i \in 1..1} = ToSet(ss[1])
      OBVIOUS
    <3>4. Good(1)
      BY <3>1, <3>2, <3>3
    <3> HIDE DEF Good
    <3> QED BY <3>4
  <2>5. ASSUME NEW k \in T
        PROVE  k + 1 \in T
    <3>1. SUFFICES ASSUME k + 2 \in 1..n
                   PROVE  Good(k + 2)
      <4> HIDE DEF Good
      <4>1. k + 1 + 1 = k + 2 /\ k + 1 \in Nat
        OBVIOUS
      <4> QED BY <4>1
    <3>2. k \in Nat /\ k + 1 \in 1..n /\ k + 2 # 1 /\ k + 2 - 1 = k + 1
      BY <3>1
    <3>3. Good(k + 1)
      BY <3>2
    <3>4. fl[k + 2] = fl[k + 1] \o ss[k + 2]
      <4>1. \A i \in 1..n : fl[i] = IF i = 1 THEN ss[i] ELSE fl[i - 1] \o ss[i]
        BY <2>2
      <4>2. fl[k + 2] = IF k + 2 = 1 THEN ss[k + 2] ELSE fl[k + 2 - 1] \o ss[k + 2]
        BY <3>1, <4>1
      <4> QED BY ONLY <3>2, <4>2
    <3>5. ss[k + 2] \in Seq(ToSet(ss[k + 2]))
      BY <3>1
    <3>6. /\ fl[k + 2] \in Seq(ToSet(fl[k + 2]))
          /\ ToSet(fl[k + 2]) = ToSet(fl[k + 1]) \cup ToSet(ss[k + 2])
      <4>1. SUFFICES ASSUME NEW a, a = fl[k + 1], NEW b, b = ss[k + 2]
                     PROVE  /\ a \o b \in Seq(ToSet(a \o b))
                            /\ ToSet(a \o b) = ToSet(a) \cup ToSet(b)
        BY <3>4
      <4>2. a \in Seq(ToSet(a)) /\ b \in Seq(ToSet(b))
        BY <3>3, <3>5, <4>1
      <4> QED BY ONLY <4>2, ConcatElements
    <3>7. 1..(k + 2) = 1..(k + 1) \cup {k + 2}
      BY <3>2
    <3>8. UNION {ToSet(ss[i]) : i \in 1..(k + 2)}
          = (UNION {ToSet(ss[i]) : i \in 1..(k + 1)}) \cup ToSet(ss[k + 2])
      BY <3>7
    <3> QED BY <3>3, <3>6, <3>8
  <2>6. T = Nat
    <3> HIDE DEF T
    <3>1. T \in SUBSET Nat
      BY DEF T
    <3> QED BY <2>4, <2>5, <3>1, Induction
  <2>7. Good(n)
    <3>1. n - 1 \in Nat /\ (n - 1) + 1 = n /\ n \in 1..n
      BY <1>3
    <3> HIDE DEF Good
    <3>2. (n - 1) + 1 \in 1..n => Good((n - 1) + 1)
      BY <2>6, <3>1
    <3> QED BY <3>1, <3>2
  <2> QED BY <2>3, <2>7
<1> QED BY <1>2, <1>3
==============================================================================
