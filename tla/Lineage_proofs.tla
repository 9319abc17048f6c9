---------------------------- MODULE Lineage_proofs ----------------------------
(***************************************************************************)
(* Proofs about Lineage.  The recursive query of a request returns exactly *)
(* the nodes at the end of a path of bounded length, and a path that is in *)
(* the tables when a request begins and when it ends is there in between:  *)
(* the answer is a neighbourhood of the seed, although its statements see  *)
(* different states of the tables.                                         *)
(***************************************************************************)
EXTENDS Lineage, SequenceLemmas

-------------------------------------------------------------------------------
(* Paths *)

Ends(E, from) == {e[1] : e \in E} \cup {e[2] : e \in E} \cup {from}

IsPath(p, l, E, from, n, direction) ==
  /\ p \in [1..l -> Ends(E, from)]
  /\ p[1] = from /\ p[l] = n
  /\ \A i \in 1..(l - 1) : Joined(E, p[i], p[i + 1], direction)

\* Near in the words of IsPath.
LEMMA NearIsPath ==
  ASSUME NEW E, NEW from, NEW k, NEW direction, NEW n
  PROVE  n \in Near(E, from, k, direction) <=>
           \E l \in 1..(k + 1) : \E p : IsPath(p, l, E, from, n, direction)
<1>1. n \in Near(E, from, k, direction) <=>
        /\ n \in Ends(E, from)
        /\ \E l \in 1..(k + 1) : \E p \in [1..l -> Ends(E, from)] :
             /\ p[1] = from /\ p[l] = n
             /\ \A i \in 1..(l - 1) : Joined(E, p[i], p[i + 1], direction)
  BY Zenon DEF Near, Ends
<1>2. ASSUME NEW l \in 1..(k + 1), NEW p, IsPath(p, l, E, from, n, direction)
      PROVE  n \in Ends(E, from)
  <2>1. l \in 1..l
    BY <1>2
  <2> QED BY <1>2, <2>1 DEF IsPath
<1> QED BY <1>1, <1>2 DEF IsPath

\* An edge joins two ends of edges.
LEMMA JoinedEnds ==
  ASSUME NEW E, NEW from, NEW direction, NEW m, NEW n, Joined(E, m, n, direction)
  PROVE  m \in Ends(E, from) /\ n \in Ends(E, from)
<1>1. CASE <<m, n>> \in E
  <2>1. <<m, n>>[1] = m /\ <<m, n>>[2] = n
    OBVIOUS
  <2> QED BY <1>1, <2>1 DEF Ends
<1>2. CASE <<n, m>> \in E
  <2>1. <<n, m>>[1] = n /\ <<n, m>>[2] = m
    OBVIOUS
  <2> QED BY <1>2, <2>1 DEF Ends
<1> QED BY <1>1, <1>2 DEF Joined

\* The seed is near itself, and nothing else is at distance zero.
LEMMA NearZero ==
  ASSUME NEW E, NEW from, NEW direction
  PROVE  Near(E, from, 0, direction) = {from}
<1>1. IsPath([i \in 1..1 |-> from], 1, E, from, from, direction)
  BY DEF IsPath, Ends
<1>2. ASSUME NEW n, NEW l \in 1..(0 + 1), NEW p, IsPath(p, l, E, from, n, direction)
      PROVE  n = from
  <2>1. l = 1
    OBVIOUS
  <2> QED BY <1>2, <2>1 DEF IsPath
<1>3. \A n : n \in Near(E, from, 0, direction) <=> n = from
  <2>1. 1 \in 1..(0 + 1)
    OBVIOUS
  <2> QED BY <1>1, <1>2, <2>1, NearIsPath
<1> QED BY <1>3

\* More edges bring more nodes near.
LEMMA NearGrows ==
  ASSUME NEW E, NEW F, E \subseteq F, NEW from, NEW k, NEW direction
  PROVE  Near(E, from, k, direction) \subseteq Near(F, from, k, direction)
<1>1. Ends(E, from) \subseteq Ends(F, from)
  BY DEF Ends
<1>2. \A m, n : Joined(E, m, n, direction) => Joined(F, m, n, direction)
  BY DEF Joined
<1>3. ASSUME NEW n, NEW l \in 1..(k + 1), NEW p, IsPath(p, l, E, from, n, direction)
      PROVE  IsPath(p, l, F, from, n, direction)
  BY <1>1, <1>2, <1>3 DEF IsPath
<1> QED BY <1>3, NearIsPath

\* A longer walk reaches more.
LEMMA NearLonger ==
  ASSUME NEW E, NEW from, NEW k \in Nat, NEW k2 \in Nat, k <= k2, NEW direction
  PROVE  Near(E, from, k, direction) \subseteq Near(E, from, k2, direction)
<1>1. 1..(k + 1) \subseteq 1..(k2 + 1)
  OBVIOUS
<1> QED BY <1>1, NearIsPath

\* One edge more reaches the next node.
LEMMA NearStep ==
  ASSUME NEW E, NEW from, NEW k \in Nat, NEW direction, NEW m, NEW n,
         m \in Near(E, from, k, direction), Joined(E, m, n, direction)
  PROVE  n \in Near(E, from, k + 1, direction)
<1>0. PICK l \in 1..(k + 1) : \E p : IsPath(p, l, E, from, m, direction)
  BY NearIsPath
<1>1. PICK p : IsPath(p, l, E, from, m, direction)
  BY <1>0
<1>2. n \in Ends(E, from)
  BY JoinedEnds
<1> DEFINE q == [i \in 1..(l + 1) |-> IF i = l + 1 THEN n ELSE p[i]]
<1>3. q \in [1..(l + 1) -> Ends(E, from)]
  <2>1. \A i \in 1..(l + 1) : i # l + 1 => i \in 1..l
    OBVIOUS
  <2> QED BY <1>1, <1>2, <2>1 DEF IsPath
<1>4. q[1] = from /\ q[l + 1] = n
  BY <1>1 DEF IsPath
<1>5. ASSUME NEW i \in 1..((l + 1) - 1)
      PROVE  Joined(E, q[i], q[i + 1], direction)
  <2>1. CASE i = l
    <3>1. q[i] = m /\ q[i + 1] = n
      BY <1>1, <2>1 DEF IsPath
    <3> QED BY <3>1
  <2>2. CASE i # l
    <3>1. i \in 1..(l - 1) /\ i \in 1..(l + 1) /\ i + 1 \in 1..(l + 1) /\ i # l + 1 /\ i + 1 # l + 1
      BY <2>2
    <3>2. q[i] = p[i] /\ q[i + 1] = p[i + 1]
      BY <3>1
    <3>3. Joined(E, p[i], p[i + 1], direction)
      BY <1>1, <3>1 DEF IsPath
    <3> HIDE DEF q
    <3> QED BY <3>2, <3>3
  <2> QED BY <2>1, <2>2
<1> HIDE DEF q
<1>6. IsPath(q, l + 1, E, from, n, direction)
  BY <1>3, <1>4, <1>5 DEF IsPath
<1>7. l + 1 \in 1..((k + 1) + 1)
  OBVIOUS
<1> QED BY <1>6, <1>7, NearIsPath

\* What is near was near before the last edge, or the last edge leads there.
LEMMA NearBack ==
  ASSUME NEW E, NEW from, NEW k \in Nat, NEW direction, NEW n,
         n \in Near(E, from, k + 1, direction)
  PROVE  \/ n \in Near(E, from, k, direction)
         \/ \E m \in Near(E, from, k, direction) : Joined(E, m, n, direction)
<1>0. PICK l \in 1..((k + 1) + 1) : \E p : IsPath(p, l, E, from, n, direction)
  BY NearIsPath
<1>1. PICK p : IsPath(p, l, E, from, n, direction)
  BY <1>0
<1>2. CASE l \in 1..(k + 1)
  BY <1>1, <1>2, NearIsPath
<1>3. CASE l \notin 1..(k + 1)
  <2>1. l = k + 2 /\ l - 1 \in 1..(k + 1) /\ l - 1 \in 1..l /\ 1 \in 1..(l - 1)
    BY <1>3
  <2> DEFINE q == [i \in 1..(l - 1) |-> p[i]]
             m == p[l - 1]
  <2>2. q \in [1..(l - 1) -> Ends(E, from)]
    <3>1. \A i \in 1..(l - 1) : i \in 1..l
      OBVIOUS
    <3> QED BY <1>1, <3>1 DEF IsPath
  <2>3. q[1] = from /\ q[l - 1] = m
    BY <1>1, <2>1 DEF IsPath
  <2>4. ASSUME NEW i \in 1..((l - 1) - 1)
        PROVE  Joined(E, q[i], q[i + 1], direction)
    <3>1. i \in 1..(l - 1) /\ i + 1 \in 1..(l - 1)
      BY <2>1
    <3>2. q[i] = p[i] /\ q[i + 1] = p[i + 1]
      BY <3>1
    <3>3. Joined(E, p[i], p[i + 1], direction)
      BY <1>1, <3>1 DEF IsPath
    <3> HIDE DEF q
    <3> QED BY <3>2, <3>3
  <2>5. Joined(E, m, n, direction)
    <3>1. l - 1 \in 1..(l - 1) /\ (l - 1) + 1 = l
      BY <2>1
    <3>2. Joined(E, p[l - 1], p[(l - 1) + 1], direction)
      BY <1>1, <3>1 DEF IsPath
    <3>3. p[(l - 1) + 1] = n
      BY <1>1, <3>1 DEF IsPath
    <3> QED BY <3>2, <3>3
  <2> HIDE DEF q, m
  <2>6. IsPath(q, l - 1, E, from, m, direction)
    BY <2>2, <2>3, <2>4 DEF IsPath
  <2>7. m \in Near(E, from, k, direction)
    BY <2>1, <2>6, NearIsPath
  <2> QED BY <2>5, <2>7
<1> QED BY <1>2, <1>3

-------------------------------------------------------------------------------
(* The recursive query *)

Pairs(E) == \A e \in E : e = <<e[1], e[2]>>

\* A round of the recursive query follows one edge, in either direction.
LEMMA StepJoins ==
  ASSUME NEW E, Pairs(E), NEW S, NEW n
  PROVE  n \in Step(E, S, "Down") \cup Step(E, S, "Up") <=> \E m \in S : Joined(E, m, n, "Both")
<1>1. n \in Step(E, S, "Down") <=> \E m \in S : <<m, n>> \in E
  <2>1. n \in Step(E, S, "Down") <=> \E e \in E : e[1] \in S /\ n = e[2]
    BY DEF Step
  <2> QED BY <2>1 DEF Pairs
<1>2. n \in Step(E, S, "Up") <=> \E m \in S : <<n, m>> \in E
  <2>1. n \in Step(E, S, "Up") <=> \E e \in E : e[2] \in S /\ n = e[1]
    BY DEF Step
  <2> QED BY <2>1 DEF Pairs
<1>3. \A m : Joined(E, m, n, "Both") <=> <<m, n>> \in E \/ <<n, m>> \in E
  BY DEF Joined
<1> QED BY <1>1, <1>2, <1>3

IsWork(g, E, from, K) ==
  g = [d \in 0..K |->
         IF d = 0 THEN {from}
         ELSE LET S == g[d - 1] IN Step(E, S, "Down") \cup Step(E, S, "Up")]

\* The recursive function of the query exists.
LEMMA WorkExists ==
  ASSUME NEW E, NEW from, NEW n \in Nat
  PROVE  \E g : IsWork(g, E, from, n)
<1> DEFINE Both(S) == Step(E, S, "Down") \cup Step(E, S, "Up")
           Upto(k, g) == g = [d \in 0..k |-> IF d = 0 THEN {from} ELSE Both(g[d - 1])]
           T == {k \in Nat : \E g : Upto(k, g)}
<1>1. 0 \in T
  <2> HIDE DEF Both
  <2> DEFINE g == [d \in 0..0 |-> {from}]
  <2>1. g = [d \in 0..0 |-> IF d = 0 THEN {from} ELSE Both(g[d - 1])]
    OBVIOUS
  <2> QED BY <2>1
<1>2. ASSUME NEW k \in T
      PROVE  k + 1 \in T
  <2> HIDE DEF Both
  <2>1. PICK g : g = [d \in 0..k |-> IF d = 0 THEN {from} ELSE Both(g[d - 1])]
    OBVIOUS
  <2> DEFINE h == [d \in 0..(k + 1) |-> IF d <= k THEN g[d] ELSE Both(g[k])]
  <2>2. ASSUME NEW d \in 0..(k + 1)
        PROVE  h[d] = IF d = 0 THEN {from} ELSE Both(h[d - 1])
    <3>1. CASE d = 0
      <4>1. d \in 0..k /\ d <= k
        BY <3>1
      <4> QED BY <2>1, <3>1, <4>1
    <3>2. CASE d # 0 /\ d <= k
      <4>1. d \in 0..k /\ d - 1 \in 0..k /\ d - 1 \in 0..(k + 1) /\ d - 1 <= k
        BY <3>2
      <4>2. h[d] = g[d] /\ h[d - 1] = g[d - 1]
        BY <4>1
      <4>3. g[d] = Both(g[d - 1])
        BY <2>1, <3>2, <4>1
      <4> QED BY <3>2, <4>2, <4>3
    <3>3. CASE d # 0 /\ d > k
      <4>1. d = k + 1 /\ k \in 0..(k + 1) /\ d - 1 = k /\ ~ (d <= k)
        BY <3>3
      <4>2. h[k] = g[k] /\ h[d - 1] = h[k] /\ d # 0
        BY <3>3, <4>1
      <4>3. h[d] = Both(g[k])
        BY <3>3, <4>1
      <4> QED BY ONLY <4>2, <4>3
    <3> QED BY <3>1, <3>2, <3>3
  <2> HIDE DEF h
  <2>3. h = [d \in 0..(k + 1) |-> IF d = 0 THEN {from} ELSE Both(h[d - 1])]
    BY <2>2 DEF h
  <2>4. Upto(k + 1, h)
    BY <2>3
  <2> HIDE DEF Upto
  <2> QED BY <2>4
<1>3. T = Nat
  <2> HIDE DEF T
  <2>1. T \in SUBSET Nat
    BY DEF T
  <2> QED BY <1>1, <1>2, <2>1, Induction
<1>4. PICK g : Upto(n, g)
  BY <1>3
<1> QED BY <1>4 DEF IsWork

\* After d rounds the working table is near the seed, and what is near the seed
\* was in it after some round.
LEMMA WorkIsNear ==
  ASSUME NEW E, Pairs(E), NEW from, NEW K \in Nat, NEW g, IsWork(g, E, from, K)
  PROVE  \A d \in 0..K :
           /\ g[d] \subseteq Near(E, from, d, "Both")
           /\ \A n \in Near(E, from, d, "Both") : \E i \in 0..d : n \in g[i]
<1> DEFINE P(d) == /\ g[d] \subseteq Near(E, from, d, "Both")
                   /\ \A n \in Near(E, from, d, "Both") : \E i \in 0..d : n \in g[i]
           T == {d \in Nat : d <= K => P(d)}
<1>0. /\ g[0] = {from}
      /\ \A d \in 0..K : d # 0 =>
           g[d] = Step(E, g[d - 1], "Down") \cup Step(E, g[d - 1], "Up")
  <2>1. g[0] = {from}
    BY DEF IsWork
  <2>2. ASSUME NEW d \in 0..K, d # 0
        PROVE  g[d] = Step(E, g[d - 1], "Down") \cup Step(E, g[d - 1], "Up")
    BY <2>2, Zenon DEF IsWork
  <2> QED BY <2>1, <2>2
<1>1. 0 \in T
  <2>1. P(0)
    BY <1>0, NearZero
  <2> HIDE DEF P
  <2> QED BY <2>1
<1>2. ASSUME NEW d \in T
      PROVE  d + 1 \in T
  <2>1. SUFFICES ASSUME d + 1 <= K
                 PROVE  P(d + 1)
    <3> HIDE DEF P
    <3> QED BY <2>1
  <2>2. P(d) /\ d \in Nat
    <3>1. d \in Nat /\ d <= K
      BY <2>1
    <3> HIDE DEF P
    <3> QED BY <3>1
  <2>3. ASSUME NEW i \in 0..d, NEW n
        PROVE  n \in g[i + 1] <=> \E m \in g[i] : Joined(E, m, n, "Both")
    <3>1. i + 1 \in 0..K /\ i + 1 # 0 /\ (i + 1) - 1 = i
      BY <2>1, <2>2
    <3>2. g[i + 1] = Step(E, g[i], "Down") \cup Step(E, g[i], "Up")
      BY <1>0, <3>1
    <3> QED BY <3>2, StepJoins
  <2>4. ASSUME NEW n \in g[d + 1]
        PROVE  n \in Near(E, from, d + 1, "Both")
    <3>1. d \in 0..d
      BY <2>2
    <3>2. PICK m \in g[d] : Joined(E, m, n, "Both")
      BY <2>3, <3>1
    <3>3. m \in Near(E, from, d, "Both")
      BY <2>2
    <3> QED BY <2>2, <3>2, <3>3, NearStep
  <2>5. ASSUME NEW n \in Near(E, from, d + 1, "Both")
        PROVE  \E i \in 0..(d + 1) : n \in g[i]
    <3>1. CASE n \in Near(E, from, d, "Both")
      <4>1. PICK i \in 0..d : n \in g[i]
        BY <2>2, <3>1
      <4>2. i \in 0..(d + 1)
        BY <2>2
      <4> QED BY <4>1, <4>2
    <3>2. CASE \E m \in Near(E, from, d, "Both") : Joined(E, m, n, "Both")
      <4>1. PICK m \in Near(E, from, d, "Both") : Joined(E, m, n, "Both")
        BY <3>2
      <4>2. PICK i \in 0..d : m \in g[i]
        BY <2>2, <4>1
      <4>3. n \in g[i + 1] /\ i + 1 \in 0..(d + 1)
        BY <2>2, <2>3, <4>1, <4>2
      <4> QED BY <4>3
    <3> QED BY <2>2, <3>1, <3>2, NearBack
  <2> QED BY <2>4, <2>5
<1> HIDE DEF P
<1>3. T = Nat
  <2> HIDE DEF T
  <2>1. T \in SUBSET Nat
    BY DEF T
  <2> QED BY <1>1, <1>2, <2>1, Induction
<1>4. \A d \in 0..K : P(d)
  BY <1>3
<1> QED BY <1>4 DEF P

\* The recursive query returns the nodes within the depth, for every graph.
LEMMA ReachIsNear ==
  ASSUME NEW E, Pairs(E), NEW from, NEW depth \in Nat
  PROVE  Reach(E, from, depth) = Near(E, from, depth, "Both")
<1>1. Max({depth, 0}) = depth
  <2>1. depth \in {depth, 0} /\ \A x \in {depth, 0} : depth >= x
    OBVIOUS
  <2>2. \A y \in {depth, 0} : (\A x \in {depth, 0} : y >= x) => y = depth
    OBVIOUS
  <2> QED BY <2>1, <2>2 DEF Max
<1> DEFINE work == CHOOSE f : f = [d \in 0..Max({depth, 0}) |->
                      IF d = 0 THEN {from}
                      ELSE LET S == f[d - 1] IN Step(E, S, "Down") \cup Step(E, S, "Up")]
<1>2. Reach(E, from, depth) = UNION {work[d] : d \in DOMAIN work}
  BY Zenon DEF Reach
<1>3. IsWork(work, E, from, depth)
  <2>1. work = CHOOSE f : IsWork(f, E, from, depth)
    BY <1>1, Zenon DEF IsWork
  <2>2. \E f : IsWork(f, E, from, depth)
    BY WorkExists
  <2> HIDE DEF work
  <2> QED BY <2>1, <2>2, Zenon
<1> HIDE DEF work
<1>4. DOMAIN work = 0..depth
  BY <1>3 DEF IsWork
<1>5. \A d \in 0..depth :
        /\ work[d] \subseteq Near(E, from, d, "Both")
        /\ \A n \in Near(E, from, d, "Both") : \E i \in 0..d : n \in work[i]
  BY <1>3, WorkIsNear
<1>6. ASSUME NEW d \in 0..depth
      PROVE  work[d] \subseteq Near(E, from, depth, "Both")
  BY <1>5, NearLonger
<1>7. \A n \in Near(E, from, depth, "Both") : \E i \in 0..depth : n \in work[i]
  BY <1>5
<1> QED BY <1>2, <1>4, <1>6, <1>7

\* Near the seed, the edges that join what is near suffice.
LEMMA NearThrough ==
  ASSUME NEW E, NEW F, NEW from, NEW K \in Nat, NEW direction,
         \A m, n \in Near(E, from, K, direction) :
            Joined(E, m, n, direction) => Joined(F, m, n, direction)
  PROVE  Near(E, from, K, direction) \subseteq Near(F, from, K, direction)
<1> DEFINE P(j) == Near(E, from, j, direction) \subseteq Near(F, from, j, direction)
           T == {j \in Nat : j <= K => P(j)}
<1>1. 0 \in T
  <2>1. P(0)
    BY NearZero
  <2> HIDE DEF P
  <2> QED BY <2>1
<1>2. ASSUME NEW j \in T
      PROVE  j + 1 \in T
  <2>1. SUFFICES ASSUME j + 1 <= K
                 PROVE  P(j + 1)
    <3> HIDE DEF P
    <3> QED BY <2>1
  <2>2. P(j) /\ j \in Nat
    <3>1. j \in Nat /\ j <= K
      BY <2>1
    <3> HIDE DEF P
    <3> QED BY <3>1
  <2>3. SUFFICES ASSUME NEW n \in Near(E, from, j + 1, direction)
                 PROVE  n \in Near(F, from, j + 1, direction)
    OBVIOUS
  <2>4. CASE n \in Near(E, from, j, direction)
    BY <2>2, <2>4, NearLonger
  <2>5. CASE \E m \in Near(E, from, j, direction) : Joined(E, m, n, direction)
    <3>1. PICK m \in Near(E, from, j, direction) : Joined(E, m, n, direction)
      BY <2>5
    <3>2. m \in Near(E, from, K, direction) /\ n \in Near(E, from, K, direction)
      BY <2>1, <2>2, NearLonger
    <3>3. Joined(F, m, n, direction)
      BY <3>1, <3>2
    <3> QED BY <2>2, <3>1, <3>3, NearStep
  <2> QED BY <2>2, <2>4, <2>5, NearBack
<1> HIDE DEF P
<1>3. T = Nat
  <2> HIDE DEF T
  <2>1. T \in SUBSET Nat
    BY DEF T
  <2> QED BY <1>1, <1>2, <2>1, Induction
<1>4. P(K)
  BY <1>3
<1> QED BY <1>4 DEF P

\* What is near is the seed or the end of an edge.
LEMMA NearEnds ==
  ASSUME NEW E, NEW from, NEW k, NEW direction
  PROVE  Near(E, from, k, direction) \subseteq Ends(E, from)
BY Zenon DEF Near, Ends

-------------------------------------------------------------------------------
(* The depth of a walk *)

\* A depth that fits an i32 is converted to itself.
LEMMA AsI32Fits ==
  ASSUME NEW n \in Nat, n <= I32_MAX
  PROVE  AsI32(n) = n
<1>1. I32_MAX \in Nat
  BY LineageAssumption
<1> DEFINE values == 2 * (I32_MAX + 1)
<1>2. values \in Nat /\ values > 0 /\ n < values
  BY <1>1
<1> HIDE DEF values
<1>3. n % values = n
  BY <1>2
<1>4. AsI32(n) = IF n > I32_MAX THEN n - values ELSE n
  BY <1>3 DEF AsI32, values
<1> QED BY <1>1, <1>4

PromisedTo(r) ==
  IF r.surface = "connect" /\ r.depth <= 0 THEN MAX_DEPTH ELSE Min({r.depth, MAX_DEPTH})

\* A request walks as deep as the documentation promises.
LEMMA WalkDepthIsPromised ==
  ASSUME DepthsFit, NEW r \in Requests
  PROVE  WalkDepth(r) = PromisedTo(r) /\ PromisedTo(r) \in 0..MAX_DEPTH
<1>1. /\ MAX_DEPTH \in Nat /\ MAX_DEPTH > 0 /\ MAX_LIMIT \in Nat /\ I32_MAX \in Nat
      /\ MAX_DEPTH <= MAX_LIMIT /\ MAX_LIMIT <= I32_MAX
  BY LineageAssumption
<1>2. \/ r.surface = "rest" /\ r.depth \in Nat
      \/ r.surface = "connect" /\ r.depth \in Int
  BY LineageAssumption
<1>3. CASE r.surface = "rest" /\ r.depth \in Nat
  <2>1. r.depth <= I32_MAX
    BY <1>3 DEF DepthsFit
  <2>2. RequestedDepth(r) = r.depth
    BY <1>3 DEF RequestedDepth
  <2>3. AsI32(r.depth) = r.depth
    BY <1>3, <2>1, AsI32Fits
  <2>4. WalkDepth(r) = Min({r.depth, MAX_DEPTH})
    BY <2>2, <2>3 DEF WalkDepth
  <2>5. PromisedTo(r) = Min({r.depth, MAX_DEPTH})
    BY <1>3 DEF PromisedTo
  <2>6. Min({r.depth, MAX_DEPTH}) \in 0..MAX_DEPTH
    BY <1>1, <1>3, MinOfTwo
  <2> QED BY <2>4, <2>5, <2>6
<1>4. CASE r.surface = "connect" /\ r.depth \in Int
  <2> DEFINE m == Max({r.depth, 0})
             n == IF m = 0 THEN MAX_DEPTH ELSE m
  <2>1. m = IF r.depth >= 0 THEN r.depth ELSE 0
    BY <1>4, MaxOfTwo
  <2>2. RequestedDepth(r) = Min({n, MAX_LIMIT})
    BY <1>4 DEF RequestedDepth, resolve_limit
  <2> HIDE DEF m
  <2>3. n = IF r.depth <= 0 THEN MAX_DEPTH ELSE r.depth
    BY <1>1, <1>4, <2>1
  <2> HIDE DEF n
  <2>4. n \in Nat
    BY <1>1, <1>4, <2>3
  <2>5. Min({n, MAX_LIMIT}) = IF n <= MAX_LIMIT THEN n ELSE MAX_LIMIT
    BY <1>1, <2>4, MinOfTwo
  <2>6. RequestedDepth(r) \in Nat /\ RequestedDepth(r) <= I32_MAX
    BY <1>1, <2>2, <2>4, <2>5
  <2>7. WalkDepth(r) = Min({RequestedDepth(r), MAX_DEPTH})
    BY <2>6, AsI32Fits DEF WalkDepth
  <2>8. WalkDepth(r) = IF RequestedDepth(r) <= MAX_DEPTH THEN RequestedDepth(r) ELSE MAX_DEPTH
    BY <1>1, <2>6, <2>7, MinOfTwo
  <2>9. WalkDepth(r) = IF n <= MAX_DEPTH THEN n ELSE MAX_DEPTH
    BY <1>1, <2>2, <2>4, <2>5, <2>8
  <2>10. Min({r.depth, MAX_DEPTH}) = IF r.depth <= MAX_DEPTH THEN r.depth ELSE MAX_DEPTH
    BY <1>1, <1>4, MinOfTwo
  <2>11. PromisedTo(r) = IF r.depth <= 0 THEN MAX_DEPTH ELSE Min({r.depth, MAX_DEPTH})
    BY <1>4 DEF PromisedTo
  <2>12. CASE r.depth <= 0
    BY <1>1, <2>3, <2>9, <2>11, <2>12
  <2>13. CASE ~ (r.depth <= 0)
    BY <1>1, <1>4, <2>3, <2>9, <2>10, <2>11, <2>13
  <2> QED BY <2>12, <2>13
<1> QED BY <1>2, <1>3, <1>4

-------------------------------------------------------------------------------
(* The inductive invariant *)

\* What holds of a request that no rebuild has overtaken.
Steady ==
  /\ before.db.edges \subseteq db.edges
  /\ pc \notin {"exists", "not_found"} => parse_node_id(seed) \in db.rows
  /\ ReachedInStep /\ IncidentInStep /\ GraphInStep

LEMMA IInvParts ==
  IInv <=> TypeOK /\ EdgesHaveRows /\ (rebuilds = before.rebuilds => Steady)
BY DEF IInv, Steady

LEMMA TypeStep ==
  ASSUME TypeOK, [Next]_vars
  PROVE  TypeOK'
<1> USE DEF TypeOK
<1>1. ASSUME NEW n \in Nodes, NEW r \in Requests, Ask(n, r)
      PROVE  TypeOK'
  BY <1>1 DEF Ask
<1>2. CASE Exists
  BY <1>2 DEF Exists, asked
<1>3. CASE QueryReach
  BY <1>3 DEF QueryReach, asked
<1>4. CASE QueryIncident
  BY <1>4 DEF QueryIncident, asked
<1>5. CASE Answer
  BY <1>5 DEF Answer, asked
<1>6. ASSUME NEW id \in todo, BuildNode(id)
      PROVE  TypeOK'
  BY <1>6 DEF BuildNode, asked
<1>7. ASSUME NEW batch \in Batches, Fold(batch)
      PROVE  TypeOK'
  BY <1>7 DEF Fold, asked
<1>8. CASE Truncate
  BY <1>8 DEF Truncate, asked
<1>9. CASE UNCHANGED vars
  BY <1>9 DEF vars, asked
<1> QED BY <1>1, <1>2, <1>3, <1>4, <1>5, <1>6, <1>7, <1>8, <1>9 DEF Next

\* The rows of an edge come with it, and are truncated with it.
LEMMA EdgesStep ==
  ASSUME RowsReadBack, EdgesHaveRows, [Next]_vars
  PROVE  EdgesHaveRows'
<1>1. CASE UNCHANGED db
  BY <1>1 DEF EdgesHaveRows
<1>2. CASE Truncate
  <2>1. db'.edges = {}
    BY <1>2 DEF Truncate
  <2> QED BY <2>1 DEF EdgesHaveRows
<1>3. ASSUME NEW batch \in Batches, Fold(batch)
      PROVE  EdgesHaveRows'
  <2>1. db'.rows = db.rows \cup RowsOf(batch) /\ db'.edges = db.edges \cup EdgesOf(batch)
    BY <1>3 DEF Fold
  <2>2. ASSUME NEW e \in EdgesOf(batch)
        PROVE  e \in Nodes \X Nodes /\ \A i \in {1, 2} : parse_node_id(e[i]) \in RowsOf(batch)
    <3>1. PICK b \in batch : e = <<node_id(b[1]), node_id(b[2])>>
      BY DEF EdgesOf
    <3>2. b[1] \in RowsOf(batch) /\ b[2] \in RowsOf(batch)
      BY DEF RowsOf
    <3>3. b[1] \in Rows /\ b[2] \in Rows
      BY <3>2 DEF Rows
    <3>4. parse_node_id(node_id(b[1])) = b[1] /\ parse_node_id(node_id(b[2])) = b[2]
      BY <3>3 DEF RowsReadBack
    <3>5. e[1] = node_id(b[1]) /\ e[2] = node_id(b[2])
      BY <3>1
    <3>6. node_id(b[1]) \in Nodes /\ node_id(b[2]) \in Nodes
      BY <3>3 DEF Nodes
    <3> QED BY <3>1, <3>2, <3>4, <3>5, <3>6
  <2>3. \A e \in db.edges : e \in Nodes \X Nodes /\ \A i \in {1, 2} : parse_node_id(e[i]) \in db.rows
    BY DEF EdgesHaveRows
  <2>4. \A e \in db'.edges : e \in Nodes \X Nodes /\ \A i \in {1, 2} : parse_node_id(e[i]) \in db'.rows
    BY ONLY <2>1, <2>2, <2>3
  <2> QED BY <2>4 DEF EdgesHaveRows
<1> QED
  BY <1>1, <1>2, <1>3 DEF Next, Ask, Exists, QueryReach, QueryIncident, Answer, BuildNode, vars, asked

\* A reached node has its row, of the tables as they are.
LEMMA ReachedHaveRows ==
  ASSUME EdgesHaveRows, Steady, pc \in {"incident", "build", "answered"}
  PROVE  \A i \in reached : parse_node_id(i) \in db.rows
<1>1. parse_node_id(seed) \in db.rows
  BY DEF Steady
<1>2. reached \subseteq Ends(db.edges, seed)
  BY NearEnds DEF Steady, ReachedInStep
<1>3. \A e \in db.edges : parse_node_id(e[1]) \in db.rows /\ parse_node_id(e[2]) \in db.rows
  BY DEF EdgesHaveRows
<1> QED BY <1>1, <1>2, <1>3 DEF Ends

\* The facts about what was reached, of any tables: be those when the request
\* began, E those now, F the edges between reached nodes.
Surrounds(be, E, F, from, k, S) ==
  /\ Near(be, from, k, "Both") \subseteq S
  /\ S \subseteq Near(E, from, k, "Both")
  /\ S \subseteq Near(F, from, k, "Both")

LEMMA ReachedMeans ==
  ReachedInStep <=>
    (pc \in {"incident", "build", "answered"} =>
       Surrounds(before.db.edges, db.edges,
                 Within(IF pc = "incident" THEN db.edges ELSE incident),
                 seed, PromisedTo(request), reached))
BY Zenon DEF ReachedInStep, Surrounds, Promised, PromisedTo

\* The recursive query reaches the neighbourhood the tables hold at that moment.
LEMMA QuerySurrounds ==
  ASSUME NEW be, NEW E, be \subseteq E, Pairs(E), NEW from, NEW k \in Nat,
         NEW S, S = Reach(E, from, k)
  PROVE  Surrounds(be, E, {e \in E : e[1] \in S /\ e[2] \in S}, from, k, S)
<1> DEFINE F == {e \in E : e[1] \in S /\ e[2] \in S}
<1>1. S = Near(E, from, k, "Both")
  BY ReachIsNear
<1>2. Near(be, from, k, "Both") \subseteq S
  BY <1>1, NearGrows
<1>3. ASSUME NEW m \in S, NEW n \in S, Joined(E, m, n, "Both")
      PROVE  Joined(F, m, n, "Both")
  <2>1. /\ <<m, n>>[1] = m /\ <<m, n>>[2] = n
        /\ <<n, m>>[1] = n /\ <<n, m>>[2] = m
    OBVIOUS
  <2>2. CASE <<m, n>> \in E
    BY <2>1, <2>2 DEF Joined
  <2>3. CASE <<n, m>> \in E
    BY <2>1, <2>3 DEF Joined
  <2> QED BY <1>3, <2>2, <2>3 DEF Joined
<1> HIDE DEF F
<1>4. S \subseteq Near(F, from, k, "Both")
  BY <1>1, <1>3, NearThrough
<1> QED BY <1>1, <1>2, <1>4 DEF Surrounds, F

\* New edges lose nothing of it.
LEMMA SurroundsGrows ==
  ASSUME NEW be, NEW E, NEW E2, E \subseteq E2, NEW F, NEW F2, F \subseteq F2,
         NEW from, NEW k, NEW S, Surrounds(be, E, F, from, k, S)
  PROVE  Surrounds(be, E2, F2, from, k, S)
BY NearGrows DEF Surrounds

LEMMA SteadyStep ==
  ASSUME RowsReadBack, DepthsFit, TypeOK, EdgesHaveRows,
         rebuilds = before.rebuilds => Steady, [Next]_vars,
         rebuilds' = before'.rebuilds
  PROVE  Steady'
<1>1. ASSUME NEW n \in Nodes, NEW r \in Requests, Ask(n, r)
      PROVE  Steady'
  <2>1. before'.db.edges = db'.edges /\ pc' = "exists" /\ graph' = {}
    BY <1>1 DEF Ask
  <2> QED BY <2>1 DEF Steady, ReachedInStep, IncidentInStep, GraphInStep
<1>2. CASE Exists
  <2>1. /\ pc = "exists" /\ pc' \in {"reach", "not_found"}
        /\ pc' = "reach" => parse_node_id(seed) \in db.rows
        /\ db' = db /\ before' = before /\ seed' = seed /\ rebuilds' = rebuilds
        /\ graph' = graph
    BY <1>2 DEF Exists, asked
  <2>2. Steady
    BY <2>1
  <2> QED BY <2>1, <2>2 DEF Steady, ReachedInStep, IncidentInStep, GraphInStep
<1>3. CASE QueryReach
  <2>1. /\ pc = "reach" /\ pc' = "incident"
        /\ reached' = Reach(db.edges, seed, WalkDepth(request))
        /\ db' = db /\ before' = before /\ seed' = seed /\ rebuilds' = rebuilds
        /\ request' = request /\ graph' = graph
    BY <1>3 DEF QueryReach, asked
  <2>2. Steady
    BY <2>1
  <2>3. before.db.edges \subseteq db.edges /\ parse_node_id(seed) \in db.rows
    BY <2>1, <2>2 DEF Steady
  <2>4. WalkDepth(request) = PromisedTo(request) /\ PromisedTo(request) \in Nat
    BY WalkDepthIsPromised, LineageAssumption DEF TypeOK
  <2>5. Pairs(db.edges)
    BY DEF Pairs, EdgesHaveRows
  <2>6. reached' = Reach(db.edges, seed, PromisedTo(request))
    BY <2>1, <2>4
  <2>7. Surrounds(before.db.edges, db.edges,
                  {e \in db.edges : e[1] \in reached' /\ e[2] \in reached'},
                  seed, PromisedTo(request), reached')
    BY <2>3, <2>4, <2>5, <2>6, QuerySurrounds
  <2>8. ReachedInStep'
    BY <2>1, <2>7, ReachedMeans DEF ReachedInStep, Surrounds, Within, Promised, PromisedTo
  <2> QED BY <2>1, <2>2, <2>3, <2>8 DEF Steady, IncidentInStep, GraphInStep
<1>4. CASE QueryIncident
  <2>1. /\ pc = "incident" /\ pc' = "build"
        /\ incident' = {e \in db.edges : e[1] \in reached \/ e[2] \in reached}
        /\ todo' = reached
        /\ db' = db /\ before' = before /\ seed' = seed /\ rebuilds' = rebuilds
        /\ request' = request /\ reached' = reached /\ graph' = graph
    BY <1>4 DEF QueryIncident, asked
  <2>2. Steady
    BY <2>1
  <2>3. /\ before.db.edges \subseteq db.edges /\ parse_node_id(seed) \in db.rows
        /\ Surrounds(before.db.edges, db.edges, Within(db.edges), seed, PromisedTo(request), reached)
    BY <2>1, <2>2, ReachedMeans DEF Steady
  <2>4. Within(db.edges) = {e \in incident' : e[1] \in reached' /\ e[2] \in reached'}
    BY <2>1 DEF Within
  <2>5. Surrounds(before'.db.edges, db'.edges, {e \in incident' : e[1] \in reached' /\ e[2] \in reached'},
                  seed', PromisedTo(request'), reached')
    BY <2>1, <2>3, <2>4
  <2>6. ReachedInStep'
    BY <2>1, <2>5 DEF ReachedInStep, Surrounds, Within, Promised, PromisedTo
  <2>7. IncidentInStep'
    BY <2>1, <2>3 DEF IncidentInStep
  <2>8. GraphInStep'
    <3>1. graph = {}
      BY <2>1, <2>2 DEF Steady, GraphInStep
    <3>2. graph' = {} /\ reached' \ todo' = {} /\ todo' \subseteq reached' /\ pc' = "build"
      BY <2>1, <3>1
    <3> QED BY <3>2 DEF GraphInStep
  <2> QED BY <2>1, <2>3, <2>6, <2>7, <2>8 DEF Steady
<1>5. CASE Answer
  <2>1. /\ pc = "build" /\ pc' = "answered" /\ todo = {}
        /\ db' = db /\ before' = before /\ seed' = seed /\ rebuilds' = rebuilds
        /\ request' = request /\ reached' = reached /\ graph' = graph
        /\ incident' = incident /\ todo' = todo
    BY <1>5 DEF Answer, asked
  <2>2. Steady
    BY <2>1
  <2>3. before'.db.edges \subseteq db'.edges /\ parse_node_id(seed') \in db'.rows
    BY <2>1, <2>2 DEF Steady
  <2>4. ReachedInStep'
    BY <2>1, <2>2 DEF Steady, ReachedInStep, Within, Promised
  <2>5. IncidentInStep'
    BY <2>1, <2>2 DEF Steady, IncidentInStep
  <2>6. GraphInStep'
    BY <2>1, <2>2 DEF Steady, GraphInStep, NodeOf
  <2> QED BY <2>3, <2>4, <2>5, <2>6 DEF Steady
<1>6. ASSUME NEW id \in todo, BuildNode(id)
      PROVE  Steady'
  <2>1. /\ pc = "build" /\ pc' = "build" /\ todo' = todo \ {id}
        /\ db' = db /\ before' = before /\ seed' = seed /\ rebuilds' = rebuilds
        /\ request' = request /\ reached' = reached /\ incident' = incident
    BY <1>6 DEF BuildNode, asked
  <2>2. Steady
    BY <2>1
  <2>3. before'.db.edges \subseteq db'.edges /\ parse_node_id(seed') \in db'.rows
    BY <2>1, <2>2 DEF Steady
  <2>4. ReachedInStep'
    BY <2>1, <2>2 DEF Steady, ReachedInStep, Within, Promised
  <2>5. IncidentInStep'
    BY <2>1, <2>2 DEF Steady, IncidentInStep
  <2>6. todo \subseteq reached /\ graph = {NodeOf(i) : i \in reached \ todo}
    BY <2>1, <2>2 DEF Steady, GraphInStep
  <2>7. parse_node_id(id) \in db.rows
    BY <2>1, <2>2, <2>6, ReachedHaveRows
  <2>8. graph' = graph \cup {NodeOf(id)}
    BY <1>6, <2>7 DEF BuildNode, NodeOf
  <2>9. graph' = {NodeOf(i) : i \in reached' \ todo'}
    BY <2>1, <2>6, <2>8
  <2>10. \A i : NodeOf(i)' = NodeOf(i)
    BY <2>1 DEF NodeOf
  <2>11. GraphInStep'
    BY <2>1, <2>6, <2>9, <2>10 DEF GraphInStep
  <2> QED BY <2>3, <2>4, <2>5, <2>11 DEF Steady
<1>7. ASSUME NEW batch \in Batches, Fold(batch)
      PROVE  Steady'
  <2>1. /\ db'.rows = db.rows \cup RowsOf(batch) /\ db'.edges = db.edges \cup EdgesOf(batch)
        /\ before' = before /\ seed' = seed /\ rebuilds' = rebuilds /\ pc' = pc
        /\ request' = request /\ reached' = reached /\ graph' = graph
        /\ incident' = incident /\ todo' = todo
    BY <1>7 DEF Fold, asked
  <2>2. Steady
    BY <2>1
  <2>3. before'.db.edges \subseteq db'.edges
    BY <2>1, <2>2 DEF Steady
  <2>4. pc' \notin {"exists", "not_found"} => parse_node_id(seed') \in db'.rows
    BY <2>1, <2>2 DEF Steady
  <2>5. ReachedInStep'
    <3>1. SUFFICES ASSUME pc \in {"incident", "build", "answered"}
                   PROVE  ReachedInStep'
      BY <2>1 DEF ReachedInStep
    <3> DEFINE F == Within(IF pc = "incident" THEN db.edges ELSE incident)
               F2 == {e \in IF pc' = "incident" THEN db'.edges ELSE incident' :
                        e[1] \in reached' /\ e[2] \in reached'}
    <3>2. Surrounds(before.db.edges, db.edges, F, seed, PromisedTo(request), reached)
      BY <2>2, <3>1, ReachedMeans DEF Steady
    <3>3. F \subseteq F2
      BY <2>1 DEF Within
    <3> HIDE DEF F, F2
    <3>4. db.edges \subseteq db'.edges
      BY <2>1
    <3>5. Surrounds(before.db.edges, db'.edges, F2, seed, PromisedTo(request), reached)
      BY <3>2, <3>3, <3>4, SurroundsGrows
    <3> QED
      BY <2>1, <3>5 DEF ReachedInStep, Surrounds, Within, Promised, PromisedTo, F2
  <2>6. IncidentInStep'
    BY <2>1, <2>2 DEF Steady, IncidentInStep
  <2>7. GraphInStep'
    BY <2>1, <2>2 DEF Steady, GraphInStep, NodeOf
  <2> QED BY <2>3, <2>4, <2>5, <2>6, <2>7 DEF Steady
<1>8. CASE Truncate
  <2>1. rebuilds' = rebuilds + 1 /\ before' = before
    BY <1>8 DEF Truncate, asked
  <2>2. rebuilds \in Nat /\ before.rebuilds \in Nat /\ before.rebuilds <= rebuilds
    BY DEF TypeOK
  <2>3. rebuilds + 1 = before.rebuilds
    BY <2>1
  <2> QED BY <2>2, <2>3
<1>9. CASE UNCHANGED vars
  <2>1. /\ db' = db /\ before' = before /\ seed' = seed /\ rebuilds' = rebuilds /\ pc' = pc
        /\ request' = request /\ reached' = reached /\ graph' = graph
        /\ incident' = incident /\ todo' = todo
    BY <1>9 DEF vars, asked
  <2>2. Steady
    BY <2>1
  <2>3. /\ before'.db.edges \subseteq db'.edges
        /\ pc' \notin {"exists", "not_found"} => parse_node_id(seed') \in db'.rows
    BY <2>1, <2>2 DEF Steady
  <2>4. ReachedInStep'
    BY <2>1, <2>2 DEF Steady, ReachedInStep, Within, Promised
  <2>5. IncidentInStep'
    BY <2>1, <2>2 DEF Steady, IncidentInStep
  <2>6. GraphInStep'
    BY <2>1, <2>2 DEF Steady, GraphInStep, NodeOf
  <2> QED BY <2>3, <2>4, <2>5, <2>6 DEF Steady
<1> QED BY <1>1, <1>2, <1>3, <1>4, <1>5, <1>6, <1>7, <1>8, <1>9 DEF Next

LEMMA IInvStep ==
  ASSUME RowsReadBack, DepthsFit, IInv, [Next]_vars
  PROVE  IInv'
<1>1. TypeOK /\ EdgesHaveRows /\ (rebuilds = before.rebuilds => Steady)
  BY IInvParts
<1>2. TypeOK' /\ EdgesHaveRows'
  BY <1>1, TypeStep, EdgesStep
<1>3. ASSUME rebuilds' = before'.rebuilds
      PROVE  Steady'
  BY <1>1, <1>3, SteadyStep
<1> QED BY <1>2, <1>3 DEF IInv, Steady

-------------------------------------------------------------------------------
(* The theorems *)

\* A request that no rebuild has overtaken knows the neighbourhood of its seed,
\* whatever the projection has committed since: for every set of events, requests
\* and limits, when node ids read back as their rows and no depth overflows.
THEOREM InductiveInvariant ==
  ASSUME RowsReadBack, DepthsFit
  PROVE  Spec => []IInv
<1>1. Init => IInv
  <2> SUFFICES ASSUME Init
               PROVE  IInv
    OBVIOUS
  <2>1. /\ db = [rows |-> {}, edges |-> {}] /\ rebuilds = 0 /\ pc = "exists"
        /\ before = [db |-> db, rebuilds |-> 0] /\ request \in Requests /\ graph = {}
    BY DEF Init
  <2>2. TypeOK /\ EdgesHaveRows
    BY <2>1 DEF TypeOK, EdgesHaveRows
  <2>3. Steady
    BY <2>1 DEF Steady, ReachedInStep, IncidentInStep, GraphInStep
  <2> QED BY <2>2, <2>3, IInvParts
<1>2. IInv /\ [Next]_vars => IInv'
  BY IInvStep
<1> QED BY <1>1, <1>2, PTL DEF Spec

\* The answer holds the reached nodes with all their edges.
LEMMA AnswerIsReached ==
  ASSUME IInv, Answered
  PROVE  /\ graph = {NodeOf(i) : i \in reached}
         /\ Ids = reached
         /\ edges(graph) = incident
<1>1. pc = "answered" /\ Steady
  BY IInvParts DEF Answered
<1>2. graph = {NodeOf(i) : i \in reached}
  <2>1. todo = {} /\ graph = {NodeOf(i) : i \in reached \ todo}
    BY <1>1 DEF Steady, GraphInStep
  <2> QED BY <2>1
<1>3. \A i : NodeOf(i).id = i
  BY DEF NodeOf
<1>4. Ids = reached
  BY <1>2, <1>3 DEF Ids
<1>5. \A i : /\ NodeOf(i).in_edges = {e \in incident : e[2] = i}
             /\ NodeOf(i).out_edges = {e \in incident : e[1] = i}
  BY DEF NodeOf
<1>6. \A e \in incident : e[1] \in reached \/ e[2] \in reached
  BY <1>1 DEF Steady, IncidentInStep
<1>7. \A e : e \in edges(graph) <=> \E i \in reached : e \in incident /\ (e[2] = i \/ e[1] = i)
  <2>1. \A e : e \in edges(graph) <=>
               \E i \in reached : e \in NodeOf(i).in_edges \cup NodeOf(i).out_edges
    BY <1>2 DEF edges
  <2> QED BY <1>5, <2>1
<1>8. edges(graph) = incident
  BY <1>6, <1>7
<1> QED BY <1>2, <1>4, <1>8

\* An answer lies between the neighbourhood the request began with and the one it
\* ended with, although every statement sees another state of the tables.
THEOREM AnswersLieBetweenSnapshots ==
  ASSUME RowsReadBack, DepthsFit
  PROVE  Spec => []AnswerBetweenSnapshots
<1>1. IInv => AnswerBetweenSnapshots
  <2> SUFFICES ASSUME IInv, Answered
               PROVE  /\ Near(before.db.edges, seed, Promised, "Both") \subseteq Ids
                      /\ Ids \subseteq Near(db.edges, seed, Promised, "Both")
    BY DEF AnswerBetweenSnapshots
  <2>1. pc = "answered" /\ Steady
    BY IInvParts DEF Answered
  <2>2. Ids = reached
    BY AnswerIsReached
  <2>3. /\ Near(before.db.edges, seed, Promised, "Both") \subseteq reached
        /\ reached \subseteq Near(db.edges, seed, Promised, "Both")
    BY <2>1 DEF Steady, ReachedInStep
  <2> QED BY <2>2, <2>3
<1>2. Spec => []IInv
  BY InductiveInvariant
<1> QED BY <1>1, <1>2, PTL

\* Every node of an answer is joined to the seed by edges of the answer, every edge
\* touches a node, and every node has all its edges.
THEOREM AnswersHangTogether ==
  ASSUME RowsReadBack, DepthsFit
  PROVE  Spec => []AnswerHangsTogether
<1>1. IInv => AnswerHangsTogether
  <2> SUFFICES ASSUME IInv, Answered
               PROVE  AnswerHangsTogether
    BY DEF AnswerHangsTogether
  <2>1. pc = "answered" /\ Steady /\ TypeOK
    BY IInvParts DEF Answered
  <2>2. graph = {NodeOf(i) : i \in reached} /\ Ids = reached /\ edges(graph) = incident
    BY AnswerIsReached
  <2>3. Ids = Near(edges(graph), seed, MAX_DEPTH, "Both") \cap reached
    <3> DEFINE k == PromisedTo(request)
    <3>1. reached \subseteq Near(Within(incident), seed, k, "Both")
      BY <2>1, ReachedMeans DEF Steady, Surrounds
    <3>2. Near(Within(incident), seed, k, "Both") \subseteq Near(incident, seed, k, "Both")
      BY NearGrows DEF Within
    <3>3. k \in 0..MAX_DEPTH /\ MAX_DEPTH \in Nat
      BY <2>1, WalkDepthIsPromised, LineageAssumption DEF TypeOK
    <3> HIDE DEF k
    <3>4. Near(incident, seed, k, "Both") \subseteq Near(incident, seed, MAX_DEPTH, "Both")
      BY <3>3, NearLonger
    <3> QED BY <2>2, <3>1, <3>2, <3>4
  <2>4. /\ \A e \in incident : e[1] \in reached \/ e[2] \in reached
        /\ \A e \in before.db.edges : e[1] \in reached \/ e[2] \in reached => e \in incident
    BY <2>1 DEF Steady, IncidentInStep
  <2>5. ASSUME NEW n \in graph, NEW e \in edges(graph) \cup before.db.edges
        PROVE  (e[1] = n.id => e \in n.out_edges) /\ (e[2] = n.id => e \in n.in_edges)
    <3>1. PICK i \in reached : n = NodeOf(i)
      BY <2>2
    <3>2. /\ n.id = i
          /\ n.in_edges = {f \in incident : f[2] = i}
          /\ n.out_edges = {f \in incident : f[1] = i}
      BY <3>1 DEF NodeOf
    <3>3. e[1] = i \/ e[2] = i => e \in incident
      BY <2>2, <2>4
    <3> QED BY <3>2, <3>3
  <2> QED BY <2>2, <2>3, <2>4, <2>5 DEF AnswerHangsTogether
<1>2. Spec => []IInv
  BY InductiveInvariant
<1> QED BY <1>1, <1>2, PTL

-------------------------------------------------------------------------------
(* Walks of every length *)

\* Once a round reaches nothing new, no later one does.
LEMMA NearStops ==
  ASSUME NEW E, NEW from, NEW direction, NEW i \in Nat,
         Near(E, from, i + 1, direction) \subseteq Near(E, from, i, direction), NEW k \in Nat
  PROVE  Near(E, from, k, direction) \subseteq Near(E, from, i, direction)
<1> DEFINE P(j) == Near(E, from, j, direction) \subseteq Near(E, from, i, direction)
           T == {j \in Nat : P(j)}
<1>1. 0 \in T
  <2>1. P(0)
    BY NearLonger
  <2> HIDE DEF P
  <2> QED BY <2>1
<1>2. ASSUME NEW j \in T
      PROVE  j + 1 \in T
  <2>1. P(j) /\ j \in Nat
    OBVIOUS
  <2>2. ASSUME NEW n \in Near(E, from, j + 1, direction)
        PROVE  n \in Near(E, from, i, direction)
    <3>1. CASE n \in Near(E, from, j, direction)
      BY <2>1, <3>1
    <3>2. CASE \E m \in Near(E, from, j, direction) : Joined(E, m, n, direction)
      BY <2>1, <3>2, NearStep
    <3> QED BY <2>1, <3>1, <3>2, NearBack
  <2>3. P(j + 1)
    BY <2>2
  <2> HIDE DEF P
  <2> QED BY <2>1, <2>3
<1> HIDE DEF P
<1>3. T = Nat
  <2> HIDE DEF T
  <2>1. T \in SUBSET Nat
    BY DEF T
  <2> QED BY <1>1, <1>2, <2>1, Induction
<1>4. P(k)
  BY <1>3
<1> QED BY <1>4 DEF P

\* Among finitely many nodes a walk needs no more edges than there are nodes.
LEMMA NearSaturates ==
  ASSUME NEW E, NEW from, NEW direction, NEW D, IsFiniteSet(D),
         \A j \in Nat : Near(E, from, j, direction) \subseteq D \cup {from}, NEW k \in Nat
  PROVE  Near(E, from, k, direction) \subseteq Near(E, from, Cardinality(D), direction)
<1> DEFINE N(j) == Near(E, from, j, direction)
           Stopped(j) == \E i \in Nat : i < j /\ N(i + 1) \subseteq N(i)
           P(j) == Stopped(j) \/ Cardinality(N(j)) >= j + 1
           T == {j \in Nat : P(j)}
<1>1. /\ IsFiniteSet(D \cup {from}) /\ Cardinality(D) \in Nat
      /\ Cardinality(D \cup {from}) <= Cardinality(D) + 1
  BY FS_AddElement, FS_CardinalityType
<1>2. \A j \in Nat : /\ IsFiniteSet(N(j)) /\ Cardinality(N(j)) \in Nat
                     /\ Cardinality(N(j)) <= Cardinality(D) + 1
  <2>1. ASSUME NEW j \in Nat
        PROVE  /\ IsFiniteSet(N(j)) /\ Cardinality(N(j)) \in Nat
               /\ Cardinality(N(j)) <= Cardinality(D) + 1
    <3>1. N(j) \in SUBSET (D \cup {from})
      OBVIOUS
    <3> HIDE DEF N
    <3>2. IsFiniteSet(N(j)) /\ Cardinality(N(j)) <= Cardinality(D \cup {from})
      BY <1>1, <3>1, FS_Subset
    <3>3. Cardinality(N(j)) \in Nat /\ Cardinality(D \cup {from}) \in Nat
      BY <1>1, <3>2, FS_CardinalityType
    <3> QED BY <1>1, <3>2, <3>3
  <2> QED BY <2>1
<1>3. 0 \in T
  <2>1. Cardinality(N(0)) = 1
    BY NearZero, FS_Singleton
  <2> HIDE DEF N
  <2> QED BY <2>1
<1>4. ASSUME NEW j \in T
      PROVE  j + 1 \in T
  <2>1. j \in Nat /\ P(j)
    OBVIOUS
  <2>2. N(j) \subseteq N(j + 1)
    BY <2>1, NearLonger
  <2> HIDE DEF N
  <2>3. CASE Stopped(j)
    <3>1. Stopped(j + 1)
      BY <2>1, <2>3
    <3> HIDE DEF Stopped
    <3> QED BY <2>1, <3>1
  <2>4. CASE ~ Stopped(j) /\ N(j + 1) \subseteq N(j)
    <3>1. Stopped(j + 1)
      BY <2>1, <2>4
    <3> HIDE DEF Stopped
    <3> QED BY <2>1, <3>1
  <2>5. CASE ~ Stopped(j) /\ ~ (N(j + 1) \subseteq N(j))
    <3>1. Cardinality(N(j)) >= j + 1
      BY <2>1, <2>5
    <3> HIDE DEF Stopped
    <3>2. /\ Cardinality(N(j)) <= Cardinality(N(j + 1))
          /\ Cardinality(N(j + 1)) = Cardinality(N(j)) => N(j + 1) = N(j)
      BY <1>2, <2>1, <2>2, FS_Subset
    <3>3. Cardinality(N(j)) \in Nat /\ Cardinality(N(j + 1)) \in Nat
      BY <1>2, <2>1
    <3>4. Cardinality(N(j + 1)) # Cardinality(N(j))
      BY <2>5, <3>2
    <3>5. Cardinality(N(j + 1)) >= (j + 1) + 1
      BY <2>1, <3>1, <3>2, <3>3, <3>4
    <3> QED BY <2>1, <3>5
  <2> QED BY <2>3, <2>4, <2>5
<1>5. T = Nat
  <2> HIDE DEF T
  <2>1. T \in SUBSET Nat
    BY DEF T
  <2> QED BY <1>3, <1>4, <2>1, Induction
<1>6. P(Cardinality(D) + 1)
  <2> HIDE DEF P
  <2> QED BY <1>1, <1>5
<1>7. PICK i \in Nat : i < Cardinality(D) + 1 /\ N(i + 1) \subseteq N(i)
  <2>1. ~ (Cardinality(N(Cardinality(D) + 1)) >= (Cardinality(D) + 1) + 1)
    <3> HIDE DEF N
    <3> QED BY <1>1, <1>2
  <2> HIDE DEF N
  <2> QED BY <1>6, <2>1
<1>8. N(k) \subseteq N(i)
  BY <1>7, NearStops
<1>9. N(i) \subseteq N(Cardinality(D))
  <2>1. i <= Cardinality(D)
    BY <1>1, <1>7
  <2> QED BY <1>1, <2>1, NearLonger
<1> QED BY <1>8, <1>9

-------------------------------------------------------------------------------
(* The walk of the client *)

\* One direction of a walk is part of both.
LEMMA NearOneWay ==
  ASSUME NEW E, NEW from, NEW k, NEW direction \in {"Up", "Down"}
  PROVE  Near(E, from, k, direction) \subseteq Near(E, from, k, "Both")
<1>1. \A m, n : Joined(E, m, n, direction) => Joined(E, m, n, "Both")
  BY DEF Joined
<1>2. \A n, l, p : IsPath(p, l, E, from, n, direction) => IsPath(p, l, E, from, n, "Both")
  BY <1>1 DEF IsPath
<1> QED BY <1>2, NearIsPath

LEMMA StepJoinsOneWay ==
  ASSUME NEW E, Pairs(E), NEW S, NEW n, NEW direction \in {"Up", "Down"}
  PROVE  n \in Step(E, S, direction) <=> \E m \in S : Joined(E, m, n, direction)
<1>1. CASE direction = "Down"
  <2>1. n \in Step(E, S, direction) <=> \E e \in E : e[1] \in S /\ n = e[2]
    BY <1>1 DEF Step
  <2>2. \A m : Joined(E, m, n, direction) <=> <<m, n>> \in E
    BY <1>1 DEF Joined
  <2>3. \A e \in E : e[1] \in S /\ n = e[2] => <<e[1], n>> \in E
    BY DEF Pairs
  <2>4. \A m : <<m, n>>[1] = m /\ <<m, n>>[2] = n
    OBVIOUS
  <2>5. (\E e \in E : e[1] \in S /\ n = e[2]) <=> \E m \in S : <<m, n>> \in E
    BY <2>3, <2>4
  <2> QED BY <2>1, <2>2, <2>5
<1>2. CASE direction = "Up"
  <2>1. n \in Step(E, S, direction) <=> \E e \in E : e[2] \in S /\ n = e[1]
    BY <1>2 DEF Step
  <2>2. \A m : Joined(E, m, n, direction) <=> <<n, m>> \in E
    BY <1>2 DEF Joined
  <2>3. \A e \in E : e[2] \in S /\ n = e[1] => <<n, e[2]>> \in E
    BY DEF Pairs
  <2>4. \A m : <<n, m>>[1] = n /\ <<n, m>>[2] = m
    OBVIOUS
  <2>5. (\E e \in E : e[2] \in S /\ n = e[1]) <=> \E m \in S : <<n, m>> \in E
    BY <2>3, <2>4
  <2> QED BY <2>1, <2>2, <2>5
<1> QED BY <1>1, <1>2

IsKept(g, E, root, K, direction) ==
  g = [i \in 0..K |-> IF i = 0 THEN {root}
                      ELSE LET S == g[i - 1] IN S \cup Step(E, S, direction)]

\* The recursive function of the client exists.
LEMMA KeptExists ==
  ASSUME NEW E, NEW root, NEW n \in Nat, NEW direction
  PROVE  \E g : IsKept(g, E, root, n, direction)
<1> DEFINE Grown(S) == S \cup Step(E, S, direction)
           Upto(k, g) == g = [i \in 0..k |-> IF i = 0 THEN {root} ELSE Grown(g[i - 1])]
           T == {k \in Nat : \E g : Upto(k, g)}
<1>1. 0 \in T
  <2> HIDE DEF Grown
  <2> DEFINE g == [i \in 0..0 |-> {root}]
  <2>1. g = [i \in 0..0 |-> IF i = 0 THEN {root} ELSE Grown(g[i - 1])]
    OBVIOUS
  <2> QED BY <2>1
<1>2. ASSUME NEW k \in T
      PROVE  k + 1 \in T
  <2> HIDE DEF Grown
  <2>1. PICK g : g = [i \in 0..k |-> IF i = 0 THEN {root} ELSE Grown(g[i - 1])]
    OBVIOUS
  <2> DEFINE h == [i \in 0..(k + 1) |-> IF i <= k THEN g[i] ELSE Grown(g[k])]
  <2>2. ASSUME NEW i \in 0..(k + 1)
        PROVE  h[i] = IF i = 0 THEN {root} ELSE Grown(h[i - 1])
    <3>1. CASE i = 0
      <4>1. i \in 0..k /\ i <= k
        BY <3>1
      <4> QED BY <2>1, <3>1, <4>1
    <3>2. CASE i # 0 /\ i <= k
      <4>1. i \in 0..k /\ i - 1 \in 0..k /\ i - 1 \in 0..(k + 1) /\ i - 1 <= k
        BY <3>2
      <4>2. h[i] = g[i] /\ h[i - 1] = g[i - 1]
        BY <4>1
      <4>3. g[i] = Grown(g[i - 1])
        BY <2>1, <3>2, <4>1
      <4> QED BY <3>2, <4>2, <4>3
    <3>3. CASE i # 0 /\ i > k
      <4>1. i = k + 1 /\ k \in 0..(k + 1) /\ i - 1 = k /\ ~ (i <= k)
        BY <3>3
      <4>2. h[k] = g[k] /\ h[i - 1] = h[k] /\ i # 0
        BY <3>3, <4>1
      <4>3. h[i] = Grown(g[k])
        BY <3>3, <4>1
      <4> QED BY ONLY <4>2, <4>3
    <3> QED BY <3>1, <3>2, <3>3
  <2> HIDE DEF h
  <2>3. h = [i \in 0..(k + 1) |-> IF i = 0 THEN {root} ELSE Grown(h[i - 1])]
    BY <2>2 DEF h
  <2>4. Upto(k + 1, h)
    BY <2>3
  <2> HIDE DEF Upto
  <2> QED BY <2>4
<1>3. T = Nat
  <2> HIDE DEF T
  <2>1. T \in SUBSET Nat
    BY DEF T
  <2> QED BY <1>1, <1>2, <2>1, Induction
<1>4. PICK g : Upto(n, g)
  BY <1>3
<1> QED BY <1>4 DEF IsKept

\* What the client keeps after i rounds is near the root.
LEMMA KeptIsNear ==
  ASSUME NEW E, Pairs(E), NEW root, NEW K \in Nat, NEW direction \in {"Up", "Down"},
         NEW g, IsKept(g, E, root, K, direction)
  PROVE  \A i \in 0..K : g[i] = Near(E, root, i, direction)
<1> DEFINE P(i) == g[i] = Near(E, root, i, direction)
           T == {i \in Nat : i <= K => P(i)}
<1>0. /\ g[0] = {root}
      /\ \A i \in 0..K : i # 0 => g[i] = g[i - 1] \cup Step(E, g[i - 1], direction)
  <2>1. g[0] = {root}
    BY DEF IsKept
  <2>2. ASSUME NEW i \in 0..K, i # 0
        PROVE  g[i] = g[i - 1] \cup Step(E, g[i - 1], direction)
    BY <2>2, Zenon DEF IsKept
  <2> QED BY <2>1, <2>2
<1>1. 0 \in T
  <2>1. P(0)
    BY <1>0, NearZero
  <2> HIDE DEF P
  <2> QED BY <2>1
<1>2. ASSUME NEW i \in T
      PROVE  i + 1 \in T
  <2>1. SUFFICES ASSUME i + 1 <= K
                 PROVE  P(i + 1)
    <3> HIDE DEF P
    <3> QED BY <2>1
  <2>2. P(i) /\ i \in Nat
    <3>1. i \in Nat /\ i <= K
      BY <2>1
    <3> HIDE DEF P
    <3> QED BY <3>1
  <2>3. g[i + 1] = g[i] \cup Step(E, g[i], direction)
    <3>1. i + 1 \in 0..K /\ i + 1 # 0 /\ (i + 1) - 1 = i
      BY <2>1, <2>2
    <3> QED BY <1>0, <3>1
  <2>4. \A n : n \in g[i + 1] <=>
                 n \in g[i] \/ \E m \in g[i] : Joined(E, m, n, direction)
    BY <2>3, StepJoinsOneWay
  <2>5. ASSUME NEW n \in g[i + 1]
        PROVE  n \in Near(E, root, i + 1, direction)
    <3>1. CASE n \in g[i]
      BY <2>2, <3>1, NearLonger
    <3>2. CASE \E m \in g[i] : Joined(E, m, n, direction)
      BY <2>2, <3>2, NearStep
    <3> QED BY <2>4, <3>1, <3>2
  <2>6. ASSUME NEW n \in Near(E, root, i + 1, direction)
        PROVE  n \in g[i + 1]
    BY <2>2, <2>4, NearBack
  <2> QED BY <2>5, <2>6
<1> HIDE DEF P
<1>3. T = Nat
  <2> HIDE DEF T
  <2>1. T \in SUBSET Nat
    BY DEF T
  <2> QED BY <1>1, <1>2, <2>1, Induction
<1>4. \A i \in 0..K : P(i)
  BY <1>3
<1> QED BY <1>4 DEF P

\* A directed walk ends at the seed or at that end of an edge.
LEMMA NearDirectedEnds ==
  ASSUME NEW E, NEW from, NEW k \in Nat, NEW direction \in {"Up", "Down"}
  PROVE  Near(E, from, k, direction) \subseteq
           {e[IF direction = "Down" THEN 2 ELSE 1] : e \in E} \cup {from}
<1> SUFFICES ASSUME NEW n \in Near(E, from, k, direction), n # from
             PROVE  \E e \in E : n = e[IF direction = "Down" THEN 2 ELSE 1]
  OBVIOUS
<1>0. PICK l \in 1..(k + 1) : \E p : IsPath(p, l, E, from, n, direction)
  BY NearIsPath
<1>1. PICK p : IsPath(p, l, E, from, n, direction)
  BY <1>0
<1>2. l # 1
  BY <1>1 DEF IsPath
<1>3. l - 1 \in 1..(l - 1) /\ (l - 1) + 1 = l
  BY <1>2
<1>4. Joined(E, p[l - 1], p[(l - 1) + 1], direction)
  BY <1>1, <1>3 DEF IsPath
<1>5. p[(l - 1) + 1] = n
  BY <1>1, <1>3 DEF IsPath
<1> DEFINE m == p[l - 1]
<1>6. Joined(E, m, n, direction)
  BY <1>4, <1>5
<1> HIDE DEF m
<1>7. <<m, n>>[2] = n /\ <<n, m>>[1] = n
  OBVIOUS
<1> QED BY <1>6, <1>7 DEF Joined

\* The client keeps the nodes a directed walk of any length leads to.
LEMMA ReachableIsNear ==
  ASSUME NEW g, Pairs(edges(g)), IsFiniteSet(edges(g)), NEW root,
         NEW direction \in {"Up", "Down"}
  PROVE  /\ \E k \in Nat : reachable(g, root, direction) = Near(edges(g), root, k, direction)
         /\ \A k \in Nat : Near(edges(g), root, k, direction) \subseteq reachable(g, root, direction)
<1> DEFINE E == edges(g)
           K == Cardinality(E)
           kept == CHOOSE f : f = [i \in 0..K |->
                      IF i = 0 THEN {root}
                      ELSE LET S == f[i - 1] IN S \cup Step(E, S, direction)]
<1>1. reachable(g, root, direction) = kept[K]
  BY DEF reachable
<1>2. K \in Nat
  BY FS_CardinalityType
<1>3. IsKept(kept, E, root, K, direction)
  <2>1. kept = CHOOSE f : IsKept(f, E, root, K, direction)
    BY Zenon DEF IsKept
  <2>2. \E f : IsKept(f, E, root, K, direction)
    BY <1>2, KeptExists
  <2> HIDE DEF kept, K, E
  <2> QED BY <2>1, <2>2, Zenon
<1> HIDE DEF kept
<1>4. kept[K] = Near(E, root, K, direction)
  <2>1. K \in 0..K
    BY <1>2
  <2> HIDE DEF K
  <2>2. \A i \in 0..K : kept[i] = Near(E, root, i, direction)
    BY <1>2, <1>3, KeptIsNear
  <2> QED BY <2>1, <2>2
<1> DEFINE end == IF direction = "Down" THEN 2 ELSE 1
           D == {e[end] : e \in E}
<1>5. IsFiniteSet(D) /\ Cardinality(D) \in Nat /\ Cardinality(D) <= K
  <2> DEFINE f == [e \in E |-> e[end]]
  <2>1. f \in Surjection(E, D)
    BY DEF Surjection
  <2> HIDE DEF f, D
  <2>2. IsFiniteSet(D) /\ Cardinality(D) <= Cardinality(E)
    BY <2>1, FS_Surjection
  <2> QED BY <2>2, FS_CardinalityType
<1>6. \A j \in Nat : Near(E, root, j, direction) \subseteq D \cup {root}
  BY NearDirectedEnds
<1> HIDE DEF D, K
<1>7. ASSUME NEW k \in Nat
      PROVE  Near(E, root, k, direction) \subseteq Near(E, root, K, direction)
  <2>1. Near(E, root, k, direction) \subseteq Near(E, root, Cardinality(D), direction)
    BY <1>5, <1>6, NearSaturates
  <2>2. Near(E, root, Cardinality(D), direction) \subseteq Near(E, root, K, direction)
    BY <1>2, <1>5, NearLonger
  <2> QED BY <2>1, <2>2
<1> QED BY <1>1, <1>2, <1>4, <1>7

\* What the client keeps follows from the invariant.
LEMMA TraceStays ==
  ASSUME IInv, IsFiniteSet(Nodes), DepthsFit
  PROVE  TraceIsDirected
<1> SUFFICES ASSUME Answered, NEW direction \in {"Up", "Down"}
             PROVE  /\ Near(before.db.edges, seed, Promised, direction)
                         \subseteq reachable(graph, seed, direction)
                    /\ reachable(graph, seed, direction)
                         \subseteq Near(db.edges, seed, Cardinality(Nodes), direction)
  BY Zenon DEF TraceIsDirected
<1>1. pc = "answered" /\ Steady /\ TypeOK /\ EdgesHaveRows
  BY IInvParts DEF Answered
<1>2. edges(graph) = incident
  BY AnswerIsReached
<1>3. /\ incident \subseteq db.edges
      /\ \A e \in before.db.edges : e[1] \in reached \/ e[2] \in reached => e \in incident
  BY <1>1 DEF Steady, IncidentInStep
<1>4. db.edges \subseteq Nodes \X Nodes
  BY <1>1 DEF EdgesHaveRows
<1>5. Pairs(incident)
  BY <1>3, <1>4 DEF Pairs
<1>6. IsFiniteSet(incident)
  <2>1. IsFiniteSet(Nodes \X Nodes) /\ incident \in SUBSET (Nodes \X Nodes)
    BY <1>3, <1>4, FS_Product
  <2> QED BY <2>1, FS_Subset
<1> DEFINE kept == reachable(graph, seed, direction)
           k == PromisedTo(request)
           be == before.db.edges
<1>7. /\ \E j \in Nat : kept = Near(incident, seed, j, direction)
      /\ \A j \in Nat : Near(incident, seed, j, direction) \subseteq kept
  BY <1>2, <1>5, <1>6, ReachableIsNear
<1>8. k \in Nat /\ Promised = k
  BY <1>1, WalkDepthIsPromised, LineageAssumption DEF TypeOK, Promised, PromisedTo
<1>9. Near(be, seed, k, "Both") \subseteq reached
  BY <1>1, ReachedMeans DEF Steady, Surrounds
<1> HIDE DEF kept, k, be
<1>10. Near(be, seed, k, direction) \subseteq kept
  <2>1. Near(be, seed, k, direction) \subseteq reached
    BY <1>9, NearOneWay
  <2>2. ASSUME NEW m \in Near(be, seed, k, direction), NEW n \in Near(be, seed, k, direction),
               Joined(be, m, n, direction)
        PROVE  Joined(incident, m, n, direction)
    <3>1. m \in reached /\ n \in reached
      BY <2>1
    <3>2. /\ <<m, n>>[1] = m /\ <<m, n>>[2] = n
          /\ <<n, m>>[1] = n /\ <<n, m>>[2] = m
      OBVIOUS
    <3>3. /\ <<m, n>> \in be => <<m, n>> \in incident
          /\ <<n, m>> \in be => <<n, m>> \in incident
      BY <1>3, <3>1, <3>2 DEF be
    <3> QED BY <2>2, <3>3 DEF Joined
  <2>3. Near(be, seed, k, direction) \subseteq Near(incident, seed, k, direction)
    BY <1>8, <2>2, NearThrough
  <2> QED BY <1>7, <1>8, <2>3
<1>11. kept \subseteq Near(db.edges, seed, Cardinality(Nodes), direction)
  <2>1. PICK j \in Nat : kept = Near(incident, seed, j, direction)
    BY <1>7
  <2>2. Near(incident, seed, j, direction) \subseteq Near(db.edges, seed, j, direction)
    BY <1>3, NearGrows
  <2>3. \A i \in Nat : Near(db.edges, seed, i, direction) \subseteq Nodes \cup {seed}
    <3>1. Ends(db.edges, seed) \subseteq Nodes \cup {seed}
      BY <1>4 DEF Ends
    <3> QED BY <3>1, NearEnds
  <2>4. Near(db.edges, seed, j, direction)
          \subseteq Near(db.edges, seed, Cardinality(Nodes), direction)
    BY <2>3, NearSaturates
  <2> QED BY <2>1, <2>2, <2>4
<1> QED BY <1>8, <1>10, <1>11 DEF kept, be

\* "hw trace" keeps what is upstream (downstream) of the seed: all of it within the
\* depth, and nothing else.
THEOREM TracesAreDirected ==
  ASSUME RowsReadBack, DepthsFit, IsFiniteSet(Nodes)
  PROVE  Spec => []TraceIsDirected
<1>1. IInv => TraceIsDirected
  BY TraceStays
<1>2. Spec => []IInv
  BY InductiveInvariant
<1> QED BY <1>1, <1>2, PTL

\* The edge that a walk in this direction follows from n to m.
LEMMA JoinedByEdge ==
  ASSUME NEW E, NEW m, NEW n, NEW direction \in {"Up", "Down"}, NEW e,
         e = IF direction = "Down" THEN <<n, m>> ELSE <<m, n>>
  PROVE  /\ Joined(E, n, m, direction) <=> e \in E
         /\ direction = "Down" => e[1] = n /\ e[2] = m
         /\ direction = "Up" => e[1] = m /\ e[2] = n
<1>1. CASE direction = "Down"
  BY <1>1 DEF Joined
<1>2. CASE direction = "Up"
  BY <1>2 DEF Joined
<1> QED BY <1>1, <1>2

\* A trace over tables that do not change ends at the datasets nothing feeds (which
\* feed nothing), and in the middle of the pipeline only where the depth cuts it.
THEOREM TracesEndAtSources ==
  ASSUME RowsReadBack, DepthsFit, IsFiniteSet(Nodes)
  PROVE  Spec => []TraceEndsAtSources
<1>1. IInv => TraceEndsAtSources
  <2> SUFFICES
        ASSUME IInv, Answered, before.db = db, NEW direction \in {"Up", "Down"}
        PROVE  /\ RealEnds(db.edges, direction) \cap Near(db.edges, seed, Promised, direction)
                     \subseteq endpoints(graph, seed, direction)
               /\ (endpoints(graph, seed, direction) \ RealEnds(db.edges, direction))
                     \cap Near(db.edges, seed, Promised - 1, "Both") = {}
    BY Zenon DEF TraceEndsAtSources
  <2> DEFINE E == db.edges
             kept == reachable(graph, seed, direction)
             k == PromisedTo(request)
  <2>1. pc = "answered" /\ Steady /\ TypeOK /\ EdgesHaveRows
    BY IInvParts DEF Answered
  <2>2. edges(graph) = incident
    BY AnswerIsReached
  <2>3. /\ incident \subseteq E
        /\ \A e \in E : e[1] \in reached \/ e[2] \in reached => e \in incident
    BY <2>1 DEF Steady, IncidentInStep
  <2>4. E \subseteq Nodes \X Nodes
    BY <2>1 DEF EdgesHaveRows
  <2>5. Pairs(incident)
    BY <2>3, <2>4 DEF Pairs
  <2>6. IsFiniteSet(incident)
    <3>1. IsFiniteSet(Nodes \X Nodes) /\ incident \in SUBSET (Nodes \X Nodes)
      BY <2>3, <2>4, FS_Product
    <3> QED BY <3>1, FS_Subset
  <2>7. /\ \E j \in Nat : kept = Near(incident, seed, j, direction)
        /\ \A j \in Nat : Near(incident, seed, j, direction) \subseteq kept
    BY <2>2, <2>5, <2>6, ReachableIsNear
  <2>8. k \in Nat /\ Promised = k
    BY <2>1, WalkDepthIsPromised, LineageAssumption DEF TypeOK, Promised, PromisedTo
  <2>9. Near(E, seed, k, "Both") \subseteq reached
    BY <2>1, ReachedMeans DEF Steady, Surrounds
  <2>10. Near(E, seed, k, direction) \subseteq kept
    <3>1. TraceIsDirected
      BY TraceStays
    <3> QED BY <2>8, <3>1 DEF TraceIsDirected
  <2>11. \A n : n \in endpoints(graph, seed, direction) <=>
                  /\ n \in kept /\ n # seed /\ n[1] = "dataset"
                  /\ ~ \E e \in incident :
                       \/ direction = "Up" /\ e[2] = n /\ e[1] \in kept
                       \/ direction = "Down" /\ e[1] = n /\ e[2] \in kept
    BY <2>2 DEF endpoints, is_endpoint
  <2> HIDE DEF kept, k, E
  <2>12. ASSUME NEW n \in RealEnds(E, direction), n \in Near(E, seed, k, direction)
         PROVE  n \in endpoints(graph, seed, direction)
    <3>1. /\ n \in Nodes /\ n # seed /\ n[1] = "dataset"
          /\ \A m \in Nodes : ~ Joined(E, n, m, direction)
      BY DEF RealEnds
    <3>2. ASSUME NEW e \in incident,
                 \/ direction = "Up" /\ e[2] = n
                 \/ direction = "Down" /\ e[1] = n
          PROVE  FALSE
      <4>1. e \in E /\ e[1] \in Nodes /\ e[2] \in Nodes /\ e = <<e[1], e[2]>>
        BY <2>3, <2>4
      <4>2. CASE direction = "Up"
        <5>1. e = <<e[1], n>>
          BY <3>2, <4>1, <4>2
        <5>2. Joined(E, n, e[1], direction)
          BY <4>1, <4>2, <5>1, JoinedByEdge
        <5> QED BY <3>1, <4>1, <5>2
      <4>3. CASE direction = "Down"
        <5>1. e = <<n, e[2]>>
          BY <3>2, <4>1, <4>3
        <5>2. Joined(E, n, e[2], direction)
          BY <4>1, <4>3, <5>1, JoinedByEdge
        <5> QED BY <3>1, <4>1, <5>2
      <4> QED BY <4>2, <4>3
    <3>3. n \in kept
      BY <2>10, <2>12
    <3> QED BY <2>11, <3>1, <3>2, <3>3
  <2>13. ASSUME NEW n \in endpoints(graph, seed, direction), n \notin RealEnds(E, direction),
                n \in Near(E, seed, k - 1, "Both")
         PROVE  FALSE
    <3>1. n \in kept /\ n # seed /\ n[1] = "dataset"
      BY <2>11
    <3>2. n \in Nodes
      <4>1. PICK j \in Nat : kept = Near(incident, seed, j, direction)
        BY <2>7
      <4>2. n \in Ends(incident, seed)
        BY <3>1, <4>1, NearEnds
      <4> QED BY <2>3, <2>4, <3>1, <4>2 DEF Ends
    <3>3. PICK m \in Nodes : Joined(E, n, m, direction)
      BY <2>13, <3>1, <3>2 DEF RealEnds
    <3>4. n \in reached
      <4>1. 1..((k - 1) + 1) \subseteq 1..(k + 1)
        BY <2>8
      <4>2. n \in Near(E, seed, k, "Both")
        BY <2>13, <4>1, NearIsPath
      <4> QED BY <2>9, <4>2
    <3>5. PICK e : e = IF direction = "Down" THEN <<n, m>> ELSE <<m, n>>
      OBVIOUS
    <3>6. /\ e \in E
          /\ direction = "Down" => e[1] = n /\ e[2] = m
          /\ direction = "Up" => e[1] = m /\ e[2] = n
      BY <3>3, <3>5, JoinedByEdge
    <3>7. e \in incident
      BY <2>3, <3>4, <3>6
    <3>8. Joined(incident, n, m, direction)
      BY <3>5, <3>7, JoinedByEdge
    <3>9. m \in kept
      <4>1. PICK j \in Nat : kept = Near(incident, seed, j, direction)
        BY <2>7
      <4>2. m \in Near(incident, seed, j + 1, direction)
        BY <3>1, <3>8, <4>1, NearStep
      <4> QED BY <2>7, <4>1, <4>2
    <3> QED BY <2>11, <3>6, <3>7, <3>9
  <2> QED BY <2>8, <2>12, <2>13 DEF E
<1>2. Spec => []IInv
  BY InductiveInvariant
<1> QED BY <1>1, <1>2, PTL

-------------------------------------------------------------------------------
(* Node ids: texts put together and taken apart again *)

\* The place k of the first separator.
LEMMA FirstOf ==
  ASSUME NEW s, Len(s) \in Nat, NEW sep, NEW k \in 1..Len(s), s[k] = sep,
         \A i \in 1..Len(s) : i < k => s[i] # sep
  PROVE  SelectInSeq(s, LAMBDA w : w = sep) = k
<1> DEFINE I == {i \in 1..Len(s) : s[i] = sep}
<1>1. k \in I /\ \A x \in I : k <= x
  OBVIOUS
<1>2. \A y \in I : (\A x \in I : y <= x) => y = k
  BY <1>1
<1>3. SelectInSeq(s, LAMBDA w : w = sep) = IF I # {} THEN Min(I) ELSE 0
  BY DEF SelectInSeq
<1> HIDE DEF I
<1>4. Min(I) = k
  BY <1>1, <1>2 DEF Min
<1> QED BY <1>1, <1>3, <1>4

FirstPlace(I) == IF I # {} THEN Min(I) ELSE 0

\* The first place of a set, or zero.
LEMMA FirstPlaceIsFirst ==
  ASSUME NEW I, I \in SUBSET (Nat \ {0})
  PROVE  /\ FirstPlace(I) \in Nat
         /\ \A i \in I : 1 <= FirstPlace(I) /\ FirstPlace(I) <= i
<1>1. CASE I = {}
  BY <1>1 DEF FirstPlace
<1>2. CASE I # {}
  <2>0. I \in SUBSET Nat
    OBVIOUS
  <2>1. PICK x \in I : \A y \in I : x <= y
    BY <1>2, <2>0, LeastNumber
  <2>2. \A y \in I : (\A z \in I : y <= z) => y = x
    BY <2>1
  <2>3. Min(I) = x
    BY <2>1, <2>2 DEF Min
  <2>4. FirstPlace(I) = x
    BY <1>2, <2>3 DEF FirstPlace
  <2> QED BY <2>1, <2>4
<1> QED BY <1>1, <1>2

\* s is a, the separator and b, and is taken apart into them.
TakesApart(s, a, sep, b, W) ==
  /\ s \in Seq(W) /\ Len(s) = Len(a) + 1 + Len(b)
  /\ \A i \in 1..Len(a) : s[i] = a[i]
  /\ s[Len(a) + 1] = sep
  /\ \A i \in 1..Len(b) : s[Len(a) + 1 + i] = b[i]
  /\ Before(s, Len(a) + 1) = a
  /\ After(s, Len(a) + 1) = b

LEMMA BeforeAfter ==
  ASSUME NEW W, NEW a \in Seq(W), NEW b \in Seq(W), NEW sep \in W,
         NEW s, s = a \o <<sep>> \o b
  PROVE  TakesApart(s, a, sep, b, W)
<1>1. <<sep>> \in Seq(W) /\ Len(<<sep>>) = 1 /\ <<sep>>[1] = sep
  OBVIOUS
<1>2. Len(a) \in Nat /\ Len(b) \in Nat
  OBVIOUS
<1> DEFINE c == a \o <<sep>>
<1>3. /\ c \in Seq(W) /\ Len(c) = Len(a) + 1
      /\ \A i \in 1..Len(a) : c[i] = a[i]
      /\ c[Len(a) + 1] = sep
  <2>1. /\ c \in Seq(W) /\ Len(c) = Len(a) + Len(<<sep>>)
        /\ \A i \in 1..(Len(a) + Len(<<sep>>)) :
             c[i] = IF i <= Len(a) THEN a[i] ELSE <<sep>>[i - Len(a)]
    BY <1>1, ConcatProperties
  <2> HIDE DEF c
  <2>2. Len(c) = Len(a) + 1
    BY <1>1, <2>1
  <2>3. ASSUME NEW i \in 1..Len(a)
        PROVE  c[i] = a[i]
    BY <1>1, <1>2, <2>1
  <2>4. c[Len(a) + 1] = <<sep>>[(Len(a) + 1) - Len(a)]
    BY <1>1, <1>2, <2>1
  <2>5. (Len(a) + 1) - Len(a) = 1
    BY <1>2
  <2> QED BY <1>1, <2>1, <2>2, <2>3, <2>4, <2>5
<1>4. s = c \o b
  OBVIOUS
<1> HIDE DEF c
<1>5. /\ s \in Seq(W) /\ Len(s) = Len(c) + Len(b)
      /\ \A i \in 1..(Len(c) + Len(b)) : s[i] = IF i <= Len(c) THEN c[i] ELSE b[i - Len(c)]
  <2>1. c \in Seq(W)
    BY <1>3
  <2>2. /\ c \o b \in Seq(W) /\ Len(c \o b) = Len(c) + Len(b)
        /\ \A i \in 1..(Len(c) + Len(b)) :
             (c \o b)[i] = IF i <= Len(c) THEN c[i] ELSE b[i - Len(c)]
    BY <2>1, ConcatProperties
  <2> QED BY ONLY <1>4, <2>2
<1>6. Len(s) = Len(a) + 1 + Len(b)
  BY <1>3, <1>5
<1>7. ASSUME NEW i \in 1..Len(a)
      PROVE  s[i] = a[i]
  BY <1>2, <1>3, <1>5
<1>8. s[Len(a) + 1] = sep
  BY <1>2, <1>3, <1>5
<1>9. ASSUME NEW i \in 1..Len(b)
      PROVE  s[Len(a) + 1 + i] = b[i]
  <2>1. Len(a) + 1 + i \in 1..(Len(c) + Len(b)) /\ ~ (Len(a) + 1 + i <= Len(c))
        /\ (Len(a) + 1 + i) - Len(c) = i
    BY <1>2, <1>3
  <2> QED BY <1>5, <2>1
<1>10. Before(s, Len(a) + 1) = a
  <2> DEFINE p == SubSeq(s, 1, (Len(a) + 1) - 1)
  <2>1. /\ p \in Seq(W) /\ Len(p) = Len(a)
        /\ \A i \in 1..Len(a) : p[i] = s[1 + i - 1]
    BY <1>2, <1>5, <1>6, SubSeqProperties
  <2> HIDE DEF p
  <2>2. \A i \in 1..Len(a) : p[i] = a[i]
    BY <1>2, <1>7, <2>1
  <2>3. p = a
    BY <2>1, <2>2, SeqEqual
  <2> QED BY <2>3 DEF Before, p
<1>11. After(s, Len(a) + 1) = b
  <2> DEFINE p == SubSeq(s, (Len(a) + 1) + 1, Len(s))
  <2>1. /\ p \in Seq(W) /\ Len(p) = Len(b)
        /\ \A i \in 1..Len(b) : p[i] = s[(Len(a) + 1) + 1 + i - 1]
    BY <1>2, <1>5, <1>6, SubSeqProperties
  <2> HIDE DEF p
  <2>2. ASSUME NEW i \in 1..Len(b)
        PROVE  p[i] = b[i]
    <3>1. (Len(a) + 1) + 1 + i - 1 = Len(a) + 1 + i
      BY <1>2
    <3> QED BY <1>9, <2>1, <3>1
  <2>3. p = b
    BY <2>1, <2>2, SeqEqual
  <2> QED BY <2>3 DEF After, p
<1> QED BY <1>5, <1>6, <1>7, <1>8, <1>9, <1>10, <1>11 DEF TakesApart

\* A text in two parts is read back when the first has no colon after the scheme
\* and the authority.
LEMMA SplitName ==
  ASSUME NEW W, NEW ns \in Seq(W), NEW name \in Seq(W), ":" \in W,
         NEW text, text = ns \o <<":">> \o name,
         NEW from \in 0..Len(ns), scheme_authority_end(text) = from,
         \A i \in 1..Len(ns) : i > from => ns[i] # ":"
  PROVE  split_namespace_name(text) = <<ns, name>>
<1>1. /\ text \in Seq(W) /\ Len(text) = Len(ns) + 1 + Len(name)
      /\ \A i \in 1..Len(ns) : text[i] = ns[i]
      /\ text[Len(ns) + 1] = ":"
      /\ Before(text, Len(ns) + 1) = ns
      /\ After(text, Len(ns) + 1) = name
  <2>1. TakesApart(text, ns, ":", name, W)
    BY BeforeAfter
  <2> QED BY <2>1 DEF TakesApart
<1>2. Len(ns) \in Nat /\ Len(name) \in Nat
  OBVIOUS
<1> DEFINE rest == After(text, from)
<1>3. /\ rest \in Seq(W) /\ Len(rest) = Len(text) - from
      /\ \A i \in 1..Len(rest) : rest[i] = text[from + i]
  <2> DEFINE p == SubSeq(text, from + 1, Len(text))
  <2>1. \A i \in (from + 1)..Len(text) : text[i] \in W
    BY <1>1, <1>2, ElementOfSeq
  <2>2. from + 1 \in Int /\ Len(text) \in Int /\ from + 1 <= Len(text)
    BY <1>1, <1>2
  <2>3. /\ p \in Seq(W) /\ Len(p) = IF from + 1 <= Len(text) THEN Len(text) - (from + 1) + 1 ELSE 0
        /\ \A i \in 1..(Len(text) - (from + 1) + 1) : p[i] = text[(from + 1) + i - 1]
    BY <2>1, <2>2, SubSeqProperties
  <2>4. rest = p
    BY DEF After
  <2> HIDE DEF p, rest
  <2>5. Len(p) = Len(text) - from
    BY <2>2, <2>3
  <2>6. ASSUME NEW i \in 1..Len(p)
        PROVE  p[i] = text[from + i]
    <3>1. i \in 1..(Len(text) - (from + 1) + 1) /\ (from + 1) + i - 1 = from + i
      BY <2>2, <2>5
    <3> QED BY <2>3, <3>1
  <2> QED BY <2>3, <2>4, <2>5, <2>6
<1> DEFINE k == Len(ns) + 1 - from
           offset == SelectInSeq(rest, LAMBDA w : w = ":")
<1>4. offset = k
  <2>1. split_namespace_name(text) = split_namespace_name(text)
    OBVIOUS
  <2> HIDE DEF rest
  <2>2. Len(rest) \in Nat /\ k \in 1..Len(rest)
    BY <1>1, <1>2, <1>3
  <2>3. from + k = Len(ns) + 1
    BY <1>2
  <2>4. rest[k] = ":"
    <3> HIDE DEF k
    <3> QED BY <1>1, <1>3, <2>2, <2>3
  <2>5. ASSUME NEW i \in 1..Len(rest), i < k
        PROVE  rest[i] # ":"
    <3>1. from + i \in 1..Len(ns) /\ from + i > from
      BY <1>2, <2>5
    <3>2. rest[i] = ns[from + i]
      BY <1>1, <1>3, <3>1
    <3> QED BY <3>1, <3>2
  <2> HIDE DEF k
  <2> QED BY <2>2, <2>4, <2>5, FirstOf
<1>5. split_namespace_name(text) = IF offset = 0 THEN Null ELSE SplitAt(text, from + offset)
  BY DEF split_namespace_name
<1>6. offset # 0 /\ from + offset = Len(ns) + 1
  <2> HIDE DEF offset
  <2> QED BY <1>2, <1>4
<1>7. split_namespace_name(text) = SplitAt(text, Len(ns) + 1)
  <2> HIDE DEF offset
  <2> QED BY <1>5, <1>6
<1> QED BY <1>1, <1>2, <1>7 DEF SplitAt

LEMMA ThreeWords ==
  ASSUME NEW W, NEW s \in Seq(W), Len(s) > 3
  PROVE  SubSeq(s, 2, 4) = <<s[2], s[3], s[4]>>
<1>1. Len(s) \in Nat /\ \A i \in 2..4 : s[i] \in W
  BY ElementOfSeq
<1> DEFINE p == SubSeq(s, 2, 4)
           q == <<s[2], s[3], s[4]>>
<1>2. p \in Seq(W) /\ Len(p) = 3 /\ \A i \in 1..3 : p[i] = s[2 + i - 1]
  BY <1>1, SubSeqProperties
<1>3. q \in Seq(W) /\ Len(q) = 3 /\ q[1] = s[2] /\ q[2] = s[3] /\ q[3] = s[4]
  BY <1>1
<1> HIDE DEF p, q
<1>4. p[1] = s[2] /\ p[2] = s[3] /\ p[3] = s[4]
  BY <1>2
<1>5. \A i \in 1..3 : p[i] = q[i]
  BY <1>3, <1>4
<1>6. p = q
  BY <1>2, <1>3, <1>5, SeqEqual
<1> QED BY <1>6 DEF p, q

\* Where the scheme and authority of a readable name end.
LEMMA AuthorityEnd ==
  ASSUME NEW W, NEW ns \in Seq(W), NEW name \in Seq(W), ":" \in W, ":" \notin Schemes,
         NEW text, text = ns \o <<":">> \o name, Readable(ns, name)
  PROVE  \E from \in 0..Len(ns) :
           /\ scheme_authority_end(text) = from
           /\ \A i \in 1..Len(ns) : i > from => ns[i] # ":"
<1>1. /\ text \in Seq(W) /\ Len(text) = Len(ns) + 1 + Len(name)
      /\ \A i \in 1..Len(ns) : text[i] = ns[i]
      /\ text[Len(ns) + 1] = ":"
      /\ \A i \in 1..Len(name) : text[Len(ns) + 1 + i] = name[i]
  <2>1. TakesApart(text, ns, ":", name, W)
    BY BeforeAfter
  <2> QED BY <2>1 DEF TakesApart
<1>2. Len(ns) \in Nat /\ Len(name) \in Nat
  OBVIOUS
<1> DEFINE has_scheme == /\ Len(text) > 3 /\ text[1] \in Schemes
                         /\ SubSeq(text, 2, 4) = <<":", "/", "/">>
           rest == After(text, 4)
           ending == FirstPlace({i \in 1..Len(rest) : rest[i] \in {"/", ":"}})
<1>3. scheme_authority_end(text) =
        IF ~ has_scheme THEN 0 ELSE 4 + (IF ending = 0 THEN Len(rest) ELSE ending - 1)
  BY DEF scheme_authority_end, SelectInSeq, FirstPlace
<1> HIDE DEF rest, ending
<1>4. Len(text) > 3 => SubSeq(text, 2, 4) = <<text[2], text[3], text[4]>>
  BY <1>1, ThreeWords
<1>5. CASE /\ \A i \in 1..Len(ns) : ns[i] # ":"
           /\ ~ (Len(ns) = 1 /\ ns[1] \in Schemes /\ Len(name) > 1
                  /\ name[1] = "/" /\ name[2] = "/")
  <2>1. ~ has_scheme
    <3>1. SUFFICES ASSUME Len(text) > 3, text[1] \in Schemes,
                          text[2] = ":", text[3] = "/", text[4] = "/"
                   PROVE  FALSE
      BY <1>4
    <3>2. CASE Len(ns) = 0
      BY <1>1, <3>1, <3>2
    <3>3. CASE Len(ns) = 1
      <4>1. Len(name) > 1 /\ 1 \in 1..Len(name) /\ 2 \in 1..Len(name) /\ 1 \in 1..Len(ns)
        BY <1>1, <1>2, <3>1, <3>3
      <4>2. name[1] = text[Len(ns) + 1 + 1] /\ name[2] = text[Len(ns) + 1 + 2] /\ ns[1] = text[1]
        BY <1>1, <4>1
      <4>3. Len(ns) + 1 + 1 = 3 /\ Len(ns) + 1 + 2 = 4
        BY <3>3
      <4>4. name[1] = "/" /\ name[2] = "/"
        BY <3>1, <4>2, <4>3
      <4> QED BY <1>5, <3>1, <3>3, <4>1, <4>2, <4>4
    <3>4. CASE Len(ns) > 1
      <4>1. 2 \in 1..Len(ns)
        BY <1>2, <3>4
      <4> QED BY <1>1, <1>5, <3>1, <4>1
    <3> QED BY <1>2, <3>2, <3>3, <3>4
  <2>2. scheme_authority_end(text) = 0
    BY <1>3, <2>1
  <2>3. 0 \in 0..Len(ns)
    BY <1>2
  <2> QED BY <1>5, <2>2, <2>3
<1>6. CASE /\ Len(ns) > 3 /\ ns[1] \in Schemes /\ SubSeq(ns, 2, 4) = <<":", "/", "/">>
           /\ \A i \in 5..Len(ns) : ns[i] # ":"
  <2>1. has_scheme
    <3>1. SubSeq(ns, 2, 4) = <<ns[2], ns[3], ns[4]>>
      BY <1>6, ThreeWords
    <3>2. text[1] = ns[1] /\ text[2] = ns[2] /\ text[3] = ns[3] /\ text[4] = ns[4]
      BY <1>1, <1>2, <1>6
    <3>3. Len(text) > 3
      BY <1>1, <1>2, <1>6
    <3>4. SubSeq(text, 2, 4) = <<":", "/", "/">>
      BY ONLY <1>4, <1>6, <3>1, <3>2, <3>3
    <3> QED BY <1>6, <3>2, <3>3, <3>4
  <2> HIDE DEF has_scheme
  <2>2. /\ rest \in Seq(W) /\ Len(rest) = Len(text) - 4
        /\ \A i \in 1..Len(rest) : rest[i] = text[4 + i]
    <3> DEFINE p == SubSeq(text, 4 + 1, Len(text))
    <3>1. \A i \in (4 + 1)..Len(text) : text[i] \in W
      BY <1>1, <1>2, ElementOfSeq
    <3>2. Len(text) \in Int /\ 4 + 1 <= Len(text)
      BY <1>1, <1>2, <1>6
    <3>3. /\ p \in Seq(W) /\ Len(p) = IF 4 + 1 <= Len(text) THEN Len(text) - (4 + 1) + 1 ELSE 0
          /\ \A i \in 1..(Len(text) - (4 + 1) + 1) : p[i] = text[(4 + 1) + i - 1]
      BY <3>1, <3>2, SubSeqProperties
    <3>4. rest = p
      BY DEF After, rest
    <3> HIDE DEF p
    <3>5. Len(p) = Len(text) - 4
      BY <3>2, <3>3
    <3>6. ASSUME NEW i \in 1..Len(p)
          PROVE  p[i] = text[4 + i]
      <4>1. i \in 1..(Len(text) - (4 + 1) + 1) /\ (4 + 1) + i - 1 = 4 + i
        BY <3>2, <3>5
      <4> QED BY <3>3, <4>1
    <3> QED BY <3>3, <3>4, <3>5, <3>6
  <2> DEFINE I == {i \in 1..Len(rest) : rest[i] \in {"/", ":"}}
             colon == Len(ns) + 1 - 4
  <2>3. colon \in I
    <3>1. colon \in 1..Len(rest) /\ 4 + colon = Len(ns) + 1
      BY <1>1, <1>2, <1>6, <2>2
    <3> HIDE DEF colon
    <3>2. rest[colon] = ":"
      BY <1>1, <2>2, <3>1
    <3> QED BY <3>1, <3>2
  <2>4. I \in SUBSET (Nat \ {0})
    OBVIOUS
  <2>5. ending = FirstPlace(I)
    BY DEF ending
  <2> HIDE DEF I
  <2>6. 1 <= FirstPlace(I) /\ FirstPlace(I) <= colon
    BY <2>3, <2>4, FirstPlaceIsFirst
  <2>7. FirstPlace(I) \in Nat
    BY <2>4, FirstPlaceIsFirst
  <2> DEFINE from == 4 + (ending - 1)
  <2>8. ending \in Nat /\ ending # 0
    BY <2>5, <2>6, <2>7
  <2>9. scheme_authority_end(text) = from
    BY <1>3, <2>1, <2>8
  <2>10. from \in 0..Len(ns) /\ from >= 4
    BY <1>2, <2>5, <2>6, <2>7
  <2> HIDE DEF from
  <2>11. \A i \in 1..Len(ns) : i > from => ns[i] # ":"
    BY <1>2, <1>6, <2>10
  <2> QED BY <2>9, <2>10, <2>11
<1> QED BY <1>5, <1>6 DEF Readable

\* The place k of the last separator.
LEMMA LastOf ==
  ASSUME NEW s, Len(s) \in Nat, NEW sep, NEW k \in 1..Len(s), s[k] = sep,
         \A i \in 1..Len(s) : i > k => s[i] # sep
  PROVE  SelectLastInSeq(s, LAMBDA w : w = sep) = k
<1> DEFINE I == {i \in 1..Len(s) : s[i] = sep}
<1>1. k \in I /\ \A x \in I : k >= x
  OBVIOUS
<1>2. \A y \in I : (\A x \in I : y >= x) => y = k
  BY <1>1
<1>3. SelectLastInSeq(s, LAMBDA w : w = sep) = IF I # {} THEN Max(I) ELSE 0
  BY DEF SelectLastInSeq
<1> HIDE DEF I
<1>4. Max(I) = k
  BY <1>1, <1>2 DEF Max
<1> QED BY <1>1, <1>3, <1>4

\* A text is split at its first separator.
LEMMA SplitOnce ==
  ASSUME NEW W, NEW a \in Seq(W), NEW b \in Seq(W), NEW sep \in W,
         \A i \in 1..Len(a) : a[i] # sep, NEW s, s = a \o <<sep>> \o b
  PROVE  split_once(s, sep) = <<a, b>>
<1>1. TakesApart(s, a, sep, b, W)
  BY BeforeAfter
<1> DEFINE k == Len(a) + 1
<1>2. /\ s \in Seq(W) /\ Len(s) \in Nat /\ k \in 1..Len(s) /\ k # 0 /\ s[k] = sep
      /\ Before(s, k) = a /\ After(s, k) = b
  BY <1>1 DEF TakesApart
<1>3. ASSUME NEW i \in 1..Len(s), i < k
      PROVE  s[i] # sep
  <2>1. i \in 1..Len(a)
    BY <1>3
  <2>2. s[i] = a[i]
    BY <1>1, <2>1 DEF TakesApart
  <2> QED BY <2>1, <2>2
<1> HIDE DEF k
<1>4. SelectInSeq(s, LAMBDA w : w = sep) = k
  BY <1>2, <1>3, FirstOf
<1>5. split_once(s, sep) = SplitAt(s, k)
  BY <1>4, Zenon DEF split_once
<1>6. SplitAt(s, k) = <<Before(s, k), After(s, k)>>
  BY <1>2 DEF SplitAt
<1> QED BY ONLY <1>2, <1>5, <1>6

LEMMA Regroup ==
  ASSUME NEW W, NEW p, NEW m, NEW f, p \in Seq(W), m \in Seq(W), f \in Seq(W)
  PROVE  (p \o m) \o f = p \o (m \o f)
BY ConcatAssociative

\* id is a word, a colon and a text.
HasPrefix(id, kind, text) ==
  /\ id[1] = kind /\ id[2] = ":" /\ Len(id) > 1 /\ After(id, 2) = text
  /\ split_once(id, ":") = <<<<kind>>, text>>

LEMMA PrefixedText ==
  ASSUME NEW W, NEW kind \in W, ":" \in W, NEW text \in Seq(W), kind # ":",
         NEW id, id = <<kind, ":">> \o text
  PROVE  HasPrefix(id, kind, text)
<1> DEFINE c == <<kind>>
           d == <<":">>
           p == c \o d
           q == <<kind, ":">>
<1>1. /\ c \in Seq(W) /\ Len(c) = 1 /\ c[1] = kind
      /\ d \in Seq(W) /\ Len(d) = 1 /\ d[1] = ":"
      /\ q \in Seq(W) /\ Len(q) = 2 /\ q[1] = kind /\ q[2] = ":"
  OBVIOUS
<1>2. id = q \o text
  OBVIOUS
<1> HIDE DEF c, q
<1>3. p = q
  <2> HIDE DEF d
  <2>1. /\ p \in Seq(W) /\ Len(p) = Len(c) + Len(d)
        /\ \A i \in 1..(Len(c) + Len(d)) : p[i] = IF i <= Len(c) THEN c[i] ELSE d[i - Len(c)]
    BY <1>1, ConcatProperties
  <2> HIDE DEF p
  <2>2. Len(p) = 2 /\ p[1] = kind /\ p[2] = ":"
    BY <1>1, <2>1
  <2>3. \A i \in 1..2 : p[i] = q[i]
    BY <1>1, <2>2
  <2> QED BY <1>1, <2>1, <2>2, <2>3, SeqEqual
<1>4. id = c \o <<":">> \o text
  BY ONLY <1>2, <1>3 DEF p, d
<1>5. \A i \in 1..Len(c) : c[i] # ":"
  BY <1>1
<1>6. TakesApart(id, c, ":", text, W) /\ split_once(id, ":") = <<c, text>>
  <2>1. TakesApart(id, c, ":", text, W)
    BY <1>1, <1>4, BeforeAfter
  <2>2. split_once(id, ":") = <<c, text>>
    BY <1>1, <1>4, <1>5, SplitOnce
  <2> QED BY <2>1, <2>2
<1>7. id[1] = kind /\ id[2] = ":" /\ Len(id) > 1 /\ After(id, 2) = text
  <2>1. Len(c) + 1 = 2 /\ 1 \in 1..Len(c)
    BY <1>1
  <2>2. id[1] = kind /\ id[2] = ":" /\ After(id, 2) = text
    BY <1>1, <1>6, <2>1 DEF TakesApart
  <2>3. Len(id) = 2 + Len(text) /\ Len(text) \in Nat
    BY <1>1, <1>6, <2>1 DEF TakesApart
  <2> QED BY <2>2, <2>3
<1> QED BY <1>6, <1>7 DEF HasPrefix, c

LEMMA Prefixed ==
  ASSUME NEW W, NEW kind \in W, ":" \in W, NEW a \in Seq(W), NEW b \in Seq(W), kind # ":",
         NEW id, id = <<kind, ":">> \o a \o <<":">> \o b,
         NEW text, text = a \o <<":">> \o b
  PROVE  HasPrefix(id, kind, text)
<1>1. text \in Seq(W)
  <2>1. TakesApart(text, a, ":", b, W)
    BY BeforeAfter
  <2> QED BY <2>1 DEF TakesApart
<1>2. <<":">> \in Seq(W) /\ <<kind, ":">> \in Seq(W)
  OBVIOUS
<1>3. a \o <<":">> \in Seq(W)
  BY <1>2, ConcatProperties
<1>4. (<<kind, ":">> \o a) \o <<":">> = <<kind, ":">> \o (a \o <<":">>)
  BY <1>2, ConcatAssociative
<1>5. (<<kind, ":">> \o (a \o <<":">>)) \o b = <<kind, ":">> \o ((a \o <<":">>) \o b)
  BY <1>2, <1>3, ConcatAssociative
<1>6. id = <<kind, ":">> \o text
  BY ONLY <1>4, <1>5, id = <<kind, ":">> \o a \o <<":">> \o b, text = a \o <<":">> \o b
<1> QED BY <1>1, <1>6, PrefixedText

\* parse_node_id takes the first word and splits the rest.
LEMMA ParseSplits ==
  ASSUME NEW id, NEW kind, NEW text, split_once(id, ":") = <<<<kind>>, text>>,
         \A a, b : <<a, b>> # Null
  PROVE  parse_node_id(id) =
           IF kind \notin {"job", "dataset"} \/ split_namespace_name(text) = Null THEN Null
           ELSE <<kind, split_namespace_name(text)[1], split_namespace_name(text)[2]>>
<1> DEFINE parts == split_once(id, ":")
           names == split_namespace_name(parts[2])
<1>1. parse_node_id(id) =
        IF parts = Null \/ parts[1] \notin {<<"job">>, <<"dataset">>} \/ names = Null
        THEN Null ELSE <<parts[1][1], names[1], names[2]>>
  BY DEF parse_node_id
<1>2. parts # Null /\ parts[1] = <<kind>> /\ parts[2] = text /\ names = split_namespace_name(text)
  OBVIOUS
<1> HIDE DEF parts, names
<1>3. parts[1][1] = kind
  BY <1>2
<1>4. <<kind>> \in {<<"job">>, <<"dataset">>} <=> kind \in {"job", "dataset"}
  <2>1. <<kind>>[1] = kind /\ <<"job">>[1] = "job" /\ <<"dataset">>[1] = "dataset"
    OBVIOUS
  <2> QED BY <2>1
<1> QED BY <1>1, <1>2, <1>3, <1>4

\* A readable text in two parts is split between them.
LEMMA SplitReadable ==
  ASSUME NEW W, NEW ns \in Seq(W), NEW name \in Seq(W), ":" \in W, ":" \notin Schemes,
         NEW text, text = ns \o <<":">> \o name, Readable(ns, name)
  PROVE  split_namespace_name(text) = <<ns, name>>
<1>1. PICK from \in 0..Len(ns) :
        /\ scheme_authority_end(text) = from
        /\ \A i \in 1..Len(ns) : i > from => ns[i] # ":"
  BY AuthorityEnd
<1> QED BY <1>1, SplitName

\* The node id of a readable name reads back as its kind, namespace and name.
LEMMA ParseReadable ==
  ASSUME NEW W, NEW ns \in Seq(W), NEW name \in Seq(W), NEW kind \in {"job", "dataset"},
         kind \in W, ":" \in W, ":" \notin Schemes, Readable(ns, name),
         \A a, b : <<a, b>> # Null,
         NEW id, id = <<kind, ":">> \o ns \o <<":">> \o name
  PROVE  parse_node_id(id) = <<kind, ns, name>>
<1> DEFINE text == ns \o <<":">> \o name
<1>1. kind # ":"
  OBVIOUS
<1>2. HasPrefix(id, kind, text)
  BY <1>1, Prefixed
<1>3. split_once(id, ":") = <<<<kind>>, text>>
  BY <1>2 DEF HasPrefix
<1>4. split_namespace_name(text) = <<ns, name>>
  BY SplitReadable
<1> HIDE DEF text
<1>5. parse_node_id(id) =
        IF kind \notin {"job", "dataset"} \/ split_namespace_name(text) = Null THEN Null
        ELSE <<kind, split_namespace_name(text)[1], split_namespace_name(text)[2]>>
  BY <1>3, ParseSplits
<1> DEFINE names == split_namespace_name(text)
<1>6. names = <<ns, name>> /\ names # Null /\ names[1] = ns /\ names[2] = name
  BY <1>4
<1>7. parse_node_id(id) = IF kind \notin {"job", "dataset"} \/ names = Null THEN Null
                          ELSE <<kind, names[1], names[2]>>
  BY <1>5
<1> HIDE DEF names
<1>8. parse_node_id(id) = <<kind, names[1], names[2]>>
  BY <1>6, <1>7
<1> QED BY ONLY <1>6, <1>8

\* The rows of the tables read back when their names do.
THEOREM ReadableRowsReadBack ==
  ASSUME NEW W, {"job", "dataset", ":"} \subseteq W,
         Rows \subseteq {"job", "dataset"} \X Seq(W) \X Seq(W),
         ":" \notin Schemes, \A a, b : <<a, b>> # Null,
         \A row \in Rows : Readable(row[2], row[3])
  PROVE  RowsReadBack
<1> SUFFICES ASSUME NEW row \in Rows
             PROVE  parse_node_id(node_id(row)) = row
  BY DEF RowsReadBack
<1>1. /\ row = <<row[1], row[2], row[3]>> /\ row[1] \in {"job", "dataset"}
      /\ row[2] \in Seq(W) /\ row[3] \in Seq(W) /\ Readable(row[2], row[3])
  OBVIOUS
<1>2. node_id(row) = <<row[1], ":">> \o row[2] \o <<":">> \o row[3]
  BY <1>1 DEF node_id, job_node_id, dataset_node_id
<1>3. row[1] \in W /\ ":" \in W
  BY <1>1
<1>4. parse_node_id(node_id(row)) = <<row[1], row[2], row[3]>>
  BY ONLY <1>1, <1>2, <1>3, ParseReadable, ":" \notin Schemes, \A a, b : <<a, b>> # Null
<1> QED BY <1>1, <1>4

\* A name with a field is as readable.
LEMMA ReadableField ==
  ASSUME NEW W, NEW ns, NEW name \in Seq(W), NEW field \in Seq(W), ":" \in W,
         Readable(ns, name), NEW tail, tail = name \o <<":">> \o field
  PROVE  Readable(ns, tail)
<1>1. /\ Len(tail) = Len(name) + 1 + Len(field)
      /\ \A i \in 1..Len(name) : tail[i] = name[i]
      /\ tail[Len(name) + 1] = ":"
  <2>1. TakesApart(tail, name, ":", field, W)
    BY BeforeAfter
  <2> QED BY <2>1 DEF TakesApart
<1>2. Len(name) \in Nat
  OBVIOUS
<1>3. ASSUME tail[1] = "/", tail[2] = "/"
      PROVE  Len(name) > 1 /\ name[1] = "/" /\ name[2] = "/"
  <2>1. Len(name) # 0 /\ Len(name) # 1
    BY <1>1, <1>3
  <2>2. Len(name) > 1 /\ 1 \in 1..Len(name) /\ 2 \in 1..Len(name)
    BY <1>2, <2>1
  <2> QED BY <1>1, <1>3, <2>2
<1> QED BY <1>3 DEF Readable

\* The node id of a column reads back as its dataset and field.
LEMMA ParseReadableField ==
  ASSUME NEW W, NEW ns \in Seq(W), NEW name \in Seq(W), NEW field \in Seq(W),
         {":", "datasetField"} \subseteq W, ":" \notin Schemes, Readable(ns, name),
         \A i \in 1..Len(field) : field[i] # ":", \A a, b : <<a, b>> # Null,
         NEW id, id = dataset_field_node_id(ns, name, field)
  PROVE  parse_column_lineage_node_id(id) = <<ns, name, field>>
<1> DEFINE tail == name \o <<":">> \o field
           text == ns \o <<":">> \o tail
<1>0. ":" \in W /\ "datasetField" \in W /\ "datasetField" # ":"
  OBVIOUS
<1>1. TakesApart(tail, name, ":", field, W) /\ tail \in Seq(W)
  <2>1. TakesApart(tail, name, ":", field, W)
    BY <1>0, BeforeAfter
  <2> QED BY <2>1 DEF TakesApart
<1>2. id = <<"datasetField", ":">> \o ns \o <<":">> \o tail
  <2> DEFINE p == <<"datasetField", ":">> \o ns \o <<":">>
  <2>1. <<"datasetField", ":">> \in Seq(W) /\ <<":">> \in Seq(W)
    OBVIOUS
  <2>2. <<"datasetField", ":">> \o ns \in Seq(W)
    BY <2>1, ConcatProperties
  <2>3. p \in Seq(W)
    BY <2>1, <2>2, ConcatProperties
  <2>4. name \o <<":">> \in Seq(W)
    BY <2>1, ConcatProperties
  <2>5. id = ((p \o name) \o <<":">>) \o field
    BY DEF dataset_field_node_id
  <2> HIDE DEF p
  <2>6. (p \o name) \o <<":">> = p \o (name \o <<":">>)
    BY <2>1, <2>3, ConcatAssociative
  <2>7. (p \o (name \o <<":">>)) \o field = p \o ((name \o <<":">>) \o field)
    BY <2>3, <2>4, Regroup
  <2>8. id = p \o tail
    BY ONLY <2>5, <2>6, <2>7 DEF tail
  <2> QED BY ONLY <2>8 DEF p
<1>3. Readable(ns, tail)
  BY <1>0, ReadableField
<1> HIDE DEF tail
<1>4. /\ id[1] = "datasetField" /\ After(id, 2) = text
      /\ split_once(id, ":") = <<<<"datasetField">>, text>>
  <2>1. HasPrefix(id, "datasetField", text)
    BY <1>0, <1>1, <1>2, Prefixed
  <2> QED BY <2>1 DEF HasPrefix
<1>5. split_namespace_name(text) = <<ns, tail>>
  BY <1>0, <1>1, <1>3, SplitReadable
<1> HIDE DEF text
<1>6. parse_node_id(id) = Null
  <2>1. "datasetField" \notin {"job", "dataset"}
    OBVIOUS
  <2> QED BY <1>4, <2>1, ParseSplits
<1>7. rsplit_once(tail, ":") = <<name, field>>
  <2>1. /\ Len(tail) = Len(name) + 1 + Len(field) /\ tail[Len(name) + 1] = ":"
        /\ \A i \in 1..Len(field) : tail[Len(name) + 1 + i] = field[i]
        /\ Before(tail, Len(name) + 1) = name /\ After(tail, Len(name) + 1) = field
    BY <1>1 DEF TakesApart
  <2>2. Len(name) \in Nat /\ Len(field) \in Nat
    OBVIOUS
  <2> DEFINE k == Len(name) + 1
  <2>3. Len(tail) \in Nat /\ k \in 1..Len(tail) /\ k # 0
    BY <2>1, <2>2
  <2>4. ASSUME NEW i \in 1..Len(tail), i > k
        PROVE  tail[i] # ":"
    <3>1. i - k \in 1..Len(field) /\ Len(name) + 1 + (i - k) = i
      BY <2>1, <2>2, <2>4
    <3>2. tail[i] = field[i - k]
      BY ONLY <2>1, <3>1
    <3> QED BY <3>1, <3>2
  <2>5. SelectLastInSeq(tail, LAMBDA w : w = ":") = k
    <3>1. tail[k] = ":"
      BY <2>1
    <3> HIDE DEF k
    <3> QED BY <2>3, <2>4, <3>1, LastOf
  <2>6. rsplit_once(tail, ":") = SplitAt(tail, k)
    BY <2>5, Zenon DEF rsplit_once
  <2> QED BY <2>1, <2>3, <2>6 DEF SplitAt
<1> DEFINE node == parse_node_id(id)
           names == split_namespace_name(After(id, 2))
           last == rsplit_once(names[2], ":")
<1>8. parse_column_lineage_node_id(id) =
        CASE node # Null /\ node[1] = "dataset" -> <<node[2], node[3], Null>>
          [] id[1] = "datasetField" /\ names # Null /\ last # Null -> <<names[1], last[1], last[2]>>
          [] OTHER -> Null
  BY DEF parse_column_lineage_node_id
<1>9. node = Null /\ names = <<ns, tail>> /\ last = <<name, field>>
  BY <1>4, <1>5, <1>6, <1>7
<1> HIDE DEF node, names, last
<1>10. /\ names # Null /\ last # Null
       /\ names[1] = ns /\ last[1] = name /\ last[2] = field
  BY <1>9
<1>11. parse_column_lineage_node_id(id) = <<names[1], last[1], last[2]>>
  BY <1>4, <1>8, <1>9, <1>10
<1> QED BY <1>10, <1>11

\* The names of entities are texts over W, those of fields without colons.
Texts(W) ==
  /\ {"job", "dataset", "datasetField", ":", "/"} \subseteq W
  /\ Namespaces \subseteq Seq(W) /\ Names \subseteq Seq(W) /\ Fields \subseteq Seq(W)
  /\ \A f \in Fields : \A i \in 1..Len(f) : f[i] # ":"
  /\ \A a, b : <<a, b>> # Null

NamesReadable ==
  /\ ":" \notin Schemes
  /\ \A ns \in Namespaces, name \in Names : Readable(ns, name)

\* The node id of every readable entity, and of its columns, reads back as what it
\* was built from, and is that of no other entity.
THEOREM ReadableNodeIdsReadBack ==
  ASSUME NEW W, Texts(W), NamesReadable
  PROVE  Spec => []NodeIdsReadBack
<1>0. /\ "job" \in W /\ "dataset" \in W /\ "datasetField" \in W /\ ":" \in W
      /\ {":", "datasetField"} \subseteq W /\ ":" \notin Schemes /\ \A a, b : <<a, b>> # Null
  BY DEF Texts, NamesReadable
<1>1. ASSUME NEW e \in Entities
      PROVE  /\ e.ns \in Seq(W) /\ e.name \in Seq(W) /\ Readable(e.ns, e.name)
             /\ e = [ns |-> e.ns, name |-> e.name]
  BY DEF Entities, Texts, NamesReadable
<1>2. ASSUME NEW e \in Entities
      PROVE  /\ parse_node_id(job_node_id(e.ns, e.name)) = <<"job", e.ns, e.name>>
             /\ parse_node_id(dataset_node_id(e.ns, e.name)) = <<"dataset", e.ns, e.name>>
  <2>1. /\ job_node_id(e.ns, e.name) = <<"job", ":">> \o e.ns \o <<":">> \o e.name
        /\ dataset_node_id(e.ns, e.name) = <<"dataset", ":">> \o e.ns \o <<":">> \o e.name
    BY DEF job_node_id, dataset_node_id
  <2>2. parse_node_id(job_node_id(e.ns, e.name)) = <<"job", e.ns, e.name>>
    BY <1>0, <1>1, <2>1, ParseReadable
  <2>3. parse_node_id(dataset_node_id(e.ns, e.name)) = <<"dataset", e.ns, e.name>>
    BY <1>0, <1>1, <2>1, ParseReadable
  <2> QED BY <2>2, <2>3
<1>3. ASSUME NEW e \in Entities, NEW f \in Fields
      PROVE  parse_column_lineage_node_id(dataset_field_node_id(e.ns, e.name, f)) = <<e.ns, e.name, f>>
  <2>1. f \in Seq(W) /\ \A i \in 1..Len(f) : f[i] # ":"
    BY DEF Texts, NamesReadable
  <2> QED BY <1>0, <1>1, <2>1, ParseReadableField
<1>4. \A e \in Entities : ReadsBack(e)
  BY <1>2, <1>3 DEF ReadsBack
<1>5. ASSUME NEW e \in Entities, NEW d \in Entities, d # e
      PROVE  EntityIds(e) \cap EntityIds(d) = {}
  <2>1. SUFFICES ASSUME NEW id \in EntityIds(e), id \in EntityIds(d)
                 PROVE  FALSE
    OBVIOUS
  <2>2. \E kind \in {"job", "dataset"} : parse_node_id(id) = <<kind, e.ns, e.name>>
    BY <1>2 DEF EntityIds
  <2>3. \E kind \in {"job", "dataset"} : parse_node_id(id) = <<kind, d.ns, d.name>>
    BY <1>2, <2>1 DEF EntityIds
  <2>4. e.ns = d.ns /\ e.name = d.name
    <3>1. PICK k1 : parse_node_id(id) = <<k1, e.ns, e.name>>
      BY <2>2
    <3>2. PICK k2 : parse_node_id(id) = <<k2, d.ns, d.name>>
      BY <2>3
    <3>3. <<k1, e.ns, e.name>> = <<k2, d.ns, d.name>>
      BY <3>1, <3>2
    <3> QED BY <3>3
  <2> QED BY <1>1, <1>5, <2>4
<1>6. NodeIdsReadBack
  BY <1>4, <1>5 DEF NodeIdsReadBack
<1> QED BY <1>6, PTL

\* The place of the last separator is no earlier than any.
LEMMA SplitLast ==
  ASSUME NEW s, Len(s) \in Nat, NEW sep, NEW j \in 1..Len(s), s[j] = sep
  PROVE  \E k \in 1..Len(s) : j <= k /\ rsplit_once(s, sep) = <<Before(s, k), After(s, k)>>
<1> DEFINE T == {d \in Nat : d < Len(s) /\ s[Len(s) - d] = sep}
<1>1. Len(s) - j \in T
  <2>1. Len(s) - j \in Nat /\ Len(s) - j < Len(s) /\ Len(s) - (Len(s) - j) = j
    OBVIOUS
  <2> QED BY <2>1
<1>2. PICK d \in T : \A x \in T : d <= x
  <2> HIDE DEF T
  <2>1. T # {} /\ T \in SUBSET Nat
    BY <1>1 DEF T
  <2> QED BY <2>1, LeastNumber
<1> DEFINE k == Len(s) - d
<1>3. d \in Nat /\ k \in 1..Len(s) /\ s[k] = sep /\ k # 0 /\ j <= k
  BY <1>1, <1>2
<1>4. ASSUME NEW i \in 1..Len(s), i > k
      PROVE  s[i] # sep
  <2>1. Len(s) - i \in Nat /\ Len(s) - i < Len(s) /\ Len(s) - (Len(s) - i) = i
    OBVIOUS
  <2>2. ~ (d <= Len(s) - i)
    BY <1>3, <1>4
  <2>3. Len(s) - i \notin T
    BY <1>2, <2>2
  <2> QED BY <2>1, <2>3
<1> HIDE DEF k, T
<1>5. SelectLastInSeq(s, LAMBDA w : w = sep) = k
  BY <1>3, <1>4, LastOf
<1>6. rsplit_once(s, sep) = SplitAt(s, k)
  BY <1>5, Zenon DEF rsplit_once
<1>7. SplitAt(s, k) = <<Before(s, k), After(s, k)>>
  BY <1>3 DEF SplitAt
<1>8. rsplit_once(s, sep) = <<Before(s, k), After(s, k)>>
  BY ONLY <1>6, <1>7
<1> QED BY <1>3, <1>8

\* A node id, which has a colon after its first word, is passed on.
LEMMA ResolveId ==
  ASSUME NEW id, Contains(After(id, 2), ":"), Len(id) > 1, id[2] = ":",
         id[1] \in {"job", "dataset", "datasetField"}
  PROVE  resolve_shorthand(id) = id
BY Zenon DEF resolve_shorthand

LEMMA ResolveShort ==
  ASSUME NEW t, Len(t) > 1, t[2] = ":", NEW kind \in {"job", "dataset"}, t[1] = kind, NEW rest, After(t, 2) = rest,
         ~ Contains(rest, ":"), NEW a, NEW b, split_once(rest, "/") = <<a, b>>,
         \A x, y : <<x, y>> # Null, NEW id, id = <<kind, ":">> \o a \o <<":">> \o b
  PROVE  resolve_shorthand(t) = id
<1> DEFINE slash == split_once(rest, "/")
           second == split_once(slash[2], "/")
           colon == Contains(rest, ":")
<1>1. resolve_shorthand(t) =
        CASE kind \in {"job", "dataset"} /\ ~ colon /\ slash # Null ->
               <<kind, ":">> \o slash[1] \o <<":">> \o slash[2]
          [] kind = "datasetField" /\ ~ colon ->
               IF slash = Null \/ second = Null THEN Null
               ELSE dataset_field_node_id(slash[1], second[1], second[2])
          [] OTHER -> IF kind \in {"job", "dataset", "datasetField"} THEN t ELSE Null
  BY DEF resolve_shorthand
<1>2. slash # Null /\ slash[1] = a /\ slash[2] = b /\ ~ colon /\ kind # "datasetField"
  OBVIOUS
<1> HIDE DEF slash, second, colon
<1>3. resolve_shorthand(t) = <<kind, ":">> \o slash[1] \o <<":">> \o slash[2]
  BY <1>1, <1>2
<1>4. resolve_shorthand(t) = <<kind, ":">> \o a \o <<":">> \o b
  BY ONLY <1>2, <1>3
<1> QED BY <1>4

LEMMA ResolveShortField ==
  ASSUME NEW t, Len(t) > 1, t[2] = ":", t[1] = "datasetField", NEW rest, After(t, 2) = rest,
         ~ Contains(rest, ":"), NEW a, NEW b, split_once(rest, "/") = <<a, b>>,
         NEW c, NEW d, split_once(b, "/") = <<c, d>>, \A x, y : <<x, y>> # Null
  PROVE  resolve_shorthand(t) = dataset_field_node_id(a, c, d)
<1> DEFINE kind == t[1]
           slash == split_once(rest, "/")
           second == split_once(slash[2], "/")
           colon == Contains(rest, ":")
<1>1. resolve_shorthand(t) =
        CASE kind \in {"job", "dataset"} /\ ~ colon /\ slash # Null ->
               <<kind, ":">> \o slash[1] \o <<":">> \o slash[2]
          [] kind = "datasetField" /\ ~ colon ->
               IF slash = Null \/ second = Null THEN Null
               ELSE dataset_field_node_id(slash[1], second[1], second[2])
          [] OTHER -> IF kind \in {"job", "dataset", "datasetField"} THEN t ELSE Null
  BY DEF resolve_shorthand
<1>2. /\ slash # Null /\ slash[1] = a /\ slash[2] = b /\ ~ colon
      /\ kind = "datasetField" /\ kind \notin {"job", "dataset"}
  OBVIOUS
<1>3. second # Null /\ second[1] = c /\ second[2] = d
  BY <1>2
<1> HIDE DEF kind, slash, second, colon
<1>4. resolve_shorthand(t) = dataset_field_node_id(slash[1], second[1], second[2])
  BY <1>1, <1>2, <1>3
<1> QED BY ONLY <1>2, <1>3, <1>4

\* Every node id of an entity or a field has a colon after its first word.
LEMMA NodeIdsHaveColon ==
  ASSUME NEW W, NEW kind \in W, ":" \in W, kind \in {"job", "dataset", "datasetField"},
         NEW a \in Seq(W), NEW b \in Seq(W), NEW id, id = <<kind, ":">> \o a \o <<":">> \o b
  PROVE  resolve_shorthand(id) = id
<1> DEFINE text == a \o <<":">> \o b
<1>0. kind # ":"
  OBVIOUS
<1>1. HasPrefix(id, kind, text)
  BY <1>0, Prefixed
<1>2. TakesApart(text, a, ":", b, W)
  BY BeforeAfter
<1> HIDE DEF text
<1>3. Contains(text, ":")
  <2>1. Len(a) + 1 \in 1..Len(text)
    BY <1>2 DEF TakesApart
  <2> QED BY <1>2, <2>1 DEF Contains, TakesApart
<1>4. Contains(After(id, 2), ":")
  BY <1>1, <1>3 DEF HasPrefix
<1>5. Len(id) > 1 /\ id[2] = ":" /\ id[1] \in {"job", "dataset", "datasetField"}
  BY <1>1 DEF HasPrefix
<1> QED BY <1>4, <1>5, ResolveId

LEMMA FieldIdKept ==
  ASSUME NEW W, ":" \in W, "datasetField" \in W,
         NEW ns \in Seq(W), NEW name \in Seq(W), NEW field \in Seq(W),
         NEW id, id = dataset_field_node_id(ns, name, field)
  PROVE  resolve_shorthand(id) = id
<1> DEFINE tail == name \o <<":">> \o field
           p == <<"datasetField", ":">> \o ns \o <<":">>
<1>1. <<"datasetField", ":">> \in Seq(W) /\ <<":">> \in Seq(W)
  OBVIOUS
<1>2. <<"datasetField", ":">> \o ns \in Seq(W)
  BY <1>1, ConcatProperties
<1>3. p \in Seq(W)
  BY <1>1, <1>2, ConcatProperties
<1>4. name \o <<":">> \in Seq(W)
  BY <1>1, ConcatProperties
<1>5. dataset_field_node_id(ns, name, field) = ((p \o name) \o <<":">>) \o field
  BY DEF dataset_field_node_id
<1> HIDE DEF p
<1>6. (p \o name) \o <<":">> = p \o (name \o <<":">>)
  BY <1>1, <1>3, ConcatAssociative
<1>7. (p \o (name \o <<":">>)) \o field = p \o ((name \o <<":">>) \o field)
  <2> DEFINE m == name \o <<":">>
             f == field
  <2>1. p \in Seq(W) /\ m \in Seq(W) /\ f \in Seq(W)
    BY <1>3, <1>4
  <2> HIDE DEF m, f
  <2>2. (p \o m) \o f = p \o (m \o f)
    BY ONLY <2>1, Regroup
  <2> QED BY <2>2 DEF m, f
<1>8. dataset_field_node_id(ns, name, field) = p \o tail
  BY ONLY <1>5, <1>6, <1>7 DEF tail
<1>9. id = <<"datasetField", ":">> \o ns \o <<":">> \o tail
  <2>1. id = dataset_field_node_id(ns, name, field)
    OBVIOUS
  <2> QED BY ONLY <1>8, <2>1 DEF p
<1>10. tail \in Seq(W)
  <2>1. TakesApart(tail, name, ":", field, W)
    BY BeforeAfter
  <2> HIDE DEF tail
  <2> QED BY <2>1 DEF TakesApart
<1>11. "datasetField" \in {"job", "dataset", "datasetField"}
  OBVIOUS
<1> HIDE DEF tail
<1> QED BY <1>9, <1>10, <1>11, NodeIdsHaveColon

\* The client that expands a dataset asks for it, unless its name has a colon.
LEMMA FetchedDataset ==
  ASSUME NEW W, {":", "dataset"} \subseteq W, NEW ns \in Seq(W), NEW name \in Seq(W),
         NEW id, id = dataset_node_id(ns, name)
  PROVE  fetched_dataset(id) = <<ns, name>> <=> ~ Contains(name, ":")
<1> DEFINE text == ns \o <<":">> \o name
<1>0. ":" \in W /\ "dataset" \in W /\ "dataset" # ":"
  OBVIOUS
<1>1. id[1] = "dataset" /\ After(id, 2) = text
  <2>1. id = <<"dataset", ":">> \o ns \o <<":">> \o name
    BY DEF dataset_node_id
  <2>2. HasPrefix(id, "dataset", text)
    BY <1>0, <2>1, Prefixed
  <2> QED BY <2>2 DEF HasPrefix
<1>2. TakesApart(text, ns, ":", name, W)
  BY <1>0, BeforeAfter
<1> HIDE DEF text
<1>3. fetched_dataset(id) = rsplit_once(text, ":")
  BY <1>1 DEF fetched_dataset
<1> DEFINE c == Len(ns) + 1
<1>4. /\ text \in Seq(W) /\ Len(text) \in Nat /\ Len(text) = c + Len(name)
      /\ c \in 1..Len(text) /\ text[c] = ":"
      /\ Before(text, c) = ns /\ After(text, c) = name
      /\ \A i \in 1..Len(name) : text[c + i] = name[i]
  BY <1>2 DEF TakesApart
<1>5. Len(ns) \in Nat /\ Len(name) \in Nat /\ c = Len(ns) + 1 /\ c \in Nat
  OBVIOUS
<1> HIDE DEF c
<1>6. CASE Contains(name, ":")
  <2>1. PICK j \in 1..Len(name) : name[j] = ":"
    BY <1>6 DEF Contains
  <2>2. c + j \in 1..Len(text) /\ text[c + j] = ":"
    BY <1>4, <1>5, <2>1
  <2>3. PICK k \in 1..Len(text) :
          c + j <= k /\ rsplit_once(text, ":") = <<Before(text, k), After(text, k)>>
    BY <1>4, <2>2, SplitLast
  <2>4. Len(Before(text, k)) = k - 1
    <3>1. \A i \in 1..(k - 1) : text[i] \in W
      BY <1>4, ElementOfSeq
    <3>2. 1 \in Int /\ k - 1 \in Int /\ 1 <= k - 1
      BY <1>4, <1>5, <2>3
    <3>3. Len(SubSeq(text, 1, k - 1)) = IF 1 <= k - 1 THEN (k - 1) - 1 + 1 ELSE 0
      BY <3>1, <3>2, SubSeqProperties
    <3> QED BY <3>2, <3>3 DEF Before
  <2>5. Before(text, k) # ns
    BY <1>5, <2>3, <2>4
  <2>6. <<Before(text, k), After(text, k)>>[1] = Before(text, k) /\ <<ns, name>>[1] = ns
    OBVIOUS
  <2>7. rsplit_once(text, ":") # <<ns, name>>
    BY <2>3, <2>5, <2>6
  <2> QED BY <1>3, <1>6, <2>7
<1>7. CASE ~ Contains(name, ":")
  <2>1. PICK k \in 1..Len(text) :
          c <= k /\ rsplit_once(text, ":") = <<Before(text, k), After(text, k)>>
    BY <1>4, SplitLast
  <2>2. SelectLastInSeq(text, LAMBDA w : w = ":") = c
    <3>1. ASSUME NEW i \in 1..Len(text), i > c
          PROVE  text[i] # ":"
      <4>1. i - c \in 1..Len(name) /\ c + (i - c) = i
        BY <1>4, <1>5, <3>1
      <4>2. text[i] = name[i - c]
        BY ONLY <1>4, <4>1
      <4> QED BY <1>7, <4>1, <4>2 DEF Contains
    <3> QED BY <1>4, <3>1, LastOf
  <2>3. rsplit_once(text, ":") = SplitAt(text, c)
    BY <2>2, Zenon DEF rsplit_once
  <2>4. SplitAt(text, c) = <<ns, name>>
    BY <1>4, <1>5 DEF SplitAt
  <2> QED BY <1>3, <1>7, <2>3, <2>4
<1> QED BY <1>6, <1>7

\* The shorthand of a dataset or of its field names it, when it has no other separators.
LEMMA ShorthandResolves ==
  ASSUME NEW W, Texts(W), NEW ns \in Seq(W), NEW name \in Seq(W),
         NEW plain, plain = ns \o <<"/">> \o name, ~ Contains(plain, ":"), ~ Contains(ns, "/")
  PROVE  /\ resolve_shorthand(<<"dataset", ":">> \o plain) = dataset_node_id(ns, name)
         /\ ~ Contains(name, "/") => \A f \in Fields :
              resolve_shorthand(<<"datasetField", ":">> \o plain \o <<"/">> \o f) =
                dataset_field_node_id(ns, name, f)
<1>0. /\ ":" \in W /\ "/" \in W /\ "dataset" \in W /\ "datasetField" \in W
      /\ "dataset" # ":" /\ "datasetField" # ":" /\ ":" # "/"
      /\ \A a, b : <<a, b>> # Null
  BY DEF Texts
<1>1. TakesApart(plain, ns, "/", name, W) /\ plain \in Seq(W)
  <2>1. TakesApart(plain, ns, "/", name, W)
    BY <1>0, BeforeAfter
  <2> QED BY <2>1 DEF TakesApart
<1>2. \A i \in 1..Len(ns) : ns[i] # "/"
  BY DEF Contains
<1>3. split_once(plain, "/") = <<ns, name>>
  BY <1>0, <1>2, SplitOnce
<1>4. resolve_shorthand(<<"dataset", ":">> \o plain) = dataset_node_id(ns, name)
  <2> DEFINE t == <<"dataset", ":">> \o plain
  <2>1. HasPrefix(t, "dataset", plain)
    BY <1>0, <1>1, PrefixedText
  <2> HIDE DEF t
  <2>2. t[1] = "dataset" /\ t[2] = ":" /\ Len(t) > 1 /\ After(t, 2) = plain
    BY <2>1 DEF HasPrefix
  <2>3. PICK kind \in {"job", "dataset"} : kind = "dataset"
    OBVIOUS
  <2>4. resolve_shorthand(t) = <<kind, ":">> \o ns \o <<":">> \o name
    <3> DEFINE id == <<kind, ":">> \o ns \o <<":">> \o name
    <3>1. t[1] = kind
      BY <2>2, <2>3
    <3>2. id = <<kind, ":">> \o ns \o <<":">> \o name
      OBVIOUS
    <3> HIDE DEF id
    <3>3. resolve_shorthand(t) = id
      BY <1>0, <1>3, <2>2, <2>3, <3>1, <3>2, ResolveShort
    <3> QED BY <3>3 DEF id
  <2> QED BY <2>3, <2>4 DEF t, dataset_node_id
<1>5. ASSUME ~ Contains(name, "/"), NEW f \in Fields
      PROVE  resolve_shorthand(<<"datasetField", ":">> \o plain \o <<"/">> \o f) =
               dataset_field_node_id(ns, name, f)
  <2>1. f \in Seq(W) /\ \A i \in 1..Len(f) : f[i] # ":"
    BY DEF Texts
  <2> DEFINE tail == name \o <<"/">> \o f
             rest == plain \o <<"/">> \o f
             t == <<"datasetField", ":">> \o plain \o <<"/">> \o f
  <2>2. TakesApart(rest, plain, "/", f, W) /\ rest \in Seq(W)
    <3>1. TakesApart(rest, plain, "/", f, W)
      BY <1>0, <1>1, <2>1, BeforeAfter
    <3> HIDE DEF rest
    <3> QED BY <3>1 DEF TakesApart
  <2>3. t = <<"datasetField", ":">> \o rest
    <3>1. <<"datasetField", ":">> \in Seq(W) /\ <<"/">> \in Seq(W)
      BY <1>0
    <3>2. plain \o <<"/">> \in Seq(W)
      BY <1>1, <3>1, ConcatProperties
    <3>3. (<<"datasetField", ":">> \o plain) \o <<"/">> = <<"datasetField", ":">> \o (plain \o <<"/">>)
      BY <1>1, <3>1, Regroup
    <3>4. (<<"datasetField", ":">> \o (plain \o <<"/">>)) \o f =
            <<"datasetField", ":">> \o ((plain \o <<"/">>) \o f)
      <4> DEFINE p == <<"datasetField", ":">>
                 m == plain \o <<"/">>
      <4>1. p \in Seq(W) /\ m \in Seq(W) /\ f \in Seq(W)
        BY <2>1, <3>1, <3>2
      <4> HIDE DEF p, m
      <4>2. (p \o m) \o f = p \o (m \o f)
        BY ONLY <4>1, Regroup
      <4> QED BY <4>2 DEF p, m
    <3> QED BY ONLY <3>3, <3>4 DEF t, rest
  <2>4. rest = ns \o <<"/">> \o tail
    <3>1. <<"/">> \in Seq(W)
      BY <1>0
    <3>2. ns \o <<"/">> \in Seq(W) /\ name \o <<"/">> \in Seq(W)
      BY <3>1, ConcatProperties
    <3>3. ((ns \o <<"/">>) \o name) \o <<"/">> = (ns \o <<"/">>) \o (name \o <<"/">>)
      BY <3>1, <3>2, Regroup
    <3>4. ((ns \o <<"/">>) \o (name \o <<"/">>)) \o f = (ns \o <<"/">>) \o ((name \o <<"/">>) \o f)
      <4> DEFINE p == ns \o <<"/">>
                 m == name \o <<"/">>
      <4>1. p \in Seq(W) /\ m \in Seq(W) /\ f \in Seq(W)
        BY <2>1, <3>2
      <4> HIDE DEF p, m
      <4>2. (p \o m) \o f = p \o (m \o f)
        BY ONLY <4>1, Regroup
      <4> QED BY <4>2 DEF p, m
    <3> QED BY ONLY <3>3, <3>4, plain = ns \o <<"/">> \o name DEF rest, tail
  <2>5. tail \in Seq(W)
    <3>1. TakesApart(tail, name, "/", f, W)
      BY <1>0, <2>1, BeforeAfter
    <3> HIDE DEF tail
    <3> QED BY <3>1 DEF TakesApart
  <2>6. split_once(tail, "/") = <<name, f>>
    <3>1. \A i \in 1..Len(name) : name[i] # "/"
      BY <1>5 DEF Contains
    <3> QED BY <1>0, <2>1, <3>1, SplitOnce
  <2> HIDE DEF tail, rest, t
  <2>7. split_once(rest, "/") = <<ns, tail>>
    BY <1>0, <1>2, <2>4, <2>5, SplitOnce
  <2>8. ~ Contains(rest, ":")
    <3>1. SUFFICES ASSUME NEW i \in 1..Len(rest), rest[i] = ":"
                   PROVE  FALSE
      BY DEF Contains
    <3>2. /\ Len(rest) = Len(plain) + 1 + Len(f)
          /\ \A j \in 1..Len(plain) : rest[j] = plain[j]
          /\ rest[Len(plain) + 1] = "/"
          /\ \A j \in 1..Len(f) : rest[Len(plain) + 1 + j] = f[j]
      BY <2>2 DEF TakesApart
    <3>3. Len(plain) \in Nat /\ Len(f) \in Nat
      BY <1>1, <2>1
    <3>4. CASE i <= Len(plain)
      <4>1. i \in 1..Len(plain)
        BY <3>3, <3>4
      <4>2. plain[i] = ":"
        BY <3>1, <3>2, <4>1
      <4> QED BY <4>1, <4>2 DEF Contains
    <3>5. CASE i = Len(plain) + 1
      BY <1>0, <3>1, <3>2, <3>5
    <3>6. CASE i > Len(plain) + 1
      <4> DEFINE j == i - (Len(plain) + 1)
      <4>1. j \in 1..Len(f) /\ Len(plain) + 1 + j = i
        BY <3>2, <3>3, <3>6
      <4> HIDE DEF j
      <4>2. rest[i] = f[j]
        BY ONLY <3>2, <4>1
      <4> QED BY <2>1, <3>1, <4>1, <4>2
    <3>7. i \in Nat /\ (i <= Len(plain) \/ i = Len(plain) + 1 \/ i > Len(plain) + 1)
      <4> DEFINE n == Len(plain)
                 m == Len(rest)
      <4>1. n \in Nat /\ m \in Nat /\ i \in 1..m
        BY <3>2, <3>3
      <4> HIDE DEF n, m
      <4>2. i \in Nat /\ (i <= n \/ i = n + 1 \/ i > n + 1)
        BY ONLY <4>1
      <4> QED BY <4>2 DEF n
    <3> QED BY ONLY <3>4, <3>5, <3>6, <3>7
  <2>9. t[1] = "datasetField" /\ t[2] = ":" /\ Len(t) > 1 /\ After(t, 2) = rest
    <3>1. HasPrefix(t, "datasetField", rest)
      BY <1>0, <2>2, <2>3, PrefixedText
    <3> QED BY <3>1 DEF HasPrefix
  <2>10. resolve_shorthand(t) = dataset_field_node_id(ns, name, f)
    BY <1>0, <2>6, <2>7, <2>8, <2>9, ResolveShortField
  <2> QED BY <2>10 DEF t
<1> QED BY <1>4, <1>5

\* What a user types for an entity whose names are texts resolves to its node id: the
\* node ids themselves for every name, URIs too, and the shorthand where it is defined;
\* and the client asks for the dataset the id names unless its name has a colon.
THEOREM TargetsOfTextsResolve ==
  ASSUME NEW W, Texts(W)
  PROVE  Spec => []TargetsResolve
<1>0. /\ "job" \in W /\ "dataset" \in W /\ "datasetField" \in W /\ ":" \in W
      /\ {":", "datasetField"} \subseteq W /\ {":", "dataset"} \subseteq W
      /\ "job" # ":" /\ "dataset" # ":" /\ "datasetField" # ":"
  BY DEF Texts
<1>1. ASSUME NEW e \in Entities
      PROVE  e.ns \in Seq(W) /\ e.name \in Seq(W)
  BY DEF Entities, Texts
<1>2. ASSUME NEW e \in Entities
      PROVE  /\ resolve_shorthand(job_node_id(e.ns, e.name)) = job_node_id(e.ns, e.name)
             /\ resolve_shorthand(dataset_node_id(e.ns, e.name)) = dataset_node_id(e.ns, e.name)
  <2>1. /\ job_node_id(e.ns, e.name) = <<"job", ":">> \o e.ns \o <<":">> \o e.name
        /\ dataset_node_id(e.ns, e.name) = <<"dataset", ":">> \o e.ns \o <<":">> \o e.name
    BY DEF job_node_id, dataset_node_id
  <2>2. resolve_shorthand(job_node_id(e.ns, e.name)) = job_node_id(e.ns, e.name)
    BY <1>0, <1>1, <2>1, NodeIdsHaveColon
  <2>3. resolve_shorthand(dataset_node_id(e.ns, e.name)) = dataset_node_id(e.ns, e.name)
    BY <1>0, <1>1, <2>1, NodeIdsHaveColon
  <2> QED BY <2>2, <2>3
<1>3. ASSUME NEW e \in Entities, NEW f \in Fields
      PROVE  resolve_shorthand(dataset_field_node_id(e.ns, e.name, f)) =
               dataset_field_node_id(e.ns, e.name, f)
  <2>1. f \in Seq(W)
    BY DEF Texts
  <2> DEFINE ns == e.ns
             name == e.name
             id == dataset_field_node_id(ns, name, f)
  <2>2. id = dataset_field_node_id(ns, name, f) /\ ns \in Seq(W) /\ name \in Seq(W)
    BY <1>1
  <2> HIDE DEF ns, name, id
  <2>3. resolve_shorthand(id) = id
    BY <1>0, <2>1, <2>2, FieldIdKept
  <2> QED BY <2>3 DEF ns, name, id
<1>4. ASSUME NEW e \in Entities
      PROVE  Resolves(e)
  <2> DEFINE plain == e.ns \o <<"/">> \o e.name
  <2>1. ASSUME ~ Contains(plain, ":"), ~ Contains(e.ns, "/")
        PROVE  /\ resolve_shorthand(<<"dataset", ":">> \o plain) = dataset_node_id(e.ns, e.name)
               /\ ~ Contains(e.name, "/") => \A f \in Fields :
                    resolve_shorthand(<<"datasetField", ":">> \o plain \o <<"/">> \o f) =
                      dataset_field_node_id(e.ns, e.name, f)
    <3>1. plain = e.ns \o <<"/">> \o e.name
      OBVIOUS
    <3> HIDE DEF plain
    <3> QED BY <1>1, <2>1, <3>1, ShorthandResolves
  <2>2. \A f \in Fields : resolve_shorthand(dataset_field_node_id(e.ns, e.name, f)) =
                            dataset_field_node_id(e.ns, e.name, f)
    BY <1>3
  <2> QED BY <1>2, <2>1, <2>2 DEF Resolves
<1>5. ASSUME NEW e \in Entities, seed \in EntityIds(e), seed[1] = "dataset"
      PROVE  (fetched_dataset(seed) = <<e.ns, e.name>>) = ~ Contains(e.name, ":")
  <2>1. seed = dataset_node_id(e.ns, e.name)
    <3>1. seed \in {job_node_id(e.ns, e.name), dataset_node_id(e.ns, e.name)}
      BY <1>5 DEF EntityIds
    <3>2. job_node_id(e.ns, e.name) = <<"job", ":">> \o e.ns \o <<":">> \o e.name
      BY DEF job_node_id
    <3>3. job_node_id(e.ns, e.name)[1] = "job"
      <4> DEFINE text == e.ns \o <<":">> \o e.name
      <4>1. HasPrefix(job_node_id(e.ns, e.name), "job", text)
        BY <1>0, <1>1, <3>2, Prefixed
      <4> QED BY <4>1 DEF HasPrefix
    <3> QED BY <1>5, <3>1, <3>3
  <2>2. fetched_dataset(seed) = <<e.ns, e.name>> <=> ~ Contains(e.name, ":")
    BY <1>0, <1>1, <2>1, FetchedDataset
  <2>3. Contains(e.name, ":") \in BOOLEAN
    BY DEF Contains
  <2> QED BY <2>2, <2>3
<1>6. TargetsResolve
  BY <1>4, <1>5 DEF TargetsResolve
<1> QED BY <1>6, PTL
==============================================================================
