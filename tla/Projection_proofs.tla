-------------------------- MODULE Projection_proofs --------------------------
(***************************************************************************)
(* Theorems about the projection, for every set of writers, sessions and   *)
(* bystanders, every batch size and every bound.                           *)
(***************************************************************************)
EXTENDS Projection, FiniteSetTheorems, TLAPS

-------------------------------------------------------------------------------
(* Positions *)

\* The row order of the log is a strict total order on positions.
LEMMA BeforeIsOrder ==
  ASSUME NEW a \in Position, NEW b \in Position, NEW c \in Position
  PROVE  /\ ~Before(a, a)
         /\ Before(a, b) /\ Before(b, c) => Before(a, c)
         /\ Before(a, b) \/ a = b \/ Before(b, a)
  BY DEF Position, Before

\* ORDER BY ... LIMIT n takes an initial segment.
LEMMA FirstOfIsDownClosed ==
  ASSUME NEW n \in Nat, NEW S \in SUBSET Position, IsFiniteSet(S)
  PROVE  /\ FirstOf(n, S) \subseteq S
         /\ DownClosedIn(FirstOf(n, S), S)
<1>1. FirstOf(n, S) \subseteq S
  BY DEF FirstOf
<1>2. ASSUME NEW q \in S, NEW r \in FirstOf(n, S), Before(q, r)
      PROVE  q \in FirstOf(n, S)
  <2> DEFINE Earlier(x) == {y \in S : Before(y, x)}
  <2>1. Earlier(q) \subseteq Earlier(r)
    BY <1>1, <1>2, BeforeIsOrder
  <2>2. IsFiniteSet(Earlier(r))
    BY FS_Subset
  <2>3. Cardinality(Earlier(q)) <= Cardinality(Earlier(r))
    BY <2>1, <2>2, FS_Subset
  <2>4. Cardinality(Earlier(r)) < n
    BY <1>2 DEF FirstOf
  <2>5. Cardinality(Earlier(q)) \in Nat /\ Cardinality(Earlier(r)) \in Nat
    BY <2>1, <2>2, FS_Subset, FS_CardinalityType
  <2>6. Cardinality(Earlier(q)) < n
    BY <2>3, <2>4, <2>5
  <2> QED BY <2>6 DEF FirstOf
<1> QED BY <1>1, <1>2 DEF DownClosedIn

\* Appending a row after all others keeps a sequence of positions ascending.
LEMMA AppendKeepsAscending ==
  ASSUME NEW s \in Seq(Position), NEW p \in Position, Ascending(s),
         \A q \in Range(s) : Before(q, p)
  PROVE  /\ Ascending(Append(s, p))
         /\ Range(Append(s, p)) = Range(s) \cup {p}
<1>1. \A i \in DOMAIN s : Before(s[i], p)
  BY DEF Range
<1>2. Ascending(Append(s, p))
  BY <1>1 DEF Ascending
<1>3. Range(Append(s, p)) = Range(s) \cup {p}
  <2>1. DOMAIN Append(s, p) = DOMAIN s \cup {Len(s) + 1}
    OBVIOUS
  <2>2. \A i \in DOMAIN s : Append(s, p)[i] = s[i]
    OBVIOUS
  <2>3. Append(s, p)[Len(s) + 1] = p
    OBVIOUS
  <2> QED BY <2>1, <2>2, <2>3 DEF Range
<1> QED BY <1>2, <1>3

\* So does concatenating a sequence that comes after.
LEMMA ConcatKeepsAscending ==
  ASSUME NEW s \in Seq(Position), NEW t \in Seq(Position),
         Ascending(s), Ascending(t),
         \A q \in Range(s), r \in Range(t) : Before(q, r)
  PROVE  /\ Ascending(s \o t)
         /\ Range(s \o t) = Range(s) \cup Range(t)
<1>1. \A i \in DOMAIN s, j \in DOMAIN t : Before(s[i], t[j])
  BY DEF Range
<1>2. ASSUME NEW i \in DOMAIN (s \o t), NEW j \in DOMAIN (s \o t), i < j
      PROVE  Before((s \o t)[i], (s \o t)[j])
  <2>1. CASE j <= Len(s)
    BY <1>2, <2>1 DEF Ascending
  <2>2. CASE i <= Len(s) /\ j > Len(s)
    <3>1. i \in DOMAIN s /\ j - Len(s) \in DOMAIN t
      BY <2>2
    <3> QED BY <1>1, <2>2, <3>1
  <2>3. CASE i > Len(s)
    <3>1. i - Len(s) \in DOMAIN t /\ j - Len(s) \in DOMAIN t
          /\ i - Len(s) < j - Len(s)
      BY <1>2, <2>3
    <3> QED BY <1>2, <2>3, <3>1 DEF Ascending
  <2> QED BY <2>1, <2>2, <2>3
<1>3. Range(s \o t) \subseteq Range(s) \cup Range(t)
  <2>1. ASSUME NEW i \in DOMAIN (s \o t)
        PROVE  (s \o t)[i] \in Range(s) \cup Range(t)
    <3>1. CASE i <= Len(s)
      BY <3>1 DEF Range
    <3>2. CASE i > Len(s)
      <4>1. i - Len(s) \in DOMAIN t
        BY <3>2
      <4> QED BY <3>2, <4>1 DEF Range
    <3> QED BY <3>1, <3>2
  <2> QED BY <2>1 DEF Range
<1>4. Range(s) \subseteq Range(s \o t)
  <2>1. ASSUME NEW i \in DOMAIN s
        PROVE  i \in DOMAIN (s \o t) /\ (s \o t)[i] = s[i]
    OBVIOUS
  <2> QED BY <2>1 DEF Range
<1>5. Range(t) \subseteq Range(s \o t)
  <2>1. ASSUME NEW i \in DOMAIN t
        PROVE  /\ Len(s) + i \in DOMAIN (s \o t)
               /\ (s \o t)[Len(s) + i] = t[i]
    OBVIOUS
  <2>2. ASSUME NEW i \in DOMAIN t
        PROVE  t[i] \in Range(s \o t)
    BY <2>1 DEF Range
  <2> QED BY <2>2 DEF Range
<1> QED BY <1>2, <1>3, <1>4, <1>5 DEF Ascending

\* The last row of an ascending sequence comes after all others.
LEMMA LastIsGreatest ==
  ASSUME NEW s \in Seq(Position), s # << >>, Ascending(s)
  PROVE  /\ LastOf(s) \in Range(s)
         /\ LastOf(s) \in Position
         /\ \A q \in Range(s) : q = LastOf(s) \/ Before(q, LastOf(s))
<1>1. Len(s) \in DOMAIN s
  OBVIOUS
<1>2. \A i \in DOMAIN s : i = Len(s) \/ i < Len(s)
  OBVIOUS
<1> QED BY <1>1, <1>2 DEF LastOf, Range, Ascending

-------------------------------------------------------------------------------
(* Type correctness *)

\* The parts of the state a step leaves alone keep their types.
LEMMA UnchangedKeepsTypes ==
  ASSUME TypeOK
  PROVE  /\ UNCHANGED logVars => LogTypeOK'
         /\ UNCHANGED <<horizon, callVars>> => CallTypeOK'
         /\ UNCHANGED tables => TableTypeOK'
  BY DEF TypeOK, LogTypeOK, CallTypeOK, TableTypeOK, logVars, callVars, tables

\* Returning from a call keeps the types of the session variables.
LEMMA ReturnKeepsTypes ==
  ASSUME CallTypeOK, NEW s \in Sessions, Return(s)
  PROVE  CallTypeOK'
  BY DEF CallTypeOK, Return, Goto, Start, Position

\* The insert steps: the log keeps its type.
LEMMA InsertKeepsTypes ==
  ASSUME TypeOK, NEW w \in Writers, Insert(w)
  PROVE  TypeOK'
<1> USE DEF LogTypeOK
<1>1. CASE DrawSeq(w)
  BY <1>1, UnchangedKeepsTypes DEF TypeOK, DrawSeq, budgets
<1>2. CASE InsertRow(w)
  <2>1. ASSUME NEW p PROVE IsFiniteSet(rows \cup {p})
    BY FS_AddElement DEF TypeOK
  <2>2. IsFiniteSet(rows')
    BY <1>2, <2>1 DEF InsertRow
  <2>3. rows' \subseteq Position /\ nextXid' \in Nat \ {0}
    BY <1>2 DEF InsertRow, Position, TypeOK
  <2>4. ins' \in [Writers -> [xid : Nat, drawn : Nat]]
    BY <1>2 DEF InsertRow, TypeOK
  <2> QED
    BY <1>2, <2>2, <2>3, <2>4, UnchangedKeepsTypes DEF TypeOK, InsertRow, budgets
<1>3. CASE CommitInsert(w)
  BY <1>3, UnchangedKeepsTypes DEF TypeOK, CommitInsert, NoInsert, budgets
<1>4. CASE AbortInsert(w)
  <2>1. rows' \subseteq rows
    BY <1>4 DEF AbortInsert
  <2>2. IsFiniteSet(rows')
    BY <2>1, FS_Subset DEF TypeOK
  <2> QED
    BY <1>4, <2>1, <2>2, UnchangedKeepsTypes DEF TypeOK, AbortInsert, NoInsert, budgets
<1> QED BY <1>1, <1>2, <1>3, <1>4 DEF Insert

\* The steps of a call: the session variables and the tables keep their types.
LEMMA WorkKeepsTypes ==
  ASSUME TypeOK, NEW s \in Sessions, Work(s)
  PROVE  TypeOK'
<1>1. CASE LockCursor(s)
  BY <1>1, UnchangedKeepsTypes
  DEF TypeOK, LogTypeOK, CallTypeOK, TableTypeOK, LockCursor, Goto, budgets
<1>2. CASE SkipLocked(s) \/ NothingLeft(s)
  <2>1. Return(s) /\ UNCHANGED <<logVars, tables, budgets>>
    BY <1>2 DEF SkipLocked, NothingLeft
  <2> QED BY <2>1, UnchangedKeepsTypes, ReturnKeepsTypes DEF TypeOK, budgets
<1>3. CASE SelectBatch(s)
  <2>1. FirstOf(BATCH, Candidates(s)) \subseteq Position
    BY DEF TypeOK, LogTypeOK, FirstOf, Candidates, CommittedRows
  <2> QED
    BY <1>3, <2>1, UnchangedKeepsTypes DEF TypeOK, CallTypeOK, SelectBatch, Goto, budgets
<1>4. CASE \E r \in rows : FoldEvent(s, r)
  BY <1>4, UnchangedKeepsTypes DEF TypeOK, LogTypeOK, CallTypeOK, FoldEvent, budgets
<1>5. CASE CommitBatch(s)
  <2>1. done[s] \in Seq(Position) /\ done[s] # << >>
    BY <1>5 DEF TypeOK, CallTypeOK, CommitBatch
  <2>2. LastOf(done[s]) \in Position /\ Range(done[s]) \subseteq Position
    BY <2>1 DEF LastOf, Range
  <2>3. TableTypeOK'
    BY <1>5, <2>1, <2>2 DEF TypeOK, TableTypeOK, CommitBatch
  <2>4. CallTypeOK'
    <3>1. CASE Return(s)
      BY <3>1, ReturnKeepsTypes DEF TypeOK
    <3>2. CASE ~Return(s)
      <4>1. /\ pc' = [pc EXCEPT ![s] = "lock"]
            /\ seen' = [seen EXCEPT ![s] = Start]
            /\ done' = [done EXCEPT ![s] = << >>]
            /\ horizon' = [horizon EXCEPT ![s] = 0]
            /\ UNCHANGED <<task, todo>>
        BY <1>5, <3>2 DEF CommitBatch, Goto
      <4> QED BY <4>1 DEF TypeOK, CallTypeOK, Start, Position
    <3> QED BY <3>1, <3>2
  <2> QED
    BY <1>5, <2>3, <2>4, UnchangedKeepsTypes DEF TypeOK, CommitBatch, budgets
<1>6. CASE Truncate(s)
  BY <1>6, UnchangedKeepsTypes
  DEF TypeOK, LogTypeOK, CallTypeOK, Truncate, Goto, budgets
<1>7. CASE ResetCursor(s)
  BY <1>7, UnchangedKeepsTypes DEF TypeOK, CallTypeOK, ResetCursor, Goto, budgets
<1>8. CASE CommitReset(s)
  BY <1>8, UnchangedKeepsTypes
  DEF TypeOK, CallTypeOK, TableTypeOK, CommitReset, Goto, Start, Position, budgets
<1> QED BY <1>1, <1>2, <1>3, <1>4, <1>5, <1>6, <1>7, <1>8 DEF Work

\* The values of every variable: transaction ids, positions, batches.
THEOREM TypeCorrectness == Spec => []TypeOK
<1>1. Init => TypeOK
  <2> SUFFICES ASSUME Init PROVE TypeOK
    OBVIOUS
  <2>1. PICK total \in 0..MaxLegacy : \E projected \in 0..total :
          /\ rows = {[xid |-> 0, seq |-> i] : i \in 1..total}
          /\ nextSeq = total + 1
          /\ cursor = [xid |-> 0, seq |-> projected]
          /\ folded = [i \in 1..projected |-> [xid |-> 0, seq |-> i]]
          /\ ever = {[xid |-> 0, seq |-> i] : i \in 1..projected}
    BY DEF Init
  <2>2. PICK projected \in 0..total :
          /\ rows = {[xid |-> 0, seq |-> i] : i \in 1..total}
          /\ nextSeq = total + 1
          /\ cursor = [xid |-> 0, seq |-> projected]
          /\ folded = [i \in 1..projected |-> [xid |-> 0, seq |-> i]]
          /\ ever = {[xid |-> 0, seq |-> i] : i \in 1..projected}
    BY <2>1
  <2>3. total \in Nat /\ projected \in Nat
    BY LegacyAssumption
  <2>4. IsFiniteSet(rows)
    <3> DEFINE Row(i) == [xid |-> 0, seq |-> i]
    <3>1. IsFiniteSet(1..total)
      BY <2>3, FS_Interval
    <3>2. IsFiniteSet({Row(i) : i \in 1..total})
      <4>1. PICK f : f = [i \in 1..total |-> Row(i)]
        OBVIOUS
      <4>2. f \in Surjection(1..total, {Row(i) : i \in 1..total})
        BY <4>1 DEF Surjection
      <4> QED BY <3>1, <4>2, FS_Surjection
    <3> QED BY <2>2, <3>2
  <2>5. LogTypeOK
    BY <2>2, <2>3, <2>4 DEF LogTypeOK, Position, Init, NoInsert
  <2>6. CallTypeOK
    BY DEF CallTypeOK, Position, Init, Start
  <2>7. TableTypeOK
    BY <2>2, <2>3 DEF TableTypeOK, Position
  <2> QED BY <2>5, <2>6, <2>7 DEF TypeOK, Init
<1>2. TypeOK /\ [Next]_vars => TypeOK'
  <2> SUFFICES ASSUME TypeOK, [Next]_vars PROVE TypeOK'
    OBVIOUS
  <2>1. ASSUME NEW b \in Bystanders, HoldXid(b) \/ ReleaseXid(b) PROVE TypeOK'
    <3>1. UNCHANGED logVars /\ UNCHANGED callVars /\ UNCHANGED tables /\ UNCHANGED budgets
      BY <2>1 DEF HoldXid, ReleaseXid
    <3>2. horizon' \in [Sessions \cup Bystanders -> Nat]
      <4>1. PICK x \in Nat : horizon' = [horizon EXCEPT ![b] = x]
        BY <2>1 DEF HoldXid, ReleaseXid, TypeOK, LogTypeOK
      <4>2. horizon \in [Sessions \cup Bystanders -> Nat]
        BY DEF TypeOK, CallTypeOK
      <4> QED BY <4>1, <4>2
    <3>3. CallTypeOK'
      BY <3>1, <3>2 DEF TypeOK, CallTypeOK, callVars
    <3> QED BY <3>1, <3>3, UnchangedKeepsTypes DEF TypeOK, budgets
  <2>2. ASSUME NEW s \in Sessions, Calls(s) PROVE TypeOK'
    <3>1. CASE \E t \in {"run_for", "project_all"} : Call(s, t)
      BY <3>1, UnchangedKeepsTypes DEF TypeOK, CallTypeOK, Call, Goto, budgets
    <3>2. CASE CallRebuild(s)
      BY <3>2, UnchangedKeepsTypes DEF TypeOK, CallTypeOK, CallRebuild, Goto
    <3> QED BY <2>2, <3>1, <3>2 DEF Calls
  <2>3. ASSUME NEW s \in Sessions, Fail(s) PROVE TypeOK'
    BY <2>3, UnchangedKeepsTypes, ReturnKeepsTypes DEF TypeOK, Fail
  <2>4. ASSUME NEW s \in Sessions, NEW t \in Sessions, DeadlockVictim(s, t)
        PROVE  TypeOK'
    BY <2>4, UnchangedKeepsTypes, ReturnKeepsTypes DEF TypeOK, DeadlockVictim, budgets
  <2>5. CASE UNCHANGED vars
    BY <2>5, UnchangedKeepsTypes DEF vars, budgets, TypeOK
  <2> QED
    BY <2>1, <2>2, <2>3, <2>4, <2>5, InsertKeepsTypes, WorkKeepsTypes DEF Next
<1> QED BY <1>1, <1>2, PTL DEF Spec

-------------------------------------------------------------------------------
(* What a step does to the log and to the watermark *)

\* Inserting transactions: their rows become visible only when their xid,
\* which is above the watermark until then, is no longer open.
LEMMA InsertEffect ==
  ASSUME TypeOK, XidsAssigned, NEW w \in Writers, Insert(w)
  PROVE  /\ XidsAssigned'
         /\ nextXid <= nextXid'
         /\ OpenXids' \subseteq OpenXids \cup {nextXid}
         /\ CommittedRows \subseteq CommittedRows'
         /\ \A r \in CommittedRows' \ CommittedRows : r.xid \in OpenXids
<1> USE DEF TypeOK, LogTypeOK, OpenXids, CommittedRows, XidsAssigned, Position
<1>1. CASE DrawSeq(w)
  <2>1. /\ UNCHANGED <<nextXid, rows>>
        /\ \A v \in Writers : ins'[v].xid = ins[v].xid
    BY <1>1 DEF DrawSeq
  <2>2. OpenXids' = OpenXids
    BY <2>1
  <2> QED BY <2>1, <2>2
<1>2. CASE InsertRow(w)
  <2>1. CASE ins[w].xid = 0
    <3>1. /\ nextXid' = nextXid + 1
          /\ rows' = rows \cup {[xid |-> nextXid, seq |-> ins[w].drawn]}
          /\ \A v \in Writers : ins'[v].xid = IF v = w THEN nextXid ELSE ins[v].xid
      BY <1>2, <2>1 DEF InsertRow
    <3>2. OpenXids' = OpenXids \cup {nextXid}
      BY <2>1, <3>1
    <3>3. XidsAssigned'
      BY <3>1, <3>2 DEF Before, Start
    <3> QED BY <3>1, <3>2, <3>3
  <2>2. CASE ins[w].xid # 0
    <3>1. /\ UNCHANGED nextXid
          /\ rows' = rows \cup {[xid |-> ins[w].xid, seq |-> ins[w].drawn]}
          /\ \A v \in Writers : ins'[v].xid = ins[v].xid
      BY <1>2, <2>2 DEF InsertRow
    <3>2. OpenXids' = OpenXids /\ ins[w].xid \in OpenXids
      BY <2>2, <3>1
    <3>3. XidsAssigned'
      BY <2>2, <3>1, <3>2 DEF Before, Start
    <3> QED BY <3>1, <3>2, <3>3
  <2> QED BY <2>1, <2>2
<1>3. CASE CommitInsert(w)
  <2>1. /\ UNCHANGED <<nextXid, rows>>
        /\ \A v \in Writers : ins'[v].xid = IF v = w THEN 0 ELSE ins[v].xid
    BY <1>3 DEF CommitInsert, NoInsert
  <2>2. OpenXids' \subseteq OpenXids
    BY <2>1
  <2> QED BY <2>1, <2>2
<1>4. CASE AbortInsert(w)
  <2>1. /\ UNCHANGED nextXid
        /\ rows' = {r \in rows : r.xid = 0 \/ r.xid # ins[w].xid}
        /\ \A v \in Writers : ins'[v].xid = IF v = w THEN 0 ELSE ins[v].xid
    BY <1>4 DEF AbortInsert, NoInsert
  <2>2. OpenXids' \subseteq OpenXids
    BY <2>1
  <2> QED BY <2>1, <2>2
<1> QED BY <1>1, <1>2, <1>3, <1>4 DEF Insert

\* The steps of sessions and bystanders leave the log alone, and a
\* transaction they open begins above every xid in use.
LEMMA OtherEffect ==
  ASSUME TypeOK, XidsAssigned, UNCHANGED logVars
  PROVE  /\ XidsAssigned'
         /\ OpenXids' = OpenXids
         /\ CommittedRows' = CommittedRows
         /\ nextXid' = nextXid
  BY DEF XidsAssigned, OpenXids, CommittedRows, logVars

HorizonsRise ==
  \A t \in Sessions \cup Bystanders : horizon'[t] \in {horizon[t], 0, nextXid}

\* The watermark never moves back: what was below it stays below it.
LEMMA WatermarkRises ==
  ASSUME TypeOK, TypeOK', NEW x \in Nat, BelowXmin(x),
         nextXid <= nextXid', OpenXids' \subseteq OpenXids \cup {nextXid},
         HorizonsRise
  PROVE  BelowXmin(x)'
<1>1. nextXid \in Nat /\ nextXid' \in Nat
  BY DEF TypeOK, LogTypeOK
<1>2. x < nextXid'
  BY <1>1 DEF BelowXmin
<1>3. \A y \in OpenXids' : x < y
  BY DEF BelowXmin
<1>4. ASSUME NEW t \in Sessions \cup Bystanders, horizon'[t] # 0
      PROVE  x < horizon'[t]
  BY <1>4 DEF BelowXmin, HorizonsRise
<1> QED BY <1>2, <1>3, <1>4 DEF BelowXmin

\* Whatever is at or below an xid below the watermark is below it.
LEMMA BelowXminIsDownClosed ==
  ASSUME TypeOK, NEW x \in Nat, NEW y \in Nat, x <= y, BelowXmin(y)
  PROVE  BelowXmin(x)
<1>1. OpenXids \subseteq Nat /\ nextXid \in Nat
  BY DEF OpenXids, TypeOK, LogTypeOK
<1>2. x < nextXid /\ \A z \in OpenXids : x < z
  BY <1>1 DEF BelowXmin
<1>3. ASSUME NEW t \in Sessions \cup Bystanders, horizon[t] # 0
      PROVE  x < horizon[t]
  <2>1. horizon[t] \in Nat
    BY DEF TypeOK, CallTypeOK
  <2> QED BY <1>3, <2>1 DEF BelowXmin
<1> QED BY <1>2, <1>3 DEF BelowXmin

\* Xid 0, the cursor's after a rebuild and that of the rows that predate the
\* xid column, is below every watermark.
LEMMA ZeroBelowXmin == ASSUME TypeOK PROVE BelowXmin(0)
  BY DEF BelowXmin, TypeOK, LogTypeOK, CallTypeOK, OpenXids

-------------------------------------------------------------------------------
(* Steps that leave the sessions and the tables alone *)

\* A batch stays the next one while transactions insert, commit and abort:
\* what becomes visible lies above the watermark, and the batch below it.
LEMMA BatchStaysNext ==
  ASSUME IInv, TypeOK', NEW s \in Sessions, BatchIsNext(s),
         CommittedRows \subseteq CommittedRows',
         \A r \in CommittedRows' \ CommittedRows : r.xid \in OpenXids,
         \A x \in Nat : BelowXmin(x) => BelowXmin(x)',
         UNCHANGED cursor, todo'[s] = todo[s], done'[s] = done[s]
  PROVE  BatchIsNext(s)'
<1>1. InBatch(s)' = InBatch(s)
  BY DEF InBatch
<1>2. \A r \in InBatch(s) : r \in Position
  BY DEF BatchIsNext, CommittedRows, IInv, TypeOK, LogTypeOK
<1>3. \A r \in InBatch(s) :
        r \in CommittedRows' /\ Before(cursor, r) /\ BelowXmin(r.xid)'
  BY <1>2 DEF BatchIsNext, Position
<1>4. ASSUME NEW q \in CommittedRows', Before(cursor, q),
             NEW r \in InBatch(s), Before(q, r)
      PROVE  q \in InBatch(s)
  <2>1. CASE q \in CommittedRows
    BY <1>4, <2>1 DEF BatchIsNext, DownClosedIn
  <2>2. CASE q \notin CommittedRows
    <3>1. q.xid \in OpenXids /\ q \in Position
      BY <2>2 DEF CommittedRows, TypeOK, LogTypeOK
    <3>2. r.xid < q.xid
      BY <3>1 DEF BatchIsNext, BelowXmin
    <3> QED BY <1>2, <1>4, <3>1, <3>2 DEF Before, Position
  <2> QED BY <2>1, <2>2
<1>5. DownClosedIn(InBatch(s), {r \in CommittedRows' : Before(cursor, r)})
  BY <1>4 DEF DownClosedIn
<1> QED BY <1>1, <1>3, <1>5 DEF BatchIsNext

\* The invariant when only the log and the watermark move.
LEMMA LogMovesKeepIInv ==
  ASSUME IInv, TypeOK', XidsAssigned', UNCHANGED <<callVars, tables>>,
         CommittedRows \subseteq CommittedRows',
         \A r \in CommittedRows' \ CommittedRows : r.xid \in OpenXids,
         \A x \in Nat : BelowXmin(x) => BelowXmin(x)'
  PROVE  IInv'
<1> USE DEF callVars, tables
<1>1. CursorLocked'
  BY DEF IInv, CursorLocked, HoldsCursor
<1>2. BatchesAreNext'
  <2> SUFFICES ASSUME NEW s \in Sessions
               PROVE  /\ pc'[s] = "fold" => BatchIsNext(s)'
                      /\ pc'[s] # "fold" => todo'[s] = {} /\ done'[s] = << >>
    BY DEF BatchesAreNext
  <2>1. pc[s] = "fold" => BatchIsNext(s)
    BY DEF IInv, BatchesAreNext
  <2>2. pc[s] # "fold" => todo[s] = {} /\ done[s] = << >>
    BY DEF IInv, BatchesAreNext
  <2> QED BY <2>1, <2>2, BatchStaysNext
<1>3. WatermarkPassed'
  <2>1. cursor.xid \in Nat /\ \A r \in ever : r.xid \in Nat
    BY DEF IInv, TypeOK, TableTypeOK, Position
  <2> QED BY <2>1 DEF IInv, WatermarkPassed
<1>4. NothingSkipped'
  <2>1. ASSUME NEW r \in CommittedRows', r \notin CommittedRows
        PROVE  Before(cursor, r) /\ r \notin Range(folded)
    <3>1. r.xid \in OpenXids
      BY <2>1
    <3>2. cursor.xid < r.xid
      BY <3>1 DEF IInv, WatermarkPassed, BelowXmin
    <3> QED BY <2>1, <3>2 DEF Before, IInv, NothingSkipped
  <2> QED BY <2>1 DEF IInv, NothingSkipped
<1>5. FoldedOnceInOrder'
  BY DEF IInv, FoldedOnceInOrder
<1> QED BY <1>1, <1>2, <1>3, <1>4, <1>5 DEF IInv

-------------------------------------------------------------------------------
(* Steps of a session *)

\* What a step of s does to the other sessions: nothing.
OthersAlone(s) ==
  \A t \in Sessions \ {s} :
    pc'[t] = pc[t] /\ seen'[t] = seen[t] /\ todo'[t] = todo[t] /\ done'[t] = done[t]

\* A session's step that commits nothing keeps the invariant if it keeps it
\* for that session.
LEMMA QuietStepKeepsIInv ==
  ASSUME IInv, TypeOK', NEW s \in Sessions,
         UNCHANGED <<logVars, tables>>, HorizonsRise, OthersAlone(s),
         HoldsCursor(s)' => CursorFree(s),
         pc'[s] \in {"select", "fold"} => seen'[s] = cursor,
         pc'[s] = "fold" => BatchIsNext(s)',
         pc'[s] # "fold" => todo'[s] = {} /\ done'[s] = << >>
  PROVE  IInv'
<1>1. XidsAssigned' /\ OpenXids' = OpenXids /\ CommittedRows' = CommittedRows
      /\ nextXid' = nextXid /\ UNCHANGED <<cursor, folded, ever>>
  BY OtherEffect DEF IInv, tables
<1>2. \A x \in Nat : BelowXmin(x) => BelowXmin(x)'
  BY <1>1, WatermarkRises DEF IInv, TypeOK, LogTypeOK
<1>3. CursorLocked'
  <2>1. \A t \in Sessions \ {s} : HoldsCursor(t)' <=> HoldsCursor(t)
    BY DEF OthersAlone, HoldsCursor
  <2> QED BY <1>1, <2>1 DEF IInv, CursorLocked, CursorFree, OthersAlone
<1>4. BatchesAreNext'
  <2> SUFFICES ASSUME NEW t \in Sessions
               PROVE  /\ pc'[t] = "fold" => BatchIsNext(t)'
                      /\ pc'[t] # "fold" => todo'[t] = {} /\ done'[t] = << >>
    BY DEF BatchesAreNext
  <2>1. CASE t = s
    BY <2>1
  <2>2. CASE t # s
    <3>1. pc'[t] = pc[t] /\ todo'[t] = todo[t] /\ done'[t] = done[t]
      BY <2>2 DEF OthersAlone
    <3>2. /\ pc[t] = "fold" => BatchIsNext(t)
          /\ pc[t] # "fold" => todo[t] = {} /\ done[t] = << >>
      BY DEF IInv, BatchesAreNext
    <3> QED BY <1>1, <1>2, <3>1, <3>2, BatchStaysNext
  <2> QED BY <2>1, <2>2
<1>5. WatermarkPassed'
  <2>1. cursor.xid \in Nat /\ \A r \in ever : r.xid \in Nat
    BY DEF IInv, TypeOK, TableTypeOK, Position
  <2> QED BY <1>1, <1>2, <2>1 DEF IInv, WatermarkPassed
<1>6. NothingSkipped' /\ FoldedOnceInOrder'
  BY <1>1 DEF IInv, NothingSkipped, FoldedOnceInOrder
<1> QED BY <1>1, <1>3, <1>4, <1>5, <1>6 DEF IInv

\* Returning, with or without an error, is such a step.
LEMMA ReturnKeepsIInv ==
  ASSUME IInv, TypeOK', NEW s \in Sessions, Return(s), UNCHANGED <<logVars, tables>>
  PROVE  IInv'
<1>1. /\ pc'[s] = "idle" /\ todo'[s] = {} /\ done'[s] = << >>
      /\ OthersAlone(s) /\ HorizonsRise
  BY DEF Return, Goto, OthersAlone, HorizonsRise, IInv, TypeOK, CallTypeOK
<1>2. ~HoldsCursor(s)'
  BY <1>1 DEF HoldsCursor
<1> QED BY <1>1, <1>2, QuietStepKeepsIInv

\* project_once up to its COMMIT: lock, select, fold.
LEMMA FoldStepsKeepIInv ==
  ASSUME IInv, TypeOK', NEW s \in Sessions,
         \/ LockCursor(s) \/ SelectBatch(s)
         \/ \E r \in rows : FoldEvent(s, r)
  PROVE  IInv'
<1> USE DEF Goto, IInv, TypeOK, CallTypeOK
<1>1. CASE LockCursor(s)
  <2>1. /\ UNCHANGED <<logVars, tables>> /\ HorizonsRise /\ OthersAlone(s)
        /\ CursorFree(s) /\ pc'[s] = "select" /\ seen'[s] = cursor
        /\ todo'[s] = todo[s] /\ done'[s] = done[s]
    BY <1>1 DEF LockCursor, OthersAlone, HorizonsRise
  <2>2. todo[s] = {} /\ done[s] = << >>
    BY <1>1 DEF BatchesAreNext, LockCursor
  <2> QED BY <2>1, <2>2, QuietStepKeepsIInv
<1>2. CASE SelectBatch(s)
  <2>1. /\ UNCHANGED <<logVars, tables, horizon>> /\ OthersAlone(s)
        /\ pc[s] = "select" /\ pc'[s] = "fold" /\ seen'[s] = seen[s]
        /\ todo'[s] = FirstOf(BATCH, Candidates(s)) /\ done'[s] = done[s]
    BY <1>2 DEF SelectBatch, OthersAlone
  <2>2. CursorFree(s) /\ seen[s] = cursor /\ done[s] = << >>
    BY <2>1 DEF CursorLocked, HoldsCursor, CursorFree, BatchesAreNext
  <2>3. HorizonsRise
    BY <2>1 DEF HorizonsRise
  <2>4. BatchIsNext(s)'
    <3> DEFINE C == Candidates(s)
               B == FirstOf(BATCH, C)
    <3>1. C = {r \in CommittedRows : Before(cursor, r) /\ BelowXmin(r.xid)}
      BY <2>2 DEF Candidates
    <3>2. C \in SUBSET Position /\ IsFiniteSet(C)
      <4>1. C \subseteq rows
        BY <3>1 DEF CommittedRows
      <4> QED BY <4>1, FS_Subset DEF LogTypeOK
    <3>3. B \subseteq C /\ DownClosedIn(B, C)
      BY <3>2, FirstOfIsDownClosed, BatchAssumption
    <3>4. /\ InBatch(s)' = B /\ done'[s] = << >> /\ Range(<< >>) = {}
      BY <2>1, <2>2 DEF InBatch, Range
    <3>5. \A r \in B : r \in CommittedRows /\ Before(cursor, r) /\ BelowXmin(r.xid)
      BY <3>1, <3>3
    <3>6. ASSUME NEW q \in CommittedRows, Before(cursor, q), NEW r \in B, Before(q, r)
          PROVE  q \in B
      <4>1. q \in Position /\ r \in Position
        BY <3>2, <3>3 DEF CommittedRows, LogTypeOK
      <4>2. q.xid <= r.xid
        BY <3>6, <4>1 DEF Before, Position
      <4>3. BelowXmin(q.xid)
        BY <3>5, <4>1, <4>2, BelowXminIsDownClosed DEF Position
      <4>4. q \in C
        BY <3>1, <3>6, <4>3
      <4> QED BY <3>3, <3>6, <4>4 DEF DownClosedIn
    <3>7. DownClosedIn(B, {r \in CommittedRows : Before(cursor, r)})
      BY <3>6 DEF DownClosedIn
    <3>8. OpenXids' = OpenXids /\ CommittedRows' = CommittedRows
          /\ UNCHANGED <<nextXid, horizon, cursor>>
      BY <2>1 DEF OpenXids, CommittedRows, logVars, tables
    <3>9. \A x : BelowXmin(x)' <=> BelowXmin(x)
      BY <3>8 DEF BelowXmin
    <3>10. Ascending(<< >>)
      BY DEF Ascending
    <3> QED BY <3>4, <3>5, <3>7, <3>8, <3>9, <3>10 DEF BatchIsNext
  <2>5. CursorFree(s) /\ seen'[s] = cursor
    BY <2>1, <2>2
  <2> QED BY <2>1, <2>3, <2>4, <2>5, QuietStepKeepsIInv
<1>3. ASSUME NEW r \in rows, FoldEvent(s, r)
      PROVE  IInv'
  <2>1. /\ UNCHANGED <<logVars, tables, horizon>> /\ OthersAlone(s)
        /\ pc[s] = "fold" /\ pc'[s] = "fold" /\ seen'[s] = seen[s]
        /\ r \in todo[s] /\ \A q \in todo[s] \ {r} : Before(r, q)
        /\ todo'[s] = todo[s] \ {r} /\ done'[s] = Append(done[s], r)
    BY <1>3 DEF FoldEvent, OthersAlone
  <2>2. CursorFree(s) /\ seen[s] = cursor /\ BatchIsNext(s)
    BY <2>1 DEF CursorLocked, HoldsCursor, CursorFree, BatchesAreNext
  <2>3. HorizonsRise
    BY <2>1 DEF HorizonsRise
  <2>4. done[s] \in Seq(Position) /\ r \in Position /\ todo[s] \subseteq Position
    BY <2>1
  <2>5. /\ Ascending(Append(done[s], r))
        /\ Range(Append(done[s], r)) = Range(done[s]) \cup {r}
    BY <2>1, <2>2, <2>4, AppendKeepsAscending DEF BatchIsNext
  <2>6. InBatch(s)' = InBatch(s)
    BY <2>1, <2>5 DEF InBatch
  <2>7. \A p \in Range(done'[s]), q \in todo'[s] : Before(p, q)
    BY <2>1, <2>2, <2>5 DEF BatchIsNext
  <2>8. OpenXids' = OpenXids /\ CommittedRows' = CommittedRows
        /\ UNCHANGED <<nextXid, horizon, cursor>>
    BY <2>1 DEF OpenXids, CommittedRows, logVars, tables
  <2>9. \A x : BelowXmin(x)' <=> BelowXmin(x)
    BY <2>8 DEF BelowXmin
  <2>10. BatchIsNext(s)'
    BY <2>1, <2>2, <2>5, <2>6, <2>7, <2>8, <2>9 DEF BatchIsNext
  <2>11. CursorFree(s) /\ seen'[s] = cursor
    BY <2>1, <2>2
  <2> QED BY <2>1, <2>3, <2>10, <2>11, QuietStepKeepsIInv
<1> QED BY <1>1, <1>2, <1>3

\* What a COMMIT does: the batch goes to the end of the tables, and the cursor
\* to the end of the batch.
LEMMA CommitBatchEffect ==
  ASSUME IInv, NEW s \in Sessions, CommitBatch(s)
  PROVE  /\ UNCHANGED logVars /\ pc[s] = "fold" /\ todo[s] = {}
         /\ folded' = folded \o done[s] /\ ever' = ever \cup Range(done[s])
         /\ done[s] \in Seq(Position) /\ folded \in Seq(Position)
         /\ cursor \in Position /\ cursor' \in Position
         /\ CommittedRows \subseteq Position
         /\ \A r \in Range(done[s]) :
              r \in CommittedRows /\ Before(cursor, r) /\ BelowXmin(r.xid)
         /\ DownClosedIn(Range(done[s]), {r \in CommittedRows : Before(cursor, r)})
         /\ cursor' \in Range(done[s])
         /\ \A q \in Range(done[s]) : q = cursor' \/ Before(q, cursor')
         /\ Ascending(folded')
         /\ Range(folded') = Range(folded) \cup Range(done[s])
<1>1. /\ UNCHANGED logVars /\ pc[s] = "fold" /\ todo[s] = {}
      /\ cursor' = LastOf(done[s]) /\ folded' = folded \o done[s]
      /\ ever' = ever \cup Range(done[s])
  BY DEF CommitBatch
<1>2. /\ done[s] \in Seq(Position) /\ done[s] # << >> /\ folded \in Seq(Position)
      /\ cursor \in Position /\ CommittedRows \subseteq Position
  BY DEF CommitBatch, IInv, TypeOK, CallTypeOK, TableTypeOK, LogTypeOK, CommittedRows
<1>3. Range(folded) \subseteq Position /\ Range(done[s]) \subseteq Position
  BY <1>2 DEF Range
<1>4. /\ \A r \in Range(done[s]) :
           r \in CommittedRows /\ Before(cursor, r) /\ BelowXmin(r.xid)
      /\ DownClosedIn(Range(done[s]), {r \in CommittedRows : Before(cursor, r)})
      /\ Ascending(done[s])
  BY <1>1 DEF IInv, BatchesAreNext, BatchIsNext, InBatch
<1>5. /\ cursor' \in Range(done[s]) /\ cursor' \in Position
      /\ \A q \in Range(done[s]) : q = cursor' \/ Before(q, cursor')
  BY <1>1, <1>2, <1>4, LastIsGreatest
<1>6. Ascending(folded') /\ Range(folded') = Range(folded) \cup Range(done[s])
  <2>1. ASSUME NEW q \in Range(folded), NEW r \in Range(done[s])
        PROVE  Before(q, r)
    <3>1. ~Before(cursor, q) /\ Before(cursor, r)
      BY <1>4 DEF IInv, NothingSkipped
    <3> QED BY <1>2, <1>3, <3>1, BeforeIsOrder
  <2> QED BY <1>1, <1>2, <1>4, <2>1, ConcatKeepsAscending DEF IInv, FoldedOnceInOrder
<1> QED BY <1>1, <1>2, <1>4, <1>5, <1>6

\* The COMMIT of a batch keeps the invariant: cursor and tables move together,
\* past exactly the events of the batch.
LEMMA CommitBatchKeepsIInv ==
  ASSUME IInv, TypeOK', NEW s \in Sessions, CommitBatch(s)
  PROVE  IInv'
<1>1. pc'[s] \in {"lock", "idle"} /\ todo'[s] = {} /\ done'[s] = << >>
  BY DEF CommitBatch, Return, Goto, IInv, TypeOK, CallTypeOK
<1>2. OthersAlone(s) /\ HorizonsRise
  BY DEF CommitBatch, Return, Goto, IInv, TypeOK, CallTypeOK, OthersAlone, HorizonsRise
<1>3. XidsAssigned' /\ OpenXids' = OpenXids /\ CommittedRows' = CommittedRows
      /\ nextXid' = nextXid
  BY CommitBatchEffect, OtherEffect DEF IInv
<1>4. \A x \in Nat : BelowXmin(x) => BelowXmin(x)'
  BY <1>2, <1>3, WatermarkRises DEF IInv, TypeOK, LogTypeOK
<1>5. /\ pc[s] = "fold" /\ ever' = ever \cup Range(done[s])
      /\ cursor \in Position /\ cursor' \in Position
      /\ CommittedRows \subseteq Position /\ Range(done[s]) \subseteq Position
  BY CommitBatchEffect
<1>6. /\ \A r \in Range(done[s]) :
           r \in CommittedRows /\ Before(cursor, r) /\ BelowXmin(r.xid)
      /\ DownClosedIn(Range(done[s]), {r \in CommittedRows : Before(cursor, r)})
  BY CommitBatchEffect
<1>7. /\ cursor' \in Range(done[s])
      /\ \A q \in Range(done[s]) : q = cursor' \/ Before(q, cursor')
  BY CommitBatchEffect
<1>8. Ascending(folded') /\ Range(folded') = Range(folded) \cup Range(done[s])
  BY CommitBatchEffect
<1>9. CursorLocked'
  <2>1. ~HoldsCursor(s)' /\ \A t \in Sessions \ {s} : ~HoldsCursor(t)
    BY <1>1, <1>5 DEF HoldsCursor, IInv, CursorLocked
  <2>2. \A t \in Sessions : ~HoldsCursor(t)'
    BY <1>2, <2>1 DEF OthersAlone, HoldsCursor
  <2> QED BY <2>2 DEF CursorLocked, HoldsCursor
<1>10. BatchesAreNext'
  <2>1. \A t \in Sessions \ {s} : pc[t] # "fold"
    BY <1>5 DEF HoldsCursor, IInv, CursorLocked
  <2> QED BY <1>1, <1>2, <2>1 DEF OthersAlone, BatchesAreNext, IInv
<1>11. WatermarkPassed'
  <2>1. \A r \in ever \cup Range(done[s]) : r \in CommittedRows /\ BelowXmin(r.xid)
    BY <1>6 DEF IInv, WatermarkPassed
  <2>2. \A r \in ever \cup Range(done[s]) : r.xid \in Nat
    BY <1>5, <2>1 DEF Position
  <2>3. \A r \in ever' : r \in CommittedRows' /\ BelowXmin(r.xid)'
    BY <1>5, <1>3, <1>4, <2>1, <2>2
  <2>4. BelowXmin(cursor.xid)'
    BY <1>5, <1>7, <2>3 DEF BelowXmin
  <2> QED BY <1>5, <1>8, <2>3, <2>4 DEF IInv, WatermarkPassed
<1>12. NothingSkipped'
  <2>1. ASSUME NEW r \in CommittedRows
        PROVE  r \in Range(folded) \cup Range(done[s]) <=> ~Before(cursor', r)
    <3>1. r \in Range(folded) <=> ~Before(cursor, r)
      BY DEF IInv, NothingSkipped
    <3>2. CASE r \in Range(folded)
      BY <1>5, <1>6, <1>7, <3>1, <3>2, BeforeIsOrder
    <3>3. CASE r \notin Range(folded)
      <4>1. ASSUME ~Before(cursor', r) PROVE r \in Range(done[s])
        <5>1. r = cursor' \/ Before(r, cursor')
          BY <1>5, <1>7, <4>1, BeforeIsOrder
        <5> QED BY <1>6, <1>7, <3>1, <3>3, <5>1 DEF DownClosedIn
      <4>2. ASSUME r \in Range(done[s]) PROVE ~Before(cursor', r)
        BY <1>5, <1>7, <4>2, BeforeIsOrder
      <4> QED BY <3>3, <4>1, <4>2
    <3> QED BY <3>2, <3>3
  <2> QED BY <1>3, <1>6, <1>8, <2>1 DEF IInv, NothingSkipped
<1> QED BY <1>3, <1>8, <1>9, <1>10, <1>11, <1>12 DEF IInv, FoldedOnceInOrder

\* The COMMIT of a rebuild's reset.
LEMMA CommitResetKeepsIInv ==
  ASSUME IInv, TypeOK', NEW s \in Sessions, CommitReset(s)
  PROVE  IInv'
<1>1. /\ UNCHANGED <<logVars, ever>> /\ pc[s] = "commitReset" /\ pc'[s] = "lock"
      /\ cursor' = Start /\ folded' = << >> /\ OthersAlone(s) /\ HorizonsRise
      /\ todo'[s] = todo[s] /\ done'[s] = done[s]
  BY DEF CommitReset, Goto, IInv, TypeOK, CallTypeOK, OthersAlone, HorizonsRise
<1>2. XidsAssigned' /\ OpenXids' = OpenXids /\ CommittedRows' = CommittedRows
      /\ nextXid' = nextXid
  BY <1>1, OtherEffect DEF IInv
<1>3. \A x \in Nat : BelowXmin(x) => BelowXmin(x)'
  BY <1>1, <1>2, WatermarkRises DEF IInv, TypeOK, LogTypeOK
<1>4. \A t \in Sessions : ~HoldsCursor(t)' /\ pc'[t] # "fold"
  <2>1. ~HoldsCursor(s)' /\ \A t \in Sessions \ {s} : ~HoldsCursor(t)
    BY <1>1 DEF HoldsCursor, IInv, CursorLocked
  <2> QED BY <1>1, <2>1 DEF OthersAlone, HoldsCursor
<1>5. CursorLocked'
  BY <1>4 DEF CursorLocked, HoldsCursor
<1>6. BatchesAreNext'
  <2>1. \A t \in Sessions : pc[t] # "fold"
    BY <1>1, <1>4 DEF OthersAlone
  <2> QED BY <1>1, <1>4, <2>1 DEF OthersAlone, BatchesAreNext, IInv
<1>7. Range(folded') = {} /\ Ascending(folded')
  BY <1>1 DEF Range, Ascending
<1>8. WatermarkPassed'
  <2>1. \A r \in ever : r.xid \in Nat
    BY DEF IInv, TypeOK, TableTypeOK, Position
  <2>2. BelowXmin(0)'
    BY <1>3, ZeroBelowXmin DEF IInv
  <2> QED BY <1>1, <1>2, <1>3, <1>7, <2>1, <2>2 DEF IInv, WatermarkPassed, Start
<1>9. NothingSkipped'
  BY <1>1, <1>2, <1>7 DEF IInv, NothingSkipped, CommittedRows, XidsAssigned
<1> QED BY <1>2, <1>5, <1>6, <1>7, <1>8, <1>9 DEF IInv, FoldedOnceInOrder

-------------------------------------------------------------------------------
(* The theorems *)

\* The initial states: legacy rows, of which a prefix is already folded.
LEMMA InitEstablishesIInv == ASSUME Init, TypeOK PROVE IInv
<1>1. PICK total \in 0..MaxLegacy : \E projected \in 0..total :
        /\ rows = {[xid |-> 0, seq |-> i] : i \in 1..total}
        /\ nextSeq = total + 1
        /\ cursor = [xid |-> 0, seq |-> projected]
        /\ folded = [i \in 1..projected |-> [xid |-> 0, seq |-> i]]
        /\ ever = {[xid |-> 0, seq |-> i] : i \in 1..projected}
  BY DEF Init
<1>2. PICK projected \in 0..total :
        /\ rows = {[xid |-> 0, seq |-> i] : i \in 1..total}
        /\ nextSeq = total + 1
        /\ cursor = [xid |-> 0, seq |-> projected]
        /\ folded = [i \in 1..projected |-> [xid |-> 0, seq |-> i]]
        /\ ever = {[xid |-> 0, seq |-> i] : i \in 1..projected}
  BY <1>1
<1>3. total \in Nat /\ projected \in Nat /\ projected <= total
  BY LegacyAssumption
<1>4. OpenXids = {} /\ CommittedRows = rows /\ nextXid = 1
  BY DEF Init, OpenXids, NoInsert, CommittedRows
<1>5. XidsAssigned
  BY <1>2, <1>3, <1>4 DEF XidsAssigned, Before, Start
<1>6. CursorLocked /\ BatchesAreNext
  BY DEF Init, CursorLocked, HoldsCursor, BatchesAreNext
<1>7. BelowXmin(0)
  BY ZeroBelowXmin
<1>8. Range(folded) = ever
  <2>1. DOMAIN folded = 1..projected /\ \A i \in 1..projected : folded[i] = [xid |-> 0, seq |-> i]
    BY <1>2
  <2> QED BY <1>2, <2>1 DEF Range
<1>9. WatermarkPassed
  <2>1. \A r \in ever : r \in rows /\ r.xid = 0
    BY <1>2, <1>3
  <2>2. cursor.xid = 0
    BY <1>2
  <2> QED BY <1>4, <1>7, <1>8, <2>1, <2>2 DEF WatermarkPassed
<1>10. NothingSkipped
  BY <1>2, <1>3, <1>4, <1>8 DEF NothingSkipped, Before
<1>11. FoldedOnceInOrder
  BY <1>2, <1>3 DEF FoldedOnceInOrder, Ascending, Before
<1> QED BY <1>5, <1>6, <1>9, <1>10, <1>11 DEF IInv

\* Every step of the system keeps the invariant.
LEMMA NextKeepsIInv == ASSUME IInv, TypeOK', [Next]_vars PROVE IInv'
<1>1. ASSUME NEW w \in Writers, Insert(w) PROVE IInv'
  <2>1. UNCHANGED <<callVars, tables>> /\ HorizonsRise
    BY <1>1 DEF Insert, DrawSeq, InsertRow, CommitInsert, AbortInsert, HorizonsRise
  <2>2. /\ XidsAssigned'
        /\ nextXid <= nextXid' /\ OpenXids' \subseteq OpenXids \cup {nextXid}
        /\ CommittedRows \subseteq CommittedRows'
        /\ \A r \in CommittedRows' \ CommittedRows : r.xid \in OpenXids
    BY <1>1, InsertEffect DEF IInv
  <2>3. \A x \in Nat : BelowXmin(x) => BelowXmin(x)'
    BY <2>1, <2>2, WatermarkRises DEF IInv
  <2> QED BY <2>1, <2>2, <2>3, LogMovesKeepIInv
<1>2. ASSUME UNCHANGED <<logVars, callVars, tables>>, HorizonsRise PROVE IInv'
  <2>1. XidsAssigned' /\ OpenXids' = OpenXids /\ CommittedRows' = CommittedRows
        /\ nextXid' = nextXid
    BY <1>2, OtherEffect DEF IInv
  <2>2. nextXid <= nextXid'
    BY <2>1 DEF IInv, TypeOK, LogTypeOK
  <2>3. \A x \in Nat : BelowXmin(x) => BelowXmin(x)'
    BY <1>2, <2>1, <2>2, WatermarkRises DEF IInv
  <2> QED BY <1>2, <2>1, <2>3, LogMovesKeepIInv
<1>3. ASSUME NEW b \in Bystanders, HoldXid(b) \/ ReleaseXid(b) PROVE IInv'
  <2>1. UNCHANGED <<logVars, callVars, tables>>
    BY <1>3 DEF HoldXid, ReleaseXid
  <2>2. HorizonsRise
    BY <1>3 DEF HoldXid, ReleaseXid, HorizonsRise, IInv, TypeOK, CallTypeOK
  <2> QED BY <1>2, <2>1, <2>2
<1>4. CASE UNCHANGED vars
  BY <1>2, <1>4 DEF vars, HorizonsRise
<1>5. ASSUME NEW s \in Sessions,
             Calls(s) \/ Truncate(s) \/ ResetCursor(s)
      PROVE  IInv'
  <2>1. /\ UNCHANGED <<logVars, tables>> /\ todo'[s] = todo[s] /\ done'[s] = done[s]
        /\ OthersAlone(s) /\ HorizonsRise
        /\ pc'[s] \in {"lock", "truncate", "reset", "commitReset"}
        /\ pc'[s] = "commitReset" => CursorFree(s)
        /\ pc[s] # "fold"
    BY <1>5 DEF Calls, Call, CallRebuild, Truncate, ResetCursor, Goto, OthersAlone,
                HorizonsRise, IInv, TypeOK, CallTypeOK
  <2> QED BY <2>1, QuietStepKeepsIInv DEF HoldsCursor, IInv, BatchesAreNext
<1>6. ASSUME NEW s \in Sessions, SkipLocked(s) \/ NothingLeft(s) \/ Fail(s) PROVE IInv'
  BY <1>6, ReturnKeepsIInv DEF SkipLocked, NothingLeft, Fail
<1>7. ASSUME NEW s \in Sessions, NEW t \in Sessions, DeadlockVictim(s, t) PROVE IInv'
  BY <1>7, ReturnKeepsIInv DEF DeadlockVictim
<1>8. ASSUME NEW s \in Sessions, Work(s) PROVE IInv'
  BY <1>5, <1>6, <1>8, FoldStepsKeepIInv, CommitBatchKeepsIInv, CommitResetKeepsIInv
  DEF Work
<1> QED BY <1>1, <1>3, <1>4, <1>5, <1>6, <1>7, <1>8 DEF Next

\* The folded events are an initial segment of the committed ones.
LEMMA FoldedIsDownClosed ==
  ASSUME IInv
  PROVE  DownClosedIn(Range(folded), CommittedRows)
<1>1. cursor \in Position /\ CommittedRows \subseteq Position
  BY DEF IInv, TypeOK, TableTypeOK, LogTypeOK, CommittedRows
<1>2. ASSUME NEW q \in CommittedRows, NEW r \in Range(folded), Before(q, r)
      PROVE  q \in Range(folded)
  <2>1. r \in CommittedRows /\ ~Before(cursor, r)
    BY DEF IInv, NothingSkipped
  <2>2. ~Before(cursor, q)
    BY <1>1, <1>2, <2>1, BeforeIsOrder
  <2> QED BY <2>2 DEF IInv, NothingSkipped
<1> QED BY <1>2 DEF DownClosedIn

\* The inductive invariant holds throughout.
THEOREM InductiveInvariant == Spec => []IInv
<1>1. Init /\ TypeOK => IInv
  BY InitEstablishesIInv
<1>2. IInv /\ TypeOK' /\ [Next]_vars => IInv'
  BY NextKeepsIInv
<1> QED BY <1>1, <1>2, TypeCorrectness, PTL DEF Spec

\* The read tables hold exactly the committed events at or before the cursor,
\* whatever writers, projectors, rebuilds, failures and deadlocks interleave.
THEOREM NoEventSkipped == Spec => []NothingSkipped
<1>1. IInv => NothingSkipped
  BY DEF IInv
<1> QED BY <1>1, InductiveInvariant, PTL

\* Concurrent projectors fold disjoint batches: each event once, in log order.
THEOREM EachEventFoldedOnce == Spec => []FoldedOnceInOrder
<1>1. IInv => FoldedOnceInOrder
  BY DEF IInv
<1> QED BY <1>1, InductiveInvariant, PTL

\* No transaction still open can insert behind the cursor.
THEOREM CursorIsSafe == Spec => []NothingAppearsBehindCursor
<1>1. IInv => NothingAppearsBehindCursor
  BY DEF IInv, WatermarkPassed, BelowXmin, NothingAppearsBehindCursor
<1> QED BY <1>1, InductiveInvariant, PTL

\* A slower projector can't move the cursor back.
THEOREM CursorNeverMovesBack == Spec => CursorAdvances
<1> DEFINE A == \/ Before(cursor, cursor')
                \/ \E s \in Sessions : pc[s] = "commitReset" /\ cursor' = Start
<1>1. IInv /\ [Next]_vars => [A]_cursor
  <2> SUFFICES ASSUME IInv, Next PROVE [A]_cursor
    BY DEF vars, tables
  <2>1. ASSUME NEW s \in Sessions, CommitBatch(s) PROVE Before(cursor, cursor')
    BY <2>1, CommitBatchEffect
  <2>2. ASSUME NEW s \in Sessions, CommitReset(s) PROVE A
    BY <2>2 DEF CommitReset
  <2>3. ASSUME NEW s \in Sessions,
               Calls(s) \/ Fail(s) \/ (Work(s) /\ ~CommitBatch(s) /\ ~CommitReset(s))
        PROVE  UNCHANGED cursor
    BY <2>3 DEF Calls, Call, CallRebuild, Fail, Work, LockCursor, SkipLocked, SelectBatch,
                NothingLeft, FoldEvent, Truncate, ResetCursor, tables
  <2>4. ASSUME NEW w \in Writers, Insert(w) PROVE UNCHANGED cursor
    BY <2>4 DEF Insert, DrawSeq, InsertRow, CommitInsert, AbortInsert, tables
  <2>5. ASSUME NEW b \in Bystanders, HoldXid(b) \/ ReleaseXid(b) PROVE UNCHANGED cursor
    BY <2>5 DEF HoldXid, ReleaseXid, tables
  <2>6. ASSUME NEW s \in Sessions, NEW t \in Sessions, DeadlockVictim(s, t)
        PROVE  UNCHANGED cursor
    BY <2>6 DEF DeadlockVictim, tables
  <2> QED BY <2>1, <2>2, <2>3, <2>4, <2>5, <2>6 DEF Next
<1> QED BY <1>1, InductiveInvariant, PTL DEF Spec, CursorAdvances

\* The same, of the state a step leads to.
LEMMA FoldedIsDownClosedAfter ==
  ASSUME IInv'
  PROVE  DownClosedIn(Range(folded'), CommittedRows')
<1>1. cursor' \in Position /\ CommittedRows' \subseteq Position
  BY DEF IInv, TypeOK, TableTypeOK, LogTypeOK, CommittedRows
<1>2. ASSUME NEW q \in CommittedRows', NEW r \in Range(folded'), Before(q, r)
      PROVE  q \in Range(folded')
  <2>1. r \in CommittedRows' /\ ~Before(cursor', r)
    BY DEF IInv, NothingSkipped
  <2>2. ~Before(cursor', q)
    BY <1>1, <1>2, <2>1, BeforeIsOrder
  <2> QED BY <2>2 DEF IInv, NothingSkipped
<1> QED BY <1>2 DEF DownClosedIn

\* The operators of LogPosition mean the same inside the abstract folded log.
LEMMA AbstractBefore == \A a, b : Abstract!Before(a, b) <=> Before(a, b)
  BY DEF Abstract!Before, Before

LEMMA AbstractRange == \A f : Abstract!Range(f) = Range(f)
  BY DEF Abstract!Range, Range

LEMMA AbstractAscending == \A f : Abstract!Ascending(f) <=> Ascending(f)
  BY DEF Abstract!Ascending, Ascending, Abstract!Before, Before

LEMMA AbstractDownClosed ==
  \A f, T : Abstract!DownClosedIn(Abstract!Range(f), T) <=> DownClosedIn(Range(f), T)
  BY AbstractBefore, AbstractRange DEF Abstract!DownClosedIn, DownClosedIn

\* project_all and rebuild answer without an error only when every committed
\* event below the watermark, and every event folded before, is in the tables.
THEOREM CaughtUp == Spec => CaughtUpOnReturn
<1> DEFINE Leaves(s) == /\ task[s] \in {"project_all", "rebuild"} /\ task'[s] = "none"
                        /\ pc[s] = "select" /\ fails' = fails
           InTables == /\ ever \subseteq Range(folded)
                       /\ \A r \in CommittedRows : BelowXmin(r.xid) => r \in Range(folded)
           A == \A s \in Sessions : Leaves(s) => InTables
<1>1. ASSUME IInv, NEW s \in Sessions, NothingLeft(s) PROVE InTables
  <2>1. pc[s] = "select" /\ Candidates(s) = {}
    BY <1>1 DEF NothingLeft
  <2>2. seen[s] = cursor
    BY <1>1, <2>1 DEF IInv, CursorLocked
  <2>3. \A r \in CommittedRows : BelowXmin(r.xid) => r \in Range(folded)
    BY <1>1, <2>1, <2>2 DEF Candidates, IInv, NothingSkipped
  <2>4. ever \subseteq Range(folded)
    BY <1>1, <2>3 DEF IInv, WatermarkPassed
  <2> QED BY <2>3, <2>4
<1>2. IInv /\ [Next]_vars => [A]_vars
  <2> SUFFICES ASSUME IInv, Next, NEW s \in Sessions, Leaves(s) PROVE InTables
    OBVIOUS
  <2> USE DEF IInv, TypeOK, CallTypeOK
  <2>1. ASSUME NEW t \in Sessions, Work(t) PROVE NothingLeft(s)
    BY <2>1 DEF Work, LockCursor, SkipLocked, SelectBatch, NothingLeft, FoldEvent,
                CommitBatch, Truncate, ResetCursor, CommitReset, Return, Goto
  <2>2. ASSUME NEW t \in Sessions, Calls(t) \/ Fail(t) PROVE FALSE
    <3>1. CASE Fail(t)
      <4>1. fails \in Nat /\ fails' = fails + 1
        BY <3>1 DEF Fail
      <4> QED BY <4>1
    <3>2. CASE Calls(t)
      <4>1. PICK c \in {"run_for", "project_all", "rebuild"} :
              task' = [task EXCEPT ![t] = c]
        BY <3>2 DEF Calls, Call, CallRebuild
      <4> QED BY <4>1
    <3> QED BY <2>2, <3>1, <3>2
  <2>3. ASSUME NEW t \in Sessions, NEW u \in Sessions, DeadlockVictim(t, u) PROVE FALSE
    BY <2>3 DEF DeadlockVictim, Deadlocked, Return
  <2>4. ASSUME NEW w \in Writers, Insert(w) PROVE FALSE
    BY <2>4 DEF Insert, DrawSeq, InsertRow, CommitInsert, AbortInsert, callVars
  <2>5. ASSUME NEW b \in Bystanders, HoldXid(b) \/ ReleaseXid(b) PROVE FALSE
    BY <2>5 DEF HoldXid, ReleaseXid, callVars
  <2> QED BY <1>1, <2>1, <2>2, <2>3, <2>4, <2>5 DEF Next
<1> QED BY <1>2, InductiveInvariant, PTL DEF Spec, CaughtUpOnReturn

\* A step that leaves log and tables alone is a stutter of the folded log.
LEMMA QuietStepStutters ==
  ASSUME UNCHANGED <<logVars, folded>>
  PROVE  UNCHANGED Abstract!vars
  BY DEF Abstract!vars, CommittedRows, OpenXids, logVars

\* The projection implements the abstract folded log: every behaviour of the
\* detailed protocol shows its readers tables that are the fold of a prefix of
\* the log, growing at the end, or starting again after a rebuild.
THEOREM ProjectionRefinesFoldedLog == Spec => ImplementsFoldedLog
<1>1. Init /\ IInv => Abstract!Init
  <2> SUFFICES ASSUME Init, IInv PROVE Abstract!Init
    OBVIOUS
  <2>1. CommittedRows \subseteq Position /\ folded \in Seq(Position)
    BY DEF IInv, TypeOK, LogTypeOK, TableTypeOK, CommittedRows
  <2>2. folded \in Seq(CommittedRows)
    <3>1. \A i \in 1..Len(folded) : folded[i] \in CommittedRows
      BY <2>1 DEF IInv, NothingSkipped, Range
    <3> QED BY <2>1, <3>1
  <2>3. DownClosedIn(Range(folded), CommittedRows)
    BY FoldedIsDownClosed
  <2>4. CommittedRows \subseteq Abstract!Position
    BY <2>1 DEF Position, Abstract!Position
  <2>5. Ascending(folded)
    BY DEF IInv, FoldedOnceInOrder
  <2> QED
    BY <2>2, <2>3, <2>4, <2>5, AbstractAscending, AbstractDownClosed DEF Abstract!Init
<1>2. IInv /\ IInv' /\ [Next]_vars => [Abstract!Next]_(Abstract!vars)
  <2> SUFFICES ASSUME IInv, IInv', [Next]_vars PROVE [Abstract!Next]_(Abstract!vars)
    OBVIOUS
  <2>1. ASSUME NEW w \in Writers, Insert(w) PROVE Abstract!Appear
    <3>1. UNCHANGED folded
      BY <2>1 DEF Insert, DrawSeq, InsertRow, CommitInsert, AbortInsert, tables
    <3>2. /\ CommittedRows \subseteq CommittedRows'
          /\ \A r \in CommittedRows' \ CommittedRows : r.xid \in OpenXids
      BY <2>1, InsertEffect DEF IInv
    <3>3. ASSUME NEW r \in CommittedRows' \ CommittedRows, NEW q \in Range(folded)
          PROVE  Before(q, r)
      <4>1. BelowXmin(q.xid) /\ r.xid \in OpenXids
        BY <3>2 DEF IInv, WatermarkPassed
      <4> QED BY <4>1 DEF BelowXmin, Before
    <3> QED BY <3>1, <3>2, <3>3, AbstractBefore, AbstractRange DEF Abstract!Appear
  <2>2. ASSUME NEW s \in Sessions, CommitBatch(s) PROVE Abstract!Fold
    <3>1. /\ UNCHANGED logVars /\ folded' = folded \o done[s]
          /\ done[s] \in Seq(Position) /\ folded \in Seq(Position)
          /\ Ascending(folded')
      BY <2>2, CommitBatchEffect
    <3>2. CommittedRows' = CommittedRows
      BY <3>1, OtherEffect DEF IInv
    <3>3. Range(folded') \subseteq CommittedRows
      BY <3>2 DEF IInv, NothingSkipped
    <3>4. DownClosedIn(Range(folded'), CommittedRows)
      BY <3>2, FoldedIsDownClosedAfter DEF DownClosedIn
    <3>5. Len(folded) <= Len(folded') /\ \A i \in DOMAIN folded : folded'[i] = folded[i]
      BY <3>1
    <3> QED
      BY <3>1, <3>2, <3>3, <3>4, <3>5, AbstractRange, AbstractAscending,
         AbstractDownClosed
      DEF Abstract!Fold
  <2>3. ASSUME NEW s \in Sessions, CommitReset(s) PROVE Abstract!Reset
    <3>1. UNCHANGED logVars /\ folded' = << >>
      BY <2>3 DEF CommitReset
    <3> QED BY <3>1, OtherEffect DEF Abstract!Reset, IInv
  <2>4. ASSUME NEW s \in Sessions,
               Calls(s) \/ Fail(s) \/ (Work(s) /\ ~CommitBatch(s) /\ ~CommitReset(s))
        PROVE  UNCHANGED Abstract!vars
    <3>1. UNCHANGED <<logVars, folded>>
      BY <2>4 DEF Calls, Call, CallRebuild, Fail, Work, LockCursor, SkipLocked,
                  SelectBatch, NothingLeft, FoldEvent, Truncate, ResetCursor, tables
    <3> QED BY <3>1, QuietStepStutters
  <2>5. ASSUME NEW b \in Bystanders, HoldXid(b) \/ ReleaseXid(b)
        PROVE  UNCHANGED Abstract!vars
    BY <2>5, QuietStepStutters DEF HoldXid, ReleaseXid, tables
  <2>6. ASSUME NEW s \in Sessions, NEW t \in Sessions, DeadlockVictim(s, t)
        PROVE  UNCHANGED Abstract!vars
    BY <2>6, QuietStepStutters DEF DeadlockVictim, tables
  <2>7. CASE UNCHANGED vars
    BY <2>7, QuietStepStutters DEF vars, tables
  <2> QED
    BY <2>1, <2>2, <2>3, <2>4, <2>5, <2>6, <2>7 DEF Next, Abstract!Next
<1> QED
  BY <1>1, <1>2, InductiveInvariant, PTL DEF Spec, ImplementsFoldedLog, Abstract!Spec
==============================================================================
