---------------------------- MODULE Service_proofs ----------------------------
(***************************************************************************)
(* Theorems about the service, for any replicas and callers, any batch     *)
(* size and any number of events, shutdowns, crashes and failures; and     *)
(* about the schema a server starts on (Migrations), for any migrators,    *)
(* servers, builds and databases.                                          *)
(***************************************************************************)
EXTENDS Service, Migrations, SequenceLemmas

-------------------------------------------------------------------------------
(* The log *)

LEMMA EventsAreNumbers ==
  ASSUME TypeOK
  PROVE  /\ Events = 1..Len(from) /\ Len(from) \in Nat /\ IsFiniteSet(Events)
         /\ Events \in SUBSET Nat /\ DOMAIN log = 1..Len(log) /\ Len(log) \in Nat
<1>1. from \in Seq(Replicas) /\ log \in Seq(Row)
  BY DEF TypeOK
<1>2. Events = 1..Len(from) /\ Len(from) \in Nat
  BY <1>1 DEF Events
<1>3. IsFiniteSet(Events)
  BY <1>2, FS_Interval
<1> QED BY <1>1, <1>2, <1>3

\* A rollback takes rows of one open transaction and no committed row.
LEMMA RollBackKeepsCommitted ==
  ASSUME TypeOK, NEW r \in Replicas
  PROVE  /\ RollBack(r) \in Seq(Row)
         /\ \A i \in DOMAIN log : ~log[i].open =>
              \E n \in DOMAIN RollBack(r) : RollBack(r)[n] = log[i]
<1> DEFINE kept == {i \in DOMAIN log : ~OpenRow(r, log[i])}
<1>1. log \in Seq(Row) /\ kept \in SUBSET DOMAIN log
  BY DEF TypeOK
<1>2. RollBack(r) = Selected(log, kept)
  BY DEF RollBack
<1>3. \A i \in DOMAIN log : ~log[i].open => i \in kept
  BY DEF OpenRow
<1> HIDE DEF kept
<1>4. /\ Selected(log, kept) \in Seq(Row)
      /\ DOMAIN Selected(log, kept) = 1..Cardinality(kept)
      /\ \A i \in kept : \E n \in 1..Cardinality(kept) : Selected(log, kept)[n] = log[i]
  BY <1>1, SelectedProperties
<1> QED BY <1>2, <1>3, <1>4

\* An INSERT adds open rows behind the others.
LEMMA BeginKeepsCommitted ==
  ASSUME TypeOK, NEW r \in Replicas, BeginInsert(r)
  PROVE  /\ log' \in Seq(Row)
         /\ \A i \in DOMAIN log : i \in DOMAIN log' /\ log'[i] = log[i]
<1> DEFINE batch == InOrder(unwritten[r])
           rows == [i \in DOMAIN batch |-> [event |-> batch[i], by |-> r, open |-> TRUE]]
<1>1. log' = log \o rows /\ log \in Seq(Row)
  BY DEF BeginInsert, TypeOK
<1>2. unwritten[r] \in SUBSET Events
  BY DEF TypeOK
<1>3. unwritten[r] \in SUBSET Nat /\ IsFiniteSet(unwritten[r])
  BY <1>2, EventsAreNumbers, FS_Subset
<1>4. Cardinality(unwritten[r]) \in Nat
  BY <1>3, FS_CardinalityType
<1>5. batch \in [1..Cardinality(unwritten[r]) -> unwritten[r]]
  BY <1>3, InOrderProperties
<1> HIDE DEF batch
<1>6. rows \in [1..Cardinality(unwritten[r]) -> Row]
  BY <1>2, <1>5 DEF Row
<1> HIDE DEF rows
<1>7. rows \in Seq(Row)
  BY <1>4, <1>6
<1> QED BY <1>1, <1>7, ConcatProperties

LEMMA CommitKeepsCommitted ==
  ASSUME TypeOK, NEW r \in Replicas, log' = Commit(r)
  PROVE  /\ log' \in Seq(Row) /\ DOMAIN log' = DOMAIN log
         /\ \A i \in DOMAIN log :
              /\ log'[i].event = log[i].event
              /\ log[i].open => (log'[i].open <=> log[i].by # r)
              /\ ~log[i].open => log'[i] = log[i]
<1>1. /\ log \in Seq(Row) /\ DOMAIN log = 1..Len(log) /\ Len(log) \in Nat
      /\ \A i \in DOMAIN log : log[i] \in Row
  BY EventsAreNumbers DEF TypeOK
<1>2. log' = [i \in DOMAIN log |->
                IF OpenRow(r, log[i]) THEN [log[i] EXCEPT !.open = FALSE] ELSE log[i]]
  BY DEF Commit
<1>3. \A i \in DOMAIN log : [log[i] EXCEPT !.open = FALSE] \in Row
  BY <1>1 DEF Row
<1>4. log' \in [1..Len(log) -> Row]
  BY <1>1, <1>2, <1>3
<1>5. log' \in Seq(Row) /\ DOMAIN log' = DOMAIN log
  BY <1>1, <1>4
<1>6. ASSUME NEW i \in DOMAIN log
      PROVE  /\ log'[i].event = log[i].event
             /\ log[i].open => (log'[i].open <=> log[i].by # r)
             /\ ~log[i].open => log'[i] = log[i]
  <2>1. log[i] \in Row
    BY <1>1
  <2>2. CASE OpenRow(r, log[i])
    BY <1>2, <2>1, <2>2 DEF OpenRow, Row
  <2>3. CASE ~OpenRow(r, log[i])
    BY <1>2, <2>1, <2>3 DEF OpenRow, Row
  <2> QED BY <2>2, <2>3
<1> QED BY <1>5, <1>6

\* Committed rows stay, whatever writers, projectors, shutdowns and crashes do.
LEMMA WrittenStays ==
  ASSUME TypeOK, [Next]_vars
  PROVE  Written \subseteq Written' /\ lost \subseteq lost'
<1>1. ASSUME NEW i \in DOMAIN log, ~log[i].open
      PROVE  \E n \in DOMAIN log' : ~log'[n].open /\ log'[n].event = log[i].event
  <2>1. ASSUME NEW r \in Replicas, log' = RollBack(r)
        PROVE  \E n \in DOMAIN log' : log'[n] = log[i]
    BY <1>1, <2>1, RollBackKeepsCommitted
  <2>2. ASSUME NEW r \in Replicas, BeginInsert(r)
        PROVE  \E n \in DOMAIN log' : log'[n] = log[i]
    BY <2>2, BeginKeepsCommitted
  <2>3. ASSUME NEW r \in Replicas, log' = Commit(r)
        PROVE  \E n \in DOMAIN log' : log'[n] = log[i]
    BY <1>1, <2>3, CommitKeepsCommitted
  <2>4. ASSUME log' = log
        PROVE  \E n \in DOMAIN log' : log'[n] = log[i]
    BY <2>4
  <2>5. ASSUME NEW r \in Replicas,
               \/ Ingest(r) \/ Poll(r) \/ Shutdown(r) \/ Drained(r) \/ FinalFold(r) \/ Close(r)
               \/ ServiceStart(r)
        PROVE  log' = log
    BY <2>5 DEF Ingest, Poll, Shutdown, Drained, FinalFold, Close, ServiceStart, logVars
  <2>6. ASSUME NEW r \in Replicas, CommitInsert(r) \/ FailInsert(r) \/ DrainTimeout(r) \/ Crash(r)
        PROVE  log' = RollBack(r) \/ log' = Commit(r)
    BY <2>6 DEF CommitInsert, FailInsert, DrainTimeout, Crash, LoseWriter
  <2>7. ASSUME NEW c \in Callers, Settle(c) \/ Flushed(c) \/ PoolClosed(c)
        PROVE  log' = log
    BY <2>7 DEF Settle, Flushed, PoolClosed, logVars
  <2>8. ASSUME NEW s \in Sessions, RunFor(s)
        PROVE  log' = log
    BY <2>8 DEF RunFor, LockCursor, SkipLocked, SelectBatch, NothingLeft, CommitBatch, FailBatch,
                logVars
  <2>9. \E n \in DOMAIN log' : log'[n] = log[i]
    BY <2>1, <2>2, <2>3, <2>4, <2>5, <2>6, <2>7, <2>8 DEF Next, Insert, Stop, vars, logVars
  <2> QED BY <1>1, <2>9
<1>2. Written \subseteq Written'
  BY <1>1 DEF Written, RowsOf
<1>3. lost \subseteq lost'
  <2>1. ASSUME NEW r \in Replicas, DrainTimeout(r) \/ Crash(r)
        PROVE  lost \subseteq lost'
    BY <2>1 DEF DrainTimeout, Crash, LoseWriter
  <2>2. ASSUME NEW r \in Replicas,
               \/ Ingest(r) \/ Insert(r) \/ Poll(r) \/ Shutdown(r) \/ Drained(r) \/ FinalFold(r)
               \/ Close(r) \/ ServiceStart(r)
        PROVE  lost' = lost
    BY <2>2 DEF Ingest, Insert, BeginInsert, CommitInsert, FailInsert, Poll, Shutdown, Drained,
                FinalFold, Close, ServiceStart, logVars
  <2>3. ASSUME NEW c \in Callers, Settle(c) \/ Flushed(c) \/ PoolClosed(c)
        PROVE  lost' = lost
    BY <2>3 DEF Settle, Flushed, PoolClosed, logVars
  <2>4. ASSUME NEW s \in Sessions, RunFor(s)
        PROVE  lost' = lost
    BY <2>4 DEF RunFor, LockCursor, SkipLocked, SelectBatch, NothingLeft, CommitBatch, FailBatch,
                logVars
  <2> QED BY <2>1, <2>2, <2>3, <2>4 DEF Next, Stop, vars, logVars
<1> QED BY <1>2, <1>3

-------------------------------------------------------------------------------
(* Types *)

LEMMA SessionsAreApart ==
  /\ Replicas \subseteq Sessions /\ Callers \subseteq Sessions
  /\ \A s \in Sessions : s \in Callers <=> s \notin Replicas
  /\ \A c \in Callers : Home[c] \in Replicas /\ Of(c) = Home[c]
  BY ServiceAssumption DEF Sessions, Of

LEMMA InitIsTyped == Init => TypeOK
<1> SUFFICES ASSUME Init
             PROVE  TypeOK
  OBVIOUS
<1>1. from \in Seq(Replicas) /\ log \in Seq(Row)
  BY DEF Init
<1> QED BY <1>1 DEF Init, TypeOK

\* The steps of calls that do not touch the log.
LEMMA CallsKeepTypes ==
  ASSUME TypeOK, UNCHANGED logVars,
         \/ \E r \in Replicas : Poll(r) \/ FinalFold(r) \/ Shutdown(r) \/ Drained(r) \/ Close(r)
                                \/ ServiceStart(r)
         \/ \E c \in Callers : Settle(c) \/ Flushed(c) \/ PoolClosed(c)
         \/ \E s \in Sessions : RunFor(s)
         \/ UNCHANGED vars
  PROVE  TypeOK'
<1>1. from' = from /\ unwritten' = unwritten /\ log' = log /\ lost' = lost
  BY DEF logVars
<1>2. /\ from' \in Seq(Replicas) /\ Events' = Events /\ Row' = Row
      /\ unwritten' \in [Replicas -> SUBSET Events'] /\ log' \in Seq(Row)' /\ lost' \subseteq Events'
  BY <1>1 DEF TypeOK, Events, Row
<1>3. /\ state \in [Replicas -> {"serving", "draining", "stopping", "final", "closing", "down"}]
      /\ pc \in [Sessions -> {"idle", "flush", "lock", "select", "fold"}]
      /\ page \in [Sessions -> Nat] /\ owed \in [Sessions -> SUBSET Events]
      /\ inTime \in [Sessions -> BOOLEAN] /\ cursor \in Nat /\ stops \in Nat /\ fails \in Nat
      /\ answer \in [Sessions -> {"none", "caught_up", "contended", "budget", "error"}]
  BY DEF TypeOK
<1> DEFINE CallsTyped ==
      /\ state' \in [Replicas -> {"serving", "draining", "stopping", "final", "closing", "down"}]
      /\ pc' \in [Sessions -> {"idle", "flush", "lock", "select", "fold"}]
      /\ page' \in [Sessions -> Nat] /\ owed' \in [Sessions -> SUBSET Events]
      /\ inTime' \in [Sessions -> BOOLEAN] /\ cursor' \in Nat /\ stops' \in Nat /\ fails' \in Nat
      /\ answer' \in [Sessions -> {"none", "caught_up", "contended", "budget", "error"}]
<1>4. SUFFICES CallsTyped
  BY <1>2 DEF TypeOK
<1>5. ASSUME NEW s \in Sessions, NEW how \in {"caught_up", "contended", "budget", "error"},
             Return(s, how)
      PROVE  /\ state' \in [Replicas -> {"serving", "draining", "stopping", "final", "closing",
                                         "down"}]
             /\ pc' \in [Sessions -> {"idle", "flush", "lock", "select", "fold"}]
             /\ page' \in [Sessions -> Nat]
             /\ answer' \in [Sessions -> {"none", "caught_up", "contended", "budget", "error"}]
             /\ inTime' \in [Sessions -> BOOLEAN]
  BY <1>3, <1>5 DEF Return, Goto
<1>6. ASSUME NEW s \in Sessions, NEW why \in {"caught_up", "contended"}, SayCaughtUp(s, why)
      PROVE  owed' \in [Sessions -> SUBSET Events]
  BY <1>3, <1>6 DEF SayCaughtUp
<1>7. ASSUME NEW r \in Replicas, Poll(r) \/ FinalFold(r)
      PROVE  CallsTyped
  BY <1>3, <1>7, SessionsAreApart DEF Poll, FinalFold, Goto
<1>8. ASSUME NEW r \in Replicas, Shutdown(r) \/ Drained(r) \/ Close(r)
      PROVE  CallsTyped
  BY <1>3, <1>8 DEF Shutdown, Drained, Close, callVars
<1>9. ASSUME NEW r \in Replicas, ServiceStart(r)
      PROVE  CallsTyped
  BY <1>3, <1>9, SessionsAreApart DEF ServiceStart
<1>10. ASSUME NEW c \in Callers, Settle(c)
       PROVE  CallsTyped
  BY <1>3, <1>10, SessionsAreApart DEF Settle, Goto, Accepted
<1>11. ASSUME NEW c \in Callers, Flushed(c)
       PROVE  CallsTyped
  BY <1>3, <1>11, SessionsAreApart DEF Flushed, Goto
<1>12. ASSUME NEW c \in Callers, PoolClosed(c)
       PROVE  CallsTyped
  BY <1>3, <1>5, <1>12, SessionsAreApart DEF PoolClosed
<1>13. ASSUME NEW s \in Sessions, LockCursor(s)
       PROVE  CallsTyped
  BY <1>3, <1>13 DEF LockCursor, Goto
<1>14. ASSUME NEW s \in Sessions, SkipLocked(s) \/ NothingLeft(s)
       PROVE  CallsTyped
  BY <1>3, <1>5, <1>6, <1>14 DEF SkipLocked, NothingLeft, SayCaughtUp
<1>15. ASSUME NEW s \in Sessions, SelectBatch(s)
       PROVE  CallsTyped
  <2>1. Visible \in Nat
    <3>1. {i \in DOMAIN log : \A j \in 1..i : ~log[j].open} \in SUBSET (1..Len(log))
      BY EventsAreNumbers
    <3>2. IsFiniteSet(1..Len(log))
      BY EventsAreNumbers, FS_Interval
    <3> QED BY <3>1, <3>2, FS_Subset, FS_CardinalityType DEF Visible
  <2>2. Visible - cursor \in Nat /\ BATCH \in Nat
    BY <1>3, <1>15, <2>1, ServiceAssumption DEF SelectBatch
  <2> QED BY <1>3, <1>15, <2>2 DEF SelectBatch, Goto
<1>16. ASSUME NEW s \in Sessions, CommitBatch(s)
       PROVE  CallsTyped
  <2>1. cursor' \in Nat
    BY <1>3, <1>16 DEF CommitBatch
  <2>2. CASE Goto(s, "lock") /\ page' = [page EXCEPT ![s] = 0]
             /\ UNCHANGED <<state, inTime, answer>>
    BY <1>3, <1>16, <2>1, <2>2 DEF CommitBatch, Goto
  <2>3. CASE Return(s, "budget")
    BY <1>3, <1>5, <1>16, <2>1, <2>3 DEF CommitBatch
  <2> QED BY <1>16, <2>2, <2>3 DEF CommitBatch
<1>17. ASSUME NEW s \in Sessions, FailBatch(s)
       PROVE  CallsTyped
  BY <1>3, <1>5, <1>17 DEF FailBatch
<1>18. CASE UNCHANGED vars
  BY <1>3, <1>18 DEF vars, callVars
<1> QED BY <1>7, <1>8, <1>9, <1>10, <1>11, <1>12, <1>13, <1>14, <1>15, <1>16, <1>17, <1>18
        DEF RunFor

\* The steps that move events.
LEMMA EventsKeepTypes ==
  ASSUME TypeOK,
         NEW r \in Replicas, Ingest(r) \/ Insert(r) \/ DrainTimeout(r) \/ Crash(r)
  PROVE  TypeOK'
<1>1. /\ state \in [Replicas -> {"serving", "draining", "stopping", "final", "closing", "down"}]
      /\ from \in Seq(Replicas) /\ Events = 1..Len(from) /\ Len(from) \in Nat
      /\ unwritten \in [Replicas -> SUBSET Events] /\ log \in Seq(Row) /\ lost \subseteq Events
      /\ pc \in [Sessions -> {"idle", "flush", "lock", "select", "fold"}]
      /\ page \in [Sessions -> Nat] /\ owed \in [Sessions -> SUBSET Events]
      /\ inTime \in [Sessions -> BOOLEAN] /\ cursor \in Nat /\ stops \in Nat /\ fails \in Nat
      /\ answer \in [Sessions -> {"none", "caught_up", "contended", "budget", "error"}]
  BY EventsAreNumbers DEF TypeOK
<1>2. CASE Ingest(r)
  <2>1. /\ from' = Append(from, r) /\ log' = log /\ lost' = lost /\ state' = state
        /\ unwritten' = [unwritten EXCEPT ![r] = @ \cup {Len(from) + 1}]
        /\ UNCHANGED <<cursor, pc, page, owed, inTime, answer, stops, fails>>
    BY <1>2 DEF Ingest, callVars
  <2>2. from' \in Seq(Replicas) /\ Events' = 1..(Len(from) + 1)
    BY <1>1, <2>1 DEF Events
  <2>3. Events \subseteq Events' /\ Len(from) + 1 \in Events'
    BY <1>1, <2>2
  <2>4. Row \subseteq Row'
    BY <2>3 DEF Row
  <2>5. log' \in Seq(Row')
    BY <1>1, <2>1, <2>4, SeqMonotonic
  <2>6. unwritten' \in [Replicas -> SUBSET Events'] /\ owed' \in [Sessions -> SUBSET Events']
    BY <1>1, <2>1, <2>3
  <2> QED BY <1>1, <2>1, <2>2, <2>3, <2>5, <2>6 DEF TypeOK
<1>3. CASE Insert(r)
  <2>1. /\ from' = from /\ lost' = lost /\ state' = state
        /\ UNCHANGED <<cursor, pc, page, owed, inTime, answer, stops>>
    BY <1>3 DEF Insert, BeginInsert, CommitInsert, FailInsert, callVars
  <2>2. fails' \in Nat
    BY <1>1, <1>3 DEF Insert, BeginInsert, CommitInsert, FailInsert
  <2>3. unwritten' \in [Replicas -> SUBSET Events]
    <3>1. ASSUME CommitInsert(r)
          PROVE  unwritten' \in [Replicas -> SUBSET Events]
      BY <1>1, <3>1 DEF CommitInsert
    <3> QED BY <1>1, <1>3, <3>1 DEF Insert, BeginInsert, FailInsert
  <2>4. log' \in Seq(Row)
    BY <1>3, RollBackKeepsCommitted, BeginKeepsCommitted, CommitKeepsCommitted
       DEF Insert, CommitInsert, FailInsert
  <2>5. Events' = Events /\ Row' = Row
    BY <2>1 DEF Events, Row
  <2> QED BY <1>1, <2>1, <2>2, <2>3, <2>4, <2>5 DEF TypeOK
<1>4. CASE DrainTimeout(r) \/ Crash(r)
  <2>1. /\ from' = from /\ lost' = lost \cup unwritten[r] /\ log' \in {RollBack(r), Commit(r)}
        /\ unwritten' = [unwritten EXCEPT ![r] = {}]
        /\ UNCHANGED <<cursor, fails>>
    BY <1>4 DEF DrainTimeout, Crash, LoseWriter, callVars
  <2>2. log' \in Seq(Row)
    BY <2>1, RollBackKeepsCommitted, CommitKeepsCommitted
  <2>3. Events' = Events /\ Row' = Row
    BY <2>1 DEF Events, Row
  <2>4. CASE DrainTimeout(r)
    <3>1. /\ UNCHANGED <<pc, page, owed, inTime, answer, stops>>
          /\ state' = [state EXCEPT ![r] = "stopping"]
      BY <2>4 DEF DrainTimeout, callVars
    <3> QED BY <1>1, <3>1, <2>1, <2>2, <2>3 DEF TypeOK
  <2>5. CASE Crash(r)
    <3>1. /\ state' = [state EXCEPT ![r] = "down"] /\ stops' = stops + 1
          /\ pc' = [s \in Sessions |-> IF Of(s) = r THEN "idle" ELSE pc[s]]
          /\ page' = [s \in Sessions |-> IF Of(s) = r THEN 0 ELSE page[s]]
          /\ answer' = [s \in Sessions |-> IF Of(s) = r THEN "none" ELSE answer[s]]
          /\ owed' = [s \in Sessions |-> IF Of(s) = r THEN {} ELSE owed[s]]
          /\ inTime' = [s \in Sessions |-> Of(s) # r /\ inTime[s]]
      BY <2>5 DEF Crash
    <3>2. pc' \in [Sessions -> {"idle", "flush", "lock", "select", "fold"}]
      BY <1>1, <3>1
    <3>3. page' \in [Sessions -> Nat]
      BY <1>1, <3>1
    <3>4. answer' \in [Sessions -> {"none", "caught_up", "contended", "budget", "error"}]
      BY <1>1, <3>1
    <3>5. owed' \in [Sessions -> SUBSET Events]
      BY <1>1, <3>1
    <3>6. \A s \in Sessions : (Of(s) # r /\ inTime[s]) \in BOOLEAN
      OBVIOUS
    <3>7. inTime' \in [Sessions -> BOOLEAN]
      BY ONLY <3>1, <3>6, Zenon
    <3> QED BY <1>1, <3>1, <3>2, <3>3, <3>4, <3>5, <3>7, <2>1, <2>2, <2>3 DEF TypeOK
  <2> QED BY <1>4, <2>4, <2>5
<1> QED BY <1>2, <1>3, <1>4

LEMMA OthersKeepEvents ==
  ASSUME [Next]_vars,
         \A r \in Replicas : ~Ingest(r) /\ ~Insert(r) /\ ~DrainTimeout(r) /\ ~Crash(r)
  PROVE  /\ UNCHANGED logVars
         /\ \/ \E r \in Replicas : \/ Poll(r) \/ FinalFold(r) \/ Shutdown(r) \/ Drained(r)
                                   \/ Close(r) \/ ServiceStart(r)
            \/ \E c \in Callers : Settle(c) \/ Flushed(c) \/ PoolClosed(c)
            \/ \E s \in Sessions : RunFor(s)
            \/ UNCHANGED vars
<1>1. ASSUME NEW r \in Replicas,
             \/ Poll(r) \/ FinalFold(r) \/ Shutdown(r) \/ Drained(r) \/ Close(r) \/ ServiceStart(r)
      PROVE  UNCHANGED logVars
  BY <1>1 DEF Poll, FinalFold, Shutdown, Drained, Close, ServiceStart
<1>2. ASSUME NEW c \in Callers, Settle(c) \/ Flushed(c) \/ PoolClosed(c)
      PROVE  UNCHANGED logVars
  BY <1>2 DEF Settle, Flushed, PoolClosed
<1>3. ASSUME NEW s \in Sessions, RunFor(s)
      PROVE  UNCHANGED logVars
  BY <1>3 DEF RunFor, LockCursor, SkipLocked, SelectBatch, NothingLeft, CommitBatch, FailBatch
<1>4. CASE UNCHANGED vars
  BY <1>4 DEF vars
<1> QED BY <1>1, <1>2, <1>3, <1>4 DEF Next, Stop

LEMMA NextKeepsTypes ==
  ASSUME TypeOK, [Next]_vars
  PROVE  TypeOK'
<1>1. CASE \E r \in Replicas : Ingest(r) \/ Insert(r) \/ DrainTimeout(r) \/ Crash(r)
  BY <1>1, EventsKeepTypes
<1>2. CASE \A r \in Replicas : ~Ingest(r) /\ ~Insert(r) /\ ~DrainTimeout(r) /\ ~Crash(r)
  BY <1>2, OthersKeepEvents, CallsKeepTypes
<1> QED BY <1>1, <1>2

-------------------------------------------------------------------------------
(* Where the events are *)

LEMMA NextKeepsEvents ==
  ASSUME IInv, [Next]_vars
  PROVE  EventsKept'
<1>1. /\ TypeOK /\ EventsKept /\ TypeOK'
      /\ Written \subseteq Written' /\ lost \subseteq lost'
  BY NextKeepsTypes, WrittenStays DEF IInv
<1>2. /\ from \in Seq(Replicas) /\ Events = 1..Len(from) /\ Len(from) \in Nat
      /\ unwritten \in [Replicas -> SUBSET Events] /\ \A e \in Events : from[e] \in Replicas
      /\ \A e \in Events : e \in unwritten[from[e]] \cup Written \cup lost
  BY <1>1, EventsAreNumbers DEF TypeOK, EventsKept
<1>3. ASSUME NEW r \in Replicas, Ingest(r)
      PROVE  EventsKept'
  <2>1. /\ from' = Append(from, r)
        /\ unwritten' = [unwritten EXCEPT ![r] = @ \cup {Len(from) + 1}]
    BY <1>3 DEF Ingest
  <2>2. /\ Events' = 1..(Len(from) + 1) /\ from'[Len(from) + 1] = r
        /\ \A e \in Events : from'[e] = from[e]
    BY <1>2, <2>1 DEF Events
  <2>3. Len(from) + 1 \in unwritten'[r] /\ \A q \in Replicas : unwritten[q] \subseteq unwritten'[q]
    BY <1>2, <2>1
  <2>4. ASSUME NEW e \in Events'
        PROVE  e \in unwritten'[from'[e]] \cup Written' \cup lost'
    <3>1. CASE e = Len(from) + 1
      BY <2>2, <2>3, <3>1
    <3>2. CASE e \in Events
      BY <1>1, <1>2, <2>2, <2>3, <3>2
    <3> QED BY <1>2, <2>2, <2>4, <3>1, <3>2
  <2> QED BY <2>4 DEF EventsKept
<1>4. ASSUME NEW r \in Replicas, CommitInsert(r)
      PROVE  EventsKept'
  <2>1. /\ from' = from
        /\ unwritten' = [unwritten EXCEPT ![r] =
             @ \ {log[i].event : i \in {j \in DOMAIN log : OpenRow(r, log[j])}}]
    BY <1>4 DEF CommitInsert
  <2>2. ASSUME NEW i \in DOMAIN log, OpenRow(r, log[i])
        PROVE  log[i].event \in Written'
    <3>1. i \in DOMAIN log' /\ ~log'[i].open /\ log'[i].event = log[i].event
      BY <1>1, <1>4, <2>2, CommitKeepsCommitted DEF CommitInsert, OpenRow
    <3> QED BY <3>1 DEF Written, RowsOf
  <2>3. \A q \in Replicas : unwritten[q] \subseteq unwritten'[q] \cup Written'
    BY <1>2, <2>1, <2>2
  <2>4. Events' = Events
    BY <2>1 DEF Events
  <2> QED BY <1>1, <1>2, <2>1, <2>3, <2>4 DEF EventsKept
<1>5. ASSUME NEW r \in Replicas, DrainTimeout(r) \/ Crash(r)
      PROVE  EventsKept'
  <2>1. /\ from' = from /\ lost' = lost \cup unwritten[r]
        /\ unwritten' = [unwritten EXCEPT ![r] = {}]
    BY <1>5 DEF DrainTimeout, Crash, LoseWriter
  <2>2. \A q \in Replicas : unwritten[q] \subseteq unwritten'[q] \cup lost'
    BY <1>2, <2>1
  <2>3. Events' = Events
    BY <2>1 DEF Events
  <2> QED BY <1>1, <1>2, <2>1, <2>2, <2>3 DEF EventsKept
<1>6. CASE UNCHANGED <<from, unwritten>>
  <2>1. Events' = Events
    BY <1>6 DEF Events
  <2> QED BY <1>1, <1>2, <1>6, <2>1 DEF EventsKept
<1>7. ASSUME NEW r \in Replicas, BeginInsert(r) \/ FailInsert(r)
      PROVE  UNCHANGED <<from, unwritten>>
  BY <1>7 DEF BeginInsert, FailInsert
<1>8. CASE \A r \in Replicas : ~Ingest(r) /\ ~Insert(r) /\ ~DrainTimeout(r) /\ ~Crash(r)
  <2>1. UNCHANGED logVars
    BY <1>8, OthersKeepEvents
  <2> QED BY <1>6, <2>1 DEF logVars
<1> QED BY <1>3, <1>4, <1>5, <1>6, <1>7, <1>8 DEF Insert

LEMMA NextKeepsDrained ==
  ASSUME IInv, [Next]_vars
  PROVE  DrainedIsEmpty'
<1>1. TypeOK /\ DrainedIsEmpty
  BY DEF IInv
<1>2. /\ state \in [Replicas -> {"serving", "draining", "stopping", "final", "closing", "down"}]
      /\ unwritten \in [Replicas -> SUBSET Events]
      /\ \A r \in Replicas :
           state[r] \in {"stopping", "final", "closing", "down"} => unwritten[r] = {}
  BY <1>1 DEF TypeOK, DrainedIsEmpty
<1>3. ASSUME NEW r \in Replicas, Ingest(r)
      PROVE  DrainedIsEmpty'
  BY <1>2, <1>3 DEF Ingest, DrainedIsEmpty
<1>4. ASSUME NEW r \in Replicas, Insert(r)
      PROVE  DrainedIsEmpty'
  <2>1. state' = state /\ \A q \in Replicas : unwritten'[q] \subseteq unwritten[q]
    BY <1>2, <1>4 DEF Insert, BeginInsert, CommitInsert, FailInsert
  <2> QED BY <1>2, <2>1 DEF DrainedIsEmpty
<1>5. ASSUME NEW r \in Replicas, DrainTimeout(r) \/ Crash(r)
      PROVE  DrainedIsEmpty'
  <2>1. /\ \A q \in Replicas : q # r => state'[q] = state[q] /\ unwritten'[q] = unwritten[q]
        /\ unwritten'[r] = {}
    BY <1>2, <1>5 DEF DrainTimeout, Crash, LoseWriter
  <2> QED BY <1>2, <2>1 DEF DrainedIsEmpty
<1>6. ASSUME NEW r \in Replicas, Drained(r)
      PROVE  DrainedIsEmpty'
  BY <1>2, <1>6 DEF Drained, DrainedIsEmpty, logVars
<1>7. ASSUME NEW r \in Replicas, \/ Poll(r) \/ Shutdown(r) \/ FinalFold(r) \/ Close(r)
                                 \/ ServiceStart(r)
      PROVE  DrainedIsEmpty'
  <2>1. unwritten' = unwritten
    BY <1>7 DEF Poll, Shutdown, FinalFold, Close, ServiceStart, logVars
  <2>2. \A q \in Replicas : state'[q] \in {"stopping", "final", "closing", "down"}
           => state[q] \in {"stopping", "final", "closing", "down"}
    BY <1>2, <1>7 DEF Poll, Shutdown, FinalFold, Close, ServiceStart
  <2> QED BY <1>2, <2>1, <2>2 DEF DrainedIsEmpty
<1>8. ASSUME NEW s, NEW how, Return(s, how), unwritten' = unwritten
      PROVE  DrainedIsEmpty'
  <2>1. \A q \in Replicas : state'[q] \in {"stopping", "final", "closing", "down"}
           => state[q] \in {"stopping", "final", "closing", "down"}
    BY <1>8 DEF Return
  <2> QED BY <1>2, <1>8, <2>1 DEF DrainedIsEmpty
<1>9. ASSUME UNCHANGED <<state, unwritten>>
      PROVE  DrainedIsEmpty'
  BY <1>2, <1>9 DEF DrainedIsEmpty
<1>10. ASSUME NEW c \in Callers, Settle(c) \/ Flushed(c) \/ PoolClosed(c)
       PROVE  DrainedIsEmpty'
  BY <1>8, <1>9, <1>10 DEF Settle, Flushed, PoolClosed, logVars
<1>11. ASSUME NEW s \in Sessions, RunFor(s)
       PROVE  DrainedIsEmpty'
  BY <1>8, <1>9, <1>11 DEF RunFor, LockCursor, SkipLocked, SelectBatch, NothingLeft, CommitBatch,
                           FailBatch, SayCaughtUp, logVars
<1>12. CASE UNCHANGED vars
  BY <1>9, <1>12 DEF vars, logVars
<1> QED BY <1>3, <1>4, <1>5, <1>6, <1>7, <1>10, <1>11, <1>12 DEF Next, Stop

-------------------------------------------------------------------------------
(* What calls owe *)

LEMMA AcceptedStays ==
  ASSUME TypeOK, [Next]_vars, NEW r \in Replicas
  PROVE  Accepted(r) \subseteq Accepted(r)'
<1>1. ASSUME NEW q \in Replicas, Ingest(q)
      PROVE  Accepted(r) \subseteq Accepted(r)'
  <2>1. from' = Append(from, q) /\ from \in Seq(Replicas)
    BY <1>1 DEF Ingest, TypeOK
  <2> QED BY <2>1 DEF Accepted, Events
<1>2. CASE from' = from
  BY <1>2 DEF Accepted, Events
<1>3. ASSUME NEW q \in Replicas, Insert(q) \/ DrainTimeout(q) \/ Crash(q)
      PROVE  from' = from
  BY <1>3 DEF Insert, BeginInsert, CommitInsert, FailInsert, DrainTimeout, Crash, LoseWriter
<1>4. CASE \A q \in Replicas : ~Ingest(q) /\ ~Insert(q) /\ ~DrainTimeout(q) /\ ~Crash(q)
  BY <1>2, <1>4, OthersKeepEvents DEF logVars
<1> QED BY <1>1, <1>2, <1>3, <1>4

\* A writer that holds nothing has written what it accepted, or lost it.
LEMMA EmptyIsWritten ==
  ASSUME EventsKept, NEW r \in Replicas, unwritten[r] = {}
  PROVE  Accepted(r) \subseteq Written \cup lost
BY DEF EventsKept, Accepted

LEMMA NextKeepsCalls ==
  ASSUME IInv, [Next]_vars
  PROVE  CallsInStep'
<1> SUFFICES ASSUME NEW c \in Callers
             PROVE  CallInStep(c)'
  BY DEF CallsInStep
<1>1. /\ TypeOK /\ EventsKept /\ CallInStep(c)
      /\ Written \subseteq Written' /\ lost \subseteq lost'
      /\ c \in Sessions /\ c \notin Replicas /\ Home[c] \in Replicas /\ Of(c) = Home[c]
  BY WrittenStays, SessionsAreApart DEF IInv, CallsInStep
<1>2. Accepted(Home[c]) \subseteq Accepted(Home[c])'
  BY <1>1, AcceptedStays
<1>3. /\ pc \in [Sessions -> {"idle", "flush", "lock", "select", "fold"}]
      /\ owed \in [Sessions -> SUBSET Events] /\ inTime \in [Sessions -> BOOLEAN]
      /\ answer \in [Sessions -> {"none", "caught_up", "contended", "budget", "error"}]
  BY <1>1 DEF TypeOK
<1>4. CASE /\ pc'[c] = pc[c] /\ owed'[c] = owed[c]
           /\ inTime'[c] = inTime[c] /\ answer'[c] = answer[c]
  BY <1>1, <1>2, <1>4 DEF CallInStep
<1>5. CASE pc'[c] = "idle"
  BY <1>5 DEF CallInStep
<1>6. CASE /\ pc[c] \in {"lock", "select", "fold"} /\ pc'[c] \in {"lock", "select", "fold"}
           /\ owed'[c] = owed[c] /\ inTime'[c] = inTime[c] /\ answer'[c] = answer[c]
  BY <1>1, <1>6 DEF CallInStep
<1>7. ASSUME NEW s \in Sessions, NEW how, Return(s, how),
             \A t \in Sessions \ {s} : owed'[t] = owed[t]
      PROVE  CallInStep(c)'
  <2>1. CASE s = c
    BY <1>1, <1>3, <1>5, <1>7, <2>1 DEF Return, Goto
  <2>2. CASE s # c
    BY <1>1, <1>3, <1>4, <1>7, <2>2 DEF Return, Goto
  <2> QED BY <2>1, <2>2
<1>8. ASSUME NEW r \in Replicas,
             \/ Ingest(r) \/ Insert(r) \/ Shutdown(r) \/ Drained(r) \/ DrainTimeout(r) \/ Close(r)
      PROVE  CallInStep(c)'
  BY <1>4, <1>8 DEF Ingest, Insert, BeginInsert, CommitInsert, FailInsert, Shutdown, Drained,
                    DrainTimeout, Close, callVars
<1>9. ASSUME NEW r \in Replicas, Poll(r) \/ FinalFold(r) \/ ServiceStart(r)
      PROVE  CallInStep(c)'
  BY <1>1, <1>3, <1>4, <1>9 DEF Poll, FinalFold, ServiceStart, Goto
<1>10. ASSUME NEW r \in Replicas, Crash(r)
       PROVE  CallInStep(c)'
  <2>1. CASE Of(c) = r
    BY <1>1, <1>5, <1>10, <2>1 DEF Crash
  <2>2. CASE Of(c) # r
    <3>1. /\ pc'[c] = pc[c] /\ owed'[c] = owed[c] /\ answer'[c] = answer[c]
      BY <1>1, <1>10, <2>2 DEF Crash
    <3>2. inTime'[c] = inTime[c]
      BY <1>1, <1>3, <1>10, <2>2 DEF Crash
    <3> QED BY <1>4, <3>1, <3>2
  <2> QED BY <2>1, <2>2
<1>11. ASSUME NEW d \in Callers, Settle(d)
       PROVE  CallInStep(c)'
  <2>1. CASE d = c
    <3>1. /\ pc'[c] = "flush" /\ owed'[c] = Accepted(Home[c]) /\ answer'[c] = "none"
      BY <1>1, <1>3, <1>11, <2>1 DEF Settle, Goto
    <3> QED BY <1>2, <3>1 DEF CallInStep
  <2>2. CASE d # c
    BY <1>1, <1>3, <1>4, <1>11, <2>2 DEF Settle, Goto
  <2> QED BY <2>1, <2>2
<1>12. ASSUME NEW d \in Callers, Flushed(d)
       PROVE  CallInStep(c)'
  <2>1. CASE d = c
    <3>1. /\ pc[c] = "flush" /\ pc'[c] = "lock" /\ owed'[c] = owed[c] /\ answer'[c] = answer[c]
          /\ inTime'[c] => unwritten[Home[c]] = {}
      BY <1>1, <1>3, <1>12, <2>1 DEF Flushed, Goto
    <3>2. inTime'[c] => owed[c] \subseteq Written \cup lost
      BY <1>1, <3>1, EmptyIsWritten DEF CallInStep
    <3> QED BY <1>1, <3>1, <3>2 DEF CallInStep
  <2>2. CASE d # c
    BY <1>1, <1>3, <1>4, <1>12, <2>2 DEF Flushed, Goto
  <2> QED BY <2>1, <2>2
<1>13. ASSUME NEW d \in Callers, PoolClosed(d)
       PROVE  CallInStep(c)'
  BY <1>7, <1>13, SessionsAreApart DEF PoolClosed
<1>14. ASSUME NEW s \in Sessions, LockCursor(s) \/ SelectBatch(s)
       PROVE  CallInStep(c)'
  <2>1. /\ owed' = owed /\ inTime' = inTime /\ answer' = answer
        /\ pc[s] \in {"lock", "select"} /\ \E step \in {"select", "fold"} : Goto(s, step)
    BY <1>14 DEF LockCursor, SelectBatch
  <2> QED BY <1>1, <1>3, <1>4, <1>6, <2>1 DEF Goto
<1>15. ASSUME NEW s \in Sessions, SkipLocked(s) \/ NothingLeft(s)
       PROVE  CallInStep(c)'
  <2>1. /\ \E how : Return(s, how)
        /\ owed' = [owed EXCEPT ![s] = @ \cap RowsOf(1..Visible)]
    BY <1>15 DEF SkipLocked, NothingLeft, SayCaughtUp
  <2> QED BY <1>3, <1>7, <2>1
<1>16. ASSUME NEW s \in Sessions, CommitBatch(s)
       PROVE  CallInStep(c)'
  <2>1. pc[s] = "fold" /\ owed' = owed
    BY <1>16 DEF CommitBatch
  <2>2. CASE Goto(s, "lock") /\ inTime' = inTime /\ answer' = answer
    BY <1>1, <1>3, <1>4, <1>6, <2>1, <2>2 DEF Goto
  <2>3. CASE Return(s, "budget")
    BY <1>7, <2>1, <2>3
  <2> QED BY <1>16, <2>2, <2>3 DEF CommitBatch
<1>17. ASSUME NEW s \in Sessions, FailBatch(s)
       PROVE  CallInStep(c)'
  BY <1>7, <1>17 DEF FailBatch
<1>18. CASE UNCHANGED vars
  BY <1>4, <1>18 DEF vars, callVars
<1> QED BY <1>8, <1>9, <1>10, <1>11, <1>12, <1>13, <1>14, <1>15, <1>16, <1>17, <1>18
        DEF Next, Stop, RunFor

-------------------------------------------------------------------------------
(* The theorems *)

\* The invariant behind the service's promises: accepted events are with a
\* writer, in a committed row or lost, a writer past its drain is empty, and what
\* a settle waits for is written once its wait is over.
THEOREM InductiveInvariant == Spec => []IInv
<1>1. Init => IInv
  <2> SUFFICES ASSUME Init
               PROVE  IInv
    OBVIOUS
  <2>1. TypeOK
    BY InitIsTyped
  <2>2. Events = {}
    BY DEF Init, Events
  <2>3. EventsKept /\ DrainedIsEmpty
    BY <2>2 DEF Init, EventsKept, DrainedIsEmpty
  <2>4. CallsInStep
    BY SessionsAreApart DEF Init, CallsInStep, CallInStep
  <2> QED BY <2>1, <2>3, <2>4 DEF IInv
<1>2. IInv /\ [Next]_vars => IInv'
  <2> SUFFICES ASSUME IInv, [Next]_vars
               PROVE  IInv'
    OBVIOUS
  <2>1. TypeOK
    BY DEF IInv
  <2> QED BY <2>1, NextKeepsTypes, NextKeepsEvents, NextKeepsDrained, NextKeepsCalls DEF IInv
<1> QED BY <1>1, <1>2, PTL DEF Spec

\* A session is told caught_up by an empty page only: the rows behind it are
\* folded or wait for an open transaction.
LEMMA CaughtUpIsNothingLeft ==
  ASSUME TypeOK, [Next]_vars, NEW s \in Sessions, answer[s] # answer'[s],
         answer'[s] = "caught_up"
  PROVE  NothingLeft(s)
<1>1. answer \in [Sessions -> {"none", "caught_up", "contended", "budget", "error"}]
  BY DEF TypeOK
<1>2. ASSUME NEW t \in Sessions, NEW how, Return(t, how)
      PROVE  s = t /\ how = "caught_up"
  BY <1>1, <1>2 DEF Return
<1>3. ASSUME NEW r \in Replicas,
             \/ Ingest(r) \/ Insert(r) \/ Poll(r) \/ Shutdown(r) \/ Stop(r) \/ Crash(r)
             \/ ServiceStart(r)
      PROVE  FALSE
  BY <1>1, <1>3, SessionsAreApart
     DEF Ingest, Insert, BeginInsert, CommitInsert, FailInsert, Poll, Shutdown, Stop, Drained,
         DrainTimeout, FinalFold, Close, Crash, ServiceStart, callVars
<1>4. ASSUME NEW c \in Callers, Settle(c) \/ Flushed(c)
      PROVE  FALSE
  BY <1>1, <1>4 DEF Settle, Flushed
<1>5. ASSUME NEW c \in Callers, PoolClosed(c)
      PROVE  FALSE
  BY <1>2, <1>5, SessionsAreApart DEF PoolClosed
<1>6. ASSUME NEW t \in Sessions, LockCursor(t) \/ SelectBatch(t)
      PROVE  FALSE
  BY <1>6 DEF LockCursor, SelectBatch
<1>7. ASSUME NEW t \in Sessions, SkipLocked(t) \/ CommitBatch(t) \/ FailBatch(t)
      PROVE  FALSE
  BY <1>2, <1>7 DEF SkipLocked, CommitBatch, FailBatch, SayCaughtUp
<1>8. ASSUME NEW t \in Sessions, NothingLeft(t)
      PROVE  s = t
  BY <1>2, <1>8 DEF NothingLeft, SayCaughtUp
<1>9. CASE UNCHANGED vars
  BY <1>9 DEF vars, callVars
<1> QED BY <1>3, <1>4, <1>5, <1>6, <1>7, <1>8, <1>9 DEF Next, RunFor

LEMMA NothingLeftIsFolded ==
  ASSUME TypeOK, NEW s \in Sessions, NothingLeft(s)
  PROVE  Written \cup lost \subseteq Folded' \cup Blocked' \cup lost'
<1>1. cursor = Visible /\ log' = log /\ cursor' = cursor /\ lost' = lost
  BY DEF NothingLeft, logVars
<1>2. Folded' = Folded /\ Blocked' = Blocked
  BY <1>1 DEF Folded, Blocked, RowsOf, Visible
<1>3. \A i \in DOMAIN log : i \in 1..cursor \/ i \in (Visible + 1)..Len(log)
  BY <1>1, EventsAreNumbers DEF TypeOK
<1>4. Written \subseteq Folded \cup Blocked
  BY <1>3 DEF Written, Folded, Blocked, RowsOf
<1> QED BY <1>1, <1>2, <1>4

\* A settle whose flush ended in time and that found an empty page leaves no
\* event unfolded that its replica had accepted before it, except behind an open
\* transaction: run_projection and Settler::settle mean what they say.
THEOREM SettleFolds == Spec => SettledIsFolded
<1>1. IInv /\ [Next]_vars
        => [\A c \in Callers : pc[c] # "idle" /\ answer'[c] = "caught_up" /\ inTime[c]
              => owed[c] \subseteq Folded' \cup Blocked' \cup lost']_vars
  <2> SUFFICES ASSUME IInv, [Next]_vars, NEW c \in Callers,
                      pc[c] # "idle", answer'[c] = "caught_up", inTime[c]
               PROVE  owed[c] \subseteq Folded' \cup Blocked' \cup lost'
    OBVIOUS
  <2>1. TypeOK /\ CallInStep(c) /\ c \in Sessions
    BY SessionsAreApart DEF IInv, CallsInStep
  <2>2. NothingLeft(c)
    BY <2>1, CaughtUpIsNothingLeft DEF CallInStep
  <2>3. owed[c] \subseteq Written \cup lost
    BY <2>1, <2>2 DEF CallInStep, NothingLeft
  <2> QED BY <2>1, <2>2, <2>3, NothingLeftIsFolded
<1> QED BY <1>1, InductiveInvariant, PTL DEF Spec, SettledIsFolded

LEMMA ClosingIsReturned ==
  ASSUME TypeOK, [Next]_vars, NEW r \in Replicas, state[r] = "final", state'[r] = "closing",
         answer'[r] = "caught_up"
  PROVE  NothingLeft(r)
<1>1. /\ answer \in [Sessions -> {"none", "caught_up", "contended", "budget", "error"}]
      /\ state \in [Replicas -> {"serving", "draining", "stopping", "final", "closing", "down"}]
      /\ r \in Sessions
  BY SessionsAreApart DEF TypeOK
<1>2. ASSUME NEW t \in Sessions, NEW how, Return(t, how)
      PROVE  r = t /\ how = "caught_up"
  BY <1>1, <1>2 DEF Return
<1>3. ASSUME NEW q \in Replicas,
             \/ Ingest(q) \/ Insert(q) \/ Poll(q) \/ Shutdown(q) \/ Stop(q) \/ Crash(q)
             \/ ServiceStart(q)
      PROVE  FALSE
  BY <1>1, <1>3
     DEF Ingest, Insert, BeginInsert, CommitInsert, FailInsert, Poll, Shutdown, Stop, Drained,
         DrainTimeout, FinalFold, Close, Crash, ServiceStart
<1>4. ASSUME NEW c \in Callers, Settle(c) \/ Flushed(c)
      PROVE  FALSE
  BY <1>1, <1>4 DEF Settle, Flushed
<1>5. ASSUME NEW c \in Callers, PoolClosed(c)
      PROVE  FALSE
  BY <1>2, <1>5, SessionsAreApart DEF PoolClosed
<1>6. ASSUME NEW t \in Sessions, LockCursor(t) \/ SelectBatch(t)
      PROVE  FALSE
  BY <1>6 DEF LockCursor, SelectBatch
<1>7. ASSUME NEW t \in Sessions, SkipLocked(t) \/ CommitBatch(t) \/ FailBatch(t)
      PROVE  FALSE
  BY <1>2, <1>7 DEF SkipLocked, CommitBatch, FailBatch, SayCaughtUp
<1>8. ASSUME NEW t \in Sessions, NothingLeft(t)
      PROVE  r = t
  BY <1>2, <1>8 DEF NothingLeft, SayCaughtUp
<1>9. CASE UNCHANGED vars
  BY <1>9 DEF vars
<1> QED BY <1>3, <1>4, <1>5, <1>6, <1>7, <1>8, <1>9 DEF Next, RunFor

\* Service::shutdown drains the writer before the final fold: a replica whose
\* final fold found an empty page leaves none of its events unfolded, except
\* behind an open transaction or when its drain lost them.
THEOREM StopFolds == Spec => StoppedIsFolded
<1>1. IInv /\ [Next]_vars
        => [\A r \in Replicas :
              state[r] = "final" /\ state'[r] = "closing" /\ answer'[r] = "caught_up"
                => Accepted(r) \subseteq Folded' \cup Blocked' \cup lost']_vars
  <2> SUFFICES ASSUME IInv, [Next]_vars, NEW r \in Replicas,
                      state[r] = "final", state'[r] = "closing", answer'[r] = "caught_up"
               PROVE  Accepted(r) \subseteq Folded' \cup Blocked' \cup lost'
    OBVIOUS
  <2>1. TypeOK /\ EventsKept /\ unwritten[r] = {} /\ r \in Sessions
    BY SessionsAreApart DEF IInv, DrainedIsEmpty
  <2>2. NothingLeft(r)
    BY <2>1, ClosingIsReturned
  <2>3. Accepted(r) \subseteq Written \cup lost
    BY <2>1, EmptyIsWritten
  <2> QED BY <2>1, <2>2, <2>3, NothingLeftIsFolded
<1> QED BY <1>1, InductiveInvariant, PTL DEF Spec, StoppedIsFolded

-------------------------------------------------------------------------------
(* The schema a server starts on *)

\* A build whose check passes finds exactly its own migrations.
LEMMA CheckedIsBuild ==
  ASSUME MigrationsTypeOK, NEW p \in Processes, check_applied(Build[p])
  PROVE  db.applied = Build[p] /\ ~ db.dirty
<1>1. /\ db.applied \in Seq(Checksums) /\ Build[p] \in Seq(Checksums)
      /\ DOMAIN db.applied = 1..Len(db.applied) /\ DOMAIN Build[p] = 1..Len(Build[p])
      /\ Len(db.applied) \in Nat /\ Len(Build[p]) \in Nat
  BY MigrationsAssumption DEF MigrationsTypeOK, Database
<1>2. Len(db.applied) = Len(Build[p])
  <2>1. Len(db.applied) <= Len(Build[p]) /\ DOMAIN Build[p] \subseteq DOMAIN db.applied
    BY DEF check_applied, Known, Pending
  <2>2. Len(Build[p]) = 0 \/ Len(Build[p]) \in 1..Len(db.applied)
    BY <1>1, <2>1
  <2> QED BY <1>1, <2>1, <2>2
<1>3. \A v \in 1..Len(Build[p]) : db.applied[v] = Build[p][v]
  BY <1>1, <1>2 DEF check_applied, Drifted
<1>4. db.applied = Build[p]
  BY <1>1, <1>2, <1>3, SeqEqual
<1> QED BY <1>4 DEF check_applied

LEMMA MigrationsInitHolds == MigrationsInit => MigrationsIInv
<1> SUFFICES ASSUME MigrationsInit
             PROVE  MigrationsIInv
  OBVIOUS
<1>1. MigrationsTypeOK
  BY MigrationsAssumption DEF MigrationsInit, MigrationsTypeOK
<1> QED BY <1>1 DEF MigrationsInit, MigrationsIInv, LockHeld, FindingIsFresh, Processes

LEMMA MigrationsNextHolds == MigrationsIInv /\ [MigrationsNext]_migrationsVars => MigrationsIInv'
<1> SUFFICES ASSUME MigrationsIInv, [MigrationsNext]_migrationsVars
             PROVE  MigrationsIInv'
  OBVIOUS
<1> USE DEF MigrationsIInv
<1>1. /\ Migrators \subseteq Processes /\ Servers \subseteq Processes
      /\ Migrators \cap Servers = {} /\ Null \notin Processes
  BY MigrationsAssumption DEF Processes
<1>2. db \in Database /\ db.applied \in Seq(Checksums)
  BY DEF MigrationsTypeOK, Database
<1>3. ASSUME NEW m \in Migrators, MigrateLock(m)
      PROVE  MigrationsIInv'
  BY <1>1, <1>3 DEF MigrateLock, Acquire, MoveTo, MigrationsTypeOK, LockHeld, FindingIsFresh
<1>4. ASSUME NEW m \in Migrators, MigrateValidate(m)
      PROVE  MigrationsIInv'
  <2>1. db' \in Database
    BY <1>4 DEF MigrateValidate, MigrationsTypeOK, Database
  <2>2. lock = m /\ \A s \in Servers : stage[s] # "current"
    BY <1>1, <1>4 DEF MigrateValidate, LockHeld
  <2> QED BY <1>1, <1>4, <2>1, <2>2
          DEF MigrateValidate, Release, MoveTo, MigrationsTypeOK, LockHeld, FindingIsFresh
<1>5. ASSUME NEW m \in Migrators, ApplyNext(m)
      PROVE  MigrationsIInv'
  <2>1. db' \in Database
    <3>1. Build[m] \in Seq(Checksums)
      BY <1>1, MigrationsAssumption
    <3>2. PICK v \in DOMAIN Build[m] : v \notin DOMAIN db.applied
      BY <1>5 DEF ApplyNext, Pending
    <3>3. Len(db.applied) + 1 \in DOMAIN Build[m]
      BY <1>2, <3>1, <3>2
    <3>4. Append(db.applied, Build[m][Len(db.applied) + 1]) \in Seq(Checksums)
      BY <1>2, <3>1, <3>3
    <3> QED BY <1>2, <1>5, <3>4 DEF ApplyNext, Database
  <2>2. lock = m /\ \A s \in Servers : stage[s] # "current"
    BY <1>1, <1>5 DEF ApplyNext, LockHeld
  <2> QED BY <1>5, <2>1, <2>2 DEF ApplyNext, MigrationsTypeOK, LockHeld, FindingIsFresh
<1>6. ASSUME NEW m \in Migrators, MigrateDone(m) \/ MigrateAgain(m)
      PROVE  MigrationsIInv'
  BY <1>1, <1>6 DEF MigrateDone, MigrateAgain, Release, MoveTo, MigrationsTypeOK, LockHeld, FindingIsFresh
<1>7. ASSUME NEW s \in Servers, Probe(s) \/ CheckLock(s) \/ Restart(s)
      PROVE  MigrationsIInv'
  BY <1>1, <1>7 DEF Probe, CheckLock, Restart, Acquire, MoveTo, MigrationsTypeOK, LockHeld, FindingIsFresh
<1>8. ASSUME NEW s \in Servers, Check(s)
      PROVE  MigrationsIInv'
  <2>1. check_applied(Build[s]) => db.applied = Build[s] /\ ~ db.dirty
    BY <1>1, CheckedIsBuild
  <2> QED BY <1>1, <1>8, <2>1 DEF Check, MoveTo, MigrationsTypeOK, LockHeld, FindingIsFresh
<1>9. ASSUME NEW s \in Servers, Unlock(s)
      PROVE  MigrationsIInv'
  BY <1>1, <1>9 DEF Unlock, Release, MoveTo, MigrationsTypeOK, LockHeld, FindingIsFresh
<1>10. ASSUME NEW p \in Processes, ProcessEnds(p)
       PROVE  MigrationsIInv'
  BY <1>1, <1>10 DEF ProcessEnds, Release, MoveTo, MigrationsTypeOK, LockHeld, FindingIsFresh
<1>11. CASE UNCHANGED migrationsVars
  BY <1>11 DEF migrationsVars, MigrationsTypeOK, LockHeld, FindingIsFresh
<1> QED BY <1>3, <1>4, <1>5, <1>6, <1>7, <1>8, <1>9, <1>10, <1>11 DEF MigrationsNext, Migrate, Serve

\* The advisory lock excludes: between its check and its start no migrator
\* writes, whatever crashes.
THEOREM MigrationsInvariant == MigrationsSpec => []MigrationsIInv
<1> QED BY MigrationsInitHolds, MigrationsNextHolds, PTL DEF MigrationsSpec

\* The step by which a server starts.
LEMMA OnlyUnlockServes ==
  ASSUME MigrationsIInv, [MigrationsNext]_migrationsVars, NEW s \in Servers, stage[s] # "serving", stage'[s] = "serving"
  PROVE  Unlock(s) /\ stage[s] = "current"
<1>1. /\ stage \in [Processes -> {"start", "locked", "applying", "done", "refused", "wait",
                                  "check", "current", "outdated", "serving"}]
      /\ Migrators \subseteq Processes /\ Servers \subseteq Processes
  BY DEF MigrationsIInv, MigrationsTypeOK, Processes
<1>2. ASSUME NEW m \in Migrators, MigrateLock(m) \/ Migrate(m) \/ MigrateAgain(m)
      PROVE  FALSE
  BY <1>1, <1>2 DEF MigrateLock, Migrate, MigrateValidate, ApplyNext, MigrateDone, MigrateAgain,
                    MoveTo
<1>3. ASSUME NEW t \in Servers, Probe(t) \/ CheckLock(t) \/ Check(t) \/ Restart(t)
      PROVE  FALSE
  BY <1>1, <1>3 DEF Probe, CheckLock, Check, Restart, MoveTo
<1>4. ASSUME NEW p \in Processes, ProcessEnds(p)
      PROVE  FALSE
  BY <1>1, <1>4 DEF ProcessEnds, MoveTo
<1>5. ASSUME NEW t \in Servers, Unlock(t)
      PROVE  t = s /\ stage[s] = "current"
  BY <1>1, <1>5 DEF Unlock, MoveTo
<1> QED BY <1>2, <1>3, <1>4, <1>5 DEF MigrationsNext, Serve, migrationsVars

\* "a server that starts is guaranteed to be on exactly the schema its binary
\* expects", at the step by which it starts.
THEOREM ServersStartOnTheirSchema == MigrationsSpec => StartsOnExactlyItsSchema
<1>1. ASSUME MigrationsIInv, [MigrationsNext]_migrationsVars, NEW s \in Servers, stage[s] # "serving", stage'[s] = "serving"
      PROVE  db'.applied = Build[s] /\ ~ db'.dirty
  <2>1. Unlock(s) /\ stage[s] = "current"
    BY <1>1, OnlyUnlockServes
  <2>2. db' = db
    BY <2>1 DEF Unlock
  <2> QED BY <1>1, <2>1, <2>2 DEF MigrationsIInv, FindingIsFresh
<1>2. MigrationsIInv /\ [MigrationsNext]_migrationsVars
        => [\A s \in Servers : stage[s] # "serving" /\ stage'[s] = "serving"
              => db'.applied = Build[s] /\ ~ db'.dirty]_migrationsVars
  BY <1>1
<1> QED BY <1>2, MigrationsInvariant, PTL DEF MigrationsSpec, StartsOnExactlyItsSchema
===============================================================================
