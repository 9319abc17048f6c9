-------------------------------- MODULE Service --------------------------------
(***************************************************************************)
(* The service as a whole (embed.rs, run.rs, http.rs): replicas that share *)
(* one database, each a buffered writer and a projector, from Service::    *)
(* start to shutdown.  The writer is the queue that BufferedWriter         *)
(* implements (IngestLog), its INSERTs are rows of the log that are        *)
(* visible once committed, and a projector folds the log up to the first   *)
(* row that is not, as Projection does (FoldedLog).  What is added here is *)
(* what the callers are told, and the order in which a replica stops.      *)
(***************************************************************************)
EXTENDS Naturals, Sequences, FiniteSets, Selection

CONSTANTS
  Replicas,     \* running services, each with one projector
  OnDemand,     \* the replicas without a polling task (projection_mode)
  Callers,      \* settle calls: trigger route, Settler of an embedding host
  Home,         \* the replica a caller belongs to
  BATCH,        \* events folded per transaction
  MaxEvents,    \* bound: events accepted
  MaxStops,     \* bound: shutdowns and crashes
  MaxFails      \* bound: INSERTs and projection batches that fail

ASSUME ServiceAssumption ==
  /\ OnDemand \subseteq Replicas
  /\ Home \in [Callers -> Replicas]
  /\ Replicas \cap Callers = {}
  /\ BATCH \in Nat \ {0}

\* A replica stands for its own projector: the polling task, or the final fold.
Sessions == Replicas \cup Callers
Of(s) == IF s \in Replicas THEN s ELSE Home[s]

VARIABLES
  state,      \* what a replica is doing: serving, or the step of its shutdown
  from,       \* the replica that accepted an event, in order of acceptance
  unwritten,  \* the events in a replica's buffered writer
  log,        \* the `events` table in (xid, seq) order, open transactions too
  cursor,     \* number of rows folded
  lost,       \* events that a drain timeout or a crash took
  pc,         \* the step a session is at
  page,       \* number of rows it selected and has not committed
  owed,       \* the events its replica had accepted when it was called; from
              \* a caught_up answer on, those it may believe folded (history)
  inTime,     \* during a call: its wait for the writer ended before the budget did
  answer,     \* how its last call ended
  stops,      \* number of shutdowns and crashes
  fails       \* number of failures

callVars == <<pc, page, owed, inTime, answer>>
logVars == <<from, unwritten, log, lost>>
vars == <<state, logVars, cursor, callVars, stops, fails>>

Events == DOMAIN from
Accepted(r) == {e \in Events : from[e] = r}

\* Rows before the first open transaction: all a projector may fold.
Visible == Cardinality({i \in DOMAIN log : \A j \in 1..i : ~log[j].open})
RowsOf(S) == {log[i].event : i \in S}
Folded == RowsOf(1..cursor)
Blocked == RowsOf((Visible + 1)..Len(log))

-------------------------------------------------------------------------------
(* Ingest *)

\* 202: the event is in the writer.
Ingest(r) ==
  /\ state[r] = "serving"
  /\ Len(from) < MaxEvents
  /\ from' = Append(from, r)
  /\ unwritten' = [unwritten EXCEPT ![r] = @ \cup {Len(from) + 1}]
  /\ UNCHANGED <<state, log, lost, cursor, callVars, stops, fails>>

OpenRow(r, row) == row.by = r /\ row.open
Inserting(r) == \E i \in DOMAIN log : OpenRow(r, log[i])
RollBack(r) == Selected(log, {i \in DOMAIN log : ~OpenRow(r, log[i])})
Commit(r) ==
  [i \in DOMAIN log |->
     IF OpenRow(r, log[i]) THEN [log[i] EXCEPT !.open = FALSE] ELSE log[i]]

\* The writer sends what it holds; the transaction has its xid from here on.
BeginInsert(r) ==
  /\ unwritten[r] # {} /\ ~Inserting(r)
  /\ LET batch == InOrder(unwritten[r])
     IN log' = log \o [i \in DOMAIN batch |->
                          [event |-> batch[i], by |-> r, open |-> TRUE]]
  /\ UNCHANGED <<state, from, unwritten, lost, cursor, callVars, stops, fails>>

\* Mutation: what arrived during the INSERT is cleared with the batch.
CommitInsertClears(r) ==
  /\ Inserting(r)
  /\ unwritten' = [unwritten EXCEPT ![r] = {}]
  /\ log' = Commit(r)
  /\ UNCHANGED <<state, from, lost, cursor, callVars, stops, fails>>
CommitInsert(r) ==
  /\ Inserting(r)
  /\ unwritten' = [unwritten EXCEPT ![r] =
       @ \ {log[i].event : i \in {j \in DOMAIN log : OpenRow(r, log[j])}}]
  /\ log' = Commit(r)
  /\ UNCHANGED <<state, from, lost, cursor, callVars, stops, fails>>

\* The writer keeps what it sent and tries again.  (That a failed INSERT may have
\* committed is BufferedWriter's.)
FailInsert(r) ==
  /\ Inserting(r)
  /\ fails < MaxFails
  /\ fails' = fails + 1
  /\ log' = RollBack(r)
  /\ UNCHANGED <<state, from, unwritten, lost, cursor, callVars, stops>>

-------------------------------------------------------------------------------
(* Calls *)

Up(r) == state[r] \notin {"closing", "down"}
HoldsCursor(s) == pc[s] \in {"select", "fold"}
Goto(s, step) == pc' = [pc EXCEPT ![s] = step]

\* run_for has no deadline in the polling task and in the final fold.
HasBudget(s) == s \in Callers

\* The call is over; the final fold of a replica is followed by pool.close().
Return(s, how) ==
  /\ Goto(s, "idle")
  /\ page' = [page EXCEPT ![s] = 0]
  /\ answer' = [answer EXCEPT ![s] = how]
  /\ inTime' = [inTime EXCEPT ![s] = FALSE]
  /\ state' = [r \in Replicas |->
                IF r = s /\ state[r] = "final" THEN "closing" ELSE state[r]]

\* Mutation: the polling task ends with its first error.
PollUntilError(r) ==
  /\ r \notin OnDemand
  /\ state[r] \in {"serving", "draining", "stopping"}
  /\ pc[r] = "idle" /\ answer[r] # "error"
  /\ Goto(r, "lock")
  /\ UNCHANGED <<state, logVars, cursor, page, owed, inTime, answer, stops, fails>>
\* run: a tick of the interval.
Poll(r) ==
  /\ r \notin OnDemand
  /\ state[r] \in {"serving", "draining", "stopping"}
  /\ pc[r] = "idle"
  /\ Goto(r, "lock")
  /\ UNCHANGED <<state, logVars, cursor, page, owed, inTime, answer, stops, fails>>

\* ProjectionHandle::settle, from run_projection or a Settler.
Settle(c) ==
  /\ state[Home[c]] = "serving"
  /\ pc[c] = "idle"
  /\ Goto(c, "flush")
  /\ owed' = [owed EXCEPT ![c] = Accepted(Home[c])]
  /\ answer' = [answer EXCEPT ![c] = "none"]
  /\ UNCHANGED <<state, logVars, cursor, page, inTime, stops, fails>>

\* Mutation: settle folds without waiting for the writer.
FlushedAtOnce(c) ==
  /\ pc[c] = "flush"
  /\ inTime' = [inTime EXCEPT ![c] = TRUE]
  /\ Goto(c, "lock")
  /\ UNCHANGED <<state, logVars, cursor, page, owed, answer, stops, fails>>
\* flushed() resolves, or the budget runs out first.
Flushed(c) ==
  /\ pc[c] = "flush"
  /\ \E b \in BOOLEAN :
       /\ b => unwritten[Home[c]] = {}
       /\ inTime' = [inTime EXCEPT ![c] = b]
  /\ Goto(c, "lock")
  /\ UNCHANGED <<state, logVars, cursor, page, owed, answer, stops, fails>>

LockCursor(s) ==
  /\ pc[s] = "lock" /\ Up(Of(s))
  /\ \A t \in Sessions \ {s} : ~HoldsCursor(t)
  /\ Goto(s, "select")
  /\ UNCHANGED <<state, logVars, cursor, page, owed, inTime, answer, stops, fails>>

\* caught_up: true speaks of the events below the watermark.
SayCaughtUp(s, why) ==
  /\ Return(s, why)
  /\ owed' = [owed EXCEPT ![s] = @ \cap RowsOf(1..Visible)]

\* OnContention::Skip, which run_for reports as caught_up.
SkipLocked(s) ==
  /\ pc[s] = "lock" /\ Up(Of(s))
  /\ \E t \in Sessions \ {s} : HoldsCursor(t)
  /\ SayCaughtUp(s, "contended")
  /\ UNCHANGED <<logVars, cursor, stops, fails>>

SelectBatch(s) ==
  /\ pc[s] = "select"
  /\ cursor < Visible
  /\ page' = [page EXCEPT ![s] = IF Visible - cursor < BATCH THEN Visible - cursor ELSE BATCH]
  /\ Goto(s, "fold")
  /\ UNCHANGED <<state, logVars, cursor, owed, inTime, answer, stops, fails>>

NothingLeft(s) ==
  /\ pc[s] = "select"
  /\ cursor = Visible
  /\ SayCaughtUp(s, "caught_up")
  /\ UNCHANGED <<logVars, cursor, stops, fails>>

\* A batch is folded; then the deadline, which has passed when the wait for the
\* writer took the whole budget.
CommitBatch(s) ==
  /\ pc[s] = "fold"
  /\ cursor' = cursor + page[s]
  /\ \/ /\ HasBudget(s) => inTime[s]
        /\ Goto(s, "lock")
        /\ page' = [page EXCEPT ![s] = 0]
        /\ UNCHANGED <<state, inTime, answer>>
     \/ HasBudget(s) /\ Return(s, "budget")
  /\ UNCHANGED <<logVars, owed, stops, fails>>

\* An error ends the call: logged by the polling task, ignored by the final
\* fold, a 500 or an Err for the others.
FailBatch(s) ==
  /\ HoldsCursor(s)
  /\ fails < MaxFails
  /\ fails' = fails + 1
  /\ Return(s, "error")
  /\ UNCHANGED <<logVars, cursor, owed, stops>>

PoolClosed(c) ==
  /\ pc[c] = "lock" /\ ~Up(Home[c])
  /\ Return(c, "error")
  /\ UNCHANGED <<logVars, cursor, owed, stops, fails>>

-------------------------------------------------------------------------------
(* Service::shutdown, a crash, and the next start *)

InFlight(r) == {c \in Callers : Home[c] = r /\ pc[c] # "idle"}

\* Mutation: the projector is stopped before the writer.
ShutdownProjectorFirst(r) ==
  /\ state[r] = "serving"
  /\ stops < MaxStops
  /\ stops' = stops + 1
  /\ state' = [state EXCEPT ![r] = "stopping"]
  /\ UNCHANGED <<logVars, cursor, callVars, fails>>
\* No further request arrives; writer.shutdown(drain_timeout) begins.
Shutdown(r) ==
  /\ state[r] = "serving"
  /\ stops < MaxStops
  /\ stops' = stops + 1
  /\ state' = [state EXCEPT ![r] = "draining"]
  /\ UNCHANGED <<logVars, cursor, callVars, fails>>

\* The writer has written everything, and no caller holds a handle to it.
Drained(r) ==
  /\ state[r] = "draining"
  /\ unwritten[r] = {} /\ InFlight(r) = {}
  /\ state' = [state EXCEPT ![r] = "stopping"]
  /\ UNCHANGED <<logVars, cursor, callVars, stops, fails>>

\* What the writer of r holds is gone; an INSERT under way is rolled back, or has
\* reached the server and commits.
LoseWriter(r) ==
  /\ lost' = lost \cup unwritten[r]
  /\ unwritten' = [unwritten EXCEPT ![r] = {}]
  /\ log' \in {RollBack(r), Commit(r)}
  /\ UNCHANGED from

DrainTimeout(r) ==
  /\ state[r] = "draining"
  /\ state' = [state EXCEPT ![r] = "stopping"]
  /\ LoseWriter(r)
  /\ UNCHANGED <<cursor, callVars, stops, fails>>

\* projector.shutdown(): the task after the poll under way, or the caller.
FinalFold(r) ==
  /\ state[r] = "stopping"
  /\ pc[r] = "idle"
  /\ state' = [state EXCEPT ![r] = "final"]
  /\ Goto(r, "lock")
  /\ UNCHANGED <<logVars, cursor, page, owed, inTime, answer, stops, fails>>

\* pool.close() waits for the connections in use.
Close(r) ==
  /\ state[r] = "closing"
  /\ \A c \in InFlight(r) : ~HoldsCursor(c)
  /\ state' = [state EXCEPT ![r] = "down"]
  /\ UNCHANGED <<logVars, cursor, callVars, stops, fails>>

\* The process dies, or the host evicts it.
Crash(r) ==
  /\ state[r] # "down"
  /\ stops < MaxStops
  /\ stops' = stops + 1
  /\ state' = [state EXCEPT ![r] = "down"]
  /\ LoseWriter(r)
  /\ pc' = [s \in Sessions |-> IF Of(s) = r THEN "idle" ELSE pc[s]]
  /\ page' = [s \in Sessions |-> IF Of(s) = r THEN 0 ELSE page[s]]
  /\ answer' = [s \in Sessions |-> IF Of(s) = r THEN "none" ELSE answer[s]]
  /\ owed' = [s \in Sessions |-> IF Of(s) = r THEN {} ELSE owed[s]]
  /\ inTime' = [s \in Sessions |-> Of(s) # r /\ inTime[s]]
  /\ UNCHANGED <<cursor, fails>>

\* Service::start with an empty writer.
ServiceStart(r) ==
  /\ state[r] = "down"
  /\ InFlight(r) = {}
  /\ state' = [state EXCEPT ![r] = "serving"]
  /\ answer' = [answer EXCEPT ![r] = "none"]
  /\ UNCHANGED <<logVars, cursor, pc, page, owed, inTime, stops, fails>>

-------------------------------------------------------------------------------
Init ==
  /\ state = [r \in Replicas |-> "serving"]
  /\ from = << >>
  /\ unwritten = [r \in Replicas |-> {}]
  /\ log = << >>
  /\ cursor = 0
  /\ lost = {}
  /\ pc = [s \in Sessions |-> "idle"]
  /\ page = [s \in Sessions |-> 0]
  /\ owed = [s \in Sessions |-> {}]
  /\ inTime = [s \in Sessions |-> FALSE]
  /\ answer = [s \in Sessions |-> "none"]
  /\ stops = 0
  /\ fails = 0

Insert(r) == BeginInsert(r) \/ CommitInsert(r) \/ FailInsert(r)

RunFor(s) ==
  \/ LockCursor(s) \/ SkipLocked(s) \/ SelectBatch(s)
  \/ NothingLeft(s) \/ CommitBatch(s) \/ FailBatch(s)

Stop(r) == Drained(r) \/ DrainTimeout(r) \/ FinalFold(r) \/ Close(r)

Next ==
  \/ \E r \in Replicas : \/ Ingest(r) \/ Insert(r) \/ Poll(r)
                         \/ Shutdown(r) \/ Stop(r) \/ Crash(r) \/ ServiceStart(r)
  \/ \E c \in Callers : Settle(c) \/ Flushed(c) \/ PoolClosed(c)
  \/ \E s \in Sessions : RunFor(s)

Spec == Init /\ [][Next]_vars

\* INSERTs and statements end, polling tasks poll, a shutdown goes on to its
\* end, and a replica that is down is started again.
Fairness ==
  /\ \A r \in Replicas : /\ WF_vars(Insert(r)) /\ WF_vars(Poll(r))
                         /\ WF_vars(Drained(r) \/ DrainTimeout(r))
                         /\ SF_vars(FinalFold(r)) /\ WF_vars(Close(r))
                         /\ WF_vars(ServiceStart(r))
  /\ \A c \in Callers : WF_vars(Flushed(c)) /\ WF_vars(PoolClosed(c))
  /\ \A s \in Sessions : WF_vars(RunFor(s))

FairSpec == Spec /\ Fairness

-------------------------------------------------------------------------------
(* Properties *)

\* "Use this after ingest, so the events just accepted are folded too": a settle
\* whose flush ended in time, and that found an empty page, leaves no event
\* unfolded that its replica had accepted, except behind a transaction that is
\* still open.
SettledIsFolded ==
  [][\A c \in Callers :
       pc[c] # "idle" /\ answer'[c] = "caught_up" /\ inTime[c]
         => owed[c] \subseteq Folded' \cup Blocked' \cup lost']_vars

\* Service::shutdown drains the writer before the final fold: unless the drain
\* timed out, or the final fold failed or met another projector, a replica that
\* stops leaves none of its events unfolded.
StoppedIsFolded ==
  [][\A r \in Replicas :
       state[r] = "final" /\ state'[r] = "closing" /\ answer'[r] = "caught_up"
         => Accepted(r) \subseteq Folded' \cup Blocked' \cup lost']_vars

\* Every accepted event is folded in the end, or was lost with its writer,
\* whatever replicas stop, die and start again, skip a held cursor or fail.
EventuallyFolded ==
  \A e \in 1..MaxEvents : (e \in Events) ~> (e \in Folded \cup lost)

-------------------------------------------------------------------------------
(* The inductive invariant behind SettledIsFolded and StoppedIsFolded *)

Row == [event : Events, by : Replicas, open : BOOLEAN]

TypeOK ==
  /\ state \in [Replicas -> {"serving", "draining", "stopping", "final", "closing", "down"}]
  /\ from \in Seq(Replicas)
  /\ unwritten \in [Replicas -> SUBSET Events]
  /\ log \in Seq(Row)
  /\ cursor \in Nat
  /\ lost \subseteq Events
  /\ pc \in [Sessions -> {"idle", "flush", "lock", "select", "fold"}]
  /\ page \in [Sessions -> Nat]
  /\ owed \in [Sessions -> SUBSET Events]
  /\ inTime \in [Sessions -> BOOLEAN]
  /\ answer \in [Sessions -> {"none", "caught_up", "contended", "budget", "error"}]
  /\ stops \in Nat /\ fails \in Nat

\* The events of committed rows.
Written == RowsOf({i \in DOMAIN log : ~log[i].open})

\* An accepted event is with the writer that accepted it, written or lost.
EventsKept == \A e \in Events : e \in unwritten[from[e]] \cup Written \cup lost

\* The writer of a replica that is past its drain holds nothing.
DrainedIsEmpty ==
  \A r \in Replicas :
    state[r] \in {"stopping", "final", "closing", "down"} => unwritten[r] = {}

\* A call owes what was accepted before it, and once its wait has ended in time
\* all of that is written; it has no answer while it runs.
CallInStep(c) ==
  /\ pc[c] = "flush" => owed[c] \subseteq Accepted(Home[c])
  /\ pc[c] \in {"lock", "select", "fold"} /\ inTime[c]
       => owed[c] \subseteq Written \cup lost
  /\ pc[c] # "idle" => answer[c] = "none"
CallsInStep == \A c \in Callers : CallInStep(c)

IInv == TypeOK /\ EventsKept /\ DrainedIsEmpty /\ CallsInStep

-------------------------------------------------------------------------------
(* What a comment says and the code does not do *)

\* "caught_up: true when nothing was left to fold: the log is caught up below
\* the watermark, or another projector holds the cursor and is folding it".
\* When no call is under way, then, the events that were below the watermark when
\* a caller was told so have been folded.
CaughtUpIsFolded ==
  \A c \in Callers :
    answer[c] \in {"caught_up", "contended"} /\ (\A s \in Sessions : pc[s] = "idle")
      => owed[c] \subseteq Folded
==============================================================================
