------------------------------ MODULE Projection ------------------------------
(***************************************************************************)
(* The projection of the append-only `events` table into the read tables   *)
(* (src/crates/headwaters/src/projection/mod.rs) on PostgreSQL.            *)
(*                                                                         *)
(* Writers are transactions that INSERT into `events`: `seq` is drawn from *)
(* the sequence, `xid` is the inserting transaction, and the rows appear   *)
(* only when the transaction commits.  Sessions are callers of run_for,    *)
(* project_all and rebuild: the background task of each replica, on-demand *)
(* hosts, operators.  Bystanders are any other transactions of the         *)
(* database; they only hold the snapshot's xmin back.                      *)
(*                                                                         *)
(* The read tables are represented by `folded`, the sequence of the events *)
(* whose mutations have been applied and committed since they were last    *)
(* truncated.  What the mutations of one event do is not modelled here.    *)
(***************************************************************************)
EXTENDS LogPosition

CONSTANTS
  Writers,      \* connections that insert into `events`
  Bystanders,   \* other connections that may hold a transaction open
  Sessions,     \* callers of the projection
  Background,   \* the sessions that are a polling task (Projector::spawn)
  BATCH,        \* rows folded per transaction
  Silent,       \* the seqs of events no processor emits a mutation for
  MaxLegacy,    \* bound: rows that predate the xid column
  MaxXid,       \* bound: inserting transactions
  MaxSeq,       \* bound: values drawn from the sequence
  MaxRebuilds,  \* bound: calls of rebuild
  MaxFails      \* bound: transactions of a session that fail

ASSUME BatchAssumption == BATCH \in Nat \ {0}
ASSUME LegacyAssumption == MaxLegacy \in Nat
ASSUME SessionAssumption == Background \subseteq Sessions

VARIABLES
  nextXid,   \* the next transaction id
  nextSeq,   \* the next value of the BIGSERIAL
  rows,      \* every row of `events` not rolled back, visible or not
  ins,       \* ins[w]: w's transaction id and the seq drawn for its next row
  horizon,   \* where the xid of a bystander's or session's transaction lies
  cursor,    \* the committed projection_state row
  folded,    \* the committed read tables
  task,      \* the call a session is executing
  pc,        \* the statement it is about to run
  seen,      \* the cursor its transaction read under the row lock
  todo,      \* rows it selected and has not applied
  done,      \* rows it has applied in its open transaction
  rebuilds,  \* number of rebuilds called
  fails,     \* number of transactions that failed
  ever       \* every event that was ever folded (history variable)

logVars == <<nextXid, nextSeq, rows, ins>>
callVars == <<task, pc, seen, todo, done>>
tables == <<cursor, folded, ever>>
budgets == <<rebuilds, fails>>
vars == <<logVars, horizon, callVars, tables, budgets>>

-------------------------------------------------------------------------------
(* Transactions and visibility *)

Start == [xid |-> 0, seq |-> 0]
NoInsert == [xid |-> 0, drawn |-> 0]

OpenXids == {ins[w].xid : w \in Writers} \ {0}

\* The rows a snapshot taken now sees.
CommittedRows == {r \in rows : r.xid \notin OpenXids}

\* Mutation: the snapshot's xmax, the next transaction id, for its xmin.
BelowXmax(x) == x < nextXid

\* `xid < pg_snapshot_xmin(pg_current_snapshot())`: every transaction at or
\* below x has finished.  A session's or a bystander's own xid is never
\* stored, so only its place among the writers' xids matters: it lies just
\* below horizon, and 0 stands for no transaction.
BelowXmin(x) ==
  /\ x < nextXid
  /\ \A y \in OpenXids : x < y
  /\ \A t \in Sessions \cup Bystanders : horizon[t] # 0 => x < horizon[t]

-------------------------------------------------------------------------------
(* Writers: one multi-row INSERT (PostgresSink::append), or any transaction *)
(* of a host that inserts.                                                  *)

\* `seq` is the row's first default, so it is drawn before the transaction's
\* xid is assigned.
DrawSeq(w) ==
  /\ ins[w].drawn = 0
  /\ nextSeq <= MaxSeq
  /\ ins[w].xid = 0 => nextXid <= MaxXid
  /\ ins' = [ins EXCEPT ![w] = [xid |-> ins[w].xid, drawn |-> nextSeq]]
  /\ nextSeq' = nextSeq + 1
  /\ UNCHANGED <<nextXid, rows, horizon, callVars, tables, budgets>>

\* `xid` defaults to pg_current_xact_id(): assigned by the first row.
InsertRow(w) ==
  /\ ins[w].drawn # 0
  /\ IF ins[w].xid = 0
     THEN /\ nextXid <= MaxXid
          /\ ins' = [ins EXCEPT ![w] = [xid |-> nextXid, drawn |-> 0]]
          /\ rows' = rows \cup {[xid |-> nextXid, seq |-> ins[w].drawn]}
          /\ nextXid' = nextXid + 1
     ELSE /\ ins' = [ins EXCEPT ![w] = [xid |-> ins[w].xid, drawn |-> 0]]
          /\ rows' = rows \cup {[xid |-> ins[w].xid, seq |-> ins[w].drawn]}
          /\ UNCHANGED nextXid
  /\ UNCHANGED <<nextSeq, horizon, callVars, tables, budgets>>

CommitInsert(w) ==
  /\ ins[w].xid # 0
  /\ ins[w].drawn = 0
  /\ ins' = [ins EXCEPT ![w] = NoInsert]
  /\ UNCHANGED <<nextXid, nextSeq, rows, horizon, callVars, tables, budgets>>

\* Rolled back or cut off: the drawn seqs stay a gap.
AbortInsert(w) ==
  /\ ins[w] # NoInsert
  /\ rows' = {r \in rows : r.xid = 0 \/ r.xid # ins[w].xid}
  /\ ins' = [ins EXCEPT ![w] = NoInsert]
  /\ UNCHANGED <<nextXid, nextSeq, horizon, callVars, tables, budgets>>

\* Any other transaction of the database.
HoldXid(b) ==
  /\ horizon[b] = 0
  /\ horizon' = [horizon EXCEPT ![b] = nextXid]
  /\ UNCHANGED <<logVars, callVars, tables, budgets>>

ReleaseXid(b) ==
  /\ horizon[b] # 0
  /\ horizon' = [horizon EXCEPT ![b] = 0]
  /\ UNCHANGED <<logVars, callVars, tables, budgets>>

-------------------------------------------------------------------------------
(* Locks.  They are held until the transaction ends. *)

\* Mutation: the UPDATE of a rebuild takes no lock on the cursor row.
HoldsCursorUnlessReset(s) == pc[s] \in {"select", "fold"}

\* The projection_state row: locked by SELECT ... FOR UPDATE or by UPDATE.
HoldsCursor(s) == pc[s] \in {"select", "fold", "commitReset"}
\* Mutation: the cursor is read without FOR UPDATE.
CursorNeverLocked(s) == TRUE
CursorFree(s) == \A t \in Sessions \ {s} : ~HoldsCursor(t)

\* The read tables: ROW EXCLUSIVE once an event's mutations were applied ...
WritesTables(s) == \E i \in DOMAIN done[s] : done[s][i].seq \notin Silent
\* ... and ACCESS EXCLUSIVE from TRUNCATE on.
HasTruncated(s) == pc[s] \in {"reset", "commitReset"}

\* The rebuild s and the projector t wait for each other: TRUNCATE takes the
\* tables before the cursor row, project_once takes them the other way round.
Deadlocked(s, t) ==
  /\ pc[t] = "fold" /\ todo[t] # {}
  /\ \/ pc[s] = "reset"
     \/ pc[s] = "truncate" /\ WritesTables(t)

-------------------------------------------------------------------------------
(* project_once *)

Goto(s, label) == pc' = [pc EXCEPT ![s] = label]

\* The call ends and its transaction, if any, is over.
Return(s) ==
  /\ task' = [task EXCEPT ![s] = "none"]
  /\ Goto(s, "idle")
  /\ seen' = [seen EXCEPT ![s] = Start]
  /\ todo' = [todo EXCEPT ![s] = {}]
  /\ done' = [done EXCEPT ![s] = << >>]
  /\ horizon' = [horizon EXCEPT ![s] = 0]

\* run_for, project_all (and the tail of rebuild) start their loop.
Call(s, t) ==
  /\ pc[s] = "idle"
  /\ task' = [task EXCEPT ![s] = t]
  /\ Goto(s, "lock")
  /\ UNCHANGED <<logVars, horizon, seen, todo, done, tables, budgets>>

\* SELECT ... FOR UPDATE [SKIP LOCKED] returns the row, and the locking
\* transaction gets its xid.  READ COMMITTED re-reads the row after a wait,
\* so the cursor is the committed one.
LockCursor(s) ==
  /\ pc[s] = "lock"
  /\ CursorFree(s)
  /\ seen' = [seen EXCEPT ![s] = cursor]
  /\ horizon' = [horizon EXCEPT ![s] = nextXid]
  /\ Goto(s, "select")
  /\ UNCHANGED <<logVars, task, todo, done, tables, budgets>>

\* OnContention::Skip: no row, so 0 events, so run_for says caught_up.
SkipLocked(s) ==
  /\ pc[s] = "lock"
  /\ task[s] = "run_for"
  /\ ~CursorFree(s)
  /\ Return(s)
  /\ UNCHANGED <<logVars, tables, budgets>>

\* Mutation: any visible row after the cursor, also one a running transaction
\* may still precede.
CandidatesAboveXmin(s) == {r \in CommittedRows : Before(seen[s], r)}
\* Mutation: the row of the cursor itself is selected again.
CandidatesFromCursor(s) ==
  {r \in CommittedRows : ~Before(r, seen[s]) /\ BelowXmin(r.xid)}
\* Mutation: the cursor compares transaction ids only.
CandidatesByXid(s) ==
  {r \in CommittedRows : seen[s].xid < r.xid /\ BelowXmin(r.xid)}

\* The WHERE clause of the log query.
Candidates(s) ==
  {r \in CommittedRows : Before(seen[s], r) /\ BelowXmin(r.xid)}

SelectBatch(s) ==
  /\ pc[s] = "select"
  /\ Candidates(s) # {}
  /\ todo' = [todo EXCEPT ![s] = FirstOf(BATCH, Candidates(s))]
  /\ Goto(s, "fold")
  /\ UNCHANGED <<logVars, horizon, task, seen, done, tables, budgets>>

\* Mutation: the loop of the caller goes on after an empty page.
NothingLeftGoesOn(s) ==
  /\ pc[s] = "select"
  /\ Candidates(s) = {}
  /\ Goto(s, "lock")
  /\ seen' = [seen EXCEPT ![s] = Start]
  /\ horizon' = [horizon EXCEPT ![s] = 0]
  /\ UNCHANGED <<logVars, task, todo, done, tables, budgets>>
\* Mutation: a page that is not full counts as nothing left.
ShortPageLeft(s) ==
  /\ pc[s] = "select"
  /\ Cardinality(Candidates(s)) < BATCH
  /\ Return(s)
  /\ UNCHANGED <<logVars, tables, budgets>>

\* No rows: the transaction is dropped and the loop of the caller ends.
NothingLeft(s) ==
  /\ pc[s] = "select"
  /\ Candidates(s) = {}
  /\ Return(s)
  /\ UNCHANGED <<logVars, tables, budgets>>

\* One turn of the for loop: the rows come in (xid, seq) order.
FoldEvent(s, r) ==
  /\ pc[s] = "fold"
  /\ r \in todo[s]
  /\ \A q \in todo[s] \ {r} : Before(r, q)
  /\ r.seq \in Silent \/ \A t \in Sessions : ~HasTruncated(t)
  /\ todo' = [todo EXCEPT ![s] = todo[s] \ {r}]
  /\ done' = [done EXCEPT ![s] = Append(done[s], r)]
  /\ UNCHANGED <<logVars, horizon, task, pc, seen, tables, budgets>>

\* UPDATE projection_state, COMMIT.  run_for may find its budget used up;
\* the background task and the Wait callers have none.
CommitBatch(s) ==
  /\ pc[s] = "fold"
  /\ todo[s] = {}
  /\ done[s] # << >>
  /\ cursor' = LastOf(done[s])
  /\ folded' = folded \o done[s]
  /\ ever' = ever \cup Range(done[s])
  /\ \/ /\ Goto(s, "lock")
        /\ seen' = [seen EXCEPT ![s] = Start]
        /\ done' = [done EXCEPT ![s] = << >>]
        /\ horizon' = [horizon EXCEPT ![s] = 0]
        /\ UNCHANGED <<task, todo>>
     \/ /\ task[s] = "run_for"
        /\ s \notin Background
        /\ Return(s)
  /\ UNCHANGED <<logVars, budgets>>

-------------------------------------------------------------------------------
(* rebuild *)

CallRebuild(s) ==
  /\ pc[s] = "idle"
  /\ s \notin Background
  /\ rebuilds < MaxRebuilds
  /\ rebuilds' = rebuilds + 1
  /\ task' = [task EXCEPT ![s] = "rebuild"]
  /\ Goto(s, "truncate")
  /\ UNCHANGED <<logVars, horizon, seen, todo, done, tables, fails>>

\* TRUNCATE waits for every transaction that wrote a read table.
Truncate(s) ==
  /\ pc[s] = "truncate"
  /\ \A t \in Sessions : ~HasTruncated(t) /\ ~WritesTables(t)
  /\ horizon' = [horizon EXCEPT ![s] = nextXid]
  /\ Goto(s, "reset")
  /\ UNCHANGED <<logVars, task, seen, todo, done, tables, budgets>>

\* UPDATE projection_state SET last_xid = '0', last_seq = 0
ResetCursor(s) ==
  /\ pc[s] = "reset"
  /\ CursorFree(s)
  /\ Goto(s, "commitReset")
  /\ UNCHANGED <<logVars, horizon, task, seen, todo, done, tables, budgets>>

\* Mutation: the tables are truncated and the cursor stays where it was.
CommitResetOfTables(s) ==
  /\ pc[s] = "commitReset"
  /\ folded' = << >>
  /\ horizon' = [horizon EXCEPT ![s] = 0]
  /\ Goto(s, "lock")
  /\ UNCHANGED <<logVars, task, seen, todo, done, cursor, ever, budgets>>

CommitReset(s) ==
  /\ pc[s] = "commitReset"
  /\ cursor' = Start
  /\ folded' = << >>
  /\ horizon' = [horizon EXCEPT ![s] = 0]
  /\ Goto(s, "lock")
  /\ UNCHANGED <<logVars, task, seen, todo, done, ever, budgets>>

-------------------------------------------------------------------------------
(* Failure *)

\* A statement fails, the connection drops, the caller is cancelled or the
\* process dies: the open transaction is rolled back and the call is over.
Fail(s) ==
  /\ pc[s] # "idle"
  /\ fails < MaxFails
  /\ fails' = fails + 1
  /\ Return(s)
  /\ UNCHANGED <<logVars, tables, rebuilds>>

\* PostgreSQL aborts one transaction of a cycle of lock waits.
DeadlockVictim(s, t) ==
  /\ Deadlocked(s, t)
  /\ Return(s) \/ Return(t)
  /\ UNCHANGED <<logVars, tables, budgets>>

-------------------------------------------------------------------------------
Init ==
  /\ \E total \in 0..MaxLegacy : \E projected \in 0..total :
       /\ rows = {[xid |-> 0, seq |-> i] : i \in 1..total}
       /\ nextSeq = total + 1
       /\ cursor = [xid |-> 0, seq |-> projected]
       /\ folded = [i \in 1..projected |-> [xid |-> 0, seq |-> i]]
       /\ ever = {[xid |-> 0, seq |-> i] : i \in 1..projected}
  /\ nextXid = 1
  /\ ins = [w \in Writers |-> NoInsert]
  /\ horizon = [t \in Sessions \cup Bystanders |-> 0]
  /\ task = [s \in Sessions |-> "none"]
  /\ pc = [s \in Sessions |-> "idle"]
  /\ seen = [s \in Sessions |-> Start]
  /\ todo = [s \in Sessions |-> {}]
  /\ done = [s \in Sessions |-> << >>]
  /\ rebuilds = 0
  /\ fails = 0

Insert(w) == DrawSeq(w) \/ InsertRow(w) \/ CommitInsert(w) \/ AbortInsert(w)

\* One statement of a call already under way.
Work(s) ==
  \/ LockCursor(s) \/ SkipLocked(s) \/ SelectBatch(s) \/ NothingLeft(s)
  \/ \E r \in rows : FoldEvent(s, r)
  \/ CommitBatch(s)
  \/ Truncate(s) \/ ResetCursor(s) \/ CommitReset(s)

Calls(s) ==
  \/ Call(s, "run_for")
  \/ s \notin Background /\ Call(s, "project_all")
  \/ CallRebuild(s)

Next ==
  \/ \E w \in Writers : Insert(w)
  \/ \E b \in Bystanders : HoldXid(b) \/ ReleaseXid(b)
  \/ \E s \in Sessions : Calls(s) \/ Work(s) \/ Fail(s)
  \/ \E s, t \in Sessions : DeadlockVictim(s, t)

Spec == Init /\ [][Next]_vars

\* The polling tasks keep polling; statements run; inserting and bystander
\* transactions end; lock waits are served in order; deadlocks are detected.
Fairness ==
  /\ \A w \in Writers : WF_vars(ins[w].xid # 0 /\ (CommitInsert(w) \/ AbortInsert(w)))
  /\ \A b \in Bystanders : WF_vars(ReleaseXid(b))
  /\ \A s \in Background : WF_vars(Call(s, "run_for"))
  /\ \A s \in Sessions : SF_vars(Work(s))
  /\ WF_vars(\E s, t \in Sessions : DeadlockVictim(s, t))

FairSpec == Spec /\ Fairness

-------------------------------------------------------------------------------
(* Properties *)

LogTypeOK ==
  /\ nextXid \in Nat \ {0}
  /\ nextSeq \in Nat \ {0}
  /\ rows \subseteq Position
  /\ IsFiniteSet(rows)
  /\ ins \in [Writers -> [xid : Nat, drawn : Nat]]

CallTypeOK ==
  /\ horizon \in [Sessions \cup Bystanders -> Nat]
  /\ task \in [Sessions -> {"none", "run_for", "project_all", "rebuild"}]
  /\ pc \in [Sessions -> {"idle", "lock", "select", "fold",
                          "truncate", "reset", "commitReset"}]
  /\ seen \in [Sessions -> Position]
  /\ todo \in [Sessions -> SUBSET Position]
  /\ done \in [Sessions -> Seq(Position)]

TableTypeOK ==
  /\ cursor \in Position
  /\ folded \in Seq(Position)
  /\ ever \subseteq Position

\* Every variable holds a value of its kind.
TypeOK ==
  /\ LogTypeOK
  /\ CallTypeOK
  /\ TableTypeOK
  /\ rebuilds \in Nat
  /\ fails \in Nat

\* No event is skipped and none is folded that the cursor has not passed: the
\* read tables hold exactly the committed rows at or before the cursor, which
\* project_once relies on when it reads only rows after it.
NothingSkipped ==
  /\ Range(folded) \subseteq CommittedRows
  /\ \A r \in CommittedRows : r \in Range(folded) <=> ~Before(cursor, r)

\* Each event counts once and in (xid, seq) order, whatever projectors and
\* rebuilds overlapped: no batch is folded twice, none overtakes another.
FoldedOnceInOrder == Ascending(folded)

\* "Every transaction below xmin has finished, so nothing new can appear
\* behind the cursor": no open transaction inserts at or before the cursor.
NothingAppearsBehindCursor ==
  /\ cursor.xid < nextXid
  /\ \A x \in OpenXids : cursor.xid < x

\* A slower projector can't move the cursor back: only the commit of a
\* rebuild does.
CursorAdvances ==
  [][\/ Before(cursor, cursor')
     \/ \E s \in Sessions : pc[s] = "commitReset" /\ cursor' = Start]_cursor

\* "Caught up on return": when project_all or rebuild returns without an
\* error, every event below the watermark is in the read tables, and so is
\* every event that was ever in them.
CaughtUpOnReturn ==
  [][\A s \in Sessions :
        (/\ task[s] \in {"project_all", "rebuild"} /\ task'[s] = "none"
         /\ pc[s] = "select" /\ fails' = fails)
        => /\ ever \subseteq Range(folded)
           /\ \A r \in CommittedRows : BelowXmin(r.xid) => r \in Range(folded)]_vars

\* Every committed event is folded in the end, through failed batches,
\* deadlocks, contention and rebuilds, if failures and rebuilds are finitely
\* many and no transaction stays open.
EventuallyFolded ==
  \A n \in 1..MaxSeq :
    (\E r \in CommittedRows : r.seq = n) ~> (\E r \in Range(folded) : r.seq = n)

\* A session that called rebuild or project_all gets an answer.
CallsReturn ==
  \A s \in Sessions : (task[s] # "none") ~> (task[s] = "none")

\* The projection implements the abstract folded log.
Abstract == INSTANCE FoldedLog WITH log <- CommittedRows, folded <- folded
ImplementsFoldedLog == Abstract!Spec

-------------------------------------------------------------------------------
(* The inductive invariant behind the safety properties *)

\* Transaction ids in use have been assigned, and every row lies after the
\* cursor of a rebuild.
XidsAssigned ==
  /\ \A r \in rows : r.xid < nextXid /\ Before(Start, r)
  /\ \A x \in OpenXids : x < nextXid

\* One transaction at a time holds the cursor row, and the cursor it read is
\* still the committed one.
CursorLocked ==
  /\ \A s, t \in Sessions : HoldsCursor(s) /\ HoldsCursor(t) => s = t
  /\ \A s \in Sessions : pc[s] \in {"select", "fold"} => seen[s] = cursor

InBatch(s) == todo[s] \cup Range(done[s])

\* A batch being folded is an initial segment of what lies after the cursor,
\* and no open transaction can still insert into it.
BatchIsNext(s) ==
  /\ \A r \in InBatch(s) :
       r \in CommittedRows /\ Before(cursor, r) /\ BelowXmin(r.xid)
  /\ DownClosedIn(InBatch(s), {r \in CommittedRows : Before(cursor, r)})
  /\ Ascending(done[s])
  /\ \A q \in Range(done[s]), r \in todo[s] : Before(q, r)

BatchesAreNext ==
  \A s \in Sessions : /\ pc[s] = "fold" => BatchIsNext(s)
                      /\ pc[s] # "fold" => todo[s] = {} /\ done[s] = << >>

\* What was ever folded stays committed and below the watermark, so a rebuild
\* finds it again; the cursor lies below the watermark too.
WatermarkPassed ==
  /\ BelowXmin(cursor.xid)
  /\ Range(folded) \subseteq ever
  /\ \A r \in ever : r \in CommittedRows /\ BelowXmin(r.xid)

IInv ==
  /\ TypeOK
  /\ XidsAssigned
  /\ CursorLocked
  /\ BatchesAreNext
  /\ WatermarkPassed
  /\ NothingSkipped
  /\ FoldedOnceInOrder
==============================================================================
