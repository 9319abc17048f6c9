# Headwaters in TLA+

A TLA+ model of Headwaters, the OpenLineage service of this repository: what
happens to an event between the HTTP request that brings it and the read tables
that answer queries. Paths below are relative to the repository; `headwaters/`
stands for `src/crates/headwaters/src/`.

## The system

    HTTP ingest -> BufferedWriter -> INSERT -> events (log) -> Projector -> read tables -> read API
                   (channel, task)             seq, xid        cursor       jobs, runs, ...

| Component | State it keeps | Operations | What makes it correct |
|---|---|---|---|
| HTTP ingest (`http.rs`, `ingest/`) | none; one future per request | `ingest_event`, `ingest_batch`, `run_projection` | 202 only for accepted events; a dropped request leaves nothing behind |
| Buffered writer (`writer/buffered.rs`) | bounded channel, retained buffer, `pending` counter | `enqueue`, `flushed`, `run`, `flush`, `shutdown` | nothing accepted is dropped, reordered or duplicated by retries; `flushed` never resolves early; backpressure ends |
| Sink (`writer/postgres.rs`, `row.rs`) | none | `append`: one INSERT | all rows of a batch or none |
| Event log (`migrations/0001`, `0005`) | `events` with `seq`, `xid`; `projection_state` | insert, select after the cursor below xmin | append-only, read in `(xid, seq)` order |
| Projector (`projection/mod.rs`) | the cursor row and its lock | `run_for`, `project_all`, `project_once`, `rebuild`, polling task | every committed event folded exactly once, in order; the cursor never passes an open transaction; caught up on return |
| Processors (`projection/processors/`) | none | event to mutations | every row another one refers to is written by the same event |
| Applier (`projection/backend/postgres.rs`) | read tables | guarded upserts | edges, schema, metadata and column lineage of the newest event that carried them, in whatever order events are folded |
| Service (`embed.rs`, `run.rs`) | writer, projector, pool | `start`, `settle`, `flush`, `shutdown` | shutdown drains in order; settle folds what was accepted; nothing stays unfolded for ever |
| Migrations (`run.rs`) | `_sqlx_migrations`, an advisory lock | `migrate`, `ensure_schema_current` | a server starts only on exactly its schema |
| Read queries (`read/queries.rs`, `ids.rs`) | none; several statements per request | lineage, column lineage, tag propagation, paged lists, node ids | an answer is true of the tables the request saw; ids read back |
| CLI (`headwaters-cli/src/graph.rs`, `commands/`, `render/nodeid.rs`) | the answers of one command | reachable, trace, exposure, column lineage, targets | what it derives from the answers is true of them |
| Transports, configuration, client, UI, generated code | none of interest | | not modelled |

The components meet in three places: requests and the writer task share the
channel and `pending`; writers, projectors and rebuilds share PostgreSQL
(transactions, row and table locks, the snapshot's xmin); the service ties their
lifetimes together. The hard behaviours are the commit order of writers against
the reads of projectors, several projectors and a rebuild at once, failed or
ambiguous INSERTs, callers that vanish, and shutdown with work in flight. They
are listed with their lines under `hazards` in PROJECT.json.

## Modules

| Module | What it is |
|---|---|
| `LogPosition` | positions `(xid, seq)`, their order, ORDER BY ... LIMIT as `FirstOf` |
| `FoldedLog` | abstract specification: the read tables are the fold of a growing prefix of the log |
| `Projection` | writers, projectors and rebuilds on PostgreSQL; implements `FoldedLog` |
| `Projection_proofs` | its theorems and their proofs |
| `IngestLog` | abstract specification: an at-least-once queue in front of the log |
| `BufferedWriter` | the ingest side: requests, channel, task, sink, shutdown; implements `IngestLog` |
| `BufferedWriter_proofs` | its theorems and their proofs |
| `Selection` | pure: the numbers of a finite set in order, and the elements of a sequence at such places |
| `SequenceLemmas` | lemmas about `Selection`, concatenation and flattening, minima, and induction over Nat |
| `BatchIngest` | one request: the converter, the events handed to the writer, a client that sends again |
| `BatchIngest_proofs` | its theorems and their proofs |
| `Processors` | pure: the row of an event and the mutations the nine processors make of it |
| `ReadTables` | pure: what each mutation's statement does to its table |
| `ReadModel` | `Processors` and `ReadTables` folding events in any order, with repetitions |
| `ReadModel_proofs` | its theorems and their proofs |
| `Service` | replicas with writers and projectors, settle, shutdown, crashes and restarts |
| `Service_proofs` | its theorems and those about `Migrations`, and their proofs |
| `Migrations` | `migrate` and `ensure_schema_current` of two builds |
| `GraphWalk` | pure: the walks of the command line client over an answer |
| `NodeIds` | pure: how node ids are built, split and typed |
| `Lineage` | the lineage request, statement by statement, under a projection at work |
| `Lineage_proofs` | its theorems, those about node ids and typed targets, and their proofs |
| `FieldLineage` | column lineage, tag propagation, and the client that asks column by column |
| `Paging` | listing page by page under inserts |
| `Queries_proofs` | the theorems about `Paging` and `FieldLineage` and their proofs |
| `MC...` | instances for TLC |

They compose as the system does. `ReadModel` is what one `FoldEvent` of
`Projection` does to the tables; `Lineage`, `FieldLineage` and `Paging` read tables that
change as `ReadModel` lets them (`TablesAgree` is why a committed batch brings
edges and rows together). `Service` puts several writers and projectors on one
database, each in its abstract form: the writer as `IngestLog`, whose INSERTs are open
rows and then visible ones, the projector as the prefix of `FoldedLog`.

### Projection

A **writer** is any transaction that inserts into `events`. `DrawSeq` and
`InsertRow` are separate because `nextval` and the transaction id are taken at
different moments: of two writers either may draw its seq first, get its xid
first and commit first. `xid` is assigned by the first row, so a multi-row
INSERT is several `DrawSeq`/`InsertRow` pairs before one `CommitInsert`.

A **session** is a caller of `run_for`, `project_all` or `rebuild`; `Background`
are the polling tasks. `pc` is the statement it is about to run:

| action | code |
|---|---|
| `Call`, `CallRebuild` | the call enters its loop, or begins the rebuild transaction |
| `LockCursor`, `SkipLocked` | `SELECT ... FOR UPDATE [SKIP LOCKED]`, including the wait |
| `SelectBatch`, `NothingLeft` | the log query, with rows and without |
| `FoldEvent` | one turn of the `for` loop over the batch |
| `CommitBatch` | `UPDATE projection_state`, `COMMIT`, and the budget check of `run_for` |
| `Truncate`, `ResetCursor`, `CommitReset` | the transaction of `rebuild` |
| `Fail`, `DeadlockVictim` | an error, a dropped caller or a dead process: rollback |

A **bystander** is any other transaction; it only holds xmin back. A session's own
transaction id, assigned by FOR UPDATE, does so too: `horizon` records where it
lies among the ids of the writers. `BelowXmin` is the watermark of the log query.
Locks are not variables but follow from `pc` and `done`: the cursor row from
`LockCursor` or `ResetCursor` on, the read tables from the first applied mutation
on (events in `Silent` yield none), all read tables from `Truncate` on. A
rebuild and a projector take them in opposite orders, hence `Deadlocked`.

`folded` stands for the read tables: the sequence of the events applied to them
since they were last truncated; what one event's mutations do to the rows is
`ReadModel`. `ever` is a history variable.

`FoldedLog` states the same promise without transactions: committed events
appear only after everything folded (`Appear`), a fold extends the prefix
without gap or repetition (`Fold`), a rebuild starts again (`Reset`).
`Projection` implements it with `log <- CommittedRows`.

### BufferedWriter

A request enqueues its events one after the other: `Count` (the increment of
`pending`), then `Send`, `AwaitSlot` when the channel is full, `SendFails` when the
task is gone. `Cancel` is the server dropping the handler of a client that hung
up. The task is one loop: `Receive` and `Tick` are the branches of `select!`,
`Drain` the closed channel; a flush is `InsertCommits` or a failure, then
`Written` or `AnswerLost`, with `attempt` counting the retries. An INSERT that
commits and one that is acknowledged are two steps, so that the answer can be
lost or the task aborted between them. `InsertTooLarge` is the protocol's limit
of bind parameters. `DropRouter`, `Shutdown` and `DrainTimeout` may come in any
order relative to the requests and to the INSERT in flight.

The converter always sets the event of a view, so the branch of `flush` for empty
views does not occur and every buffered event is a row. A crash of the process
loses what the writer holds, by design, and nothing of its state survives it;
it is not an action.

### BatchIngest

`build_event` decides by the members of a document what it is, in the code's
order; a document is a record of just that. `Arrive` converts the body, `Enqueue`
hands over one event, `Unavailable` is the 503 of a writer that stopped in
between, `HangUp` a handler that is dropped, `Resend` a client without an answer.
`PostNoArray` is the 400 of a batch whose body is not an array, which looks at no document.
The events of a body are the places of its readable documents, in order
(`Selected` of `Selection`).

### Processors, ReadTables, ReadModel

`IsDocument` says what an event is after the converter: its lists are sequences and
an empty name is no name. `EventRow` is the row of `events`; of the lineage facets it has
those the converter lifts, of inputs and outputs or of the dataset (`LiftedEntries`). A
schema facet may fail to parse as the typed one (`typed`) and a column may have no name:
the two cases in which the columns that `datasets` stores have no rows. Each processor
is an operator from a row to a sequence of mutations, and `MutationsOf` runs them in the
order of the registry. `apply` has one operator per
SQL statement: `Latest` is the guard `at >= guard OR guard IS NULL`, `Put` the
upsert with the trigger of migration 0002, which overwrites `updated_at`; `Set` assigns
columns of a row, `With` a row of a table, `Touch` widens the times a row was seen at.
`ReadModel` applies the mutations one at a time, since a reader between events
and the next mutation of the same event see what came before. The order of the
events is arbitrary: event times need not follow the log, and a retried INSERT
repeats events. `folded` and `applied` are the history the properties compare the tables
with, events and mutations: they say of which one a row must be, without folding anything
again. `SchemaIsLatest` goes back to the events: `WritersOf(d)` are the run and
job events with columns for `d` as an output, the only ones whose schema is shown,
and `Declaring(f)` the events that have a column in any schema that parses.

### Service

A session is a settle caller, or a replica standing for its polling task and
final fold. `from` numbers the events in the order of their acceptance;
`unwritten` is a replica's writer; `log` holds rows of open transactions too, and
`Visible` ends before the first, as the watermark does. `Settle`, `Flushed` (in
time or not) and the steps of `RunFor` are one call; `answer` tells how it ended:
`caught_up` after an empty page, `contended` when `run_for` says caught_up because
another session holds the cursor. `Shutdown`, `Drained` or `DrainTimeout`,
`FinalFold` and `Close` are the statements of `Service::shutdown`; `Crash` may come
at any of them. `owed` is what a caller may believe folded. An INSERT under way when its writer is
aborted or dies is rolled back or commits all the same, decided at that moment
(`LoseWriter`). That a failed INSERT may have committed, so that the retry repeats
it, is left to `BufferedWriter`, which splits the commit from its answer; here `CommitInsert` is
both.

### Migrations

A build is the sequence of its migrations' checksums. `MigrateLock` to
`MigrateDone` are sqlx's migrator, whose lock is the connection's; `Probe`,
`CheckLock`, `Check`, `Unlock` are the statements of `ensure_schema_current`, with
the unlock on both outcomes. Processes crash anywhere and start again.

### GraphWalk, NodeIds, Lineage, FieldLineage, Paging

`Lineage` has one action per statement of `LineageStore::lineage` (`Exists`,
`QueryReach`, `QueryIncident`, one `BuildNode` per id), with `Fold` and `Truncate`
of the projection between them. Edges are stored as node ids, built and parsed
by `NodeIds`, where a text is a sequence of words and separators. The depth goes
through what each surface makes of it, and through an i32, whose largest value
is `I32_MAX`.
`GraphWalk` recomputes on the answer what the client shows.

`FieldLineage` keeps the column edges as `inputs[f]`; the client's `Fetch`,
`FetchColumn` per column and `Render` interleave with replaced lineage and new
tags. `Paging` counts and reads each page in two statements.

## Runs

| Run | Shows |
|---|---|
| `projection` | safety: `NothingSkipped`, `FoldedOnceInOrder`, `NothingAppearsBehindCursor`, `CursorAdvances`, `CaughtUpOnReturn`, the inductive `IInv`; refinement: `ImplementsFoldedLog`; liveness: `EventuallyFolded`, `CallsReturn` |
| `writer` | safety: `FlushedMeansWritten`, `NothingDropped`, `WrittenInOrder`, `DuplicatesOnlyFromLostAnswers`, the inductive `IInv`; refinement: `ImplementsIngestLog`; liveness: `AcceptedIsWritten`, `RequestsAnswered` |
| `writer_cancelled_enqueue` | violated: `PendingIsUnwritten` |
| `writer_outage_wedges` | violated: `OutageDropsNothing` |
| `batch_ingest` | `AcceptanceAddsUp`, `AttemptsLeavePrefixes` |
| `read_model` | `JobEdgesAreLatest`, `SchemaIsLatest`, `ColumnLineageIsLatest`, `RunIsAsFarAsAnyEventSays`, `NewestMetaIsShown`, `TablesAgree` |
| `service` | safety: `SettledIsFolded`, `StoppedIsFolded`, the inductive `IInv`; liveness: `EventuallyFolded` |
| `service_contended_settle` | violated: `CaughtUpIsFolded` |
| `migrations` | `StartsOnExactlyItsSchema`, `EventuallyServes` |
| `lineage` | `AnswerBetweenSnapshots`, `AnswerHangsTogether`, `TraceIsDirected`, `TraceEndsAtSources`, `NodeIdsReadBack`, `TargetsResolve` |
| `field_lineage` | `DerivationsAreReal`, `ExposureIsTheColumnReach` |
| `paging` | `CountedPagingReachesAll` |

**Bounds.**

- *Projection.* Two writers give both orders of seq, xid and commit; one bystander
  and the sessions' own transactions hold the watermark. Two sessions, one
  polling and one free to call anything, give contention, Skip and Wait, and the
  deadlock of a rebuild. There are at most two rows (`MaxSeq = 2`), of which one may be older
  than the xid column (`MaxLegacy = 1`, xid 0, projected or not at the start, as after
  migration 0005). With `BATCH = 2` batches are full and partial; none splits a transaction,
  which only the proofs cover. Event 1 is `Silent`. One rebuild and one failure fall anywhere.
- *BufferedWriter.* A channel of one slot and a buffer of two make handlers wait;
  two batches make four events. With one retry, two failed INSERTs exhaust a flush,
  so that a batch is retained and grows, and one answer may be lost. `InsertLimit`
  (4681 rows in the code) is two, which a retained batch outgrows.
- *BatchIngest.* Requests of up to three documents of each kind (an object or not,
  without a time, unreadable, with the members of two kinds), three attempts.
- *ReadModel.* Six documents of one job: a start, a failure and a completion whose
  times do not follow the log, a running event without lineage whose schema does not
  parse, a job event without a time, with a schema on an input and a column without a
  name, a dataset event with a schema; up to seven of them in every order. Each
  table is reached by two documents that disagree and by one that is silent.
- *Service.* Two replicas, one polling and one on demand, one caller, two events,
  batches of one so that a fold takes two turns, a shutdown or crash, a failure.
  `service_contended_settle` has two on-demand replicas and two callers.
- *Migrations.* A build with one migration and one with three; a database that is
  new, current, half migrated, edited after deploy, ahead of both, or dirty;
  two crashes.
- *Lineage.* Three datasets and two jobs, with namespaces with and without a scheme
  and names with colons and slashes; three batches, of which the last closes a
  cycle; `MAX_DEPTH` of three, shorter than the longest walk; one rebuild. Of an answer
  that a rebuild cut through nothing is claimed (`Answered`): its statements may see
  empty tables. The
  first request names any of 35 entities, whose namespaces and names have every form
  the code tells apart, in the tables or not; later ones name rows of the tables.
- *FieldLineage.* Four fields of three datasets with cycles, a tag on a field, on one
  column of two and on a dataset; `MAX_DEPTH` of two. No column is computed from
  another one of its own dataset (see below).
- *Paging.* Six rows of two namespaces, pages of two.

All safety properties of these runs and both refinements are also proved, without the
bounds.

The writer stops at the end of a shutdown, and its bounded events end, as do the
events of `read_model`: these runs do not check deadlock, the others do.

**Fairness.** Projection: the polling tasks poll, statements run and lock waits
are served in the end (strong fairness of a session's next statement: PostgreSQL
queues lock waiters), open transactions end, deadlocks are detected. Nothing
forces a rebuild, an on-demand call, an insert or a failure. Writer: handlers and
the task are polled, the semaphore of the channel hands out slots in turn,
`select!` chooses at random among ready branches and the interval ticks (strong
fairness of `Receive` and `Tick`), INSERTs end, a started drain timeout expires.
Failures are bounded, which is the assumption that an outage ends. Service:
INSERTs and statements end, polling tasks poll, a shutdown that has begun goes on
(its drain is done or times out), and the orchestrator starts a replica again; no
request, settle, shutdown or crash is forced. Migrations: processes run and are
started again, and the advisory lock is handed to the waiting in turn.

Every property of a passing run has a mutation of the code that violates it
(`mutants` in PROJECT.json). The mutated definitions stand before the one they
replace and are marked "Mutation"; no specification uses them.

## Findings

- **A dropped `enqueue` stays counted** (`writer/buffered.rs:77`). After a client
  hangs up while its handler awaits a slot, `pending` never returns to zero:
  `flushed()` never resolves again in that process. It errs on the safe side:
  `FlushedMeansWritten` still holds.
- **A long outage wedges the writer** (`writer/buffered.rs:182`). The task keeps
  receiving after a failed flush and sends the whole buffer in one INSERT; past
  65535 / 14 rows no INSERT can succeed any more. `AcceptedIsWritten` excepts it.
- **A settle that says caught up may leave its events unfolded**
  (`projection/mod.rs:150`). `run_for` takes a held cursor for "the holder is already
  folding these events", but the holder may have selected its batch before they
  were visible, and stop after it. Without a polling task nobody folds them
  until the next call. `SettledIsFolded` holds for the answers after an empty page.

The properties that pass are stated around further places where the code does less
than a comment says. They were met while modelling and no run is spent on them:

- A retry sends again what was committed when only the answer was lost; the comment
  calls it safe (`writer/buffered.rs:224`). `DuplicatesOnlyFromLostAnswers` bounds it.
- Of two terminal events of a run the one folded last decides, whatever their
  times (`projection/backend/postgres.rs:326`); `mutation.rs:11` says order-insensitive.
- `RunMetaProcessor` and `RunStateProcessor` do not "gate on the *same* run+job identity"
  (`projection/mutation.rs:119`, `postgres.rs:447`): the former asks for the run only
  (`processors/run_meta.rs:23`). The metadata of a run event without a job, whose run
  no other event has written, is an UPDATE that finds no row and is lost.
  `NewestMetaIsShown` is checked and proved for run events that name their job
  (`RunsNameTheirJob`).
- `location`, `parent`, `description` and `tags` of a job share `meta_at`: an event with
  one of them keeps an older event from setting another (`postgres.rs:479`).
- The trigger of migration 0002 (line 27) overwrites the event-derived `updated_at`, by
  which the runs of a job are ordered (`read/queries.rs:200`).
- `datasets.fields` shows only the schemas of the outputs of run and job events: a
  dataset event passes no fields (`processors/core.rs:189-197`), inputs never do. The schema
  processor takes all of them (`processors/schema.rs:34`), so `dataset_fields` and the
  versions may be newer than what the dataset shows. `SchemaIsLatest` says which is which.
- The fields are stored as they came (`core.rs:276-283`), also if the facet does not parse
  as the typed one or a column has no name, in which case there is no version and no
  column row (`schema.rs:79-88`). `TablesAgree` claims them only where the facets parse.
- Columns that a newer schema drops stay in `dataset_fields` (`postgres.rs:403`), which
  `SchemaIsLatest` states; an output field declared again without inputs keeps its old ones
  (`postgres.rs:667`). Column lineage and the tags of columns may name columns that have
  no row; `TablesAgree` says nothing of those.
- `read/http.rs:132-133` lists the fields reachable "via column (then table) lineage", and
  `docs/adr/0009-tag-pii-propagation.md:42-43` says "A table-level fallback (over
  `lineage_edges`) covers datasets that lack column lineage". `tag_downstream` has no such
  fallback (`read/queries.rs:842-867`): a dataset fed from a tagged one at table level only
  is not exposed. `ExposureIsTheColumnReach` is about column lineage alone, as the
  comment of the query has it (`queries.rs:836-840`).
- A REST depth from 2^31 on becomes negative in `depth as i32` (`read/queries.rs:401`).
- The namespace of a node id ends before a port: `postgres://host:5432`
  (`read/ids.rs:106`) does not read back. `NodeIdsReadBack` is over namespaces without one.
- The CLI splits a dataset's id at the last colon, the server at the first
  (`commands/column_lineage.rs:33`); it drops the second node it meets for an id,
  and with it the derivation of a column computed from its own dataset (line 53);
  and a trace cut by its depth reports what lies at the cut as a source.
- `column_lineage` expands a bare dataset, of which the CLI says that it does not
  (`commands/column_lineage.rs:21`); a field further than `MAX_DEPTH` from a tag is
  not exposed (`read/queries.rs:861`).
- Lists across namespaces are ordered by name alone, which leaves ties
  (`read/queries.rs:131`), and a row inserted between the last count and its page moves the
  last one past the total (line 112); `CountedPagingReachesAll` excepts that case.

## What is proved

Every theorem is over all values of the constants that the named assumptions of
its module allow: the sets of writers, sessions, requests, replicas, processes
and documents may be of any size, and the bounds any number.

| Module | Assumptions | Theorems (`Spec => []...` unless noted) |
|---|---|---|
| `Projection_proofs` | batches are not empty, `MaxLegacy \in Nat`, background sessions are sessions | `TypeOK`, `IInv`, `NothingSkipped`, `FoldedOnceInOrder`, `NothingAppearsBehindCursor`; steps: `CursorAdvances`, `CaughtUpOnReturn`; `Spec => ImplementsFoldedLog` |
| `BufferedWriter_proofs` | batches, channel and buffer are not empty, `MAX_RETRIES \in Nat` | `TypeOK`, `IInv`, `FlushedMeansWritten`, `NothingDropped`, `WrittenInOrder`, `DuplicatesOnlyFromLostAnswers`; `Spec => ImplementsIngestLog` |
| `BatchIngest_proofs` | bodies are sequences of documents | `IInv`, `AcceptanceAddsUp`, `AttemptsLeavePrefixes` |
| `ReadModel_proofs` | documents are what the converter makes (`IsDocument`); NULL is no number and no run state | `IInv`, `JobEdgesAreLatest`, `SchemaIsLatest`, `ColumnLineageIsLatest`, `RunIsAsFarAsAnyEventSays`, `TablesAgree`; with `RunsNameTheirJob`: `NewestMetaIsShown` |
| `Service_proofs` | a caller has a replica and is none, batches are not empty | `IInv`; steps: `SettledIsFolded`, `StoppedIsFolded` |
| | of `Migrations`: builds are sequences of checksums, servers migrate nothing | `MigrationsIInv`; step: `StartsOnExactlyItsSchema` |
| `Lineage_proofs` | `1 <= MAX_DEPTH <= MAX_LIMIT <= I32_MAX`; with `RowsReadBack` and `DepthsFit`: | `IInv`, `AnswerBetweenSnapshots`, `AnswerHangsTogether`; with finitely many `Nodes` also: `TraceIsDirected`, `TraceEndsAtSources` |
| | with `Texts(W)`, and for the first two readable names: | `NodeIdsReadBack`, `RowsReadBack`; `TargetsResolve` |
| `Queries_proofs` | of `Paging`: pages are not empty, names have an order; with `NamesDiffer`: | `IInv`, `CountedPagingReachesAll`; `NamesDiffer` of lists of one namespace |
| | of `FieldLineage`: a schema names each of its columns once; with `NoneFromSiblings`: | `FieldIInv`, `DerivationsAreReal` |
| | `MAX_DEPTH` is a number | `ExposureIsTheColumnReach` |

`Service_proofs` and `Queries_proofs` extend two state machines each and speak of one at
a time; that is why `Migrations` and `FieldLineage` have an `Init`, a `Next` and an invariant
of their own names.

None of the safety invariants is inductive on its own, but for `ExposureIsTheColumnReach`, which
every state has. Each module has an `IInv` (`MigrationsIInv`, `FieldIInv`) that is; TLC
checked it on the module's instance before it was proved, and in the runs `projection`,
`writer` and `service` it still does.

**Projection.** That a committed batch keeps `NothingSkipped` depends on what
happened since the batch was selected, so `IInv` adds: transaction ids in use have
been assigned (`XidsAssigned`); one session holds the cursor row and the cursor it
read is still the committed one (`CursorLocked`); the batch under way, applied and
remaining rows together, is an initial segment of the committed rows after the
cursor, all of it below every open transaction (`BatchesAreNext`); the cursor and
everything ever folded lie below the watermark and stay committed
(`WatermarkPassed`). The key lemma is that being below the watermark is stable
(`WatermarkRises`): transactions that start later have higher ids, and those that
end only raise it. Hence a row that appears while a batch is folded lies after
the batch (`LogMovesKeepIInv`), and the commit of the batch moves the cursor exactly
over it (`CommitBatchKeepsIInv`). The refinement maps writers' steps to `Appear`,
`CommitBatch` to `Fold`, `CommitReset` to `Reset` and the rest to stutters.

**BufferedWriter.** The accepted events are cut in three: the settled, the buffer
and the channel (`QueueInOrder`), so that each knows its place; no event is accepted
twice (`AcceptedOnce`); the log holds the settled and nothing beyond the buffer, and a
batch that waits for its answer is its last segment (`LogInStep`), which is what makes
a retry repeat that segment and no other event (`WrittenInOrder`, `CopiesPaidFor`);
`pending` counts at least the handlers inside `enqueue`, the channel and the buffer
(`PendingCovers`). From the last, `pending = 0` leaves nothing unwritten. It is
only a bound because of the first of the findings. `IngestLog` is
implemented with `settled` and `aborted` read off the state: `Send` is `Accept`,
`InsertCommits` is `Write`, `Written` is `Acknowledge`, `DrainTimeout` is `Abort`.

**Service.** An accepted event is with the writer that accepted it, in a committed row
or lost (`EventsKept`); past its drain a replica's writer holds nothing
(`DrainedIsEmpty`); what a settle owes was accepted before it, and once its wait has
ended in time is written or lost (`CallsInStep`). An empty page below the first open
row then says that all of it has been folded.

**Migrations.** Whoever is past the probe holds the lock (`LockHeld`), so what a server
found is still so when it acts on it (`FindingIsFresh`).

**BatchIngest.** What is left of an attempt is the end of the body's events, and the
writer got the others last, in their order (`AttemptInOrder`); an event that this
attempt has not handed over yet has fewer copies than there were attempts
(`CopiesPerAttempt`).

**ReadModel.** The argument has two halves. *Events*: the mutations of an event come
complete (`Together`: every row that one refers to has an upsert in the same event)
and well formed (`Mutations`, `WellFormed`), and an UPDATE comes after the upsert of its
row (`RowsFirst`). This is proved of each processor, for sequences of any length
(`DocumentMutations`). *Rows*: the tables have exactly the rows of the applied mutations
(`TableKeys`), and the time under a guard is that of the newest of them (`Stamp` in
`JobRows`, `DatasetRows`). The lemma behind the guards is `StampMoves`: a mutation
that passes `at >= guard OR guard IS NULL` is among the newest, and one that does not
leaves the newest as they were. So each row stays that of the newest mutations,
whatever order they come in (`ApplyJobs`, `ApplyDatasets`, `ApplyFields`, `ApplyRuns`,
`ApplyColumnEdges`); for column edges, DELETE of the older and INSERT unless one is newer
leave exactly the newest of an output field (`UpsertColumnEdgeRows`). With `todo` empty,
"sent" means applied, and `Together` is `TablesAgree`. What the tables owe to events rather
than mutations goes through `SentByEvents`: the mutations sent are exactly those of the folded
events. `ShownSchema` and `ShownColumn` turn the newest mutation of `SchemaOfMutations`
into the newest event of `SchemaIsLatest`, and, where the facets parse, the event whose
schema is shown made its version and columns (`ColumnsMade`).

**Lineage.** The hypotheses are facts about the inputs that the code does not ensure.
`RowsReadBack` says that the node id of every row is parsed to that row; it is false of
a namespace with a port, whose rows `build_node` then leaves out. `DepthsFit` says
that no REST depth wraps around in `depth as i32`. Both are among the places listed
above, and TLC checks the properties where both hold.
The statements of a request see different states of the tables, so `IInv` says after
each what it knows between the tables of the beginning and those of now
(`ReachedInStep`, `IncidentInStep`, `GraphInStep`), as long as no rebuild was committed in
between; tables that only grow keep that (`SteadyStep`). The recursive query and the
documentation speak of different things, a fixpoint of rows with depths and a path of
bounded length; `ReachIsNear` proves them equal, so a path that is in the tables at the
beginning is found by each later statement. That a node is found
through edges which are in the answer themselves needs that every edge on a path touches a
reached node (`Within`). The client walks the answer without a bound on depth: a walk
over finitely many nodes needs no more steps than there are nodes (`NearSaturates`), which
makes its fixpoint the set of everything on a path (`ReachableIsNear`).

**Node ids.** `Readable(ns, name)` is what `NodeIdsReadBack` needs of a name: the namespace
has no colon, or is a URI without a port; and the two together do not look like a URI
(namespace `s3`, name `//x`, which is cut at another colon). The theorems hold for all names that are sequences over
any set `W` of words, and fields without colons. A text put together from two parts and
a separator is taken apart at the first (last) separator, when there is none
in the first (second) part (`BeforeAfter`, `SplitOnce`, `SplitLast`, `SplitName`). So the ids of
readable entities differ, `RowsReadBack` follows from readable names of the rows
(`ReadableRowsReadBack`), and a typed target is resolved to what it names for all texts,
readable or not (`TargetsOfTextsResolve`).

**Paging.** A row of the beginning that the client does not have yet lies at or after its
offset: at least that many rows come before it by name (`OwedLieAhead`). An insert only adds to the
rows before it, and a page takes those whose number of preceding rows lies in it
(`PlaceCounts`: a row's place in the order tells how many precede it), so an owed row
that is not on the page has a page's worth more before it (`PageTakes`). When the count is
as fresh as the page and the offset has reached it (`CountIsFresh`), an owed row
would have all rows before it, itself included. If no row has come at all, the pages
are the ordered list from its beginning (`ReceivedInOrder`, `PageGoesOn`), and the end of the
total is the end of the list. The argument needs one order for all
pages. `NamesDiffer` gives it; it holds of every list of one namespace
(`OneNamespaceNamesDiffer`) and not of the list of all, which is one of the places
above. Names are ordered by integers, which suffices for the rows of any finite part
of a behaviour.

**FieldLineage.** Between two answers the projection may replace the lineage of any column, and
a client that drops the nodes it has seen could mix two answers or lose one. `MergedInStep`
says that it does neither: the edges into a column that was asked for are those of one
answer, an input set the column had during the request, and their node came with
them. The step is `FetchColumnMerges`: the node of the next column cannot have come
before, because earlier answers bring, of this dataset, only the nodes of the columns
they were asked for. That is the hypothesis `NoneFromSiblings`, which the code does not ensure
(without it the node, and the derivation with it, is dropped).
The exposure of a tag, by column lineage, needs no invariant: it is an answer of one statement, and the
theorem holds of every state of the tables. The working table after d rounds
holds the ends of the paths of d steps (`WorkHoldsEnds`), cycles or not, since a path
may repeat fields (`PathGrows`, `PathShrinks`).

`SequenceLemmas` proves an induction over the natural numbers from the least element
of a set of numbers; with it, that recursive functions such as the flattening of a
sequence of sequences have the values their equations say.

Only model-checked: liveness (`EventuallyFolded`, `CallsReturn`, `AcceptedIsWritten`,
`RequestsAnswered`, `EventuallyServes`), which is beyond the prover. The three runs that
find a violation have nothing to prove.

## Not modelled

- *Generated code.* About 55,500 of the repository's 67,600 lines of implementation
  are the protobuf and Connect code of `headwaters-proto`, derived from the `.proto`
  files: encoders and accessors without a decision of this system. The modules
  stand for the core of the twelve thousand lines written by hand.
- *Read queries of one statement* (namespaces, search, events, run facets, versions,
  tags, statistics): they render rows, keep nothing and decide nothing.
- *Transports, routing, configuration, client requests, argument parsing, rendering,
  the user interface*: stateless, beyond the depth of a lineage query, node ids and
  typed targets, which are modelled.
- *Durations.* A timeout may fire at any moment, a deadline may pass at any check.
- *Fresh version ids and audit columns* of the read tables.
- *An event that the database refuses every time* (`projection/mod.rs:288`): failures are
  bounded in the models. It stops the log, and no comment promises otherwise.
- *Edges a newer event of a job no longer carries* (`postgres.rs:386`): they stay in
  `lineage_edges`; the comments disagree on what is meant, and `TablesAgree` states only
  that the current ones are there.

## What comes next

The list of all namespaces and the column computed from its own dataset are where
`NamesDiffer` and `NoneFromSiblings` fail: if the code comes to order by namespace too,
and to merge the edges of a node it has seen, the hypotheses can go. The statements left
out of the read queries would be modelled when one of them comes to depend on another.
