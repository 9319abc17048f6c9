------------------------------ MODULE ReadTables ------------------------------
(***************************************************************************)
(* The read tables and the upsert of each mutation                         *)
(* (projection/backend/postgres.rs).  A table is a function from the       *)
(* primary keys of its rows to the rows; db holds one per table.           *)
(*                                                                         *)
(* Left out: the version ids of jobs and datasets (uuidv7(), fresh when    *)
(* edges or fields change), the audit columns, and columns that are        *)
(* handled like one that is here (job_type like location; the parent's     *)
(* namespace and name, and the two ends of the nominal time, are one).     *)
(***************************************************************************)
EXTENDS Processors

CONSTANT Now   \* the database's clock, later than the times of the events

-------------------------------------------------------------------------------
(* Rows *)

Least(a, b) == IF a <= b THEN a ELSE b
\* GREATEST ignores NULL.
Greatest(a, b) == IF a = Null \/ a <= b THEN b ELSE a

\* Mutation: the last applied event wins, whatever its time.
AlwaysLatest(at, guard) == TRUE
\* at >= guard OR guard IS NULL
Latest(at, guard) == guard = Null \/ at >= guard

\* SET columns: the columns of a row that an assignment names change.
Set(row, columns) ==
  [c \in DOMAIN row |-> IF c \in DOMAIN columns THEN columns[c] ELSE row[c]]

\* The columns of an assignment that a condition enables.
When(c, columns) == IF c THEN columns ELSE << >>

\* The columns of a record that are not NULL.
Present(columns) ==
  [f \in {g \in DOMAIN columns : columns[g] # Null} |-> columns[f]]

\* The row with this key, or the one an INSERT starts from.
RowOf(table, key, fresh) == IF key \in DOMAIN table THEN table[key] ELSE fresh

\* The table with this row under that key.
With(table, key, row) ==
  [k \in DOMAIN table \cup {key} |-> IF k = key THEN row ELSE table[k]]

\* INSERT ... ON CONFLICT DO UPDATE.  The trigger set_updated_at of migration
\* 0002 overwrites updated_at whenever an UPDATE changes the row.
Put(table, key, row) ==
  LET touched == key \in DOMAIN table /\ row # table[key]
  IN With(table, key, Set(row, When(touched, [updated_at |-> Now])))

Seen(row, at) ==
  [created_at |-> Least(row.created_at, at), updated_at |-> Greatest(row.updated_at, at)]

\* Mutation: the guard is tested and never set.
SetMetaUnstamped(row, m) == Set(row, When(Latest(m.at, row.meta_at), Present(m.meta)))
\* The optional columns under one meta_at guard, in set_run_meta,
\* set_job_meta and set_dataset_meta.
SetMeta(row, m) ==
  Set(Set(row, [meta_at |-> Greatest(row.meta_at, m.at)]),
      When(Latest(m.at, row.meta_at), Present(m.meta)))

-------------------------------------------------------------------------------
(* One operator per statement *)

Fresh(at) == [created_at |-> at, updated_at |-> at]
\* The row takes part in an event at this time.
Touch(row, at) == Set(row, Seen(row, at))

note_namespace(t, m) ==
  IF m.key = "" THEN t
  ELSE Put(t, m.key, Touch(RowOf(t, m.key, Fresh(m.at)), m.at))

FreshJob(at) ==
  [inputs |-> << >>, outputs |-> << >>, edges_at |-> Null,
   description |-> Null, tags |-> << >>, meta_at |-> Null,
   location |-> Null, parent |-> Null, created_at |-> at, updated_at |-> at]

upsert_job(t, m) ==
  LET old == RowOf(t, m.key, FreshJob(m.at))
      has_meta == m.description # Null \/ m.tags # Null
      edges == When(m.edges # Null /\ Latest(m.at, old.edges_at),
                    [inputs |-> m.edges.inputs, outputs |-> m.edges.outputs, edges_at |-> m.at])
      meta == When(has_meta /\ Latest(m.at, old.meta_at),
                   [description |-> m.description, tags |-> m.tags, meta_at |-> m.at])
  IN Put(t, m.key, Set(Set(Touch(old, m.at), edges), meta))

state_rank(state) ==
  CASE state \in {"COMPLETED", "FAILED", "ABORTED"} -> 2
    [] state = "RUNNING" -> 1
    [] OTHER -> 0

\* Mutation: a running event after the end sets the run running again.
StateByArrival(old, new) == IF state_rank(new) > 0 THEN new ELSE old
\* The CASE of fold_run: a terminal state comes in over anything, and is
\* replaced by nothing else; otherwise the higher rank wins, ties incoming.
NextState(old, new) ==
  IF state_rank(new) = 2 \/ (state_rank(old) < 2 /\ state_rank(new) >= state_rank(old))
  THEN new ELSE old

FreshRun(m) ==
  [job |-> m.job, state |-> "NEW", started_at |-> Null, ended_at |-> Null,
   nominal |-> Null, parent_run_id |-> Null, error_message |-> Null,
   meta_at |-> Null, created_at |-> m.at, updated_at |-> m.at]

fold_run(t, m) ==
  LET old == RowOf(t, m.key, FreshRun(m))
      state == [state |-> NextState(old.state, IF m.state = Null THEN "NEW" ELSE m.state)]
      started == When(m.is_start, [started_at |-> m.at])
      ended == When(m.is_terminal, [ended_at |-> m.at])
  IN Put(t, m.key, Set(Set(Set(Touch(old, m.at), state), started), ended))

FreshDataset(at) ==
  [fields |-> << >>, schema_at |-> Null, description |-> Null,
   source_name |-> Null, deleted |-> FALSE, meta_at |-> Null,
   created_at |-> at, updated_at |-> at]

\* Mutation: an event without a schema erases the stored one.
NoteDatasetErasing(t, m) ==
  LET old == RowOf(t, m.key, FreshDataset(m.at))
      schema == When(Latest(m.at, old.schema_at),
                     [fields |-> IF m.fields = Null THEN << >> ELSE m.fields, schema_at |-> m.at])
  IN Put(t, m.key, Set(Touch(old, m.at), schema))
note_dataset(t, m) ==
  LET old == RowOf(t, m.key, FreshDataset(m.at))
      has_schema == m.fields # Null /\ m.fields # << >>
      schema == When(has_schema /\ Latest(m.at, old.schema_at),
                     [fields |-> m.fields, schema_at |-> m.at])
  IN Put(t, m.key, Set(Touch(old, m.at), schema))

upsert_dataset_field(t, m) ==
  LET new == [type |-> m.type, ordinal |-> m.ordinal, schema_at |-> m.at]
      old == RowOf(t, m.key, new)
  IN With(t, m.key, IF Latest(m.at, old.schema_at) THEN new ELSE old)

\* A bare UPDATE, in set_run_meta and set_job_meta.
update_meta(t, m) ==
  IF m.key \in DOMAIN t THEN Put(t, m.key, SetMeta(t[m.key], m)) ELSE t

set_dataset_meta(t, m) ==
  Put(t, m.key, SetMeta(RowOf(t, m.key, FreshDataset(m.at)), m))

upsert_source(t, m) ==
  LET old == RowOf(t, m.key, [connection_url |-> Null, created_at |-> m.at, updated_at |-> m.at])
  IN Put(t, m.key, Set(old, Present([connection_url |-> m.connection_url])))

tag_assignment(t, m) ==
  With(t, m.key, Greatest(RowOf(t, m.key, Null), m.at))

\* ON CONFLICT DO NOTHING
insert_once(t, key, row) == With(t, key, RowOf(t, key, row))

\* Mutation: an older event adds its edge although a newer one replaced it.
ColumnEdgeUnguarded(t, m) ==
  LET kept == {k \in DOMAIN t : k[2] = m.key[2] => t[k].edge_at >= m.at}
  IN With([k \in kept |-> t[k]], m.key, [how |-> m.how, edge_at |-> m.at])
\* DELETE the output field's edges that are older; INSERT unless one is newer
\* (so an edge of the same key has this very time and is overwritten).
upsert_column_edge(t, m) ==
  LET kept == {k \in DOMAIN t : k[2] = m.key[2] => t[k].edge_at >= m.at}
      newer == \E k \in kept : k[2] = m.key[2] /\ t[k].edge_at > m.at
      rest == [k \in kept |-> t[k]]
  IN IF newer THEN rest ELSE With(rest, m.key, [how |-> m.how, edge_at |-> m.at])

-------------------------------------------------------------------------------
(* PgApplier::apply *)

Empty ==
  [namespaces |-> << >>, jobs |-> << >>, runs |-> << >>, datasets |-> << >>,
   lineage_edges |-> {}, dataset_fields |-> << >>, dataset_versions |-> << >>,
   sources |-> << >>, column_lineage_edges |-> << >>, tags |-> {},
   tag_assignments |-> << >>]

Ops ==
  {"NoteNamespace", "UpsertJob", "UpsertRunState", "UpsertDataset",
   "UpsertLineageEdge", "UpsertDatasetField", "EmitDatasetVersion", "SetRunMeta",
   "SetJobMeta", "SetDatasetMeta", "UpsertSource", "UpsertColumnEdge",
   "UpsertTag", "TagAssignment"}

apply(db, m) ==
  CASE m.op = "NoteNamespace" ->
         [db EXCEPT !.namespaces = note_namespace(@, m)]
    [] m.op = "UpsertJob" -> [db EXCEPT !.jobs = upsert_job(@, m)]
    [] m.op = "UpsertRunState" -> [db EXCEPT !.runs = fold_run(@, m)]
    [] m.op = "UpsertDataset" -> [db EXCEPT !.datasets = note_dataset(@, m)]
    [] m.op = "UpsertLineageEdge" -> [db EXCEPT !.lineage_edges = @ \cup {m.key}]
    [] m.op = "UpsertDatasetField" ->
         [db EXCEPT !.dataset_fields = upsert_dataset_field(@, m)]
    [] m.op = "EmitDatasetVersion" ->
         [db EXCEPT !.dataset_versions =
            insert_once(@, m.key, [run_id |-> m.run_id, created_at |-> m.at])]
    [] m.op = "SetRunMeta" -> [db EXCEPT !.runs = update_meta(@, m)]
    [] m.op = "SetJobMeta" -> [db EXCEPT !.jobs = update_meta(@, m)]
    [] m.op = "SetDatasetMeta" -> [db EXCEPT !.datasets = set_dataset_meta(@, m)]
    [] m.op = "UpsertSource" -> [db EXCEPT !.sources = upsert_source(@, m)]
    [] m.op = "UpsertColumnEdge" ->
         [db EXCEPT !.column_lineage_edges = upsert_column_edge(@, m)]
    [] m.op = "UpsertTag" -> [db EXCEPT !.tags = @ \cup {m.key}]
    [] m.op = "TagAssignment" ->
         [db EXCEPT !.tag_assignments = tag_assignment(@, m)]
==============================================================================
