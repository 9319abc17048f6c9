------------------------------- MODULE ReadModel -------------------------------
(***************************************************************************)
(* The read tables under folding: project_once takes the events in log     *)
(* order, which need not be the order of their times, runs the processors  *)
(* on each and applies the mutations one by one; readers see the tables    *)
(* between batches.  A retried INSERT can put an event into the log more   *)
(* than once.  The log's order is therefore arbitrary here, with           *)
(* repetitions.                                                            *)
(***************************************************************************)
EXTENDS ReadTables, FiniteSets

CONSTANTS
  Documents,  \* the events that may be in the log
  MaxEvents   \* bound: the length of the log

ASSUME ReadModelAssumption ==
  /\ \A doc \in Documents : IsDocument(doc)
  /\ Null \notin Int /\ Null \notin Terminal

VARIABLES
  db,        \* the read tables
  todo,      \* the mutations of the event under way not yet applied
  events,    \* number of events folded
  folded,    \* the documents of those events (history variable)
  applied    \* the mutations applied, by kind (history variable)

vars == <<db, todo, events, folded, applied>>

Init ==
  /\ db = Empty
  /\ todo = << >>
  /\ events = 0
  /\ folded = {}
  /\ applied = [op \in Ops |-> {}]

\* registry.process(&row.ev)
Process(doc) ==
  /\ todo = << >>
  /\ events < MaxEvents
  /\ events' = events + 1
  /\ folded' = folded \cup {doc}
  /\ todo' = MutationsOf(EventRow(doc))
  /\ UNCHANGED <<db, applied>>

\* applier.apply(&mut tx, m)
Apply ==
  /\ todo # << >>
  /\ db' = apply(db, Head(todo))
  /\ todo' = Tail(todo)
  /\ applied' = [applied EXCEPT ![Head(todo).op] = @ \cup {Head(todo)}]
  /\ UNCHANGED <<events, folded>>

Next == Apply \/ \E doc \in Documents : Process(doc)

Spec == Init /\ [][Next]_vars

-------------------------------------------------------------------------------
(* Properties *)

\* The applied mutations of a kind for a row.
Of(op, key) == {m \in applied[op] : m.key = key}

LatestIn(S) == {m \in S : \A n \in S : n.at <= m.at}

CarryingEdges(j) == {m \in Of("UpsertJob", j) : m.edges # Null}

\* A job shows the inputs and outputs of the newest event that carried any, in
\* whatever order the events were folded: an older one does not bring its edges
\* back, an event without edges erases none (upsert_job).
JobEdgesAreLatest ==
  \A j \in DOMAIN db.jobs :
    LET row == db.jobs[j]
    IN IF CarryingEdges(j) = {} THEN row.inputs = << >> /\ row.outputs = << >>
       ELSE \E m \in LatestIn(CarryingEdges(j)) :
              /\ row.inputs = m.edges.inputs /\ row.outputs = m.edges.outputs
              /\ row.edges_at = m.at

\* The rows of the folded events, and the newest of a set of them.
Rows == {EventRow(doc) : doc \in folded}
NewestOf(E) == {ev \in E : \A other \in E : event_at(other) <= event_at(ev)}

\* The run and job events whose outputs carry columns of this dataset.
WritersOf(d) ==
  {ev \in Rows : ev.event_kind # "dataset" /\ OutputSchema(ev, d) \notin {Null, << >>}}

\* The rows an event has for a column, in the schemas of its entries that parse.
ColumnsOf(ev, f) ==
  UNION {{[type |-> e.schema[i].type, ordinal |-> i, schema_at |-> event_at(ev)] :
            i \in {j \in DOMAIN e.schema : e.schema[j].name = f[2]}} :
         e \in {x \in ToSet(Entries(ev.raw)) : x.ds = f[1] /\ x.schema # Null /\ x.typed}}

Declaring(f) == {ev \in Rows : f[2] \notin Unnamed /\ ColumnsOf(ev, f) # {}}

\* The columns that the schemas of an event declare.
DeclaredBy(ev) ==
  UNION {{<<e.ds, e.schema[i].name>> : i \in {j \in DOMAIN e.schema : e.schema[j].name \notin Unnamed}} :
         e \in {x \in ToSet(Entries(ev.raw)) : x.schema # Null /\ x.typed}}

\* Between events, a dataset shows the columns that the newest run or job event
\* carried for it as its output, whether or not the facet parses; the schemas of
\* inputs and of dataset events are not shown (note_dataset).  Every column that
\* a schema ever named has a row, also when the shown schema has dropped it, and
\* each row is that of the newest event that has the column in a schema that
\* parses, of whatever entry and kind of event (upsert_dataset_field).
SchemaIsLatest ==
  todo = << >> =>
    /\ \A d \in DOMAIN db.datasets :
         IF WritersOf(d) = {} THEN db.datasets[d].fields = << >>
         ELSE \E ev \in NewestOf(WritersOf(d)) : db.datasets[d].fields = OutputSchema(ev, d)
    /\ DOMAIN db.dataset_fields = UNION {DeclaredBy(ev) : ev \in Rows}
    /\ \A f \in DOMAIN db.dataset_fields :
         \E ev \in NewestOf(Declaring(f)) : db.dataset_fields[f] \in ColumnsOf(ev, f)

EdgesOf(out) == {m \in applied["UpsertColumnEdge"] : m.key[2] = out}

\* The inputs of an output column are those of the newest event that declared
\* any for it, all of them and no others, in whatever order the events and
\* their edges were applied ("making the fold fully order-insensitive").
ColumnLineageIsLatest ==
  LET t == db.column_lineage_edges
  IN /\ DOMAIN t = {m.key : m \in UNION {LatestIn(EdgesOf(m.key[2])) :
                                           m \in applied["UpsertColumnEdge"]}}
     /\ \A k \in DOMAIN t : \E m \in LatestIn(EdgesOf(k[2])) :
          m.key = k /\ t[k] = [how |-> m.how, edge_at |-> m.at]

\* A run is as far as any of its events says: one that ended stays ended, a
\* late START does not reopen it ("terminal run states never downgraded").
RunIsAsFarAsAnyEventSays ==
  \A r \in DOMAIN db.runs :
    LET ranks == {state_rank(IF m.state = Null THEN "NEW" ELSE m.state) :
                    m \in Of("UpsertRunState", r)}
    IN /\ state_rank(db.runs[r].state) \in ranks
       /\ \A n \in ranks : n <= state_rank(db.runs[r].state)
       /\ (db.runs[r].ended_at # Null) = (state_rank(db.runs[r].state) = 2)

\* The row has, in every column for which some mutation of S has a value, the
\* value of one of them.
Shows(row, S) ==
  \A c \in UNION {DOMAIN m.meta : m \in S} :
    LET those == {m \in S : m.meta[c] # Null}
    IN those # {} => \E m \in those : row[c] = m.meta[c]

Upserts(S) == {m \in S : m.op = "UpsertJob"}
\* The mutations that set a job's metadata, of two processors.
JobMetas(j) == Of("SetJobMeta", j) \cup {m \in Of("UpsertJob", j) : m.tags # Null}

RunMetaIsShown ==
  \A r \in DOMAIN db.runs : Shows(db.runs[r], LatestIn(Of("SetRunMeta", r)))
DatasetMetaIsShown ==
  \A d \in DOMAIN db.datasets : Shows(db.datasets[d], LatestIn(Of("SetDatasetMeta", d)))
JobMetaIsShown ==
  \A j \in DOMAIN db.jobs :
    LET newest == LatestIn(JobMetas(j))
    IN /\ Shows(db.jobs[j], newest \ Upserts(newest))
       /\ Upserts(newest) # {} => \E m \in Upserts(newest) :
            db.jobs[j].description = m.description /\ db.jobs[j].tags = m.tags

\* A run, job or dataset shows every value that its newest metadata carries: an
\* older event folded later takes none of them back, although several mutations
\* of two processors share the guard meta_at (set_run_meta, set_job_meta,
\* set_dataset_meta, upsert_job).
NewestMetaIsShown == RunMetaIsShown /\ DatasetMetaIsShown /\ JobMetaIsShown

\* Every schema facet that a folded event carries for this dataset parses.
Parses(d) ==
  \A ev \in Rows : \A e \in ToSet(Entries(ev.raw)) : e.ds = d /\ e.schema # Null => e.typed

\* Between events the tables that different processors write agree: the edges a
\* job shows are in the graph the lineage query walks, both ends of every edge of
\* the graph and the job of every run have their rows, and so has every assigned
\* tag; the schema that a dataset shows has its version and a row for each named
\* column, if the dataset's schema facets parse.
TablesAgree ==
  todo = << >> =>
    /\ \A j \in DOMAIN db.jobs :
         /\ \A d \in {db.jobs[j].inputs[i] : i \in DOMAIN db.jobs[j].inputs} :
              <<<<"dataset", d>>, <<"job", j>>>> \in db.lineage_edges
         /\ \A d \in {db.jobs[j].outputs[i] : i \in DOMAIN db.jobs[j].outputs} :
              <<<<"job", j>>, <<"dataset", d>>>> \in db.lineage_edges
         /\ j[1] \in DOMAIN db.namespaces
    /\ \A e \in db.lineage_edges : \A n \in {e[1], e[2]} :
         n[2] \in DOMAIN (IF n[1] = "job" THEN db.jobs ELSE db.datasets)
    /\ \A r \in DOMAIN db.runs : db.runs[r].job \in DOMAIN db.jobs
    /\ \A d \in DOMAIN db.datasets :
         LET fields == db.datasets[d].fields
         IN fields # << >> /\ Parses(d) =>
              /\ VersionOf(fields) # << >> => <<d, VersionOf(fields)>> \in DOMAIN db.dataset_versions
              /\ \A i \in DOMAIN fields : fields[i].name \notin Unnamed =>
                   <<d, fields[i].name>> \in DOMAIN db.dataset_fields
    /\ \A k \in DOMAIN db.tag_assignments : k[1] \in db.tags

-------------------------------------------------------------------------------
(* The inductive invariant *)

\* The mutations of the folded events, applied or not.
Sent == ToSet(todo) \cup UNION {applied[op] : op \in Ops}

\* What every mutation that a processor makes is like.
WellFormed(m) ==
  /\ m.op \in Ops
  /\ m.op \notin {"UpsertLineageEdge", "UpsertTag"} => m.at \in Int
  /\ m.op = "UpsertJob" => m.key[1] # "" /\ (m.description # Null => m.tags # Null)
  /\ m.op = "UpsertRunState" =>
       m.state \in Terminal \cup {"RUNNING", Null} /\ m.is_terminal = (m.state \in Terminal)
  /\ m.op = "SetRunMeta" => DOMAIN m.meta = {"nominal", "parent_run_id", "error_message"}
  /\ m.op = "SetDatasetMeta" => DOMAIN m.meta = {"description", "source_name", "deleted"}
  /\ m.op = "SetJobMeta" => DOMAIN m.meta = {"location", "parent"}

\* M has a mutation of this kind for this row.
Has(M, op, key) == \E m \in M : m.op = op /\ m.key = key

\* The edges of the graph between a job and the datasets it reads and writes.
InEdge(d, j) == <<<<"dataset", d>>, <<"job", j>>>>
OutEdge(d, j) == <<<<"job", j>>, <<"dataset", d>>>>

\* The mutations that come with a mutation: the rows it refers to.
Companions(M, m) ==
  /\ m.op = "UpsertJob" =>
       /\ Has(M, "NoteNamespace", m.key[1])
       /\ m.edges # Null =>
            /\ \A d \in ToSet(m.edges.inputs) : Has(M, "UpsertLineageEdge", InEdge(d, m.key))
            /\ \A d \in ToSet(m.edges.outputs) : Has(M, "UpsertLineageEdge", OutEdge(d, m.key))
  /\ m.op = "UpsertLineageEdge" =>
       \A n \in {m.key[1], m.key[2]} :
         Has(M, IF n[1] = "job" THEN "UpsertJob" ELSE "UpsertDataset", n[2])
  /\ m.op = "UpsertRunState" => Has(M, "UpsertJob", m.job)
  /\ m.op = "TagAssignment" => Has(M, "UpsertTag", m.key[1])

Together == \A m \in Sent : Companions(Sent, m)

\* They are what the processors make of the folded documents.
SentByEvents ==
  folded \subseteq Documents /\ Sent = UNION {ToSet(MutationsOf(ev)) : ev \in Rows}

Mutations ==
  /\ DOMAIN db = DOMAIN Empty /\ DOMAIN applied = Ops
  /\ todo \in Seq(ToSet(todo))
  /\ \A m \in Sent : WellFormed(m)
  /\ \A op \in Ops : \A m \in applied[op] : m.op = op

KeysOf(op) == {m.key : m \in applied[op]}

\* Which rows the tables have.
TableKeys ==
  /\ DOMAIN db.namespaces = KeysOf("NoteNamespace") \ {""}
  /\ DOMAIN db.jobs = KeysOf("UpsertJob")
  /\ DOMAIN db.runs = KeysOf("UpsertRunState")
  /\ DOMAIN db.datasets = KeysOf("UpsertDataset") \cup KeysOf("SetDatasetMeta")
  /\ db.lineage_edges = KeysOf("UpsertLineageEdge")
  /\ DOMAIN db.dataset_fields = KeysOf("UpsertDatasetField")
  /\ DOMAIN db.dataset_versions = KeysOf("EmitDatasetVersion")
  /\ db.tags = KeysOf("UpsertTag")
  /\ DOMAIN db.tag_assignments = KeysOf("TagAssignment")

\* The time under a guard is that of the newest mutation that passed it.
Stamp(S, at) == IF S = {} THEN at = Null ELSE \E m \in LatestIn(S) : m.at = at

JobRows ==
  \A j \in DOMAIN db.jobs :
    /\ DOMAIN db.jobs[j] = DOMAIN FreshJob(0)
    /\ Stamp(CarryingEdges(j), db.jobs[j].edges_at)
    /\ Stamp(JobMetas(j), db.jobs[j].meta_at)

\* The mutations that carry columns for a dataset.
CarryingSchema(d) == {m \in Of("UpsertDataset", d) : m.fields \notin {Null, << >>}}

\* The schemas as the applied mutations have them.
SchemaOfMutations ==
  /\ \A d \in DOMAIN db.datasets :
       IF CarryingSchema(d) = {} THEN db.datasets[d].fields = << >>
       ELSE \E m \in LatestIn(CarryingSchema(d)) : db.datasets[d].fields = m.fields
  /\ \A f \in DOMAIN db.dataset_fields :
       \E m \in LatestIn(Of("UpsertDatasetField", f)) :
         db.dataset_fields[f] = [type |-> m.type, ordinal |-> m.ordinal, schema_at |-> m.at]

DatasetRows ==
  \A d \in DOMAIN db.datasets :
    /\ DOMAIN db.datasets[d] = DOMAIN FreshDataset(0)
    /\ Stamp(CarryingSchema(d), db.datasets[d].schema_at)
    /\ Stamp(Of("SetDatasetMeta", d), db.datasets[d].meta_at)

RunColumns ==
  {"job", "state", "started_at", "ended_at", "nominal", "parent_run_id",
   "error_message", "meta_at", "created_at", "updated_at"}

RunRows ==
  \A r \in DOMAIN db.runs :
    /\ DOMAIN db.runs[r] = RunColumns
    /\ \E m \in Of("UpsertRunState", r) : db.runs[r].job = m.job

ColumnEdgeRows == \A m \in applied["UpsertColumnEdge"] : LatestIn(EdgesOf(m.key[2])) # {}

\* An UPDATE finds its row: it is there, or an upsert of it comes first.
RowsFirst(update, upsert, rows) ==
  /\ KeysOf(update) \subseteq rows
  /\ \A i \in DOMAIN todo : todo[i].op = update =>
       \/ todo[i].key \in rows
       \/ \E j \in 1..(i - 1) : todo[j].op = upsert /\ todo[j].key = todo[i].key

IInv ==
  /\ Mutations /\ Together /\ SentByEvents /\ TableKeys
  /\ JobRows /\ JobEdgesAreLatest
  /\ RowsFirst("SetJobMeta", "UpsertJob", DOMAIN db.jobs) /\ JobMetaIsShown
  /\ DatasetRows /\ SchemaOfMutations /\ DatasetMetaIsShown
  /\ ColumnEdgeRows /\ ColumnLineageIsLatest
  /\ RunRows /\ RunIsAsFarAsAnyEventSays

\* Every run event with a run names its job.
RunsNameTheirJob ==
  \A doc \in Documents : doc.kind = "run" /\ doc.run # Null => doc.job # Null

\* The part that needs RunsNameTheirJob.
RunMetaInv ==
  /\ RowsFirst("SetRunMeta", "UpsertRunState", DOMAIN db.runs)
  /\ \A r \in DOMAIN db.runs : Stamp(Of("SetRunMeta", r), db.runs[r].meta_at)
  /\ RunMetaIsShown
==============================================================================
