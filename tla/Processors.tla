------------------------------ MODULE Processors ------------------------------
(***************************************************************************)
(* From an OpenLineage document to the mutations of the read tables: the   *)
(* row the writer stores for it (writer/row.rs) and the built-in facet     *)
(* processors (projection/processors), pure functions of that row.         *)
(*                                                                         *)
(* A document is a record.  `kind` is "run", "job" or "dataset"; `time`,   *)
(* `type`, `run` and `job` may be Null; `inputs` and `outputs` are         *)
(* sequences of dataset entries and `dataset` is one entry or Null;        *)
(* job_facets and run_facets hold the facets the processors read.  An      *)
(* entry names a dataset `ds` and carries its facets: `schema`, a sequence *)
(* of columns [name, type, tags] or Null, and whether that facet parses as *)
(* the `typed` one; `lineage`, a sequence of output fields [out, inputs]   *)
(* and their inputs [in, how]; `meta`; `uri`; `tags`.  Names are pairs     *)
(* <<namespace, name>>.                                                    *)
(***************************************************************************)
EXTENDS Integers, SequencesExt

CONSTANT Null   \* an absent value, NULL in SQL

-------------------------------------------------------------------------------
(* The documents *)

IsSeq(s) == s # Null /\ s \in Seq(ToSet(s))

IsEntry(e) ==
  /\ e.schema # Null => IsSeq(e.schema) /\ \A c \in ToSet(e.schema) : IsSeq(c.tags)
  /\ e.typed \in BOOLEAN
  /\ IsSeq(e.lineage) /\ \A l \in ToSet(e.lineage) : IsSeq(l.inputs)
  /\ IsSeq(e.tags)
  /\ DOMAIN e.meta = {"description", "source_name", "deleted"}

\* An empty name is no name (non_empty).
IsDocument(doc) ==
  /\ doc.kind \in {"run", "job", "dataset"}
  /\ doc.time \in Int \cup {Null}
  /\ doc.job # Null => doc.job[1] # ""
  /\ IsSeq(doc.inputs) /\ \A e \in ToSet(doc.inputs) : IsEntry(e)
  /\ IsSeq(doc.outputs) /\ \A e \in ToSet(doc.outputs) : IsEntry(e)
  /\ doc.dataset # Null => IsEntry(doc.dataset)
  /\ IsSeq(doc.job_facets.tags)
  /\ DOMAIN doc.run_facets.run = {"nominal", "parent_run_id", "error_message"}

-------------------------------------------------------------------------------
(* The row of `events` *)

\* A column the converter fills only for documents of these kinds.
For(doc, kinds, value) == IF doc.kind \in kinds THEN value ELSE Null

Refs(entries) == [i \in DOMAIN entries |-> entries[i].ds]

\* An optional element of a sequence.
Emit(c, x) == IF c THEN <<x>> ELSE << >>

\* The entries whose columnLineage facet the converter lifts, in the order the
\* processor walks them; one without the facet makes no edges.
LiftedEntries(doc) ==
  IF doc.kind = "dataset" THEN Emit(doc.dataset # Null, doc.dataset)
  ELSE doc.outputs \o doc.inputs

\* The dataset of a dataset event, both parts of its name given.
DatasetOf(doc) ==
  IF doc.dataset = Null \/ "" \in {doc.dataset.ds[1], doc.dataset.ds[2]}
  THEN Null ELSE doc.dataset.ds

EventRow(doc) ==
  [event_kind |-> doc.kind,
   event_type |-> For(doc, {"run"}, doc.type),
   event_time |-> doc.time,
   run_id     |-> For(doc, {"run"}, doc.run),
   job        |-> For(doc, {"run", "job"}, doc.job),
   dataset    |-> For(doc, {"dataset"}, DatasetOf(doc)),
   inputs     |-> IF doc.kind = "dataset" THEN << >> ELSE Refs(doc.inputs),
   outputs    |-> IF doc.kind = "dataset" THEN << >> ELSE Refs(doc.outputs),
   column_lineage |-> LiftedEntries(doc),
   raw        |-> doc]

-------------------------------------------------------------------------------
(* Helpers of the processors *)

event_at(ev) == IF ev.event_time = Null THEN 0 ELSE ev.event_time

Terminal == {"COMPLETED", "FAILED", "ABORTED"}

event_type_to_state(et) ==
  CASE et \in {"START", "RUNNING"} -> "RUNNING"
    [] et = "COMPLETE" -> "COMPLETED"
    [] et = "FAIL" -> "FAILED"
    [] et = "ABORT" -> "ABORTED"
    [] OTHER -> Null

ForEach(s, emit(_)) == FlattenSeq([i \in DOMAIN s |-> emit(s[i])])

\* Some field of a record of optional values is there.
AnyPresent(rec) == \E f \in DOMAIN rec : rec[f] # Null

\* The dataset entries of a document, in the order most processors walk them.
Entries(doc) ==
  doc.inputs \o doc.outputs \o Emit(doc.dataset # Null, doc.dataset)

HasJob(ev) == ev.event_kind \in {"run", "job"} /\ ev.job # Null

-------------------------------------------------------------------------------
(* The processors *)

RunStateProcessor(ev) ==
  LET state == event_type_to_state(ev.event_type)
  IN Emit(HasJob(ev) /\ ev.run_id # Null,
          [op |-> "UpsertRunState", key |-> ev.run_id, at |-> event_at(ev),
           job |-> ev.job, state |-> state,
           is_start |-> ev.event_type = "START", is_terminal |-> state \in Terminal])

NoteNamespaceOf(name, at) == [op |-> "NoteNamespace", key |-> name[1], at |-> at]

JobEdgeProcessor(ev) ==
  LET at == event_at(ev)
      facets == ev.raw.job_facets
      carries_edges == ev.inputs # << >> \/ ev.outputs # << >>
      has_meta == facets.description # Null \/ facets.tags # << >>
      Edge(from, to) == <<[op |-> "UpsertLineageEdge", key |-> <<from, to>>]>>
      In(ds) == Edge(<<"dataset", ds>>, <<"job", ev.job>>)
      Out(ds) == Edge(<<"job", ev.job>>, <<"dataset", ds>>)
  IN IF ~HasJob(ev) THEN << >> ELSE
     <<NoteNamespaceOf(ev.job, at),
       [op |-> "UpsertJob", key |-> ev.job, at |-> at,
        edges |-> IF carries_edges
                  THEN [inputs |-> ev.inputs, outputs |-> ev.outputs] ELSE Null,
        description |-> facets.description,
        tags |-> IF has_meta THEN facets.tags ELSE Null]>>
     \o ForEach(ev.inputs, In) \o ForEach(ev.outputs, Out)

\* The schema a job's output datasets carry (parse_output_schemas): the last
\* entry of a dataset wins.
OutputSchema(ev, ds) ==
  LET carrying == {i \in DOMAIN ev.raw.outputs :
                     ev.raw.outputs[i].ds = ds /\ ev.raw.outputs[i].schema # Null}
  IN IF carrying = {} THEN Null
     ELSE ev.raw.outputs[CHOOSE i \in carrying : \A j \in carrying : j <= i].schema

\* Mutation: the datasets a job reads are not noted.
DatasetRefsOfOutputs(ev) ==
  LET Out(ds) == <<NoteNamespaceOf(ds, event_at(ev)),
                   [op |-> "UpsertDataset", key |-> ds, at |-> event_at(ev),
                    fields |-> OutputSchema(ev, ds)]>>
  IN ForEach(ev.outputs, Out)
DatasetRefProcessor(ev) ==
  LET at == event_at(ev)
      Upsert(ds, fields) ==
        [op |-> "UpsertDataset", key |-> ds, at |-> at, fields |-> fields]
      In(ds) == <<NoteNamespaceOf(ds, at), Upsert(ds, Null)>>
      Out(ds) == <<NoteNamespaceOf(ds, at), Upsert(ds, OutputSchema(ev, ds))>>
  IN IF ev.event_kind = "dataset"
     THEN Emit(ev.dataset # Null, Upsert(ev.dataset, Null))
     ELSE ForEach(ev.inputs, In) \o ForEach(ev.outputs, Out)

Unnamed == {"", Null}   \* what is no name of a column

\* schema_version_uuid hashes the names and types of the named columns.
VersionOf(schema) ==
  LET named == SelectSeq(schema, LAMBDA c : c.name \notin Unnamed)
  IN [i \in DOMAIN named |-> [name |-> named[i].name, type |-> named[i].type]]

\* emit_fields_for: a facet that does not parse makes nothing, a column without
\* a name no row, although it counts in the ordinals.
SchemaProcessor(ev) ==
  LET at == event_at(ev)
      Column(e, i) ==
        [op |-> "UpsertDatasetField", key |-> <<e.ds, e.schema[i].name>>, at |-> at,
         type |-> e.schema[i].type, ordinal |-> i]
      Columns(e) ==
        FlattenSeq([i \in DOMAIN e.schema |->
                      Emit(e.schema[i].name \notin Unnamed, Column(e, i))])
      Version(e) ==
        Emit(VersionOf(e.schema) # << >>,
             [op |-> "EmitDatasetVersion", key |-> <<e.ds, VersionOf(e.schema)>>, at |-> at,
              run_id |-> ev.run_id])
      Fields(e) ==
        IF e.schema = Null \/ ~e.typed THEN << >> ELSE Columns(e) \o Version(e)
  IN ForEach(Entries(ev.raw), Fields)

ColumnLineageProcessor(ev) ==
  LET Edge(e, out, input) ==
        [op |-> "UpsertColumnEdge", key |-> <<input.in, <<e.ds, out>>>>,
         how |-> input.how, at |-> event_at(ev)]
      Edges(e) ==
        ForEach(e.lineage, LAMBDA l :
          [i \in DOMAIN l.inputs |-> Edge(e, l.out, l.inputs[i])])
  IN ForEach(ev.column_lineage, Edges)

RunMetaProcessor(ev) ==
  LET facets == ev.raw.run_facets
  IN Emit(/\ ev.run_id # Null
          /\ AnyPresent(facets.run) \/ facets.parent # Null,
          [op |-> "SetRunMeta", key |-> ev.run_id, at |-> event_at(ev),
           meta |-> facets.run])

JobMetaProcessor(ev) ==
  LET meta == [location |-> ev.raw.job_facets.location,
               parent |-> ev.raw.run_facets.parent]
  IN Emit(ev.job # Null /\ AnyPresent(meta),
          [op |-> "SetJobMeta", key |-> ev.job, at |-> event_at(ev), meta |-> meta])

DatasetMetaProcessor(ev) ==
  LET at == event_at(ev)
      Meta(e) ==
        Emit(e.meta.source_name # Null,
             [op |-> "UpsertSource", key |-> e.meta.source_name, at |-> at,
              connection_url |-> e.uri])
        \o Emit(AnyPresent(e.meta),
             [op |-> "SetDatasetMeta", key |-> e.ds, at |-> at, meta |-> e.meta])
  IN ForEach(Entries(ev.raw), Meta)

TagsProcessor(ev) ==
  LET at == event_at(ev)
      Push(tags, target) ==
        ForEach(tags, LAMBDA tag :
          <<[op |-> "UpsertTag", key |-> tag],
            [op |-> "TagAssignment", key |-> <<tag, target>>, at |-> at]>>)
      Columns(e) ==
        IF e.schema = Null THEN << >>
        ELSE ForEach(e.schema, LAMBDA c :
               IF c.name = Null THEN << >> ELSE Push(c.tags, <<"field", e.ds, c.name>>))
      Dataset(e) == Push(e.tags, <<"dataset", e.ds>>) \o Columns(e)
  IN (IF ev.job = Null THEN << >> ELSE Push(ev.raw.job_facets.tags, <<"job", ev.job>>))
     \o ForEach(Entries(ev.raw), Dataset)

\* ProcessorRegistry::with_well_known().process: all of them, in this order.
MutationsOf(ev) ==
  RunStateProcessor(ev) \o JobEdgeProcessor(ev) \o DatasetRefProcessor(ev)
  \o SchemaProcessor(ev) \o ColumnLineageProcessor(ev) \o RunMetaProcessor(ev)
  \o JobMetaProcessor(ev) \o DatasetMetaProcessor(ev) \o TagsProcessor(ev)
==============================================================================
