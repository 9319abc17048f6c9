------------------------------ MODULE MCReadModel ------------------------------
(* Instances of ReadModel for TLC: two producers' events for one job, whose   *)
(* times do not follow the order of the log.                                  *)
EXTENDS ReadModel

A == <<"raw", "a">>
B == <<"dwh", "b">>
J == <<"etl", "j">>

Entry(ds) ==
  [ds |-> ds, schema |-> Null, typed |-> TRUE, lineage |-> << >>, uri |-> Null, tags |-> << >>,
   meta |-> [description |-> Null, source_name |-> Null, deleted |-> Null]]
Column(name, type, tags) == [name |-> name, type |-> type, tags |-> tags]
From(field, how) == [in |-> <<A, field>>, how |-> how]

NoJobFacets == [description |-> Null, tags |-> << >>, location |-> Null]
NoRunFacets == [run |-> [nominal |-> Null, parent_run_id |-> Null, error_message |-> Null],
                parent |-> Null]

RunEvent(type, time) ==
  [kind |-> "run", type |-> type, time |-> time, run |-> "r", job |-> J,
   inputs |-> << >>, outputs |-> << >>, dataset |-> Null,
   job_facets |-> NoJobFacets, run_facets |-> NoRunFacets]

Start ==
  [RunEvent("START", 1) EXCEPT
     !.inputs = <<Entry(A)>>,
     !.outputs = <<[Entry(B) EXCEPT
        !.schema = <<Column("x", "int", << >>), Column("y", "int", <<"pii">>)>>,
        !.lineage = <<[out |-> "x", inputs |-> <<From("p", "copy"), From("q", "sum")>>]>>]>>,
     !.job_facets.description = "first", !.job_facets.tags = <<"gold">>,
     !.run_facets.run.nominal = 1]

Fail ==
  [RunEvent("FAIL", 2) EXCEPT
     !.outputs = <<[Entry(B) EXCEPT
        !.schema = <<Column("x", "text", << >>)>>,
        !.lineage = <<[out |-> "x", inputs |-> <<From("q", "copy")>>]>>]>>,
     !.run_facets.run.error_message = "boom",
     !.run_facets.parent = <<"etl", "dag">>]

Complete == [RunEvent("COMPLETE", 3) EXCEPT !.job_facets.location = "git"]

Running ==
  [RunEvent("RUNNING", 2) EXCEPT
     !.outputs = <<[Entry(B) EXCEPT
        !.schema = <<Column("z", "int", << >>)>>, !.typed = FALSE,
        !.lineage = <<[out |-> "x", inputs |-> << >>]>>]>>]

\* A job event without a time, whose input carries a schema and whose output a
\* column without a name, and a dataset event.
Declared ==
  [RunEvent(Null, Null) EXCEPT
     !.kind = "job", !.run = Null,
     !.inputs = <<[Entry(B) EXCEPT !.schema = <<Column("w", "int", << >>)>>]>>,
     !.outputs = <<[Entry(A) EXCEPT
        !.schema = <<Column("", "int", <<"pii">>), Column("p", "int", << >>)>>]>>,
     !.job_facets.location = "svn"]

Scanned ==
  [RunEvent(Null, 2) EXCEPT
     !.kind = "dataset", !.run = Null, !.job = Null,
     !.dataset = [Entry(B) EXCEPT
        !.schema = <<Column("x", "date", <<"pii">>)>>, !.tags = <<"pii">>, !.uri = "pg",
        !.meta = [description |-> "b", source_name |-> "s", deleted |-> TRUE],
        !.lineage = <<[out |-> "x", inputs |-> <<From("p", "copy")>>]>>]]

MCDocuments == {Start, Fail, Complete, Running, Declared, Scanned}
==============================================================================
