----------------------------- MODULE FieldLineage -----------------------------
(***************************************************************************)
(* Column lineage and tag propagation over the tables the projection       *)
(* maintains: LineageStore::column_lineage and tag_downstream              *)
(* (read/queries.rs), and the command line client that asks for a whole    *)
(* dataset column by column (commands/column_lineage.rs) and groups a      *)
(* tag's fields by dataset (commands/exposure.rs).  A field is a pair      *)
(* <<dataset, column>>.                                                    *)
(***************************************************************************)
EXTENDS GraphWalk, SequencesExt

CONSTANTS
  Columns,   \* Columns[d]: the columns of d's schema, in order
  Sources,   \* Sources[f]: the fields that may be inputs of field f
  Tagged,    \* the fields, and datasets <<d>>, that may carry the tag
  MAX_DEPTH, \* 20 in the code
  Null

Datasets == DOMAIN Columns
Fields == UNION {{<<d, c>> : c \in ToSet(Columns[d])} : d \in Datasets}

ASSUME FieldLineageAssumption ==
  /\ \A d \in Datasets : Columns[d] \in Seq(ToSet(Columns[d])) /\ IsInjective(Columns[d])
  /\ Null \notin Datasets
  /\ MAX_DEPTH \in Nat

VARIABLES
  inputs,  \* inputs[f]: the column_lineage_edges into f
  tags,    \* the tag_assignments of one tag
  target,  \* the dataset the client asks about, Null between requests
  todo,    \* its columns not asked for yet
  merged,  \* the nodes of the answers so far
  seen     \* seen[f]: the inputs f has had since the request (history variable)

request == <<target, todo, merged>>
fieldVars == <<inputs, tags, request, seen>>

-------------------------------------------------------------------------------
(* The server's answers *)

Edges == UNION {{<<g, f>> : g \in inputs[f]} : f \in Fields}

\* The nodes on both ends of the edges into the addressed fields.
column_lineage(out) ==
  LET E == {e \in Edges : e[2] \in out}
  IN {[id |-> n, in_edges |-> {e \in E : e[2] = n}, out_edges |-> {e \in E : e[1] = n}] :
        n \in UNION {{e[1], e[2]} : e \in E}}

\* A tag on a field, or on a dataset and so on each of its columns.
Seeds == {f \in Fields : f \in tags \/ <<f[1]>> \in tags}

\* Mutation: the walk stops one hop early.
TagDownstreamShort ==
  LET work[d \in 0..(MAX_DEPTH - 1)] == IF d = 0 THEN Seeds ELSE Step(Edges, work[d - 1], "Down")
  IN UNION {work[d] : d \in 0..(MAX_DEPTH - 1)}
tag_downstream ==
  LET work[d \in 0..MAX_DEPTH] == IF d = 0 THEN Seeds ELSE Step(Edges, work[d - 1], "Down")
  IN UNION {work[d] : d \in 0..MAX_DEPTH}

\* The exposed datasets and, of each, the fields.
by_dataset ==
  [d \in {f[1] : f \in tag_downstream} |-> {f[2] : f \in {g \in tag_downstream : g[1] = d}}]

-------------------------------------------------------------------------------
(* hw column-lineage dataset:... *)

FieldInit ==
  /\ inputs = [f \in Fields |-> {}] /\ tags = {}
  /\ target = Null /\ todo = << >> /\ merged = {}
  /\ seen = [f \in Fields |-> {}]

\* get_dataset
Fetch(d) ==
  /\ target = Null
  /\ target' = d /\ todo' = Columns[d] /\ merged' = {}
  /\ seen' = [f \in Fields |-> {inputs[f]}]
  /\ UNCHANGED <<inputs, tags>>

\* Mutation: the last column is left out.
FetchColumnButLast ==
  /\ todo # << >>
  /\ merged' = IF Len(todo) = 1 THEN merged
               ELSE merged \cup column_lineage({<<target, Head(todo)>>})
  /\ todo' = Tail(todo)
  /\ UNCHANGED <<inputs, tags, target, seen>>
\* get_column_lineage for the next column; a node seen before is dropped.
FetchColumn ==
  /\ todo # << >>
  /\ merged' = merged \cup {n \in column_lineage({<<target, Head(todo)>>}) :
                              n.id \notin {m.id : m \in merged}}
  /\ todo' = Tail(todo)
  /\ UNCHANGED <<inputs, tags, target, seen>>

Render ==
  /\ target # Null /\ todo = << >>
  /\ target' = Null /\ merged' = {}
  /\ UNCHANGED <<inputs, tags, todo, seen>>

\* ColumnLineageView::derivations: the inputs of each node that has any.
Derivation(f) == IF f \in {n.id : n \in merged}
                 THEN {e[1] : e \in {x \in edges(merged) : x[2] = f}} ELSE {}

-------------------------------------------------------------------------------
(* The projection *)

\* A newer event's edges replace those of one output field (upsert_column_edge,
\* whose deletion and insertions commit together).
Replace(f, S) ==
  /\ S # inputs[f]
  /\ inputs' = [inputs EXCEPT ![f] = S]
  /\ seen' = [seen EXCEPT ![f] = @ \cup {S}]
  /\ UNCHANGED <<tags, request>>

Tag(t) ==
  /\ t \notin tags
  /\ tags' = tags \cup {t}
  /\ UNCHANGED <<inputs, request, seen>>

FieldNext ==
  \/ \E d \in Datasets : Fetch(d)
  \/ FetchColumn \/ Render
  \/ \E f \in Fields : \E S \in SUBSET Sources[f] : Replace(f, S)
  \/ \E t \in Tagged : Tag(t)

FieldSpec == FieldInit /\ [][FieldNext]_fieldVars

-------------------------------------------------------------------------------
(* Properties *)

\* What the client shows as the derivation of a column are the inputs the column
\* had at some moment of the request, all of them, although the columns are
\* asked for one by one and their answers are merged by node
\* ("union the per-field column-lineage graphs").
DerivationsAreReal ==
  target # Null /\ todo = << >> =>
    \A c \in ToSet(Columns[target]) : Derivation(<<target, c>>) \in seen[<<target, c>>]

\* A lineage edge away, as paths: the reference for the propagation.
Reaches(f, k) ==
  \E l \in 1..(k + 1) : \E p \in [1..l -> Fields] :
    p[1] \in Seeds /\ p[l] = f /\ \A i \in 1..(l - 1) : p[i] \in inputs[p[i + 1]]

\* A tag's exposure lists, by dataset, exactly the fields at the end of a column
\* lineage of at most MAX_DEPTH steps from a tagged field or a field of a tagged
\* dataset, also when the lineage has cycles (tag_downstream, by_dataset, and the
\* comment of the query: a closure over column_lineage_edges, bounded by
\* MAX_DEPTH).  By column lineage alone: a dataset that is fed at the table level
\* only is not listed, although http.rs and ADR 0009 speak of a fallback.
ExposureIsTheColumnReach ==
  \A f \in Fields :
    (f[1] \in DOMAIN by_dataset /\ f[2] \in by_dataset[f[1]]) = Reaches(f, MAX_DEPTH)

-------------------------------------------------------------------------------
(* The inductive invariant behind the first *)

\* No column is computed from another one of its own dataset.
NoneFromSiblings == \A f \in Fields : \A g \in Sources[f] : g[1] = f[1] => g = f

FieldTypeOK ==
  /\ DOMAIN inputs = Fields /\ \A f \in Fields : inputs[f] \subseteq Sources[f]
  /\ DOMAIN seen = Fields
  /\ target \in Datasets \cup {Null}
  /\ todo \in Seq(ToSet(todo)) /\ IsInjective(todo)
  /\ target = Null => todo = << >>
  /\ target # Null => ToSet(todo) \subseteq ToSet(Columns[target])

\* The columns asked for, and the edges into one that the client has.
Asked == {<<target, c>> : c \in ToSet(Columns[target]) \ ToSet(todo)}
Into(f) == {e \in edges(merged) : e[2] = f}

\* Every edge the client has is into a column it asked for, whose node it has, and the
\* edges into one are those of a single answer.
MergedInStep ==
  target # Null =>
    /\ \A f \in Fields : inputs[f] \in seen[f]
    /\ \A n \in merged : n.id[1] = target => n.id \in Asked
    /\ \A e \in edges(merged) : e[2] \in Asked /\ \E n \in merged : n.id = e[2]
    /\ \A f \in Asked : {e[1] : e \in Into(f)} \in seen[f]

FieldIInv == FieldTypeOK /\ MergedInStep
==============================================================================
