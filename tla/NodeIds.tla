------------------------------- MODULE NodeIds -------------------------------
(***************************************************************************)
(* Node ids: how the server, the client library and the command line       *)
(* client write the names of an entity into one text and take it apart     *)
(* again (read/ids.rs, headwaters-client nodeid.rs, headwaters-cli         *)
(* render/nodeid.rs and commands/column_lineage.rs).  A text is a sequence *)
(* of words and of the separators ":" and "/".                             *)
(***************************************************************************)
EXTENDS Integers, SequencesExt

CONSTANTS
  Namespaces, Names, Fields,  \* texts
  Schemes,                    \* the words of the form [a-z][a-z0-9+.-]*
  Null

job_node_id(ns, name) == <<"job", ":">> \o ns \o <<":">> \o name
dataset_node_id(ns, name) == <<"dataset", ":">> \o ns \o <<":">> \o name
dataset_field_node_id(ns, ds, field) ==
  <<"datasetField", ":">> \o ns \o <<":">> \o ds \o <<":">> \o field

-------------------------------------------------------------------------------
(* Splitting *)

Before(text, i) == SubSeq(text, 1, i - 1)
After(text, i) == SubSeq(text, i + 1, Len(text))

\* str::split_once, rsplit_once: the parts, or Null.
SplitAt(text, i) == IF i = 0 THEN Null ELSE <<Before(text, i), After(text, i)>>
split_once(text, sep) == SplitAt(text, SelectInSeq(text, LAMBDA w : w = sep))
rsplit_once(text, sep) == SplitAt(text, SelectLastInSeq(text, LAMBDA w : w = sep))

\* Length of the "scheme://authority" prefix, 0 if there is none: the authority
\* ends before the next "/" or ":".
scheme_authority_end(text) ==
  LET has_scheme == /\ Len(text) > 3 /\ text[1] \in Schemes
                    /\ SubSeq(text, 2, 4) = <<":", "/", "/">>
      rest == After(text, 4)
      ending == SelectInSeq(rest, LAMBDA w : w \in {"/", ":"})
  IN IF ~ has_scheme THEN 0 ELSE 4 + (IF ending = 0 THEN Len(rest) ELSE ending - 1)

\* Mutation: the first colon, URI or not.
SplitAtFirstColon(text) == split_once(text, ":")
split_namespace_name(text) ==
  LET from == scheme_authority_end(text)
      offset == SelectInSeq(After(text, from), LAMBDA w : w = ":")
  IN IF offset = 0 THEN Null ELSE SplitAt(text, from + offset)

parse_node_id(id) ==
  LET parts == split_once(id, ":")
      names == split_namespace_name(parts[2])
  IN IF parts = Null \/ parts[1] \notin {<<"job">>, <<"dataset">>} \/ names = Null
     THEN Null ELSE <<parts[1][1], names[1], names[2]>>

parse_column_lineage_node_id(id) ==
  LET node == parse_node_id(id)
      names == split_namespace_name(After(id, 2))
      tail == rsplit_once(names[2], ":")
  IN CASE node # Null /\ node[1] = "dataset" -> <<node[2], node[3], Null>>
       [] id[1] = "datasetField" /\ names # Null /\ tail # Null -> <<names[1], tail[1], tail[2]>>
       [] OTHER -> Null

\* column_lineage.rs fetch: the dataset whose columns it asks for.
fetched_dataset(id) ==
  IF id[1] # "dataset" THEN Null ELSE rsplit_once(After(id, 2), ":")

\* Mutation: the shorthand is read although a colon is left.
ResolveSlashFirst(target) ==
  LET kind == target[1]
      rest == After(target, 2)
      slash == split_once(rest, "/")
  IN IF kind \in {"job", "dataset"} /\ slash # Null
     THEN <<kind, ":">> \o slash[1] \o <<":">> \o slash[2] ELSE target
\* The text a user typed: the shorthand kind:ns/name, or a node id; Null is the
\* error of a text that is neither.
resolve_shorthand(target) ==
  LET kind == IF Len(target) > 1 /\ target[2] = ":" THEN target[1] ELSE Null
      rest == After(target, 2)
      slash == split_once(rest, "/")
      second == split_once(slash[2], "/")
      colon == Contains(rest, ":")
  IN CASE kind \in {"job", "dataset"} /\ ~ colon /\ slash # Null ->
            <<kind, ":">> \o slash[1] \o <<":">> \o slash[2]
       [] kind = "datasetField" /\ ~ colon ->
            IF slash = Null \/ second = Null THEN Null
            ELSE dataset_field_node_id(slash[1], second[1], second[2])
       [] OTHER -> IF kind \in {"job", "dataset", "datasetField"} THEN target ELSE Null

-------------------------------------------------------------------------------
(* What node ids are for, of one entity *)

Entities == [ns : Namespaces, name : Names]

\* Its node ids, and those of its fields, read back as what they were built from.
ReadsBack(e) ==
  /\ parse_node_id(job_node_id(e.ns, e.name)) = <<"job", e.ns, e.name>>
  /\ parse_node_id(dataset_node_id(e.ns, e.name)) = <<"dataset", e.ns, e.name>>
  /\ \A f \in Fields :
       parse_column_lineage_node_id(dataset_field_node_id(e.ns, e.name, f)) = <<e.ns, e.name, f>>

\* The names that do: the namespace has no colon, unless it is a scheme that the
\* name completes, or it is a URI whose scheme has the only colon (no port).
Readable(ns, name) ==
  \/ /\ \A i \in 1..Len(ns) : ns[i] # ":"
     /\ ~ (Len(ns) = 1 /\ ns[1] \in Schemes /\ Len(name) > 1 /\ name[1] = "/" /\ name[2] = "/")
  \/ /\ Len(ns) > 3 /\ ns[1] \in Schemes /\ SubSeq(ns, 2, 4) = <<":", "/", "/">>
     /\ \A i \in 5..Len(ns) : ns[i] # ":"

\* What a user types for it is resolved to its node id.
Resolves(e) ==
  LET dataset == dataset_node_id(e.ns, e.name)
      field(f) == dataset_field_node_id(e.ns, e.name, f)
      plain == e.ns \o <<"/">> \o e.name
  IN /\ \A id \in {job_node_id(e.ns, e.name), dataset} \cup {field(f) : f \in Fields} :
          resolve_shorthand(id) = id
     /\ ~ Contains(plain, ":") /\ ~ Contains(e.ns, "/") =>
          /\ resolve_shorthand(<<"dataset", ":">> \o plain) = dataset
          /\ ~ Contains(e.name, "/") => \A f \in Fields :
               resolve_shorthand(<<"datasetField", ":">> \o plain \o <<"/">> \o f) = field(f)
==============================================================================
