----------------------------- MODULE MCBatchIngest -----------------------------
(* Instances of BatchIngest for TLC. *)
EXTENDS BatchIngest

Document(has) == [object |-> TRUE, time |-> TRUE, typed |-> TRUE, has |-> has]
RunEvent == Document({"run", "job"})
Documents ==
  {RunEvent, Document({"run", "job", "dataset"}), Document({"job", "dataset"}),
   Document({"run", "dataset"}), Document({"job"}), [RunEvent EXCEPT !.time = FALSE],
   [RunEvent EXCEPT !.typed = FALSE], [Document({}) EXCEPT !.object = FALSE]}

MCBodies ==
  [1..1 -> Documents] \cup
  {<<d, e, f>> : d \in {RunEvent, Document({"job"})}, e \in Documents, f \in {RunEvent}}
  \cup {<<d, RunEvent, Document({"dataset"})>> : d \in Documents} \cup {<< >>}
==============================================================================
