------------------------------ MODULE GraphWalk ------------------------------
(***************************************************************************)
(* The walks of the command line client over an answer of GetLineage       *)
(* (headwaters-cli graph.rs, commands/trace.rs).  An answer is a set of    *)
(* nodes, each with its incident edges; an edge is a pair <<from, to>> and *)
(* a node id a pair <<kind, name>>.                                        *)
(***************************************************************************)
EXTENDS Integers, FiniteSets

Directions == {"Up", "Down", "Both"}

edges(graph) == UNION {n.in_edges \cup n.out_edges : n \in graph}

\* The nodes one edge away from S.
Step(E, S, direction) ==
  IF direction = "Down" THEN {e[2] : e \in {f \in E : f[1] \in S}}
                        ELSE {e[1] : e \in {f \in E : f[2] \in S}}

\* Mutation: upstream walks downstream again from what it found.
ReachableBothWays(graph, root, direction) ==
  LET E == edges(graph)
      kept[i \in 0..Cardinality(E)] ==
        IF i = 0 THEN {root}
        ELSE LET S == kept[i - 1]
             IN S \cup Step(E, S, "Up") \cup Step(E, S, "Down")
  IN kept[Cardinality(E)]
reachable(graph, root, direction) ==
  LET E == edges(graph)
      kept[i \in 0..Cardinality(E)] ==
        IF i = 0 THEN {root}
        ELSE LET S == kept[i - 1] IN S \cup Step(E, S, direction)
  IN IF direction = "Both" THEN {n.id : n \in graph} ELSE kept[Cardinality(E)]

\* Mutation: the last node of the walk need not be its end.
IsEndpointBackwards(id, E, keep, direction) ==
  ~ \E e \in E :
      \/ direction = "Down" /\ e[2] = id /\ e[1] \in keep
      \/ direction = "Up" /\ e[1] = id /\ e[2] \in keep
is_endpoint(id, E, keep, direction) ==
  ~ \E e \in E :
      \/ direction = "Up" /\ e[2] = id /\ e[1] \in keep
      \/ direction = "Down" /\ e[1] = id /\ e[2] \in keep

\* TraceView::parts
jobs(graph, root, direction) ==
  {n \in reachable(graph, root, direction) : n[1] = "job"}
endpoints(graph, root, direction) ==
  LET keep == reachable(graph, root, direction)
  IN {n \in keep \ {root} :
        n[1] = "dataset" /\ is_endpoint(n, edges(graph), keep, direction)}
==============================================================================
