------------------------------- MODULE Lineage -------------------------------
(***************************************************************************)
(* LineageStore::lineage (read/queries.rs): one request runs several       *)
(* statements without a common snapshot, while the projection commits      *)
(* batches of new edges and a rebuild truncates the tables and folds them  *)
(* again.  The edges are stored as texts, the node ids of NodeIds, which a *)
(* request takes apart to find the rows.                                   *)
(***************************************************************************)
EXTENDS GraphWalk, NodeIds, FiniteSetsExt

CONSTANTS
  Batches,     \* the sets of edges that one event can add, between rows
               \* <<kind, namespace, name>> of jobs and datasets
  Requests,    \* [surface |-> "rest" or "connect", depth |-> ...]
  MAX_DEPTH,   \* 20 in the code; the default depth is the same
  MAX_LIMIT,   \* 1000 in the code
  I32_MAX,     \* 2^31 - 1, less than a usize may be
  MaxRebuilds  \* bound

ASSUME LineageAssumption ==
  /\ MAX_DEPTH \in Nat \ {0} /\ MAX_LIMIT \in Nat /\ I32_MAX \in Nat
  /\ MAX_DEPTH <= MAX_LIMIT /\ MAX_LIMIT <= I32_MAX
  /\ Requests \subseteq [surface : {"rest"}, depth : Nat] \cup [surface : {"connect"}, depth : Int]
  /\ MaxRebuilds \in Nat

VARIABLES
  db,       \* [rows, edges]: of jobs and datasets; lineage_edges, of node ids
  rebuilds, \* number of rebuilds
  pc,       \* where the request is
  seed,     \* the node it asks for
  request,  \* its surface and depth
  reached,  \* ids the recursive query returned
  incident, \* edges the second query returned
  todo,     \* reached ids not looked up yet
  graph,    \* the answer
  before    \* the database when the request began, and the number of
            \* rebuilds until then (history variable)

asked == <<seed, request, before>>
vars == <<db, rebuilds, pc, asked, reached, incident, todo, graph>>

RowsOf(batch) == UNION {{e[1], e[2]} : e \in batch}
Rows == UNION {RowsOf(batch) : batch \in Batches}
node_id(row) ==
  IF row[1] = "job" THEN job_node_id(row[2], row[3]) ELSE dataset_node_id(row[2], row[3])
EdgesOf(batch) == {<<node_id(e[1]), node_id(e[2])>> : e \in batch}
Nodes == {node_id(row) : row \in Rows}

\* What a request may name, in the tables or not.
EntityIds(e) == {job_node_id(e.ns, e.name), dataset_node_id(e.ns, e.name)}
Asked == Nodes \cup UNION {EntityIds(e) : e \in Entities}

-------------------------------------------------------------------------------
(* The depth of a walk *)

\* "n as i32" of a usize
AsI32(n) ==
  LET values == 2 * (I32_MAX + 1)
      low == n % values
  IN IF low > I32_MAX THEN low - values ELSE low

resolve_limit(requested, default) ==
  Min({IF requested = 0 THEN default ELSE requested, MAX_LIMIT})

\* The depth each surface passes to lineage().
RequestedDepth(r) ==
  IF r.surface = "rest" THEN r.depth ELSE resolve_limit(Max({r.depth, 0}), MAX_DEPTH)

\* Mutation: a zero depth asks for the default on both surfaces.
WalkDepthDefaulted(r) ==
  IF RequestedDepth(r) = 0 THEN MAX_DEPTH ELSE Min({AsI32(RequestedDepth(r)), MAX_DEPTH})
WalkDepth(r) == Min({AsI32(RequestedDepth(r)), MAX_DEPTH})

\* The recursive query: its working table after d rounds holds the nodes at the
\* end of a walk of d edges, in either direction.
Reach(E, from, depth) ==
  LET work[d \in 0..Max({depth, 0})] ==
        IF d = 0 THEN {from}
        ELSE LET S == work[d - 1] IN Step(E, S, "Down") \cup Step(E, S, "Up")
  IN UNION {work[d] : d \in DOMAIN work}

-------------------------------------------------------------------------------
(* The request *)

\* The first request may name any entity, later ones those of the tables (bound).
Init ==
  /\ db = [rows |-> {}, edges |-> {}] /\ rebuilds = 0
  /\ pc = "exists" /\ seed \in Asked /\ request \in Requests
  /\ before = [db |-> db, rebuilds |-> 0]
  /\ reached = {} /\ incident = {} /\ todo = {} /\ graph = {}

Ask(n, r) ==
  /\ pc \in {"answered", "not_found"}
  /\ pc' = "exists" /\ seed' = n /\ request' = r
  /\ before' = [db |-> db, rebuilds |-> rebuilds]
  /\ reached' = {} /\ incident' = {} /\ todo' = {} /\ graph' = {}
  /\ UNCHANGED <<db, rebuilds>>

\* job_exists or dataset_exists
Exists ==
  /\ pc = "exists"
  /\ pc' = IF parse_node_id(seed) \in db.rows THEN "reach" ELSE "not_found"
  /\ UNCHANGED <<db, rebuilds, asked, reached, incident, todo, graph>>

QueryReach ==
  /\ pc = "reach"
  /\ reached' = Reach(db.edges, seed, WalkDepth(request))
  /\ pc' = "incident"
  /\ UNCHANGED <<db, rebuilds, asked, incident, todo, graph>>

\* Mutation: only the edges that leave a reached node.
QueryIncidentOrigins ==
  /\ pc = "incident"
  /\ incident' = {e \in db.edges : e[1] \in reached}
  /\ todo' = reached
  /\ pc' = "build"
  /\ UNCHANGED <<db, rebuilds, asked, reached, graph>>
QueryIncident ==
  /\ pc = "incident"
  /\ incident' = {e \in db.edges : e[1] \in reached \/ e[2] \in reached}
  /\ todo' = reached
  /\ pc' = "build"
  /\ UNCHANGED <<db, rebuilds, asked, reached, graph>>

\* build_node: a node whose row is missing is left out.
BuildNode(id) ==
  /\ pc = "build"
  /\ todo' = todo \ {id}
  /\ graph' = graph \cup
       {[id |-> i, in_edges |-> {e \in incident : e[2] = i},
                   out_edges |-> {e \in incident : e[1] = i}] :
            i \in {j \in {id} : parse_node_id(j) \in db.rows}}
  /\ UNCHANGED <<db, rebuilds, pc, asked, reached, incident>>

Answer ==
  /\ pc = "build" /\ todo = {}
  /\ pc' = "answered"
  /\ UNCHANGED <<db, rebuilds, asked, reached, incident, todo, graph>>

-------------------------------------------------------------------------------
(* The projection *)

\* A batch commits: the edges of an event with the rows they join, which are
\* there together (TablesAgree in ReadModel).
Fold(batch) ==
  /\ ~ EdgesOf(batch) \subseteq db.edges
  /\ db' = [rows |-> db.rows \cup RowsOf(batch), edges |-> db.edges \cup EdgesOf(batch)]
  /\ UNCHANGED <<rebuilds, pc, asked, reached, incident, todo, graph>>

\* rebuild commits the truncation before it folds again.
Truncate ==
  /\ rebuilds < MaxRebuilds
  /\ rebuilds' = rebuilds + 1
  /\ db' = [rows |-> {}, edges |-> {}]
  /\ UNCHANGED <<pc, asked, reached, incident, todo, graph>>

Next ==
  \/ \E n \in Nodes, r \in Requests : Ask(n, r)
  \/ Exists \/ QueryReach \/ QueryIncident \/ Answer
  \/ \E id \in todo : BuildNode(id)
  \/ \E batch \in Batches : Fold(batch)
  \/ Truncate

Spec == Init /\ [][Next]_vars

-------------------------------------------------------------------------------
(* Properties *)

\* Paths of at most k edges, as sequences of nodes: the reference for the walks.
Joined(E, m, n, direction) ==
  \/ direction \in {"Down", "Both"} /\ <<m, n>> \in E
  \/ direction \in {"Up", "Both"} /\ <<n, m>> \in E
Near(E, from, k, direction) ==
  LET ends == {e[1] : e \in E} \cup {e[2] : e \in E} \cup {from}
  IN {n \in ends : \E l \in 1..(k + 1) : \E p \in [1..l -> ends] :
        /\ p[1] = from /\ p[l] = n
        /\ \A i \in 1..(l - 1) : Joined(E, p[i], p[i + 1], direction)}

\* The depth the documentation promises: the one asked for, at most MAX_DEPTH;
\* an unset depth of the Connect surface is the default.
Promised ==
  IF request.surface = "connect" /\ request.depth <= 0 THEN MAX_DEPTH
  ELSE Min({request.depth, MAX_DEPTH})

\* The request was answered and no rebuild ran meanwhile.
Answered == pc = "answered" /\ rebuilds = before.rebuilds
Ids == {n.id : n \in graph}

\* Although the statements see different states, the answer lies between the
\* neighbourhood the request began with and the one it ended with: no node
\* within the depth is lost, none beyond it comes in (lineage, step by step).
AnswerBetweenSnapshots ==
  Answered => /\ Near(before.db.edges, seed, Promised, "Both") \subseteq Ids
              /\ Ids \subseteq Near(db.edges, seed, Promised, "Both")

\* The answer hangs together: every node is joined to the seed through edges of
\* the answer, every edge touches a node of it, and every node has all its edges,
\* although edges and nodes are read apart.
AnswerHangsTogether ==
  Answered =>
    /\ Ids = Near(edges(graph), seed, MAX_DEPTH, "Both") \cap reached
    /\ \A e \in edges(graph) : e[1] \in Ids \/ e[2] \in Ids
    /\ \A n \in graph : \A e \in edges(graph) \cup before.db.edges :
         (e[1] = n.id => e \in n.out_edges) /\ (e[2] = n.id => e \in n.in_edges)

\* "hw trace": what the client keeps of an answer is upstream (downstream) of the
\* seed, and holds everything upstream within the depth (graph.rs reachable).
TraceIsDirected ==
  Answered => \A direction \in {"Up", "Down"} :
    LET kept == reachable(graph, seed, direction)
    IN /\ Near(before.db.edges, seed, Promised, direction) \subseteq kept
       /\ kept \subseteq Near(db.edges, seed, Cardinality(Nodes), direction)

RealEnds(E, direction) ==
  {n \in Nodes \ {seed} : n[1] = "dataset" /\ \A m \in Nodes : ~ Joined(E, n, m, direction)}

\* A trace over tables that do not change ends at the datasets nothing feeds
\* (which feed nothing): it names all of them within the depth, and none in the
\* middle of the pipeline but where the depth cuts the graph (trace.rs,
\* is_endpoint), also when the graph has cycles.
TraceEndsAtSources ==
  Answered /\ before.db = db =>
    \A direction \in {"Up", "Down"} :
      LET ends == endpoints(graph, seed, direction)
          real == RealEnds(db.edges, direction)
      IN /\ real \cap Near(db.edges, seed, Promised, direction) \subseteq ends
         /\ (ends \ real) \cap Near(db.edges, seed, Promised - 1, "Both") = {}

\* A request finds the rows of the entity it names: the node id reads back as the
\* job or dataset (and its columns) that it was built from, also under a URI
\* namespace and with colons in the name ("the namespace extends through the
\* authority"), and names no other entity.
NodeIdsReadBack ==
  pc = "exists" => \A e \in Entities : seed \in EntityIds(e) =>
    /\ ReadsBack(e)
    /\ \A d \in Entities \ {e} : seed \notin EntityIds(d)

\* What a user types reaches the server as meant: a node id that an answer showed
\* is passed on unchanged, and the shorthand names its entity
\* (render/nodeid.rs, "it must NOT be split on the URI's slash").  The client that
\* expands a dataset column by column asks for the dataset that the server would
\* read from its id, unless the name has a colon (column_lineage.rs fetch).
TargetsResolve ==
  pc = "exists" => \A e \in Entities : seed \in EntityIds(e) =>
    /\ Resolves(e)
    /\ seed[1] = "dataset" =>
         (fetched_dataset(seed) = <<e.ns, e.name>>) = ~ Contains(e.name, ":")

-------------------------------------------------------------------------------
(* The inductive invariant behind the first two *)

\* Every node id reads back as the row it was built from.
RowsReadBack == \A row \in Rows : parse_node_id(node_id(row)) = row

\* No depth wraps around in an i32: those of the Connect surface are capped first.
DepthsFit == \A r \in Requests : r.surface = "rest" => r.depth <= I32_MAX

\* An edge joins two nodes that have their rows.
EdgesHaveRows ==
  \A e \in db.edges : e \in Nodes \X Nodes /\ \A i \in {1, 2} : parse_node_id(e[i]) \in db.rows

TypeOK ==
  /\ db = [rows |-> db.rows, edges |-> db.edges]
  /\ pc \in {"exists", "not_found", "reach", "incident", "build", "answered"}
  /\ request \in Requests
  /\ rebuilds \in Nat /\ before.rebuilds \in Nat /\ before.rebuilds <= rebuilds

\* What was reached is joined to the seed by edges between nodes that were: those
\* of the tables, and then those that the second query returned.
Within(E) == {e \in E : e[1] \in reached /\ e[2] \in reached}
ReachedInStep ==
  pc \in {"incident", "build", "answered"} =>
    /\ Near(before.db.edges, seed, Promised, "Both") \subseteq reached
    /\ reached \subseteq Near(db.edges, seed, Promised, "Both")
    /\ reached \subseteq Near(Within(IF pc = "incident" THEN db.edges ELSE incident),
                            seed, Promised, "Both")

\* The second query returned the incident edges there were, old ones at least.
IncidentInStep ==
  pc \in {"build", "answered"} =>
    /\ \A e \in incident : e \in db.edges /\ (e[1] \in reached \/ e[2] \in reached)
    /\ \A e \in before.db.edges : e[1] \in reached \/ e[2] \in reached => e \in incident

NodeOf(i) ==
  [id |-> i, in_edges |-> {e \in incident : e[2] = i}, out_edges |-> {e \in incident : e[1] = i}]

\* The answer is empty until nodes are looked up; every reached node that was looked
\* up is in it.
GraphInStep ==
  /\ pc \in {"exists", "reach", "incident"} => graph = {}
  /\ pc \in {"build", "answered"} =>
       /\ todo \subseteq reached
       /\ graph = {NodeOf(i) : i \in reached \ todo}
       /\ pc = "answered" => todo = {}

IInv ==
  /\ TypeOK /\ EdgesHaveRows
  /\ rebuilds = before.rebuilds =>
       /\ before.db.edges \subseteq db.edges
       /\ pc \notin {"exists", "not_found"} => parse_node_id(seed) \in db.rows
       /\ ReachedInStep /\ IncidentInStep /\ GraphInStep
==============================================================================
