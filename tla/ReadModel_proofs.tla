--------------------------- MODULE ReadModel_proofs ---------------------------
(***************************************************************************)
(* What the read tables show, for every set of documents, every order of   *)
(* the log and any number of repetitions: proofs of the invariants of      *)
(* ReadModel.                                                              *)
(***************************************************************************)
EXTENDS ReadModel, SequenceLemmas

-------------------------------------------------------------------------------
(* Rows and tables *)

\* SET changes the columns it names and no others.
LEMMA SetColumns ==
  ASSUME NEW row, NEW columns
  PROVE  /\ DOMAIN Set(row, columns) = DOMAIN row
         /\ \A c \in DOMAIN row :
              Set(row, columns)[c] = IF c \in DOMAIN columns THEN columns[c] ELSE row[c]
BY DEF Set

\* An upsert changes the row of its key alone, and that one gets the columns of
\* the statement; only the trigger's column may differ.
Upserted(new, table, key) ==
  DOMAIN new = DOMAIN table \cup {key} /\ \A k \in DOMAIN table : k # key => new[k] = table[k]

LEMMA PutTable ==
  ASSUME NEW table, NEW key, NEW row
  PROVE  Upserted(Put(table, key, row), table, key)
BY DEF Upserted, Put, With

LEMMA PutRow ==
  ASSUME NEW table, NEW key, NEW row, NEW new, new = Put(table, key, row)[key]
  PROVE  /\ DOMAIN new = DOMAIN row
         /\ \A c \in DOMAIN row : c # "updated_at" => new[c] = row[c]
<1> DEFINE touched == key \in DOMAIN table /\ row # table[key]
           columns == When(touched, [updated_at |-> Now])
<1>1. Put(table, key, row) = With(table, key, Set(row, columns))
  BY DEF Put
<1>2. DOMAIN columns \in SUBSET {"updated_at"}
  BY DEF When
<1> HIDE DEF columns
<1>3. new = Set(row, columns)
  BY <1>1 DEF With
<1> QED BY <1>2, <1>3, SetColumns

-------------------------------------------------------------------------------
(* The guard *)

\* A mutation that passes the guard is among the newest, and the newest have
\* its time; one that does not leaves the newest as they are.
LEMMA StampMoves ==
  ASSUME NEW S, NEW at, Stamp(S, at), NEW m, m.at \in Int, Null \notin Int,
         \A n \in S : n.at \in Int
  PROVE  /\ Latest(m.at, at) =>
              /\ m \in LatestIn(S \cup {m}) /\ Stamp(S \cup {m}, m.at)
              /\ \A n \in LatestIn(S \cup {m}) : n = m \/ (n \in LatestIn(S) /\ at = m.at)
              /\ Greatest(at, m.at) = m.at
         /\ ~ Latest(m.at, at) =>
              /\ S # {} /\ LatestIn(S \cup {m}) = LatestIn(S) /\ Stamp(S \cup {m}, at)
              /\ Greatest(at, m.at) = at
<1>1. CASE S = {}
  <2>1. at = Null /\ Latest(m.at, at) /\ Greatest(at, m.at) = m.at
    BY <1>1 DEF Stamp, Latest, Greatest
  <2>2. LatestIn(S \cup {m}) = {m}
    BY <1>1 DEF LatestIn
  <2>3. Stamp(S \cup {m}, m.at)
    BY <2>2 DEF Stamp
  <2> QED BY <2>1, <2>2, <2>3
<1>2. CASE S # {}
  <2>1. PICK p \in LatestIn(S) : p.at = at
    BY <1>2 DEF Stamp
  <2>2. at \in Int /\ p \in S /\ \A n \in S : n.at \in Int /\ n.at <= at
    BY <2>1 DEF LatestIn
  <2>3. Latest(m.at, at) <=> m.at >= at
    BY <2>2 DEF Latest
  <2>4. CASE m.at >= at
    <3>1. \A n \in S \cup {m} : n.at <= m.at
      BY <2>2, <2>4
    <3>2. m \in LatestIn(S \cup {m})
      BY <3>1 DEF LatestIn
    <3>3. ASSUME NEW n \in LatestIn(S \cup {m}), n # m
          PROVE  n \in LatestIn(S) /\ at = m.at
      <4>1. n \in S /\ m.at <= n.at /\ \A q \in S : q.at <= n.at
        BY <3>3 DEF LatestIn
      <4>2. n.at <= at /\ n.at \in Int
        BY <2>2, <4>1
      <4> QED BY <2>2, <2>4, <4>1, <4>2 DEF LatestIn
    <3>4. Stamp(S \cup {m}, m.at)
      BY <3>2 DEF Stamp
    <3>5. Greatest(at, m.at) = m.at
      BY <2>2, <2>4 DEF Greatest
    <3> QED BY <2>3, <2>4, <3>2, <3>3, <3>4, <3>5
  <2>5. CASE ~ (m.at >= at)
    <3>1. LatestIn(S \cup {m}) = LatestIn(S)
      <4>1. m.at < at
        BY <2>2, <2>5
      <4>2. m \notin LatestIn(S \cup {m})
        BY <2>1, <2>2, <4>1 DEF LatestIn
      <4>3. \A n \in S : (\A q \in S : q.at <= n.at) => m.at <= n.at
        BY <2>1, <2>2, <4>1
      <4>4. \A n \in S : (\A q \in S \cup {m} : q.at <= n.at) <=> (\A q \in S : q.at <= n.at)
        BY <4>3
      <4> QED BY <4>2, <4>4 DEF LatestIn
    <3>2. Stamp(S \cup {m}, at)
      BY <2>1, <3>1 DEF Stamp
    <3>3. Greatest(at, m.at) = at
      BY <2>2, <2>5 DEF Greatest
    <3> QED BY <1>2, <2>3, <2>5, <3>1, <3>2, <3>3
  <2> QED BY <2>4, <2>5
<1> QED BY <1>1, <1>2
-------------------------------------------------------------------------------
(* Sequences of mutations *)

LEMMA ShortSequences ==
  /\ << >> \in Seq(ToSet(<< >>)) /\ ToSet(<< >>) = {}
  /\ \A a : <<a>> \in Seq(ToSet(<<a>>)) /\ ToSet(<<a>>) = {a}
  /\ \A a, b : <<a, b>> \in Seq(ToSet(<<a, b>>)) /\ ToSet(<<a, b>>) = {a, b}
<1>1. << >> \in Seq(ToSet(<< >>)) /\ ToSet(<< >>) = {}
  BY DEF ToSet
<1>2. ASSUME NEW a
      PROVE  <<a>> \in Seq(ToSet(<<a>>)) /\ ToSet(<<a>>) = {a}
  <2>1. <<a>> \in Seq({a}) /\ ToSet(<<a>>) = {a}
    BY DEF ToSet
  <2> QED BY <2>1
<1>3. ASSUME NEW a, NEW b
      PROVE  <<a, b>> \in Seq(ToSet(<<a, b>>)) /\ ToSet(<<a, b>>) = {a, b}
  <2>1. <<a, b>> \in Seq({a, b}) /\ DOMAIN <<a, b>> = {1, 2}
    OBVIOUS
  <2>2. ToSet(<<a, b>>) = {a, b}
    BY <2>1 DEF ToSet
  <2> QED BY <2>1, <2>2
<1> QED BY <1>1, <1>2, <1>3

LEMMA EmitElements ==
  ASSUME NEW c, NEW m
  PROVE  /\ Emit(c, m) \in Seq(ToSet(Emit(c, m)))
         /\ c => ToSet(Emit(c, m)) = {m}
         /\ ~ c => ToSet(Emit(c, m)) = {}
<1>1. CASE c
  <2>1. Emit(c, m) = <<m>>
    BY <1>1 DEF Emit
  <2> QED BY <1>1, <2>1, ShortSequences
<1>2. CASE ~ c
  <2>1. Emit(c, m) = << >>
    BY <1>2 DEF Emit
  <2> QED BY <1>2, <2>1, ShortSequences
<1> QED BY <1>1, <1>2

\* ss are the parts of a loop over s whose body makes F[d] of an element d.
Loop(s, F, ss) ==
  /\ s \in Seq(ToSet(s))
  /\ \A d \in ToSet(s) : F[d] \in Seq(ToSet(F[d]))
  /\ ss = [i \in DOMAIN s |-> F[s[i]]]

LEMMA LoopElements ==
  ASSUME NEW s, NEW F, NEW ss, Loop(s, F, ss)
  PROVE  /\ FlattenSeq(ss) \in Seq(ToSet(FlattenSeq(ss)))
         /\ \A x : x \in ToSet(FlattenSeq(ss)) <=> \E d \in ToSet(s) : x \in ToSet(F[d])
<1>1. DOMAIN s = 1..Len(s) /\ Len(s) \in Nat
  BY DEF Loop
<1>2. ss = [i \in 1..Len(s) |-> F[s[i]]]
  BY <1>1 DEF Loop
<1>3. \A i \in 1..Len(s) : ss[i] = F[s[i]] /\ s[i] \in ToSet(s)
  BY <1>1, <1>2 DEF ToSet
<1>4. ss \in [1..Len(s) -> {ss[i] : i \in 1..Len(s)}]
  <2>1. DOMAIN ss = 1..Len(s) /\ ss = [i \in 1..Len(s) |-> ss[i]]
    BY <1>2
  <2> QED BY ONLY <2>1
<1>5. \A i \in 1..Len(s) : ss[i] \in Seq(ToSet(ss[i]))
  BY <1>3 DEF Loop
<1>6. /\ FlattenSeq(ss) \in Seq(ToSet(FlattenSeq(ss)))
      /\ ToSet(FlattenSeq(ss)) = UNION {ToSet(ss[i]) : i \in 1..Len(s)}
  <2>1. SUFFICES ASSUME NEW n, n = Len(s)
                 PROVE  /\ FlattenSeq(ss) \in Seq(ToSet(FlattenSeq(ss)))
                        /\ ToSet(FlattenSeq(ss)) = UNION {ToSet(ss[i]) : i \in 1..n}
    OBVIOUS
  <2>2. /\ n \in Nat /\ ss \in [1..n -> {ss[i] : i \in 1..n}]
        /\ \A i \in 1..n : ss[i] \in Seq(ToSet(ss[i]))
    BY <1>1, <1>4, <1>5, <2>1
  <2> QED BY ONLY <2>2, FlattenElements
<1>7. ToSet(s) = {s[i] : i \in 1..Len(s)}
  BY <1>1 DEF ToSet
<1>8. \A x : x \in UNION {ToSet(ss[i]) : i \in 1..Len(s)} <=> \E i \in 1..Len(s) : x \in ToSet(F[s[i]])
  BY <1>3
<1> QED BY <1>6, <1>7, <1>8

\* The same with a body that makes the one mutation F[d] of d.
LoopOfOne(s, F, ss) ==
  s \in Seq(ToSet(s)) /\ ss = [i \in DOMAIN s |-> <<F[s[i]]>>]

LEMMA LoopOfOneElements ==
  ASSUME NEW s, NEW F, NEW ss, LoopOfOne(s, F, ss)
  PROVE  /\ FlattenSeq(ss) \in Seq(ToSet(FlattenSeq(ss)))
         /\ \A x : x \in ToSet(FlattenSeq(ss)) <=> \E d \in ToSet(s) : x = F[d]
<1> DEFINE G == [d \in ToSet(s) |-> <<F[d]>>]
<1>1. \A d \in ToSet(s) : G[d] = <<F[d]>> /\ G[d] \in Seq(ToSet(G[d])) /\ ToSet(G[d]) = {F[d]}
  BY ShortSequences
<1>2. \A i \in DOMAIN s : s[i] \in ToSet(s)
  BY DEF ToSet
<1> HIDE DEF G
<1>3. ss = [i \in DOMAIN s |-> G[s[i]]]
  BY <1>1, <1>2 DEF LoopOfOne
<1>4. Loop(s, G, ss)
  BY <1>1, <1>3 DEF Loop, LoopOfOne
<1>5. /\ FlattenSeq(ss) \in Seq(ToSet(FlattenSeq(ss)))
      /\ \A x : x \in ToSet(FlattenSeq(ss)) <=> \E d \in ToSet(s) : x \in ToSet(G[d])
  BY <1>4, LoopElements
<1>6. \A d \in ToSet(s) : \A x : x \in ToSet(G[d]) <=> x = F[d]
  BY <1>1
<1> QED BY ONLY <1>5, <1>6

-------------------------------------------------------------------------------
(* What each processor makes of a document *)

\* The row of a document.
LEMMA RowOfDocument ==
  ASSUME NEW doc \in Documents, NEW ev, ev = EventRow(doc)
  PROVE  /\ IsDocument(doc) /\ ev.raw = doc /\ ev.event_kind = doc.kind
         /\ event_at(ev) \in Int
         /\ ev.job # Null => HasJob(ev) /\ ev.job = doc.job /\ ev.job[1] # ""
         /\ HasJob(ev) => ev.job # Null /\ ev.event_kind # "dataset"
         /\ ev.run_id # Null => doc.kind = "run" /\ ev.run_id = doc.run /\ ev.job = doc.job
         /\ ev.inputs \in Seq(ToSet(ev.inputs)) /\ ev.outputs \in Seq(ToSet(ev.outputs))
<1>1. /\ IsDocument(doc)
      /\ doc.kind \in {"run", "job", "dataset"} /\ doc.time \in Int \cup {Null}
      /\ doc.job # Null => doc.job[1] # ""
      /\ doc.inputs \in Seq(ToSet(doc.inputs)) /\ doc.outputs \in Seq(ToSet(doc.outputs))
  BY ReadModelAssumption DEF IsDocument, IsSeq
<1>2. /\ ev.raw = doc /\ ev.event_kind = doc.kind /\ ev.event_time = doc.time
      /\ ev.run_id = IF doc.kind = "run" THEN doc.run ELSE Null
      /\ ev.job = IF doc.kind \in {"run", "job"} THEN doc.job ELSE Null
      /\ ev.inputs = IF doc.kind = "dataset" THEN << >> ELSE Refs(doc.inputs)
      /\ ev.outputs = IF doc.kind = "dataset" THEN << >> ELSE Refs(doc.outputs)
  BY DEF EventRow, For
<1>3. event_at(ev) \in Int
  <2>1. doc.time \in Int \cup {Null} /\ ev.event_time = doc.time
    BY <1>1, <1>2
  <2> QED BY ONLY <2>1 DEF event_at
<1>4. ASSUME NEW s, s \in Seq(ToSet(s))
      PROVE  Refs(s) \in Seq(ToSet(Refs(s)))
  <2>1. Refs(s) \in Seq({s[i].ds : i \in DOMAIN s})
    BY <1>4 DEF Refs
  <2> QED BY <2>1, SeqOfElements
<1>5. ev.inputs \in Seq(ToSet(ev.inputs)) /\ ev.outputs \in Seq(ToSet(ev.outputs))
  <2>1. /\ Refs(doc.inputs) \in Seq(ToSet(Refs(doc.inputs)))
        /\ Refs(doc.outputs) \in Seq(ToSet(Refs(doc.outputs)))
        /\ << >> \in Seq(ToSet(<< >>))
    BY <1>1, <1>4, ShortSequences
  <2>2. ev.inputs \in {<< >>, Refs(doc.inputs)} /\ ev.outputs \in {<< >>, Refs(doc.outputs)}
    BY <1>2
  <2> QED BY ONLY <2>1, <2>2
<1> QED BY <1>1, <1>2, <1>3, <1>5 DEF HasJob

LEMMA RunStateMutations ==
  ASSUME NEW doc \in Documents, NEW ev, ev = EventRow(doc), NEW s, s = RunStateProcessor(ev)
  PROVE  /\ s \in Seq(ToSet(s))
         /\ \A m \in ToSet(s) : /\ m.op = "UpsertRunState" /\ WellFormed(m)
                                /\ HasJob(ev) /\ m.job = ev.job
         /\ ev.job # Null /\ ev.run_id # Null => Has(ToSet(s), "UpsertRunState", ev.run_id)
<1> DEFINE state == event_type_to_state(ev.event_type)
           m == [op |-> "UpsertRunState", key |-> ev.run_id, at |-> event_at(ev),
                 job |-> ev.job, state |-> state,
                 is_start |-> ev.event_type = "START", is_terminal |-> state \in Terminal]
           c == HasJob(ev) /\ ev.run_id # Null
<1>1. s = Emit(c, m)
  BY DEF RunStateProcessor
<1>2. state \in Terminal \cup {"RUNNING", Null}
  BY DEF event_type_to_state, Terminal
<1> HIDE DEF state
<1>3. event_at(ev) \in Int /\ (ev.job # Null => HasJob(ev))
  BY RowOfDocument
<1>4. /\ m.op = "UpsertRunState" /\ m.at = event_at(ev) /\ m.job = ev.job
      /\ m.key = ev.run_id /\ m.state = state /\ m.is_terminal = (state \in Terminal)
  OBVIOUS
<1> HIDE DEF m, c
<1>5. WellFormed(m)
  BY <1>2, <1>3, <1>4 DEF WellFormed, Ops
<1>6. /\ s \in Seq(ToSet(s))
      /\ (c => ToSet(s) = {m}) /\ (~ c => ToSet(s) = {})
  BY <1>1, EmitElements
<1> QED BY <1>3, <1>4, <1>5, <1>6 DEF c, Has

LEMMA JobEdgeMutations ==
  ASSUME NEW doc \in Documents, NEW ev, ev = EventRow(doc), NEW s, s = JobEdgeProcessor(ev)
  PROVE  /\ s \in Seq(ToSet(s))
         /\ \A m \in ToSet(s) : /\ m.op \in {"NoteNamespace", "UpsertJob", "UpsertLineageEdge"}
                                /\ WellFormed(m) /\ HasJob(ev)
         /\ \A m \in ToSet(s) : m.op = "UpsertJob" =>
              /\ m.key = ev.job
              /\ m.edges # Null => m.edges.inputs = ev.inputs /\ m.edges.outputs = ev.outputs
         /\ \A m \in ToSet(s) : m.op = "UpsertLineageEdge" =>
              \E d \in ToSet(ev.inputs) \cup ToSet(ev.outputs) :
                m.key \in {InEdge(d, ev.job), OutEdge(d, ev.job)}
         /\ HasJob(ev) =>
              /\ Has(ToSet(s), "NoteNamespace", ev.job[1]) /\ Has(ToSet(s), "UpsertJob", ev.job)
              /\ \A d \in ToSet(ev.inputs) : Has(ToSet(s), "UpsertLineageEdge", InEdge(d, ev.job))
              /\ \A d \in ToSet(ev.outputs) : Has(ToSet(s), "UpsertLineageEdge", OutEdge(d, ev.job))
<1> DEFINE at == event_at(ev)
           facets == ev.raw.job_facets
           carries_edges == ev.inputs # << >> \/ ev.outputs # << >>
           has_meta == facets.description # Null \/ facets.tags # << >>
           note == NoteNamespaceOf(ev.job, at)
           upsert == [op |-> "UpsertJob", key |-> ev.job, at |-> at,
                      edges |-> IF carries_edges
                                THEN [inputs |-> ev.inputs, outputs |-> ev.outputs] ELSE Null,
                      description |-> facets.description,
                      tags |-> IF has_meta THEN facets.tags ELSE Null]
           In == [d \in ToSet(ev.inputs) |->
                    [op |-> "UpsertLineageEdge", key |-> InEdge(d, ev.job)]]
           Out == [d \in ToSet(ev.outputs) |->
                     [op |-> "UpsertLineageEdge", key |-> OutEdge(d, ev.job)]]
           ins == [i \in DOMAIN ev.inputs |-> <<In[ev.inputs[i]]>>]
           outs == [i \in DOMAIN ev.outputs |-> <<Out[ev.outputs[i]]>>]
           a == FlattenSeq(ins)
           b == FlattenSeq(outs)
<1>1. CASE ~ HasJob(ev)
  <2>1. s = << >>
    BY <1>1 DEF JobEdgeProcessor
  <2> QED BY <1>1, <2>1, ShortSequences
<1>2. CASE HasJob(ev)
  <2>1. s = (<<note, upsert>> \o a) \o b
    <3>1. s = (<<note, upsert>>
               \o FlattenSeq([i \in DOMAIN ev.inputs |->
                    <<[op |-> "UpsertLineageEdge",
                       key |-> <<<<"dataset", ev.inputs[i]>>, <<"job", ev.job>>>>]>>]))
              \o FlattenSeq([i \in DOMAIN ev.outputs |->
                    <<[op |-> "UpsertLineageEdge",
                       key |-> <<<<"job", ev.job>>, <<"dataset", ev.outputs[i]>>>>]>>])
      BY <1>2 DEF JobEdgeProcessor, ForEach
    <3>2. /\ \A i \in DOMAIN ev.inputs : In[ev.inputs[i]] =
               [op |-> "UpsertLineageEdge", key |-> <<<<"dataset", ev.inputs[i]>>, <<"job", ev.job>>>>]
          /\ \A i \in DOMAIN ev.outputs : Out[ev.outputs[i]] =
               [op |-> "UpsertLineageEdge", key |-> <<<<"job", ev.job>>, <<"dataset", ev.outputs[i]>>>>]
      BY DEF ToSet, InEdge, OutEdge
    <3>3. /\ ins = [i \in DOMAIN ev.inputs |->
                <<[op |-> "UpsertLineageEdge",
                   key |-> <<<<"dataset", ev.inputs[i]>>, <<"job", ev.job>>>>]>>]
          /\ outs = [i \in DOMAIN ev.outputs |->
                <<[op |-> "UpsertLineageEdge",
                   key |-> <<<<"job", ev.job>>, <<"dataset", ev.outputs[i]>>>>]>>]
      <4> HIDE DEF In, Out
      <4> QED BY <3>2
    <3> QED BY <3>1, <3>3
  <2>2. /\ ev.inputs \in Seq(ToSet(ev.inputs)) /\ ev.outputs \in Seq(ToSet(ev.outputs))
        /\ at \in Int /\ IsDocument(doc) /\ ev.raw = doc
        /\ ev.job # Null /\ ev.job[1] # "" /\ HasJob(ev)
    BY <1>2, RowOfDocument
  <2>3. /\ note.op = "NoteNamespace" /\ note.key = ev.job[1] /\ note.at = at
        /\ upsert.op = "UpsertJob" /\ upsert.key = ev.job /\ upsert.at = at
        /\ upsert.description = facets.description
        /\ upsert.tags = IF has_meta THEN facets.tags ELSE Null
        /\ upsert.edges # Null => /\ upsert.edges.inputs = ev.inputs
                                  /\ upsert.edges.outputs = ev.outputs
    BY DEF NoteNamespaceOf
  <2>4. /\ \A d \in ToSet(ev.inputs) : /\ In[d].op = "UpsertLineageEdge"
                                       /\ In[d].key = InEdge(d, ev.job)
        /\ \A d \in ToSet(ev.outputs) : /\ Out[d].op = "UpsertLineageEdge"
                                        /\ Out[d].key = OutEdge(d, ev.job)
    OBVIOUS
  <2> HIDE DEF note, upsert, In, Out, at
  <2>5. a \in Seq(ToSet(a)) /\ \A x : x \in ToSet(a) <=> \E d \in ToSet(ev.inputs) : x = In[d]
    <3>1. LoopOfOne(ev.inputs, In, ins)
      BY <2>2 DEF LoopOfOne
    <3> QED BY <3>1, LoopOfOneElements
  <2>6. b \in Seq(ToSet(b)) /\ \A x : x \in ToSet(b) <=> \E d \in ToSet(ev.outputs) : x = Out[d]
    <3>1. LoopOfOne(ev.outputs, Out, outs)
      BY <2>2 DEF LoopOfOne
    <3> QED BY <3>1, LoopOfOneElements
  <2> HIDE DEF a, b, ins, outs
  <2>7. s \in Seq(ToSet(s)) /\ ToSet(s) = {note, upsert} \cup ToSet(a) \cup ToSet(b)
    <3>1. <<note, upsert>> \in Seq(ToSet(<<note, upsert>>))
          /\ ToSet(<<note, upsert>>) = {note, upsert}
      BY ShortSequences
    <3>2. SUFFICES ASSUME NEW p, p = <<note, upsert>>, NEW q, q = p \o a
                   PROVE  s \in Seq(ToSet(s)) /\ ToSet(s) = ToSet(p) \cup ToSet(a) \cup ToSet(b)
      BY <3>1
    <3>3. q \in Seq(ToSet(q)) /\ ToSet(q) = ToSet(p) \cup ToSet(a)
      BY <2>5, <3>1, <3>2, ConcatElements
    <3>4. s = q \o b
      BY <2>1, <3>2
    <3> QED BY <2>6, <3>3, <3>4, ConcatElements
  <2> HIDE DEF facets, carries_edges
  <2>8. facets.tags # Null
    BY <2>2 DEF IsDocument, IsSeq, facets
  <2>9. ASSUME NEW m \in ToSet(s)
        PROVE  \/ m = note \/ m = upsert
               \/ \E d \in ToSet(ev.inputs) : m = In[d]
               \/ \E d \in ToSet(ev.outputs) : m = Out[d]
    BY <2>5, <2>6, <2>7
  <2>10. /\ note \in ToSet(s) /\ upsert \in ToSet(s)
         /\ \A d \in ToSet(ev.inputs) : In[d] \in ToSet(s)
         /\ \A d \in ToSet(ev.outputs) : Out[d] \in ToSet(s)
    BY <2>5, <2>6, <2>7
  <2>11. /\ WellFormed(note) /\ WellFormed(upsert)
         /\ \A m : m.op = "UpsertLineageEdge" => WellFormed(m)
    <3>1. WellFormed(note) /\ \A m : m.op = "UpsertLineageEdge" => WellFormed(m)
      BY <2>2, <2>3 DEF WellFormed, Ops
    <3>2. upsert.description # Null => upsert.tags # Null
      BY <2>3, <2>8
    <3> HIDE DEF has_meta
    <3>3. WellFormed(upsert)
      BY <2>2, <2>3, <3>2 DEF WellFormed, Ops
    <3> QED BY <3>1, <3>3
  <2>12. ASSUME NEW m \in ToSet(s)
         PROVE  /\ m.op \in {"NoteNamespace", "UpsertJob", "UpsertLineageEdge"}
                /\ WellFormed(m)
                /\ m.op = "UpsertJob" => m = upsert
                /\ m.op = "UpsertLineageEdge" =>
                     \E d \in ToSet(ev.inputs) \cup ToSet(ev.outputs) :
                       m.key \in {InEdge(d, ev.job), OutEdge(d, ev.job)}
    <3>1. CASE m = note \/ m = upsert
      BY <2>3, <2>11, <3>1
    <3>2. CASE \E d \in ToSet(ev.inputs) : m = In[d]
      BY <2>4, <2>11, <3>2
    <3>3. CASE \E d \in ToSet(ev.outputs) : m = Out[d]
      BY <2>4, <2>11, <3>3
    <3> QED BY <2>9, <3>1, <3>2, <3>3
  <2>13. Has(ToSet(s), "NoteNamespace", ev.job[1]) /\ Has(ToSet(s), "UpsertJob", ev.job)
    BY <2>3, <2>10 DEF Has
  <2>14. /\ \A d \in ToSet(ev.inputs) : Has(ToSet(s), "UpsertLineageEdge", InEdge(d, ev.job))
         /\ \A d \in ToSet(ev.outputs) : Has(ToSet(s), "UpsertLineageEdge", OutEdge(d, ev.job))
    BY <2>4, <2>10 DEF Has
  <2> QED BY <1>2, <2>3, <2>7, <2>12, <2>13, <2>14
<1> QED BY <1>1, <1>2

\* The dataset entries of a document.
LEMMA EntriesOfDocument ==
  ASSUME NEW doc \in Documents
  PROVE  /\ Entries(doc) \in Seq(ToSet(Entries(doc)))
         /\ \A e \in ToSet(Entries(doc)) : IsEntry(e)
         /\ \A e \in ToSet(doc.outputs) : e \in ToSet(Entries(doc))
<1> DEFINE i == doc.inputs
           o == doc.outputs
           d == Emit(doc.dataset # Null, doc.dataset)
<1>1. /\ i \in Seq(ToSet(i)) /\ \A e \in ToSet(i) : IsEntry(e)
      /\ o \in Seq(ToSet(o)) /\ \A e \in ToSet(o) : IsEntry(e)
      /\ doc.dataset # Null => IsEntry(doc.dataset)
  BY ReadModelAssumption DEF IsDocument, IsSeq
<1>2. /\ d \in Seq(ToSet(d))
      /\ doc.dataset # Null => ToSet(d) = {doc.dataset}
      /\ ~ (doc.dataset # Null) => ToSet(d) = {}
  BY EmitElements
<1>3. Entries(doc) = (i \o o) \o d
  BY DEF Entries
<1> HIDE DEF i, o, d
<1>4. SUFFICES ASSUME NEW p, p = i \o o, NEW q, q = p \o d
               PROVE  q \in Seq(ToSet(q)) /\ ToSet(q) = ToSet(i) \cup ToSet(o) \cup ToSet(d)
  BY <1>1, <1>2, <1>3 DEF i, o
<1>5. p \in Seq(ToSet(p)) /\ ToSet(p) = ToSet(i) \cup ToSet(o)
  BY <1>1, <1>4, ConcatElements
<1>6. d \in Seq(ToSet(d)) /\ q = p \o d
  BY <1>2, <1>4
<1> QED BY ONLY <1>5, <1>6, ConcatElements

\* A schema that OutputSchema finds is one of the document's.
LEMMA OutputSchemaOfEntry ==
  ASSUME NEW doc \in Documents, NEW ev, ev = EventRow(doc), NEW ds,
         OutputSchema(ev, ds) # Null
  PROVE  \E e \in ToSet(doc.outputs) : e.ds = ds /\ e.schema = OutputSchema(ev, ds)
<1> DEFINE n == Len(doc.outputs)
           carrying == {i \in DOMAIN doc.outputs :
                          doc.outputs[i].ds = ds /\ doc.outputs[i].schema # Null}
           last == CHOOSE i \in carrying : \A j \in carrying : j <= i
<1>1. ev.raw = doc /\ doc.outputs \in Seq(ToSet(doc.outputs))
  BY RowOfDocument DEF IsDocument, IsSeq
<1>2. n \in Nat /\ DOMAIN doc.outputs = 1..n
  BY <1>1
<1>3. carrying # {} /\ OutputSchema(ev, ds) = doc.outputs[last].schema
  BY <1>1 DEF OutputSchema
<1>4. \E i \in carrying : \A j \in carrying : j <= i
  <2> DEFINE T == {n - i : i \in carrying}
  <2>1. carrying # {} /\ \A i \in carrying : i \in 1..n
    BY <1>2, <1>3
  <2> HIDE DEF carrying, n
  <2>2. T \in SUBSET Nat /\ T # {}
    BY <1>2, <2>1
  <2>3. PICK x \in T : \A y \in T : x <= y
    BY <2>2, LeastNumber
  <2>4. PICK i \in carrying : x = n - i
    OBVIOUS
  <2>5. \A j \in carrying : n - j \in T /\ j \in 1..n
    BY <2>1
  <2> HIDE DEF T
  <2>6. \A j \in carrying : x <= n - j
    BY <2>3, <2>5
  <2>7. \A j \in carrying : j <= i
    BY <1>2, <2>4, <2>5, <2>6
  <2> QED BY <2>7
<1>5. last \in carrying
  BY <1>4
<1> QED BY <1>3, <1>5 DEF ToSet

\* m notes the dataset d with the columns that the event's outputs carry for it.
NotesOutput(m, ev, d) ==
  /\ m.op = "UpsertDataset" /\ m.key = d
  /\ m.at = event_at(ev) /\ m.fields = OutputSchema(ev, d)

LEMMA DatasetRefMutations ==
  ASSUME NEW doc \in Documents, NEW ev, ev = EventRow(doc), NEW s, s = DatasetRefProcessor(ev)
  PROVE  /\ s \in Seq(ToSet(s))
         /\ \A m \in ToSet(s) : /\ m.op \in {"NoteNamespace", "UpsertDataset"} /\ WellFormed(m)
                                /\ m.op = "UpsertDataset" /\ m.fields # Null =>
                                     ev.event_kind # "dataset" /\ NotesOutput(m, ev, m.key)
         /\ ev.event_kind # "dataset" =>
              /\ \A d \in ToSet(ev.inputs) \cup ToSet(ev.outputs) : Has(ToSet(s), "UpsertDataset", d)
              /\ \A d \in ToSet(ev.outputs) : \E m \in ToSet(s) : NotesOutput(m, ev, d)
<1> DEFINE at == event_at(ev)
           Note == [d \in ToSet(ev.inputs) \cup ToSet(ev.outputs) |-> NoteNamespaceOf(d, at)]
           In == [d \in ToSet(ev.inputs) |->
                    [op |-> "UpsertDataset", key |-> d, at |-> at, fields |-> Null]]
           Out == [d \in ToSet(ev.outputs) |->
                     [op |-> "UpsertDataset", key |-> d, at |-> at, fields |-> OutputSchema(ev, d)]]
           F == [d \in ToSet(ev.inputs) |-> <<Note[d], In[d]>>]
           G == [d \in ToSet(ev.outputs) |-> <<Note[d], Out[d]>>]
           ins == [i \in DOMAIN ev.inputs |-> F[ev.inputs[i]]]
           outs == [i \in DOMAIN ev.outputs |-> G[ev.outputs[i]]]
           a == FlattenSeq(ins)
           b == FlattenSeq(outs)
<1>1. /\ ev.inputs \in Seq(ToSet(ev.inputs)) /\ ev.outputs \in Seq(ToSet(ev.outputs))
      /\ at \in Int
  BY RowOfDocument
<1>2. CASE ev.event_kind = "dataset"
  <2> DEFINE m == [op |-> "UpsertDataset", key |-> ev.dataset, at |-> at, fields |-> Null]
  <2>1. s = Emit(ev.dataset # Null, m)
    BY <1>2 DEF DatasetRefProcessor
  <2>2. m.op = "UpsertDataset" /\ m.fields = Null /\ m.at = at
    OBVIOUS
  <2> HIDE DEF m, at
  <2>3. WellFormed(m)
    BY <1>1, <2>2 DEF WellFormed, Ops
  <2>4. s \in Seq(ToSet(s)) /\ ToSet(s) \subseteq {m}
    BY <2>1, EmitElements
  <2> QED BY <1>2, <2>2, <2>3, <2>4
<1>3. CASE ev.event_kind # "dataset"
  <2>1. s = a \o b
    <3>1. s = FlattenSeq([i \in DOMAIN ev.inputs |->
                <<NoteNamespaceOf(ev.inputs[i], at),
                  [op |-> "UpsertDataset", key |-> ev.inputs[i], at |-> at, fields |-> Null]>>])
              \o FlattenSeq([i \in DOMAIN ev.outputs |->
                <<NoteNamespaceOf(ev.outputs[i], at),
                  [op |-> "UpsertDataset", key |-> ev.outputs[i], at |-> at,
                   fields |-> OutputSchema(ev, ev.outputs[i])]>>])
      BY <1>3 DEF DatasetRefProcessor, ForEach
    <3>2. /\ \A i \in DOMAIN ev.inputs : ev.inputs[i] \in ToSet(ev.inputs)
          /\ \A i \in DOMAIN ev.outputs : ev.outputs[i] \in ToSet(ev.outputs)
      BY DEF ToSet
    <3>3. /\ \A d \in ToSet(ev.inputs) : F[d] =
               <<NoteNamespaceOf(d, at), [op |-> "UpsertDataset", key |-> d, at |-> at, fields |-> Null]>>
          /\ \A d \in ToSet(ev.outputs) : G[d] =
               <<NoteNamespaceOf(d, at), [op |-> "UpsertDataset", key |-> d, at |-> at,
                                          fields |-> OutputSchema(ev, d)]>>
      OBVIOUS
    <3> HIDE DEF F, G
    <3>4. /\ ins = [i \in DOMAIN ev.inputs |->
                <<NoteNamespaceOf(ev.inputs[i], at),
                  [op |-> "UpsertDataset", key |-> ev.inputs[i], at |-> at, fields |-> Null]>>]
          /\ outs = [i \in DOMAIN ev.outputs |->
                <<NoteNamespaceOf(ev.outputs[i], at),
                  [op |-> "UpsertDataset", key |-> ev.outputs[i], at |-> at,
                   fields |-> OutputSchema(ev, ev.outputs[i])]>>]
      BY <3>2, <3>3
    <3> QED BY <3>1, <3>4
  <2>2. /\ \A d \in ToSet(ev.inputs) : F[d] = <<Note[d], In[d]>>
        /\ \A d \in ToSet(ev.outputs) : G[d] = <<Note[d], Out[d]>>
    OBVIOUS
  <2>3. /\ \A d \in ToSet(ev.inputs) \cup ToSet(ev.outputs) :
             Note[d].op = "NoteNamespace" /\ Note[d].at = at
        /\ \A d \in ToSet(ev.inputs) : /\ In[d].op = "UpsertDataset" /\ In[d].key = d
                                       /\ In[d].at = at /\ In[d].fields = Null
        /\ \A d \in ToSet(ev.outputs) : /\ Out[d].op = "UpsertDataset" /\ Out[d].key = d
                                        /\ Out[d].at = at /\ Out[d].fields = OutputSchema(ev, d)
    BY DEF NoteNamespaceOf
  <2> HIDE DEF F, G, Note, In, Out, at
  <2>4. /\ \A d \in ToSet(ev.inputs) :
             F[d] \in Seq(ToSet(F[d])) /\ ToSet(F[d]) = {Note[d], In[d]}
        /\ \A d \in ToSet(ev.outputs) :
             G[d] \in Seq(ToSet(G[d])) /\ ToSet(G[d]) = {Note[d], Out[d]}
    <3>1. ASSUME NEW d \in ToSet(ev.inputs)
          PROVE  F[d] \in Seq(ToSet(F[d])) /\ ToSet(F[d]) = {Note[d], In[d]}
      <4>1. F[d] = <<Note[d], In[d]>>
        BY <2>2
      <4> QED BY ONLY <4>1, ShortSequences
    <3>2. ASSUME NEW d \in ToSet(ev.outputs)
          PROVE  G[d] \in Seq(ToSet(G[d])) /\ ToSet(G[d]) = {Note[d], Out[d]}
      <4>1. G[d] = <<Note[d], Out[d]>>
        BY <2>2
      <4> QED BY ONLY <4>1, ShortSequences
    <3> QED BY <3>1, <3>2
  <2>5. Loop(ev.inputs, F, ins) /\ Loop(ev.outputs, G, outs)
    BY <1>1, <2>4 DEF Loop
  <2>6. /\ a \in Seq(ToSet(a)) /\ b \in Seq(ToSet(b))
        /\ \A x : x \in ToSet(a) <=> \E d \in ToSet(ev.inputs) : x \in ToSet(F[d])
        /\ \A x : x \in ToSet(b) <=> \E d \in ToSet(ev.outputs) : x \in ToSet(G[d])
    BY <2>5, LoopElements
  <2> HIDE DEF ins, outs, a, b
  <2>7. s \in Seq(ToSet(s)) /\ ToSet(s) = ToSet(a) \cup ToSet(b)
    BY <2>1, <2>6, ConcatElements
  <2>8. ASSUME NEW m \in ToSet(s)
        PROVE  \/ \E d \in ToSet(ev.inputs) : m = Note[d] \/ m = In[d]
               \/ \E d \in ToSet(ev.outputs) : m = Note[d] \/ m = Out[d]
    <3>1. \A d \in ToSet(ev.inputs) : m \in ToSet(F[d]) => m = Note[d] \/ m = In[d]
      BY <2>4
    <3>2. \A d \in ToSet(ev.outputs) : m \in ToSet(G[d]) => m = Note[d] \/ m = Out[d]
      BY <2>4
    <3> QED BY <2>6, <2>7, <3>1, <3>2
  <2>9. /\ \A d \in ToSet(ev.inputs) : In[d] \in ToSet(s)
        /\ \A d \in ToSet(ev.outputs) : Out[d] \in ToSet(s)
    BY <2>4, <2>6, <2>7
  <2>10. \A m : m.op \in {"NoteNamespace", "UpsertDataset"} /\ m.at = at => WellFormed(m)
    BY <1>1 DEF WellFormed, Ops
  <2>11. ASSUME NEW m \in ToSet(s)
         PROVE  /\ m.op \in {"NoteNamespace", "UpsertDataset"} /\ WellFormed(m)
                /\ m.op = "UpsertDataset" /\ m.fields # Null =>
                     ev.event_kind # "dataset" /\ NotesOutput(m, ev, m.key)
    <3>1. CASE \E d \in ToSet(ev.inputs) : m = Note[d] \/ m = In[d]
      BY <2>3, <2>10, <3>1
    <3>2. CASE \E d \in ToSet(ev.outputs) : m = Note[d]
      BY <2>3, <2>10, <3>2
    <3>3. CASE \E d \in ToSet(ev.outputs) : m = Out[d]
      <4>1. PICK d \in ToSet(ev.outputs) : m = Out[d]
        BY <3>3
      <4>2. m.op = "UpsertDataset" /\ m.key = d /\ m.at = at /\ m.fields = OutputSchema(ev, d)
        BY <2>3, <4>1
      <4>3. NotesOutput(m, ev, m.key)
        BY <4>2 DEF NotesOutput, at
      <4> QED BY <1>3, <2>10, <4>2, <4>3
    <3> QED BY <2>8, <3>1, <3>2, <3>3
  <2>12. \A d \in ToSet(ev.inputs) \cup ToSet(ev.outputs) : Has(ToSet(s), "UpsertDataset", d)
    BY <2>3, <2>9 DEF Has
  <2>13. \A d \in ToSet(ev.outputs) : \E m \in ToSet(s) : NotesOutput(m, ev, d)
    BY <2>3, <2>9 DEF NotesOutput, at
  <2> QED BY <2>7, <2>11, <2>12, <2>13
<1> QED BY <1>2, <1>3

-------------------------------------------------------------------------------
(* The processors of facets *)

\* s holds mutations of these kinds, each as it should be.
MadeOf(s, ops) ==
  s \in Seq(ToSet(s)) /\ \A m \in ToSet(s) : m.op \in ops /\ WellFormed(m)

LEMMA MadeOfNothing ==
  ASSUME NEW ops
  PROVE  MadeOf(<< >>, ops)
BY ShortSequences DEF MadeOf

LEMMA MadeOfOne ==
  ASSUME NEW ops, NEW c, NEW m, c => m.op \in ops /\ WellFormed(m)
  PROVE  MadeOf(Emit(c, m), ops)
<1>1. Emit(c, m) \in Seq(ToSet(Emit(c, m)))
  BY EmitElements
<1>2. ASSUME NEW x \in ToSet(Emit(c, m))
      PROVE  x.op \in ops /\ WellFormed(x)
  <2>1. c /\ x = m
    BY EmitElements
  <2> QED BY <2>1
<1> QED BY <1>1, <1>2 DEF MadeOf

LEMMA MadeOfBoth ==
  ASSUME NEW ops, NEW s, NEW t, MadeOf(s, ops), MadeOf(t, ops)
  PROVE  MadeOf(s \o t, ops)
<1>1. s \o t \in Seq(ToSet(s \o t)) /\ ToSet(s \o t) = ToSet(s) \cup ToSet(t)
  BY ConcatElements DEF MadeOf
<1> QED BY <1>1 DEF MadeOf

LEMMA MadeOfEach ==
  ASSUME NEW ops, NEW s, s \in Seq(ToSet(s)), NEW F, \A d \in ToSet(s) : MadeOf(F[d], ops),
         NEW ss, ss = [i \in DOMAIN s |-> F[s[i]]]
  PROVE  /\ Loop(s, F, ss) /\ MadeOf(FlattenSeq(ss), ops)
<1>1. Loop(s, F, ss)
  BY DEF Loop, MadeOf
<1>2. /\ FlattenSeq(ss) \in Seq(ToSet(FlattenSeq(ss)))
      /\ \A x : x \in ToSet(FlattenSeq(ss)) <=> \E d \in ToSet(s) : x \in ToSet(F[d])
  BY <1>1, LoopElements
<1>3. ASSUME NEW x \in ToSet(FlattenSeq(ss))
      PROVE  x.op \in ops /\ WellFormed(x)
  <2>1. PICK d \in ToSet(s) : x \in ToSet(F[d])
    BY <1>2
  <2> QED BY <2>1 DEF MadeOf
<1> QED BY <1>1, <1>2, <1>3 DEF MadeOf

\* One value for each place of a sequence.
LEMMA MapIsSeq ==
  ASSUME NEW s, s \in Seq(ToSet(s)), NEW t, t = [i \in DOMAIN s |-> t[i]]
  PROVE  t \in Seq(ToSet(t)) /\ DOMAIN t = DOMAIN s
<1>1. DOMAIN s = 1..Len(s) /\ Len(s) \in Nat
  OBVIOUS
<1>2. DOMAIN t = 1..Len(s)
  BY <1>1
<1>3. t \in [1..Len(s) -> ToSet(t)]
  BY <1>1, <1>2 DEF ToSet
<1> QED BY <1>1, <1>2, <1>3

\* The row of a column that a mutation makes, and the mutation for column i of e.
FieldOf(m) == [type |-> m.type, ordinal |-> m.ordinal, schema_at |-> m.at]
ColumnMutation(ev, e, i) ==
  [op |-> "UpsertDatasetField", key |-> <<e.ds, e.schema[i].name>>, at |-> event_at(ev),
   type |-> e.schema[i].type, ordinal |-> i]
VersionMutation(ev, e) ==
  [op |-> "EmitDatasetVersion", key |-> <<e.ds, VersionOf(e.schema)>>, at |-> event_at(ev),
   run_id |-> ev.run_id]

\* x is one of the mutations of an entry's schema.
MadeOfSchema(x, ev, e) ==
  /\ e.schema # Null /\ e.typed
  /\ \/ \E i \in DOMAIN e.schema : /\ e.schema[i].name \notin Unnamed
                                   /\ x = ColumnMutation(ev, e, i)
     \/ VersionOf(e.schema) # << >> /\ x = VersionMutation(ev, e)

\* The mutations of an entry's columns.
ColumnsMade(ev, e) ==
  FlattenSeq([i \in DOMAIN e.schema |->
    Emit(e.schema[i].name \notin Unnamed, ColumnMutation(ev, e, i))])

LEMMA ColumnMutations ==
  ASSUME NEW ev, NEW e, e.schema \in Seq(ToSet(e.schema)), NEW c, c = ColumnsMade(ev, e)
  PROVE  /\ c \in Seq(ToSet(c))
         /\ \A x : x \in ToSet(c) <=> \E i \in DOMAIN e.schema :
              e.schema[i].name \notin Unnamed /\ x = ColumnMutation(ev, e, i)
<1> DEFINE n == Len(e.schema)
           is == [i \in 1..n |-> i]
           F == [i \in 1..n |-> Emit(e.schema[i].name \notin Unnamed, ColumnMutation(ev, e, i))]
           ss == [i \in DOMAIN is |-> F[is[i]]]
<1>1. n \in Nat /\ DOMAIN e.schema = 1..n
  OBVIOUS
<1> HIDE DEF n
<1>2. is \in Seq(1..n) /\ ToSet(is) = 1..n /\ DOMAIN is = 1..n /\ \A i \in 1..n : is[i] = i
  BY <1>1 DEF ToSet
<1>3. /\ \A i \in 1..n : F[i] \in Seq(ToSet(F[i]))
      /\ \A i \in 1..n : \A x : x \in ToSet(F[i]) <=>
           e.schema[i].name \notin Unnamed /\ x = ColumnMutation(ev, e, i)
  <2>1. SUFFICES ASSUME NEW i \in 1..n, NEW f, f = F[i], NEW named, named = (e.schema[i].name \notin Unnamed)
                 PROVE  f \in Seq(ToSet(f)) /\ \A x : x \in ToSet(f) <=> named /\ x = ColumnMutation(ev, e, i)
    OBVIOUS
  <2>2. f = Emit(named, ColumnMutation(ev, e, i))
    BY <2>1
  <2> HIDE DEF F
  <2>3. /\ f \in Seq(ToSet(f))
        /\ (named => ToSet(f) = {ColumnMutation(ev, e, i)}) /\ (~ named => ToSet(f) = {})
    BY ONLY <2>2, EmitElements
  <2> QED BY <2>3
<1>4. c = FlattenSeq(ss)
  <2>1. ss = [i \in DOMAIN e.schema |->
               Emit(e.schema[i].name \notin Unnamed, ColumnMutation(ev, e, i))]
    BY <1>1, <1>2
  <2> QED BY <2>1 DEF ColumnsMade
<1> HIDE DEF F, is
<1>5. Loop(is, F, ss)
  BY <1>2, <1>3 DEF Loop
<1>6. /\ c \in Seq(ToSet(c))
      /\ \A x : x \in ToSet(c) <=> \E i \in 1..n : x \in ToSet(F[i])
  <2> HIDE DEF ss
  <2>1. /\ FlattenSeq(ss) \in Seq(ToSet(FlattenSeq(ss)))
        /\ \A x : x \in ToSet(FlattenSeq(ss)) <=> \E i \in ToSet(is) : x \in ToSet(F[i])
    BY ONLY <1>5, LoopElements
  <2> QED BY ONLY <1>2, <1>4, <2>1
<1> QED BY <1>1, <1>3, <1>6

LEMMA SchemaMutations ==
  ASSUME NEW doc \in Documents, NEW ev, ev = EventRow(doc), NEW s, s = SchemaProcessor(ev)
  PROVE  /\ MadeOf(s, {"UpsertDatasetField", "EmitDatasetVersion"})
         /\ \A x : x \in ToSet(s) <=> \E e \in ToSet(Entries(doc)) : MadeOfSchema(x, ev, e)
<1> DEFINE ops == {"UpsertDatasetField", "EmitDatasetVersion"}
           Columns(e) == ColumnsMade(ev, e)
           Version(e) == Emit(VersionOf(e.schema) # << >>, VersionMutation(ev, e))
           Fields(e) ==
             IF e.schema = Null \/ ~e.typed THEN << >> ELSE Columns(e) \o Version(e)
           F == [e \in ToSet(Entries(doc)) |-> Fields(e)]
           ss == [i \in DOMAIN Entries(doc) |-> F[Entries(doc)[i]]]
<1>1. event_at(ev) \in Int /\ ev.raw = doc
  BY RowOfDocument
<1>2. s = FlattenSeq(ss)
  <2>1. s = FlattenSeq([i \in DOMAIN Entries(doc) |-> Fields(Entries(doc)[i])])
    BY <1>1 DEF SchemaProcessor, ForEach, ColumnsMade, ColumnMutation, VersionMutation
  <2>2. \A i \in DOMAIN Entries(doc) : Entries(doc)[i] \in ToSet(Entries(doc))
    BY DEF ToSet
  <2> HIDE DEF Fields
  <2>3. ss = [i \in DOMAIN Entries(doc) |-> Fields(Entries(doc)[i])]
    BY <2>2
  <2> QED BY <2>1, <2>3
<1>3. ASSUME NEW e \in ToSet(Entries(doc))
      PROVE  /\ MadeOf(F[e], ops)
             /\ \A x : x \in ToSet(F[e]) <=> MadeOfSchema(x, ev, e)
  <2>1. CASE e.schema = Null \/ ~e.typed
    <3>1. F[e] = << >>
      BY <2>1
    <3> QED BY <2>1, <3>1, MadeOfNothing, ShortSequences DEF MadeOfSchema
  <2>2. CASE ~ (e.schema = Null \/ ~e.typed)
    <3>1. e.schema \in Seq(ToSet(e.schema))
      BY <2>2, EntriesOfDocument DEF IsEntry, IsSeq
    <3>2. SUFFICES ASSUME NEW c, c = Columns(e), NEW v, v = VersionMutation(ev, e),
                          NEW w, w = Version(e), NEW f, f = c \o w
                   PROVE  /\ MadeOf(f, ops)
                          /\ \A x : x \in ToSet(f) <=> MadeOfSchema(x, ev, e)
      <4>1. F[e] = Columns(e) \o Version(e)
        BY <2>2
      <4> HIDE DEF F, Columns, Version
      <4> QED BY <4>1, <3>2
    <3>3. /\ c \in Seq(ToSet(c))
          /\ \A x : x \in ToSet(c) <=> \E i \in DOMAIN e.schema :
               e.schema[i].name \notin Unnamed /\ x = ColumnMutation(ev, e, i)
      BY <3>1, <3>2, ColumnMutations
    <3>4. /\ w \in Seq(ToSet(w))
          /\ VersionOf(e.schema) # << >> => ToSet(w) = {v}
          /\ VersionOf(e.schema) = << >> => ToSet(w) = {}
      <4>1. w = Emit(VersionOf(e.schema) # << >>, v)
        BY <3>2
      <4> QED BY <4>1, EmitElements
    <3> HIDE DEF F, Columns, Version
    <3>5. \A m : m.op \in ops /\ m.at = event_at(ev) => WellFormed(m)
      BY <1>1 DEF WellFormed, Ops
    <3>6. /\ \A i : /\ ColumnMutation(ev, e, i).op = "UpsertDatasetField"
                    /\ ColumnMutation(ev, e, i).at = event_at(ev)
          /\ v.op = "EmitDatasetVersion" /\ v.at = event_at(ev)
      BY <3>2 DEF ColumnMutation, VersionMutation
    <3>7. /\ \A i : ColumnMutation(ev, e, i).op \in ops /\ WellFormed(ColumnMutation(ev, e, i))
          /\ v.op \in ops /\ WellFormed(v)
      BY <3>5, <3>6
    <3>8. MadeOf(c, ops)
      BY <3>3, <3>7 DEF MadeOf
    <3>9. MadeOf(w, ops)
      BY <3>4, <3>7 DEF MadeOf
    <3>10. MadeOf(f, ops)
      BY <3>2, <3>8, <3>9, MadeOfBoth
    <3>11. ToSet(f) = ToSet(c) \cup ToSet(w)
      BY <3>2, <3>3, <3>4, ConcatElements
    <3>12. \A x : x \in ToSet(f) <=> MadeOfSchema(x, ev, e)
      BY <2>2, <3>2, <3>3, <3>4, <3>11 DEF MadeOfSchema
    <3> QED BY <3>10, <3>12
  <2> QED BY <2>1, <2>2
<1> HIDE DEF F
<1>4. Loop(Entries(doc), F, ss) /\ MadeOf(s, ops)
  BY <1>2, <1>3, EntriesOfDocument, MadeOfEach
<1>5. \A x : x \in ToSet(s) <=> \E e \in ToSet(Entries(doc)) : x \in ToSet(F[e])
  BY <1>2, <1>4, LoopElements
<1> QED BY <1>3, <1>4, <1>5

LEMMA ColumnLineageMutations ==
  ASSUME NEW doc \in Documents, NEW ev, ev = EventRow(doc), NEW s, s = ColumnLineageProcessor(ev)
  PROVE  MadeOf(s, {"UpsertColumnEdge"})
<1> DEFINE at == event_at(ev)
           ops == {"UpsertColumnEdge"}
           Edges(e, l) ==
             [i \in DOMAIN l.inputs |->
                [op |-> "UpsertColumnEdge", key |-> <<l.inputs[i].in, <<e.ds, l.out>>>>,
                 how |-> l.inputs[i].how, at |-> at]]
           entries == ev.column_lineage
           F == [e \in ToSet(entries) |->
                   FlattenSeq([i \in DOMAIN e.lineage |-> Edges(e, e.lineage[i])])]
           ss == [i \in DOMAIN entries |-> F[entries[i]]]
<1>1. at \in Int /\ IsDocument(doc) /\ entries = LiftedEntries(doc)
  BY RowOfDocument DEF EventRow
<1>2. s = FlattenSeq(ss)
  <2>1. s = FlattenSeq([i \in DOMAIN entries |->
               FlattenSeq([k \in DOMAIN entries[i].lineage |->
                 Edges(entries[i], entries[i].lineage[k])])])
    BY DEF ColumnLineageProcessor, ForEach
  <2>2. \A i \in DOMAIN entries : entries[i] \in ToSet(entries)
    BY DEF ToSet
  <2> HIDE DEF entries, Edges
  <2>3. ss = [i \in DOMAIN entries |->
               FlattenSeq([k \in DOMAIN entries[i].lineage |->
                 Edges(entries[i], entries[i].lineage[k])])]
    BY <2>2
  <2> QED BY <2>1, <2>3
<1>3. entries \in Seq(ToSet(entries)) /\ \A e \in ToSet(entries) : IsEntry(e)
  <2> DEFINE last == Emit(doc.dataset # Null, doc.dataset)
             both == doc.outputs \o doc.inputs
  <2>1. /\ doc.outputs \in Seq(ToSet(doc.outputs)) /\ \A e \in ToSet(doc.outputs) : IsEntry(e)
        /\ doc.inputs \in Seq(ToSet(doc.inputs)) /\ \A e \in ToSet(doc.inputs) : IsEntry(e)
        /\ doc.dataset # Null => IsEntry(doc.dataset)
    BY <1>1 DEF IsDocument, IsSeq
  <2>2. last \in Seq(ToSet(last)) /\ \A e \in ToSet(last) : IsEntry(e)
    <3>1. /\ last \in Seq(ToSet(last))
          /\ doc.dataset # Null => ToSet(last) = {doc.dataset}
          /\ ~ (doc.dataset # Null) => ToSet(last) = {}
      BY EmitElements
    <3> QED BY <2>1, <3>1
  <2>3. both \in Seq(ToSet(both)) /\ \A e \in ToSet(both) : IsEntry(e)
    <3>1. both \in Seq(ToSet(both)) /\ ToSet(both) = ToSet(doc.outputs) \cup ToSet(doc.inputs)
      BY <2>1, ConcatElements
    <3> QED BY <2>1, <3>1
  <2>4. entries = last \/ entries = both
    BY <1>1 DEF LiftedEntries
  <2> HIDE DEF last, both, entries
  <2> QED BY <2>2, <2>3, <2>4
<1> HIDE DEF entries
<1>4. ASSUME NEW e \in ToSet(entries)
      PROVE  MadeOf(F[e], ops)
  <2> DEFINE G == [l \in ToSet(e.lineage) |-> Edges(e, l)]
             gs == [i \in DOMAIN e.lineage |-> G[e.lineage[i]]]
  <2>1. e.lineage \in Seq(ToSet(e.lineage)) /\ \A l \in ToSet(e.lineage) : IsSeq(l.inputs)
    BY <1>3 DEF IsEntry, IsSeq
  <2>2. F[e] = FlattenSeq(gs)
    <3>1. \A i \in DOMAIN e.lineage : e.lineage[i] \in ToSet(e.lineage)
      BY DEF ToSet
    <3> HIDE DEF Edges
    <3>2. gs = [i \in DOMAIN e.lineage |-> Edges(e, e.lineage[i])]
      BY <3>1
    <3> QED BY <3>2
  <2>3. ASSUME NEW l \in ToSet(e.lineage)
        PROVE  MadeOf(G[l], ops)
    <3>1. l.inputs \in Seq(ToSet(l.inputs))
      BY <2>1 DEF IsSeq
    <3>2. SUFFICES ASSUME NEW c, c = Edges(e, l)
                   PROVE  MadeOf(c, ops)
      OBVIOUS
    <3>3. /\ c = [i \in DOMAIN l.inputs |-> c[i]]
          /\ \A i \in DOMAIN l.inputs : c[i].op = "UpsertColumnEdge" /\ c[i].at = at
      BY <3>2
    <3> HIDE DEF Edges, at
    <3>4. \A m : m.op \in ops /\ m.at = at => WellFormed(m)
      BY <1>1 DEF WellFormed, Ops
    <3>5. c \in Seq(ToSet(c)) /\ DOMAIN c = DOMAIN l.inputs
      BY <3>1, <3>3, MapIsSeq
    <3> QED BY <3>3, <3>4, <3>5 DEF MadeOf, ToSet
  <2> HIDE DEF G
  <2> QED BY <2>1, <2>2, <2>3, MadeOfEach
<1> HIDE DEF F
<1> QED BY <1>2, <1>3, <1>4, MadeOfEach

LEMMA RunMetaMutations ==
  ASSUME NEW doc \in Documents, NEW ev, ev = EventRow(doc), NEW s, s = RunMetaProcessor(ev)
  PROVE  /\ MadeOf(s, {"SetRunMeta"})
         /\ \A m \in ToSet(s) : ev.run_id # Null /\ m.key = ev.run_id
<1> DEFINE m == [op |-> "SetRunMeta", key |-> ev.run_id, at |-> event_at(ev),
                 meta |-> ev.raw.run_facets.run]
           c == /\ ev.run_id # Null
                /\ AnyPresent(ev.raw.run_facets.run) \/ ev.raw.run_facets.parent # Null
<1>1. s = Emit(c, m)
  BY DEF RunMetaProcessor
<1>2. event_at(ev) \in Int
      /\ DOMAIN ev.raw.run_facets.run = {"nominal", "parent_run_id", "error_message"}
  <2>1. event_at(ev) \in Int /\ IsDocument(doc) /\ ev.raw = doc
    BY RowOfDocument
  <2> QED BY <2>1 DEF IsDocument
<1>3. /\ m.op = "SetRunMeta" /\ m.key = ev.run_id /\ m.at = event_at(ev)
      /\ m.meta = ev.raw.run_facets.run
  OBVIOUS
<1>4. c => ev.run_id # Null
  OBVIOUS
<1> HIDE DEF m, c
<1>5. WellFormed(m)
  BY <1>2, <1>3 DEF WellFormed, Ops
<1> QED BY <1>1, <1>3, <1>4, <1>5, MadeOfOne, EmitElements

LEMMA JobMetaMutations ==
  ASSUME NEW doc \in Documents, NEW ev, ev = EventRow(doc), NEW s, s = JobMetaProcessor(ev)
  PROVE  /\ MadeOf(s, {"SetJobMeta"})
         /\ \A m \in ToSet(s) : ev.job # Null /\ m.key = ev.job
<1> DEFINE meta == [location |-> ev.raw.job_facets.location, parent |-> ev.raw.run_facets.parent]
           m == [op |-> "SetJobMeta", key |-> ev.job, at |-> event_at(ev), meta |-> meta]
           c == ev.job # Null /\ AnyPresent(meta)
<1>1. s = Emit(c, m)
  BY DEF JobMetaProcessor
<1>2. event_at(ev) \in Int /\ DOMAIN meta = {"location", "parent"}
  BY RowOfDocument
<1> HIDE DEF meta
<1>3. m.op = "SetJobMeta" /\ m.key = ev.job /\ m.at = event_at(ev) /\ m.meta = meta
  OBVIOUS
<1>4. c => ev.job # Null
  OBVIOUS
<1> HIDE DEF m, c
<1>5. WellFormed(m)
  BY <1>2, <1>3 DEF WellFormed, Ops
<1> QED BY <1>1, <1>3, <1>4, <1>5, MadeOfOne, EmitElements

LEMMA DatasetMetaMutations ==
  ASSUME NEW doc \in Documents, NEW ev, ev = EventRow(doc), NEW s, s = DatasetMetaProcessor(ev)
  PROVE  MadeOf(s, {"UpsertSource", "SetDatasetMeta"})
<1> DEFINE at == event_at(ev)
           ops == {"UpsertSource", "SetDatasetMeta"}
           source(e) == [op |-> "UpsertSource", key |-> e.meta.source_name, at |-> at,
                         connection_url |-> e.uri]
           meta(e) == [op |-> "SetDatasetMeta", key |-> e.ds, at |-> at, meta |-> e.meta]
           Meta(e) == Emit(e.meta.source_name # Null, source(e))
                      \o Emit(AnyPresent(e.meta), meta(e))
           F == [e \in ToSet(Entries(doc)) |-> Meta(e)]
           ss == [i \in DOMAIN Entries(doc) |-> F[Entries(doc)[i]]]
<1>1. at \in Int /\ ev.raw = doc
  BY RowOfDocument
<1>2. s = FlattenSeq(ss)
  <2>1. s = FlattenSeq([i \in DOMAIN Entries(doc) |-> Meta(Entries(doc)[i])])
    BY <1>1 DEF DatasetMetaProcessor, ForEach
  <2>2. \A i \in DOMAIN Entries(doc) : Entries(doc)[i] \in ToSet(Entries(doc))
    BY DEF ToSet
  <2> HIDE DEF Meta
  <2>3. ss = [i \in DOMAIN Entries(doc) |-> Meta(Entries(doc)[i])]
    BY <2>2
  <2> QED BY <2>1, <2>3
<1>3. ASSUME NEW e \in ToSet(Entries(doc))
      PROVE  MadeOf(F[e], ops)
  <2>1. DOMAIN e.meta = {"description", "source_name", "deleted"}
    BY EntriesOfDocument DEF IsEntry
  <2>2. SUFFICES ASSUME NEW a, a = source(e), NEW b, b = meta(e),
                        NEW p, p = Emit(e.meta.source_name # Null, a),
                        NEW q, q = Emit(AnyPresent(e.meta), b)
                 PROVE  MadeOf(p \o q, ops)
    OBVIOUS
  <2>3. /\ a.op = "UpsertSource" /\ a.at = at
        /\ b.op = "SetDatasetMeta" /\ b.at = at /\ b.meta = e.meta
    BY <2>2
  <2> HIDE DEF source, meta, Meta, F, at
  <2>4. /\ a.op \in ops /\ WellFormed(a) /\ b.op \in ops /\ WellFormed(b)
    BY <1>1, <2>1, <2>3 DEF WellFormed, Ops
  <2>5. MadeOf(p, ops) /\ MadeOf(q, ops)
    BY <2>2, <2>4, MadeOfOne
  <2> QED BY <2>5, MadeOfBoth
<1> HIDE DEF F
<1> QED BY <1>2, <1>3, EntriesOfDocument, MadeOfEach

\* s holds tags and their assignments, each assignment with its tag.
TagsOf(s) ==
  /\ MadeOf(s, {"UpsertTag", "TagAssignment"})
  /\ \A m \in ToSet(s) : m.op = "TagAssignment" => Has(ToSet(s), "UpsertTag", m.key[1])

LEMMA TagsOfBoth ==
  ASSUME NEW s, NEW t, TagsOf(s), TagsOf(t)
  PROVE  TagsOf(s \o t)
<1>1. MadeOf(s \o t, {"UpsertTag", "TagAssignment"})
  BY MadeOfBoth DEF TagsOf
<1>2. ToSet(s \o t) = ToSet(s) \cup ToSet(t)
  BY ConcatElements DEF TagsOf, MadeOf
<1>3. \A key : Has(ToSet(s), "UpsertTag", key) \/ Has(ToSet(t), "UpsertTag", key)
               => Has(ToSet(s \o t), "UpsertTag", key)
  BY <1>2 DEF Has
<1> QED BY <1>1, <1>2, <1>3 DEF TagsOf

LEMMA TagsOfEach ==
  ASSUME NEW s, s \in Seq(ToSet(s)), NEW F, \A d \in ToSet(s) : TagsOf(F[d]),
         NEW ss, ss = [i \in DOMAIN s |-> F[s[i]]]
  PROVE  TagsOf(FlattenSeq(ss))
<1>1. Loop(s, F, ss) /\ MadeOf(FlattenSeq(ss), {"UpsertTag", "TagAssignment"})
  <2>1. \A d \in ToSet(s) : MadeOf(F[d], {"UpsertTag", "TagAssignment"})
    BY DEF TagsOf
  <2> QED BY <2>1, MadeOfEach
<1>2. \A x : x \in ToSet(FlattenSeq(ss)) <=> \E d \in ToSet(s) : x \in ToSet(F[d])
  BY <1>1, LoopElements
<1>3. ASSUME NEW m \in ToSet(FlattenSeq(ss)), m.op = "TagAssignment"
      PROVE  Has(ToSet(FlattenSeq(ss)), "UpsertTag", m.key[1])
  <2>1. PICK d \in ToSet(s) : m \in ToSet(F[d])
    BY <1>2
  <2>2. PICK n \in ToSet(F[d]) : n.op = "UpsertTag" /\ n.key = m.key[1]
    BY <1>3, <2>1 DEF TagsOf, Has
  <2>3. n \in ToSet(FlattenSeq(ss))
    BY <1>2, <2>2
  <2> QED BY <2>2, <2>3 DEF Has
<1> QED BY <1>1, <1>3 DEF TagsOf

\* The tags of one target.
LEMMA TagsOfTarget ==
  ASSUME NEW at \in Int, NEW tags, tags \in Seq(ToSet(tags)), NEW target
  PROVE  TagsOf(FlattenSeq([i \in DOMAIN tags |->
                  <<[op |-> "UpsertTag", key |-> tags[i]],
                    [op |-> "TagAssignment", key |-> <<tags[i], target>>, at |-> at]>>]))
<1> DEFINE A == [d \in ToSet(tags) |-> [op |-> "UpsertTag", key |-> d]]
           B == [d \in ToSet(tags) |-> [op |-> "TagAssignment", key |-> <<d, target>>, at |-> at]]
           F == [d \in ToSet(tags) |-> <<A[d], B[d]>>]
           ss == [i \in DOMAIN tags |-> F[tags[i]]]
<1>1. [i \in DOMAIN tags |->
         <<[op |-> "UpsertTag", key |-> tags[i]],
           [op |-> "TagAssignment", key |-> <<tags[i], target>>, at |-> at]>>] = ss
  <2>1. \A i \in DOMAIN tags : tags[i] \in ToSet(tags)
    BY DEF ToSet
  <2>2. \A d \in ToSet(tags) : F[d] =
          <<[op |-> "UpsertTag", key |-> d], [op |-> "TagAssignment", key |-> <<d, target>>, at |-> at]>>
    OBVIOUS
  <2> HIDE DEF F
  <2> QED BY <2>1, <2>2
<1>2. ASSUME NEW d \in ToSet(tags)
      PROVE  TagsOf(F[d])
  <2>1. SUFFICES ASSUME NEW a, a = A[d], NEW b, b = B[d]
                 PROVE  TagsOf(<<a, b>>)
    OBVIOUS
  <2>2. /\ a.op = "UpsertTag" /\ a.key = d
        /\ b.op = "TagAssignment" /\ b.key = <<d, target>> /\ b.at = at /\ b.key[1] = d
    BY <2>1
  <2> HIDE DEF A, B
  <2>3. WellFormed(a) /\ WellFormed(b)
    BY <2>2 DEF WellFormed, Ops
  <2>4. <<a, b>> \in Seq(ToSet(<<a, b>>)) /\ ToSet(<<a, b>>) = {a, b}
    BY ShortSequences
  <2>5. MadeOf(<<a, b>>, {"UpsertTag", "TagAssignment"})
    BY <2>2, <2>3, <2>4 DEF MadeOf
  <2>6. Has({a, b}, "UpsertTag", d)
    BY <2>2 DEF Has
  <2> QED BY <2>2, <2>4, <2>5, <2>6 DEF TagsOf
<1> HIDE DEF F
<1>3. TagsOf(FlattenSeq(ss))
  BY <1>2, TagsOfEach
<1> HIDE DEF ss
<1> QED BY ONLY <1>1, <1>3, Zenon

LEMMA TagsMutations ==
  ASSUME NEW doc \in Documents, NEW ev, ev = EventRow(doc), NEW s, s = TagsProcessor(ev)
  PROVE  TagsOf(s)
<1> DEFINE at == event_at(ev)
           Push(tags, target) ==
             FlattenSeq([i \in DOMAIN tags |->
               <<[op |-> "UpsertTag", key |-> tags[i]],
                 [op |-> "TagAssignment", key |-> <<tags[i], target>>, at |-> at]>>])
           Column(e, c) ==
             IF c.name = Null THEN << >> ELSE Push(c.tags, <<"field", e.ds, c.name>>)
           Columns(e) ==
             IF e.schema = Null THEN << >>
             ELSE FlattenSeq([i \in DOMAIN e.schema |-> Column(e, e.schema[i])])
           Dataset(e) == Push(e.tags, <<"dataset", e.ds>>) \o Columns(e)
           job == IF ev.job = Null THEN << >>
                  ELSE Push(ev.raw.job_facets.tags, <<"job", ev.job>>)
           F == [e \in ToSet(Entries(ev.raw)) |-> Dataset(e)]
           ss == [i \in DOMAIN Entries(ev.raw) |-> F[Entries(ev.raw)[i]]]
<1>1. at \in Int /\ ev.raw = doc /\ IsDocument(doc)
  BY RowOfDocument
<1>2. s = job \o FlattenSeq(ss)
  <2>1. s = job \o FlattenSeq([i \in DOMAIN Entries(ev.raw) |-> Dataset(Entries(ev.raw)[i])])
    BY DEF TagsProcessor, ForEach
  <2>2. \A i \in DOMAIN Entries(ev.raw) : Entries(ev.raw)[i] \in ToSet(Entries(ev.raw))
    BY DEF ToSet
  <2> HIDE DEF Dataset, job
  <2>3. ss = [i \in DOMAIN Entries(ev.raw) |-> Dataset(Entries(ev.raw)[i])]
    BY <2>2
  <2> QED BY <2>1, <2>3
<1>3. ASSUME NEW tags, tags \in Seq(ToSet(tags)), NEW target
      PROVE  TagsOf(Push(tags, target))
  BY <1>1, <1>3, TagsOfTarget
<1>4. TagsOf(<< >>)
  BY MadeOfNothing, ShortSequences DEF TagsOf
<1> HIDE DEF Push, at
<1>5. TagsOf(job)
  <2>1. ev.raw.job_facets.tags \in Seq(ToSet(ev.raw.job_facets.tags))
    BY <1>1 DEF IsDocument, IsSeq
  <2> QED BY <1>3, <1>4, <2>1
<1>6. ASSUME NEW e \in ToSet(Entries(ev.raw))
      PROVE  TagsOf(F[e])
  <2>1. IsEntry(e)
    BY <1>1, EntriesOfDocument
  <2>2. TagsOf(Push(e.tags, <<"dataset", e.ds>>))
    BY <1>3, <2>1 DEF IsEntry, IsSeq
  <2>3. TagsOf(Columns(e))
    <3>1. CASE e.schema = Null
      BY <1>4, <3>1
    <3>2. CASE e.schema # Null
      <4> DEFINE G == [c \in ToSet(e.schema) |-> Column(e, c)]
                 gs == [i \in DOMAIN e.schema |-> G[e.schema[i]]]
      <4>1. e.schema \in Seq(ToSet(e.schema)) /\ \A c \in ToSet(e.schema) : IsSeq(c.tags)
        BY <2>1, <3>2 DEF IsEntry, IsSeq
      <4>2. \A c \in ToSet(e.schema) : TagsOf(G[c])
        BY <1>3, <1>4, <4>1 DEF IsSeq
      <4>3. Columns(e) = FlattenSeq(gs)
        <5>1. \A i \in DOMAIN e.schema : e.schema[i] \in ToSet(e.schema)
          BY DEF ToSet
        <5> HIDE DEF Column
        <5>2. gs = [i \in DOMAIN e.schema |-> Column(e, e.schema[i])]
          BY <5>1
        <5> QED BY <3>2, <5>2
      <4> HIDE DEF G, Columns
      <4> QED BY <4>1, <4>2, <4>3, TagsOfEach
    <3> QED BY <3>1, <3>2
  <2> HIDE DEF Columns
  <2>4. TagsOf(Push(e.tags, <<"dataset", e.ds>>) \o Columns(e))
    BY <2>2, <2>3, TagsOfBoth
  <2> QED BY <2>4
<1> HIDE DEF F, job
<1>7. TagsOf(FlattenSeq(ss))
  BY <1>1, <1>6, EntriesOfDocument, TagsOfEach
<1> QED BY <1>2, <1>5, <1>7, TagsOfBoth

-------------------------------------------------------------------------------
(* All the mutations of a document *)

\* Every mutation of the kind update has one of the kind upsert, for the same
\* row, before it.
Ordered(s, update, upsert) ==
  \A i \in DOMAIN s : s[i].op = update =>
    \E j \in 1..(i - 1) : s[j].op = upsert /\ s[j].key = s[i].key

LEMMA OrderedBoth ==
  ASSUME NEW s, NEW t, MadeOf(s, Ops), MadeOf(t, Ops), NEW update, NEW upsert,
         Ordered(s, update, upsert),
         \A m \in ToSet(t) : m.op = update => Has(ToSet(s), upsert, m.key)
  PROVE  Ordered(s \o t, update, upsert)
<1> DEFINE c == s \o t
<1>1. /\ c \in Seq(ToSet(c)) /\ Len(c) = Len(s) + Len(t) /\ Len(s) \in Nat /\ Len(t) \in Nat
      /\ \A i \in 1..Len(s) : c[i] = s[i]
      /\ \A i \in 1..Len(t) : c[Len(s) + i] = t[i]
  BY ConcatElements DEF MadeOf
<1>2. DOMAIN c = 1..Len(c) /\ DOMAIN s = 1..Len(s) /\ DOMAIN t = 1..Len(t)
  BY <1>1 DEF MadeOf
<1> HIDE DEF c
<1>3. ASSUME NEW i \in DOMAIN c, c[i].op = update
      PROVE  \E j \in 1..(i - 1) : c[j].op = upsert /\ c[j].key = c[i].key
  <2>1. CASE i <= Len(s)
    <3>1. i \in 1..Len(s) /\ c[i] = s[i]
      BY <1>1, <1>2, <2>1
    <3>2. PICK j \in 1..(i - 1) : s[j].op = upsert /\ s[j].key = s[i].key
      BY <1>2, <1>3, <3>1 DEF Ordered
    <3>3. j \in 1..Len(s)
      BY <1>1, <3>1
    <3> QED BY <1>1, <3>1, <3>2, <3>3
  <2>2. CASE ~ (i <= Len(s))
    <3>1. i - Len(s) \in 1..Len(t) /\ i = Len(s) + (i - Len(s)) /\ i \in Nat
      BY <1>1, <1>2, <2>2
    <3>2. c[i] = t[i - Len(s)]
      BY <1>1, <3>1
    <3>3. c[i] \in ToSet(t)
      BY <1>2, <3>1, <3>2 DEF ToSet
    <3>4. PICK n \in ToSet(s) : n.op = upsert /\ n.key = c[i].key
      BY <1>3, <3>3 DEF Has
    <3>5. PICK j \in 1..Len(s) : s[j] = n
      BY <1>2, <3>4 DEF ToSet
    <3>6. j \in 1..(i - 1) /\ c[j] = n
      BY <1>1, <2>2, <3>1, <3>5
    <3> QED BY <3>4, <3>6
  <2> QED BY <2>1, <2>2
<1> QED BY <1>3 DEF Ordered, c

LEMMA OrderedNone ==
  ASSUME NEW s, NEW ops, MadeOf(s, ops), NEW update, update \notin ops, NEW upsert
  PROVE  Ordered(s, update, upsert)
<1>1. \A i \in DOMAIN s : s[i].op # update
  BY DEF MadeOf, ToSet
<1> QED BY <1>1 DEF Ordered

\* s holds what a and b hold, a first.
Joined(s, a, b) ==
  /\ s = a \o b /\ MadeOf(a, Ops) /\ MadeOf(b, Ops) /\ MadeOf(s, Ops)
  /\ ToSet(s) = ToSet(a) \cup ToSet(b)

LEMMA JoinedBoth ==
  ASSUME NEW a, MadeOf(a, Ops), NEW ops, ops \subseteq Ops, NEW b, MadeOf(b, ops),
         NEW s, s = a \o b
  PROVE  Joined(s, a, b)
<1>1. MadeOf(b, Ops)
  BY DEF MadeOf
<1>2. MadeOf(s, Ops)
  BY <1>1, MadeOfBoth
<1>3. ToSet(s) = ToSet(a) \cup ToSet(b)
  BY <1>1, ConcatElements DEF MadeOf
<1> QED BY <1>1, <1>2, <1>3 DEF Joined

LEMMA OrderedJoined ==
  ASSUME NEW s, NEW a, NEW b, Joined(s, a, b), NEW update, NEW upsert, Ordered(a, update, upsert),
         \A m \in ToSet(b) : m.op = update => Has(ToSet(a), upsert, m.key)
  PROVE  Ordered(s, update, upsert)
<1>1. s = a \o b /\ MadeOf(a, Ops) /\ MadeOf(b, Ops)
  BY DEF Joined
<1>2. Ordered(a \o b, update, upsert)
  BY <1>1, OrderedBoth
<1> QED BY <1>1, <1>2

\* Which processors make the mutations of datasets and their schemas.
SchemaKinds == {"UpsertDatasetField", "EmitDatasetVersion"}
FromDatasets(M, ev) ==
  /\ \A m \in M : m.op = "UpsertDataset" => m \in ToSet(DatasetRefProcessor(ev))
  /\ \A m \in M : m.op \in SchemaKinds => m \in ToSet(SchemaProcessor(ev))
  /\ ToSet(DatasetRefProcessor(ev)) \subseteq M /\ ToSet(SchemaProcessor(ev)) \subseteq M

LEMMA DocumentMutations ==
  ASSUME NEW doc \in Documents, NEW s, s = MutationsOf(EventRow(doc))
  PROVE  /\ MadeOf(s, Ops) /\ FromDatasets(ToSet(s), EventRow(doc))
         /\ \A m \in ToSet(s) : Companions(ToSet(s), m)
         /\ Ordered(s, "SetJobMeta", "UpsertJob")
         /\ RunsNameTheirJob => Ordered(s, "SetRunMeta", "UpsertRunState")
<1>1. PICK ev : ev = EventRow(doc)
  OBVIOUS
<1>2. SUFFICES ASSUME NEW s1, s1 = RunStateProcessor(ev), NEW s2, s2 = JobEdgeProcessor(ev),
                      NEW s3, s3 = DatasetRefProcessor(ev), NEW s4, s4 = SchemaProcessor(ev),
                      NEW s5, s5 = ColumnLineageProcessor(ev), NEW s6, s6 = RunMetaProcessor(ev),
                      NEW s7, s7 = JobMetaProcessor(ev), NEW s8, s8 = DatasetMetaProcessor(ev),
                      NEW s9, s9 = TagsProcessor(ev),
                      NEW t2, t2 = s1 \o s2, NEW t3, t3 = t2 \o s3, NEW t4, t4 = t3 \o s4,
                      NEW t5, t5 = t4 \o s5, NEW t6, t6 = t5 \o s6, NEW t7, t7 = t6 \o s7,
                      NEW t8, t8 = t7 \o s8, NEW t9, t9 = t8 \o s9, s = t9
               PROVE  /\ MadeOf(s, Ops) /\ FromDatasets(ToSet(s), ev)
                      /\ \A m \in ToSet(s) : Companions(ToSet(s), m)
                      /\ Ordered(s, "SetJobMeta", "UpsertJob")
                      /\ RunsNameTheirJob => Ordered(s, "SetRunMeta", "UpsertRunState")
  BY <1>1 DEF MutationsOf
<1>3. /\ MadeOf(s1, {"UpsertRunState"})
      /\ MadeOf(s2, {"NoteNamespace", "UpsertJob", "UpsertLineageEdge"})
      /\ MadeOf(s3, {"NoteNamespace", "UpsertDataset"})
      /\ MadeOf(s4, {"UpsertDatasetField", "EmitDatasetVersion"})
      /\ MadeOf(s5, {"UpsertColumnEdge"}) /\ MadeOf(s6, {"SetRunMeta"})
      /\ MadeOf(s7, {"SetJobMeta"}) /\ MadeOf(s8, {"UpsertSource", "SetDatasetMeta"})
      /\ MadeOf(s9, {"UpsertTag", "TagAssignment"}) /\ TagsOf(s9)
  <2>1. MadeOf(s1, {"UpsertRunState"})
    BY <1>1, <1>2, RunStateMutations DEF MadeOf
  <2>2. MadeOf(s2, {"NoteNamespace", "UpsertJob", "UpsertLineageEdge"})
    BY <1>1, <1>2, JobEdgeMutations DEF MadeOf
  <2>3. MadeOf(s3, {"NoteNamespace", "UpsertDataset"})
    <3>1. /\ s3 \in Seq(ToSet(s3))
          /\ \A m \in ToSet(s3) : m.op \in {"NoteNamespace", "UpsertDataset"} /\ WellFormed(m)
      BY <1>1, <1>2, DatasetRefMutations
    <3> QED BY <3>1 DEF MadeOf
  <2>4. MadeOf(s4, {"UpsertDatasetField", "EmitDatasetVersion"})
    BY <1>1, <1>2, SchemaMutations
  <2>5. MadeOf(s5, {"UpsertColumnEdge"})
    BY <1>1, <1>2, ColumnLineageMutations
  <2>6. MadeOf(s6, {"SetRunMeta"})
    BY <1>1, <1>2, RunMetaMutations
  <2>7. MadeOf(s7, {"SetJobMeta"})
    BY <1>1, <1>2, JobMetaMutations
  <2>8. MadeOf(s8, {"UpsertSource", "SetDatasetMeta"})
    BY <1>1, <1>2, DatasetMetaMutations
  <2>9. TagsOf(s9)
    BY <1>1, <1>2, TagsMutations
  <2>10. MadeOf(s9, {"UpsertTag", "TagAssignment"})
    BY <2>9 DEF TagsOf
  <2> QED BY <2>1, <2>2, <2>3, <2>4, <2>5, <2>6, <2>7, <2>8, <2>9, <2>10
<1>4. /\ Joined(t2, s1, s2) /\ Joined(t3, t2, s3) /\ Joined(t4, t3, s4) /\ Joined(t5, t4, s5)
      /\ Joined(t6, t5, s6) /\ Joined(t7, t6, s7) /\ Joined(t8, t7, s8) /\ Joined(t9, t8, s9)
  <2>1. /\ {"NoteNamespace", "UpsertJob", "UpsertLineageEdge"} \subseteq Ops
        /\ {"NoteNamespace", "UpsertDataset"} \subseteq Ops
        /\ {"UpsertDatasetField", "EmitDatasetVersion"} \subseteq Ops
        /\ {"UpsertColumnEdge"} \subseteq Ops /\ {"SetRunMeta"} \subseteq Ops
        /\ {"SetJobMeta"} \subseteq Ops /\ {"UpsertSource", "SetDatasetMeta"} \subseteq Ops
        /\ {"UpsertTag", "TagAssignment"} \subseteq Ops /\ "UpsertRunState" \in Ops
    BY DEF Ops
  <2>2. MadeOf(s1, Ops)
    BY <1>3, <2>1 DEF MadeOf
  <2>3. \A t, a, b : Joined(t, a, b) => MadeOf(t, Ops)
    BY DEF Joined
  <2>4. Joined(t2, s1, s2)
    BY <1>2, <1>3, <2>1, <2>2, JoinedBoth
  <2>5. Joined(t3, t2, s3)
    BY <1>2, <1>3, <2>1, <2>3, <2>4, JoinedBoth
  <2>6. Joined(t4, t3, s4)
    BY <1>2, <1>3, <2>1, <2>3, <2>5, JoinedBoth
  <2>7. Joined(t5, t4, s5)
    BY <1>2, <1>3, <2>1, <2>3, <2>6, JoinedBoth
  <2>8. Joined(t6, t5, s6)
    BY <1>2, <1>3, <2>1, <2>3, <2>7, JoinedBoth
  <2>9. Joined(t7, t6, s7)
    BY <1>2, <1>3, <2>1, <2>3, <2>8, JoinedBoth
  <2>10. Joined(t8, t7, s8)
    BY <1>2, <1>3, <2>1, <2>3, <2>9, JoinedBoth
  <2>11. Joined(t9, t8, s9)
    BY <1>2, <1>3, <2>1, <2>3, <2>10, JoinedBoth
  <2> QED BY <2>4, <2>5, <2>6, <2>7, <2>8, <2>9, <2>10, <2>11
<1>5. MadeOf(s, Ops)
  BY <1>2, <1>4 DEF Joined
<1>6. ToSet(s) = ToSet(s1) \cup ToSet(s2) \cup ToSet(s3) \cup ToSet(s4) \cup ToSet(s5)
                 \cup ToSet(s6) \cup ToSet(s7) \cup ToSet(s8) \cup ToSet(s9)
  BY <1>2, <1>4 DEF Joined
<1>7. \A op, key : Has(ToSet(s1), op, key) \/ Has(ToSet(s2), op, key) \/ Has(ToSet(s3), op, key)
                  \/ Has(ToSet(s4), op, key) \/ Has(ToSet(s9), op, key) => Has(ToSet(s), op, key)
  BY <1>6 DEF Has
<1>8. /\ \A m \in ToSet(s) : m.op = "UpsertRunState" => m \in ToSet(s1)
      /\ \A m \in ToSet(s) : m.op \in {"UpsertJob", "UpsertLineageEdge"} => m \in ToSet(s2)
      /\ \A m \in ToSet(s) : m.op = "UpsertDataset" => m \in ToSet(s3)
      /\ \A m \in ToSet(s) : m.op = "TagAssignment" => m \in ToSet(s9)
  BY <1>3, <1>6 DEF MadeOf
<1>9. /\ HasJob(ev) => ev.job # Null /\ ev.event_kind # "dataset"
      /\ ev.job # Null => HasJob(ev)
  BY <1>1, RowOfDocument
<1>10. ASSUME NEW m \in ToSet(s)
       PROVE  Companions(ToSet(s), m)
  <2>1. CASE m.op = "UpsertJob"
    <3>1. m \in ToSet(s2)
      BY <1>8, <2>1
    <3>2. /\ HasJob(ev) /\ m.key = ev.job
          /\ m.edges # Null => m.edges.inputs = ev.inputs /\ m.edges.outputs = ev.outputs
      BY <1>1, <1>2, <2>1, <3>1, JobEdgeMutations
    <3>3. /\ Has(ToSet(s2), "NoteNamespace", ev.job[1])
          /\ \A d \in ToSet(ev.inputs) : Has(ToSet(s2), "UpsertLineageEdge", InEdge(d, ev.job))
          /\ \A d \in ToSet(ev.outputs) : Has(ToSet(s2), "UpsertLineageEdge", OutEdge(d, ev.job))
      BY <1>1, <1>2, <3>2, JobEdgeMutations
    <3> QED BY <1>7, <2>1, <3>2, <3>3 DEF Companions
  <2>2. CASE m.op = "UpsertLineageEdge"
    <3>1. m \in ToSet(s2)
      BY <1>8, <2>2
    <3>2. PICK d \in ToSet(ev.inputs) \cup ToSet(ev.outputs) :
            m.key \in {InEdge(d, ev.job), OutEdge(d, ev.job)}
      BY <1>1, <1>2, <2>2, <3>1, JobEdgeMutations
    <3>3. HasJob(ev)
      BY <1>1, <1>2, <3>1, JobEdgeMutations
    <3>4. Has(ToSet(s2), "UpsertJob", ev.job)
      BY <1>1, <1>2, <3>3, JobEdgeMutations
    <3>5. Has(ToSet(s3), "UpsertDataset", d)
      BY <1>1, <1>2, <1>9, <3>3, DatasetRefMutations
    <3>6. \A n \in {m.key[1], m.key[2]} : n = <<"job", ev.job>> \/ n = <<"dataset", d>>
      BY <3>2 DEF InEdge, OutEdge
    <3>7. ASSUME NEW n \in {m.key[1], m.key[2]}
          PROVE  Has(ToSet(s), IF n[1] = "job" THEN "UpsertJob" ELSE "UpsertDataset", n[2])
      <4>1. CASE n = <<"job", ev.job>>
        BY <1>7, <3>4, <4>1
      <4>2. CASE n = <<"dataset", d>>
        <5>1. n[1] # "job" /\ n[2] = d
          BY <4>2
        <5> QED BY <1>7, <3>5, <5>1
      <4> QED BY <3>6, <4>1, <4>2
    <3> QED BY <2>2, <3>7 DEF Companions
  <2>3. CASE m.op = "UpsertRunState"
    <3>1. HasJob(ev) /\ m.job = ev.job
      BY <1>1, <1>2, <1>8, <2>3, RunStateMutations
    <3>2. Has(ToSet(s2), "UpsertJob", ev.job)
      BY <1>1, <1>2, <3>1, JobEdgeMutations
    <3> QED BY <1>7, <2>3, <3>1, <3>2 DEF Companions
  <2>4. CASE m.op = "TagAssignment"
    BY <1>3, <1>7, <1>8, <2>4 DEF Companions, TagsOf
  <2>5. CASE m.op \notin {"UpsertJob", "UpsertLineageEdge", "UpsertRunState", "TagAssignment"}
    BY <2>5 DEF Companions
  <2> QED BY <2>1, <2>2, <2>3, <2>4, <2>5
<1>11. /\ \A m \in ToSet(s2) \cup ToSet(s3) \cup ToSet(s4) \cup ToSet(s5) \cup ToSet(s8)
               \cup ToSet(s9) : m.op \notin {"SetJobMeta", "SetRunMeta"}
       /\ \A m \in ToSet(s6) : m.op # "SetJobMeta"
       /\ \A m \in ToSet(s7) : m.op # "SetRunMeta"
  BY <1>3 DEF MadeOf
<1>12. Ordered(s, "SetJobMeta", "UpsertJob")
  <2> DEFINE O(t) == Ordered(t, "SetJobMeta", "UpsertJob")
  <2>1. O(s1)
    BY <1>3, OrderedNone
  <2>2. O(t2)
    BY <1>4, <1>11, <2>1, OrderedJoined
  <2>3. O(t3)
    BY <1>4, <1>11, <2>2, OrderedJoined
  <2>4. O(t4)
    BY <1>4, <1>11, <2>3, OrderedJoined
  <2>5. O(t5)
    BY <1>4, <1>11, <2>4, OrderedJoined
  <2>6. O(t6)
    BY <1>4, <1>11, <2>5, OrderedJoined
  <2>7. O(t7)
    <3>1. ASSUME NEW m \in ToSet(s7)
          PROVE  Has(ToSet(t6), "UpsertJob", m.key)
      <4>1. ev.job # Null /\ m.key = ev.job
        BY <1>1, <1>2, JobMetaMutations
      <4>2. Has(ToSet(s2), "UpsertJob", ev.job)
        BY <1>1, <1>2, <1>9, <4>1, JobEdgeMutations
      <4>3. ToSet(s2) \subseteq ToSet(t6)
        BY <1>4 DEF Joined
      <4> QED BY <4>1, <4>2, <4>3 DEF Has
    <3> QED BY <1>4, <2>6, <3>1, OrderedJoined
  <2>8. O(t8)
    BY <1>4, <1>11, <2>7, OrderedJoined
  <2>9. O(t9)
    BY <1>4, <1>11, <2>8, OrderedJoined
  <2> QED BY <1>2, <2>9
<1>13. ASSUME RunsNameTheirJob
       PROVE  Ordered(s, "SetRunMeta", "UpsertRunState")
  <2> DEFINE O(t) == Ordered(t, "SetRunMeta", "UpsertRunState")
  <2>1. O(s1)
    BY <1>3, OrderedNone
  <2>2. O(t2)
    BY <1>4, <1>11, <2>1, OrderedJoined
  <2>3. O(t3)
    BY <1>4, <1>11, <2>2, OrderedJoined
  <2>4. O(t4)
    BY <1>4, <1>11, <2>3, OrderedJoined
  <2>5. O(t5)
    BY <1>4, <1>11, <2>4, OrderedJoined
  <2>6. O(t6)
    <3>1. ASSUME NEW m \in ToSet(s6)
          PROVE  Has(ToSet(t5), "UpsertRunState", m.key)
      <4>1. ev.run_id # Null /\ m.key = ev.run_id
        BY <1>1, <1>2, RunMetaMutations
      <4>2. ev.job # Null
        <5>1. doc.kind = "run" /\ ev.run_id = doc.run /\ ev.job = doc.job
          BY <1>1, <4>1, RowOfDocument
        <5> QED BY <1>13, <4>1, <5>1 DEF RunsNameTheirJob
      <4>3. Has(ToSet(s1), "UpsertRunState", ev.run_id)
        BY <1>1, <1>2, <4>1, <4>2, RunStateMutations
      <4>4. ToSet(s1) \subseteq ToSet(t5)
        BY <1>4 DEF Joined
      <4> QED BY <4>1, <4>3, <4>4 DEF Has
    <3> QED BY <1>4, <2>5, <3>1, OrderedJoined
  <2>7. O(t7)
    BY <1>4, <1>11, <2>6, OrderedJoined
  <2>8. O(t8)
    BY <1>4, <1>11, <2>7, OrderedJoined
  <2>9. O(t9)
    BY <1>4, <1>11, <2>8, OrderedJoined
  <2> QED BY <1>2, <2>9
<1>14. FromDatasets(ToSet(s), ev)
  <2>1. /\ \A m \in ToSet(s) : m.op = "UpsertDataset" => m \in ToSet(s3)
        /\ \A m \in ToSet(s) : m.op \in SchemaKinds => m \in ToSet(s4)
    BY <1>3, <1>6 DEF MadeOf, SchemaKinds
  <2>2. ToSet(s3) \subseteq ToSet(s) /\ ToSet(s4) \subseteq ToSet(s)
    BY <1>6
  <2> QED BY <1>2, <2>1, <2>2 DEF FromDatasets
<1> QED BY <1>5, <1>10, <1>12, <1>13, <1>14

-------------------------------------------------------------------------------
(* A step *)

\* Which statement changes which table.
Applies(m, old, new) ==
  /\ DOMAIN new = DOMAIN Empty
  /\ new.namespaces = IF m.op = "NoteNamespace" THEN note_namespace(old.namespaces, m)
                      ELSE old.namespaces
  /\ m.op = "UpsertJob" => new.jobs = upsert_job(old.jobs, m)
  /\ m.op = "SetJobMeta" => new.jobs = update_meta(old.jobs, m)
  /\ m.op \notin {"UpsertJob", "SetJobMeta"} => new.jobs = old.jobs
  /\ m.op = "UpsertRunState" => new.runs = fold_run(old.runs, m)
  /\ m.op = "SetRunMeta" => new.runs = update_meta(old.runs, m)
  /\ m.op \notin {"UpsertRunState", "SetRunMeta"} => new.runs = old.runs
  /\ m.op = "UpsertDataset" => new.datasets = note_dataset(old.datasets, m)
  /\ m.op = "SetDatasetMeta" => new.datasets = set_dataset_meta(old.datasets, m)
  /\ m.op \notin {"UpsertDataset", "SetDatasetMeta"} => new.datasets = old.datasets
  /\ new.lineage_edges = IF m.op = "UpsertLineageEdge" THEN old.lineage_edges \cup {m.key}
                         ELSE old.lineage_edges
  /\ new.dataset_fields =
       IF m.op = "UpsertDatasetField" THEN upsert_dataset_field(old.dataset_fields, m)
       ELSE old.dataset_fields
  /\ m.op = "EmitDatasetVersion" =>
       new.dataset_versions = insert_once(old.dataset_versions, m.key,
                                          [run_id |-> m.run_id, created_at |-> m.at])
  /\ m.op # "EmitDatasetVersion" => new.dataset_versions = old.dataset_versions
  /\ new.column_lineage_edges =
       IF m.op = "UpsertColumnEdge" THEN upsert_column_edge(old.column_lineage_edges, m)
       ELSE old.column_lineage_edges
  /\ new.tags = IF m.op = "UpsertTag" THEN old.tags \cup {m.key} ELSE old.tags
  /\ new.tag_assignments = IF m.op = "TagAssignment" THEN tag_assignment(old.tag_assignments, m)
                           ELSE old.tag_assignments

LEMMA TablesOfApply ==
  ASSUME NEW old, DOMAIN old = DOMAIN Empty, NEW m, m.op \in Ops, NEW new, new = apply(old, m)
  PROVE  Applies(m, old, new)
<1>1. DOMAIN old = {"namespaces", "jobs", "runs", "datasets", "lineage_edges", "dataset_fields",
                    "dataset_versions", "sources", "column_lineage_edges", "tags",
                    "tag_assignments"}
  BY DEF Empty
<1>2. \A t, x : [old EXCEPT ![t] = x] = [k \in DOMAIN old |-> IF k = t THEN x ELSE old[k]]
  OBVIOUS
<1>3. DOMAIN new = DOMAIN old
  BY DEF apply, Ops
<1>4. CASE m.op = "NoteNamespace"
  <2>1. new = [old EXCEPT !.namespaces = note_namespace(@, m)]
    BY <1>4 DEF apply
  <2> QED BY <1>1, <1>3, <1>4, <2>1 DEF Applies
<1>5. CASE m.op = "UpsertJob"
  <2>1. new = [old EXCEPT !.jobs = upsert_job(@, m)]
    BY <1>5 DEF apply
  <2> QED BY <1>1, <1>3, <1>5, <2>1 DEF Applies
<1>6. CASE m.op = "UpsertRunState"
  <2>1. new = [old EXCEPT !.runs = fold_run(@, m)]
    BY <1>6 DEF apply
  <2> QED BY <1>1, <1>3, <1>6, <2>1 DEF Applies
<1>7. CASE m.op = "UpsertDataset"
  <2>1. new = [old EXCEPT !.datasets = note_dataset(@, m)]
    BY <1>7 DEF apply
  <2> QED BY <1>1, <1>3, <1>7, <2>1 DEF Applies
<1>8. CASE m.op = "UpsertLineageEdge"
  <2>1. new = [old EXCEPT !.lineage_edges = @ \cup {m.key}]
    BY <1>8 DEF apply
  <2> QED BY <1>1, <1>3, <1>8, <2>1 DEF Applies
<1>9. CASE m.op = "UpsertDatasetField"
  <2>1. new = [old EXCEPT !.dataset_fields = upsert_dataset_field(@, m)]
    BY <1>9 DEF apply
  <2> QED BY <1>1, <1>3, <1>9, <2>1 DEF Applies
<1>10. CASE m.op = "EmitDatasetVersion"
  <2>1. new = [old EXCEPT !.dataset_versions =
                 insert_once(@, m.key, [run_id |-> m.run_id, created_at |-> m.at])]
    BY <1>10 DEF apply
  <2> QED BY <1>1, <1>3, <1>10, <2>1 DEF Applies
<1>11. CASE m.op = "SetRunMeta"
  <2>1. new = [old EXCEPT !.runs = update_meta(@, m)]
    BY <1>11 DEF apply
  <2> QED BY <1>1, <1>3, <1>11, <2>1 DEF Applies
<1>12. CASE m.op = "SetJobMeta"
  <2>1. new = [old EXCEPT !.jobs = update_meta(@, m)]
    BY <1>12 DEF apply
  <2> QED BY <1>1, <1>3, <1>12, <2>1 DEF Applies
<1>13. CASE m.op = "SetDatasetMeta"
  <2>1. new = [old EXCEPT !.datasets = set_dataset_meta(@, m)]
    BY <1>13 DEF apply
  <2> QED BY <1>1, <1>3, <1>13, <2>1 DEF Applies
<1>14. CASE m.op = "UpsertSource"
  <2>1. new = [old EXCEPT !.sources = upsert_source(@, m)]
    BY <1>14 DEF apply
  <2> QED BY <1>1, <1>3, <1>14, <2>1 DEF Applies
<1>15. CASE m.op = "UpsertColumnEdge"
  <2>1. new = [old EXCEPT !.column_lineage_edges = upsert_column_edge(@, m)]
    BY <1>15 DEF apply
  <2> QED BY <1>1, <1>3, <1>15, <2>1 DEF Applies
<1>16. CASE m.op = "UpsertTag"
  <2>1. new = [old EXCEPT !.tags = @ \cup {m.key}]
    BY <1>16 DEF apply
  <2> QED BY <1>1, <1>3, <1>16, <2>1 DEF Applies
<1>17. CASE m.op = "TagAssignment"
  <2>1. new = [old EXCEPT !.tag_assignments = tag_assignment(@, m)]
    BY <1>17 DEF apply
  <2> QED BY <1>1, <1>3, <1>17, <2>1 DEF Applies
<1> QED BY <1>4, <1>5, <1>6, <1>7, <1>8, <1>9, <1>10, <1>11, <1>12, <1>13, <1>14, <1>15, <1>16,
           <1>17 DEF Ops

\* An applied mutation moves from the front of todo to the applied ones.
LEMMA StepOfApply ==
  ASSUME Mutations, Apply, NEW m, m = Head(todo)
  PROVE  /\ m \in Sent /\ WellFormed(m) /\ m.op \in Ops /\ Sent' = Sent
         /\ DOMAIN todo = 1..Len(todo) /\ Len(todo) \in Nat /\ todo[1] = m /\ 1 \in DOMAIN todo
         /\ todo' \in Seq(ToSet(todo')) /\ DOMAIN todo' = 1..(Len(todo) - 1)
         /\ \A i \in DOMAIN todo' : todo'[i] = todo[i + 1] /\ i + 1 \in DOMAIN todo
         /\ DOMAIN applied' = Ops
         /\ \A op \in Ops : applied'[op] = IF op = m.op THEN applied[op] \cup {m} ELSE applied[op]
<1>1. todo \in Seq(ToSet(todo)) /\ todo # << >> /\ todo' = Tail(todo) /\ DOMAIN applied = Ops
      /\ applied' = [applied EXCEPT ![m.op] = @ \cup {m}]
  BY DEF Mutations, Apply
<1>2. /\ DOMAIN todo = 1..Len(todo) /\ Len(todo) \in Nat /\ todo[1] = m /\ 1 \in DOMAIN todo
  BY <1>1
<1>3. /\ todo' \in Seq(ToSet(todo)) /\ Len(todo') = Len(todo) - 1
      /\ \A i \in 1..Len(todo') : todo'[i] = todo[i + 1]
  BY <1>1
<1>4. DOMAIN todo' = 1..(Len(todo) - 1)
      /\ \A i \in DOMAIN todo' : todo'[i] = todo[i + 1] /\ i + 1 \in DOMAIN todo
  BY <1>2, <1>3
<1>5. SUFFICES ASSUME NEW t, t = todo'
               PROVE  /\ t \in Seq(ToSet(t))
                      /\ m \in Sent /\ WellFormed(m) /\ m.op \in Ops /\ Sent' = Sent
                      /\ DOMAIN applied' = Ops
                      /\ \A op \in Ops :
                           applied'[op] = IF op = m.op THEN applied[op] \cup {m} ELSE applied[op]
  BY <1>2, <1>4
<1>6. t \in Seq(ToSet(t))
  BY <1>3, <1>5, SeqOfElements
<1>7. m \in ToSet(todo) /\ ToSet(todo) = {m} \cup ToSet(todo')
  <2>1. m \in ToSet(todo)
    BY <1>2 DEF ToSet
  <2>2. \A x \in ToSet(todo') : x \in ToSet(todo)
    BY <1>4 DEF ToSet
  <2>3. ASSUME NEW i \in DOMAIN todo
        PROVE  todo[i] = m \/ todo[i] \in ToSet(todo')
    <3>1. CASE i = 1
      BY <1>2, <3>1
    <3>2. CASE i # 1
      <4>1. i - 1 \in DOMAIN todo' /\ (i - 1) + 1 = i
        BY <1>2, <1>4, <3>2
      <4>2. todo'[i - 1] = todo[i]
        BY <1>4, <4>1
      <4> QED BY <4>1, <4>2 DEF ToSet
    <3> QED BY <3>1, <3>2
  <2> QED BY <2>1, <2>2, <2>3 DEF ToSet
<1>8. m \in Sent /\ WellFormed(m) /\ m.op \in Ops
  BY <1>7 DEF Mutations, Sent, WellFormed
<1>9. /\ DOMAIN applied' = Ops
      /\ \A op \in Ops : applied'[op] = IF op = m.op THEN applied[op] \cup {m} ELSE applied[op]
  BY <1>1
<1>10. Sent' = Sent
  <2>1. UNION {applied'[op] : op \in Ops} = (UNION {applied[op] : op \in Ops}) \cup {m}
    BY <1>8, <1>9
  <2> QED BY <1>7, <2>1 DEF Sent
<1> QED BY <1>6, <1>8, <1>9, <1>10

\* The applied mutations of a kind gain m or stay.
LEMMA Grow ==
  ASSUME NEW m, m.op \in Ops, NEW op \in Ops, NEW key,
         \A o \in Ops : applied'[o] = IF o = m.op THEN applied[o] \cup {m} ELSE applied[o]
  PROVE  /\ Of(op, key)' = IF op = m.op /\ key = m.key THEN Of(op, key) \cup {m} ELSE Of(op, key)
         /\ KeysOf(op)' = IF op = m.op THEN KeysOf(op) \cup {m.key} ELSE KeysOf(op)
BY DEF Of, KeysOf

-------------------------------------------------------------------------------
(* The rows that share a guard *)

\* The newest mutations after one more.
LEMMA NewestMoves ==
  ASSUME NEW S, NEW at, Stamp(S, at), NEW m, m.at \in Int, Null \notin Int,
         \A n \in S : n.at \in Int
  PROVE  /\ Latest(m.at, at) =>
              LatestIn(S \cup {m}) = IF at = m.at THEN LatestIn(S) \cup {m} ELSE {m}
         /\ ~ Latest(m.at, at) => LatestIn(S \cup {m}) = LatestIn(S)
<1>1. CASE ~ Latest(m.at, at)
  BY <1>1, StampMoves
<1>2. CASE Latest(m.at, at)
  <2>1. /\ m \in LatestIn(S \cup {m})
        /\ \A n \in LatestIn(S \cup {m}) : n = m \/ (n \in LatestIn(S) /\ at = m.at)
    BY <1>2, StampMoves
  <2>2. ASSUME at = m.at, NEW n \in LatestIn(S)
        PROVE  n \in LatestIn(S \cup {m})
    <3>1. n \in S /\ \A q \in S : q.at <= n.at
      BY <2>2 DEF LatestIn
    <3>2. PICK p \in LatestIn(S) : p.at = at
      BY <2>2 DEF Stamp
    <3>3. p \in S
      BY <3>2 DEF LatestIn
    <3>4. m.at <= n.at
      BY <2>2, <3>1, <3>2, <3>3
    <3> QED BY <3>1, <3>4 DEF LatestIn
  <2>3. CASE at = m.at
    BY <1>2, <2>1, <2>2, <2>3
  <2>4. CASE at # m.at
    BY <1>2, <2>1, <2>4
  <2> QED BY <2>3, <2>4
<1> QED BY <1>1, <1>2

\* What SetMeta does to a row.
LEMMA SetMetaColumns ==
  ASSUME NEW row, NEW m, NEW new, new = SetMeta(row, m), "meta_at" \in DOMAIN row,
         "meta_at" \notin DOMAIN m.meta
  PROVE  /\ DOMAIN new = DOMAIN row
         /\ new["meta_at"] = Greatest(row["meta_at"], m.at)
         /\ \A c \in DOMAIN row \ {"meta_at"} :
              new[c] = IF Latest(m.at, row["meta_at"]) /\ c \in DOMAIN m.meta /\ m.meta[c] # Null
                       THEN m.meta[c] ELSE row[c]
<1> DEFINE stamped == Set(row, [meta_at |-> Greatest(row.meta_at, m.at)])
           columns == When(Latest(m.at, row.meta_at), Present(m.meta))
<1>1. new = Set(stamped, columns)
  BY DEF SetMeta
<1>2. /\ DOMAIN stamped = DOMAIN row /\ stamped["meta_at"] = Greatest(row["meta_at"], m.at)
      /\ \A c \in DOMAIN row \ {"meta_at"} : stamped[c] = row[c]
  <2>1. SUFFICES ASSUME NEW x, x = [meta_at |-> Greatest(row.meta_at, m.at)]
                 PROVE  /\ DOMAIN Set(row, x) = DOMAIN row /\ Set(row, x)["meta_at"] = x["meta_at"]
                        /\ \A c \in DOMAIN row \ {"meta_at"} : Set(row, x)[c] = row[c]
    OBVIOUS
  <2>2. DOMAIN x = {"meta_at"}
    BY <2>1
  <2> QED BY <2>2, SetColumns
<1>3. /\ DOMAIN columns = IF Latest(m.at, row["meta_at"])
                          THEN {g \in DOMAIN m.meta : m.meta[g] # Null} ELSE {}
      /\ \A c \in DOMAIN columns : columns[c] = m.meta[c]
  <2>1. CASE Latest(m.at, row["meta_at"])
    <3>1. columns = Present(m.meta)
      BY <2>1 DEF When
    <3> QED BY <2>1, <3>1 DEF Present
  <2>2. CASE ~ Latest(m.at, row["meta_at"])
    <3>1. columns = << >>
      BY <2>2 DEF When
    <3> QED BY <2>2, <3>1
  <2> QED BY <2>1, <2>2
<1> HIDE DEF stamped, columns
<1> QED BY <1>1, <1>2, <1>3, SetColumns

\* A row that shows the newest metadata does so after one more; U are mutations
\* under the same guard that set other columns.
LEMMA SetMetaShows ==
  ASSUME NEW row, NEW S, NEW U, NEW m, NEW new, new = SetMeta(row, m),
         "meta_at" \in DOMAIN row, DOMAIN m.meta \subseteq DOMAIN row \ {"meta_at"},
         Stamp(S, row["meta_at"]), Shows(row, LatestIn(S) \ U), m \notin U,
         m.at \in Int, Null \notin Int, \A n \in S : n.at \in Int,
         \A n \in S \ U : DOMAIN n.meta = DOMAIN m.meta
  PROVE  Stamp(S \cup {m}, new["meta_at"]) /\ Shows(new, LatestIn(S \cup {m}) \ U)
<1> DEFINE at == row["meta_at"]
           N == LatestIn(S) \ U
           M == LatestIn(S \cup {m}) \ U
<1>1. /\ new["meta_at"] = Greatest(at, m.at)
      /\ \A c \in DOMAIN m.meta :
           new[c] = IF Latest(m.at, at) /\ m.meta[c] # Null THEN m.meta[c] ELSE row[c]
  BY SetMetaColumns
<1>2. \A n \in N : n \in S \ U
  BY DEF LatestIn
<1>3. \A n \in N : DOMAIN n.meta = DOMAIN m.meta
  BY <1>2
<1>4. ASSUME NEW c \in DOMAIN m.meta, NEW n \in N, n.meta[c] # Null
      PROVE  \E p \in N : p.meta[c] # Null /\ row[c] = p.meta[c]
  BY <1>3, <1>4 DEF Shows
<1>5. /\ Latest(m.at, at) => LatestIn(S \cup {m}) = IF at = m.at THEN LatestIn(S) \cup {m} ELSE {m}
      /\ ~ Latest(m.at, at) => LatestIn(S \cup {m}) = LatestIn(S)
  BY ONLY NewestMoves, Stamp(S, at), m.at \in Int, Null \notin Int, \A n \in S : n.at \in Int
<1>6. Stamp(S \cup {m}, new["meta_at"])
  <2>1. /\ Latest(m.at, at) => Stamp(S \cup {m}, m.at) /\ Greatest(at, m.at) = m.at
        /\ ~ Latest(m.at, at) => Stamp(S \cup {m}, at) /\ Greatest(at, m.at) = at
    BY ONLY StampMoves, Stamp(S, at), m.at \in Int, Null \notin Int, \A n \in S : n.at \in Int
  <2> QED BY <1>1, <2>1
<1>7. ASSUME NEW c, NEW n \in M, c \in DOMAIN n.meta, NEW q \in M, q.meta[c] # Null
      PROVE  \E p \in M : p.meta[c] # Null /\ new[c] = p.meta[c]
  <2>1. CASE Latest(m.at, at)
    <3>1. M = IF at = m.at THEN N \cup {m} ELSE {m}
      BY <1>5, <2>1
    <3>2. c \in DOMAIN m.meta
      BY <1>3, <1>7, <3>1
    <3>3. CASE m.meta[c] # Null
      BY <1>1, <2>1, <3>1, <3>2, <3>3
    <3>4. CASE m.meta[c] = Null
      <4>1. q \in N /\ N \subseteq M
        BY <1>7, <3>1, <3>4
      <4>2. new[c] = row[c]
        BY <1>1, <3>2, <3>4
      <4> QED BY <1>4, <1>7, <3>2, <4>1, <4>2
    <3> QED BY <3>3, <3>4
  <2>2. CASE ~ Latest(m.at, at)
    <3>1. M = N
      BY <1>5, <2>2
    <3>2. c \in DOMAIN m.meta
      BY <1>3, <1>7, <3>1
    <3>3. new[c] = row[c]
      BY <1>1, <2>2, <3>2
    <3> QED BY <1>4, <1>7, <3>1, <3>2, <3>3
  <2> QED BY <2>1, <2>2
<1>8. Shows(new, M)
  BY <1>7 DEF Shows
<1> QED BY <1>6, <1>8

\* A job's row after the mutations C that carry edges and S that carry metadata.
JobRow(row, C, S) ==
  /\ DOMAIN row = DOMAIN FreshJob(0)
  /\ Stamp(C, row.edges_at) /\ Stamp(S, row.meta_at)
  /\ IF C = {} THEN row.inputs = << >> /\ row.outputs = << >>
     ELSE \E m \in LatestIn(C) : /\ row.inputs = m.edges.inputs /\ row.outputs = m.edges.outputs
                                 /\ row.edges_at = m.at
  /\ Shows(row, LatestIn(S) \ Upserts(LatestIn(S)))
  /\ Upserts(LatestIn(S)) # {} => \E m \in Upserts(LatestIn(S)) :
       row.description = m.description /\ row.tags = m.tags

\* The mutations of S are of the two kinds that set a job's metadata.
JobMetaKinds(S) ==
  \A n \in S : /\ n.at \in Int
               /\ n.op = "UpsertJob" \/ DOMAIN n.meta = {"location", "parent"}

JobColumns ==
  {"inputs", "outputs", "edges_at", "description", "tags", "meta_at", "location", "parent",
   "created_at", "updated_at"}

LEMMA FreshJobRow ==
  ASSUME NEW at
  PROVE  /\ JobRow(FreshJob(at), {}, {}) /\ DOMAIN FreshJob(at) = JobColumns
<1>1. LatestIn({}) = {} /\ Upserts({}) = {}
  BY DEF LatestIn, Upserts
<1>2. /\ DOMAIN FreshJob(at) = DOMAIN FreshJob(0) /\ DOMAIN FreshJob(at) = JobColumns
      /\ FreshJob(at).inputs = << >> /\ FreshJob(at).outputs = << >>
      /\ FreshJob(at).edges_at = Null /\ FreshJob(at).meta_at = Null
  BY DEF FreshJob, JobColumns
<1>3. Shows(FreshJob(at), {} \ {})
  BY DEF Shows
<1> QED BY <1>1, <1>2, <1>3 DEF JobRow, Stamp

\* What upsert_job does to a row.
LEMMA UpsertJobColumns ==
  ASSUME NEW t, NEW m, NEW old, old = RowOf(t, m.key, FreshJob(m.at)),
         DOMAIN old = JobColumns, NEW new, new = upsert_job(t, m)[m.key]
  PROVE  /\ DOMAIN new = DOMAIN old
         /\ \A c \in {"inputs", "outputs", "edges_at"} :
              new[c] = IF m.edges # Null /\ Latest(m.at, old["edges_at"])
                       THEN [inputs |-> m.edges.inputs, outputs |-> m.edges.outputs,
                             edges_at |-> m.at][c]
                       ELSE old[c]
         /\ \A c \in {"description", "tags", "meta_at"} :
              new[c] = IF /\ m.description # Null \/ m.tags # Null
                          /\ Latest(m.at, old["meta_at"])
                       THEN [description |-> m.description, tags |-> m.tags, meta_at |-> m.at][c]
                       ELSE old[c]
         /\ new["location"] = old["location"] /\ new["parent"] = old["parent"]
<1> DEFINE carries == m.edges # Null /\ Latest(m.at, old["edges_at"])
           describes == (m.description # Null \/ m.tags # Null) /\ Latest(m.at, old["meta_at"])
           e == [inputs |-> m.edges.inputs, outputs |-> m.edges.outputs, edges_at |-> m.at]
           d == [description |-> m.description, tags |-> m.tags, meta_at |-> m.at]
           edges == When(carries, e)
           meta == When(describes, d)
           a == Touch(old, m.at)
           b == Set(a, edges)
           r == Set(b, meta)
<1>1. upsert_job(t, m) = Put(t, m.key, r)
  BY DEF upsert_job
<1>2. /\ DOMAIN edges = IF carries THEN {"inputs", "outputs", "edges_at"} ELSE {}
      /\ carries => edges = e
  BY DEF When
<1>3. /\ DOMAIN meta = IF describes THEN {"description", "tags", "meta_at"} ELSE {}
      /\ describes => meta = d
  BY DEF When
<1>4. /\ DOMAIN a = JobColumns
      /\ \A c \in JobColumns \ {"created_at", "updated_at"} : a[c] = old[c]
  <2>1. SUFFICES ASSUME NEW x, x = Seen(old, m.at)
                 PROVE  /\ DOMAIN Set(old, x) = JobColumns
                        /\ \A c \in JobColumns \ {"created_at", "updated_at"} :
                             Set(old, x)[c] = old[c]
    BY DEF Touch
  <2>2. DOMAIN x = {"created_at", "updated_at"}
    BY <2>1 DEF Seen
  <2> QED BY <2>2, SetColumns
<1> HIDE DEF a, edges, meta, e, d
<1>5. /\ DOMAIN b = JobColumns
      /\ \A c \in JobColumns : b[c] = IF c \in DOMAIN edges THEN edges[c] ELSE a[c]
  BY <1>4, SetColumns
<1> HIDE DEF b
<1>6. /\ DOMAIN r = JobColumns
      /\ \A c \in JobColumns : r[c] = IF c \in DOMAIN meta THEN meta[c] ELSE b[c]
  BY <1>5, SetColumns DEF b
<1> HIDE DEF r
<1>7. /\ DOMAIN new = DOMAIN r
      /\ \A c \in JobColumns : c # "updated_at" => new[c] = r[c]
  <2>1. new = Put(t, m.key, r)[m.key]
    BY <1>1
  <2> QED BY <1>6, <2>1, PutRow
<1>8. ASSUME NEW c \in {"inputs", "outputs", "edges_at"}
      PROVE  new[c] = IF carries THEN e[c] ELSE old[c]
  <2>1. c \in JobColumns \ {"created_at", "updated_at"} /\ c \notin DOMAIN meta
    BY <1>3, <1>8 DEF JobColumns
  <2>2. new[c] = IF c \in DOMAIN edges THEN edges[c] ELSE old[c]
    BY <1>4, <1>5, <1>6, <1>7, <2>1
  <2> QED BY <1>2, <1>8, <2>2
<1>9. ASSUME NEW c \in {"description", "tags", "meta_at"}
      PROVE  new[c] = IF describes THEN d[c] ELSE old[c]
  <2>1. c \in JobColumns \ {"created_at", "updated_at"} /\ c \notin DOMAIN edges
    BY <1>2, <1>9 DEF JobColumns
  <2>2. new[c] = IF c \in DOMAIN meta THEN meta[c] ELSE old[c]
    BY <1>4, <1>5, <1>6, <1>7, <2>1
  <2> QED BY <1>3, <1>9, <2>2
<1>10. ASSUME NEW c \in {"location", "parent"}
       PROVE  new[c] = old[c]
  <2>1. c \in JobColumns \ {"created_at", "updated_at"} /\ c \notin DOMAIN edges
        /\ c \notin DOMAIN meta
    BY <1>2, <1>3, <1>10 DEF JobColumns
  <2> QED BY <1>4, <1>5, <1>6, <1>7, <2>1
<1> QED BY <1>6, <1>7, <1>8, <1>9, <1>10 DEF e, d

\* A job's row keeps up with an UpsertJob ...
LEMMA UpsertJobRow ==
  ASSUME NEW t, NEW m, NEW old, old = RowOf(t, m.key, FreshJob(m.at)),
         NEW new, new = upsert_job(t, m)[m.key], NEW C, NEW S, JobRow(old, C, S),
         WellFormed(m), m.op = "UpsertJob", Null \notin Int, \A n \in C : n.at \in Int,
         JobMetaKinds(S)
  PROVE  JobRow(new, IF m.edges # Null THEN C \cup {m} ELSE C,
                IF m.tags # Null THEN S \cup {m} ELSE S)
<1> DEFINE C2 == IF m.edges # Null THEN C \cup {m} ELSE C
           S2 == IF m.tags # Null THEN S \cup {m} ELSE S
           L == LatestIn(S)
           L2 == LatestIn(S2)
<1>1. /\ m.at \in Int /\ (m.description # Null => m.tags # Null)
      /\ \A n \in S : n.at \in Int
  BY DEF WellFormed, JobMetaKinds
<1>2. DOMAIN old = JobColumns /\ DOMAIN FreshJob(0) = JobColumns
  BY FreshJobRow DEF JobRow
<1>3. /\ DOMAIN new = JobColumns
      /\ new.location = old.location /\ new.parent = old.parent
      /\ m.edges # Null /\ Latest(m.at, old.edges_at) =>
           /\ new.inputs = m.edges.inputs /\ new.outputs = m.edges.outputs /\ new.edges_at = m.at
      /\ ~ (m.edges # Null /\ Latest(m.at, old.edges_at)) =>
           /\ new.inputs = old.inputs /\ new.outputs = old.outputs /\ new.edges_at = old.edges_at
      /\ m.tags # Null /\ Latest(m.at, old.meta_at) =>
           /\ new.description = m.description /\ new.tags = m.tags /\ new.meta_at = m.at
      /\ ~ (m.tags # Null /\ Latest(m.at, old.meta_at)) =>
           /\ new.description = old.description /\ new.tags = old.tags
           /\ new.meta_at = old.meta_at
  BY <1>1, <1>2, UpsertJobColumns
<1>4. /\ Stamp(C2, new.edges_at)
      /\ C2 = {} => new.inputs = << >> /\ new.outputs = << >>
      /\ C2 # {} => \E n \in LatestIn(C2) :
           /\ new.inputs = n.edges.inputs /\ new.outputs = n.edges.outputs /\ new.edges_at = n.at
  <2>1. CASE m.edges = Null
    BY <1>3, <2>1 DEF JobRow
  <2>2. CASE m.edges # Null /\ Latest(m.at, old.edges_at)
    <3>1. m \in LatestIn(C \cup {m}) /\ Stamp(C \cup {m}, m.at)
      BY <1>1, <2>2, StampMoves DEF JobRow
    <3> QED BY <1>3, <2>2, <3>1
  <2>3. CASE m.edges # Null /\ ~ Latest(m.at, old.edges_at)
    <3>1. C # {} /\ LatestIn(C \cup {m}) = LatestIn(C) /\ Stamp(C \cup {m}, old.edges_at)
      BY <1>1, <2>3, StampMoves DEF JobRow
    <3> QED BY <1>3, <2>3, <3>1 DEF JobRow
  <2> QED BY <2>1, <2>2, <2>3
<1>5. /\ Stamp(S2, new.meta_at) /\ Shows(new, L2 \ Upserts(L2))
      /\ Upserts(L2) # {} => \E n \in Upserts(L2) :
           new.description = n.description /\ new.tags = n.tags
  <2>1. \A n \in L \ Upserts(L) : DOMAIN n.meta = {"location", "parent"}
    BY DEF JobMetaKinds, Upserts, LatestIn
  <2>2. ASSUME NEW M, \A n \in M : n \in L \ Upserts(L), \A n \in L \ Upserts(L) : M # {} => n \in M
        PROVE  Shows(new, M)
    <3>1. M = {} \/ M = L \ Upserts(L)
      BY <2>2
    <3>2. CASE M = {}
      BY <3>2 DEF Shows
    <3>3. CASE M = L \ Upserts(L)
      <4>1. Shows(old, M)
        BY <3>3 DEF JobRow
      <4>2. \A n \in M : \A c \in DOMAIN n.meta : new[c] = old[c]
        BY <1>3, <2>1, <3>3
      <4>3. \A c \in UNION {DOMAIN n.meta : n \in M} : new[c] = old[c]
        BY <4>2
      <4> QED BY <4>1, <4>3 DEF Shows
    <3> QED BY <3>1, <3>2, <3>3
  <2>3. CASE m.tags = Null
    <3>1. S2 = S /\ L2 = L
      BY <2>3
    <3>2. Shows(new, L2 \ Upserts(L2))
      BY <2>2, <3>1
    <3> QED BY <1>3, <2>3, <3>1, <3>2 DEF JobRow
  <2>4. CASE m.tags # Null /\ Latest(m.at, old.meta_at)
    <3>0. Stamp(S, old.meta_at) /\ S2 = S \cup {m}
      BY <2>4 DEF JobRow
    <3>1. L2 = IF old.meta_at = m.at THEN L \cup {m} ELSE {m}
      <4>1. LatestIn(S \cup {m}) = IF old.meta_at = m.at THEN LatestIn(S) \cup {m} ELSE {m}
        BY ONLY <1>1, <2>4, <3>0, Null \notin Int, NewestMoves
      <4> QED BY <3>0, <4>1
    <3>2. m \in L2 /\ m \in Upserts(L2)
      BY <3>1 DEF Upserts
    <3>3. Stamp(S2, new.meta_at)
      <4>1. Stamp(S \cup {m}, m.at)
        BY ONLY <1>1, <2>4, <3>0, Null \notin Int, StampMoves
      <4> QED BY <1>3, <2>4, <3>0, <4>1
    <3>4. L2 \ Upserts(L2) = IF old.meta_at = m.at THEN L \ Upserts(L) ELSE {}
      BY <3>1 DEF Upserts
    <3>5. Shows(new, L2 \ Upserts(L2))
      BY <2>2, <3>4
    <3> QED BY <1>3, <2>4, <3>2, <3>3, <3>5
  <2>5. CASE m.tags # Null /\ ~ Latest(m.at, old.meta_at)
    <3>1. L2 = L /\ Stamp(S2, old.meta_at)
      BY <1>1, <2>5, StampMoves DEF JobRow
    <3>2. Shows(new, L2 \ Upserts(L2))
      BY <2>2, <3>1
    <3> QED BY <1>3, <2>5, <3>1, <3>2 DEF JobRow
  <2> QED BY <2>3, <2>4, <2>5
<1> QED BY <1>2, <1>3, <1>4, <1>5 DEF JobRow

\* ... and with a SetJobMeta.
LEMMA SetJobMetaRow ==
  ASSUME NEW m, NEW old, NEW C, NEW S, JobRow(old, C, S), NEW new, DOMAIN new = DOMAIN old,
         \A c \in DOMAIN old : c # "updated_at" => new[c] = SetMeta(old, m)[c],
         WellFormed(m), m.op = "SetJobMeta", Null \notin Int, JobMetaKinds(S)
  PROVE  JobRow(new, C, S \cup {m})
<1> DEFINE L == LatestIn(S)
           L2 == LatestIn(S \cup {m})
           U == Upserts(S)
           row == SetMeta(old, m)
<1>1. /\ m.at \in Int /\ DOMAIN m.meta = {"location", "parent"}
      /\ \A n \in S : n.at \in Int
      /\ \A n \in S \ U : DOMAIN n.meta = DOMAIN m.meta
      /\ m \notin U
  BY DEF WellFormed, JobMetaKinds, Upserts
<1>2. DOMAIN old = JobColumns /\ DOMAIN FreshJob(0) = JobColumns
  BY FreshJobRow DEF JobRow
<1>3. L \ Upserts(L) = L \ U /\ L2 \ Upserts(L2) = L2 \ U
  BY <1>1 DEF Upserts, LatestIn
<1>4. Stamp(S \cup {m}, row.meta_at) /\ Shows(row, L2 \ U)
  <2>1. /\ "meta_at" \in DOMAIN old /\ DOMAIN m.meta \subseteq DOMAIN old \ {"meta_at"}
    BY <1>1, <1>2 DEF JobColumns
  <2>2. Stamp(S, old["meta_at"]) /\ Shows(old, L \ U)
    BY <1>3 DEF JobRow
  <2> QED BY <1>1, <2>1, <2>2, SetMetaShows
<1>5. /\ row["meta_at"] = Greatest(old["meta_at"], m.at)
      /\ \A c \in JobColumns \ {"meta_at", "location", "parent"} : row[c] = old[c]
  BY <1>1, <1>2, SetMetaColumns DEF JobColumns
<1>6. /\ new.inputs = old.inputs /\ new.outputs = old.outputs /\ new.edges_at = old.edges_at
      /\ new.description = old.description /\ new.tags = old.tags /\ new.meta_at = row.meta_at
      /\ new.location = row.location /\ new.parent = row.parent
  BY <1>2, <1>5 DEF JobColumns
<1>7. Shows(new, L2 \ U)
  <2>1. \A n \in L2 \ U : DOMAIN n.meta = {"location", "parent"}
    BY <1>1 DEF LatestIn
  <2>2. \A c \in UNION {DOMAIN n.meta : n \in L2 \ U} : new[c] = row[c]
    BY <1>6, <2>1
  <2> QED BY <1>4, <2>2 DEF Shows
<1>8. ASSUME Upserts(L2) # {}
      PROVE  \E n \in Upserts(L2) : new.description = n.description /\ new.tags = n.tags
  <2>1. /\ Latest(m.at, old.meta_at) => L2 = IF old.meta_at = m.at THEN L \cup {m} ELSE {m}
        /\ ~ Latest(m.at, old.meta_at) => L2 = L
    BY <1>1, NewestMoves DEF JobRow
  <2>2. Upserts({m}) = {} /\ Upserts(L \cup {m}) = Upserts(L)
    BY DEF Upserts
  <2>3. Upserts(L2) = Upserts(L)
    BY <1>8, <2>1, <2>2
  <2> QED BY <1>6, <1>8, <2>3 DEF JobRow
<1>9. Stamp(C, new.edges_at) /\ Stamp(S \cup {m}, new.meta_at)
  BY <1>4, <1>6 DEF JobRow
<1>10. IF C = {} THEN new.inputs = << >> /\ new.outputs = << >>
       ELSE \E n \in LatestIn(C) : /\ new.inputs = n.edges.inputs /\ new.outputs = n.edges.outputs
                                   /\ new.edges_at = n.at
  BY <1>6 DEF JobRow
<1> QED BY <1>2, <1>3, <1>7, <1>8, <1>9, <1>10 DEF JobRow

\* A dataset's row after the mutations C that carry a schema and S that carry
\* metadata.
DatasetRow(row, C, S) ==
  /\ DOMAIN row = DOMAIN FreshDataset(0)
  /\ Stamp(C, row.schema_at) /\ Stamp(S, row.meta_at)
  /\ IF C = {} THEN row.fields = << >> ELSE \E m \in LatestIn(C) : row.fields = m.fields
  /\ Shows(row, LatestIn(S))

DatasetColumns ==
  {"fields", "schema_at", "description", "source_name", "deleted", "meta_at", "created_at",
   "updated_at"}

LEMMA FreshDatasetRow ==
  ASSUME NEW at
  PROVE  /\ DatasetRow(FreshDataset(at), {}, {}) /\ DOMAIN FreshDataset(at) = DatasetColumns
<1>1. LatestIn({}) = {}
  BY DEF LatestIn
<1>2. /\ DOMAIN FreshDataset(at) = DOMAIN FreshDataset(0)
      /\ DOMAIN FreshDataset(at) = DatasetColumns
      /\ FreshDataset(at).fields = << >>
      /\ FreshDataset(at).schema_at = Null /\ FreshDataset(at).meta_at = Null
  BY DEF FreshDataset, DatasetColumns
<1>3. Shows(FreshDataset(at), {})
  BY DEF Shows
<1> QED BY <1>1, <1>2, <1>3 DEF DatasetRow, Stamp

\* What note_dataset does to a row.
LEMMA NoteDatasetColumns ==
  ASSUME NEW t, NEW m, NEW old, old = RowOf(t, m.key, FreshDataset(m.at)),
         DOMAIN old = DatasetColumns, NEW new, new = note_dataset(t, m)[m.key]
  PROVE  /\ DOMAIN new = DOMAIN old
         /\ \A c \in {"fields", "schema_at"} :
              new[c] = IF m.fields \notin {Null, << >>} /\ Latest(m.at, old["schema_at"])
                       THEN [fields |-> m.fields, schema_at |-> m.at][c] ELSE old[c]
         /\ \A c \in {"description", "source_name", "deleted", "meta_at"} : new[c] = old[c]
<1> DEFINE carries == m.fields \notin {Null, << >>} /\ Latest(m.at, old["schema_at"])
           e == [fields |-> m.fields, schema_at |-> m.at]
           schema == When(carries, e)
           a == Touch(old, m.at)
           r == Set(a, schema)
<1>1. note_dataset(t, m) = Put(t, m.key, r)
  <2>1. carries <=> (m.fields # Null /\ m.fields # << >>) /\ Latest(m.at, old.schema_at)
    OBVIOUS
  <2> QED BY <2>1 DEF note_dataset
<1>2. /\ DOMAIN schema = IF carries THEN {"fields", "schema_at"} ELSE {}
      /\ carries => schema = e
  BY DEF When
<1>3. /\ DOMAIN a = DatasetColumns
      /\ \A c \in DatasetColumns \ {"created_at", "updated_at"} : a[c] = old[c]
  <2>1. SUFFICES ASSUME NEW x, x = Seen(old, m.at)
                 PROVE  /\ DOMAIN Set(old, x) = DatasetColumns
                        /\ \A c \in DatasetColumns \ {"created_at", "updated_at"} :
                             Set(old, x)[c] = old[c]
    BY DEF Touch
  <2>2. DOMAIN x = {"created_at", "updated_at"}
    BY <2>1 DEF Seen
  <2> QED BY <2>2, SetColumns
<1> HIDE DEF a, schema, e, carries
<1>4. /\ DOMAIN r = DatasetColumns
      /\ \A c \in DatasetColumns : r[c] = IF c \in DOMAIN schema THEN schema[c] ELSE a[c]
  BY <1>3, SetColumns
<1> HIDE DEF r
<1>5. /\ DOMAIN new = DOMAIN r
      /\ \A c \in DatasetColumns : c # "updated_at" => new[c] = r[c]
  <2>1. new = Put(t, m.key, r)[m.key]
    BY <1>1
  <2> QED BY <1>4, <2>1, PutRow
<1>6. ASSUME NEW c \in {"fields", "schema_at"}
      PROVE  new[c] = IF carries THEN e[c] ELSE old[c]
  <2>1. c \in DatasetColumns \ {"created_at", "updated_at"}
    BY <1>6 DEF DatasetColumns
  <2>2. new[c] = IF c \in DOMAIN schema THEN schema[c] ELSE old[c]
    BY <1>3, <1>4, <1>5, <2>1
  <2> QED BY <1>2, <1>6, <2>2
<1>7. ASSUME NEW c \in {"description", "source_name", "deleted", "meta_at"}
      PROVE  new[c] = old[c]
  <2>1. c \in DatasetColumns \ {"created_at", "updated_at"} /\ c \notin DOMAIN schema
    BY <1>2, <1>7 DEF DatasetColumns
  <2> QED BY <1>3, <1>4, <1>5, <2>1
<1> QED BY <1>4, <1>5, <1>6, <1>7 DEF e, carries

\* A dataset's row keeps up with an UpsertDataset ...
LEMMA UpsertDatasetRow ==
  ASSUME NEW t, NEW m, NEW old, old = RowOf(t, m.key, FreshDataset(m.at)),
         NEW new, new = note_dataset(t, m)[m.key], NEW C, NEW S, DatasetRow(old, C, S),
         WellFormed(m), m.op = "UpsertDataset", Null \notin Int, \A n \in C : n.at \in Int,
         \A n \in S : DOMAIN n.meta = {"description", "source_name", "deleted"},
         NEW C2, C2 = IF m.fields \notin {Null, << >>} THEN C \cup {m} ELSE C
  PROVE  DatasetRow(new, C2, S)
<1>1. m.at \in Int
  BY DEF WellFormed
<1>2. DOMAIN old = DatasetColumns /\ DOMAIN FreshDataset(0) = DatasetColumns
  BY FreshDatasetRow DEF DatasetRow
<1>3. /\ DOMAIN new = DatasetColumns
      /\ \A c \in {"description", "source_name", "deleted"} : new[c] = old[c]
      /\ new.meta_at = old.meta_at
      /\ m.fields \notin {Null, << >>} /\ Latest(m.at, old.schema_at) =>
           new.fields = m.fields /\ new.schema_at = m.at
      /\ ~ (m.fields \notin {Null, << >>} /\ Latest(m.at, old.schema_at)) =>
           new.fields = old.fields /\ new.schema_at = old.schema_at
  BY <1>2, NoteDatasetColumns
<1>4. Stamp(C, old.schema_at)
  BY DEF DatasetRow
<1>5. /\ Stamp(C2, new.schema_at)
      /\ C2 = {} => new.fields = << >>
      /\ C2 # {} => \E n \in LatestIn(C2) : new.fields = n.fields
  <2>1. CASE m.fields \in {Null, << >>}
    BY <1>3, <2>1 DEF DatasetRow
  <2>2. CASE m.fields \notin {Null, << >>} /\ Latest(m.at, old.schema_at)
    <3>1. m \in LatestIn(C \cup {m}) /\ Stamp(C \cup {m}, m.at)
      BY ONLY <1>1, <1>4, <2>2, Null \notin Int, \A n \in C : n.at \in Int, StampMoves
    <3> QED BY <1>3, <2>2, <3>1
  <2>3. CASE m.fields \notin {Null, << >>} /\ ~ Latest(m.at, old.schema_at)
    <3>1. C # {} /\ LatestIn(C \cup {m}) = LatestIn(C) /\ Stamp(C \cup {m}, old.schema_at)
      BY ONLY <1>1, <1>4, <2>3, Null \notin Int, \A n \in C : n.at \in Int, StampMoves
    <3> QED BY <1>3, <2>3, <3>1 DEF DatasetRow
  <2> QED BY <2>1, <2>2, <2>3
<1>6. Shows(new, LatestIn(S))
  <2>1. \A n \in LatestIn(S) : DOMAIN n.meta = {"description", "source_name", "deleted"}
    BY DEF LatestIn
  <2>2. \A c \in UNION {DOMAIN n.meta : n \in LatestIn(S)} : new[c] = old[c]
    BY <1>3, <2>1
  <2>3. Shows(old, LatestIn(S))
    BY DEF DatasetRow
  <2> QED BY <2>2, <2>3 DEF Shows
<1> QED BY <1>2, <1>3, <1>5, <1>6 DEF DatasetRow

\* ... and with a SetDatasetMeta.
LEMMA SetDatasetMetaRow ==
  ASSUME NEW m, NEW old, NEW C, NEW S, DatasetRow(old, C, S), NEW new, DOMAIN new = DOMAIN old,
         \A c \in DOMAIN old : c # "updated_at" => new[c] = SetMeta(old, m)[c],
         WellFormed(m), m.op = "SetDatasetMeta", Null \notin Int, \A n \in S : n.at \in Int,
         \A n \in S : DOMAIN n.meta = {"description", "source_name", "deleted"}
  PROVE  DatasetRow(new, C, S \cup {m})
<1> DEFINE row == SetMeta(old, m)
<1>1. m.at \in Int /\ DOMAIN m.meta = {"description", "source_name", "deleted"}
  BY DEF WellFormed
<1>2. DOMAIN old = DatasetColumns /\ DOMAIN FreshDataset(0) = DatasetColumns
  BY FreshDatasetRow DEF DatasetRow
<1>3. Stamp(S \cup {m}, row["meta_at"]) /\ Shows(row, LatestIn(S \cup {m}))
  <2>1. "meta_at" \in DOMAIN old /\ DOMAIN m.meta \subseteq DOMAIN old \ {"meta_at"}
    BY <1>1, <1>2 DEF DatasetColumns
  <2>2. Stamp(S, old["meta_at"]) /\ Shows(old, LatestIn(S))
    BY DEF DatasetRow
  <2>3. /\ \A X : X \ {} = X
        /\ m \notin {} /\ \A n \in S \ {} : DOMAIN n.meta = DOMAIN m.meta
    BY <1>1
  <2>4. Shows(old, LatestIn(S) \ {})
    BY <2>2, <2>3
  <2>5. Stamp(S \cup {m}, row["meta_at"]) /\ Shows(row, LatestIn(S \cup {m}) \ {})
    BY ONLY <1>1, <2>1, <2>2, <2>3, <2>4, Null \notin Int, \A n \in S : n.at \in Int,
            row = SetMeta(old, m), SetMetaShows
  <2> QED BY <2>3, <2>5
<1>4. \A c \in {"fields", "schema_at"} : row[c] = old[c]
  BY <1>1, <1>2, SetMetaColumns DEF DatasetColumns
<1>5. /\ new.fields = old.fields /\ new.schema_at = old.schema_at /\ new.meta_at = row.meta_at
      /\ \A c \in {"description", "source_name", "deleted"} : new[c] = row[c]
  BY <1>2, <1>4 DEF DatasetColumns
<1>6. Shows(new, LatestIn(S \cup {m}))
  <2>1. \A n \in LatestIn(S \cup {m}) : DOMAIN n.meta = {"description", "source_name", "deleted"}
    BY <1>1 DEF LatestIn
  <2>2. \A c \in UNION {DOMAIN n.meta : n \in LatestIn(S \cup {m})} : new[c] = row[c]
    BY <1>5, <2>1
  <2> QED BY <1>3, <2>2 DEF Shows
<1> QED BY <1>2, <1>3, <1>5, <1>6 DEF DatasetRow

\* The rows show the same metadata of a run.
SameMeta(new, old) ==
  \A c \in {"nominal", "parent_run_id", "error_message", "meta_at"} : new[c] = old[c]

\* A run's row after the run state mutations U.
RunRow(row, U) ==
  LET ranks == {state_rank(IF m.state = Null THEN "NEW" ELSE m.state) : m \in U}
  IN /\ DOMAIN row = RunColumns
     /\ \E m \in U : row.job = m.job
     /\ state_rank(row.state) \in ranks
     /\ \A n \in ranks : n <= state_rank(row.state)
     /\ (row.ended_at # Null) = (state_rank(row.state) = 2)

\* What fold_run does to a row.
LEMMA FoldRunColumns ==
  ASSUME NEW t, NEW m, NEW old, old = RowOf(t, m.key, FreshRun(m)), DOMAIN old = RunColumns,
         NEW new, new = fold_run(t, m)[m.key]
  PROVE  /\ DOMAIN new = RunColumns
         /\ new["state"] = NextState(old["state"], IF m.state = Null THEN "NEW" ELSE m.state)
         /\ new["ended_at"] = IF m.is_terminal THEN m.at ELSE old["ended_at"]
         /\ \A c \in {"job", "nominal", "parent_run_id", "error_message", "meta_at"} :
              new[c] = old[c]
<1> DEFINE next == NextState(old["state"], IF m.state = Null THEN "NEW" ELSE m.state)
           state == [state |-> next]
           started == When(m.is_start, [started_at |-> m.at])
           ended == When(m.is_terminal, [ended_at |-> m.at])
           a == Touch(old, m.at)
           b == Set(a, state)
           d == Set(b, started)
           r == Set(d, ended)
<1>1. fold_run(t, m) = Put(t, m.key, r)
  BY DEF fold_run
<1>2. /\ DOMAIN state = {"state"} /\ state["state"] = next
  OBVIOUS
<1>3. DOMAIN started \in SUBSET {"started_at"}
  BY DEF When
<1>4. /\ DOMAIN ended = IF m.is_terminal THEN {"ended_at"} ELSE {}
      /\ m.is_terminal => ended["ended_at"] = m.at
  BY DEF When
<1>5. /\ DOMAIN a = RunColumns
      /\ \A c \in RunColumns \ {"created_at", "updated_at"} : a[c] = old[c]
  <2>1. SUFFICES ASSUME NEW x, x = Seen(old, m.at)
                 PROVE  /\ DOMAIN Set(old, x) = RunColumns
                        /\ \A c \in RunColumns \ {"created_at", "updated_at"} :
                             Set(old, x)[c] = old[c]
    BY DEF Touch
  <2>2. DOMAIN x = {"created_at", "updated_at"}
    BY <2>1 DEF Seen
  <2> QED BY <2>2, SetColumns
<1> HIDE DEF a, state, started, ended, next
<1>6. /\ DOMAIN b = RunColumns
      /\ \A c \in RunColumns : b[c] = IF c \in DOMAIN state THEN state[c] ELSE a[c]
  BY <1>5, SetColumns
<1> HIDE DEF b
<1>7. /\ DOMAIN d = RunColumns
      /\ \A c \in RunColumns : d[c] = IF c \in DOMAIN started THEN started[c] ELSE b[c]
  BY <1>6, SetColumns
<1> HIDE DEF d
<1>8. /\ DOMAIN r = RunColumns
      /\ \A c \in RunColumns : r[c] = IF c \in DOMAIN ended THEN ended[c] ELSE d[c]
  BY <1>7, SetColumns
<1> HIDE DEF r
<1>9. /\ DOMAIN new = RunColumns
      /\ \A c \in RunColumns : c # "updated_at" => new[c] = r[c]
  <2>1. new = Put(t, m.key, r)[m.key]
    BY <1>1
  <2> QED BY <1>8, <2>1, PutRow
<1>10. ASSUME NEW c \in RunColumns, c \notin {"created_at", "updated_at", "started_at"}
       PROVE  new[c] = IF c \in DOMAIN ended THEN ended[c]
                       ELSE IF c = "state" THEN next ELSE old[c]
  <2>1. new[c] = IF c \in DOMAIN ended THEN ended[c] ELSE b[c]
    BY <1>3, <1>7, <1>8, <1>9, <1>10
  <2>2. b[c] = IF c = "state" THEN next ELSE old[c]
    BY <1>2, <1>5, <1>6, <1>10
  <2> QED BY <2>1, <2>2
<1>11. new["state"] = next
  BY <1>4, <1>10 DEF RunColumns
<1>12. new["ended_at"] = IF m.is_terminal THEN m.at ELSE old["ended_at"]
  BY <1>4, <1>10 DEF RunColumns
<1>13. \A c \in {"job", "nominal", "parent_run_id", "error_message", "meta_at"} : new[c] = old[c]
  BY <1>4, <1>10 DEF RunColumns
<1> QED BY <1>9, <1>11, <1>12, <1>13 DEF next

\* The rank of the next state is the greater of the two.
LEMMA RankOfNextState ==
  ASSUME NEW old, NEW new
  PROVE  /\ state_rank(old) \in 0..2 /\ state_rank(new) \in 0..2
         /\ state_rank(NextState(old, new)) =
              IF state_rank(old) <= state_rank(new) THEN state_rank(new) ELSE state_rank(old)
<1>1. \A s : state_rank(s) \in 0..2
  BY DEF state_rank
<1> QED BY <1>1 DEF NextState

\* A run's row keeps up with an UpsertRunState.
LEMMA UpsertRunStateRow ==
  ASSUME NEW t, NEW m, NEW old, old = RowOf(t, m.key, FreshRun(m)),
         NEW new, new = fold_run(t, m)[m.key], NEW U,
         IF m.key \in DOMAIN t THEN RunRow(old, U) ELSE U = {},
         WellFormed(m), m.op = "UpsertRunState", Null \notin Int, Null \notin Terminal
  PROVE  /\ RunRow(new, U \cup {m})
         /\ SameMeta(new, old)
<1> DEFINE rank(n) == state_rank(IF n.state = Null THEN "NEW" ELSE n.state)
<1>1. /\ m.at \in Int /\ m.state \in Terminal \cup {"RUNNING", Null}
      /\ m.is_terminal = (m.state \in Terminal)
  BY DEF WellFormed, Ops
<1>2. m.is_terminal = (rank(m) = 2)
  <2>1. \A s : state_rank(s) = 2 <=> s \in Terminal
    BY DEF Terminal, state_rank
  <2>2. "NEW" \notin Terminal
    BY DEF Terminal
  <2>3. rank(m) = 2 <=> m.state \in Terminal
    BY <2>1, <2>2
  <2> HIDE DEF rank
  <2> QED BY <1>1, <2>3
<1>3. /\ DOMAIN old = RunColumns
      /\ m.key \notin DOMAIN t => old = FreshRun(m)
      /\ (old.ended_at # Null) = (state_rank(old.state) = 2)
  <2>1. CASE m.key \in DOMAIN t
    BY <2>1 DEF RunRow
  <2>2. CASE m.key \notin DOMAIN t
    <3>1. old = FreshRun(m)
      BY <2>2 DEF RowOf
    <3> QED BY <2>2, <3>1 DEF FreshRun, RunColumns, state_rank
  <2> QED BY <2>1, <2>2
<1>4. /\ DOMAIN new = RunColumns
      /\ new.state = NextState(old.state, IF m.state = Null THEN "NEW" ELSE m.state)
      /\ new.ended_at = IF m.is_terminal THEN m.at ELSE old.ended_at
      /\ \A c \in {"job", "nominal", "parent_run_id", "error_message", "meta_at"} :
           new[c] = old[c]
  BY <1>3, FoldRunColumns
<1>5. /\ state_rank(old.state) \in 0..2 /\ rank(m) \in 0..2
      /\ state_rank(new.state) =
           IF state_rank(old.state) <= rank(m) THEN rank(m) ELSE state_rank(old.state)
  BY <1>4, RankOfNextState
<1>6. (new.ended_at # Null) = (state_rank(new.state) = 2)
  <2>1. CASE m.is_terminal
    <3>1. new.ended_at = m.at /\ m.at # Null
      BY <1>1, <1>4, <2>1
    <3>2. rank(m) = 2
      BY <1>2, <2>1
    <3> HIDE DEF rank
    <3>3. state_rank(new.state) = 2
      BY ONLY <1>5, <3>2
    <3> QED BY ONLY <3>1, <3>3
  <2>2. CASE ~ m.is_terminal
    <3>1. new.ended_at = old.ended_at
      BY <1>4, <2>2
    <3>2. rank(m) # 2
      BY <1>2, <2>2
    <3> HIDE DEF rank
    <3>3. state_rank(new.state) = 2 <=> state_rank(old.state) = 2
      BY ONLY <1>5, <3>2
    <3> QED BY ONLY <1>3, <3>1, <3>3
  <2> QED BY <2>1, <2>2
<1>7. \E n \in U \cup {m} : new.job = n.job
  <2>1. CASE m.key \in DOMAIN t
    BY <1>4, <2>1 DEF RunRow
  <2>2. CASE m.key \notin DOMAIN t
    BY <1>3, <1>4, <2>2 DEF FreshRun
  <2> QED BY <2>1, <2>2
<1>8. /\ \E n \in U \cup {m} : state_rank(new.state) = rank(n)
      /\ \A n \in U \cup {m} : rank(n) <= state_rank(new.state)
  <2>1. CASE m.key \in DOMAIN t
    <3>1. /\ \E n \in U : state_rank(old.state) = rank(n)
          /\ \A n \in U : rank(n) <= state_rank(old.state)
      BY <2>1 DEF RunRow
    <3>2. \A n \in U : rank(n) \in 0..2
      BY RankOfNextState
    <3> HIDE DEF rank
    <3> QED BY <1>5, <3>1, <3>2
  <2>2. CASE m.key \notin DOMAIN t
    <3>1. U = {} /\ state_rank(old.state) = 0
      BY <1>3, <2>2 DEF FreshRun, state_rank
    <3> HIDE DEF rank
    <3> QED BY <1>5, <3>1
  <2> QED BY <2>1, <2>2
<1>9. RunRow(new, U \cup {m})
  BY <1>4, <1>6, <1>7, <1>8 DEF RunRow
<1>10. SameMeta(new, old)
  BY <1>4 DEF SameMeta
<1> QED BY <1>9, <1>10

\* The row of a dataset's column after the mutations S.
FieldRow(row, S) ==
  \E m \in LatestIn(S) : row = [type |-> m.type, ordinal |-> m.ordinal, schema_at |-> m.at]

\* It keeps up with an UpsertDatasetField.
LEMMA UpsertDatasetFieldRow ==
  ASSUME NEW t, NEW m, NEW S, m.at \in Int, Null \notin Int, \A n \in S : n.at \in Int,
         IF m.key \in DOMAIN t THEN FieldRow(t[m.key], S) ELSE S = {},
         NEW new, new = upsert_dataset_field(t, m)[m.key]
  PROVE  FieldRow(new, S \cup {m})
<1> DEFINE Row(n) == [type |-> n.type, ordinal |-> n.ordinal, schema_at |-> n.at]
           old == RowOf(t, m.key, Row(m))
           row == IF Latest(m.at, old.schema_at) THEN Row(m) ELSE old
<1>1. upsert_dataset_field(t, m) = With(t, m.key, row)
  BY DEF upsert_dataset_field
<1>2. \E n \in LatestIn(S \cup {m}) : row = Row(n)
  <2>1. CASE m.key \notin DOMAIN t
    <3>1. old = Row(m) /\ LatestIn(S \cup {m}) = {m}
      BY <2>1 DEF RowOf, LatestIn
    <3> QED BY <3>1
  <2>2. CASE m.key \in DOMAIN t
    <3>1. PICK n \in LatestIn(S) : old = Row(n)
      BY <2>2 DEF RowOf, FieldRow
    <3>2. Stamp(S, n.at) /\ old.schema_at = n.at
      BY <3>1 DEF Stamp, LatestIn
    <3>3. /\ Latest(m.at, n.at) => m \in LatestIn(S \cup {m})
          /\ ~ Latest(m.at, n.at) => LatestIn(S \cup {m}) = LatestIn(S)
      BY <3>2, StampMoves
    <3> QED BY <3>1, <3>2, <3>3
  <2> QED BY <2>1, <2>2
<1> HIDE DEF row
<1>3. new = row
  BY <1>1 DEF With
<1> QED BY <1>2, <1>3 DEF FieldRow

EdgesInto(E, out) == {m \in E : m.key[2] = out}

\* The column edges after the mutations E.
ColumnEdges(t, E) ==
  /\ \A m \in E : LatestIn(EdgesInto(E, m.key[2])) # {}
  /\ \A k : k \in DOMAIN t <=> \E n \in LatestIn(EdgesInto(E, k[2])) : n.key = k
  /\ \A k \in DOMAIN t : \E n \in LatestIn(EdgesInto(E, k[2])) :
       n.key = k /\ t[k] = [how |-> n.how, edge_at |-> n.at]

\* What upsert_column_edge does to the table, when the edges of the output
\* column all have the time of its newest mutation.
LEMMA UpsertColumnEdgeRows ==
  ASSUME NEW t, NEW m, NEW at, m.at \in Int, Null \notin Int, at \in Int \cup {Null},
         \A k \in DOMAIN t : k[2] = m.key[2] => t[k].edge_at = at /\ at \in Int,
         at # Null => \E k \in DOMAIN t : k[2] = m.key[2],
         NEW new, new = upsert_column_edge(t, m)
  PROVE  /\ Latest(m.at, at) =>
              /\ \A k : k \in DOMAIN new <=>
                   k = m.key \/ (k \in DOMAIN t /\ (k[2] = m.key[2] => at = m.at))
              /\ new[m.key] = [how |-> m.how, edge_at |-> m.at]
         /\ ~ Latest(m.at, at) => DOMAIN new = DOMAIN t
         /\ \A k \in DOMAIN new : (k = m.key /\ Latest(m.at, at)) \/ new[k] = t[k]
<1> DEFINE out == m.key[2]
           kept == {k \in DOMAIN t : k[2] = m.key[2] => t[k].edge_at >= m.at}
           newer == \E k \in kept : k[2] = m.key[2] /\ t[k].edge_at > m.at
           rest == [k \in kept |-> t[k]]
           edge == [how |-> m.how, edge_at |-> m.at]
<1>1. new = IF newer THEN rest ELSE With(rest, m.key, edge)
  BY DEF upsert_column_edge
<1>2. CASE Latest(m.at, at)
  <2>1. at = Null \/ (at \in Int /\ m.at >= at)
    BY <1>2 DEF Latest
  <2>2. \A k \in DOMAIN t : k[2] = out => at \in Int /\ t[k].edge_at = at /\ m.at >= at
    BY <2>1
  <2>3. ~ newer
    BY <2>2
  <2>4. \A k : k \in kept <=> k \in DOMAIN t /\ (k[2] = out => at = m.at)
    BY <2>2
  <2>5. new = With(rest, m.key, edge)
    BY <1>1, <2>3
  <2> HIDE DEF kept, edge
  <2>6. /\ DOMAIN new = kept \cup {m.key} /\ new[m.key] = edge
        /\ \A k \in kept : k # m.key => new[k] = t[k]
    BY <2>5 DEF With
  <2> QED BY <1>2, <2>4, <2>6 DEF edge
<1>3. CASE ~ Latest(m.at, at)
  <2>1. at \in Int /\ ~ (m.at >= at)
    BY <1>3 DEF Latest
  <2>2. kept = DOMAIN t
    <3>1. \A k \in DOMAIN t : k[2] = out => t[k].edge_at = at /\ at >= m.at
      BY <2>1
    <3> QED BY <3>1
  <2>3. newer
    <3>1. PICK k \in DOMAIN t : k[2] = out
      BY <2>1
    <3>2. k \in kept /\ t[k].edge_at > m.at
      BY <2>1, <2>2, <3>1
    <3> QED BY <3>1, <3>2
  <2>4. new = rest
    BY <1>1, <2>3
  <2> QED BY <1>3, <2>2, <2>4
<1> QED BY <1>2, <1>3

\* The table keeps up with an UpsertColumnEdge.
LEMMA ColumnEdgesMove ==
  ASSUME NEW t, NEW m, NEW E, ColumnEdges(t, E), m.at \in Int, Null \notin Int,
         \A n \in E : n.at \in Int, NEW new, new = upsert_column_edge(t, m)
  PROVE  ColumnEdges(new, E \cup {m})
<1> DEFINE out == m.key[2]
           S == EdgesInto(E, out)
           E2 == E \cup {m}
<1>1. /\ EdgesInto(E2, out) = S \cup {m}
      /\ \A o : o # out => EdgesInto(E2, o) = EdgesInto(E, o)
  BY DEF EdgesInto
<1>2. \A n \in S : n.at \in Int
  BY DEF EdgesInto
<1>3. ASSUME S # {}
      PROVE  LatestIn(S) # {}
  <2>1. PICK n \in S : TRUE
    BY <1>3
  <2>2. n \in E /\ n.key[2] = out
    BY <2>1 DEF EdgesInto
  <2> QED BY <2>2 DEF ColumnEdges
<1>4. PICK at : at \in Int \cup {Null} /\ Stamp(S, at) /\ (at = Null <=> S = {})
  <2>1. CASE S = {}
    <3>1. Stamp(S, Null)
      BY <2>1 DEF Stamp
    <3> QED BY <2>1, <3>1
  <2>2. CASE S # {}
    <3>1. PICK p \in LatestIn(S) : TRUE
      BY <1>3, <2>2
    <3>2. p.at \in Int /\ Stamp(S, p.at)
      BY <1>2, <2>2, <3>1 DEF Stamp, LatestIn
    <3> QED BY <2>2, <3>2
  <2> QED BY <2>1, <2>2
<1>5. \A n \in LatestIn(S) : n.at = at /\ at \in Int
  <2>1. ASSUME NEW n \in LatestIn(S)
        PROVE  n.at = at /\ at \in Int
    <3>1. n \in S /\ \A q \in S : q.at <= n.at
      BY <2>1 DEF LatestIn
    <3>2. PICK p \in LatestIn(S) : p.at = at
      BY <1>4, <3>1 DEF Stamp
    <3>3. p \in S /\ \A q \in S : q.at <= p.at
      BY <3>2 DEF LatestIn
    <3> QED BY <1>2, <3>1, <3>2, <3>3
  <2> QED BY <2>1
<1>6. /\ \A k \in DOMAIN t : k[2] = out => t[k].edge_at = at /\ at \in Int
      /\ at # Null => \E k \in DOMAIN t : k[2] = out
  <2>1. ASSUME NEW k \in DOMAIN t, k[2] = out
        PROVE  t[k].edge_at = at /\ at \in Int
    <3>1. PICK n \in LatestIn(S) : t[k] = [how |-> n.how, edge_at |-> n.at]
      BY <2>1 DEF ColumnEdges
    <3> QED BY <1>5, <3>1
  <2>2. ASSUME at # Null
        PROVE  \E k \in DOMAIN t : k[2] = out
    <3>1. PICK n \in LatestIn(S) : TRUE
      BY <1>3, <1>4, <2>2
    <3>2. n \in S /\ n.key[2] = out
      BY <3>1 DEF LatestIn, EdgesInto
    <3> QED BY <3>1, <3>2 DEF ColumnEdges
  <2> QED BY <2>1, <2>2
<1>7. /\ Latest(m.at, at) =>
           /\ \A k : k \in DOMAIN new <=>
                k = m.key \/ (k \in DOMAIN t /\ (k[2] = out => at = m.at))
           /\ new[m.key] = [how |-> m.how, edge_at |-> m.at]
      /\ ~ Latest(m.at, at) => DOMAIN new = DOMAIN t
      /\ \A k \in DOMAIN new : (k = m.key /\ Latest(m.at, at)) \/ new[k] = t[k]
  BY <1>4, <1>6, UpsertColumnEdgeRows
<1>8. /\ Latest(m.at, at) =>
           LatestIn(S \cup {m}) = IF at = m.at THEN LatestIn(S) \cup {m} ELSE {m}
      /\ ~ Latest(m.at, at) => LatestIn(S \cup {m}) = LatestIn(S)
  BY <1>2, <1>4, NewestMoves
<1>9. ~ Latest(m.at, at) => S # {}
  BY <1>2, <1>4, StampMoves
<1>10. ASSUME NEW n \in E2
       PROVE  LatestIn(EdgesInto(E2, n.key[2])) # {}
  <2>1. CASE n.key[2] = out
    BY <1>1, <1>3, <1>8, <1>9, <2>1
  <2>2. CASE n.key[2] # out
    BY <1>1, <1>10, <2>2 DEF ColumnEdges
  <2> QED BY <2>1, <2>2
<1>11. ASSUME NEW k
       PROVE  /\ k \in DOMAIN new <=> \E n \in LatestIn(EdgesInto(E2, k[2])) : n.key = k
              /\ k \in DOMAIN new => \E n \in LatestIn(EdgesInto(E2, k[2])) :
                   n.key = k /\ new[k] = [how |-> n.how, edge_at |-> n.at]
  <2> DEFINE N == LatestIn(EdgesInto(E, k[2]))
             M == LatestIn(EdgesInto(E2, k[2]))
  <2>1. /\ k \in DOMAIN t <=> \E n \in N : n.key = k
        /\ k \in DOMAIN t => \E n \in N : n.key = k /\ t[k] = [how |-> n.how, edge_at |-> n.at]
    BY DEF ColumnEdges
  <2>2. CASE k[2] # out
    <3>1. LatestIn(EdgesInto(E2, k[2])) = N /\ k # m.key
      BY <1>1, <2>2
    <3>2. k \in DOMAIN new <=> k \in DOMAIN t
      BY <1>7, <2>2, <3>1
    <3>3. k \in DOMAIN new => new[k] = t[k]
      BY <1>7, <3>1
    <3> QED BY <2>1, <3>1, <3>2, <3>3
  <2>3. CASE k[2] = out /\ ~ Latest(m.at, at)
    <3>1. LatestIn(EdgesInto(E2, k[2])) = N
      BY <1>1, <1>8, <2>3
    <3>2. DOMAIN new = DOMAIN t /\ (k \in DOMAIN new => new[k] = t[k])
      BY <1>7, <2>3
    <3> QED BY <2>1, <3>1, <3>2
  <2>4. CASE k[2] = out /\ Latest(m.at, at)
    <3>1. LatestIn(EdgesInto(E2, k[2])) = IF at = m.at THEN N \cup {m} ELSE {m}
      BY <1>1, <1>8, <2>4
    <3>2. CASE k = m.key
      BY <1>7, <2>4, <3>1, <3>2
    <3>3. CASE k # m.key
      <4>1. k \in DOMAIN new <=> k \in DOMAIN t /\ at = m.at
        BY <1>7, <2>4, <3>3
      <4>2. k \in DOMAIN new => new[k] = t[k]
        BY <1>7, <3>3
      <4>3. m.key # k
        BY <3>3
      <4>4. M = IF at = m.at THEN N \cup {m} ELSE {m}
        BY <3>1
      <4> HIDE DEF M, N
      <4>5. /\ k \in DOMAIN new <=> \E n \in M : n.key = k
            /\ k \in DOMAIN new => \E n \in M :
                 n.key = k /\ new[k] = [how |-> n.how, edge_at |-> n.at]
        <5>1. CASE at = m.at
          BY ONLY <2>1, <4>1, <4>2, <4>3, <4>4, <5>1
        <5>2. CASE at # m.at
          BY ONLY <4>1, <4>3, <4>4, <5>2
        <5> QED BY <5>1, <5>2
      <4> QED BY <4>5 DEF M
    <3> QED BY <3>2, <3>3
  <2> QED BY <2>2, <2>3, <2>4
<1>12. \A k : k \in DOMAIN new <=> \E n \in LatestIn(EdgesInto(E2, k[2])) : n.key = k
  BY <1>11
<1>13. \A k \in DOMAIN new : \E n \in LatestIn(EdgesInto(E2, k[2])) :
         n.key = k /\ new[k] = [how |-> n.how, edge_at |-> n.at]
  BY <1>11
<1>14. \A n \in E2 : LatestIn(EdgesInto(E2, n.key[2])) # {}
  BY <1>10
<1> HIDE DEF E2
<1>15. ColumnEdges(new, E2)
  BY ONLY <1>12, <1>13, <1>14 DEF ColumnEdges
<1> QED BY <1>15 DEF E2

\* Every statement leaves the other rows of its table alone.
Moves(m, old, new) ==
  /\ IF m.op = "NoteNamespace" /\ m.key # ""
     THEN Upserted(new.namespaces, old.namespaces, m.key) ELSE new.namespaces = old.namespaces
  /\ IF m.op = "UpsertJob" \/ (m.op = "SetJobMeta" /\ m.key \in DOMAIN old.jobs)
     THEN Upserted(new.jobs, old.jobs, m.key) ELSE new.jobs = old.jobs
  /\ IF m.op = "UpsertRunState" \/ (m.op = "SetRunMeta" /\ m.key \in DOMAIN old.runs)
     THEN Upserted(new.runs, old.runs, m.key) ELSE new.runs = old.runs
  /\ IF m.op \in {"UpsertDataset", "SetDatasetMeta"}
     THEN Upserted(new.datasets, old.datasets, m.key) ELSE new.datasets = old.datasets
  /\ IF m.op = "UpsertDatasetField"
     THEN Upserted(new.dataset_fields, old.dataset_fields, m.key)
     ELSE new.dataset_fields = old.dataset_fields
  /\ IF m.op = "EmitDatasetVersion"
     THEN Upserted(new.dataset_versions, old.dataset_versions, m.key)
     ELSE new.dataset_versions = old.dataset_versions
  /\ IF m.op = "TagAssignment"
     THEN Upserted(new.tag_assignments, old.tag_assignments, m.key)
     ELSE new.tag_assignments = old.tag_assignments

LEMMA StatementsMove ==
  ASSUME NEW m, NEW old, NEW new, Applies(m, old, new)
  PROVE  Moves(m, old, new)
<1>1. \A t, row : Upserted(With(t, m.key, row), t, m.key)
  BY DEF Upserted, With
<1>2. \A t, row : Upserted(Put(t, m.key, row), t, m.key)
  BY PutTable
<1>3. IF m.op = "NoteNamespace" /\ m.key # ""
      THEN Upserted(new.namespaces, old.namespaces, m.key) ELSE new.namespaces = old.namespaces
  <2>1. new.namespaces = IF m.op = "NoteNamespace" THEN note_namespace(old.namespaces, m)
                         ELSE old.namespaces
    BY DEF Applies
  <2> QED BY <1>2, <2>1 DEF note_namespace
<1>4. IF m.op = "UpsertJob" \/ (m.op = "SetJobMeta" /\ m.key \in DOMAIN old.jobs)
      THEN Upserted(new.jobs, old.jobs, m.key) ELSE new.jobs = old.jobs
  <2>1. /\ m.op = "UpsertJob" => new.jobs = upsert_job(old.jobs, m)
        /\ m.op = "SetJobMeta" => new.jobs = update_meta(old.jobs, m)
        /\ m.op \notin {"UpsertJob", "SetJobMeta"} => new.jobs = old.jobs
    BY DEF Applies
  <2>2. CASE m.op = "UpsertJob"
    BY <1>2, <2>1, <2>2 DEF upsert_job
  <2>3. CASE m.op = "SetJobMeta"
    BY <1>2, <2>1, <2>3 DEF update_meta
  <2> QED BY <2>1, <2>2, <2>3
<1>5. IF m.op = "UpsertRunState" \/ (m.op = "SetRunMeta" /\ m.key \in DOMAIN old.runs)
      THEN Upserted(new.runs, old.runs, m.key) ELSE new.runs = old.runs
  <2>1. /\ m.op = "UpsertRunState" => new.runs = fold_run(old.runs, m)
        /\ m.op = "SetRunMeta" => new.runs = update_meta(old.runs, m)
        /\ m.op \notin {"UpsertRunState", "SetRunMeta"} => new.runs = old.runs
    BY DEF Applies
  <2>2. CASE m.op = "UpsertRunState"
    BY <1>2, <2>1, <2>2 DEF fold_run
  <2>3. CASE m.op = "SetRunMeta"
    BY <1>2, <2>1, <2>3 DEF update_meta
  <2> QED BY <2>1, <2>2, <2>3
<1>6. IF m.op \in {"UpsertDataset", "SetDatasetMeta"}
      THEN Upserted(new.datasets, old.datasets, m.key) ELSE new.datasets = old.datasets
  <2>1. /\ m.op = "UpsertDataset" => new.datasets = note_dataset(old.datasets, m)
        /\ m.op = "SetDatasetMeta" => new.datasets = set_dataset_meta(old.datasets, m)
        /\ m.op \notin {"UpsertDataset", "SetDatasetMeta"} => new.datasets = old.datasets
    BY DEF Applies
  <2>2. CASE m.op = "UpsertDataset"
    BY <1>2, <2>1, <2>2 DEF note_dataset
  <2>3. CASE m.op = "SetDatasetMeta"
    BY <1>2, <2>1, <2>3 DEF set_dataset_meta
  <2> QED BY <2>1, <2>2, <2>3
<1>7. IF m.op = "UpsertDatasetField"
      THEN Upserted(new.dataset_fields, old.dataset_fields, m.key)
      ELSE new.dataset_fields = old.dataset_fields
  <2>1. new.dataset_fields =
          IF m.op = "UpsertDatasetField" THEN upsert_dataset_field(old.dataset_fields, m)
          ELSE old.dataset_fields
    BY DEF Applies
  <2> QED BY <1>1, <2>1 DEF upsert_dataset_field
<1>8. IF m.op = "EmitDatasetVersion"
      THEN Upserted(new.dataset_versions, old.dataset_versions, m.key)
      ELSE new.dataset_versions = old.dataset_versions
  <2>1. /\ m.op = "EmitDatasetVersion" =>
             \E row : new.dataset_versions = insert_once(old.dataset_versions, m.key, row)
        /\ m.op # "EmitDatasetVersion" => new.dataset_versions = old.dataset_versions
    BY DEF Applies
  <2> QED BY <1>1, <2>1 DEF insert_once
<1>9. IF m.op = "TagAssignment"
      THEN Upserted(new.tag_assignments, old.tag_assignments, m.key)
      ELSE new.tag_assignments = old.tag_assignments
  <2>1. new.tag_assignments = IF m.op = "TagAssignment" THEN tag_assignment(old.tag_assignments, m)
                              ELSE old.tag_assignments
    BY DEF Applies
  <2> QED BY <1>1, <2>1 DEF tag_assignment
<1> QED BY <1>3, <1>4, <1>5, <1>6, <1>7, <1>8, <1>9 DEF Moves

\* The updates of s find their rows.
Behind(s, update, upsert, rows) ==
  \A i \in DOMAIN s : s[i].op = update =>
    \/ s[i].key \in rows
    \/ \E j \in 1..(i - 1) : s[j].op = upsert /\ s[j].key = s[i].key

\* An update finds its row, also after the step.
LEMMA RowsFirstMoves ==
  ASSUME Mutations, Apply, NEW m, m = Head(todo), NEW update \in Ops, NEW upsert,
         NEW rows, NEW rows2, RowsFirst(update, upsert, rows), rows \subseteq rows2,
         m.op = upsert => m.key \in rows2
  PROVE  /\ m.op = update => m.key \in rows
         /\ KeysOf(update)' \subseteq rows2
         /\ Behind(todo', update, upsert, rows2)
<1>1. /\ m.op \in Ops /\ DOMAIN todo = 1..Len(todo) /\ Len(todo) \in Nat /\ todo[1] = m
      /\ 1 \in DOMAIN todo /\ DOMAIN todo' = 1..(Len(todo) - 1)
      /\ \A i \in DOMAIN todo' : todo'[i] = todo[i + 1] /\ i + 1 \in DOMAIN todo
      /\ \A op \in Ops : applied'[op] = IF op = m.op THEN applied[op] \cup {m} ELSE applied[op]
  BY StepOfApply
<1>2. /\ KeysOf(update) \subseteq rows
      /\ \A i \in DOMAIN todo : todo[i].op = update =>
           \/ todo[i].key \in rows
           \/ \E j \in 1..(i - 1) : todo[j].op = upsert /\ todo[j].key = todo[i].key
  BY DEF RowsFirst
<1>3. ASSUME m.op = update
      PROVE  m.key \in rows
  BY <1>1, <1>2, <1>3
<1>4. KeysOf(update)' = IF update = m.op THEN KeysOf(update) \cup {m.key} ELSE KeysOf(update)
  BY <1>1, Grow
<1>5. KeysOf(update)' \subseteq rows2
  BY <1>2, <1>3, <1>4
<1>6. ASSUME NEW i \in DOMAIN todo', todo'[i].op = update
      PROVE  \/ todo'[i].key \in rows2
             \/ \E j \in 1..(i - 1) : todo'[j].op = upsert /\ todo'[j].key = todo'[i].key
  <2>1. i \in Nat /\ i + 1 \in DOMAIN todo /\ todo[i + 1] = todo'[i]
    BY <1>1, <1>6
  <2>2. CASE todo[i + 1].key \in rows
    BY <2>1, <2>2
  <2>3. CASE todo[i + 1].key \notin rows
    <3>1. PICK j \in 1..((i + 1) - 1) : todo[j].op = upsert /\ todo[j].key = todo[i + 1].key
      BY <1>2, <1>6, <2>1, <2>3
    <3>2. CASE j = 1
      BY <1>1, <2>1, <3>1, <3>2
    <3>3. CASE j # 1
      <4>1. j - 1 \in 1..(i - 1) /\ j - 1 \in DOMAIN todo' /\ (j - 1) + 1 = j
        BY <1>1, <2>1, <3>1, <3>3
      <4>2. todo'[j - 1] = todo[j]
        BY <1>1, <4>1
      <4> QED BY <2>1, <3>1, <4>1, <4>2
    <3> QED BY <3>2, <3>3
  <2> QED BY <2>2, <2>3
<1>7. Behind(todo', update, upsert, rows2)
  BY <1>6 DEF Behind
<1> QED BY <1>3, <1>5, <1>7

LEMMA RowsFirstApply ==
  ASSUME Mutations, Apply, NEW update \in Ops, NEW upsert \in Ops,
         NEW rows, rows = KeysOf(upsert), NEW rows2, rows2 = KeysOf(upsert)',
         RowsFirst(update, upsert, rows)
  PROVE  KeysOf(update)' \subseteq rows2 /\ Behind(todo', update, upsert, rows2)
<1>1. PICK m : m = Head(todo)
  OBVIOUS
<1>2. /\ m.op \in Ops
      /\ \A op \in Ops : applied'[op] = IF op = m.op THEN applied[op] \cup {m} ELSE applied[op]
  BY <1>1, StepOfApply
<1>3. rows2 = IF upsert = m.op THEN rows \cup {m.key} ELSE rows
  BY <1>2, Grow
<1>4. rows \subseteq rows2 /\ (m.op = upsert => m.key \in rows2)
  BY <1>3
<1> QED BY <1>1, <1>4, RowsFirstMoves

\* The tables get the rows of the applied mutations.
LEMMA ApplyTableKeys ==
  ASSUME Mutations, TableKeys, Apply, NEW m, m = Head(todo)
  PROVE  TableKeys'
<1>1. /\ m.op \in Ops /\ DOMAIN db = DOMAIN Empty /\ db' = apply(db, m)
      /\ \A op \in Ops : applied'[op] = IF op = m.op THEN applied[op] \cup {m} ELSE applied[op]
  BY StepOfApply DEF Mutations, Apply
<1>2. Applies(m, db, db')
  BY <1>1, TablesOfApply
<1>3. Moves(m, db, db')
  BY <1>2, StatementsMove
<1>4. \A op \in Ops : KeysOf(op)' = IF op = m.op THEN KeysOf(op) \cup {m.key} ELSE KeysOf(op)
  BY <1>1, Grow
<1>5. DOMAIN db'.namespaces = KeysOf("NoteNamespace")' \ {""}
  <2>1. KeysOf("NoteNamespace")' = IF "NoteNamespace" = m.op THEN KeysOf("NoteNamespace") \cup {m.key}
                                   ELSE KeysOf("NoteNamespace")
    BY <1>4 DEF Ops
  <2>2. IF m.op = "NoteNamespace" /\ m.key # ""
        THEN Upserted(db'.namespaces, db.namespaces, m.key) ELSE db'.namespaces = db.namespaces
    BY <1>3 DEF Moves
  <2>3. DOMAIN db.namespaces = KeysOf("NoteNamespace") \ {""}
    BY DEF TableKeys
  <2> QED BY <2>1, <2>2, <2>3 DEF Upserted
<1>6. DOMAIN db'.jobs = KeysOf("UpsertJob")'
  <2>1. KeysOf("UpsertJob")' = IF "UpsertJob" = m.op THEN KeysOf("UpsertJob") \cup {m.key}
                              ELSE KeysOf("UpsertJob")
    BY <1>4 DEF Ops
  <2>2. IF m.op = "UpsertJob" \/ (m.op = "SetJobMeta" /\ m.key \in DOMAIN db.jobs)
        THEN Upserted(db'.jobs, db.jobs, m.key) ELSE db'.jobs = db.jobs
    BY <1>3 DEF Moves
  <2>3. DOMAIN db.jobs = KeysOf("UpsertJob")
    BY DEF TableKeys
  <2> QED BY <2>1, <2>2, <2>3 DEF Upserted
<1>7. DOMAIN db'.runs = KeysOf("UpsertRunState")'
  <2>1. KeysOf("UpsertRunState")' = IF "UpsertRunState" = m.op THEN KeysOf("UpsertRunState") \cup {m.key}
                              ELSE KeysOf("UpsertRunState")
    BY <1>4 DEF Ops
  <2>2. IF m.op = "UpsertRunState" \/ (m.op = "SetRunMeta" /\ m.key \in DOMAIN db.runs)
        THEN Upserted(db'.runs, db.runs, m.key) ELSE db'.runs = db.runs
    BY <1>3 DEF Moves
  <2>3. DOMAIN db.runs = KeysOf("UpsertRunState")
    BY DEF TableKeys
  <2> QED BY <2>1, <2>2, <2>3 DEF Upserted
<1>8. DOMAIN db'.datasets = KeysOf("UpsertDataset")' \cup KeysOf("SetDatasetMeta")'
  <2>1. /\ KeysOf("UpsertDataset")' = IF "UpsertDataset" = m.op
                                      THEN KeysOf("UpsertDataset") \cup {m.key}
                                      ELSE KeysOf("UpsertDataset")
        /\ KeysOf("SetDatasetMeta")' = IF "SetDatasetMeta" = m.op
                                       THEN KeysOf("SetDatasetMeta") \cup {m.key}
                                       ELSE KeysOf("SetDatasetMeta")
    BY <1>4 DEF Ops
  <2>2. IF m.op \in {"UpsertDataset", "SetDatasetMeta"}
        THEN Upserted(db'.datasets, db.datasets, m.key) ELSE db'.datasets = db.datasets
    BY <1>3 DEF Moves
  <2>3. DOMAIN db.datasets = KeysOf("UpsertDataset") \cup KeysOf("SetDatasetMeta")
    BY DEF TableKeys
  <2>4. CASE m.op = "UpsertDataset"
    BY <2>1, <2>2, <2>3, <2>4 DEF Upserted
  <2>5. CASE m.op = "SetDatasetMeta"
    BY <2>1, <2>2, <2>3, <2>5 DEF Upserted
  <2>6. CASE m.op \notin {"UpsertDataset", "SetDatasetMeta"}
    BY <2>1, <2>2, <2>3, <2>6
  <2> QED BY <2>4, <2>5, <2>6
<1>9. db'.lineage_edges = KeysOf("UpsertLineageEdge")' /\ db'.tags = KeysOf("UpsertTag")'
  <2>1. /\ db'.lineage_edges = IF m.op = "UpsertLineageEdge" THEN db.lineage_edges \cup {m.key}
                               ELSE db.lineage_edges
        /\ db'.tags = IF m.op = "UpsertTag" THEN db.tags \cup {m.key} ELSE db.tags
    BY <1>2 DEF Applies
  <2>2. /\ KeysOf("UpsertLineageEdge")' = IF "UpsertLineageEdge" = m.op
                                          THEN KeysOf("UpsertLineageEdge") \cup {m.key}
                                          ELSE KeysOf("UpsertLineageEdge")
        /\ KeysOf("UpsertTag")' = IF "UpsertTag" = m.op THEN KeysOf("UpsertTag") \cup {m.key}
                                  ELSE KeysOf("UpsertTag")
    BY <1>4 DEF Ops
  <2>3. db.lineage_edges = KeysOf("UpsertLineageEdge") /\ db.tags = KeysOf("UpsertTag")
    BY DEF TableKeys
  <2> QED BY <2>1, <2>2, <2>3
<1>10. DOMAIN db'.dataset_fields = KeysOf("UpsertDatasetField")'
  <2>1. KeysOf("UpsertDatasetField")' = IF "UpsertDatasetField" = m.op THEN KeysOf("UpsertDatasetField") \cup {m.key}
                              ELSE KeysOf("UpsertDatasetField")
    BY <1>4 DEF Ops
  <2>2. IF m.op = "UpsertDatasetField"
        THEN Upserted(db'.dataset_fields, db.dataset_fields, m.key)
        ELSE db'.dataset_fields = db.dataset_fields
    BY <1>3 DEF Moves
  <2>3. DOMAIN db.dataset_fields = KeysOf("UpsertDatasetField")
    BY DEF TableKeys
  <2> QED BY <2>1, <2>2, <2>3 DEF Upserted
<1>11. DOMAIN db'.dataset_versions = KeysOf("EmitDatasetVersion")'
  <2>1. KeysOf("EmitDatasetVersion")' = IF "EmitDatasetVersion" = m.op THEN KeysOf("EmitDatasetVersion") \cup {m.key}
                              ELSE KeysOf("EmitDatasetVersion")
    BY <1>4 DEF Ops
  <2>2. IF m.op = "EmitDatasetVersion"
        THEN Upserted(db'.dataset_versions, db.dataset_versions, m.key)
        ELSE db'.dataset_versions = db.dataset_versions
    BY <1>3 DEF Moves
  <2>3. DOMAIN db.dataset_versions = KeysOf("EmitDatasetVersion")
    BY DEF TableKeys
  <2> QED BY <2>1, <2>2, <2>3 DEF Upserted
<1>12. DOMAIN db'.tag_assignments = KeysOf("TagAssignment")'
  <2>1. KeysOf("TagAssignment")' = IF "TagAssignment" = m.op THEN KeysOf("TagAssignment") \cup {m.key}
                              ELSE KeysOf("TagAssignment")
    BY <1>4 DEF Ops
  <2>2. IF m.op = "TagAssignment"
        THEN Upserted(db'.tag_assignments, db.tag_assignments, m.key)
        ELSE db'.tag_assignments = db.tag_assignments
    BY <1>3 DEF Moves
  <2>3. DOMAIN db.tag_assignments = KeysOf("TagAssignment")
    BY DEF TableKeys
  <2> QED BY <2>1, <2>2, <2>3 DEF Upserted
<1> QED BY <1>5, <1>6, <1>7, <1>8, <1>9, <1>10, <1>11, <1>12 DEF TableKeys

\* The jobs' rows keep up with the applied mutations.
Jobs == \A j \in DOMAIN db.jobs : JobRow(db.jobs[j], CarryingEdges(j), JobMetas(j))

LEMMA JobsAsRows == Jobs <=> JobRows /\ JobEdgesAreLatest /\ JobMetaIsShown
<1>1. ASSUME NEW row, NEW C, NEW S
      PROVE  JobRow(row, C, S) <=>
               /\ /\ DOMAIN row = DOMAIN FreshJob(0)
                  /\ Stamp(C, row.edges_at) /\ Stamp(S, row.meta_at)
               /\ IF C = {} THEN row.inputs = << >> /\ row.outputs = << >>
                  ELSE \E m \in LatestIn(C) :
                         /\ row.inputs = m.edges.inputs /\ row.outputs = m.edges.outputs
                         /\ row.edges_at = m.at
               /\ /\ Shows(row, LatestIn(S) \ Upserts(LatestIn(S)))
                  /\ Upserts(LatestIn(S)) # {} => \E m \in Upserts(LatestIn(S)) :
                       row.description = m.description /\ row.tags = m.tags
  BY DEF JobRow
<1> QED BY <1>1 DEF Jobs, JobRows, JobEdgesAreLatest, JobMetaIsShown

LEMMA ApplyJobs ==
  ASSUME Mutations, TableKeys, Jobs, RowsFirst("SetJobMeta", "UpsertJob", DOMAIN db.jobs), Apply
  PROVE  Jobs'
<1>1. SUFFICES ASSUME NEW j, NEW t, t = db.jobs, NEW t2, t2 = db'.jobs, NEW m, m = Head(todo),
                      NEW C, C = CarryingEdges(j), NEW S, S = JobMetas(j),
                      NEW C2, C2 = CarryingEdges(j)', NEW S2, S2 = JobMetas(j)', j \in DOMAIN t2
               PROVE  JobRow(t2[j], C2, S2)
  BY DEF Jobs
<1>2. /\ m.op \in Ops /\ DOMAIN db = DOMAIN Empty /\ db' = apply(db, m) /\ WellFormed(m)
      /\ \A op \in Ops : applied'[op] = IF op = m.op THEN applied[op] \cup {m} ELSE applied[op]
  BY <1>1, StepOfApply DEF Mutations, Apply
<1>3. Applies(m, db, db') /\ Moves(m, db, db')
  BY <1>2, TablesOfApply, StatementsMove
<1>4. /\ Of("UpsertJob", j)' = IF "UpsertJob" = m.op /\ j = m.key THEN Of("UpsertJob", j) \cup {m}
                               ELSE Of("UpsertJob", j)
      /\ Of("SetJobMeta", j)' = IF "SetJobMeta" = m.op /\ j = m.key
                                THEN Of("SetJobMeta", j) \cup {m} ELSE Of("SetJobMeta", j)
  <2>1. "UpsertJob" \in Ops /\ "SetJobMeta" \in Ops
    BY DEF Ops
  <2> QED BY <1>2, <2>1, Grow
<1>5. C2 = IF "UpsertJob" = m.op /\ j = m.key /\ m.edges # Null THEN C \cup {m} ELSE C
  BY <1>1, <1>4 DEF CarryingEdges
<1>6. S2 = IF /\ j = m.key
              /\ "SetJobMeta" = m.op \/ ("UpsertJob" = m.op /\ m.tags # Null)
           THEN S \cup {m} ELSE S
  BY <1>1, <1>4 DEF JobMetas
<1>7. (\A n \in C : n.at \in Int) /\ JobMetaKinds(S)
  <2>1. \A op \in {"UpsertJob", "SetJobMeta"} : \A n \in applied[op] :
          n.op = op /\ WellFormed(n)
    BY DEF Mutations, Sent, Ops
  <2>2. /\ \A n \in C : n \in applied["UpsertJob"]
        /\ \A n \in S : n \in applied["UpsertJob"] \/ n \in applied["SetJobMeta"]
    BY <1>1 DEF CarryingEdges, JobMetas, Of
  <2>3. \A n \in C : n.at \in Int
    BY <2>1, <2>2 DEF WellFormed
  <2>4. JobMetaKinds(S)
    BY <2>1, <2>2 DEF WellFormed, JobMetaKinds
  <2> QED BY <2>3, <2>4
<1>8. /\ j \in DOMAIN t => JobRow(t[j], C, S)
      /\ j \notin DOMAIN t => C = {} /\ S = {}
  <2>1. ASSUME j \notin DOMAIN t
        PROVE  Of("UpsertJob", j) = {} /\ Of("SetJobMeta", j) = {}
    <3>1. j \notin KeysOf("UpsertJob") /\ j \notin KeysOf("SetJobMeta")
      BY <1>1, <2>1 DEF TableKeys, RowsFirst
    <3> QED BY <3>1 DEF KeysOf, Of
  <2>2. j \in DOMAIN t => JobRow(t[j], C, S)
    BY <1>1 DEF Jobs
  <2>3. j \notin DOMAIN t => C = {} /\ S = {}
    BY <1>1, <2>1 DEF CarryingEdges, JobMetas
  <2> QED BY <2>2, <2>3
<1>9. m.op = "SetJobMeta" => m.key \in DOMAIN t
  <2>1. "SetJobMeta" \in Ops /\ ("SetJobMeta" # "UpsertJob")
    BY DEF Ops
  <2> QED BY <1>1, <2>1, RowsFirstMoves
<1>10. IF m.op \in {"UpsertJob", "SetJobMeta"} THEN Upserted(t2, t, m.key) ELSE t2 = t
  <2>1. IF m.op = "UpsertJob" \/ (m.op = "SetJobMeta" /\ m.key \in DOMAIN t)
        THEN Upserted(t2, t, m.key) ELSE t2 = t
    BY <1>1, <1>3 DEF Moves
  <2> QED BY <1>9, <2>1
<1>11. CASE m.op = "UpsertJob" /\ j = m.key
  <2> DEFINE old == RowOf(t, m.key, FreshJob(m.at))
  <2>1. JobRow(old, C, S)
    BY <1>8, <1>11, FreshJobRow DEF RowOf
  <2>2. t2 = upsert_job(t, m)
    BY <1>1, <1>3, <1>11 DEF Applies
  <2>3. JobRow(t2[m.key], IF m.edges # Null THEN C \cup {m} ELSE C,
               IF m.tags # Null THEN S \cup {m} ELSE S)
    BY <1>2, <1>7, <1>11, <2>1, <2>2, ReadModelAssumption, UpsertJobRow
  <2> QED BY <1>5, <1>6, <1>11, <2>3
<1>12. CASE m.op = "SetJobMeta" /\ j = m.key
  <2>1. t2 = update_meta(t, m)
    BY <1>1, <1>3, <1>12 DEF Applies
  <2>2. t2 = Put(t, m.key, SetMeta(t[m.key], m))
    BY <1>9, <1>12, <2>1 DEF update_meta
  <2> DEFINE old == t[m.key]
             new == t2[m.key]
             row == SetMeta(old, m)
  <2>3. JobRow(old, C, S)
    BY <1>8, <1>9, <1>12
  <2>4. DOMAIN old = JobColumns
    BY <2>3, FreshJobRow DEF JobRow
  <2>5. DOMAIN row = DOMAIN old
    <3>1. "meta_at" \in DOMAIN old /\ "meta_at" \notin DOMAIN m.meta
      BY <1>2, <1>12, <2>4 DEF JobColumns, WellFormed
    <3> QED BY <3>1, SetMetaColumns
  <2>6. /\ DOMAIN new = DOMAIN row
        /\ \A c \in DOMAIN row : c # "updated_at" => new[c] = row[c]
    BY <2>2, PutRow
  <2>7. JobRow(new, C, S \cup {m})
    BY <1>2, <1>7, <1>12, <2>3, <2>5, <2>6, ReadModelAssumption, SetJobMetaRow
  <2> QED BY <1>5, <1>6, <1>12, <2>7
<1>13. CASE ~ (m.op \in {"UpsertJob", "SetJobMeta"} /\ j = m.key)
  <2>1. C2 = C /\ S2 = S
    BY <1>5, <1>6, <1>13
  <2>2. j \in DOMAIN t /\ t2[j] = t[j]
    <3>1. CASE m.op \in {"UpsertJob", "SetJobMeta"}
      BY <1>1, <1>10, <1>13, <3>1 DEF Upserted
    <3>2. CASE m.op \notin {"UpsertJob", "SetJobMeta"}
      BY <1>1, <1>10, <3>2
    <3> QED BY <3>1, <3>2
  <2> QED BY <1>8, <2>1, <2>2
<1> QED BY <1>11, <1>12, <1>13

\* The datasets' rows keep up with the applied mutations.
Datasets ==
  \A d \in DOMAIN db.datasets :
    DatasetRow(db.datasets[d], CarryingSchema(d), Of("SetDatasetMeta", d))

Fields == \A f \in DOMAIN db.dataset_fields :
            FieldRow(db.dataset_fields[f], Of("UpsertDatasetField", f))

LEMMA DatasetsAsRows ==
  Datasets /\ Fields <=> DatasetRows /\ SchemaOfMutations /\ DatasetMetaIsShown
<1>1. ASSUME NEW row, NEW C, NEW S
      PROVE  DatasetRow(row, C, S) <=>
               /\ /\ DOMAIN row = DOMAIN FreshDataset(0)
                  /\ Stamp(C, row.schema_at) /\ Stamp(S, row.meta_at)
               /\ IF C = {} THEN row.fields = << >> ELSE \E m \in LatestIn(C) : row.fields = m.fields
               /\ Shows(row, LatestIn(S))
  BY DEF DatasetRow
<1> QED BY <1>1 DEF Datasets, Fields, FieldRow, DatasetRows, SchemaOfMutations, DatasetMetaIsShown

LEMMA ApplyDatasets ==
  ASSUME Mutations, TableKeys, Datasets, Apply
  PROVE  Datasets'
<1>1. SUFFICES ASSUME NEW d, NEW t, t = db.datasets, NEW t2, t2 = db'.datasets,
                      NEW m, m = Head(todo),
                      NEW C, C = CarryingSchema(d), NEW S, S = Of("SetDatasetMeta", d),
                      NEW C2, C2 = CarryingSchema(d)', NEW S2, S2 = Of("SetDatasetMeta", d)',
                      d \in DOMAIN t2
               PROVE  DatasetRow(t2[d], C2, S2)
  BY DEF Datasets
<1>2. /\ m.op \in Ops /\ DOMAIN db = DOMAIN Empty /\ db' = apply(db, m) /\ WellFormed(m)
      /\ \A op \in Ops : applied'[op] = IF op = m.op THEN applied[op] \cup {m} ELSE applied[op]
  BY <1>1, StepOfApply DEF Mutations, Apply
<1>3. Applies(m, db, db') /\ Moves(m, db, db')
  BY <1>2, TablesOfApply, StatementsMove
<1>4. /\ Of("UpsertDataset", d)' = IF "UpsertDataset" = m.op /\ d = m.key
                                   THEN Of("UpsertDataset", d) \cup {m} ELSE Of("UpsertDataset", d)
      /\ Of("SetDatasetMeta", d)' = IF "SetDatasetMeta" = m.op /\ d = m.key
                                    THEN Of("SetDatasetMeta", d) \cup {m}
                                    ELSE Of("SetDatasetMeta", d)
  <2>1. "UpsertDataset" \in Ops /\ "SetDatasetMeta" \in Ops
    BY DEF Ops
  <2> QED BY <1>2, <2>1, Grow
<1>5. C2 = IF "UpsertDataset" = m.op /\ d = m.key /\ m.fields \notin {Null, << >>}
           THEN C \cup {m} ELSE C
  BY <1>1, <1>4 DEF CarryingSchema
<1>6. S2 = IF "SetDatasetMeta" = m.op /\ d = m.key THEN S \cup {m} ELSE S
  BY <1>1, <1>4
<1>7. /\ \A n \in C : n.at \in Int
      /\ \A n \in S : n.at \in Int
      /\ \A n \in S : DOMAIN n.meta = {"description", "source_name", "deleted"}
  <2>1. \A op \in {"UpsertDataset", "SetDatasetMeta"} : \A n \in applied[op] :
          n.op = op /\ WellFormed(n)
    BY DEF Mutations, Sent, Ops
  <2>2. /\ \A n \in C : n \in applied["UpsertDataset"]
        /\ \A n \in S : n \in applied["SetDatasetMeta"]
    BY <1>1 DEF CarryingSchema, Of
  <2> QED BY <2>1, <2>2 DEF WellFormed
<1>8. /\ d \in DOMAIN t => DatasetRow(t[d], C, S)
      /\ d \notin DOMAIN t => C = {} /\ S = {}
  <2>1. ASSUME d \notin DOMAIN t
        PROVE  Of("UpsertDataset", d) = {} /\ Of("SetDatasetMeta", d) = {}
    <3>1. d \notin KeysOf("UpsertDataset") /\ d \notin KeysOf("SetDatasetMeta")
      BY <1>1, <2>1 DEF TableKeys
    <3> QED BY <3>1 DEF KeysOf, Of
  <2>2. d \in DOMAIN t => DatasetRow(t[d], C, S)
    BY <1>1 DEF Datasets
  <2>3. d \notin DOMAIN t => C = {} /\ S = {}
    BY <1>1, <2>1 DEF CarryingSchema
  <2> QED BY <2>2, <2>3
<1>9. IF m.op \in {"UpsertDataset", "SetDatasetMeta"} THEN Upserted(t2, t, m.key) ELSE t2 = t
  BY <1>1, <1>3 DEF Moves
<1> DEFINE old == RowOf(t, m.key, FreshDataset(m.at))
<1>10. d = m.key => DatasetRow(old, C, S)
  BY <1>8, FreshDatasetRow DEF RowOf
<1>11. CASE m.op = "UpsertDataset" /\ d = m.key
  <2>1. t2 = note_dataset(t, m)
    BY <1>1, <1>3, <1>11 DEF Applies
  <2>2. old = RowOf(t, m.key, FreshDataset(m.at)) /\ DatasetRow(old, C, S)
    BY <1>10, <1>11
  <2> HIDE DEF old
  <2>3. C2 = IF m.fields \notin {Null, << >>} THEN C \cup {m} ELSE C
    BY <1>5, <1>11
  <2>4. DatasetRow(t2[m.key], C2, S)
    <3>1. SUFFICES ASSUME NEW new, new = t2[m.key], NEW row, row = old
                   PROVE  DatasetRow(new, C2, S)
      OBVIOUS
    <3>2. /\ row = RowOf(t, m.key, FreshDataset(m.at)) /\ DatasetRow(row, C, S)
          /\ new = note_dataset(t, m)[m.key] /\ WellFormed(m) /\ m.op = "UpsertDataset"
      BY <1>2, <1>11, <2>1, <2>2, <3>1
    <3>3. Null \notin Int
      BY ReadModelAssumption
    <3> QED BY ONLY <1>7, <2>3, <3>2, <3>3, UpsertDatasetRow
  <2> QED BY <1>6, <1>11, <2>4
<1>12. CASE m.op = "SetDatasetMeta" /\ d = m.key
  <2>1. t2 = set_dataset_meta(t, m)
    BY <1>1, <1>3, <1>12 DEF Applies
  <2> DEFINE new == t2[m.key]
             row == SetMeta(old, m)
  <2>2. t2 = Put(t, m.key, row)
    BY <2>1 DEF set_dataset_meta
  <2>3. DatasetRow(old, C, S) /\ DOMAIN old = DatasetColumns
    BY <1>10, <1>12, FreshDatasetRow DEF DatasetRow
  <2> HIDE DEF old
  <2>4. DOMAIN row = DOMAIN old
    <3>1. "meta_at" \in DOMAIN old /\ "meta_at" \notin DOMAIN m.meta
      BY <1>2, <1>12, <2>3 DEF DatasetColumns, WellFormed
    <3> QED BY <3>1, SetMetaColumns
  <2>5. /\ DOMAIN new = DOMAIN row
        /\ \A c \in DOMAIN row : c # "updated_at" => new[c] = row[c]
    BY <2>2, PutRow
  <2>6. DatasetRow(new, C, S \cup {m})
    BY <1>2, <1>7, <1>12, <2>3, <2>4, <2>5, ReadModelAssumption, SetDatasetMetaRow
  <2> QED BY <1>5, <1>6, <1>12, <2>6
<1>13. CASE ~ (m.op \in {"UpsertDataset", "SetDatasetMeta"} /\ d = m.key)
  <2>1. C2 = C /\ S2 = S
    BY <1>5, <1>6, <1>13
  <2>2. d \in DOMAIN t /\ t2[d] = t[d]
    <3>1. CASE m.op \in {"UpsertDataset", "SetDatasetMeta"}
      BY <1>1, <1>9, <1>13, <3>1 DEF Upserted
    <3>2. CASE m.op \notin {"UpsertDataset", "SetDatasetMeta"}
      BY <1>1, <1>9, <3>2
    <3> QED BY <3>1, <3>2
  <2> QED BY <1>8, <2>1, <2>2
<1> QED BY <1>11, <1>12, <1>13

LEMMA ApplyFields ==
  ASSUME Mutations, TableKeys, Fields, Apply
  PROVE  Fields'
<1>1. SUFFICES ASSUME NEW f, NEW t, t = db.dataset_fields, NEW t2, t2 = db'.dataset_fields,
                      NEW m, m = Head(todo), NEW S, S = Of("UpsertDatasetField", f),
                      NEW S2, S2 = Of("UpsertDatasetField", f)', f \in DOMAIN t2
               PROVE  FieldRow(t2[f], S2)
  BY DEF Fields
<1>2. /\ m.op \in Ops /\ DOMAIN db = DOMAIN Empty /\ db' = apply(db, m) /\ WellFormed(m)
      /\ \A op \in Ops : applied'[op] = IF op = m.op THEN applied[op] \cup {m} ELSE applied[op]
  BY <1>1, StepOfApply DEF Mutations, Apply
<1>3. Applies(m, db, db') /\ Moves(m, db, db')
  BY <1>2, TablesOfApply, StatementsMove
<1>4. S2 = IF "UpsertDatasetField" = m.op /\ f = m.key THEN S \cup {m} ELSE S
  <2>1. "UpsertDatasetField" \in Ops
    BY DEF Ops
  <2> QED BY <1>1, <1>2, <2>1, Grow
<1>5. \A n \in S : n.at \in Int
  <2>1. \A n \in applied["UpsertDatasetField"] : n.op = "UpsertDatasetField" /\ WellFormed(n)
    BY DEF Mutations, Sent, Ops
  <2> QED BY <1>1, <2>1 DEF WellFormed, Of
<1>6. /\ f \in DOMAIN t => FieldRow(t[f], S)
      /\ f \notin DOMAIN t => S = {}
  <2>1. f \in DOMAIN t => FieldRow(t[f], S)
    BY <1>1 DEF Fields
  <2>2. ASSUME f \notin DOMAIN t
        PROVE  S = {}
    <3>1. f \notin KeysOf("UpsertDatasetField")
      BY <1>1, <2>2 DEF TableKeys
    <3> QED BY <1>1, <3>1 DEF KeysOf, Of
  <2> QED BY <2>1, <2>2
<1>7. CASE m.op = "UpsertDatasetField" /\ f = m.key
  <2>1. t2 = upsert_dataset_field(t, m)
    BY <1>1, <1>3, <1>7 DEF Applies
  <2>2. m.at \in Int
    BY <1>2, <1>7 DEF WellFormed
  <2>3. IF m.key \in DOMAIN t THEN FieldRow(t[m.key], S) ELSE S = {}
    BY <1>6, <1>7
  <2>4. FieldRow(t2[m.key], S \cup {m})
    BY <1>5, <2>1, <2>2, <2>3, ReadModelAssumption, UpsertDatasetFieldRow
  <2> QED BY <1>4, <1>7, <2>4
<1>8. CASE ~ (m.op = "UpsertDatasetField" /\ f = m.key)
  <2>1. IF m.op = "UpsertDatasetField" THEN Upserted(t2, t, m.key) ELSE t2 = t
    BY <1>1, <1>3 DEF Moves
  <2>2. f \in DOMAIN t /\ t2[f] = t[f]
    BY <1>1, <1>8, <2>1 DEF Upserted
  <2> QED BY <1>4, <1>6, <1>8, <2>2
<1> QED BY <1>7, <1>8

\* The runs' rows keep up with the applied mutations.
Runs == \A r \in DOMAIN db.runs : RunRow(db.runs[r], Of("UpsertRunState", r))

LEMMA RunsAsRows == Runs <=> RunRows /\ RunIsAsFarAsAnyEventSays
<1>1. ASSUME NEW row, NEW U
      PROVE  RunRow(row, U) <=>
               LET ranks == {state_rank(IF m.state = Null THEN "NEW" ELSE m.state) : m \in U}
               IN /\ DOMAIN row = RunColumns /\ \E m \in U : row.job = m.job
                  /\ /\ state_rank(row.state) \in ranks
                     /\ \A n \in ranks : n <= state_rank(row.state)
                     /\ (row.ended_at # Null) = (state_rank(row.state) = 2)
  BY DEF RunRow
<1> QED BY <1>1 DEF Runs, RunRows, RunIsAsFarAsAnyEventSays

\* What a SetRunMeta and an UpsertRunState do to the runs.
LEMMA RunStep ==
  ASSUME Mutations, TableKeys, Runs, Apply, NEW m, m = Head(todo), NEW r,
         NEW t, t = db.runs, NEW t2, t2 = db'.runs, r \in DOMAIN t2,
         NEW U, U = Of("UpsertRunState", r)
  PROVE  /\ m.op = "UpsertRunState" /\ r = m.key =>
              \E old : /\ old = RowOf(t, m.key, FreshRun(m))
                       /\ IF r \in DOMAIN t THEN RunRow(old, U) ELSE U = {}
                       /\ t2 = fold_run(t, m)
         /\ m.op = "SetRunMeta" /\ r = m.key =>
              r \in DOMAIN t /\ t2 = Put(t, m.key, SetMeta(t[m.key], m))
         /\ ~ (m.op \in {"UpsertRunState", "SetRunMeta"} /\ r = m.key) =>
              r \in DOMAIN t /\ t2[r] = t[r]
         /\ r \in DOMAIN t => RunRow(t[r], U)
<1>1. /\ m.op \in Ops /\ DOMAIN db = DOMAIN Empty /\ db' = apply(db, m)
  BY StepOfApply DEF Mutations, Apply
<1>2. Applies(m, db, db') /\ Moves(m, db, db')
  BY <1>1, TablesOfApply, StatementsMove
<1>3. /\ r \in DOMAIN t => RunRow(t[r], U)
      /\ r \notin DOMAIN t => U = {}
  <2>1. r \in DOMAIN t => RunRow(t[r], U)
    BY DEF Runs
  <2>2. ASSUME r \notin DOMAIN t
        PROVE  U = {}
    <3>1. r \notin KeysOf("UpsertRunState")
      BY <2>2 DEF TableKeys
    <3> QED BY <3>1 DEF KeysOf, Of
  <2> QED BY <2>1, <2>2
<1>4. IF m.op = "UpsertRunState" \/ (m.op = "SetRunMeta" /\ m.key \in DOMAIN t)
      THEN Upserted(t2, t, m.key) ELSE t2 = t
  BY <1>2 DEF Moves
<1>5. ASSUME m.op = "UpsertRunState", r = m.key
      PROVE  \E old : /\ old = RowOf(t, m.key, FreshRun(m))
                      /\ IF r \in DOMAIN t THEN RunRow(old, U) ELSE U = {}
                      /\ t2 = fold_run(t, m)
  <2>1. t2 = fold_run(t, m)
    BY <1>2, <1>5 DEF Applies
  <2>2. r \in DOMAIN t => RowOf(t, m.key, FreshRun(m)) = t[r]
    BY <1>5 DEF RowOf
  <2> QED BY <1>3, <2>1, <2>2
<1>6. ASSUME m.op = "SetRunMeta", r = m.key
      PROVE  r \in DOMAIN t /\ t2 = Put(t, m.key, SetMeta(t[m.key], m))
  <2>1. t2 = update_meta(t, m)
    BY <1>2, <1>6 DEF Applies
  <2>2. r \in DOMAIN t
    BY <1>4, <1>6
  <2> QED BY <1>6, <2>1, <2>2 DEF update_meta
<1>7. ASSUME ~ (m.op \in {"UpsertRunState", "SetRunMeta"} /\ r = m.key)
      PROVE  r \in DOMAIN t /\ t2[r] = t[r]
  <2>1. CASE m.op \in {"UpsertRunState", "SetRunMeta"}
    BY <1>4, <1>7, <2>1 DEF Upserted
  <2>2. CASE m.op \notin {"UpsertRunState", "SetRunMeta"}
    BY <1>4, <2>2
  <2> QED BY <2>1, <2>2
<1> QED BY <1>3, <1>5, <1>6, <1>7

\* Setting a run's metadata leaves its state alone.
LEMMA SetRunMetaRow ==
  ASSUME NEW t, NEW m, NEW U, RunRow(t[m.key], U), WellFormed(m), m.op = "SetRunMeta",
         NEW new, new = Put(t, m.key, SetMeta(t[m.key], m))[m.key]
  PROVE  /\ RunRow(new, U)
         /\ SameMeta(new, SetMeta(t[m.key], m))
<1> DEFINE old == t[m.key]
           row == SetMeta(old, m)
<1>1. DOMAIN old = RunColumns /\ DOMAIN m.meta = {"nominal", "parent_run_id", "error_message"}
  BY DEF RunRow, WellFormed
<1>2. "meta_at" \in DOMAIN old /\ "meta_at" \notin DOMAIN m.meta
  BY <1>1 DEF RunColumns
<1>3. /\ DOMAIN row = RunColumns
      /\ \A c \in RunColumns \ {"meta_at"} : c \notin DOMAIN m.meta => row[c] = old[c]
  BY <1>1, <1>2, SetMetaColumns
<1> HIDE DEF row
<1>4. /\ DOMAIN new = RunColumns
      /\ \A c \in RunColumns : c # "updated_at" => new[c] = row[c]
  <2>1. new = Put(t, m.key, row)[m.key]
    BY DEF row
  <2> QED BY <1>3, <2>1, PutRow
<1>5. new.job = old.job /\ new.state = old.state /\ new.ended_at = old.ended_at
  BY <1>1, <1>3, <1>4 DEF RunColumns
<1>6. RunRow(new, U)
  BY <1>4, <1>5 DEF RunRow
<1>7. SameMeta(new, row)
  BY <1>4 DEF RunColumns, SameMeta
<1> QED BY <1>6, <1>7 DEF row

LEMMA ApplyRuns ==
  ASSUME Mutations, TableKeys, Runs, Apply
  PROVE  Runs'
<1>1. SUFFICES ASSUME NEW r, NEW t, t = db.runs, NEW t2, t2 = db'.runs, NEW m, m = Head(todo),
                      NEW U, U = Of("UpsertRunState", r),
                      NEW U2, U2 = Of("UpsertRunState", r)', r \in DOMAIN t2
               PROVE  RunRow(t2[r], U2)
  BY DEF Runs
<1>2. /\ m.op \in Ops /\ WellFormed(m)
      /\ \A op \in Ops : applied'[op] = IF op = m.op THEN applied[op] \cup {m} ELSE applied[op]
  BY <1>1, StepOfApply
<1>3. U2 = IF "UpsertRunState" = m.op /\ r = m.key THEN U \cup {m} ELSE U
  <2>1. "UpsertRunState" \in Ops
    BY DEF Ops
  <2>2. Of("UpsertRunState", r)' = IF "UpsertRunState" = m.op /\ r = m.key
                                   THEN Of("UpsertRunState", r) \cup {m}
                                   ELSE Of("UpsertRunState", r)
    BY <1>2, <2>1, Grow
  <2> QED BY <1>1, <2>2
<1>4. /\ m.op = "UpsertRunState" /\ r = m.key =>
           \E old : /\ old = RowOf(t, m.key, FreshRun(m))
                    /\ IF r \in DOMAIN t THEN RunRow(old, U) ELSE U = {}
                    /\ t2 = fold_run(t, m)
      /\ m.op = "SetRunMeta" /\ r = m.key =>
           r \in DOMAIN t /\ t2 = Put(t, m.key, SetMeta(t[m.key], m))
      /\ ~ (m.op \in {"UpsertRunState", "SetRunMeta"} /\ r = m.key) =>
           r \in DOMAIN t /\ t2[r] = t[r]
      /\ r \in DOMAIN t => RunRow(t[r], U)
  BY <1>1, RunStep
<1>5. CASE m.op = "UpsertRunState" /\ r = m.key
  <2>1. PICK old : /\ old = RowOf(t, m.key, FreshRun(m))
                   /\ IF m.key \in DOMAIN t THEN RunRow(old, U) ELSE U = {}
                   /\ t2 = fold_run(t, m)
    BY <1>4, <1>5
  <2>2. RunRow(t2[m.key], U \cup {m})
    BY <1>2, <1>5, <2>1, ReadModelAssumption, UpsertRunStateRow
  <2> QED BY <1>3, <1>5, <2>2
<1>6. CASE m.op = "SetRunMeta" /\ r = m.key
  <2>1. RunRow(t[m.key], U) /\ t2[m.key] = Put(t, m.key, SetMeta(t[m.key], m))[m.key]
    BY <1>4, <1>6
  <2>2. RunRow(t2[m.key], U)
    BY <1>2, <1>6, <2>1, SetRunMetaRow
  <2> QED BY <1>3, <1>6, <2>2
<1>7. CASE ~ (m.op \in {"UpsertRunState", "SetRunMeta"} /\ r = m.key)
  BY <1>3, <1>4, <1>7
<1> QED BY <1>5, <1>6, <1>7

\* The column edges keep up with the applied mutations.
LEMMA ColumnEdgesAsTable ==
  ColumnEdges(db.column_lineage_edges, applied["UpsertColumnEdge"])
    <=> ColumnEdgeRows /\ ColumnLineageIsLatest
<1>1. SUFFICES ASSUME NEW t, t = db.column_lineage_edges, NEW E, E = applied["UpsertColumnEdge"]
               PROVE  ColumnEdges(t, E) <=> ColumnEdgeRows /\ ColumnLineageIsLatest
  OBVIOUS
<1>2. \A out : EdgesOf(out) = EdgesInto(E, out)
  BY <1>1 DEF EdgesOf, EdgesInto
<1>3. ColumnEdgeRows <=> \A m \in E : LatestIn(EdgesInto(E, m.key[2])) # {}
  BY <1>1, <1>2 DEF ColumnEdgeRows
<1>4. \A k : (\E n \in LatestIn(EdgesInto(E, k[2])) : n.key = k) <=>
             k \in {m.key : m \in UNION {LatestIn(EdgesInto(E, n.key[2])) : n \in E}}
  <2>1. ASSUME NEW k, NEW n \in LatestIn(EdgesInto(E, k[2])), n.key = k
        PROVE  k \in {m.key : m \in UNION {LatestIn(EdgesInto(E, q.key[2])) : q \in E}}
    <3>1. n \in E
      BY <2>1 DEF LatestIn, EdgesInto
    <3> QED BY <2>1, <3>1
  <2>2. ASSUME NEW q \in E, NEW n \in LatestIn(EdgesInto(E, q.key[2]))
        PROVE  n \in LatestIn(EdgesInto(E, n.key[2]))
    <3>1. n.key[2] = q.key[2]
      BY <2>2 DEF LatestIn, EdgesInto
    <3> QED BY <2>2, <3>1
  <2> QED BY <2>1, <2>2
<1>5. DOMAIN t = {m.key : m \in UNION {LatestIn(EdgesInto(E, n.key[2])) : n \in E}} <=>
        \A k : k \in DOMAIN t <=> \E n \in LatestIn(EdgesInto(E, k[2])) : n.key = k
  <2>1. SUFFICES ASSUME NEW K, K = {m.key : m \in UNION {LatestIn(EdgesInto(E, n.key[2])) : n \in E}}
                 PROVE  DOMAIN t = K <=>
                          \A k : k \in DOMAIN t <=> \E n \in LatestIn(EdgesInto(E, k[2])) : n.key = k
    OBVIOUS
  <2>2. \A k : k \in K <=> \E n \in LatestIn(EdgesInto(E, k[2])) : n.key = k
    BY <1>4, <2>1
  <2>3. DOMAIN t = K <=> \A k : k \in DOMAIN t <=> k \in K
    OBVIOUS
  <2> QED BY ONLY <2>2, <2>3
<1>6. ColumnLineageIsLatest <=>
        /\ DOMAIN t = {m.key : m \in UNION {LatestIn(EdgesInto(E, n.key[2])) : n \in E}}
        /\ \A k \in DOMAIN t : \E n \in LatestIn(EdgesInto(E, k[2])) :
             n.key = k /\ t[k] = [how |-> n.how, edge_at |-> n.at]
  <2>1. {LatestIn(EdgesOf(n.key[2])) : n \in E} = {LatestIn(EdgesInto(E, n.key[2])) : n \in E}
    BY <1>2
  <2>2. ColumnLineageIsLatest <=>
          /\ DOMAIN t = {m.key : m \in UNION {LatestIn(EdgesOf(n.key[2])) : n \in E}}
          /\ \A k \in DOMAIN t : \E n \in LatestIn(EdgesOf(k[2])) :
               n.key = k /\ t[k] = [how |-> n.how, edge_at |-> n.at]
    BY <1>1 DEF ColumnLineageIsLatest
  <2>3. \A k \in DOMAIN t : (\E n \in LatestIn(EdgesOf(k[2])) :
                             n.key = k /\ t[k] = [how |-> n.how, edge_at |-> n.at])
                          <=> \E n \in LatestIn(EdgesInto(E, k[2])) :
                                n.key = k /\ t[k] = [how |-> n.how, edge_at |-> n.at]
    BY <1>2
  <2> QED BY <2>1, <2>2, <2>3
<1> QED BY <1>3, <1>5, <1>6 DEF ColumnEdges

LEMMA ApplyColumnEdges ==
  ASSUME Mutations, Apply, ColumnEdges(db.column_lineage_edges, applied["UpsertColumnEdge"])
  PROVE  ColumnEdges(db.column_lineage_edges, applied["UpsertColumnEdge"])'
<1>1. SUFFICES ASSUME NEW t, t = db.column_lineage_edges, NEW t2, t2 = db'.column_lineage_edges,
                      NEW E, E = applied["UpsertColumnEdge"],
                      NEW E2, E2 = applied'["UpsertColumnEdge"], NEW m, m = Head(todo)
               PROVE  ColumnEdges(t2, E2)
  OBVIOUS
<1>2. /\ m.op \in Ops /\ DOMAIN db = DOMAIN Empty /\ db' = apply(db, m) /\ WellFormed(m)
      /\ \A op \in Ops : applied'[op] = IF op = m.op THEN applied[op] \cup {m} ELSE applied[op]
  BY <1>1, StepOfApply DEF Mutations, Apply
<1>3. t2 = IF m.op = "UpsertColumnEdge" THEN upsert_column_edge(t, m) ELSE t
  <2>1. Applies(m, db, db')
    BY <1>2, TablesOfApply
  <2> QED BY <1>1, <2>1 DEF Applies
<1>4. E2 = IF m.op = "UpsertColumnEdge" THEN E \cup {m} ELSE E
  BY <1>1, <1>2 DEF Ops
<1>5. \A n \in E : n.at \in Int
  <2>1. \A n \in applied["UpsertColumnEdge"] : n.op = "UpsertColumnEdge" /\ WellFormed(n)
    BY DEF Mutations, Sent, Ops
  <2> QED BY <1>1, <2>1 DEF WellFormed
<1>6. CASE m.op = "UpsertColumnEdge"
  <2>1. m.at \in Int /\ ColumnEdges(t, E)
    BY <1>1, <1>2, <1>6 DEF WellFormed
  <2>2. ColumnEdges(t2, E \cup {m})
    BY <1>3, <1>5, <1>6, <2>1, ReadModelAssumption, ColumnEdgesMove
  <2> QED BY <1>4, <1>6, <2>2
<1>7. CASE m.op # "UpsertColumnEdge"
  BY <1>1, <1>3, <1>4, <1>7
<1> QED BY <1>6, <1>7

-------------------------------------------------------------------------------
(* The invariant is inductive *)

LEMMA InitIInv == Init => IInv /\ RunMetaInv
<1>1. SUFFICES ASSUME Init
               PROVE  IInv /\ RunMetaInv
  OBVIOUS
<1>2. /\ db = Empty /\ todo = << >> /\ applied = [op \in Ops |-> {}]
      /\ \A op \in Ops : applied[op] = {}
  BY <1>1 DEF Init
<1>3. Sent = {}
  BY <1>2, ShortSequences DEF Sent
<1>4. Mutations /\ Together /\ SentByEvents
  <2>1. Mutations /\ Together
    BY <1>2, <1>3, ShortSequences DEF Mutations, Together
  <2>2. folded = {} /\ Rows = {}
    BY <1>1 DEF Init, Rows
  <2> QED BY <1>3, <2>1, <2>2 DEF SentByEvents
<1>5. /\ \A op \in Ops : KeysOf(op) = {}
      /\ \A op \in Ops : \A key : Of(op, key) = {}
  BY <1>2 DEF KeysOf, Of
<1>6. /\ DOMAIN db.namespaces = {} /\ DOMAIN db.jobs = {} /\ DOMAIN db.runs = {}
      /\ DOMAIN db.datasets = {} /\ db.lineage_edges = {} /\ DOMAIN db.dataset_fields = {}
      /\ DOMAIN db.dataset_versions = {} /\ db.tags = {} /\ DOMAIN db.tag_assignments = {}
      /\ DOMAIN db.column_lineage_edges = {}
  BY <1>2 DEF Empty
<1>7. TableKeys
  BY <1>5, <1>6 DEF TableKeys, Ops
<1>8. /\ RowsFirst("SetJobMeta", "UpsertJob", DOMAIN db.jobs)
      /\ RowsFirst("SetRunMeta", "UpsertRunState", DOMAIN db.runs)
  BY <1>2, <1>5, <1>6 DEF RowsFirst, Ops
<1>9. Jobs /\ Datasets /\ Fields /\ Runs
  BY <1>6 DEF Jobs, Datasets, Fields, Runs
<1>10. ColumnEdges(db.column_lineage_edges, applied["UpsertColumnEdge"])
  <2>1. applied["UpsertColumnEdge"] = {}
    BY <1>2 DEF Ops
  <2>2. \A out : LatestIn(EdgesInto({}, out)) = {}
    BY DEF LatestIn, EdgesInto
  <2> QED BY <1>6, <2>1, <2>2 DEF ColumnEdges
<1>11. IInv
  BY <1>4, <1>7, <1>8, <1>9, <1>10, JobsAsRows, DatasetsAsRows, RunsAsRows, ColumnEdgesAsTable
     DEF IInv
<1>12. RunMetaInv
  BY <1>6, <1>8 DEF RunMetaInv, RunMetaIsShown
<1> QED BY <1>11, <1>12

\* The mutations of an event come complete.
LEMMA ProcessMutations ==
  ASSUME Mutations, Together, SentByEvents, NEW doc \in Documents, Process(doc)
  PROVE  Mutations' /\ Together' /\ SentByEvents'
<1>1. SUFFICES ASSUME NEW s, s = MutationsOf(EventRow(doc)), NEW M, M = Sent, NEW M2, M2 = Sent'
               PROVE  Mutations' /\ Together' /\ SentByEvents'
  OBVIOUS
<1>2. /\ todo = << >> /\ todo' = s /\ db' = db /\ applied' = applied
  BY <1>1 DEF Process
<1>3. MadeOf(s, Ops) /\ \A m \in ToSet(s) : Companions(ToSet(s), m)
  BY <1>1, DocumentMutations
<1>4. M2 = M \cup ToSet(s)
  <2>1. M = UNION {applied[op] : op \in Ops}
    BY <1>1, <1>2, ShortSequences DEF Sent
  <2>2. M2 = ToSet(s) \cup UNION {applied[op] : op \in Ops}
    BY <1>1, <1>2 DEF Sent
  <2> QED BY <2>1, <2>2
<1>5. Mutations'
  <2>1. \A m \in M2 : WellFormed(m)
    BY <1>1, <1>3, <1>4 DEF Mutations, MadeOf
  <2>2. s \in Seq(ToSet(s))
    BY <1>3 DEF MadeOf
  <2> QED BY <1>1, <1>2, <2>1, <2>2 DEF Mutations
<1>6. ASSUME NEW A, NEW B, A \subseteq B, NEW m, Companions(A, m)
      PROVE  Companions(B, m)
  <2>1. \A op, key : Has(A, op, key) => Has(B, op, key)
    BY <1>6 DEF Has
  <2> QED BY <1>6, <2>1 DEF Companions
<1>7. \A m \in M2 : Companions(M2, m)
  <2>1. ASSUME NEW m \in M
        PROVE  Companions(M2, m)
    <3>1. Companions(M, m) /\ M \subseteq M2
      BY <1>1, <1>4 DEF Together
    <3> QED BY <1>6, <3>1
  <2>2. ASSUME NEW m \in ToSet(s)
        PROVE  Companions(M2, m)
    <3>1. Companions(ToSet(s), m) /\ ToSet(s) \subseteq M2
      BY <1>3, <1>4
    <3> QED BY <1>6, <3>1
  <2> QED BY <1>4, <2>1, <2>2
<1>8. Together'
  BY <1>1, <1>7 DEF Together
<1>9. SentByEvents'
  <2> DEFINE Made(ev) == ToSet(MutationsOf(ev))
             row == EventRow(doc)
  <2>1. folded' = folded \cup {doc}
    BY DEF Process
  <2>2. Rows' = Rows \cup {row}
    BY <2>1 DEF Rows
  <2>3. M = UNION {Made(ev) : ev \in Rows} /\ folded \subseteq Documents /\ Made(row) = ToSet(s)
    BY <1>1 DEF SentByEvents
  <2> HIDE DEF Made, row
  <2>4. M2 = UNION {Made(ev) : ev \in Rows'}
    BY <1>4, <2>2, <2>3
  <2>5. Sent' = UNION {Made(ev) : ev \in Rows'} /\ folded' \subseteq Documents
    BY <1>1, <2>1, <2>3, <2>4
  <2> QED BY <2>5 DEF SentByEvents, Made
<1> QED BY <1>5, <1>8, <1>9

LEMMA ProcessRowsFirst ==
  ASSUME NEW doc \in Documents, Process(doc), NEW update, NEW upsert,
         Ordered(MutationsOf(EventRow(doc)), update, upsert), NEW rows, KeysOf(update) \subseteq rows
  PROVE  KeysOf(update)' \subseteq rows /\ Behind(todo', update, upsert, rows)
<1>1. todo' = MutationsOf(EventRow(doc)) /\ applied' = applied
  BY DEF Process
<1>2. KeysOf(update)' = KeysOf(update)
  BY <1>1 DEF KeysOf
<1> QED BY <1>1, <1>2 DEF Ordered, Behind

LEMMA ApplyMutations ==
  ASSUME Mutations, Together, SentByEvents, Apply
  PROVE  Mutations' /\ Together' /\ SentByEvents'
<1>1. SUFFICES ASSUME NEW m, m = Head(todo)
               PROVE  Mutations' /\ Together' /\ SentByEvents'
  OBVIOUS
<1>2. /\ m \in Sent /\ WellFormed(m) /\ m.op \in Ops /\ Sent' = Sent
      /\ todo' \in Seq(ToSet(todo')) /\ DOMAIN applied' = Ops
      /\ \A op \in Ops : applied'[op] = IF op = m.op THEN applied[op] \cup {m} ELSE applied[op]
  BY <1>1, StepOfApply
<1>3. DOMAIN db' = DOMAIN Empty
  <2>1. DOMAIN db = DOMAIN Empty /\ db' = apply(db, m)
    BY <1>1 DEF Mutations, Apply
  <2>2. Applies(m, db, db')
    BY <1>2, <2>1, TablesOfApply
  <2> QED BY <2>2 DEF Applies
<1>4. \A op \in Ops : \A n \in applied'[op] : n.op = op
  BY <1>2 DEF Mutations
<1>5. \A n \in Sent' : WellFormed(n)
  BY <1>2 DEF Mutations
<1>6. Mutations'
  BY <1>2, <1>3, <1>4, <1>5 DEF Mutations
<1>7. Together'
  BY <1>2 DEF Together
<1>8. SentByEvents'
  <2>1. folded' = folded /\ Rows' = Rows
    BY DEF Apply, Rows
  <2> QED BY <1>2, <2>1 DEF SentByEvents
<1> QED BY <1>6, <1>7, <1>8

\* The invariant by rows.
Parts ==
  /\ Mutations /\ Together /\ SentByEvents /\ TableKeys
  /\ Jobs /\ Datasets /\ Fields /\ Runs
  /\ ColumnEdges(db.column_lineage_edges, applied["UpsertColumnEdge"])
  /\ RowsFirst("SetJobMeta", "UpsertJob", DOMAIN db.jobs)

LEMMA IInvAsParts == IInv <=> Parts
BY JobsAsRows, DatasetsAsRows, RunsAsRows, ColumnEdgesAsTable DEF IInv, Parts

LEMMA ApplyParts == Parts /\ Apply => Parts'
<1> DEFINE Edges == ColumnEdges(db.column_lineage_edges, applied["UpsertColumnEdge"])
           First == RowsFirst("SetJobMeta", "UpsertJob", DOMAIN db.jobs)
<1>1. SUFFICES ASSUME Parts, Apply
               PROVE  Parts'
  OBVIOUS
<1>2. /\ Mutations /\ Together /\ SentByEvents /\ TableKeys
      /\ Jobs /\ Datasets /\ Fields /\ Runs /\ Edges /\ First
  BY <1>1 DEF Parts
<1>3. Mutations' /\ Together' /\ SentByEvents'
  BY <1>1, <1>2, ApplyMutations
<1>4. TableKeys'
  BY <1>1, <1>2, ApplyTableKeys
<1>5. Jobs' /\ Datasets' /\ Fields'
  BY <1>1, <1>2, ApplyJobs, ApplyDatasets, ApplyFields
<1>6. Runs' /\ Edges'
  BY <1>1, <1>2, ApplyRuns, ApplyColumnEdges
<1>7. First'
  <2>1. SUFFICES ASSUME NEW rows, rows = DOMAIN db.jobs, NEW rows2, rows2 = DOMAIN db'.jobs
                 PROVE  First'
    OBVIOUS
  <2>2. rows = KeysOf("UpsertJob") /\ rows2 = KeysOf("UpsertJob")'
    BY <1>2, <1>4, <2>1 DEF TableKeys
  <2>3. "SetJobMeta" \in Ops /\ "UpsertJob" \in Ops
    BY DEF Ops
  <2>4. RowsFirst("SetJobMeta", "UpsertJob", rows)
    BY <1>2, <2>1
  <2>5. KeysOf("SetJobMeta")' \subseteq rows2 /\ Behind(todo', "SetJobMeta", "UpsertJob", rows2)
    BY <1>1, <1>2, <2>2, <2>3, <2>4, RowsFirstApply
  <2> QED BY <2>1, <2>5 DEF RowsFirst, Behind
<1> QED BY <1>3, <1>4, <1>5, <1>6, <1>7 DEF Parts

LEMMA ProcessParts ==
  ASSUME Parts, NEW doc \in Documents, Process(doc)
  PROVE  Parts'
<1> DEFINE Edges == ColumnEdges(db.column_lineage_edges, applied["UpsertColumnEdge"])
           First == RowsFirst("SetJobMeta", "UpsertJob", DOMAIN db.jobs)
<1>1. /\ Mutations /\ Together /\ SentByEvents /\ TableKeys
      /\ Jobs /\ Datasets /\ Fields /\ Runs /\ Edges /\ First
  BY DEF Parts
<1>2. db' = db /\ applied' = applied
  BY DEF Process
<1>3. Mutations' /\ Together' /\ SentByEvents'
  BY <1>1, ProcessMutations
<1>4. TableKeys'
  BY <1>1, <1>2 DEF TableKeys, KeysOf
<1>5. Jobs' /\ Datasets'
  BY <1>1, <1>2 DEF Jobs, Datasets, CarryingEdges, CarryingSchema, JobMetas, Of
<1>6. Fields' /\ Runs' /\ Edges'
  BY <1>1, <1>2 DEF Fields, Runs, Of
<1>7. First'
  <2>1. Ordered(MutationsOf(EventRow(doc)), "SetJobMeta", "UpsertJob")
    BY DocumentMutations
  <2>2. KeysOf("SetJobMeta") \subseteq DOMAIN db.jobs
    BY <1>1 DEF RowsFirst
  <2>3. /\ KeysOf("SetJobMeta")' \subseteq DOMAIN db.jobs
        /\ Behind(todo', "SetJobMeta", "UpsertJob", DOMAIN db.jobs)
    BY <2>1, <2>2, ProcessRowsFirst
  <2> QED BY <1>2, <2>3 DEF RowsFirst, Behind
<1> QED BY <1>3, <1>4, <1>5, <1>6, <1>7 DEF Parts

LEMMA PartsAreInductive == Parts /\ [Next]_vars => Parts'
<1>1. SUFFICES ASSUME Parts, UNCHANGED vars
               PROVE  Parts'
  BY ApplyParts, ProcessParts DEF Next
<1>2. db' = db /\ applied' = applied /\ todo' = todo /\ folded' = folded
  BY <1>1 DEF vars
<1>3. Mutations' /\ Together' /\ SentByEvents'
  <2>1. Sent' = Sent /\ Rows' = Rows
    BY <1>2 DEF Sent, Rows
  <2>2. Mutations' /\ Together'
    BY <1>1, <1>2, <2>1 DEF Parts, Mutations, Together
  <2> QED BY <1>1, <1>2, <2>1, <2>2 DEF Parts, SentByEvents
<1>4. TableKeys'
  BY <1>1, <1>2 DEF Parts, TableKeys, KeysOf
<1>5. Jobs' /\ Datasets'
  BY <1>1, <1>2 DEF Parts, Jobs, Datasets, CarryingEdges, CarryingSchema, JobMetas, Of
<1>6. Fields' /\ Runs'
  BY <1>1, <1>2 DEF Parts, Fields, Runs, Of
<1>7. /\ ColumnEdges(db.column_lineage_edges, applied["UpsertColumnEdge"])'
      /\ RowsFirst("SetJobMeta", "UpsertJob", DOMAIN db.jobs)'
  BY <1>1, <1>2 DEF Parts, RowsFirst, KeysOf
<1> QED BY <1>3, <1>4, <1>5, <1>6, <1>7 DEF Parts

\* What IInv says of the tables holds whatever the documents and their order
\* in the log.
THEOREM InductiveInvariant == Spec => []IInv
<1>1. Init => Parts
  BY InitIInv, IInvAsParts
<1>2. Parts /\ [Next]_vars => Parts'
  BY PartsAreInductive
<1>3. Parts => IInv
  BY IInvAsParts
<1> QED BY <1>1, <1>2, <1>3, PTL DEF Spec

-------------------------------------------------------------------------------
(* What the invariant says *)

\* A job shows the newest edges an event carried for it.
THEOREM JobEdgesAreTheLatest == Spec => []JobEdgesAreLatest
<1>1. IInv => JobEdgesAreLatest
  BY DEF IInv
<1> QED BY <1>1, InductiveInvariant, PTL

\* An output column's inputs are exactly those of the newest event that gave any.
THEOREM ColumnLineageIsTheLatest == Spec => []ColumnLineageIsLatest
<1>1. IInv => ColumnLineageIsLatest
  BY DEF IInv
<1> QED BY <1>1, InductiveInvariant, PTL

\* A run is as far as the furthest of its events: an ended one stays ended.
THEOREM RunsAreNeverDowngraded == Spec => []RunIsAsFarAsAnyEventSays
<1>1. IInv => RunIsAsFarAsAnyEventSays
  BY DEF IInv
<1> QED BY <1>1, InductiveInvariant, PTL

-------------------------------------------------------------------------------
(* The schemas of the folded events *)

\* Between events the applied mutations are those of the folded events.
LEMMA AppliedIsMade ==
  ASSUME IInv, todo = << >>, NEW op \in Ops, NEW m
  PROVE  m \in applied[op] <=> m.op = op /\ \E ev \in Rows : m \in ToSet(MutationsOf(ev))
<1>1. Mutations /\ SentByEvents
  BY DEF IInv
<1>2. Sent = UNION {applied[o] : o \in Ops}
  BY ShortSequences DEF Sent
<1>3. m \in Sent <=> \E ev \in Rows : m \in ToSet(MutationsOf(ev))
  BY <1>1 DEF SentByEvents
<1>4. m \in Sent <=> \E o \in Ops : m \in applied[o]
  BY <1>2
<1>5. \A o \in Ops : m \in applied[o] => m.op = o
  BY <1>1 DEF Mutations
<1> QED BY <1>3, <1>4, <1>5

LEMMA RowIsOfDocument ==
  ASSUME IInv, NEW ev \in Rows
  PROVE  \E doc \in Documents : ev = EventRow(doc) /\ ev.raw = doc
<1>1. PICK doc \in Documents : ev = EventRow(doc)
  BY DEF Rows, IInv, SentByEvents
<1>2. ev.raw = doc
  BY <1>1 DEF EventRow
<1> QED BY <1>1, <1>2

\* The columns noted for a dataset are those that the writers of it carry.
LEMMA NotedColumns ==
  ASSUME IInv, todo = << >>, NEW d
  PROVE  /\ \A m \in CarryingSchema(d) : \E ev \in WritersOf(d) :
              m.fields = OutputSchema(ev, d) /\ m.at = event_at(ev)
         /\ \A ev \in WritersOf(d) : \E m \in CarryingSchema(d) :
              m.fields = OutputSchema(ev, d) /\ m.at = event_at(ev)
<1>1. "UpsertDataset" \in Ops
  BY DEF Ops
<1>2. ASSUME NEW m \in CarryingSchema(d)
      PROVE  \E ev \in WritersOf(d) : m.fields = OutputSchema(ev, d) /\ m.at = event_at(ev)
  <2>1. /\ m \in applied["UpsertDataset"] /\ m.key = d
        /\ m.fields # Null /\ m.fields \notin {Null, << >>}
    BY <1>2 DEF CarryingSchema, Of
  <2>2. PICK ev \in Rows : m.op = "UpsertDataset" /\ m \in ToSet(MutationsOf(ev))
    BY <1>1, <2>1, AppliedIsMade
  <2>3. PICK doc \in Documents : ev = EventRow(doc)
    BY RowIsOfDocument
  <2>4. FromDatasets(ToSet(MutationsOf(ev)), ev)
    BY <2>3, DocumentMutations
  <2>5. m \in ToSet(DatasetRefProcessor(ev))
    BY <2>2, <2>4 DEF FromDatasets
  <2>6. ev.event_kind # "dataset" /\ NotesOutput(m, ev, m.key)
    BY <2>1, <2>2, <2>3, <2>5, DatasetRefMutations
  <2> QED BY <2>1, <2>6 DEF NotesOutput, WritersOf
<1>3. ASSUME NEW ev \in WritersOf(d)
      PROVE  \E m \in CarryingSchema(d) : m.fields = OutputSchema(ev, d) /\ m.at = event_at(ev)
  <2>1. /\ ev \in Rows /\ ev.event_kind # "dataset"
        /\ OutputSchema(ev, d) # Null /\ OutputSchema(ev, d) \notin {Null, << >>}
    BY <1>3 DEF WritersOf
  <2>2. PICK doc \in Documents : ev = EventRow(doc)
    BY <2>1, RowIsOfDocument
  <2>3. d \in ToSet(ev.outputs)
    <3>1. PICK e \in ToSet(doc.outputs) : e.ds = d
      BY <2>1, <2>2, OutputSchemaOfEntry
    <3>2. PICK i \in DOMAIN doc.outputs : doc.outputs[i] = e
      BY <3>1 DEF ToSet
    <3>3. ev.outputs = [k \in DOMAIN doc.outputs |-> doc.outputs[k].ds]
      BY <2>1, <2>2, RowOfDocument DEF EventRow, Refs
    <3>4. i \in DOMAIN ev.outputs /\ ev.outputs[i] = d
      BY <3>1, <3>2, <3>3
    <3> QED BY <3>4 DEF ToSet
  <2>4. PICK m \in ToSet(DatasetRefProcessor(ev)) : NotesOutput(m, ev, d)
    BY <2>1, <2>2, <2>3, DatasetRefMutations
  <2>5. m \in ToSet(MutationsOf(ev))
    BY <2>2, <2>4, DocumentMutations DEF FromDatasets
  <2>6. m \in applied["UpsertDataset"]
    BY <1>1, <2>1, <2>4, <2>5, AppliedIsMade DEF NotesOutput
  <2> QED BY <2>1, <2>4, <2>6 DEF NotesOutput, CarryingSchema, Of
<1> QED BY <1>2, <1>3

\* The mutations that the schemas of a folded event make are applied.
LEMMA SchemasAreApplied ==
  ASSUME IInv, todo = << >>, NEW ev \in Rows, NEW e \in ToSet(Entries(ev.raw)),
         NEW x, MadeOfSchema(x, ev, e)
  PROVE  x.op \in SchemaKinds /\ x \in applied[x.op]
<1>1. PICK doc \in Documents : ev = EventRow(doc) /\ ev.raw = doc
  BY RowIsOfDocument
<1>2. x \in ToSet(SchemaProcessor(ev)) /\ MadeOf(SchemaProcessor(ev), SchemaKinds)
  BY <1>1, SchemaMutations DEF SchemaKinds
<1>3. x.op \in SchemaKinds /\ x.op \in Ops
  BY <1>2 DEF MadeOf, SchemaKinds, Ops
<1>4. x \in ToSet(MutationsOf(ev))
  BY <1>1, <1>2, DocumentMutations DEF FromDatasets
<1> QED BY <1>3, <1>4, AppliedIsMade

\* The mutation of a column is made of an event that declares it.
LEMMA FieldIsDeclared ==
  ASSUME IInv, todo = << >>, NEW m \in applied["UpsertDatasetField"]
  PROVE  /\ m.key = <<m.key[1], m.key[2]>>
         /\ \E ev \in Declaring(m.key) : /\ FieldOf(m) \in ColumnsOf(ev, m.key)
                                         /\ m.at = event_at(ev) /\ m.key \in DeclaredBy(ev)
<1>1. "UpsertDatasetField" \in Ops /\ "UpsertDatasetField" \in SchemaKinds
  BY DEF Ops, SchemaKinds
<1>2. PICK ev \in Rows : m.op = "UpsertDatasetField" /\ m \in ToSet(MutationsOf(ev))
  BY <1>1, AppliedIsMade
<1>3. PICK doc \in Documents : ev = EventRow(doc) /\ ev.raw = doc
  BY RowIsOfDocument
<1>4. m \in ToSet(SchemaProcessor(ev))
  BY <1>1, <1>2, <1>3, DocumentMutations DEF FromDatasets
<1>5. PICK e \in ToSet(Entries(doc)) : MadeOfSchema(m, ev, e)
  BY <1>3, <1>4, SchemaMutations
<1>6. VersionMutation(ev, e).op = "EmitDatasetVersion"
  BY DEF VersionMutation
<1>7. PICK i \in DOMAIN e.schema :
        e.schema[i].name \notin Unnamed /\ m = ColumnMutation(ev, e, i)
  BY <1>2, <1>5, <1>6 DEF MadeOfSchema
<1>8. /\ m.key = <<e.ds, e.schema[i].name>> /\ m.at = event_at(ev)
      /\ m.type = e.schema[i].type /\ m.ordinal = i
  BY <1>7 DEF ColumnMutation
<1>9. m.key[1] = e.ds /\ m.key[2] = e.schema[i].name
  BY <1>8
<1>10. e \in {x \in ToSet(Entries(ev.raw)) : x.ds = m.key[1] /\ x.schema # Null /\ x.typed}
  BY <1>3, <1>5, <1>9 DEF MadeOfSchema
<1>11. FieldOf(m) = [type |-> e.schema[i].type, ordinal |-> i, schema_at |-> event_at(ev)]
  BY <1>8 DEF FieldOf
<1>12. FieldOf(m) \in ColumnsOf(ev, m.key)
  BY <1>7, <1>9, <1>10, <1>11 DEF ColumnsOf
<1>13. m.key \in DeclaredBy(ev)
  BY <1>7, <1>8, <1>10 DEF DeclaredBy
<1>14. ev \in Declaring(m.key)
  BY <1>7, <1>9, <1>12 DEF Declaring
<1> QED BY <1>8, <1>9, <1>12, <1>13, <1>14

\* A column that an event declares has its mutation.
LEMMA DeclaredIsField ==
  ASSUME IInv, todo = << >>
  PROVE  /\ \A f : f = <<f[1], f[2]>> => \A ev \in Declaring(f) :
              \E m \in Of("UpsertDatasetField", f) : m.at = event_at(ev)
         /\ \A ev \in Rows : DeclaredBy(ev) \subseteq KeysOf("UpsertDatasetField")
<1>1. ASSUME NEW ev \in Rows, NEW e \in ToSet(Entries(ev.raw)), e.schema # Null, e.typed,
             NEW i \in DOMAIN e.schema, e.schema[i].name \notin Unnamed,
             NEW m, m = ColumnMutation(ev, e, i)
      PROVE  /\ m \in applied["UpsertDatasetField"] /\ m.at = event_at(ev)
             /\ m.key = <<e.ds, e.schema[i].name>>
  <2>1. MadeOfSchema(m, ev, e)
    BY <1>1 DEF MadeOfSchema
  <2>2. m.op = "UpsertDatasetField" /\ m.at = event_at(ev) /\ m.key = <<e.ds, e.schema[i].name>>
    BY <1>1 DEF ColumnMutation
  <2>3. m \in applied[m.op]
    BY <2>1, SchemasAreApplied
  <2> QED BY <2>2, <2>3
<1>2. ASSUME NEW f, f = <<f[1], f[2]>>, NEW ev \in Declaring(f)
      PROVE  \E m \in Of("UpsertDatasetField", f) : m.at = event_at(ev)
  <2>1. ev \in Rows /\ f[2] \notin Unnamed /\ ColumnsOf(ev, f) # {}
    BY DEF Declaring
  <2>2. PICK e \in ToSet(Entries(ev.raw)) :
          /\ e.ds = f[1] /\ e.schema # Null /\ e.typed
          /\ \E i \in DOMAIN e.schema : e.schema[i].name = f[2]
    BY <2>1 DEF ColumnsOf
  <2>3. PICK i \in DOMAIN e.schema : e.schema[i].name = f[2]
    BY <2>2
  <2>4. PICK m : m = ColumnMutation(ev, e, i)
    OBVIOUS
  <2>5. /\ m \in applied["UpsertDatasetField"] /\ m.at = event_at(ev)
        /\ m.key = <<e.ds, e.schema[i].name>>
    BY <1>1, <2>1, <2>2, <2>3, <2>4
  <2>6. m.key = f
    BY <1>2, <2>2, <2>3, <2>5
  <2> QED BY <2>5, <2>6 DEF Of
<1>3. ASSUME NEW ev \in Rows, NEW f \in DeclaredBy(ev)
      PROVE  f \in KeysOf("UpsertDatasetField")
  <2>1. PICK e \in ToSet(Entries(ev.raw)) :
          /\ e.schema # Null /\ e.typed
          /\ \E i \in DOMAIN e.schema :
               e.schema[i].name \notin Unnamed /\ f = <<e.ds, e.schema[i].name>>
    BY <1>3 DEF DeclaredBy
  <2>2. PICK i \in DOMAIN e.schema :
          e.schema[i].name \notin Unnamed /\ f = <<e.ds, e.schema[i].name>>
    BY <2>1
  <2>3. PICK m : m = ColumnMutation(ev, e, i)
    OBVIOUS
  <2>4. m \in applied["UpsertDatasetField"] /\ m.key = f
    BY <1>1, <2>1, <2>2, <2>3
  <2> QED BY <2>4 DEF KeysOf
<1> QED BY <1>2, <1>3

\* The newest mutation is made of a newest event.
LEMMA NewestMatch ==
  ASSUME NEW S, NEW E, NEW m \in LatestIn(S), NEW ev \in E, m.at = event_at(ev),
         \A o \in E : \E n \in S : n.at = event_at(o)
  PROVE  ev \in NewestOf(E)
<1>1. \A n \in S : n.at <= m.at
  BY DEF LatestIn
<1>2. ASSUME NEW o \in E
      PROVE  event_at(o) <= event_at(ev)
  BY <1>1
<1> QED BY <1>2 DEF NewestOf

LEMMA ShownSchema ==
  ASSUME IInv, todo = << >>, NEW d \in DOMAIN db.datasets
  PROVE  IF WritersOf(d) = {} THEN db.datasets[d].fields = << >>
         ELSE \E ev \in NewestOf(WritersOf(d)) : db.datasets[d].fields = OutputSchema(ev, d)
<1>1. SchemaOfMutations
  BY DEF IInv
<1>2. CASE WritersOf(d) = {}
  <2>1. CarryingSchema(d) = {}
    BY <1>2, NotedColumns
  <2> QED BY <1>1, <1>2, <2>1 DEF SchemaOfMutations
<1>3. CASE WritersOf(d) # {}
  <2>1. CarryingSchema(d) # {}
    BY <1>3, NotedColumns
  <2>2. PICK m \in LatestIn(CarryingSchema(d)) : db.datasets[d].fields = m.fields
    BY <1>1, <2>1 DEF SchemaOfMutations
  <2>3. m \in CarryingSchema(d)
    BY DEF LatestIn
  <2>4. PICK ev \in WritersOf(d) : m.fields = OutputSchema(ev, d) /\ m.at = event_at(ev)
    BY <2>3, NotedColumns
  <2>5. \A o \in WritersOf(d) : \E n \in CarryingSchema(d) : n.at = event_at(o)
    BY NotedColumns
  <2>6. ev \in NewestOf(WritersOf(d))
    BY <2>4, <2>5, NewestMatch
  <2> QED BY <1>3, <2>2, <2>4, <2>6
<1> QED BY <1>2, <1>3

LEMMA ShownColumn ==
  ASSUME IInv, todo = << >>, NEW f \in DOMAIN db.dataset_fields
  PROVE  \E ev \in NewestOf(Declaring(f)) : db.dataset_fields[f] \in ColumnsOf(ev, f)
<1> DEFINE S == Of("UpsertDatasetField", f)
           E == Declaring(f)
<1>1. PICK m \in LatestIn(S) : db.dataset_fields[f] = FieldOf(m)
  BY DEF IInv, SchemaOfMutations, FieldOf
<1>2. m \in applied["UpsertDatasetField"] /\ m.key = f
  BY DEF LatestIn, Of
<1>3. PICK ev \in E : FieldOf(m) \in ColumnsOf(ev, f) /\ m.at = event_at(ev)
  BY <1>2, FieldIsDeclared
<1>4. f = <<f[1], f[2]>>
  BY <1>2, FieldIsDeclared
<1>5. \A o \in E : \E n \in S : n.at = event_at(o)
  BY <1>4, DeclaredIsField
<1> HIDE DEF S, E
<1>6. ev \in NewestOf(E)
  BY <1>3, <1>5, NewestMatch
<1> QED BY <1>1, <1>3, <1>6 DEF E

\* Between events a dataset shows the columns that the newest run or job event
\* carried for it as its output, the columns are all that parsed schemas ever
\* named, and each has its row of a newest event that declares it.
THEOREM SchemaIsTheLatest == Spec => []SchemaIsLatest
<1>1. ASSUME IInv, todo = << >>
      PROVE  DOMAIN db.dataset_fields = UNION {DeclaredBy(ev) : ev \in Rows}
  <2>1. DOMAIN db.dataset_fields = KeysOf("UpsertDatasetField")
    BY <1>1 DEF IInv, TableKeys
  <2>2. ASSUME NEW f \in KeysOf("UpsertDatasetField")
        PROVE  \E ev \in Rows : f \in DeclaredBy(ev)
    <3>1. PICK m \in applied["UpsertDatasetField"] : m.key = f
      BY <2>2 DEF KeysOf
    <3> QED BY <1>1, <3>1, FieldIsDeclared DEF Declaring
  <2>3. \A ev \in Rows : DeclaredBy(ev) \subseteq KeysOf("UpsertDatasetField")
    BY <1>1, DeclaredIsField
  <2> QED BY <2>1, <2>2, <2>3
<1>2. IInv => SchemaIsLatest
  BY <1>1, ShownSchema, ShownColumn DEF SchemaIsLatest
<1> QED BY <1>2, InductiveInvariant, PTL

LEMMA DatasetsAgree ==
  ASSUME IInv, todo = << >>, NEW d \in DOMAIN db.datasets, NEW fields,
         fields = db.datasets[d].fields, fields # << >>, Parses(d)
  PROVE  /\ VersionOf(fields) # << >> => <<d, VersionOf(fields)>> \in DOMAIN db.dataset_versions
         /\ \A i \in DOMAIN fields : fields[i].name \notin Unnamed =>
              <<d, fields[i].name>> \in DOMAIN db.dataset_fields
<1>1. TableKeys
  BY DEF IInv
<1>2. PICK ev \in WritersOf(d) : fields = OutputSchema(ev, d)
  BY ShownSchema DEF NewestOf
<1>3. ev \in Rows /\ fields # Null
  BY <1>2 DEF WritersOf
<1>4. PICK doc \in Documents : ev = EventRow(doc) /\ ev.raw = doc
  BY <1>3, RowIsOfDocument
<1>5. PICK e \in ToSet(doc.outputs) : e.ds = d /\ e.schema = fields
  BY <1>2, <1>3, <1>4, OutputSchemaOfEntry
<1>6. e \in ToSet(Entries(ev.raw))
  BY <1>4, EntriesOfDocument
<1>7. e.schema # Null /\ e.typed
  BY <1>3, <1>5, <1>6 DEF Parses
<1>8. ASSUME VersionOf(fields) # << >>, NEW x, x = VersionMutation(ev, e)
      PROVE  <<d, VersionOf(fields)>> \in DOMAIN db.dataset_versions
  <2>1. x.op = "EmitDatasetVersion" /\ x.key = <<d, VersionOf(fields)>>
    BY <1>5, <1>8 DEF VersionMutation
  <2>2. MadeOfSchema(x, ev, e)
    BY <1>5, <1>7, <1>8 DEF MadeOfSchema
  <2>3. x \in applied["EmitDatasetVersion"]
    BY <1>3, <1>6, <2>1, <2>2, SchemasAreApplied
  <2> QED BY <1>1, <2>1, <2>3 DEF TableKeys, KeysOf
<1>9. ASSUME NEW i \in DOMAIN fields, fields[i].name \notin Unnamed,
             NEW x, x = ColumnMutation(ev, e, i)
      PROVE  <<d, fields[i].name>> \in DOMAIN db.dataset_fields
  <2>1. x.op = "UpsertDatasetField" /\ x.key = <<d, fields[i].name>>
    BY <1>5, <1>9 DEF ColumnMutation
  <2>2. MadeOfSchema(x, ev, e)
    BY <1>5, <1>7, <1>9 DEF MadeOfSchema
  <2>3. x \in applied["UpsertDatasetField"]
    BY <1>3, <1>6, <2>1, <2>2, SchemasAreApplied
  <2> QED BY <1>1, <2>1, <2>3 DEF TableKeys, KeysOf
<1> QED BY <1>8, <1>9

-------------------------------------------------------------------------------
(* The references between the tables *)

\* Between events the rows that an applied mutation refers to are there.
LEMMA CompanionsAreApplied ==
  ASSUME IInv, todo = << >>, NEW op \in Ops, NEW m \in applied[op]
  PROVE  /\ m.op = op /\ WellFormed(m) /\ Companions(Sent, m)
         /\ \A o \in Ops : \A key : Has(Sent, o, key) => key \in KeysOf(o)
<1>1. Mutations /\ Together
  BY DEF IInv
<1>2. Sent = UNION {applied[o] : o \in Ops}
  BY ShortSequences DEF Sent
<1>3. m \in Sent
  BY <1>2
<1>4. ASSUME NEW o \in Ops, NEW key, Has(Sent, o, key)
      PROVE  key \in KeysOf(o)
  <2>1. PICK n \in Sent : n.op = o /\ n.key = key
    BY <1>4 DEF Has
  <2>2. n \in applied[o]
    BY <1>1, <1>2, <2>1 DEF Mutations
  <2> QED BY <2>1, <2>2 DEF KeysOf
<1> QED BY <1>1, <1>3, <1>4 DEF Mutations, Together

LEMMA JobsAgree ==
  ASSUME IInv, todo = << >>, NEW j \in DOMAIN db.jobs
  PROVE  /\ \A i \in DOMAIN db.jobs[j].inputs :
              InEdge(db.jobs[j].inputs[i], j) \in db.lineage_edges
         /\ \A i \in DOMAIN db.jobs[j].outputs :
              OutEdge(db.jobs[j].outputs[i], j) \in db.lineage_edges
         /\ j[1] \in DOMAIN db.namespaces
<1>1. /\ TableKeys /\ JobEdgesAreLatest
      /\ "UpsertJob" \in Ops /\ "NoteNamespace" \in Ops /\ "UpsertLineageEdge" \in Ops
  BY DEF IInv, Ops
<1>2. PICK n \in applied["UpsertJob"] : n.key = j
  BY <1>1 DEF TableKeys, KeysOf
<1>3. j[1] \in DOMAIN db.namespaces
  <2>1. /\ n.op = "UpsertJob" /\ WellFormed(n) /\ Companions(Sent, n)
        /\ \A key : Has(Sent, "NoteNamespace", key) => key \in KeysOf("NoteNamespace")
    BY <1>1, <1>2, CompanionsAreApplied
  <2>2. j[1] \in KeysOf("NoteNamespace")
    BY <1>2, <2>1 DEF Companions
  <2>3. j[1] # ""
    BY <1>2, <2>1 DEF WellFormed
  <2> QED BY <1>1, <2>2, <2>3 DEF TableKeys
<1>4. CASE CarryingEdges(j) = {}
  <2>1. db.jobs[j].inputs = << >> /\ db.jobs[j].outputs = << >>
    BY <1>1, <1>4 DEF JobEdgesAreLatest
  <2> QED BY <1>3, <2>1
<1>5. CASE CarryingEdges(j) # {}
  <2>1. PICK m \in LatestIn(CarryingEdges(j)) :
          db.jobs[j].inputs = m.edges.inputs /\ db.jobs[j].outputs = m.edges.outputs
    BY <1>1, <1>5 DEF JobEdgesAreLatest
  <2>2. m \in applied["UpsertJob"] /\ m.key = j /\ m.edges # Null
    BY <2>1 DEF LatestIn, CarryingEdges, Of
  <2>3. /\ m.op = "UpsertJob" /\ Companions(Sent, m)
        /\ \A key : Has(Sent, "UpsertLineageEdge", key) => key \in KeysOf("UpsertLineageEdge")
    BY <1>1, <2>2, CompanionsAreApplied
  <2>4. /\ \A d \in ToSet(m.edges.inputs) : InEdge(d, j) \in db.lineage_edges
        /\ \A d \in ToSet(m.edges.outputs) : OutEdge(d, j) \in db.lineage_edges
    <3>1. /\ \A d \in ToSet(m.edges.inputs) : Has(Sent, "UpsertLineageEdge", InEdge(d, j))
          /\ \A d \in ToSet(m.edges.outputs) : Has(Sent, "UpsertLineageEdge", OutEdge(d, j))
      BY <2>2, <2>3 DEF Companions
    <3> QED BY <1>1, <2>3, <3>1 DEF TableKeys
  <2> QED BY <1>3, <2>1, <2>4 DEF ToSet
<1> QED BY <1>4, <1>5

LEMMA EdgesAgree ==
  ASSUME IInv, todo = << >>, NEW e \in db.lineage_edges, NEW n \in {e[1], e[2]}
  PROVE  n[2] \in DOMAIN (IF n[1] = "job" THEN db.jobs ELSE db.datasets)
<1>1. /\ TableKeys
      /\ "UpsertLineageEdge" \in Ops /\ "UpsertJob" \in Ops /\ "UpsertDataset" \in Ops
  BY DEF IInv, Ops
<1>2. PICK m \in applied["UpsertLineageEdge"] : m.key = e
  BY <1>1 DEF TableKeys, KeysOf
<1>3. m.op = "UpsertLineageEdge" /\ Companions(Sent, m)
  BY <1>1, <1>2, CompanionsAreApplied
<1>4. \A key : /\ Has(Sent, "UpsertJob", key) => key \in KeysOf("UpsertJob")
               /\ Has(Sent, "UpsertDataset", key) => key \in KeysOf("UpsertDataset")
  BY <1>1, <1>2, CompanionsAreApplied
<1>5. Has(Sent, IF n[1] = "job" THEN "UpsertJob" ELSE "UpsertDataset", n[2])
  BY <1>2, <1>3 DEF Companions
<1> QED BY <1>1, <1>4, <1>5 DEF TableKeys

LEMMA RunsAndTagsAgree ==
  ASSUME IInv, todo = << >>
  PROVE  /\ \A r \in DOMAIN db.runs : db.runs[r].job \in DOMAIN db.jobs
         /\ \A k \in DOMAIN db.tag_assignments : k[1] \in db.tags
<1>1. /\ TableKeys /\ RunRows /\ "UpsertRunState" \in Ops /\ "UpsertJob" \in Ops
      /\ "TagAssignment" \in Ops /\ "UpsertTag" \in Ops
  BY DEF IInv, Ops
<1>2. ASSUME NEW r \in DOMAIN db.runs
      PROVE  db.runs[r].job \in DOMAIN db.jobs
  <2>1. PICK m \in applied["UpsertRunState"] : db.runs[r].job = m.job
    BY <1>1, <1>2 DEF RunRows, Of
  <2>2. m.op = "UpsertRunState" /\ Companions(Sent, m)
    BY <1>1, <2>1, CompanionsAreApplied
  <2>3. \A key : Has(Sent, "UpsertJob", key) => key \in KeysOf("UpsertJob")
    BY <1>1, <2>1, CompanionsAreApplied
  <2>4. Has(Sent, "UpsertJob", m.job)
    BY <2>2 DEF Companions
  <2> QED BY <1>1, <2>1, <2>3, <2>4 DEF TableKeys
<1>3. ASSUME NEW k \in DOMAIN db.tag_assignments
      PROVE  k[1] \in db.tags
  <2>1. PICK m \in applied["TagAssignment"] : m.key = k
    BY <1>1, <1>3 DEF TableKeys, KeysOf
  <2>2. m.op = "TagAssignment" /\ Companions(Sent, m)
    BY <1>1, <2>1, CompanionsAreApplied
  <2>3. \A key : Has(Sent, "UpsertTag", key) => key \in KeysOf("UpsertTag")
    BY <1>1, <2>1, CompanionsAreApplied
  <2>4. Has(Sent, "UpsertTag", k[1])
    BY <2>1, <2>2 DEF Companions
  <2> QED BY <1>1, <2>3, <2>4 DEF TableKeys
<1> QED BY <1>2, <1>3

\* Between events the tables agree: every edge that a job shows is in the graph,
\* the ends of the graph's edges, the runs' jobs and the assigned tags have rows,
\* and so have the version and the named columns of a dataset's shown schema, if
\* the schema facets that the folded events carry for that dataset parse.
THEOREM TablesAlwaysAgree == Spec => []TablesAgree
<1>1. IInv => TablesAgree
  <2>1. SUFFICES ASSUME IInv, todo = << >>
                 PROVE  TablesAgree
    BY DEF TablesAgree
  <2>2. ASSUME NEW j \in DOMAIN db.jobs
        PROVE  /\ \A d \in {db.jobs[j].inputs[i] : i \in DOMAIN db.jobs[j].inputs} :
                    <<<<"dataset", d>>, <<"job", j>>>> \in db.lineage_edges
               /\ \A d \in {db.jobs[j].outputs[i] : i \in DOMAIN db.jobs[j].outputs} :
                    <<<<"job", j>>, <<"dataset", d>>>> \in db.lineage_edges
               /\ j[1] \in DOMAIN db.namespaces
    BY <2>1, JobsAgree DEF InEdge, OutEdge
  <2>3. \A e \in db.lineage_edges : \A n \in {e[1], e[2]} :
          n[2] \in DOMAIN (IF n[1] = "job" THEN db.jobs ELSE db.datasets)
    BY <2>1, EdgesAgree
  <2>4. \A d \in DOMAIN db.datasets :
          LET fields == db.datasets[d].fields
          IN fields # << >> /\ Parses(d) =>
               /\ VersionOf(fields) # << >> => <<d, VersionOf(fields)>> \in DOMAIN db.dataset_versions
               /\ \A i \in DOMAIN fields : fields[i].name \notin Unnamed =>
                    <<d, fields[i].name>> \in DOMAIN db.dataset_fields
    BY <2>1, DatasetsAgree
  <2> QED BY <2>1, <2>2, <2>3, <2>4, RunsAndTagsAgree DEF TablesAgree
<1> QED BY <1>1, InductiveInvariant, PTL

-------------------------------------------------------------------------------
(* The metadata of the runs *)

\* A run's row after the metadata mutations S.
RunMetaRow(row, S) == Stamp(S, row["meta_at"]) /\ Shows(row, LatestIn(S))
RunMetaColumns == {"nominal", "parent_run_id", "error_message"}

LEMMA SameRunMetaRow ==
  ASSUME NEW row, NEW S, RunMetaRow(row, S), \A n \in S : DOMAIN n.meta = RunMetaColumns,
         NEW new, SameMeta(new, row)
  PROVE  RunMetaRow(new, S)
<1>1. \A n \in LatestIn(S) : DOMAIN n.meta = RunMetaColumns
  BY DEF LatestIn
<1>2. \A c \in UNION {DOMAIN n.meta : n \in LatestIn(S)} : new[c] = row[c]
  BY <1>1 DEF SameMeta, RunMetaColumns
<1> QED BY <1>2 DEF RunMetaRow, Shows, SameMeta

LEMMA SetRunMetaShows ==
  ASSUME NEW old, NEW S, RunMetaRow(old, S), DOMAIN old = RunColumns, NEW m, WellFormed(m),
         m.op = "SetRunMeta", \A n \in S : n.at \in Int /\ DOMAIN n.meta = RunMetaColumns,
         NEW new, new = SetMeta(old, m), Null \notin Int
  PROVE  RunMetaRow(new, S \cup {m})
<1>1. m.at \in Int /\ DOMAIN m.meta = RunMetaColumns
  BY DEF WellFormed, RunMetaColumns
<1>2. "meta_at" \in DOMAIN old /\ DOMAIN m.meta \subseteq DOMAIN old \ {"meta_at"}
  BY <1>1 DEF RunColumns, RunMetaColumns
<1>3. Stamp(S, old["meta_at"]) /\ Shows(old, LatestIn(S))
  BY DEF RunMetaRow
<1>4. \A X : X \ {} = X
  OBVIOUS
<1>5. Shows(old, LatestIn(S) \ {})
  BY <1>3, <1>4
<1>6. m \notin {} /\ (\A n \in S : n.at \in Int) /\ \A n \in S \ {} : DOMAIN n.meta = DOMAIN m.meta
  BY <1>1
<1>7. Stamp(S \cup {m}, new["meta_at"]) /\ Shows(new, LatestIn(S \cup {m}) \ {})
  BY ONLY <1>1, <1>2, <1>3, <1>5, <1>6, Null \notin Int, new = SetMeta(old, m), SetMetaShows
<1> QED BY <1>4, <1>7 DEF RunMetaRow

RunMetas == \A r \in DOMAIN db.runs : RunMetaRow(db.runs[r], Of("SetRunMeta", r))

LEMMA RunMetasAsRows ==
  RunMetas <=> /\ \A r \in DOMAIN db.runs : Stamp(Of("SetRunMeta", r), db.runs[r].meta_at)
               /\ RunMetaIsShown
BY DEF RunMetas, RunMetaRow, RunMetaIsShown

LEMMA ApplyRunMetas ==
  ASSUME Mutations, TableKeys, Runs, RunMetas, KeysOf("SetRunMeta") \subseteq DOMAIN db.runs, Apply
  PROVE  RunMetas'
<1>1. SUFFICES ASSUME NEW r, NEW t, t = db.runs, NEW t2, t2 = db'.runs, NEW m, m = Head(todo),
                      NEW S, S = Of("SetRunMeta", r), NEW U, U = Of("UpsertRunState", r),
                      NEW S2, S2 = Of("SetRunMeta", r)', r \in DOMAIN t2
               PROVE  RunMetaRow(t2[r], S2)
  BY DEF RunMetas
<1>2. /\ m.op \in Ops /\ WellFormed(m)
      /\ \A op \in Ops : applied'[op] = IF op = m.op THEN applied[op] \cup {m} ELSE applied[op]
  BY <1>1, StepOfApply
<1>3. S2 = IF "SetRunMeta" = m.op /\ r = m.key THEN S \cup {m} ELSE S
  <2>1. "SetRunMeta" \in Ops
    BY DEF Ops
  <2>2. Of("SetRunMeta", r)' = IF "SetRunMeta" = m.op /\ r = m.key
                               THEN Of("SetRunMeta", r) \cup {m} ELSE Of("SetRunMeta", r)
    BY <1>2, <2>1, Grow
  <2> QED BY <1>1, <2>2
<1>4. \A n \in S : n.at \in Int /\ DOMAIN n.meta = RunMetaColumns
  <2>1. \A n \in applied["SetRunMeta"] : n.op = "SetRunMeta" /\ WellFormed(n)
    BY DEF Mutations, Sent, Ops
  <2>2. \A n \in S : n \in applied["SetRunMeta"]
    BY <1>1 DEF Of
  <2> QED BY <2>1, <2>2 DEF WellFormed, RunMetaColumns
<1>5. /\ r \in DOMAIN t => RunMetaRow(t[r], S)
      /\ r \notin DOMAIN t => S = {}
  <2>1. r \in DOMAIN t => RunMetaRow(t[r], S)
    BY <1>1 DEF RunMetas
  <2>2. ASSUME r \notin DOMAIN t
        PROVE  S = {}
    <3>1. r \notin KeysOf("SetRunMeta")
      BY <1>1, <2>2
    <3> QED BY <1>1, <3>1 DEF KeysOf, Of
  <2> QED BY <2>1, <2>2
<1>6. /\ m.op = "UpsertRunState" /\ r = m.key =>
           \E old : /\ old = RowOf(t, m.key, FreshRun(m))
                    /\ IF r \in DOMAIN t THEN RunRow(old, U) ELSE U = {}
                    /\ t2 = fold_run(t, m)
      /\ m.op = "SetRunMeta" /\ r = m.key =>
           r \in DOMAIN t /\ t2 = Put(t, m.key, SetMeta(t[m.key], m))
      /\ ~ (m.op \in {"UpsertRunState", "SetRunMeta"} /\ r = m.key) =>
           r \in DOMAIN t /\ t2[r] = t[r]
      /\ r \in DOMAIN t => RunRow(t[r], U)
  BY <1>1, RunStep
<1>7. CASE m.op = "UpsertRunState" /\ r = m.key
  <2>1. PICK old : /\ old = RowOf(t, m.key, FreshRun(m))
                   /\ IF m.key \in DOMAIN t THEN RunRow(old, U) ELSE U = {}
                   /\ t2 = fold_run(t, m)
    BY <1>6, <1>7
  <2>2. SameMeta(t2[m.key], old)
    BY <1>2, <1>7, <2>1, ReadModelAssumption, UpsertRunStateRow
  <2>3. RunMetaRow(old, S)
    <3>1. CASE r \in DOMAIN t
      BY <1>5, <1>7, <2>1, <3>1 DEF RowOf
    <3>2. CASE r \notin DOMAIN t
      <4>1. old["meta_at"] = Null
        BY <1>7, <2>1, <3>2 DEF RowOf, FreshRun
      <4>2. S = {} /\ LatestIn({}) = {}
        BY <1>5, <3>2 DEF LatestIn
      <4> QED BY <4>1, <4>2 DEF RunMetaRow, Stamp, Shows
    <3> QED BY <3>1, <3>2
  <2>4. RunMetaRow(t2[m.key], S)
    BY <1>4, <2>2, <2>3, SameRunMetaRow
  <2> QED BY <1>3, <1>7, <2>4
<1>8. CASE m.op = "SetRunMeta" /\ r = m.key
  <2> DEFINE old == t[m.key]
             row == SetMeta(old, m)
  <2>1. RunRow(old, U) /\ t2[m.key] = Put(t, m.key, row)[m.key] /\ r \in DOMAIN t
    BY <1>6, <1>8
  <2>2. SameMeta(t2[m.key], row)
    BY <1>2, <1>8, <2>1, SetRunMetaRow
  <2>3. DOMAIN old = RunColumns /\ RunMetaRow(old, S)
    BY <1>5, <1>8, <2>1 DEF RunRow
  <2>4. RunMetaRow(row, S \cup {m})
    BY <1>2, <1>4, <1>8, <2>3, ReadModelAssumption, SetRunMetaShows
  <2>5. \A n \in S \cup {m} : DOMAIN n.meta = RunMetaColumns
    BY <1>2, <1>4, <1>8 DEF WellFormed, RunMetaColumns
  <2> HIDE DEF row
  <2>6. RunMetaRow(t2[m.key], S \cup {m})
    BY <2>2, <2>4, <2>5, SameRunMetaRow
  <2> QED BY <1>3, <1>8, <2>6
<1>9. CASE ~ (m.op \in {"UpsertRunState", "SetRunMeta"} /\ r = m.key)
  BY <1>3, <1>5, <1>6, <1>9
<1> QED BY <1>7, <1>8, <1>9

\* The part of the invariant that needs the runs to name their jobs.
MetaParts == RunMetas /\ RowsFirst("SetRunMeta", "UpsertRunState", DOMAIN db.runs)

LEMMA MetaPartsAreInductive ==
  ASSUME RunsNameTheirJob, Parts, Parts', MetaParts, [Next]_vars
  PROVE  MetaParts'
<1>1. Mutations /\ TableKeys /\ Runs /\ TableKeys'
  BY DEF Parts
<1>2. KeysOf("SetRunMeta") \subseteq DOMAIN db.runs
  BY DEF MetaParts, RowsFirst
<1>3. CASE Apply
  <2>1. RunMetas'
    BY <1>1, <1>2, <1>3, ApplyRunMetas DEF MetaParts
  <2>2. SUFFICES ASSUME NEW rows, rows = DOMAIN db.runs, NEW rows2, rows2 = DOMAIN db'.runs
                 PROVE  RowsFirst("SetRunMeta", "UpsertRunState", DOMAIN db.runs)'
    BY <2>1 DEF MetaParts
  <2>3. rows = KeysOf("UpsertRunState") /\ rows2 = KeysOf("UpsertRunState")'
    BY <1>1, <2>2 DEF TableKeys
  <2>4. "SetRunMeta" \in Ops /\ "UpsertRunState" \in Ops
    BY DEF Ops
  <2>5. RowsFirst("SetRunMeta", "UpsertRunState", rows)
    BY <2>2 DEF MetaParts
  <2>6. KeysOf("SetRunMeta")' \subseteq rows2 /\ Behind(todo', "SetRunMeta", "UpsertRunState", rows2)
    BY <1>1, <1>3, <2>3, <2>4, <2>5, RowsFirstApply
  <2> QED BY <2>2, <2>6 DEF RowsFirst, Behind
<1>4. ASSUME NEW doc \in Documents, Process(doc)
      PROVE  MetaParts'
  <2>1. db' = db /\ applied' = applied
    BY <1>4 DEF Process
  <2>2. RunMetas'
    BY <2>1 DEF MetaParts, RunMetas, Of
  <2>3. Ordered(MutationsOf(EventRow(doc)), "SetRunMeta", "UpsertRunState")
    BY DocumentMutations
  <2>4. /\ KeysOf("SetRunMeta")' \subseteq DOMAIN db.runs
        /\ Behind(todo', "SetRunMeta", "UpsertRunState", DOMAIN db.runs)
    BY <1>2, <1>4, <2>3, ProcessRowsFirst
  <2> QED BY <2>1, <2>2, <2>4 DEF MetaParts, RowsFirst, Behind
<1>5. CASE UNCHANGED vars
  BY <1>5 DEF vars, MetaParts, RunMetas, RowsFirst, Of, KeysOf
<1> QED BY <1>3, <1>4, <1>5 DEF Next

\* Every row shows its newest metadata, if the run events name their jobs: an
\* UPDATE of a run's metadata then always finds the run's row.
THEOREM NewestMetaIsAlwaysShown ==
  ASSUME RunsNameTheirJob
  PROVE  Spec => []NewestMetaIsShown
<1>1. Init => Parts /\ MetaParts
  BY InitIInv, IInvAsParts, RunMetasAsRows DEF RunMetaInv, MetaParts
<1>2. Parts /\ MetaParts /\ [Next]_vars => (Parts /\ MetaParts)'
  BY PartsAreInductive, MetaPartsAreInductive
<1>3. Parts /\ MetaParts => NewestMetaIsShown
  BY IInvAsParts, RunMetasAsRows DEF IInv, MetaParts, NewestMetaIsShown
<1> QED BY <1>1, <1>2, <1>3, PTL DEF Spec

==============================================================================
