------------------------------ MODULE BatchIngest ------------------------------
(***************************************************************************)
(* POST /api/v1/lineage and /lineage/batch (http.rs ingest_event and       *)
(* ingest_batch, ingest/converter.rs): the documents of a request are      *)
(* converted, then handed one by one to a writer that may stop in between; *)
(* the client sends a request again that was refused or whose answer it    *)
(* did not get.  BufferedWriter and Service model what the writer does.    *)
(***************************************************************************)
EXTENDS Integers, Sequences, FiniteSets, Selection

CONSTANTS
  Bodies,      \* the requests: sequences of documents
  MaxAttempts, \* bound: times a request is sent
  Null

\* A document is a record of what decides its fate: whether it is a JSON object,
\* which members it has, whether it has a time, and whether the message of its
\* kind can be read from it.
Doc == [object : BOOLEAN, time : BOOLEAN, typed : BOOLEAN, has : SUBSET {"run", "job", "dataset"}]

ASSUME BatchIngestAssumption ==
  /\ Bodies \subseteq Seq(Doc)
  /\ MaxAttempts \in Nat
  /\ Null \notin {"run", "job", "dataset"}

VARIABLES
  pc,        \* "idle", "enqueue", "answered"
  single,    \* the request is for one event, not a batch
  body,      \* its documents
  events,    \* indexes of the converted ones not enqueued yet
  failures,  \* indexes of the others
  answer,    \* the response, or Null
  attempts,  \* times the request was sent
  writer,    \* the writer is running
  accepted   \* indexes of the events it accepted, in order

vars == <<pc, single, body, events, failures, answer, attempts, writer, accepted>>

-------------------------------------------------------------------------------
(* The converter *)

Readable(doc) == doc.object /\ doc.time /\ doc.typed
\* Mutation: a dataset of a run makes a dataset event.
DatasetFirst(doc) ==
  CASE Readable(doc) /\ "dataset" \in doc.has -> "dataset"
    [] Readable(doc) /\ doc.has = {"run", "job"} -> "run"
    [] Readable(doc) /\ doc.has = {"job"} -> "job"
    [] OTHER -> Null
build_event(doc) ==
  CASE Readable(doc) /\ {"run", "job"} \subseteq doc.has -> "run"
    [] Readable(doc) /\ "dataset" \in doc.has /\ "run" \notin doc.has -> "dataset"
    [] Readable(doc) /\ doc.has = {"job"} -> "job"
    [] OTHER -> Null

Converted(docs) == InOrder({i \in DOMAIN docs : build_event(docs[i]) # Null})
convert_batch(docs) ==
  [events |-> Converted(docs),
   failures |-> {i \in DOMAIN docs : build_event(docs[i]) = Null}]

-------------------------------------------------------------------------------
(* The handlers *)

Init ==
  /\ pc = "idle" /\ single = FALSE /\ body = << >> /\ events = << >> /\ failures = {}
  /\ answer = Null /\ attempts = 0 /\ writer = TRUE /\ accepted = << >>

\* The body arrives; a single event that does not convert is a 400.
Arrive(docs, one) ==
  LET outcome == convert_batch(docs)
  IN /\ events' = outcome.events /\ failures' = outcome.failures
     /\ IF one /\ outcome.failures # {}
        THEN pc' = "answered" /\ answer' = [status |-> 400]
        ELSE pc' = "enqueue" /\ answer' = Null
     /\ attempts' = attempts + 1

\* The body of a batch is not an array: a 400 before any document is looked at.
PostNoArray ==
  /\ pc = "idle"
  /\ pc' = "answered" /\ answer' = [status |-> 400] /\ attempts' = attempts + 1
  /\ UNCHANGED <<single, body, events, failures, writer, accepted>>

Post(docs, one) ==
  /\ pc = "idle" /\ (one => Len(docs) = 1)
  /\ body' = docs /\ single' = one
  /\ Arrive(docs, one)
  /\ UNCHANGED <<writer, accepted>>

\* Mutation: an event the stopped writer refuses is passed over.
EnqueueOrSkip ==
  /\ pc = "enqueue" /\ events # << >>
  /\ accepted' = IF writer THEN Append(accepted, Head(events)) ELSE accepted
  /\ events' = Tail(events)
  /\ UNCHANGED <<pc, single, body, failures, answer, attempts, writer>>
Enqueue ==
  /\ pc = "enqueue" /\ events # << >> /\ writer
  /\ accepted' = Append(accepted, Head(events))
  /\ events' = Tail(events)
  /\ UNCHANGED <<pc, single, body, failures, answer, attempts, writer>>

\* The writer has stopped: 503, whatever was enqueued before.
Unavailable ==
  /\ pc = "enqueue" /\ events # << >> /\ ~ writer
  /\ pc' = "answered" /\ answer' = [status |-> 503]
  /\ UNCHANGED <<single, body, events, failures, attempts, writer, accepted>>

Respond ==
  /\ pc = "enqueue" /\ events = << >>
  /\ pc' = "answered"
  /\ answer' = [status |-> 202, received |-> Len(body),
                successful |-> Len(Converted(body)), failed |-> failures]
  /\ UNCHANGED <<single, body, events, failures, attempts, writer, accepted>>

\* The client goes away and the handler is dropped where it awaits.
HangUp ==
  /\ pc = "enqueue"
  /\ pc' = "answered" /\ answer' = Null
  /\ UNCHANGED <<single, body, events, failures, attempts, writer, accepted>>

\* Without an acceptance the client sends all of it again.
Resend ==
  /\ pc = "answered" /\ (answer = Null \/ answer = [status |-> 503])
  /\ attempts < MaxAttempts
  /\ Arrive(body, single)
  /\ UNCHANGED <<single, body, writer, accepted>>

\* The process stops and another one starts.
StopWriter == writer /\ writer' = FALSE
StartWriter == ~ writer /\ writer' = TRUE

Next ==
  \/ \E docs \in Bodies, one \in BOOLEAN : Post(docs, one)
  \/ PostNoArray \/ Enqueue \/ Unavailable \/ Respond \/ HangUp \/ Resend
  \/ /\ StopWriter \/ StartWriter
     /\ UNCHANGED <<pc, single, body, events, failures, answer, attempts, accepted>>

Spec == Init /\ [][Next]_vars

-------------------------------------------------------------------------------
(* Properties *)

\* Which documents are events, as the module's comment has it.
IsEvent(doc) ==
  Readable(doc)
  /\ ({"run", "job"} \subseteq doc.has
      \/ doc.has \cap {"run", "job", "dataset"} \in {{"job"}, {"dataset"}, {"job", "dataset"}})

\* An acceptance accounts for every document of the request: those that are
\* events are with the writer, in their order, and the failures name the others,
\* also when earlier attempts were cut short (ingest_batch, convert_batch).
AcceptanceAddsUp ==
  answer # Null /\ answer.status = 202 =>
    /\ answer.received = Len(body)
    /\ answer.successful + Cardinality(answer.failed) = answer.received
    /\ answer.failed = {i \in DOMAIN body : ~ IsEvent(body[i])}
    /\ LET n == answer.successful
           last == SubSeq(accepted, Len(accepted) - n + 1, Len(accepted))
       IN n <= Len(accepted) /\ last = InOrder({i \in DOMAIN body : IsEvent(body[i])})

\* What a request leaves with the writer, accepted or cut short, is made of
\* beginnings of its events, one per attempt: nothing out of order, no event more
\* often than the request was sent.
AttemptsLeavePrefixes ==
  \A i \in DOMAIN accepted :
    /\ Cardinality({j \in DOMAIN accepted : accepted[j] = accepted[i]}) <= attempts
    /\ i > 1 => \/ accepted[i] = Converted(body)[1]
                \/ \E k \in 2..Len(Converted(body)) :
                     Converted(body)[k - 1] = accepted[i - 1] /\ Converted(body)[k] = accepted[i]

-------------------------------------------------------------------------------
(* The inductive invariant behind both *)

\* Events of the request that this attempt has enqueued.
Enqueued == Len(Converted(body)) - Len(events)
Copies(e) == {j \in DOMAIN accepted : accepted[j] = e}

TypeOK ==
  /\ pc \in {"idle", "enqueue", "answered"}
  /\ body \in Seq(Doc)
  /\ events \in Seq(DOMAIN body)
  /\ failures = convert_batch(body).failures
  /\ attempts \in Nat
  /\ accepted \in Seq(DOMAIN body)

\* What is left of an attempt is the end of its events, and the writer got the
\* others last, in their order.
AttemptInOrder ==
  /\ Enqueued \in 0..Len(Converted(body)) /\ Enqueued <= Len(accepted)
  /\ events = [n \in 1..Len(events) |-> Converted(body)[Enqueued + n]]
  /\ \A n \in 1..Enqueued : accepted[Len(accepted) - Enqueued + n] = Converted(body)[n]

\* An event that this attempt has not enqueued has a copy per earlier attempt at
\* most.
CopiesPerAttempt ==
  \A n \in DOMAIN Converted(body) :
    /\ Cardinality(Copies(Converted(body)[n])) <= attempts
    /\ n > Enqueued => Cardinality(Copies(Converted(body)[n])) < attempts

\* A 202 has been given once all is enqueued, and says what there was.
AnswerIsOfBody ==
  answer # Null /\ answer.status = 202 =>
    /\ events = << >>
    /\ answer = [status |-> 202, received |-> Len(body),
                  successful |-> Len(Converted(body)), failed |-> failures]

IInv ==
  /\ TypeOK
  /\ IF pc = "idle" THEN body = << >> /\ events = << >> /\ accepted = << >> /\ answer = Null
     ELSE AttemptInOrder /\ CopiesPerAttempt /\ AnswerIsOfBody
  /\ AttemptsLeavePrefixes
==============================================================================
