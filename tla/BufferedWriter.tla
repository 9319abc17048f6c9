---------------------------- MODULE BufferedWriter ----------------------------
(***************************************************************************)
(* The buffered writer (src/crates/headwaters/src/writer/buffered.rs): the *)
(* HTTP handlers enqueue events on a bounded channel, one task batches     *)
(* them and appends each batch to the `events` table, and `pending` counts *)
(* what was enqueued and is not written, for flushed().                    *)
(*                                                                         *)
(* A request is one POST of a batch of events, which its handler enqueues  *)
(* one after the other.  Time is not modelled: an interval tick, a backoff *)
(* or the drain timeout may end at any moment.                             *)
(***************************************************************************)
EXTENDS Integers, Sequences, FiniteSets, Functions

CONSTANTS
  Requests,     \* the requests of a run
  BatchLen,     \* how many events each request carries
  CAPACITY,     \* channel_capacity
  BUFFER_SIZE,  \* buffer_size
  MAX_RETRIES,  \* flush_max_retries
  InsertLimit,  \* rows that fit the bind parameters of one INSERT
  MaxFails,     \* bound: INSERTs the database refuses or never receives
  MaxLostAcks   \* bound: INSERTs that commit and are reported as failed

ASSUME RequestAssumption == BatchLen \in [Requests -> Nat \ {0}]
ASSUME ConfigAssumption ==
  CAPACITY \in Nat \ {0} /\ BUFFER_SIZE \in Nat \ {0} /\ MAX_RETRIES \in Nat

VARIABLES
  req,       \* where the handler of a request is
  sent,      \* how many of its events were enqueued
  pending,   \* events counted by enqueue and not uncounted
  channel,   \* the events in the channel
  task,      \* the statement the task is at
  buf,       \* the events it has taken from the channel
  attempt,   \* append attempts of the flush under way that have failed
  draining,  \* the flush was called after the channel closed
  serving,   \* the host still has a router that accepts requests
  stopping,  \* shutdown was called: the writer's own handle is dropped
  log,       \* the rows of the `events` table, in insertion order
  accepted,  \* the events whose enqueue returned Ok, in order (history)
  fails,     \* failed INSERTs so far
  lostAcks   \* INSERTs so far that committed and were reported as failed

requestVars == <<req, sent>>
taskVars == <<task, attempt, draining>>
hostVars == <<serving, stopping>>
sinkVars == <<log, fails, lostAcks>>
vars == <<requestVars, pending, channel, taskVars, buf, hostVars, sinkVars, accepted>>


Event == Requests \X (Nat \ {0})

-------------------------------------------------------------------------------
(* BufferedWriterHandle::enqueue, called by ingest_event and ingest_batch.    *)
(* The task owns the receiver, so the channel takes no event once it is gone. *)

Alive == task \notin {"returned", "aborted"}

\* The requests inside enqueue: their event is counted and not yet sent.
Counted == {q \in Requests : req[q] \in {"sending", "waiting"}}

\* The requests that hold a handle of the writer.
InFlight == {q \in Requests : req[q] \in {"sending", "waiting", "next"}}

\* Mutation: enqueue does not count the event.
SendUncounted(q) ==
  /\ req[q] = "next" \/ (req[q] = "idle" /\ serving)
  /\ req' = [req EXCEPT ![q] = "sending"]
  /\ UNCHANGED <<pending, sent, channel, taskVars, buf, hostVars, sinkVars, accepted>>

\* "Count before sending, so the task can never flush (and uncount) it first."
Count(q) ==
  /\ req[q] = "next" \/ (req[q] = "idle" /\ serving)
  /\ pending' = pending + 1
  /\ req' = [req EXCEPT ![q] = "sending"]
  /\ UNCHANGED <<sent, channel, taskVars, buf, hostVars, sinkVars, accepted>>

\* The channel is full: the handler awaits a slot.
AwaitSlot(q) ==
  /\ req[q] = "sending"
  /\ Alive
  /\ Len(channel) = CAPACITY
  /\ req' = [req EXCEPT ![q] = "waiting"]
  /\ UNCHANGED <<sent, pending, channel, taskVars, buf, hostVars, sinkVars, accepted>>

\* enqueue returns Ok; after the last event the handler answers 202.
Send(q) ==
  /\ q \in Counted
  /\ Alive
  /\ Len(channel) < CAPACITY
  /\ LET e == <<q, sent[q] + 1>>
     IN  /\ channel' = Append(channel, e)
         /\ accepted' = Append(accepted, e)
  /\ sent' = [sent EXCEPT ![q] = sent[q] + 1]
  /\ req' = [req EXCEPT ![q] =
               IF sent[q] + 1 = BatchLen[q] THEN "accepted" ELSE "next"]
  /\ UNCHANGED <<pending, taskVars, buf, hostVars, sinkVars>>

\* Mutation: a handler that awaits a slot is not woken when the task stops.
SendFailsAtOnce(q) ==
  /\ req[q] = "sending"
  /\ ~Alive
  /\ pending' = pending - 1
  /\ req' = [req EXCEPT ![q] = "unavailable"]
  /\ UNCHANGED <<sent, channel, taskVars, buf, hostVars, sinkVars, accepted>>

\* The task has stopped: enqueue returns EnqueueError, the handler 503, for
\* the rest of the batch too.
SendFails(q) ==
  /\ q \in Counted
  /\ ~Alive
  /\ pending' = pending - 1
  /\ req' = [req EXCEPT ![q] = "unavailable"]
  /\ UNCHANGED <<sent, channel, taskVars, buf, hostVars, sinkVars, accepted>>

\* The client hangs up while the handler awaits a slot: the server drops the
\* handler, and with it the future of enqueue, which uncounts nothing.
Cancel(q) ==
  /\ req[q] = "waiting"
  /\ req' = [req EXCEPT ![q] = "gone"]
  /\ UNCHANGED <<sent, pending, channel, taskVars, buf, hostVars, sinkVars, accepted>>

-------------------------------------------------------------------------------
(* The task: run, flush and append_all, with the one sink that spawn allows. *)

StartFlush ==
  /\ task' = "insert"
  /\ attempt' = 0

\* Mutation: a received event is put before the retained ones.
ReceiveInFront ==
  /\ task = "select"
  /\ channel # << >>
  /\ buf' = <<Head(channel)>> \o buf
  /\ channel' = Tail(channel)
  /\ IF Len(buf') >= BUFFER_SIZE THEN StartFlush ELSE UNCHANGED <<task, attempt>>
  /\ UNCHANGED <<requestVars, pending, draining, hostVars, sinkVars, accepted>>

\* The branch of rx.recv() with an event.
Receive ==
  /\ task = "select"
  /\ channel # << >>
  /\ buf' = Append(buf, Head(channel))
  /\ channel' = Tail(channel)
  /\ IF Len(buf') >= BUFFER_SIZE THEN StartFlush ELSE UNCHANGED <<task, attempt>>
  /\ UNCHANGED <<requestVars, pending, draining, hostVars, sinkVars, accepted>>

\* Mutation: only a full buffer is flushed.
TickWhenFull ==
  /\ task = "select"
  /\ Len(buf) >= BUFFER_SIZE
  /\ StartFlush
  /\ UNCHANGED <<requestVars, pending, channel, buf, draining, hostVars, sinkVars, accepted>>

\* The branch of interval.tick(); flush returns at once on an empty buffer.
Tick ==
  /\ task = "select"
  /\ buf # << >>
  /\ StartFlush
  /\ UNCHANGED <<requestVars, pending, channel, buf, draining, hostVars, sinkVars, accepted>>

\* The branch of rx.recv() with None: every handle is dropped.
Drain ==
  /\ task = "select"
  /\ channel = << >>
  /\ stopping /\ ~serving /\ InFlight = {}
  /\ draining' = TRUE
  /\ IF buf = << >> THEN task' = "returned" /\ UNCHANGED attempt ELSE StartFlush
  /\ UNCHANGED <<requestVars, pending, channel, buf, hostVars, sinkVars, accepted>>

\* PostgresSink::append: one INSERT of the whole buffer, all rows or none.
InsertCommits ==
  /\ task = "insert"
  /\ Len(buf) <= InsertLimit
  /\ log' = log \o buf
  /\ task' = "answer"
  /\ UNCHANGED <<requestVars, pending, channel, buf, attempt, draining, hostVars,
                 fails, lostAcks, accepted>>

\* append returned an error: another attempt after a backoff, or the batch is
\* retained for the next trigger, which during the drain is the next turn.
AttemptFailed ==
  IF attempt < MAX_RETRIES
  THEN task' = "insert" /\ attempt' = attempt + 1
  ELSE /\ attempt' = 0
       /\ task' = IF draining THEN "insert" ELSE "select"

\* The INSERT has more bind parameters than the protocol can number.
InsertTooLarge ==
  /\ task = "insert"
  /\ Len(buf) > InsertLimit
  /\ AttemptFailed
  /\ UNCHANGED <<requestVars, pending, channel, buf, draining, hostVars, sinkVars, accepted>>

\* Mutation: the batch of a failed flush is dropped.
InsertFailsAndDrops ==
  /\ task = "insert"
  /\ fails < MaxFails
  /\ fails' = fails + 1
  /\ task' = IF draining THEN "returned" ELSE "select"
  /\ buf' = << >>
  /\ UNCHANGED <<requestVars, pending, channel, attempt, draining, hostVars, log, lostAcks,
                 accepted>>
\* Mutation: the rows are inserted one by one, and the first before the failure.
InsertFailsHalfway ==
  /\ task = "insert"
  /\ fails < MaxFails
  /\ fails' = fails + 1
  /\ AttemptFailed
  /\ log' = Append(log, Head(buf))
  /\ UNCHANGED <<requestVars, pending, channel, buf, draining, hostVars, lostAcks, accepted>>

\* No connection, or the statement is rolled back.
InsertFails ==
  /\ task = "insert"
  /\ Len(buf) <= InsertLimit
  /\ fails < MaxFails
  /\ fails' = fails + 1
  /\ AttemptFailed
  /\ UNCHANGED <<requestVars, pending, channel, buf, draining, hostVars, log, lostAcks,
                 accepted>>

\* The INSERT has committed and the connection breaks before the answer.
AnswerLost ==
  /\ task = "answer"
  /\ lostAcks < MaxLostAcks
  /\ lostAcks' = lostAcks + 1
  /\ AttemptFailed
  /\ UNCHANGED <<requestVars, pending, channel, buf, draining, hostVars, log, fails, accepted>>

\* append returned Ok: the buffer is cleared and its events uncounted.
Written ==
  /\ task = "answer"
  /\ buf' = << >>
  /\ pending' = pending - Len(buf)
  /\ task' = IF draining THEN "returned" ELSE "select"
  /\ UNCHANGED <<requestVars, channel, attempt, draining, hostVars, sinkVars, accepted>>

-------------------------------------------------------------------------------
(* Shutdown *)

\* The host drops its last router: no request arrives any more.  Requests in
\* flight keep their handle, unless the host waits for them (axum's graceful
\* shutdown in run does).
DropRouter ==
  /\ serving
  /\ serving' = FALSE
  /\ UNCHANGED <<requestVars, pending, channel, taskVars, buf, stopping, sinkVars, accepted>>

\* shutdown drops the writer's own handle and starts the drain timeout.
Shutdown ==
  /\ ~stopping
  /\ stopping' = TRUE
  /\ UNCHANGED <<requestVars, pending, channel, taskVars, buf, serving, sinkVars, accepted>>

\* Mutation: the abort forgets what was pending.
DrainTimeoutForgets ==
  /\ stopping
  /\ Alive
  /\ task' = "aborted"
  /\ pending' = 0
  /\ channel' = << >>
  /\ buf' = << >>
  /\ UNCHANGED <<requestVars, attempt, draining, hostVars, sinkVars, accepted>>

\* The drain timeout expires: task.abort() drops the channel and the buffer.
DrainTimeout ==
  /\ stopping
  /\ Alive
  /\ task' = "aborted"
  /\ channel' = << >>
  /\ buf' = << >>
  /\ UNCHANGED <<requestVars, pending, attempt, draining, hostVars, sinkVars, accepted>>

-------------------------------------------------------------------------------
Init ==
  /\ req = [q \in Requests |-> "idle"]
  /\ sent = [q \in Requests |-> 0]
  /\ pending = 0
  /\ channel = << >>
  /\ task = "select"
  /\ buf = << >>
  /\ attempt = 0
  /\ draining = FALSE
  /\ serving = TRUE
  /\ stopping = FALSE
  /\ log = << >>
  /\ accepted = << >>
  /\ fails = 0
  /\ lostAcks = 0

Handler(q) == Count(q) \/ AwaitSlot(q) \/ Send(q) \/ SendFails(q) \/ Cancel(q)

Sink == InsertCommits \/ InsertTooLarge \/ InsertFails \/ AnswerLost \/ Written

Next ==
  \/ \E q \in Requests : Handler(q)
  \/ Receive \/ Tick \/ Drain \/ Sink
  \/ DropRouter \/ Shutdown \/ DrainTimeout

Spec == Init /\ [][Next]_vars

\* tokio polls the handlers and the task, and hands the slots of the channel
\* to the waiting senders in turn; select! picks among its ready branches at
\* random; the interval keeps ticking, INSERTs end, and a drain timeout that
\* was started expires.
Fairness ==
  /\ \A q \in Requests : /\ WF_vars(req[q] # "idle" /\ Count(q))
                         /\ SF_vars(Send(q))
                         /\ WF_vars(SendFails(q))
  /\ SF_vars(Receive) /\ SF_vars(Tick) /\ WF_vars(Drain)
  /\ WF_vars(Sink)
  /\ WF_vars(DrainTimeout)

FairSpec == Spec /\ Fairness

-------------------------------------------------------------------------------
(* Properties *)

\* Every variable holds a value of its kind; in particular the subtractions
\* from the unsigned `pending` never go below zero, and the channel keeps to
\* its capacity.
TypeOK ==
  /\ req \in [Requests -> {"idle", "sending", "waiting", "next",
                           "accepted", "unavailable", "gone"}]
  /\ sent \in [Requests -> Nat]
  /\ pending \in Nat
  /\ channel \in Seq(Event) /\ Len(channel) <= CAPACITY
  /\ task \in {"select", "insert", "answer", "returned", "aborted"}
  /\ buf \in Seq(Event)
  /\ attempt \in 0..MAX_RETRIES
  /\ draining \in BOOLEAN /\ serving \in BOOLEAN /\ stopping \in BOOLEAN
  /\ log \in Seq(Event)
  /\ accepted \in Seq(Event)
  /\ fails \in Nat /\ lostAcks \in Nat

\* "Resolve once [...] everything enqueued through any handle so far has
\* reached the sinks": flushed() cannot resolve while an accepted event is
\* unwritten, not even after a drain was aborted or a request cancelled.
FlushedMeansWritten == pending = 0 => Range(accepted) \subseteq Range(log)

\* "Backpressure, not drop": an accepted event is written, or in the hands of
\* the writer, or the shutdown that lost it ran into its timeout.  In
\* particular the task never returns with an event unwritten.
NothingDropped ==
  /\ task # "aborted"
       => Range(accepted) \subseteq Range(log) \cup Range(buf) \cup Range(channel)
  /\ task = "returned" => Range(accepted) \subseteq Range(log)

\* Retries do not reorder: an event is first written after every event that
\* was accepted before it.
WrittenInOrder ==
  \A m, n \in DOMAIN accepted : m < n =>
    \A j \in DOMAIN log : log[j] = accepted[n] =>
      \E i \in 1..(j - 1) : log[i] = accepted[m]

\* An event is inserted again only because the answer to an INSERT was lost,
\* once for every lost answer; failed attempts, retained batches and the drain
\* insert nothing twice.
Copies(s, e) == {i \in DOMAIN s : s[i] = e}
DuplicatesOnlyFromLostAnswers ==
  \A e \in Range(log) : Cardinality(Copies(log, e)) <= 1 + lostAcks

\* A retained batch that no INSERT can take any more.
Outgrown == Len(buf) > InsertLimit

\* Every accepted event is written in the end, through outages that end, unless
\* the writer is shut down and its drain is aborted, or what it retained has
\* outgrown an INSERT.
AcceptedIsWritten ==
  \A q \in Requests : \A n \in 1..BatchLen[q] :
    (<<q, n>> \in Range(accepted))
      ~> (<<q, n>> \in Range(log) \/ task = "aborted" \/ Outgrown)

\* Backpressure is released: a handler that has counted an event gets on,
\* whether the writer runs, drains or was aborted.
RequestsAnswered ==
  \A q \in Requests :
    (req[q] \in {"sending", "waiting", "next"})
      ~> (req[q] \in {"accepted", "unavailable", "gone"})

\* How many accepted events, from the first on, are acknowledged or given up.
Settled == Len(accepted) - Len(buf) - Len(channel)

\* The writer is an at-least-once queue in front of the log: through channel,
\* retained buffer, retries, drain and abort it behaves as IngestLog.
Abstract ==
  INSTANCE IngestLog WITH settled <- Settled, aborted <- task = "aborted"
ImplementsIngestLog == Abstract!Spec

-------------------------------------------------------------------------------
(* What comments in the code say and the code does not do *)

\* `pending` is the number of "events enqueued but not yet durably written".
PendingIsUnwritten ==
  Alive => pending = Cardinality(Counted) + Len(channel) + Len(buf)

\* "A transient outage must not silently drop events": after one that ends,
\* every accepted event is written, unless the drain is aborted.
OutageDropsNothing ==
  \A q \in Requests : \A n \in 1..BatchLen[q] :
    (<<q, n>> \in Range(accepted)) ~> (<<q, n>> \in Range(log) \/ task = "aborted")

-------------------------------------------------------------------------------
(* The inductive invariant behind the safety properties *)

\* The accepted events that are not settled lie, in order, in buffer and channel.
QueueInOrder ==
  /\ task = "aborted" => buf = << >> /\ channel = << >>
  /\ Settled >= 0
  /\ \A i \in DOMAIN buf : buf[i] = accepted[Settled + i]
  /\ \A i \in DOMAIN channel : channel[i] = accepted[Settled + Len(buf) + i]

\* No event is accepted twice: its number is at most the count of its request.
AcceptedOnce ==
  /\ \A n \in DOMAIN accepted : accepted[n][2] <= sent[accepted[n][1]]
  /\ IsInjective(accepted)

\* A flush has something to write, and once every handle is dropped the channel
\* stays empty.
TaskInStep ==
  /\ task \in {"insert", "answer"} => buf # << >>
  /\ draining => stopping /\ ~serving /\ InFlight = {} /\ channel = << >>
  /\ task = "returned" => draining /\ buf = << >>

\* The log holds every settled event, and no event that was not taken for a flush;
\* a batch that waits for its answer is the last of it.
LogInStep ==
  task # "aborted" =>
    /\ \A n \in 1..Settled : accepted[n] \in Range(log)
    /\ \A j \in DOMAIN log : \E n \in 1..(Settled + Len(buf)) : log[j] = accepted[n]
    /\ task = "answer" => /\ Len(buf) <= Len(log)
                          /\ \A i \in DOMAIN buf : log[Len(log) - Len(buf) + i] = buf[i]

\* The lost answers pay for the copies of a batch that is not acknowledged yet.
CopiesPaidFor ==
  task # "aborted" =>
    \A n \in (Settled + 1)..(Settled + Len(buf)) :
      Cardinality(Copies(log, accepted[n])) <= (IF task = "answer" THEN 1 ELSE 0) + lostAcks

\* `pending` counts at least what the writer holds and what an abort took.
PendingCovers ==
  /\ IsFiniteSet(Counted)
  /\ pending >= Cardinality(Counted) + Len(channel) + Len(buf)
  /\ task = "aborted" /\ ~(Range(accepted) \subseteq Range(log))
       => pending > Cardinality(Counted)

IInv ==
  /\ TypeOK
  /\ QueueInOrder
  /\ AcceptedOnce
  /\ TaskInStep
  /\ LogInStep
  /\ CopiesPaidFor
  /\ PendingCovers
  /\ WrittenInOrder
  /\ DuplicatesOnlyFromLostAnswers
==============================================================================
