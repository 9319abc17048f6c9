------------------------- MODULE BufferedWriter_proofs -------------------------
(***************************************************************************)
(* Theorems about the buffered writer, for every set of requests, every    *)
(* batch, channel and buffer size, every number of retries and every bound *)
(* on failures: its safety properties and its refinement of IngestLog.     *)
(***************************************************************************)
EXTENDS BufferedWriter, FiniteSetTheorems, SequenceTheorems, TLAPS

-------------------------------------------------------------------------------
(* Sequences *)

\* What a sequence holds after an append.
LEMMA RangeOfAppend ==
  ASSUME NEW S, NEW s \in Seq(S), NEW e \in S
  PROVE  Range(Append(s, e)) = Range(s) \cup {e}
<1>1. /\ DOMAIN Append(s, e) = DOMAIN s \cup {Len(s) + 1}
      /\ \A i \in DOMAIN s : Append(s, e)[i] = s[i]
      /\ Append(s, e)[Len(s) + 1] = e
  OBVIOUS
<1> QED BY <1>1 DEF Range

\* What a concatenation holds, and at which places.
LEMMA RangeOfConcat ==
  ASSUME NEW S, NEW s \in Seq(S), NEW t \in Seq(S)
  PROVE  Range(s \o t) = Range(s) \cup Range(t)
<1>1. \A i \in DOMAIN s : i \in DOMAIN (s \o t) /\ (s \o t)[i] = s[i]
  OBVIOUS
<1>2. \A i \in DOMAIN t : Len(s) + i \in DOMAIN (s \o t) /\ (s \o t)[Len(s) + i] = t[i]
  OBVIOUS
<1>3. \A i \in DOMAIN (s \o t) : \/ i \in DOMAIN s
                                 \/ i - Len(s) \in DOMAIN t /\ (s \o t)[i] = t[i - Len(s)]
  OBVIOUS
<1>4. Range(s) \subseteq Range(s \o t) /\ Range(t) \subseteq Range(s \o t)
  BY <1>1, <1>2 DEF Range
<1>5. Range(s \o t) \subseteq Range(s) \cup Range(t)
  BY <1>3 DEF Range
<1> QED BY <1>4, <1>5

-------------------------------------------------------------------------------
(* Types *)

LEMMA InitIsTyped == Init => TypeOK
<1>1. << >> \in Seq(Event) /\ Len(<< >>) = 0
  OBVIOUS
<1>2. 0 \in 0..MAX_RETRIES /\ 0 <= CAPACITY
  BY ConfigAssumption
<1>3. SUFFICES ASSUME Init
               PROVE  TypeOK
  OBVIOUS
<1>4. /\ req \in [Requests -> {"idle", "sending", "waiting", "next",
                              "accepted", "unavailable", "gone"}]
      /\ sent \in [Requests -> Nat]
  BY <1>3 DEF Init
<1>5. /\ channel \in Seq(Event) /\ Len(channel) <= CAPACITY
      /\ buf \in Seq(Event) /\ log \in Seq(Event) /\ accepted \in Seq(Event)
  BY <1>1, <1>2, <1>3 DEF Init
<1> QED BY <1>2, <1>3, <1>4, <1>5 DEF Init, TypeOK

LEMMA NextKeepsTypes ==
  ASSUME IInv, [Next]_vars
  PROVE  TypeOK'
<1> USE RequestAssumption, ConfigAssumption
<1>1. TypeOK /\ PendingCovers /\ TaskInStep
  BY DEF IInv
<1> USE <1>1 DEF TypeOK
<1>2. ASSUME NEW q \in Requests, Count(q)
      PROVE  TypeOK'
  BY <1>2 DEF Count, taskVars, hostVars, sinkVars
<1>3. ASSUME NEW q \in Requests, AwaitSlot(q)
      PROVE  TypeOK'
  BY <1>3 DEF AwaitSlot, taskVars, hostVars, sinkVars
<1>4. ASSUME NEW q \in Requests, Send(q)
      PROVE  TypeOK'
  <2>1. <<q, sent[q] + 1>> \in Event
    BY DEF Event
  <2> QED BY <1>4, <2>1 DEF Send, taskVars, hostVars, sinkVars
<1>5. ASSUME NEW q \in Requests, SendFails(q)
      PROVE  TypeOK'
  <2>1. Cardinality(Counted) \in Nat /\ Cardinality(Counted) # 0
    BY <1>5, FS_CardinalityType, FS_EmptySet DEF SendFails, PendingCovers
  <2>2. pending - 1 \in Nat
    BY <2>1 DEF PendingCovers
  <2> QED BY <1>5, <2>2 DEF SendFails, taskVars, hostVars, sinkVars
<1>6. ASSUME NEW q \in Requests, Cancel(q)
      PROVE  TypeOK'
  BY <1>6 DEF Cancel, taskVars, hostVars, sinkVars
<1>7. CASE Receive
  BY <1>7 DEF Receive, StartFlush, requestVars, hostVars, sinkVars
<1>8. CASE Tick
  BY <1>8 DEF Tick, StartFlush, requestVars, hostVars, sinkVars
<1>9. CASE Drain
  BY <1>9 DEF Drain, StartFlush, requestVars, hostVars, sinkVars
<1>10. CASE InsertCommits
  BY <1>10 DEF InsertCommits, requestVars, hostVars
<1>11. CASE InsertTooLarge
  BY <1>11 DEF InsertTooLarge, AttemptFailed, requestVars, hostVars, sinkVars
<1>12. CASE InsertFails
  BY <1>12 DEF InsertFails, AttemptFailed, requestVars, hostVars
<1>13. CASE AnswerLost
  BY <1>13 DEF AnswerLost, AttemptFailed, requestVars, hostVars
<1>14. CASE Written
  <2>1. pending - Len(buf) \in Nat
    BY FS_CardinalityType DEF PendingCovers
  <2> QED BY <1>14, <2>1 DEF Written, requestVars, hostVars, sinkVars
<1>15. CASE DropRouter
  BY <1>15 DEF DropRouter, requestVars, taskVars, sinkVars
<1>16. CASE Shutdown
  BY <1>16 DEF Shutdown, requestVars, taskVars, sinkVars
<1>17. CASE DrainTimeout
  BY <1>17 DEF DrainTimeout, requestVars, hostVars, sinkVars
<1>18. CASE UNCHANGED vars
  BY <1>18 DEF vars, requestVars, taskVars, hostVars, sinkVars
<1> QED BY <1>2, <1>3, <1>4, <1>5, <1>6, <1>7, <1>8, <1>9, <1>10, <1>11, <1>12, <1>13,
           <1>14, <1>15, <1>16, <1>17, <1>18 DEF Next, Handler, Sink

-------------------------------------------------------------------------------
(* The parts of the inductive invariant, one after the other *)

\* Places in the queue are places among the accepted events.
LEMMA QueuePlaces ==
  ASSUME TypeOK, QueueInOrder
  PROVE  /\ Len(accepted) \in Nat /\ Len(buf) \in Nat /\ Len(channel) \in Nat
         /\ DOMAIN accepted = 1..Len(accepted) /\ DOMAIN buf = 1..Len(buf)
         /\ DOMAIN channel = 1..Len(channel)
         /\ Settled \in Nat
         /\ Len(accepted) = Settled + Len(buf) + Len(channel)
  BY DEF TypeOK, QueueInOrder, Settled

\* What the steps that move events do to the queue.
LEMMA SendMovesQueue ==
  ASSUME TypeOK, QueueInOrder, NEW q \in Requests, Send(q)
  PROVE  /\ UNCHANGED <<buf, task, draining, attempt, log, lostAcks, fails, pending>>
         /\ task # "aborted" /\ <<q, sent[q] + 1>> \in Event
         /\ Settled' = Settled
         /\ Len(channel') = Len(channel) + 1 /\ DOMAIN channel' = 1..Len(channel')
         /\ channel'[Len(channel) + 1] = accepted'[Len(accepted) + 1]
         /\ \A i \in 1..Len(channel) : channel'[i] = channel[i]
         /\ Len(accepted') = Len(accepted) + 1 /\ DOMAIN accepted' = 1..Len(accepted')
         /\ accepted'[Len(accepted) + 1] = <<q, sent[q] + 1>>
         /\ \A n \in 1..Len(accepted) : accepted'[n] = accepted[n]
<1> DEFINE e == <<q, sent[q] + 1>>
<1>1. /\ channel' = Append(channel, e) /\ accepted' = Append(accepted, e)
      /\ UNCHANGED <<buf, task, draining, attempt, log, lostAcks, fails, pending>>
      /\ task # "aborted"
  BY DEF Send, taskVars, sinkVars, Alive
<1>2. e \in Event
  <2>1. sent[q] \in Nat
    BY DEF TypeOK
  <2> QED BY <2>1 DEF Event
<1> HIDE DEF e
<1>3. accepted \in Seq(Event) /\ channel \in Seq(Event) /\ buf \in Seq(Event)
  BY DEF TypeOK
<1>4. /\ Len(channel') = Len(channel) + 1 /\ channel'[Len(channel) + 1] = e
      /\ \A i \in 1..Len(channel) : channel'[i] = channel[i]
      /\ DOMAIN channel' = 1..Len(channel')
  BY <1>1, <1>2, <1>3, AppendProperties
<1>5. /\ Len(accepted') = Len(accepted) + 1 /\ accepted'[Len(accepted) + 1] = e
      /\ \A i \in 1..Len(accepted) : accepted'[i] = accepted[i]
      /\ DOMAIN accepted' = 1..Len(accepted')
  BY <1>1, <1>2, <1>3, AppendProperties
<1>6. Settled' = Settled
  BY <1>1, <1>3, <1>4, <1>5 DEF Settled
<1> QED BY <1>1, <1>2, <1>4, <1>5, <1>6 DEF e

LEMMA ReceiveMovesQueue ==
  ASSUME TypeOK, QueueInOrder, Receive
  PROVE  /\ UNCHANGED <<accepted, log, draining, pending, lostAcks, req>>
         /\ task = "select" /\ task' \in {"select", "insert"}
         /\ Settled' = Settled
         /\ Len(channel) >= 1 /\ channel[1] \in Event
         /\ Len(channel') = Len(channel) - 1 /\ DOMAIN channel' = 1..Len(channel')
         /\ \A i \in 1..Len(channel') : channel'[i] = channel[i + 1]
         /\ Len(buf') = Len(buf) + 1 /\ DOMAIN buf' = 1..Len(buf')
         /\ buf'[Len(buf) + 1] = channel[1]
         /\ \A i \in 1..Len(buf) : buf'[i] = buf[i]
<1>1. /\ channel # << >> /\ channel' = Tail(channel) /\ buf' = Append(buf, Head(channel))
      /\ UNCHANGED <<accepted, log, draining, pending, lostAcks, req>>
      /\ task = "select" /\ task' \in {"select", "insert"}
  BY DEF Receive, StartFlush, sinkVars, requestVars
<1>2. accepted \in Seq(Event) /\ channel \in Seq(Event) /\ buf \in Seq(Event)
  BY DEF TypeOK
<1>3. /\ Head(channel) = channel[1] /\ channel[1] \in Event /\ Len(channel) >= 1
      /\ Len(channel') = Len(channel) - 1 /\ DOMAIN channel' = 1..Len(channel')
      /\ \A i \in 1..Len(channel') : channel'[i] = channel[i + 1]
  BY <1>1, <1>2, HeadTailProperties
<1>4. /\ Len(buf') = Len(buf) + 1 /\ buf'[Len(buf) + 1] = channel[1]
      /\ \A i \in 1..Len(buf) : buf'[i] = buf[i]
      /\ DOMAIN buf' = 1..Len(buf')
  BY <1>1, <1>2, <1>3, AppendProperties
<1>5. Settled' = Settled
  BY <1>1, <1>2, <1>3, <1>4 DEF Settled
<1> QED BY <1>1, <1>3, <1>4, <1>5

LEMMA WrittenMovesQueue ==
  ASSUME TypeOK, QueueInOrder, Written
  PROVE  /\ UNCHANGED <<accepted, channel, log, draining, lostAcks, req>>
         /\ buf' = << >> /\ Len(buf') = 0 /\ DOMAIN buf' = {}
         /\ task = "answer" /\ task' \in {"select", "returned"}
         /\ Settled' = Settled + Len(buf) /\ Settled' \in Nat
<1>1. /\ UNCHANGED <<accepted, channel, log, draining, lostAcks, req>> /\ buf' = << >>
      /\ task = "answer" /\ task' \in {"select", "returned"}
  BY DEF Written, sinkVars, requestVars
<1>2. Len(buf') = 0 /\ DOMAIN buf' = {}
  BY <1>1
<1> QED BY <1>1, <1>2, QueuePlaces DEF Settled

\* The other steps move nothing, and DrainTimeout drops the queue.
LEMMA OthersKeepQueue ==
  ASSUME [Next]_vars, ~Receive, ~Written, ~DrainTimeout, \A q \in Requests : ~Send(q)
  PROVE  UNCHANGED <<accepted, buf, channel>> /\ (task' = "aborted" <=> task = "aborted")
<1>1. ASSUME NEW q \in Requests, Count(q) \/ AwaitSlot(q) \/ SendFails(q) \/ Cancel(q)
      PROVE  UNCHANGED <<accepted, buf, channel>> /\ task' = task
  BY <1>1 DEF Count, AwaitSlot, SendFails, Cancel, taskVars
<1>2. ASSUME Tick \/ Drain \/ InsertCommits \/ InsertTooLarge \/ InsertFails \/ AnswerLost
      PROVE  UNCHANGED <<accepted, buf, channel>> /\ task # "aborted" /\ task' # "aborted"
  BY <1>2 DEF Tick, Drain, StartFlush, InsertCommits, InsertTooLarge, InsertFails, AnswerLost,
              AttemptFailed
<1>3. ASSUME DropRouter \/ Shutdown \/ UNCHANGED vars
      PROVE  UNCHANGED <<accepted, buf, channel>> /\ task' = task
  BY <1>3 DEF DropRouter, Shutdown, vars, taskVars
<1> QED BY <1>1, <1>2, <1>3 DEF Next, Handler, Sink

LEMMA NextKeepsQueueInOrder ==
  ASSUME IInv, [Next]_vars
  PROVE  QueueInOrder'
<1>1. TypeOK /\ QueueInOrder /\ TypeOK'
  BY NextKeepsTypes DEF IInv
<1>2. /\ Len(accepted) \in Nat /\ Len(buf) \in Nat /\ Len(channel) \in Nat
      /\ DOMAIN buf = 1..Len(buf) /\ DOMAIN channel = 1..Len(channel)
      /\ Settled \in Nat /\ Len(accepted) = Settled + Len(buf) + Len(channel)
  BY <1>1, QueuePlaces
<1>3. ASSUME NEW q \in Requests, Send(q)
      PROVE  QueueInOrder'
  <2>1. /\ buf' = buf /\ task' = task /\ task # "aborted" /\ Settled' = Settled
        /\ Len(channel') = Len(channel) + 1 /\ DOMAIN channel' = 1..Len(channel')
        /\ channel'[Len(channel) + 1] = accepted'[Len(accepted) + 1]
        /\ \A i \in 1..Len(channel) : channel'[i] = channel[i]
        /\ \A n \in 1..Len(accepted) : accepted'[n] = accepted[n]
    BY <1>1, <1>3, SendMovesQueue
  <2>2. ASSUME NEW i \in 1..Len(channel')
        PROVE  channel'[i] = accepted'[Settled' + Len(buf') + i]
    <3>1. CASE i = Len(channel) + 1
      BY <1>2, <2>1, <3>1
    <3>2. CASE i # Len(channel) + 1
      <4>1. i \in 1..Len(channel) /\ Settled + Len(buf) + i \in 1..Len(accepted)
        BY <1>2, <2>1, <3>2
      <4>2. channel[i] = accepted[Settled + Len(buf) + i]
        BY <1>1, <1>2, <4>1 DEF QueueInOrder
      <4> QED BY <2>1, <4>1, <4>2
    <3> QED BY <3>1, <3>2
  <2>3. ASSUME NEW i \in 1..Len(buf)
        PROVE  buf'[i] = accepted'[Settled' + i]
    <3>1. Settled + i \in 1..Len(accepted)
      BY <1>2
    <3>2. buf[i] = accepted[Settled + i]
      BY <1>1, <1>2 DEF QueueInOrder
    <3> QED BY <2>1, <3>1, <3>2
  <2>4. Settled' >= 0 /\ DOMAIN buf' = 1..Len(buf)
    BY <1>2, <2>1
  <2> QED BY <2>1, <2>2, <2>3, <2>4 DEF QueueInOrder
<1>4. CASE Receive
  <2>1. /\ accepted' = accepted /\ task' # "aborted" /\ Settled' = Settled
        /\ Len(channel) >= 1
        /\ Len(channel') = Len(channel) - 1 /\ DOMAIN channel' = 1..Len(channel')
        /\ \A i \in 1..Len(channel') : channel'[i] = channel[i + 1]
        /\ Len(buf') = Len(buf) + 1 /\ DOMAIN buf' = 1..Len(buf')
        /\ buf'[Len(buf) + 1] = channel[1]
        /\ \A i \in 1..Len(buf) : buf'[i] = buf[i]
    BY <1>1, <1>4, ReceiveMovesQueue
  <2>2. ASSUME NEW i \in 1..Len(channel')
        PROVE  channel'[i] = accepted'[Settled' + Len(buf') + i]
    <3>1. i + 1 \in 1..Len(channel) /\ Settled + Len(buf) + (i + 1) = Settled' + Len(buf') + i
      BY <1>2, <2>1
    <3>2. channel[i + 1] = accepted[Settled + Len(buf) + (i + 1)]
      BY <1>1, <1>2, <3>1 DEF QueueInOrder
    <3> QED BY <2>1, <3>1, <3>2
  <2>3. ASSUME NEW i \in 1..Len(buf')
        PROVE  buf'[i] = accepted'[Settled' + i]
    <3>1. CASE i = Len(buf) + 1
      <4>1. 1 \in DOMAIN channel
        BY <1>2, <2>1
      <4>2. channel[1] = accepted[Settled + Len(buf) + 1]
        BY <1>1, <4>1 DEF QueueInOrder
      <4> QED BY <1>2, <2>1, <3>1, <4>2
    <3>2. CASE i # Len(buf) + 1
      <4>1. i \in 1..Len(buf)
        BY <1>2, <2>1, <3>2
      <4> QED BY <1>1, <1>2, <2>1, <4>1 DEF QueueInOrder
    <3> QED BY <3>1, <3>2
  <2>4. Settled' >= 0
    BY <1>2, <2>1
  <2> QED BY <2>1, <2>2, <2>3, <2>4 DEF QueueInOrder
<1>5. CASE Written
  <2>1. /\ channel' = channel /\ accepted' = accepted /\ task' # "aborted"
        /\ Len(buf') = 0 /\ DOMAIN buf' = {}
        /\ Settled' = Settled + Len(buf) /\ Settled' \in Nat
    BY <1>1, <1>5, WrittenMovesQueue
  <2>2. ASSUME NEW i \in 1..Len(channel)
        PROVE  channel'[i] = accepted'[Settled' + Len(buf') + i]
    <3>1. Settled' + Len(buf') + i = Settled + Len(buf) + i
      BY <1>2, <2>1
    <3> QED BY <1>1, <1>2, <2>1, <3>1 DEF QueueInOrder
  <2> QED BY <1>2, <2>1, <2>2 DEF QueueInOrder
<1>6. CASE DrainTimeout
  BY <1>2, <1>6 DEF DrainTimeout, QueueInOrder, Settled
<1>7. CASE UNCHANGED <<accepted, buf, channel>> /\ (task' = "aborted" <=> task = "aborted")
  BY <1>1, <1>7 DEF QueueInOrder, Settled
<1> QED BY <1>3, <1>4, <1>5, <1>6, <1>7, OthersKeepQueue

LEMMA NextKeepsAcceptedOnce ==
  ASSUME IInv, [Next]_vars
  PROVE  AcceptedOnce'
<1>1. TypeOK /\ AcceptedOnce
  BY DEF IInv
<1>2. accepted \in Seq(Event) /\ DOMAIN accepted = 1..Len(accepted) /\ Len(accepted) \in Nat
  BY <1>1 DEF TypeOK
<1>3. CASE UNCHANGED <<sent, accepted>>
  BY <1>1, <1>3 DEF AcceptedOnce, IsInjective
<1>4. ASSUME NEW q \in Requests, Send(q)
      PROVE  AcceptedOnce'
  <2> DEFINE e == <<q, sent[q] + 1>>
  <2>1. accepted' = Append(accepted, e) /\ sent' = [sent EXCEPT ![q] = sent[q] + 1]
    BY <1>4 DEF Send
  <2>2. sent \in [Requests -> Nat]
    BY <1>1 DEF TypeOK
  <2>3. e \in Event
    BY <2>2 DEF Event
  <2>4. e[1] = q /\ e[2] = sent[q] + 1
    OBVIOUS
  <2> HIDE DEF e
  <2>5. /\ DOMAIN accepted' = 1..(Len(accepted) + 1) /\ accepted'[Len(accepted) + 1] = e
        /\ \A n \in 1..Len(accepted) : accepted'[n] = accepted[n]
    BY <1>2, <2>1, <2>3
  <2>6. ASSUME NEW n \in DOMAIN accepted
        PROVE  /\ accepted[n][1] \in Requests /\ accepted[n][2] \in Nat
               /\ accepted[n][2] <= sent[accepted[n][1]]
               /\ accepted[n][2] <= sent'[accepted[n][1]]
               /\ accepted[n] # e
    <3>1. accepted[n] \in Event
      BY <1>2
    <3>2. accepted[n][1] \in Requests /\ accepted[n][2] \in Nat
      BY <3>1 DEF Event
    <3>3. accepted[n][2] <= sent[accepted[n][1]]
      BY <1>1 DEF AcceptedOnce
    <3> QED BY <2>1, <2>2, <2>4, <3>2, <3>3
  <2>7. e[2] <= sent'[e[1]]
    BY <2>1, <2>2, <2>4
  <2>8. \A n \in DOMAIN accepted' : accepted'[n][2] <= sent'[accepted'[n][1]]
    BY <1>2, <2>5, <2>6, <2>7
  <2>9. IsInjective(accepted')
    BY <1>1, <1>2, <2>5, <2>6 DEF AcceptedOnce, IsInjective
  <2> QED BY <2>8, <2>9 DEF AcceptedOnce
<1>5. ASSUME NEW q \in Requests, Count(q) \/ AwaitSlot(q) \/ SendFails(q) \/ Cancel(q)
      PROVE  UNCHANGED <<sent, accepted>>
  BY <1>5 DEF Count, AwaitSlot, SendFails, Cancel
<1>6. ASSUME Receive \/ Tick \/ Drain \/ InsertCommits \/ InsertTooLarge \/ InsertFails
             \/ AnswerLost \/ Written \/ DropRouter \/ Shutdown \/ DrainTimeout \/ UNCHANGED vars
      PROVE  UNCHANGED <<sent, accepted>>
  BY <1>6 DEF Receive, Tick, Drain, InsertCommits, InsertTooLarge, InsertFails, AnswerLost,
              Written, DropRouter, Shutdown, DrainTimeout, vars, requestVars
<1> QED BY <1>3, <1>4, <1>5, <1>6 DEF Next, Handler, Sink

\* Once every handle is dropped no request gets one, so nothing is sent any more.
LEMMA NextKeepsTaskInStep ==
  ASSUME IInv, [Next]_vars
  PROVE  TaskInStep'
<1>1. TypeOK /\ TaskInStep /\ QueueInOrder
  BY DEF IInv
<1> USE <1>1 DEF TaskInStep
<1>2. ASSUME NEW q \in Requests, Handler(q)
      PROVE  TaskInStep'
  <2>1. /\ UNCHANGED <<task, buf, draining, serving, stopping>>
        /\ \A p \in Requests : p # q => req'[p] = req[p]
    BY <1>2 DEF Handler, Count, AwaitSlot, Send, SendFails, Cancel, taskVars, hostVars, TypeOK
  <2>2. q \notin InFlight => serving /\ Count(q)
    BY <1>2 DEF Handler, Count, AwaitSlot, Send, SendFails, Cancel, InFlight, Counted
  <2>3. ~draining
    BY <2>2
  <2> QED BY <2>1, <2>3
<1>3. CASE Receive
  <2>1. buf' # << >> /\ ~draining /\ draining' = draining
    <3>1. buf \in Seq(Event) /\ buf' = Append(buf, Head(channel)) /\ channel # << >>
          /\ channel \in Seq(Event)
      BY <1>3 DEF Receive, TypeOK
    <3> QED BY <1>3, <3>1 DEF Receive
  <2> QED BY <1>3, <2>1 DEF Receive, StartFlush
<1>4. CASE Tick
  BY <1>4 DEF Tick, StartFlush, InFlight, requestVars, hostVars
<1>5. CASE Drain
  BY <1>5 DEF Drain, StartFlush, InFlight, requestVars, hostVars
<1>6. CASE InsertCommits
  BY <1>6 DEF InsertCommits, InFlight, requestVars, hostVars
<1>7. CASE InsertTooLarge
  BY <1>7 DEF InsertTooLarge, AttemptFailed, InFlight, requestVars, hostVars
<1>8. CASE InsertFails
  BY <1>8 DEF InsertFails, AttemptFailed, InFlight, requestVars, hostVars
<1>9. CASE AnswerLost
  BY <1>9 DEF AnswerLost, AttemptFailed, InFlight, requestVars, hostVars
<1>10. CASE Written
  BY <1>10 DEF Written, InFlight, requestVars, hostVars
<1>11. CASE DropRouter
  BY <1>11 DEF DropRouter, InFlight, requestVars, taskVars
<1>12. CASE Shutdown
  BY <1>12 DEF Shutdown, InFlight, requestVars, taskVars
<1>13. CASE DrainTimeout
  BY <1>13 DEF DrainTimeout, InFlight, requestVars, hostVars
<1>14. CASE UNCHANGED vars
  BY <1>14 DEF vars, InFlight, requestVars, taskVars, hostVars
<1> QED BY <1>2, <1>3, <1>4, <1>5, <1>6, <1>7, <1>8, <1>9, <1>10, <1>11, <1>12, <1>13, <1>14
        DEF Next, Sink

\* An INSERT adds the buffer to the log, in order; no other step changes the log.
LEMMA InsertAddsBuffer ==
  ASSUME TypeOK, QueueInOrder, InsertCommits
  PROVE  /\ UNCHANGED <<accepted, buf, channel, Settled, lostAcks, pending, req>>
         /\ task = "insert" /\ task' = "answer"
         /\ Len(log) \in Nat /\ DOMAIN log = 1..Len(log)
         /\ Len(log') = Len(log) + Len(buf) /\ DOMAIN log' = 1..Len(log')
         /\ Range(log') = Range(log) \cup Range(buf)
         /\ \A j \in 1..Len(log) : log'[j] = log[j]
         /\ \A i \in 1..Len(buf) : log'[Len(log) + i] = buf[i]
<1>1. log \in Seq(Event) /\ buf \in Seq(Event)
  BY DEF TypeOK
<1>2. /\ log' = log \o buf /\ task = "insert" /\ task' = "answer"
      /\ UNCHANGED <<accepted, buf, channel, Settled, lostAcks, pending, req>>
  BY DEF InsertCommits, Settled, requestVars
<1>3. Range(log') = Range(log) \cup Range(buf)
  BY <1>1, <1>2, RangeOfConcat
<1>4. /\ Len(log) \in Nat /\ DOMAIN log = 1..Len(log) /\ Len(buf) \in Nat
      /\ log \o buf \in Seq(Event) /\ Len(log \o buf) = Len(log) + Len(buf)
      /\ \A i \in 1..(Len(log) + Len(buf)) :
           (log \o buf)[i] = IF i <= Len(log) THEN log[i] ELSE buf[i - Len(log)]
  BY <1>1, ConcatProperties
<1>5. \A j \in 1..Len(log) : log'[j] = log[j]
  BY <1>2, <1>4
<1>6. ASSUME NEW i \in 1..Len(buf)
      PROVE  log'[Len(log) + i] = buf[i]
  <2>1. Len(log) + i \in 1..(Len(log) + Len(buf)) /\ ~(Len(log) + i <= Len(log))
        /\ (Len(log) + i) - Len(log) = i
    BY <1>4
  <2> QED BY <1>2, <1>4, <2>1
<1> QED BY <1>2, <1>3, <1>4, <1>5, <1>6

LEMMA OthersKeepLog ==
  ASSUME [Next]_vars, ~InsertCommits
  PROVE  log' = log
<1>1. ASSUME NEW q \in Requests, Handler(q)
      PROVE  log' = log
  BY <1>1 DEF Handler, Count, AwaitSlot, Send, SendFails, Cancel, sinkVars
<1>2. CASE Receive \/ Tick \/ Drain \/ InsertTooLarge \/ InsertFails \/ AnswerLost \/ Written
  BY <1>2 DEF Receive, Tick, Drain, InsertTooLarge, InsertFails, AnswerLost, Written, sinkVars
<1>3. CASE DropRouter \/ Shutdown \/ DrainTimeout \/ UNCHANGED vars
  BY <1>3 DEF DropRouter, Shutdown, DrainTimeout, vars, sinkVars
<1> QED BY <1>1, <1>2, <1>3 DEF Next, Sink

\* Only an INSERT brings the task to the answer.
LEMMA OthersReachNoAnswer ==
  ASSUME [Next]_vars, ~InsertCommits, task' = "answer"
  PROVE  task = "answer"
<1>1. ASSUME NEW q \in Requests, Handler(q)
      PROVE  task' = task
  BY <1>1 DEF Handler, Count, AwaitSlot, Send, SendFails, Cancel, taskVars
<1>2. CASE Receive \/ Tick \/ Drain \/ InsertTooLarge \/ InsertFails \/ AnswerLost \/ Written
  BY <1>2 DEF Receive, Tick, Drain, InsertTooLarge, InsertFails, AnswerLost, Written, StartFlush,
              AttemptFailed
<1>3. CASE DropRouter \/ Shutdown \/ DrainTimeout \/ UNCHANGED vars
  BY <1>3 DEF DropRouter, Shutdown, DrainTimeout, vars, taskVars
<1> QED BY <1>1, <1>2, <1>3 DEF Next, Sink

\* A batch waiting for its answer is in the log.
LEMMA AnsweredIsLogged ==
  ASSUME TypeOK, QueueInOrder, LogInStep, task = "answer"
  PROVE  \A n \in (Settled + 1)..(Settled + Len(buf)) : accepted[n] \in Range(log)
<1> SUFFICES ASSUME NEW n \in (Settled + 1)..(Settled + Len(buf))
             PROVE  accepted[n] \in Range(log)
  OBVIOUS
<1>1. /\ Settled \in Nat /\ Len(buf) \in Nat /\ DOMAIN buf = 1..Len(buf)
      /\ log \in Seq(Event) /\ DOMAIN log = 1..Len(log) /\ Len(log) \in Nat
      /\ Len(buf) <= Len(log)
  BY QueuePlaces DEF TypeOK, LogInStep
<1>2. PICK i \in 1..Len(buf) : n = Settled + i
  <2>1. n - Settled \in 1..Len(buf) /\ n = Settled + (n - Settled)
    BY <1>1
  <2> QED BY <2>1
<1>3. Len(log) - Len(buf) + i \in DOMAIN log
  BY <1>1
<1>4. buf[i] = accepted[n]
  BY <1>1, <1>2 DEF QueueInOrder
<1>5. log[Len(log) - Len(buf) + i] = buf[i]
  BY <1>1 DEF LogInStep
<1> QED BY <1>3, <1>4, <1>5 DEF Range

LEMMA NextKeepsLogInStep ==
  ASSUME IInv, [Next]_vars
  PROVE  LogInStep'
<1>1. TypeOK /\ QueueInOrder /\ LogInStep
  BY DEF IInv
<1>2. /\ Len(accepted) \in Nat /\ Len(buf) \in Nat /\ Len(channel) \in Nat
      /\ DOMAIN buf = 1..Len(buf)
      /\ Settled \in Nat /\ Len(accepted) = Settled + Len(buf) + Len(channel)
      /\ log \in Seq(Event) /\ DOMAIN log = 1..Len(log) /\ Len(log) \in Nat
  BY <1>1, QueuePlaces DEF TypeOK
<1>3. CASE InsertCommits
  <2>1. /\ accepted' = accepted /\ buf' = buf /\ Settled' = Settled
        /\ task = "insert" /\ task' = "answer"
        /\ Len(log') = Len(log) + Len(buf) /\ DOMAIN log' = 1..Len(log')
        /\ Range(log') = Range(log) \cup Range(buf)
        /\ \A j \in 1..Len(log) : log'[j] = log[j]
        /\ \A i \in 1..Len(buf) : log'[Len(log) + i] = buf[i]
    BY <1>1, <1>3, InsertAddsBuffer
  <2>2. \A n \in 1..Settled : accepted[n] \in Range(log')
    BY <1>1, <2>1 DEF LogInStep
  <2>3. ASSUME NEW j \in DOMAIN log'
        PROVE  \E n \in 1..(Settled + Len(buf)) : log'[j] = accepted[n]
    <3>1. CASE j <= Len(log)
      <4>1. j \in DOMAIN log /\ log'[j] = log[j]
        BY <1>2, <2>1, <3>1
      <4> QED BY <1>1, <2>1, <4>1 DEF LogInStep
    <3>2. CASE j > Len(log)
      <4>1. PICK i \in 1..Len(buf) : j = Len(log) + i
        <5>1. j \in 1..(Len(log) + Len(buf))
          BY <2>1
        <5>2. j - Len(log) \in 1..Len(buf) /\ j = Len(log) + (j - Len(log))
          BY <1>2, <3>2, <5>1
        <5> QED BY <5>2
      <4>2. log'[j] = buf[i]
        BY <2>1, <4>1
      <4>3. buf[i] = accepted[Settled + i] /\ Settled + i \in 1..(Settled + Len(buf))
        BY <1>1, <1>2 DEF QueueInOrder
      <4> QED BY <4>2, <4>3
    <3> QED BY <1>2, <2>1, <3>1, <3>2
  <2>4. Len(log') - Len(buf) = Len(log) /\ Len(buf) <= Len(log')
    BY <1>2, <2>1
  <2>5. \A i \in DOMAIN buf' : log'[Len(log') - Len(buf') + i] = buf'[i]
    BY <1>2, <2>1, <2>4
  <2> QED BY <2>1, <2>2, <2>3, <2>4, <2>5 DEF LogInStep
<1>4. ASSUME NEW q \in Requests, Send(q)
      PROVE  LogInStep'
  <2>1. /\ buf' = buf /\ log' = log /\ task' = task /\ task # "aborted" /\ Settled' = Settled
        /\ \A n \in 1..Len(accepted) : accepted'[n] = accepted[n]
    BY <1>1, <1>4, SendMovesQueue
  <2>2. \A n \in 1..(Settled + Len(buf)) : accepted'[n] = accepted[n]
    BY <1>2, <2>1
  <2>3. 1..Settled \subseteq 1..(Settled + Len(buf))
    BY <1>2
  <2> QED BY <1>1, <2>1, <2>2, <2>3 DEF LogInStep
<1>5. CASE Receive
  <2>1. /\ accepted' = accepted /\ log' = log /\ Settled' = Settled /\ Len(buf') = Len(buf) + 1
        /\ task = "select" /\ task' \in {"select", "insert"}
    BY <1>1, <1>5, ReceiveMovesQueue
  <2>2. 1..(Settled + Len(buf)) \subseteq 1..(Settled' + Len(buf'))
    BY <1>2, <2>1
  <2> QED BY <1>1, <2>1, <2>2 DEF LogInStep
<1>6. CASE Written
  <2>1. /\ accepted' = accepted /\ log' = log /\ task = "answer"
        /\ task' \in {"select", "returned"}
        /\ Settled' = Settled + Len(buf) /\ Len(buf') = 0
    BY <1>1, <1>6, WrittenMovesQueue
  <2>2. \A n \in (Settled + 1)..(Settled + Len(buf)) : accepted[n] \in Range(log)
    BY <1>1, <2>1, AnsweredIsLogged
  <2>3. \A n \in 1..(Settled + Len(buf)) : n \in 1..Settled \/ n \in (Settled + 1)..(Settled + Len(buf))
    BY <1>2
  <2>4. \A n \in 1..Settled' : accepted'[n] \in Range(log')
    BY <1>1, <2>1, <2>2, <2>3 DEF LogInStep
  <2>5. Settled' + Len(buf') = Settled + Len(buf)
    BY <1>2, <2>1
  <2> QED BY <1>1, <2>1, <2>4, <2>5 DEF LogInStep
<1>7. CASE DrainTimeout
  BY <1>7 DEF DrainTimeout, LogInStep
<1>8. CASE /\ UNCHANGED <<accepted, buf, channel, log>>
           /\ task' = "aborted" <=> task = "aborted"
           /\ task' = "answer" => task = "answer"
  <2>1. accepted' = accepted /\ buf' = buf /\ log' = log /\ Settled' = Settled
    BY <1>8 DEF Settled
  <2> QED BY <1>1, <1>8, <2>1 DEF LogInStep
<1> QED BY <1>3, <1>4, <1>5, <1>6, <1>7, <1>8, OthersKeepQueue, OthersKeepLog,
           OthersReachNoAnswer

\* An event that was not taken for a flush is not in the log.
LEMMA LaterIsNotLogged ==
  ASSUME TypeOK, QueueInOrder, AcceptedOnce, LogInStep, task # "aborted",
         NEW n \in DOMAIN accepted, n > Settled + Len(buf)
  PROVE  \A j \in DOMAIN log : log[j] # accepted[n]
<1> SUFFICES ASSUME NEW j \in DOMAIN log, log[j] = accepted[n]
             PROVE  FALSE
  OBVIOUS
<1>1. PICK k \in 1..(Settled + Len(buf)) : log[j] = accepted[k]
  BY DEF LogInStep
<1>2. k \in DOMAIN accepted /\ k # n
  BY QueuePlaces
<1> QED BY <1>1, <1>2 DEF AcceptedOnce, IsInjective

LEMMA NextKeepsWrittenInOrder ==
  ASSUME IInv, [Next]_vars
  PROVE  WrittenInOrder'
<1>1. TypeOK /\ QueueInOrder /\ AcceptedOnce /\ LogInStep /\ WrittenInOrder
  BY DEF IInv
<1>2. /\ Len(accepted) \in Nat /\ Len(buf) \in Nat /\ Len(channel) \in Nat
      /\ DOMAIN accepted = 1..Len(accepted) /\ DOMAIN buf = 1..Len(buf)
      /\ Settled \in Nat /\ Len(accepted) = Settled + Len(buf) + Len(channel)
      /\ log \in Seq(Event) /\ DOMAIN log = 1..Len(log) /\ Len(log) \in Nat
  BY <1>1, QueuePlaces DEF TypeOK
<1>3. CASE InsertCommits
  <2>1. /\ accepted' = accepted /\ task = "insert"
        /\ Len(log') = Len(log) + Len(buf) /\ DOMAIN log' = 1..Len(log')
        /\ \A j \in 1..Len(log) : log'[j] = log[j]
        /\ \A i \in 1..Len(buf) : log'[Len(log) + i] = buf[i]
    BY <1>1, <1>3, InsertAddsBuffer
  <2>2. SUFFICES ASSUME NEW m \in DOMAIN accepted, NEW n \in DOMAIN accepted, m < n,
                        NEW j \in DOMAIN log', log'[j] = accepted[n]
                 PROVE  \E i \in 1..(j - 1) : log'[i] = accepted[m]
    BY <2>1 DEF WrittenInOrder
  <2>3. CASE j <= Len(log)
    <3>1. j \in DOMAIN log /\ log[j] = accepted[n]
      BY <1>2, <2>1, <2>2, <2>3
    <3>2. PICK i \in 1..(j - 1) : log[i] = accepted[m]
      BY <1>1, <2>2, <3>1 DEF WrittenInOrder
    <3>3. i \in 1..Len(log)
      BY <1>2, <2>3, <3>1
    <3> QED BY <2>1, <3>2, <3>3
  <2>4. CASE j > Len(log)
    <3>1. PICK k \in 1..Len(buf) : j = Len(log) + k
      <4>1. j \in 1..(Len(log) + Len(buf))
        BY <2>1
      <4>2. j - Len(log) \in 1..Len(buf) /\ j = Len(log) + (j - Len(log))
        BY <1>2, <2>4, <4>1
      <4> QED BY <4>2
    <3>2. n = Settled + k
      <4>1. log'[j] = buf[k] /\ buf[k] = accepted[Settled + k]
        BY <1>1, <1>2, <2>1, <3>1 DEF QueueInOrder
      <4>2. Settled + k \in DOMAIN accepted
        BY <1>2
      <4> QED BY <1>1, <2>2, <4>1, <4>2 DEF AcceptedOnce, IsInjective
    <3>3. CASE m <= Settled
      <4>1. PICK i \in DOMAIN log : accepted[m] = log[i]
        <5>1. accepted[m] \in Range(log)
          BY <1>1, <1>2, <2>1, <3>3 DEF LogInStep
        <5> QED BY <5>1 DEF Range
      <4>2. i \in 1..Len(log) /\ i \in 1..(j - 1)
        BY <1>2, <2>4, <3>1
      <4> QED BY <2>1, <4>1, <4>2
    <3>4. CASE m > Settled
      <4>1. PICK i \in 1..Len(buf) : m = Settled + i /\ i < k
        <5>1. m - Settled \in 1..Len(buf) /\ m = Settled + (m - Settled) /\ m - Settled < k
          BY <1>2, <2>2, <3>2, <3>4
        <5> QED BY <5>1
      <4>2. log'[Len(log) + i] = accepted[m]
        BY <1>1, <1>2, <2>1, <4>1 DEF QueueInOrder
      <4>3. Len(log) + i \in 1..(j - 1)
        BY <1>2, <3>1, <4>1
      <4> QED BY <4>2, <4>3
    <3> QED BY <1>2, <3>3, <3>4
  <2> QED BY <1>2, <2>1, <2>3, <2>4
<1>4. ASSUME NEW q \in Requests, Send(q)
      PROVE  WrittenInOrder'
  <2>1. /\ log' = log /\ buf' = buf /\ task' = task /\ task # "aborted" /\ Settled' = Settled
        /\ Len(accepted') = Len(accepted) + 1 /\ DOMAIN accepted' = 1..Len(accepted')
        /\ \A n \in 1..Len(accepted) : accepted'[n] = accepted[n]
    BY <1>1, <1>4, SendMovesQueue
  <2>2. TypeOK' /\ QueueInOrder' /\ AcceptedOnce' /\ LogInStep'
    BY NextKeepsTypes, NextKeepsQueueInOrder, NextKeepsAcceptedOnce, NextKeepsLogInStep
  <2>3. \A j \in DOMAIN log : log[j] # accepted'[Len(accepted) + 1]
    <3>1. Len(accepted) + 1 \in DOMAIN accepted' /\ Len(accepted) + 1 > Settled + Len(buf)
      BY <1>2, <2>1
    <3>2. /\ accepted' \in Seq(Event) /\ \A j \in DOMAIN log : \E n \in 1..(Settled + Len(buf)) :
               log[j] = accepted'[n]
      BY <2>1, <2>2 DEF LogInStep, TypeOK
    <3>3. \A n \in 1..(Settled + Len(buf)) : n \in DOMAIN accepted' /\ n # Len(accepted) + 1
      BY <1>2, <2>1
    <3> QED BY <2>2, <3>1, <3>2, <3>3 DEF AcceptedOnce, IsInjective
  <2>4. SUFFICES ASSUME NEW m \in DOMAIN accepted', NEW n \in DOMAIN accepted', m < n,
                        NEW j \in DOMAIN log, log[j] = accepted'[n]
                 PROVE  \E i \in 1..(j - 1) : log[i] = accepted'[m]
    BY <2>1 DEF WrittenInOrder
  <2>5. n \in DOMAIN accepted /\ m \in DOMAIN accepted
    <3>1. n # Len(accepted) + 1
      BY <2>3, <2>4
    <3>2. n \in 1..(Len(accepted) + 1) /\ m \in 1..(Len(accepted) + 1)
      BY <2>1
    <3> QED BY <1>2, <2>4, <3>1, <3>2
  <2> QED BY <1>1, <1>2, <2>1, <2>4, <2>5 DEF WrittenInOrder
<1>5. CASE UNCHANGED <<accepted, log>>
  BY <1>1, <1>5 DEF WrittenInOrder
<1>6. Receive \/ Written \/ DrainTimeout => accepted' = accepted
  BY DEF Receive, Written, DrainTimeout
<1> QED BY <1>3, <1>4, <1>5, <1>6, OthersKeepQueue, OthersKeepLog

-------------------------------------------------------------------------------
(* Copies *)

LEMMA CopiesAreFinite ==
  ASSUME NEW s \in Seq(Event), NEW e
  PROVE  IsFiniteSet(Copies(s, e)) /\ Cardinality(Copies(s, e)) \in Nat
<1>1. IsFiniteSet(DOMAIN s)
  BY FS_Interval
<1> QED BY <1>1, FS_Subset, FS_CardinalityType DEF Copies

\* An INSERT adds one copy of each event of the buffer and none of the others.
LEMMA InsertAddsOneCopy ==
  ASSUME TypeOK, QueueInOrder, AcceptedOnce, InsertCommits, NEW e
  PROVE  /\ e \notin Range(buf) => Copies(log', e) = Copies(log, e)
         /\ Cardinality(Copies(log', e)) <= Cardinality(Copies(log, e)) + 1
<1>1. /\ Len(log) \in Nat /\ DOMAIN log = 1..Len(log) /\ Len(log') = Len(log) + Len(buf)
      /\ DOMAIN log' = 1..Len(log')
      /\ \A j \in 1..Len(log) : log'[j] = log[j]
      /\ \A i \in 1..Len(buf) : log'[Len(log) + i] = buf[i]
  BY InsertAddsBuffer
<1>2. /\ Len(buf) \in Nat /\ DOMAIN buf = 1..Len(buf) /\ Len(channel) \in Nat
      /\ Settled \in Nat /\ DOMAIN accepted = 1..(Settled + Len(buf) + Len(channel))
  BY QueuePlaces
<1>3. \A j \in 1..Len(log') : j \in 1..Len(log) \/ \E i \in 1..Len(buf) : j = Len(log) + i
  <2>1. ASSUME NEW j \in 1..Len(log'), j \notin 1..Len(log)
        PROVE  j - Len(log) \in 1..Len(buf) /\ j = Len(log) + (j - Len(log))
    BY <1>1, <1>2, <2>1
  <2> QED BY <2>1
<1>4. 1..Len(log) \subseteq 1..Len(log')
  BY <1>1, <1>2
<1>5. CASE e \notin Range(buf)
  <2>1. \A i \in 1..Len(buf) : buf[i] # e
    BY <1>2, <1>5 DEF Range
  <2>2. Copies(log', e) = Copies(log, e)
    <3>1. ASSUME NEW j \in 1..Len(log'), log'[j] = e
          PROVE  j \in 1..Len(log)
      BY <1>1, <1>3, <2>1, <3>1
    <3>2. Copies(log', e) \subseteq Copies(log, e)
      BY <1>1, <3>1 DEF Copies
    <3>3. Copies(log, e) \subseteq Copies(log', e)
      BY <1>1, <1>4 DEF Copies
    <3> QED BY <3>2, <3>3
  <2>3. Cardinality(Copies(log, e)) \in Nat
    BY CopiesAreFinite DEF TypeOK
  <2> QED BY <2>2, <2>3
<1>6. CASE e \in Range(buf)
  <2>1. PICK k \in 1..Len(buf) : buf[k] = e
    BY <1>2, <1>6 DEF Range
  <2>2. ASSUME NEW i \in 1..Len(buf), buf[i] = e
        PROVE  i = k
    <3>1. accepted[Settled + i] = accepted[Settled + k]
      BY <1>2, <2>1, <2>2 DEF QueueInOrder
    <3>2. Settled + i \in DOMAIN accepted /\ Settled + k \in DOMAIN accepted
      BY <1>2
    <3>3. Settled + i = Settled + k
      BY <3>1, <3>2 DEF AcceptedOnce, IsInjective
    <3> QED BY <1>2, <3>3
  <2>3. Copies(log', e) = Copies(log, e) \cup {Len(log) + k}
    <3>1. ASSUME NEW j \in Copies(log', e)
          PROVE  j \in Copies(log, e) \cup {Len(log) + k}
      <4>1. j \in 1..Len(log') /\ log'[j] = e
        BY <1>1 DEF Copies
      <4>2. CASE j \in 1..Len(log)
        BY <1>1, <4>1, <4>2 DEF Copies
      <4>3. CASE j \notin 1..Len(log)
        <5>1. PICK i \in 1..Len(buf) : j = Len(log) + i
          BY <1>3, <4>1, <4>3
        <5>2. buf[i] = e
          BY <1>1, <4>1, <5>1
        <5> QED BY <2>2, <5>1, <5>2
      <4> QED BY <4>2, <4>3
    <3>2. Copies(log, e) \subseteq Copies(log', e)
      BY <1>1, <1>4 DEF Copies
    <3>3. Len(log) + k \in 1..Len(log') /\ log'[Len(log) + k] = e
      BY <1>1, <1>2, <2>1
    <3>4. Len(log) + k \in Copies(log', e)
      BY <1>1, <3>3 DEF Copies
    <3> QED BY <3>1, <3>2, <3>4
  <2>4. IsFiniteSet(Copies(log, e)) /\ Cardinality(Copies(log, e)) \in Nat
    BY CopiesAreFinite DEF TypeOK
  <2>5. Cardinality(Copies(log', e)) <= Cardinality(Copies(log, e)) + 1
    <3>1. \/ Cardinality(Copies(log, e) \cup {Len(log) + k}) = Cardinality(Copies(log, e))
          \/ Cardinality(Copies(log, e) \cup {Len(log) + k}) = Cardinality(Copies(log, e)) + 1
      BY <2>4, FS_AddElement
    <3> QED BY <2>3, <2>4, <3>1
  <2> QED BY <1>6, <2>5
<1> QED BY <1>5, <1>6

LEMMA NextKeepsCopiesPaidFor ==
  ASSUME IInv, [Next]_vars
  PROVE  CopiesPaidFor'
<1>1. TypeOK /\ QueueInOrder /\ AcceptedOnce /\ LogInStep /\ CopiesPaidFor /\ TypeOK'
  BY NextKeepsTypes DEF IInv
<1>2. /\ Len(accepted) \in Nat /\ Len(buf) \in Nat /\ Len(channel) \in Nat
      /\ DOMAIN accepted = 1..Len(accepted) /\ DOMAIN buf = 1..Len(buf)
      /\ Settled \in Nat /\ Len(accepted) = Settled + Len(buf) + Len(channel)
      /\ lostAcks \in Nat /\ lostAcks' \in Nat
  BY <1>1, QueuePlaces DEF TypeOK
<1>3. CASE InsertCommits
  <2>1. /\ UNCHANGED <<accepted, buf, lostAcks>> /\ Settled' = Settled
        /\ task = "insert" /\ task' = "answer"
    BY <1>1, <1>3, InsertAddsBuffer
  <2>2. ASSUME NEW n \in (Settled + 1)..(Settled + Len(buf))
        PROVE  Cardinality(Copies(log', accepted[n])) <= 1 + lostAcks
    <3>1. Cardinality(Copies(log, accepted[n])) <= lostAcks
      BY <1>1, <1>2, <2>1 DEF CopiesPaidFor
    <3>2. Cardinality(Copies(log', accepted[n])) <= Cardinality(Copies(log, accepted[n])) + 1
      BY <1>1, <1>3, InsertAddsOneCopy
    <3>3. /\ Cardinality(Copies(log, accepted[n])) \in Nat
          /\ Cardinality(Copies(log', accepted[n])) \in Nat
      BY <1>1, CopiesAreFinite DEF TypeOK
    <3> QED BY <1>2, <3>1, <3>2, <3>3
  <2> QED BY <2>1, <2>2 DEF CopiesPaidFor
<1>4. ASSUME NEW q \in Requests, Send(q)
      PROVE  CopiesPaidFor'
  <2>1. /\ UNCHANGED <<buf, log, task, lostAcks>> /\ task # "aborted" /\ Settled' = Settled
        /\ \A n \in 1..Len(accepted) : accepted'[n] = accepted[n]
    BY <1>1, <1>4, SendMovesQueue
  <2>2. \A n \in (Settled + 1)..(Settled + Len(buf)) : accepted'[n] = accepted[n]
    BY <1>2, <2>1
  <2> QED BY <1>1, <2>1, <2>2 DEF CopiesPaidFor
<1>5. CASE Receive
  <2>1. /\ UNCHANGED <<accepted, log, lostAcks>> /\ Settled' = Settled
        /\ Len(buf') = Len(buf) + 1 /\ Len(channel) >= 1
        /\ task = "select" /\ task' \in {"select", "insert"}
    BY <1>1, <1>5, ReceiveMovesQueue
  <2>2. SUFFICES ASSUME NEW n \in (Settled + 1)..(Settled + Len(buf) + 1)
                 PROVE  Cardinality(Copies(log, accepted[n])) <= lostAcks
    BY <1>2, <2>1 DEF CopiesPaidFor
  <2>3. CASE n <= Settled + Len(buf)
    BY <1>1, <1>2, <2>1, <2>3 DEF CopiesPaidFor
  <2>4. CASE n > Settled + Len(buf)
    <3>1. \A j \in DOMAIN log : log[j] # accepted[n]
      <4>1. n \in DOMAIN accepted
        BY <1>2, <2>1
      <4> QED BY <1>1, <2>1, <2>4, <4>1, LaterIsNotLogged
    <3>2. Copies(log, accepted[n]) = {}
      BY <3>1 DEF Copies
    <3> QED BY <1>2, <3>2, FS_EmptySet
  <2> QED BY <1>2, <2>3, <2>4
<1>6. CASE Written
  <2>1. Len(buf') = 0 /\ Settled' \in Nat
    BY <1>1, <1>6, WrittenMovesQueue
  <2>2. (Settled' + 1)..(Settled' + Len(buf')) = {}
    <3>1. \A x \in Nat : (x + 1)..(x + 0) = {}
      OBVIOUS
    <3> QED BY <2>1, <3>1
  <2> QED BY <2>2 DEF CopiesPaidFor
<1>7. CASE DrainTimeout
  BY <1>7 DEF DrainTimeout, CopiesPaidFor
<1>8. CASE AnswerLost
  <2>1. /\ UNCHANGED <<accepted, buf, channel, log>> /\ task = "answer" /\ task' # "answer"
        /\ lostAcks' = lostAcks + 1
    BY <1>8 DEF AnswerLost, AttemptFailed
  <2>2. Settled' = Settled
    BY <2>1 DEF Settled
  <2>3. \A n \in (Settled + 1)..(Settled + Len(buf)) :
          Cardinality(Copies(log, accepted[n])) <= 1 + lostAcks
    BY <1>1, <2>1 DEF CopiesPaidFor
  <2> QED BY <1>2, <2>1, <2>2, <2>3 DEF CopiesPaidFor
<1>9. CASE /\ UNCHANGED <<accepted, buf, channel, log, lostAcks>>
           /\ task' = "aborted" <=> task = "aborted"
           /\ task' = "answer" <=> task = "answer"
  <2>1. accepted' = accepted /\ buf' = buf /\ log' = log /\ lostAcks' = lostAcks
        /\ Settled' = Settled
    BY <1>9 DEF Settled
  <2> QED BY <1>1, <1>9, <2>1 DEF CopiesPaidFor
<1>10. ASSUME ~InsertCommits, ~AnswerLost, ~Written, ~DrainTimeout
       PROVE  lostAcks' = lostAcks /\ (task' = "answer" <=> task = "answer")
  <2>1. ASSUME NEW q \in Requests, Handler(q)
        PROVE  lostAcks' = lostAcks /\ task' = task
    BY <2>1 DEF Handler, Count, AwaitSlot, Send, SendFails, Cancel, taskVars, sinkVars
  <2>2. CASE Receive \/ Tick \/ Drain \/ InsertTooLarge \/ InsertFails
    BY <2>2 DEF Receive, Tick, Drain, InsertTooLarge, InsertFails, StartFlush, AttemptFailed,
                sinkVars
  <2>3. CASE DropRouter \/ Shutdown \/ UNCHANGED vars
    BY <2>3 DEF DropRouter, Shutdown, vars, taskVars, sinkVars
  <2> QED BY <1>10, <2>1, <2>2, <2>3 DEF Next, Sink
<1> QED BY <1>3, <1>4, <1>5, <1>6, <1>7, <1>8, <1>9, <1>10, OthersKeepQueue, OthersKeepLog

LEMMA NextKeepsDuplicates ==
  ASSUME IInv, [Next]_vars
  PROVE  DuplicatesOnlyFromLostAnswers'
<1>1. /\ TypeOK /\ QueueInOrder /\ AcceptedOnce /\ DuplicatesOnlyFromLostAnswers
      /\ TypeOK' /\ QueueInOrder' /\ CopiesPaidFor'
  BY NextKeepsTypes, NextKeepsQueueInOrder, NextKeepsCopiesPaidFor DEF IInv
<1>2. CASE InsertCommits
  <2>1. /\ Range(log') = Range(log) \cup Range(buf) /\ buf' = buf /\ accepted' = accepted
        /\ lostAcks' = lostAcks /\ task' = "answer" /\ Settled' = Settled
    BY <1>1, <1>2, InsertAddsBuffer
  <2>2. SUFFICES ASSUME NEW e \in Range(log')
                 PROVE  Cardinality(Copies(log', e)) <= 1 + lostAcks
    BY <2>1 DEF DuplicatesOnlyFromLostAnswers
  <2>3. CASE e \in Range(buf)
    <3>1. PICK i \in DOMAIN buf : e = buf[i]
      BY <2>3 DEF Range
    <3>2. e = accepted[Settled + i]
      BY <1>1, <3>1 DEF QueueInOrder
    <3>3. Settled + i \in (Settled + 1)..(Settled + Len(buf))
      BY <1>1, QueuePlaces
    <3>4. Cardinality(Copies(log', accepted'[Settled + i])) <= 1 + lostAcks'
      BY <1>1, <2>1, <3>3 DEF CopiesPaidFor
    <3> QED BY <2>1, <3>2, <3>4
  <2>4. CASE e \notin Range(buf)
    BY <1>1, <1>2, <2>1, <2>2, <2>4, InsertAddsOneCopy DEF DuplicatesOnlyFromLostAnswers
  <2> QED BY <2>3, <2>4
<1>3. CASE ~InsertCommits
  <2>1. log' = log
    BY <1>3, OthersKeepLog
  <2>2. lostAcks' >= lostAcks
    <3>1. lostAcks \in Nat
      BY <1>1 DEF TypeOK
    <3>2. ASSUME NEW q \in Requests, Handler(q)
          PROVE  lostAcks' = lostAcks
      BY <3>2 DEF Handler, Count, AwaitSlot, Send, SendFails, Cancel, sinkVars
    <3>3. CASE Receive \/ Tick \/ Drain \/ InsertTooLarge \/ InsertFails \/ AnswerLost \/ Written
      BY <3>1, <3>3 DEF Receive, Tick, Drain, InsertTooLarge, InsertFails, AnswerLost, Written,
                        sinkVars
    <3>4. CASE DropRouter \/ Shutdown \/ DrainTimeout \/ UNCHANGED vars
      BY <3>1, <3>4 DEF DropRouter, Shutdown, DrainTimeout, vars, sinkVars
    <3> QED BY <1>3, <3>1, <3>2, <3>3, <3>4 DEF Next, Sink
  <2>3. lostAcks \in Nat /\ lostAcks' \in Nat
    BY <1>1 DEF TypeOK
  <2>4. ASSUME NEW e \in Range(log)
        PROVE  Cardinality(Copies(log, e)) <= 1 + lostAcks'
    <3>1. Cardinality(Copies(log, e)) <= 1 + lostAcks
      BY <1>1 DEF DuplicatesOnlyFromLostAnswers
    <3>2. Cardinality(Copies(log, e)) \in Nat
      BY <1>1, CopiesAreFinite DEF TypeOK
    <3> QED BY <2>2, <2>3, <3>1, <3>2
  <2> QED BY <2>1, <2>4 DEF DuplicatesOnlyFromLostAnswers
<1> QED BY <1>2, <1>3

-------------------------------------------------------------------------------
(* What is pending *)

\* An accepted event is in the log, in the buffer or in the channel.
LEMMA AcceptedIsSomewhere ==
  ASSUME TypeOK, QueueInOrder, LogInStep, task # "aborted"
  PROVE  Range(accepted) \subseteq Range(log) \cup Range(buf) \cup Range(channel)
<1>1. /\ Len(buf) \in Nat /\ Len(channel) \in Nat /\ Settled \in Nat
      /\ DOMAIN accepted = 1..Len(accepted) /\ Len(accepted) = Settled + Len(buf) + Len(channel)
      /\ DOMAIN buf = 1..Len(buf) /\ DOMAIN channel = 1..Len(channel)
  BY QueuePlaces
<1>2. SUFFICES ASSUME NEW n \in DOMAIN accepted
               PROVE  accepted[n] \in Range(log) \cup Range(buf) \cup Range(channel)
  BY DEF Range
<1>3. CASE n <= Settled
  BY <1>1, <1>3 DEF LogInStep
<1>4. CASE n > Settled /\ n <= Settled + Len(buf)
  <2>1. PICK i \in 1..Len(buf) : n = Settled + i
    <3>1. n - Settled \in 1..Len(buf) /\ n = Settled + (n - Settled)
      BY <1>1, <1>4
    <3> QED BY <3>1
  <2> QED BY <1>1, <2>1 DEF QueueInOrder, Range
<1>5. CASE n > Settled + Len(buf)
  <2>1. PICK i \in 1..Len(channel) : n = Settled + Len(buf) + i
    <3>1. /\ n - (Settled + Len(buf)) \in 1..Len(channel)
          /\ n = Settled + Len(buf) + (n - (Settled + Len(buf)))
      BY <1>1, <1>5
    <3> QED BY <3>1
  <2> QED BY <1>1, <2>1 DEF QueueInOrder, Range
<1> QED BY <1>1, <1>3, <1>4, <1>5

\* Counting, and leaving enqueue, changes the set of counted requests by one.
LEMMA CountedChanges ==
  ASSUME TypeOK, PendingCovers, NEW q \in Requests
  PROVE  /\ Cardinality(Counted) \in Nat /\ pending \in Nat
         /\ IsFiniteSet(Counted \cup {q}) /\ IsFiniteSet(Counted \ {q})
         /\ Cardinality(Counted \cup {q}) \in Nat /\ Cardinality(Counted \ {q}) \in Nat
         /\ Cardinality(Counted \cup {q}) <= Cardinality(Counted) + 1
         /\ Cardinality(Counted \ {q}) <= Cardinality(Counted)
         /\ q \in Counted => Cardinality(Counted \ {q}) = Cardinality(Counted) - 1
<1>1. IsFiniteSet(Counted) /\ Cardinality(Counted) \in Nat /\ pending \in Nat
  BY FS_CardinalityType DEF PendingCovers, TypeOK
<1>2. /\ IsFiniteSet(Counted \cup {q})
      /\ \/ Cardinality(Counted \cup {q}) = Cardinality(Counted)
         \/ Cardinality(Counted \cup {q}) = Cardinality(Counted) + 1
  BY <1>1, FS_AddElement
<1>3. /\ IsFiniteSet(Counted \ {q})
      /\ q \in Counted => Cardinality(Counted \ {q}) = Cardinality(Counted) - 1
      /\ q \notin Counted => Cardinality(Counted \ {q}) = Cardinality(Counted)
  BY <1>1, FS_RemoveElement
<1>4. Cardinality(Counted \ {q}) \in Nat
  BY <1>3, FS_CardinalityType
<1> QED BY <1>1, <1>2, <1>3, <1>4

LEMMA NextKeepsPendingCovers ==
  ASSUME IInv, [Next]_vars
  PROVE  PendingCovers'
<1>1. TypeOK /\ QueueInOrder /\ LogInStep /\ PendingCovers /\ TypeOK'
  BY NextKeepsTypes DEF IInv
<1>2. /\ Len(buf) \in Nat /\ Len(channel) \in Nat /\ pending \in Nat
      /\ IsFiniteSet(Counted) /\ Cardinality(Counted) \in Nat
      /\ pending >= Cardinality(Counted) + Len(channel) + Len(buf)
  BY <1>1, QueuePlaces, FS_CardinalityType DEF TypeOK, PendingCovers
<1>3. req \in [Requests -> {"idle", "sending", "waiting", "next",
                           "accepted", "unavailable", "gone"}]
  BY <1>1 DEF TypeOK
<1>4. ASSUME NEW q \in Requests, Count(q)
      PROVE  PendingCovers'
  <2>1. /\ UNCHANGED <<accepted, buf, channel, log, task>> /\ pending' = pending + 1
        /\ req' = [req EXCEPT ![q] = "sending"]
    BY <1>4 DEF Count, taskVars, sinkVars
  <2>2. Counted' = Counted \cup {q}
    BY <1>3, <2>1 DEF Counted
  <2>3. /\ IsFiniteSet(Counted') /\ Cardinality(Counted') \in Nat
        /\ Cardinality(Counted') <= Cardinality(Counted) + 1
    BY <1>1, <2>2, CountedChanges
  <2>4. /\ accepted' = accepted /\ log' = log /\ (task' = "aborted" <=> task = "aborted")
        /\ Len(buf') = Len(buf) /\ Len(channel') = Len(channel) /\ pending' = pending + 1
    BY <2>1
  <2> QED BY <1>1, <1>2, <2>3, <2>4 DEF PendingCovers
<1>5. ASSUME NEW q \in Requests, AwaitSlot(q)
      PROVE  PendingCovers'
  <2>1. /\ UNCHANGED <<accepted, buf, channel, log, task, pending>>
        /\ req[q] = "sending" /\ req' = [req EXCEPT ![q] = "waiting"]
    BY <1>5 DEF AwaitSlot, taskVars, sinkVars
  <2>2. Counted' = Counted
    BY <1>3, <2>1 DEF Counted
  <2> QED BY <1>1, <2>1, <2>2 DEF PendingCovers
<1>6. ASSUME NEW q \in Requests, Send(q)
      PROVE  PendingCovers'
  <2>1. /\ UNCHANGED <<buf, log, task, pending>> /\ task # "aborted"
        /\ Len(channel') = Len(channel) + 1
    BY <1>1, <1>6, SendMovesQueue
  <2>2. q \in Counted /\ Counted' = Counted \ {q}
    <3>1. /\ q \in Counted
          /\ req' = [req EXCEPT ![q] =
                       IF sent[q] + 1 = BatchLen[q] THEN "accepted" ELSE "next"]
      BY <1>6 DEF Send
    <3> QED BY <1>3, <3>1 DEF Counted
  <2>3. /\ IsFiniteSet(Counted') /\ Cardinality(Counted') \in Nat
        /\ Cardinality(Counted') = Cardinality(Counted) - 1
    BY <1>1, <2>2, CountedChanges
  <2>4. /\ Len(buf') = Len(buf) /\ pending' = pending /\ task' # "aborted"
    BY <2>1
  <2> QED BY <1>2, <2>1, <2>3, <2>4 DEF PendingCovers
<1>7. ASSUME NEW q \in Requests, SendFails(q)
      PROVE  PendingCovers'
  <2>1. /\ UNCHANGED <<accepted, buf, channel, log, task>> /\ pending' = pending - 1
        /\ q \in Counted /\ req' = [req EXCEPT ![q] = "unavailable"]
    BY <1>7 DEF SendFails, taskVars, sinkVars
  <2>2. Counted' = Counted \ {q}
    BY <1>3, <2>1 DEF Counted
  <2>3. /\ IsFiniteSet(Counted') /\ Cardinality(Counted') \in Nat
        /\ Cardinality(Counted') = Cardinality(Counted) - 1
    BY <1>1, <2>1, <2>2, CountedChanges
  <2>4. /\ accepted' = accepted /\ log' = log /\ (task' = "aborted" <=> task = "aborted")
        /\ Len(buf') = Len(buf) /\ Len(channel') = Len(channel) /\ pending' = pending - 1
    BY <2>1
  <2> QED BY <1>1, <1>2, <2>3, <2>4 DEF PendingCovers
<1>8. ASSUME NEW q \in Requests, Cancel(q)
      PROVE  PendingCovers'
  <2>1. /\ UNCHANGED <<accepted, buf, channel, log, task, pending>>
        /\ req' = [req EXCEPT ![q] = "gone"]
    BY <1>8 DEF Cancel, taskVars, sinkVars
  <2>2. Counted' = Counted \ {q}
    BY <1>3, <2>1 DEF Counted
  <2>3. /\ IsFiniteSet(Counted') /\ Cardinality(Counted') \in Nat
        /\ Cardinality(Counted') <= Cardinality(Counted)
    BY <1>1, <2>2, CountedChanges
  <2>4. /\ accepted' = accepted /\ log' = log /\ (task' = "aborted" <=> task = "aborted")
        /\ Len(buf') = Len(buf) /\ Len(channel') = Len(channel) /\ pending' = pending
    BY <2>1
  <2> QED BY <1>1, <1>2, <2>3, <2>4 DEF PendingCovers
<1>9. CASE Receive
  <2>1. /\ UNCHANGED <<pending, req>> /\ task' # "aborted"
        /\ Len(channel') = Len(channel) - 1 /\ Len(buf') = Len(buf) + 1
    BY <1>1, <1>9, ReceiveMovesQueue
  <2>2. Counted' = Counted
    BY <2>1 DEF Counted
  <2> QED BY <1>2, <2>1, <2>2 DEF PendingCovers
<1>10. CASE Written
  <2>1. /\ UNCHANGED <<channel, req>> /\ task' # "aborted" /\ Len(buf') = 0
        /\ pending' = pending - Len(buf)
    BY <1>1, <1>10, WrittenMovesQueue DEF Written
  <2>2. Counted' = Counted
    BY <2>1 DEF Counted
  <2> QED BY <1>2, <2>1, <2>2 DEF PendingCovers
<1>11. CASE DrainTimeout
  <2>1. /\ UNCHANGED <<accepted, log, pending, req>> /\ task # "aborted"
        /\ Len(channel') = 0 /\ Len(buf') = 0
    BY <1>11 DEF DrainTimeout, Alive, requestVars, sinkVars
  <2>2. Counted' = Counted
    BY <2>1 DEF Counted
  <2>3. ASSUME ~(Range(accepted) \subseteq Range(log))
        PROVE  Len(channel) + Len(buf) > 0
    <3>1. ASSUME Len(channel) = 0, Len(buf) = 0
          PROVE  Range(buf) = {} /\ Range(channel) = {}
      BY <1>1, <3>1, QueuePlaces DEF Range
    <3> QED BY <1>1, <1>2, <2>1, <2>3, <3>1, AcceptedIsSomewhere
  <2> QED BY <1>2, <2>1, <2>2, <2>3 DEF PendingCovers
<1>12. ASSUME \/ Tick \/ Drain \/ InsertTooLarge \/ InsertFails \/ AnswerLost
              \/ DropRouter \/ Shutdown \/ UNCHANGED vars
       PROVE  PendingCovers'
  <2>1. /\ UNCHANGED <<accepted, buf, channel, log, pending, req>>
        /\ task' = "aborted" <=> task = "aborted"
    BY <1>12 DEF Tick, Drain, InsertTooLarge, InsertFails, AnswerLost, DropRouter, Shutdown, vars,
                 StartFlush, AttemptFailed, requestVars, taskVars, sinkVars
  <2>2. Counted' = Counted
    BY <2>1 DEF Counted
  <2> QED BY <1>1, <2>1, <2>2 DEF PendingCovers
<1>13. CASE InsertCommits
  <2>1. UNCHANGED <<buf, channel, pending, req>> /\ task' # "aborted"
    BY <1>1, <1>13, InsertAddsBuffer
  <2>2. Counted' = Counted
    BY <2>1 DEF Counted
  <2> QED BY <1>1, <2>1, <2>2 DEF PendingCovers
<1> QED BY <1>4, <1>5, <1>6, <1>7, <1>8, <1>9, <1>10, <1>11, <1>12, <1>13
        DEF Next, Handler, Sink

-------------------------------------------------------------------------------
(* The safety properties *)

LEMMA InitIsInvariant == Init => IInv
<1> SUFFICES ASSUME Init
             PROVE  IInv
  OBVIOUS
<1>1. TypeOK
  BY InitIsTyped
<1>2. /\ accepted = << >> /\ log = << >> /\ buf = << >> /\ channel = << >>
      /\ task = "select" /\ draining = FALSE /\ pending = 0 /\ Settled = 0
      /\ Len(buf) = 0 /\ Len(channel) = 0
      /\ DOMAIN accepted = {} /\ DOMAIN log = {} /\ DOMAIN buf = {} /\ DOMAIN channel = {}
  <2>1. /\ accepted = << >> /\ log = << >> /\ buf = << >> /\ channel = << >>
        /\ task = "select" /\ draining = FALSE /\ pending = 0
    BY DEF Init
  <2>2. Len(<< >>) = 0 /\ DOMAIN << >> = {}
    OBVIOUS
  <2>3. Len(accepted) = 0 /\ Len(buf) = 0 /\ Len(channel) = 0
    BY <2>1, <2>2
  <2>4. Settled = 0
    BY ONLY <2>3 DEF Settled
  <2> QED BY <2>1, <2>2, <2>3, <2>4
<1>3. Counted = {}
  BY DEF Init, Counted
<1>4. QueueInOrder
  BY <1>2 DEF QueueInOrder
<1>5. AcceptedOnce
  BY <1>2 DEF AcceptedOnce, IsInjective
<1>6. TaskInStep
  BY <1>2 DEF TaskInStep
<1>7. LogInStep
  BY <1>2 DEF LogInStep
<1>8. CopiesPaidFor
  BY <1>2 DEF CopiesPaidFor
<1>9. PendingCovers
  BY <1>2, <1>3, FS_EmptySet DEF PendingCovers
<1>10. WrittenInOrder
  BY <1>2 DEF WrittenInOrder
<1>11. DuplicatesOnlyFromLostAnswers
  BY <1>2 DEF DuplicatesOnlyFromLostAnswers, Range
<1> QED BY <1>1, <1>4, <1>5, <1>6, <1>7, <1>8, <1>9, <1>10, <1>11 DEF IInv

LEMMA NextKeepsInvariant == IInv /\ [Next]_vars => IInv'
<1> SUFFICES ASSUME IInv, [Next]_vars
             PROVE  IInv'
  OBVIOUS
<1> QED BY NextKeepsTypes, NextKeepsQueueInOrder, NextKeepsAcceptedOnce, NextKeepsTaskInStep,
           NextKeepsLogInStep, NextKeepsCopiesPaidFor, NextKeepsPendingCovers,
           NextKeepsWrittenInOrder, NextKeepsDuplicates DEF IInv

\* The invariant of the writer task, its channel and the log holds in every
\* reachable state, for every number of requests, capacity, buffer size and
\* retry limit and for unboundedly many failures.
THEOREM InductiveInvariant == Spec => []IInv
<1>1. Init => IInv
  BY InitIsInvariant
<1>2. IInv /\ [Next]_vars => IInv'
  BY NextKeepsInvariant
<1> QED BY <1>1, <1>2, PTL DEF Spec

\* The counters of the writer never go below zero and its channel keeps to its
\* capacity.
THEOREM TypeCorrectness == Spec => []TypeOK
<1>1. IInv => TypeOK
  BY DEF IInv
<1> QED BY <1>1, InductiveInvariant, PTL

\* flushed() resolves only when every accepted event is in the log: `pending`
\* counts what buffer and channel hold, and what an abort took from them.
THEOREM FlushedIsWritten == Spec => []FlushedMeansWritten
<1>1. ASSUME IInv, pending = 0
      PROVE  Range(accepted) \subseteq Range(log)
  <2>1. TypeOK /\ QueueInOrder /\ LogInStep /\ PendingCovers
    BY <1>1 DEF IInv
  <2>2. /\ Len(buf) \in Nat /\ Len(channel) \in Nat
        /\ DOMAIN buf = 1..Len(buf) /\ DOMAIN channel = 1..Len(channel)
        /\ Cardinality(Counted) \in Nat
        /\ pending >= Cardinality(Counted) + Len(channel) + Len(buf)
    BY <2>1, QueuePlaces, FS_CardinalityType DEF PendingCovers
  <2>3. Len(buf) = 0 /\ Len(channel) = 0
    BY <1>1, <2>2
  <2>4. Range(buf) = {} /\ Range(channel) = {}
    BY <2>2, <2>3 DEF Range
  <2>5. CASE task = "aborted"
    BY <1>1, <2>1, <2>2, <2>5 DEF PendingCovers
  <2>6. CASE task # "aborted"
    BY <2>1, <2>4, <2>6, AcceptedIsSomewhere
  <2> QED BY <2>5, <2>6
<1>2. IInv => FlushedMeansWritten
  BY <1>1 DEF FlushedMeansWritten
<1> QED BY <1>2, InductiveInvariant, PTL

\* An accepted event is written or still held until a drain is aborted, and the
\* task returns by itself only when all are written.
THEOREM NothingIsDropped == Spec => []NothingDropped
<1>1. ASSUME IInv
      PROVE  NothingDropped
  <2>1. TypeOK /\ QueueInOrder /\ LogInStep /\ TaskInStep
    BY <1>1 DEF IInv
  <2>2. ASSUME task = "returned"
        PROVE  Range(accepted) \subseteq Range(log)
    <3>1. buf = << >> /\ channel = << >>
      BY <2>1, <2>2 DEF TaskInStep
    <3>2. Range(buf) = {} /\ Range(channel) = {}
      BY <3>1 DEF Range
    <3> QED BY <2>1, <2>2, <3>2, AcceptedIsSomewhere
  <2> QED BY <2>1, <2>2, AcceptedIsSomewhere DEF NothingDropped
<1> QED BY <1>1, InductiveInvariant, PTL

\* Retries, retained batches and lost answers do not reorder: each event is first
\* written after every event accepted before it.
THEOREM RetriesKeepOrder == Spec => []WrittenInOrder
<1>1. IInv => WrittenInOrder
  BY DEF IInv
<1> QED BY <1>1, InductiveInvariant, PTL

\* An event is in the log at most once more than answers to INSERTs were lost.
THEOREM RetriesRepeatLittle == Spec => []DuplicatesOnlyFromLostAnswers
<1>1. IInv => DuplicatesOnlyFromLostAnswers
  BY DEF IInv
<1> QED BY <1>1, InductiveInvariant, PTL

-------------------------------------------------------------------------------
(* The refinement of IngestLog *)

\* An accepted event takes the next place of the abstract queue.
LEMMA SendAccepts ==
  ASSUME IInv, NEW q \in Requests, Send(q)
  PROVE  Abstract!Accept
<1>1. TypeOK /\ QueueInOrder
  BY DEF IInv
<1>2. /\ log' = log /\ task' = task /\ task # "aborted" /\ Settled' = Settled
      /\ Len(accepted') = Len(accepted) + 1
      /\ accepted' = Append(accepted, <<q, sent[q] + 1>>) /\ <<q, sent[q] + 1>> \in Event
      /\ accepted \in Seq(Event)
  BY <1>1, SendMovesQueue DEF Send, TypeOK
<1>3. SubSeq(accepted', 1, Len(accepted)) = accepted
  BY <1>2, AppendProperties
<1>4. SubSeq(accepted, 1, Len(accepted)) = accepted
  BY <1>2, SubSeqFull
<1>5. Abstract!IsPrefix(accepted, accepted')
  BY <1>2, <1>3, <1>4 DEF Abstract!IsPrefix
<1> QED BY <1>2, <1>5 DEF Abstract!Accept

\* The batch a flush holds is the segment that starts at the first event that is
\* not settled.
LEMMA BufferIsSegment ==
  ASSUME TypeOK, QueueInOrder
  PROVE  Abstract!Segment(Settled + Len(buf)) = buf
<1>1. /\ Len(buf) \in Nat /\ DOMAIN buf = 1..Len(buf) /\ Settled \in Nat
      /\ Settled + Len(buf) <= Len(accepted) /\ Len(accepted) \in Nat
      /\ accepted \in Seq(Event) /\ buf \in Seq(Event)
  BY QueuePlaces DEF TypeOK
<1> DEFINE s == SubSeq(accepted, Settled + 1, Settled + Len(buf))
<1>2. /\ s \in Seq(Event) /\ Len(s) = Len(buf)
      /\ \A i \in 1..Len(buf) : s[i] = accepted[Settled + i]
  BY <1>1, SubSeqProperties
<1>3. \A i \in 1..Len(buf) : s[i] = buf[i]
  BY <1>1, <1>2 DEF QueueInOrder
<1>4. s = buf
  BY <1>1, <1>2, <1>3, SeqEqual
<1> QED BY <1>4 DEF Abstract!Segment

LEMMA InsertWrites ==
  ASSUME IInv, InsertCommits
  PROVE  Abstract!Write
<1>1. TypeOK /\ QueueInOrder /\ TaskInStep
  BY DEF IInv
<1>2. /\ accepted' = accepted /\ Settled' = Settled /\ task = "insert" /\ task' = "answer"
      /\ log' = log \o buf /\ buf # << >>
  BY <1>1, InsertAddsBuffer DEF InsertCommits, TaskInStep
<1>3. Settled + Len(buf) \in Abstract!Ahead
  BY <1>1, <1>2, QueuePlaces, EmptySeq DEF Abstract!Ahead, TypeOK
<1>4. log' = log \o Abstract!Segment(Settled + Len(buf))
  BY <1>1, <1>2, BufferIsSegment
<1> QED BY <1>2, <1>3, <1>4 DEF Abstract!Write

\* An answer acknowledges the batch, which is the end of the log.
LEMMA WrittenAcknowledges ==
  ASSUME IInv, Written
  PROVE  Abstract!Acknowledge
<1>1. TypeOK /\ QueueInOrder /\ TaskInStep /\ LogInStep
  BY DEF IInv
<1>2. /\ accepted' = accepted /\ log' = log /\ task = "answer"
      /\ task' \in {"select", "returned"} /\ Settled' = Settled + Len(buf) /\ buf # << >>
  BY <1>1, WrittenMovesQueue DEF TaskInStep
<1>3. /\ Len(buf) <= Len(log) /\ buf \in Seq(Event) /\ log \in Seq(Event)
      /\ \A i \in DOMAIN buf : log[Len(log) - Len(buf) + i] = buf[i]
      /\ Len(log) \in Nat /\ Len(buf) \in Nat /\ DOMAIN buf = 1..Len(buf)
      /\ DOMAIN log = 1..Len(log)
  BY <1>1, <1>2 DEF LogInStep, TypeOK
<1>4. Settled' \in Abstract!Ahead
  BY <1>1, <1>2, QueuePlaces, EmptySeq DEF Abstract!Ahead, TypeOK
<1>5. Abstract!IsSuffix(buf, log)
  <2> DEFINE r == Abstract!Reverse(buf)
             t == Abstract!Reverse(log)
  <2>1. /\ r = [i \in 1..Len(buf) |-> buf[Len(buf) - i + 1]]
        /\ t = [i \in 1..Len(log) |-> log[Len(log) - i + 1]]
    BY DEF Abstract!Reverse
  <2>2. /\ r \in Seq(Event) /\ Len(r) = Len(buf)
        /\ t \in Seq(Event) /\ Len(t) = Len(log)
    BY <1>3, <2>1
  <2>3. ASSUME NEW i \in 1..Len(buf)
        PROVE  r[i] = t[i]
    <3>1. /\ Len(buf) - i + 1 \in DOMAIN buf /\ i \in 1..Len(log)
          /\ Len(log) - Len(buf) + (Len(buf) - i + 1) = Len(log) - i + 1
      BY <1>3
    <3> QED BY <1>3, <2>1, <3>1
  <2> HIDE DEF r, t
  <2>4. /\ SubSeq(r, 1, Len(r)) \in Seq(Event) /\ Len(SubSeq(r, 1, Len(r))) = Len(buf)
        /\ \A i \in 1..Len(buf) : SubSeq(r, 1, Len(r))[i] = r[i]
    BY <1>3, <2>2, SubSeqProperties
  <2>5. /\ SubSeq(t, 1, Len(r)) \in Seq(Event) /\ Len(SubSeq(t, 1, Len(r))) = Len(buf)
        /\ \A i \in 1..Len(buf) : SubSeq(t, 1, Len(r))[i] = t[i]
    BY <1>3, <2>2, SubSeqProperties
  <2>6. SubSeq(r, 1, Len(r)) = SubSeq(t, 1, Len(r))
    BY <2>3, <2>4, <2>5, SeqEqual
  <2>7. Abstract!IsPrefix(r, t)
    BY <1>3, <2>2, <2>6 DEF Abstract!IsPrefix
  <2> QED BY <2>7 DEF Abstract!IsSuffix, r, t
<1>6. Abstract!Segment(Settled') = buf
  <2>1. Abstract!Segment(Settled + Len(buf)) = buf
    BY <1>1, BufferIsSegment
  <2> QED BY <1>2, <2>1
<1> QED BY <1>2, <1>4, <1>5, <1>6 DEF Abstract!Acknowledge

\* An expired drain timeout gives up the rest.
LEMMA TimeoutAborts ==
  ASSUME DrainTimeout, TypeOK
  PROVE  Abstract!Abort
<1>1. /\ accepted' = accepted /\ log' = log /\ task # "aborted" /\ task' = "aborted"
      /\ channel' = << >> /\ buf' = << >>
  BY DEF DrainTimeout, Alive, sinkVars
<1>2. Len(accepted') = Len(accepted) /\ Len(buf') = 0 /\ Len(channel') = 0 /\ Len(accepted) \in Nat
  BY <1>1 DEF TypeOK
<1>3. Settled' = Len(accepted)
  BY ONLY <1>2 DEF Settled
<1> QED BY <1>1, <1>3 DEF Abstract!Abort

LEMMA StepRefines == IInv /\ [Next]_vars => [Abstract!Next]_Abstract!vars
<1> SUFFICES ASSUME IInv, [Next]_vars
             PROVE  [Abstract!Next]_Abstract!vars
  OBVIOUS
<1>1. TypeOK /\ QueueInOrder
  BY DEF IInv
<1>2. ASSUME NEW q \in Requests, Send(q)
      PROVE  Abstract!Next
  BY <1>2, SendAccepts DEF Abstract!Next
<1>3. CASE InsertCommits
  BY <1>3, InsertWrites DEF Abstract!Next
<1>4. CASE Written
  BY <1>4, WrittenAcknowledges DEF Abstract!Next
<1>5. CASE DrainTimeout
  BY <1>1, <1>5, TimeoutAborts DEF Abstract!Next
<1>6. CASE Receive
  BY <1>1, <1>6, ReceiveMovesQueue DEF Abstract!vars
<1>7. CASE /\ ~Receive /\ ~Written /\ ~DrainTimeout /\ ~InsertCommits
           /\ \A q \in Requests : ~Send(q)
  <2>1. accepted' = accepted /\ buf' = buf /\ channel' = channel
    BY <1>7, OthersKeepQueue
  <2>2. (task' = "aborted" <=> task = "aborted") /\ log' = log
    BY <1>7, OthersKeepQueue, OthersKeepLog
  <2>3. Settled' = Settled
    BY <2>1 DEF Settled
  <2> QED BY <2>1, <2>2, <2>3 DEF Abstract!vars
<1> QED BY <1>2, <1>3, <1>4, <1>5, <1>6, <1>7

\* The writer, with its channel, task, retries, drain and abort, is an
\* at-least-once queue in front of the log.
THEOREM WriterIsIngestLog == Spec => ImplementsIngestLog
<1>1. Init => Abstract!Init
  <2>1. ASSUME Init
        PROVE  /\ accepted = << >> /\ log = << >> /\ buf = << >> /\ channel = << >>
               /\ task = "select"
    BY <2>1 DEF Init
  <2>2. ASSUME Init
        PROVE  Len(accepted) = 0 /\ Len(buf) = 0 /\ Len(channel) = 0
    BY <2>1, <2>2
  <2>3. ASSUME Init
        PROVE  Settled = 0
    BY <2>2, <2>3 DEF Settled
  <2> QED BY <2>1, <2>3 DEF Abstract!Init
<1>2. IInv /\ [Next]_vars => [Abstract!Next]_Abstract!vars
  BY StepRefines
<1>3. Init /\ [][Next]_vars /\ []IInv => Abstract!Init /\ [][Abstract!Next]_Abstract!vars
  BY <1>1, <1>2, PTL
<1>4. Spec => Abstract!Spec
  BY <1>3, InductiveInvariant DEF Spec, Abstract!Spec
<1> QED BY <1>4 DEF ImplementsIngestLog
==============================================================================
