-------------------------- MODULE BatchIngest_proofs --------------------------
(***************************************************************************)
(* Theorems about the ingest handlers, for requests of any length sent any *)
(* number of times to a writer that stops and starts at any moment.        *)
(***************************************************************************)
EXTENDS BatchIngest, SequenceLemmas

-------------------------------------------------------------------------------
(* The converter *)

\* build_event makes an event of just the documents that are one.
LEMMA EventsAreBuilt ==
  ASSUME NEW doc \in Doc
  PROVE  build_event(doc) # Null <=> IsEvent(doc)
<1>1. doc.has \in SUBSET {"run", "job", "dataset"} /\ Null \notin {"run", "job", "dataset"}
  BY BatchIngestAssumption DEF Doc
<1>2. CASE ~ Readable(doc)
  BY <1>2 DEF build_event, IsEvent
<1>3. CASE Readable(doc) /\ "run" \in doc.has /\ "job" \in doc.has
  <2>1. build_event(doc) = "run"
    BY <1>3 DEF build_event
  <2> QED BY <1>1, <1>3, <2>1 DEF IsEvent
<1>4. CASE Readable(doc) /\ "run" \in doc.has /\ "job" \notin doc.has
  <2>1. build_event(doc) = Null
    BY <1>4 DEF build_event
  <2>2. doc.has \cap {"run", "job", "dataset"} \notin {{"job"}, {"dataset"}, {"job", "dataset"}}
    BY <1>4
  <2> QED BY <1>4, <2>1, <2>2 DEF IsEvent
<1>5. CASE Readable(doc) /\ "run" \notin doc.has
  <2>1. doc.has \cap {"run", "job", "dataset"} = doc.has
    BY <1>1
  <2>2. CASE "dataset" \in doc.has
    <3>1. build_event(doc) = "dataset"
      BY <1>5, <2>2 DEF build_event
    <3>2. doc.has = {"dataset"} \/ doc.has = {"job", "dataset"}
      BY <1>1, <1>5, <2>2
    <3> QED BY <1>1, <1>5, <2>1, <3>1, <3>2 DEF IsEvent
  <2>3. CASE doc.has = {"job"}
    <3>1. build_event(doc) = "job"
      BY <1>5, <2>3 DEF build_event
    <3> QED BY <1>1, <1>5, <2>1, <2>3, <3>1 DEF IsEvent
  <2>4. CASE doc.has = {}
    <3>1. build_event(doc) = Null
      BY <1>5, <2>4 DEF build_event
    <3> QED BY <1>5, <2>1, <2>4, <3>1 DEF IsEvent
  <2> QED BY <1>1, <1>5, <2>2, <2>3, <2>4
<1> QED BY <1>2, <1>3, <1>4, <1>5

\* Its events are the convertible documents, each once, in their order.
LEMMA ConvertedProperties ==
  ASSUME NEW docs \in Seq(Doc)
  PROVE  /\ Converted(docs) = InOrder({i \in DOMAIN docs : IsEvent(docs[i])})
         /\ Converted(docs) \in Seq(DOMAIN docs)
         /\ Len(Converted(docs)) \in Nat
         /\ DOMAIN Converted(docs) = 1..Len(Converted(docs))
         /\ \A m, n \in DOMAIN Converted(docs) : Converted(docs)[m] = Converted(docs)[n] => m = n
         /\ convert_batch(docs).failures = {i \in DOMAIN docs : ~ IsEvent(docs[i])}
         /\ Len(Converted(docs)) + Cardinality(convert_batch(docs).failures) = Len(docs)
<1> DEFINE good == {i \in DOMAIN docs : IsEvent(docs[i])}
           bad == {i \in DOMAIN docs : ~ IsEvent(docs[i])}
<1>1. DOMAIN docs = 1..Len(docs) /\ Len(docs) \in Nat /\ \A i \in DOMAIN docs : docs[i] \in Doc
  OBVIOUS
<1>2. \A i \in DOMAIN docs : build_event(docs[i]) # Null <=> IsEvent(docs[i])
  BY <1>1, EventsAreBuilt
<1>3. {i \in DOMAIN docs : build_event(docs[i]) # Null} = good
  BY <1>2
<1>4. Converted(docs) = InOrder(good)
  BY <1>3 DEF Converted
<1>5. {i \in DOMAIN docs : build_event(docs[i]) = Null} = bad
  BY <1>2
<1>6. convert_batch(docs).failures = bad
  BY <1>5 DEF convert_batch
<1>7. good \in SUBSET DOMAIN docs /\ bad \in SUBSET DOMAIN docs
      /\ good \cup bad = DOMAIN docs /\ good \cap bad = {}
  OBVIOUS
<1> HIDE DEF good, bad
<1>8. IsFiniteSet(DOMAIN docs) /\ Cardinality(DOMAIN docs) = Len(docs)
  <2>1. IsFiniteSet(1..Len(docs)) /\ Cardinality(1..Len(docs)) = Len(docs)
    BY <1>1, FS_Interval
  <2> QED BY <1>1, <2>1
<1>9. IsFiniteSet(good) /\ IsFiniteSet(bad) /\ good \in SUBSET Nat
  BY <1>1, <1>7, <1>8, FS_Subset
<1>10. Cardinality(good) \in Nat /\ Cardinality(bad) \in Nat
  BY <1>9, FS_CardinalityType
<1>11. Cardinality(good) + Cardinality(bad) = Len(docs)
  <2>1. Cardinality(good \cup bad)
          = Cardinality(good) + Cardinality(bad) - Cardinality(good \cap bad)
    BY <1>9, FS_Union
  <2>2. Cardinality(good \cap bad) = 0
    BY <1>7, FS_EmptySet
  <2> QED BY <1>7, <1>8, <1>10, <2>1, <2>2
<1>12. /\ InOrder(good) \in [1..Cardinality(good) -> good]
       /\ \A m, n \in 1..Cardinality(good) : m < n => InOrder(good)[m] < InOrder(good)[n]
  BY <1>9, InOrderProperties
<1>13. InOrder(good) \in Seq(DOMAIN docs) /\ Len(InOrder(good)) = Cardinality(good)
       /\ DOMAIN InOrder(good) = 1..Cardinality(good)
  BY <1>7, <1>10, <1>12
<1>14. ASSUME NEW m \in 1..Cardinality(good), NEW n \in 1..Cardinality(good),
              InOrder(good)[m] = InOrder(good)[n]
       PROVE  m = n
  <2>1. InOrder(good)[m] \in Nat
    BY <1>9, <1>12
  <2>2. ~ (m < n) /\ ~ (n < m)
    BY <1>12, <1>14, <2>1
  <2> QED BY <1>10, <2>2
<1> QED BY <1>4, <1>6, <1>10, <1>11, <1>13, <1>14 DEF good, bad
-------------------------------------------------------------------------------
(* The handlers *)

LEMMA TypeFacts ==
  ASSUME TypeOK
  PROVE  /\ body \in Seq(Doc) /\ events \in Seq(DOMAIN body) /\ accepted \in Seq(DOMAIN body)
         /\ Len(events) \in Nat /\ Len(accepted) \in Nat /\ attempts \in Nat
         /\ DOMAIN events = 1..Len(events) /\ DOMAIN accepted = 1..Len(accepted)
         /\ Len(Converted(body)) \in Nat
         /\ DOMAIN Converted(body) = 1..Len(Converted(body))
         /\ \A e : IsFiniteSet(Copies(e)) /\ Cardinality(Copies(e)) \in Nat
<1>1. /\ body \in Seq(Doc) /\ events \in Seq(DOMAIN body) /\ accepted \in Seq(DOMAIN body)
      /\ attempts \in Nat
  BY DEF TypeOK
<1>2. /\ Len(events) \in Nat /\ Len(accepted) \in Nat
      /\ DOMAIN events = 1..Len(events) /\ DOMAIN accepted = 1..Len(accepted)
  BY <1>1
<1>3. IsFiniteSet(DOMAIN accepted)
  <2>1. IsFiniteSet(1..Len(accepted))
    BY <1>2, FS_Interval
  <2> QED BY <1>2, <2>1
<1>4. ASSUME NEW e
      PROVE  IsFiniteSet(Copies(e)) /\ Cardinality(Copies(e)) \in Nat
  <2>1. Copies(e) \in SUBSET DOMAIN accepted
    BY DEF Copies
  <2> QED BY <1>3, <2>1, FS_Subset, FS_CardinalityType
<1> QED BY <1>1, <1>2, <1>4, ConvertedProperties

\* A request arrives, or arrives again: nothing of it is enqueued yet, and every
\* event has a copy per earlier attempt at most.
LEMMA ArrivingStarts ==
  ASSUME TypeOK, NEW docs \in Seq(Doc), NEW one, Arrive(docs, one), body' = docs,
         accepted' = accepted,
         \A n \in DOMAIN Converted(docs) : Cardinality(Copies(Converted(docs)[n])) <= attempts,
         accepted \in Seq(DOMAIN docs)
  PROVE  /\ TypeOK' /\ AttemptInOrder' /\ CopiesPerAttempt' /\ AnswerIsOfBody'
         /\ pc' # "idle" /\ attempts' = attempts + 1
<1>1. /\ events' = Converted(docs) /\ failures' = convert_batch(docs).failures
      /\ pc' \in {"enqueue", "answered"} /\ attempts' = attempts + 1
      /\ answer' = Null \/ answer' = [status |-> 400]
  BY DEF Arrive, convert_batch
<1>2. /\ Converted(docs) \in Seq(DOMAIN docs) /\ Len(Converted(docs)) \in Nat
      /\ DOMAIN Converted(docs) = 1..Len(Converted(docs))
  BY ConvertedProperties
<1>3. /\ attempts \in Nat /\ Len(accepted) \in Nat
      /\ \A e : Cardinality(Copies(e)) \in Nat
  BY TypeFacts
<1>4. TypeOK'
  <2>1. attempts' \in Nat /\ events' \in Seq(DOMAIN body') /\ accepted' \in Seq(DOMAIN body')
    BY <1>1, <1>2, <1>3
  <2>2. failures' = convert_batch(body').failures
    BY <1>1
  <2>3. body' \in Seq(Doc)
    OBVIOUS
  <2> QED BY <1>1, <2>1, <2>2, <2>3 DEF TypeOK
<1>5. Enqueued' = 0 /\ Converted(body)' = Converted(docs)
  <2>1. Converted(body)' = Converted(docs)
    BY DEF Converted
  <2>2. Enqueued' = Len(Converted(docs)) - Len(Converted(docs))
    BY <1>1, <2>1 DEF Enqueued
  <2> QED BY <1>2, <2>1, <2>2
<1>6. AttemptInOrder'
  <2>1. Converted(docs) = [n \in 1..Len(Converted(docs)) |-> Converted(docs)[0 + n]]
    BY <1>2
  <2> QED BY <1>1, <1>2, <1>3, <1>5, <2>1 DEF AttemptInOrder
<1>7. CopiesPerAttempt'
  <2>1. \A e : Copies(e)' = Copies(e)
    BY DEF Copies
  <2> QED BY <1>1, <1>3, <1>5, <2>1 DEF CopiesPerAttempt
<1>8. AnswerIsOfBody'
  BY <1>1 DEF AnswerIsOfBody
<1> QED BY <1>1, <1>4, <1>6, <1>7, <1>8

LEMMA PostStarts ==
  ASSUME IInv, NEW docs \in Bodies, NEW one \in BOOLEAN, Post(docs, one)
  PROVE  IInv'
<1>1. /\ pc = "idle" /\ accepted = << >> /\ TypeOK /\ accepted' = << >> /\ body' = docs
      /\ Arrive(docs, one) /\ docs \in Seq(Doc)
  BY BatchIngestAssumption DEF Post, IInv
<1>2. \A e : Copies(e) = {}
  BY <1>1 DEF Copies
<1>3. \A e : Cardinality(Copies(e)) <= attempts
  BY <1>1, <1>2, TypeFacts, FS_EmptySet
<1>4. /\ TypeOK' /\ AttemptInOrder' /\ CopiesPerAttempt' /\ AnswerIsOfBody' /\ pc' # "idle"
  BY <1>1, <1>3, ArrivingStarts
<1>5. AttemptsLeavePrefixes'
  BY <1>1 DEF AttemptsLeavePrefixes
<1> QED BY <1>4, <1>5 DEF IInv

\* A body that is no array is answered without an event.
LEMMA PostNoArrayEnds ==
  ASSUME IInv, PostNoArray
  PROVE  IInv'
<1>1. /\ body = << >> /\ events = << >> /\ accepted = << >> /\ TypeOK
      /\ body' = body /\ events' = events /\ accepted' = accepted /\ failures' = failures
      /\ attempts' = attempts + 1 /\ pc' = "answered" /\ answer' = [status |-> 400]
  BY DEF PostNoArray, IInv
<1>2. TypeOK'
  BY <1>1 DEF TypeOK
<1>3. Converted(body) = << >>
  <2> DEFINE C == Converted(body)
             n == Cardinality(convert_batch(body).failures)
  <2>1. /\ C \in Seq(DOMAIN body) /\ Len(C) \in Nat /\ Len(C) + n = Len(body) /\ Len(body) = 0
    BY <1>1, ConvertedProperties DEF TypeOK
  <2>2. DOMAIN body = {}
    BY <1>1
  <2> HIDE DEF C, n
  <2>3. C \in Seq({})
    BY <2>1, <2>2
  <2>4. Len(C) = 0
    <3>1. \A i \in 1..Len(C) : C[i] \in {}
      BY <2>3, ElementOfSeq
    <3> QED BY <2>1, <3>1
  <2>5. C = << >>
    BY <2>3, <2>4, EmptySeq
  <2> QED BY <2>5 DEF C
<1>4. Converted(body)' = << >>
  BY <1>1, <1>3 DEF Converted
<1>5. AttemptInOrder'
  BY <1>1, <1>4 DEF AttemptInOrder, Enqueued
<1>6. CopiesPerAttempt'
  BY <1>4 DEF CopiesPerAttempt
<1>7. AnswerIsOfBody'
  BY <1>1 DEF AnswerIsOfBody
<1>8. AttemptsLeavePrefixes'
  BY <1>1 DEF AttemptsLeavePrefixes
<1> QED BY <1>1, <1>2, <1>5, <1>6, <1>7, <1>8 DEF IInv

LEMMA ResendStarts ==
  ASSUME IInv, Resend
  PROVE  IInv'
<1>1. /\ pc # "idle" /\ TypeOK /\ CopiesPerAttempt /\ AttemptsLeavePrefixes
      /\ accepted' = accepted /\ body' = body /\ Arrive(body, single)
  BY DEF Resend, IInv
<1>2. /\ \A n \in DOMAIN Converted(body) : Cardinality(Copies(Converted(body)[n])) <= attempts
      /\ body \in Seq(Doc) /\ accepted \in Seq(DOMAIN body) /\ attempts \in Nat
      /\ \A e : Cardinality(Copies(e)) \in Nat
  BY <1>1, TypeFacts DEF CopiesPerAttempt
<1>3. /\ TypeOK' /\ AttemptInOrder' /\ CopiesPerAttempt' /\ AnswerIsOfBody' /\ pc' # "idle"
      /\ attempts' = attempts + 1
  BY <1>1, <1>2, ArrivingStarts
<1>4. AttemptsLeavePrefixes'
  <2>1. /\ \A i \in DOMAIN accepted : Cardinality(Copies(accepted[i])) <= attempts
        /\ \A e : Copies(e)' = Copies(e) /\ Converted(body)' = Converted(body)
    BY <1>1 DEF AttemptsLeavePrefixes, Copies, Converted
  <2>2. \A i \in DOMAIN accepted' : Cardinality(Copies(accepted[i]))' <= attempts'
    BY <1>1, <1>2, <1>3, <2>1
  <2> QED BY <1>1, <2>1, <2>2 DEF AttemptsLeavePrefixes, Copies
<1> QED BY <1>3, <1>4 DEF IInv

\* The next event of the attempt goes to the writer, behind the ones before it.
LEMMA EnqueueKeepsOrder ==
  ASSUME IInv, Enqueue
  PROVE  IInv'
<1> SUFFICES ASSUME NEW C, C = Converted(body), NEW k, k = Enqueued,
                    NEW n0, n0 = Len(accepted), NEW e, e = Head(events)
             PROVE  IInv'
  OBVIOUS
<1>1. /\ pc = "enqueue" /\ pc' = pc /\ events # << >> /\ body' = body /\ failures' = failures
      /\ accepted' = Append(accepted, e) /\ events' = Tail(events) /\ answer' = answer
      /\ attempts' = attempts
  BY DEF Enqueue
<1>2. TypeOK /\ AttemptInOrder /\ CopiesPerAttempt /\ AnswerIsOfBody /\ AttemptsLeavePrefixes
  BY <1>1 DEF IInv
<1>3. /\ body \in Seq(Doc) /\ events \in Seq(DOMAIN body) /\ accepted \in Seq(DOMAIN body)
      /\ Len(events) \in Nat /\ n0 \in Nat /\ attempts \in Nat
      /\ DOMAIN events = 1..Len(events) /\ DOMAIN accepted = 1..n0
      /\ Len(C) \in Nat /\ DOMAIN C = 1..Len(C)
      /\ \A x : IsFiniteSet(Copies(x)) /\ Cardinality(Copies(x)) \in Nat
  BY <1>2, TypeFacts
<1>4. \A m, n \in 1..Len(C) : C[m] = C[n] => m = n
  BY <1>3, ConvertedProperties
<1>5. /\ k \in 0..Len(C) /\ k <= n0 /\ k = Len(C) - Len(events)
      /\ events = [n \in 1..Len(events) |-> C[k + n]]
      /\ \A n \in 1..k : accepted[n0 - k + n] = C[n]
  BY <1>2 DEF AttemptInOrder, Enqueued
<1>6. Len(events) > 0 /\ k + 1 \in 1..Len(C) /\ e = C[k + 1] /\ e = events[1]
  <2>1. Len(events) > 0 /\ e = events[1]
    BY <1>1, <1>3
  <2>2. 1 \in 1..Len(events) /\ k + 1 \in 1..Len(C) /\ k \in Nat
    BY <1>3, <1>5, <2>1
  <2>3. events[1] = C[k + 1]
    BY <1>5, <2>2
  <2> QED BY <2>1, <2>2, <2>3
<1>7. /\ Len(events') = Len(events) - 1 /\ events' \in Seq(DOMAIN body)
      /\ \A n \in 1..(Len(events) - 1) : events'[n] = events[n + 1]
      /\ DOMAIN events' = 1..(Len(events) - 1)
  BY <1>1, <1>3, <1>6
<1>8. /\ accepted' \in Seq(DOMAIN body) /\ Len(accepted') = n0 + 1
      /\ DOMAIN accepted' = 1..(n0 + 1) /\ accepted'[n0 + 1] = e
      /\ \A i \in 1..n0 : accepted'[i] = accepted[i]
  <2>1. e \in DOMAIN body
    BY <1>3, <1>6
  <2> QED BY <1>1, <1>3, <2>1
<1>9. Converted(body)' = C /\ Enqueued' = k + 1
  <2>1. Converted(body)' = C
    BY <1>1 DEF Converted
  <2>2. Enqueued' = Len(C) - Len(events')
    BY <2>1 DEF Enqueued
  <2> QED BY <1>3, <1>5, <1>7, <2>1, <2>2
<1>18. /\ k \in Nat /\ n0 \in Nat /\ Len(C) \in Nat /\ Len(events) \in Nat
       /\ k <= n0 /\ k + 1 <= Len(C) /\ Len(C) = k + Len(events)
  <2>1. k \in 0..Len(C) /\ k = Len(C) - Len(events) /\ k + 1 \in 1..Len(C)
    BY <1>5, <1>6
  <2> QED BY <1>3, <1>5, <2>1
<1>10. TypeOK'
  <2>1. failures' = convert_batch(body').failures
    BY <1>1, <1>2 DEF TypeOK
  <2> QED BY <1>1, <1>3, <1>7, <1>8, <2>1 DEF TypeOK
<1>11. AttemptInOrder'
  <2>1. events' = [n \in 1..Len(events') |-> C[k + 1 + n]]
    <3>1. ASSUME NEW n \in 1..(Len(events) - 1)
          PROVE  events'[n] = C[k + 1 + n]
      <4>1. n + 1 \in 1..Len(events) /\ events'[n] = events[n + 1] /\ k + (n + 1) = k + 1 + n
        BY <1>7, <1>18, <3>1
      <4>2. events[n + 1] = C[k + (n + 1)]
        BY <1>5, <4>1
      <4> QED BY <4>1, <4>2
    <3> QED BY <1>7, <3>1
  <2>2. ASSUME NEW n \in 1..(k + 1)
        PROVE  accepted'[n0 + 1 - (k + 1) + n] = C[n]
    <3>1. CASE n = k + 1
      <4>1. n0 + 1 - (k + 1) + n = n0 + 1
        BY <1>18, <3>1
      <4> QED BY <1>6, <1>8, <3>1, <4>1
    <3>2. CASE n \in 1..k
      <4>1. n0 + 1 - (k + 1) + n = n0 - k + n /\ n0 - k + n \in 1..n0
        BY <1>18, <3>2
      <4> QED BY <1>5, <1>8, <3>2, <4>1
    <3> QED BY <1>18, <2>2, <3>1, <3>2
  <2>3. k + 1 \in 0..Len(C) /\ k + 1 <= Len(accepted')
    BY <1>8, <1>18
  <2>4. Enqueued' \in 0..Len(Converted(body)') /\ Enqueued' <= Len(accepted')
    BY <1>9, <2>3
  <2>5. events' = [n \in 1..Len(events') |-> Converted(body)'[Enqueued' + n]]
    BY <1>9, <2>1
  <2>6. \A n \in 1..Enqueued' : accepted'[Len(accepted') - Enqueued' + n] = Converted(body)'[n]
    BY <1>8, <1>9, <2>2
  <2> QED BY <2>4, <2>5, <2>6 DEF AttemptInOrder
<1>12. Copies(e)' = Copies(e) \cup {n0 + 1} /\ n0 + 1 \notin Copies(e)
       /\ \A x : x # e => Copies(x)' = Copies(x)
  <2>1. DOMAIN accepted' = DOMAIN accepted \cup {n0 + 1} /\ n0 + 1 \notin DOMAIN accepted
    BY <1>3, <1>8
  <2> QED BY <1>3, <1>8, <2>1 DEF Copies
<1>13. Cardinality(Copies(e)') = Cardinality(Copies(e)) + 1
  <2>1. Cardinality(Copies(e) \cup {n0 + 1}) = Cardinality(Copies(e)) + 1
    <3>1. IsFiniteSet(Copies(e)) /\ n0 + 1 \notin Copies(e)
      BY <1>3, <1>12
    <3> QED BY <3>1, FS_AddElement
  <2> QED BY <1>12, <2>1
<1>14. Cardinality(Copies(e)') <= attempts
  <2>1. Cardinality(Copies(C[k + 1])) < attempts
    <3>1. \A n \in DOMAIN C : n > k => Cardinality(Copies(C[n])) < attempts
      BY <1>2 DEF CopiesPerAttempt
    <3>2. k + 1 \in DOMAIN C /\ k + 1 > k
      BY <1>3, <1>6, <1>18
    <3> QED BY <3>1, <3>2
  <2> QED BY <1>3, <1>6, <1>13, <2>1
<1>15. CopiesPerAttempt'
  <2>1. ASSUME NEW n \in DOMAIN C
        PROVE  /\ Cardinality(Copies(C[n])') <= attempts
               /\ n > k + 1 => Cardinality(Copies(C[n])') < attempts
    <3>1. /\ Cardinality(Copies(C[n])) <= attempts
          /\ n > k => Cardinality(Copies(C[n])) < attempts
      BY <1>2 DEF CopiesPerAttempt
    <3>2. CASE C[n] = e
      <4>1. n = k + 1
        BY <1>3, <1>4, <1>6, <3>2
      <4>2. ~ (n > k + 1)
        BY <1>18, <4>1
      <4> QED BY <1>14, <3>2, <4>2
    <3>3. CASE C[n] # e
      <4>1. Copies(C[n])' = Copies(C[n])
        BY <1>12, <3>3
      <4> QED BY <1>18, <3>1, <4>1
    <3> QED BY <3>2, <3>3
  <2> QED BY <1>1, <1>9, <2>1 DEF CopiesPerAttempt
<1>16. AnswerIsOfBody'
  <2>1. ~ (answer # Null /\ answer.status = 202)
    BY <1>1, <1>2 DEF AnswerIsOfBody
  <2> QED BY <1>1, <2>1 DEF AnswerIsOfBody
<1>17. AttemptsLeavePrefixes'
  <2>1. ASSUME NEW i \in 1..(n0 + 1), NEW x, x = accepted'[i]
        PROVE  Cardinality(Copies(x)') <= attempts
    <3>1. CASE x = e
      BY <1>14, <3>1
    <3>2. CASE x # e
      <4>1. i \in 1..n0
        BY <1>8, <1>18, <2>1, <3>2
      <4>2. x = accepted[i] /\ i \in DOMAIN accepted
        BY <1>3, <1>8, <2>1, <4>1
      <4>3. Cardinality(Copies(x)) <= attempts
        BY <1>2, <4>2 DEF AttemptsLeavePrefixes, Copies
      <4> QED BY <1>12, <3>2, <4>3
    <3> QED BY <3>1, <3>2
  <2>2. ASSUME NEW i \in 1..(n0 + 1), i > 1
        PROVE  \/ accepted'[i] = C[1]
               \/ \E m \in 2..Len(C) : C[m - 1] = accepted'[i - 1] /\ C[m] = accepted'[i]
    <3>1. CASE i \in 1..n0
      <4>1. i - 1 \in 1..n0 /\ accepted'[i - 1] = accepted[i - 1] /\ accepted'[i] = accepted[i]
        BY <1>8, <1>18, <2>2, <3>1
      <4>2. \/ accepted[i] = C[1]
            \/ \E m \in 2..Len(C) : C[m - 1] = accepted[i - 1] /\ C[m] = accepted[i]
        BY <1>2, <1>3, <2>2, <3>1 DEF AttemptsLeavePrefixes
      <4> QED BY <4>1, <4>2
    <3>2. CASE i = n0 + 1
      <4>1. accepted'[i] = C[k + 1]
        BY <1>6, <1>8, <3>2
      <4>2. CASE k = 0
        BY <4>1, <4>2
      <4>3. CASE k # 0
        <5>1. k \in 1..k /\ n0 - k + k = n0 /\ n0 \in 1..n0 /\ i - 1 = n0
          BY <1>18, <3>2, <4>3
        <5>2. accepted'[i - 1] = C[k]
          BY <1>5, <1>8, <5>1
        <5>3. k + 1 \in 2..Len(C) /\ (k + 1) - 1 = k
          BY <1>18, <4>3
        <5> QED BY <4>1, <5>2, <5>3
      <4> QED BY <4>2, <4>3
    <3> QED BY <1>18, <2>2, <3>1, <3>2
  <2>3. \A i \in 1..(n0 + 1) :
          Cardinality({j \in DOMAIN accepted' : accepted'[j] = accepted'[i]}) <= attempts
    BY <2>1 DEF Copies
  <2>4. attempts' = attempts /\ DOMAIN accepted' = 1..(n0 + 1) /\ Converted(body)' = C
    BY <1>1, <1>8, <1>9
  <2> QED BY <2>2, <2>3, <2>4 DEF AttemptsLeavePrefixes
<1> QED BY <1>1, <1>10, <1>11, <1>15, <1>16, <1>17 DEF IInv

\* The other steps leave the request and the writer's events alone.
LEMMA AnswersKeepOrder ==
  ASSUME IInv, UNCHANGED <<body, events, failures, attempts, accepted>>,
         pc' # "idle" \/ pc' = pc, pc' \in {"idle", "enqueue", "answered"},
         \/ answer' = answer /\ pc' = pc
         \/ pc # "idle" /\ (Unavailable \/ Respond \/ HangUp)
  PROVE  IInv'
<1>1. TypeOK' /\ AttemptsLeavePrefixes'
  <2>1. TypeOK /\ AttemptsLeavePrefixes
    BY DEF IInv
  <2> QED BY <2>1 DEF TypeOK, AttemptsLeavePrefixes, convert_batch, Converted
<1>2. CASE pc = "idle"
  BY <1>1, <1>2 DEF IInv
<1>3. CASE pc # "idle"
  <2>1. AttemptInOrder /\ CopiesPerAttempt /\ AnswerIsOfBody
    BY <1>3 DEF IInv
  <2>2. AttemptInOrder' /\ CopiesPerAttempt'
    <3>1. Converted(body)' = Converted(body) /\ \A e : Copies(e)' = Copies(e)
      BY DEF Converted, Copies
    <3>2. Enqueued' = Enqueued
      BY <3>1 DEF Enqueued
    <3>3. AttemptInOrder'
      BY <2>1, <3>1, <3>2 DEF AttemptInOrder
    <3> QED BY <2>1, <3>1, <3>2, <3>3 DEF CopiesPerAttempt
  <2>3. AnswerIsOfBody'
    <3>1. CASE answer' = answer
      BY <2>1, <3>1 DEF AnswerIsOfBody, Converted
    <3>2. CASE Respond
      BY <3>2 DEF Respond, AnswerIsOfBody, Converted
    <3>3. CASE Unavailable \/ HangUp
      BY <3>3 DEF Unavailable, HangUp, AnswerIsOfBody
    <3> QED BY <3>1, <3>2, <3>3
  <2> QED BY <1>1, <1>3, <2>2, <2>3 DEF IInv
<1> QED BY <1>2, <1>3

-------------------------------------------------------------------------------
(* The theorems *)

\* The invariant behind both promises: an attempt hands over the beginning of the
\* request's events in their order, and no event twice.
THEOREM InductiveInvariant == Spec => []IInv
<1>1. Init => IInv
  <2> SUFFICES ASSUME Init
               PROVE  IInv
    OBVIOUS
  <2>1. /\ body = << >> /\ body \in Seq(Doc) /\ events \in Seq(DOMAIN body)
        /\ accepted \in Seq(DOMAIN body) /\ failures = {} /\ attempts = 0
    BY DEF Init
  <2>2. failures = convert_batch(body).failures
    BY <2>1 DEF convert_batch
  <2>3. TypeOK
    BY <2>1, <2>2 DEF Init, TypeOK
  <2>4. AttemptsLeavePrefixes
    BY DEF Init, AttemptsLeavePrefixes
  <2> QED BY <2>3, <2>4 DEF Init, IInv
<1>2. IInv /\ [Next]_vars => IInv'
  <2> SUFFICES ASSUME IInv, [Next]_vars
               PROVE  IInv'
    OBVIOUS
  <2>1. pc \in {"idle", "enqueue", "answered"}
    BY DEF IInv, TypeOK
  <2>2. ASSUME NEW docs \in Bodies, NEW one \in BOOLEAN, Post(docs, one)
        PROVE  IInv'
    BY <2>2, PostStarts
  <2>3. CASE Enqueue
    BY <2>3, EnqueueKeepsOrder
  <2>4. CASE Resend
    BY <2>4, ResendStarts
  <2>5. CASE Unavailable \/ Respond \/ HangUp
    <3>1. /\ UNCHANGED <<body, events, failures, attempts, accepted>>
          /\ pc = "enqueue" /\ pc' = "answered"
      BY <2>5 DEF Unavailable, Respond, HangUp
    <3> QED BY <2>5, <3>1, AnswersKeepOrder
  <2>6. CASE UNCHANGED <<pc, single, body, events, failures, answer, attempts, accepted>>
    BY <2>1, <2>6, AnswersKeepOrder
  <2>7. CASE UNCHANGED vars
    BY <2>6, <2>7 DEF vars
  <2>8. CASE PostNoArray
    BY <2>8, PostNoArrayEnds
  <2> QED BY <2>2, <2>3, <2>4, <2>5, <2>6, <2>7, <2>8 DEF Next
<1> QED BY <1>1, <1>2, PTL DEF Spec

\* An acceptance accounts for every document: its events are the last the writer
\* got, in their order, and the failures name the others (ingest_batch).
THEOREM Accepts == Spec => []AcceptanceAddsUp
<1>1. IInv => AcceptanceAddsUp
  <2> SUFFICES ASSUME IInv, answer # Null, answer.status = 202
               PROVE  AcceptanceAddsUp
    BY DEF AcceptanceAddsUp
  <2> DEFINE C == Converted(body)
  <2>1. TypeOK /\ AttemptInOrder /\ AnswerIsOfBody
    BY DEF IInv
  <2>2. /\ body \in Seq(Doc) /\ Len(accepted) \in Nat /\ accepted \in Seq(DOMAIN body)
        /\ Len(C) \in Nat /\ failures = convert_batch(body).failures
    BY <2>1, TypeFacts DEF TypeOK
  <2>3. /\ C = InOrder({i \in DOMAIN body : IsEvent(body[i])}) /\ C \in Seq(DOMAIN body)
        /\ DOMAIN C = 1..Len(C)
        /\ failures = {i \in DOMAIN body : ~ IsEvent(body[i])}
        /\ Len(C) + Cardinality(failures) = Len(body)
    BY <2>2, ConvertedProperties
  <2>4. /\ events = << >> /\ answer.received = Len(body) /\ answer.successful = Len(C)
        /\ answer.failed = failures
    BY <2>1 DEF AnswerIsOfBody
  <2>5. Enqueued = Len(C)
    BY <2>2, <2>4 DEF Enqueued
  <2>6. /\ Len(C) <= Len(accepted)
        /\ \A n \in 1..Len(C) : accepted[Len(accepted) - Len(C) + n] = C[n]
    BY <2>1, <2>5 DEF AttemptInOrder
  <2> HIDE DEF C
  <2>7. SubSeq(accepted, Len(accepted) - Len(C) + 1, Len(accepted)) = C
    <3> DEFINE S == SubSeq(accepted, Len(accepted) - Len(C) + 1, Len(accepted))
    <3>1. /\ S = [n \in 1..Len(C) |-> accepted[Len(accepted) - Len(C) + n]]
      BY <2>2, <2>6
    <3> HIDE DEF S
    <3>2. DOMAIN S = DOMAIN C /\ \A n \in DOMAIN C : S[n] = C[n]
      BY <2>3, <2>6, <3>1
    <3>3. S = [n \in 1..Len(C) |-> C[n]]
      BY <2>6, <3>1
    <3>4. C = [n \in 1..Len(C) |-> C[n]]
      <4>1. C \in Seq(DOMAIN body)
        BY <2>3
      <4> QED BY <4>1
    <3> QED BY <3>3, <3>4 DEF S
  <2> QED BY <2>3, <2>4, <2>6, <2>7 DEF AcceptanceAddsUp
<1> QED BY <1>1, InductiveInvariant, PTL

\* What attempts leave with the writer is made of beginnings of the request.
THEOREM AttemptsLeaveBeginnings == Spec => []AttemptsLeavePrefixes
<1>1. IInv => AttemptsLeavePrefixes
  BY DEF IInv
<1> QED BY <1>1, InductiveInvariant, PTL
===============================================================================
