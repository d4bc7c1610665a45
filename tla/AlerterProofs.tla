--------------------------- MODULE AlerterProofs ---------------------------
(***************************************************************************)
(* The alerter's invariant, for every value of the constants: whatever it  *)
(* is done with it has logged, and until its first exit also delivered or  *)
(* captured; no log line allows more than MaxRetries POSTs.                *)
(***************************************************************************)
EXTENDS Alerter, KafkaWorkerProofs

\* A step that forgets nothing of what handling an alert leaves behind; an exit
\* may forget the queue of the producer.
Grows ==
    /\ LogGrows
    /\ \A d \in Decisions : logged[d] <= logged'[d] /\ received[d] <= received'[d]
    /\ exits' = 0 => exits = 0 /\ Issued[DeadLetter] \subseteq Issued'[DeadLetter]

LEMMA CountTypes ==
    /\ TypeOK => \A d \in Decisions : logged[d] \in Nat /\ received[d] \in Nat
    /\ TypeOK' => \A d \in Decisions : logged'[d] \in Nat /\ received'[d] \in Nat
BY DEF TypeOK

\* What is handled stays handled.
LEMMA HandledMonotone ==
    ASSUME TypeOK, TypeOK', Grows, NEW v, Handled(v, logged, received, Issued, exits)
    PROVE  Handled(v, logged', received', Issued', exits')
<1> SUFFICES ASSUME v \in Decisions
             PROVE  /\ logged'[v] > 0
                    /\ WebhookEnabled /\ exits' = 0
                          => received'[v] > 0 \/ v \in Issued'[DeadLetter]
  BY DEF Handled
<1>1. logged[v] \in Nat /\ received[v] \in Nat /\ logged'[v] \in Nat /\ received'[v] \in Nat
  BY CountTypes
<1>2. logged'[v] > 0
  BY <1>1 DEF Handled, Grows
<1>3. ASSUME WebhookEnabled, exits' = 0
      PROVE  received'[v] > 0 \/ v \in Issued'[DeadLetter]
  <2>1. received[v] > 0 \/ v \in Issued[DeadLetter]
    BY <1>3 DEF Handled, Grows
  <2>2. CASE received[v] > 0
    BY <1>1, <2>2 DEF Grows
  <2>3. CASE v \in Issued[DeadLetter]
    BY <1>3, <2>3 DEF Grows
  <2> QED
    BY <2>1, <2>2, <2>3
<1> QED
  BY <1>2, <1>3

LEMMA CommittedKept ==
    ASSUME TypeOK, TypeOK', OneInHand(Alerts), CommittedIsHandled, Grows,
           NEW p \in Partitions, NEW i \in 1 .. committed[p]
    PROVE  Handled(log'[Alerts][p][i], logged', received', Issued', exits')
<1>1. log'[Alerts][p][i] = log[Alerts][p][i]
  BY CommittedRecordKept DEF Grows, TypeOK, Topics
<1>2. Handled(log[Alerts][p][i], logged, received, Issued, exits)
  BY DEF CommittedIsHandled
<1> QED
  BY <1>1, <1>2, HandledMonotone

\* The payload in hand does not change under the handler ...
LEMMA InHandKept ==
    ASSUME AlerterInv, InHand, LogGrows, UNCHANGED msg
    PROVE  Payload(Alerts)' = Payload(Alerts)
BY PayloadKept DEF AlerterInv, TypeOK, Topics

\* ... and so the count of its attempts stands while the handler does not POST ...
LEMMA AttemptsStand ==
    ASSUME AlerterInv, LogGrows, UNCHANGED <<msg, attempt, logged, received>>
    PROVE  AttemptsCounted'
<1>1. CASE attempt > 0
  <2>1. Payload(Alerts)' = Payload(Alerts)
    BY <1>1, InHandKept DEF AlerterInv, TypeOK, AlertInHand, InHand
  <2> QED
    BY <2>1 DEF AlerterInv, AttemptsCounted, PostsLeft
<1>2. CASE ~ (attempt > 0)
  BY <1>2 DEF AlerterInv, AttemptsCounted, PostsLeft
<1> QED
  BY <1>1, <1>2

\* ... and ends with the handling.
LEMMA AttemptsEnd ==
    ASSUME AlerterInv, attempt' = 0, UNCHANGED <<logged, received>>
    PROVE  AttemptsCounted'
<1>1. ASSUME NEW d \in Decisions PROVE received[d] <= MaxRetries * logged[d]
  <2>1. received[d] \in Nat /\ logged[d] \in Nat /\ PostsLeft(d) \in Nat
    BY MaxRetriesAssumption DEF AlerterInv, TypeOK, PostsLeft
  <2>2. received[d] + PostsLeft(d) <= MaxRetries * logged[d]
    BY DEF AlerterInv, AttemptsCounted
  <2> HIDE DEF PostsLeft
  <2>3. MaxRetries * logged[d] \in Nat
    BY <2>1, MaxRetriesAssumption
  <2> QED
    BY <2>1, <2>2, <2>3
<1>2. \A d \in Decisions : received[d] \in Nat
  BY CountTypes DEF AlerterInv
<1> QED
  BY <1>1, <1>2 DEF AttemptsCounted, PostsLeft

LEMMA Unlogged ==
    ASSUME TypeOK, UNCHANGED <<logged, received>>
    PROVE  \A d \in Decisions : logged[d] <= logged'[d] /\ received[d] <= received'[d]
BY CountTypes
-----------------------------------------------------------------------------
(* The inductive invariant, one lemma per group of actions. *)

LEMMA InitInv == Init => AlerterInv
<1> SUFFICES ASSUME Init PROVE AlerterInv
  OBVIOUS
<1>1. TypeOK
  <2>1. \A t \in Topics : log[t] \in [Partitions -> Seq(ValueType[t])]
    BY DEF Init, KafkaInit
  <2>2. exits \in 0 .. MaxExits /\ attempt \in 0 .. MaxRetries + 1
    BY MaxExitsAssumption, MaxRetriesAssumption DEF Init, KafkaInit
  <2> QED
    BY <2>1, <2>2 DEF Init, KafkaInit, TypeOK, KafkaTypeOK, ControlPoints
<1>2. \A p \in Partitions : Len(log[Alerts][p]) = 0 /\ committed[p] = 0
  BY DEF Init, KafkaInit, Topics
<1>3. OneInHand(Alerts) /\ CommittedIsHandled /\ HandledInHand
  BY <1>2 DEF OneInHand, InHand, CommittedIsHandled, HandledInHand, Init, KafkaInit
<1>4. AttemptsCounted
  <2>1. \A d \in Decisions : logged[d] = 0 /\ received[d] = 0
    BY DEF Init
  <2>2. MaxRetries * 0 = 0
    BY MaxRetriesAssumption
  <2> QED
    BY <2>1, <2>2 DEF Init, AttemptsCounted, PostsLeft
<1> QED
  BY <1>1, <1>3, <1>4 DEF AlerterInv

\* Steps that only move records: the broker's, the orphans', the detector's.
LEMMA EnvironmentKeepsInv ==
    ASSUME AlerterInv, Broker \/ Orphans \/ Environment
    PROVE  AlerterInv'
<1>1. UNCHANGED <<committed, position, pc, msg, exits, attempt, logged, received>>
  BY DEF Broker, BrokerAnswers, Deliver, Reject, Orphans, OrphanStep, LateArrival,
         LostRequest, Environment, Ingest, alertVars
<1>2. /\ KafkaTypeOK(ValueType)' /\ LogGrows
      /\ \A t \in Topics : Issued[t] \subseteq Issued'[t]
  <2>1. CASE Broker
    BY <2>1, BrokerAnswersOK DEF Broker, AlerterInv, TypeOK
  <2>2. CASE Orphans
    BY <2>2, OrphanStepOK DEF Orphans, AlerterInv, TypeOK
  <2>3. CASE Environment
    <3>1. PICK v \in Decisions \cup Invalid, p \in Partitions : Ingest(v, p)
      BY <2>3 DEF Environment
    <3>2. LogTypeOK(ValueType) /\ Alerts \in Topics /\ v \in ValueType[Alerts]
      BY DEF AlerterInv, TypeOK, KafkaTypeOK, LogTypeOK, Topics, ValueType
    <3>3. LogTypeOK(ValueType)' /\ LogGrows
      BY <3>1, <3>2, AppendOK DEF Ingest
    <3>4. KafkaTypeOK(ValueType)'
      BY <3>1, <3>3 DEF Ingest, AlerterInv, TypeOK, KafkaTypeOK, LogTypeOK, IsRequest
    <3>5. UNCHANGED <<rejected, outbox>>
      BY <3>1 DEF Ingest
    <3>6. \A t \in Topics : InLog(t) \subseteq InLog(t)'
      BY <3>2, <3>3, LogInLog
    <3> QED
      BY <3>3, <3>4, <3>5, <3>6 DEF Issued, Settled, Queued
  <2> QED
    BY <2>1, <2>2, <2>3
<1>3. TypeOK'
  <2>1. attempt > 0 => Payload(Alerts)' = Payload(Alerts)
    BY <1>1, <1>2, InHandKept DEF AlerterInv, TypeOK, AlertInHand, InHand
  <2> QED
    BY <1>1, <1>2, <2>1 DEF AlerterInv, TypeOK, AlertInHand
<1>4. Grows
  BY <1>1, <1>2, Unlogged DEF Grows, AlerterInv, Topics
<1>5. OneInHand(Alerts)'
  BY <1>1, <1>2, OneInHandKept DEF AlerterInv, TypeOK, InHand, Topics
<1>6. AttemptsCounted'
  BY <1>1, <1>2, AttemptsStand
<1>7. HandledInHand'
  <2>1. ASSUME pc \in {"delivering", "committing"}
        PROVE  Handled(Payload(Alerts)', logged', received', Issued', exits')
    <3>1. Payload(Alerts)' = Payload(Alerts)
      BY <1>1, <1>2, <2>1, InHandKept DEF InHand
    <3>2. Handled(Payload(Alerts), logged, received, Issued, exits)
      BY <2>1 DEF AlerterInv, HandledInHand
    <3> QED
      BY <1>3, <1>4, <3>1, <3>2, HandledMonotone DEF AlerterInv
  <2> QED
    BY <1>1, <2>1 DEF HandledInHand
<1>8. CommittedIsHandled'
  BY <1>1, <1>3, <1>4, CommittedKept DEF AlerterInv, CommittedIsHandled
<1> QED
  BY <1>3, <1>5, <1>6, <1>7, <1>8 DEF AlerterInv

\* Steps of the worker between two messages, and its exits.
LEMMA LoopKeepsInv ==
    ASSUME AlerterInv,
           \/ StartAlerter
           \/ \E p \in Partitions : PollAlerts(p)
           \/ DeadLetterTimeout
           \/ CloseAlerter
           \/ CrashAlerter
           \/ StopAlerter
    PROVE  AlerterInv'
<1>1. UNCHANGED <<log, committed, rejected, logged, received>>
  BY DEF StartAlerter, Start, PollAlerts, Poll, DeadLetterTimeout, FlushTimeout,
         CloseAlerter, Close, CrashAlerter, Crash, CountedExit, Exit, StopAlerter, Stop,
         alertVars
<1>2. /\ attempt' = 0
      /\ pc' \notin {"delivering", "committing"}
      /\ UNCHANGED <<outbox, exits>> \/ exits' = exits + 1
  BY DEF StartAlerter, Start, PollAlerts, Poll, DeadLetterTimeout, FlushTimeout,
         CloseAlerter, Close, CrashAlerter, Crash, CountedExit, Exit, StopAlerter, Stop,
         alertVars, AlerterInv, TypeOK, AlertInHand
<1>3. \/ Start \/ (\E p \in Partitions : Poll(Alerts, p)) \/ Stop
      \/ (Exit /\ exits' \in 0 .. MaxExits)
  BY MaxExitsAssumption
     DEF StartAlerter, PollAlerts, DeadLetterTimeout, FlushTimeout, CloseAlerter, Close,
         CrashAlerter, Crash, CountedExit, StopAlerter, AlerterInv, TypeOK, KafkaTypeOK
<1>4. KafkaTypeOK(ValueType)'
  BY <1>3, LoopTypesOK DEF AlerterInv, TypeOK, Topics
<1>5. TypeOK'
  BY <1>1, <1>2, <1>4, MaxRetriesAssumption DEF AlerterInv, TypeOK
<1>6. LogGrows /\ OneInHand(Alerts)'
  BY <1>3, <1>4, LoopOneInHand DEF AlerterInv, TypeOK, Topics
<1>7. Grows
  <2>1. ASSUME exits' = 0 PROVE exits = 0 /\ Issued[DeadLetter] \subseteq Issued'[DeadLetter]
    <3>1. exits \in Nat
      BY DEF AlerterInv, TypeOK, KafkaTypeOK
    <3>2. UNCHANGED <<outbox, exits>>
      BY <1>2, <2>1, <3>1
    <3> QED
      BY <1>1, <2>1, <3>2 DEF Issued, Settled, InLog, Queued
  <2> QED
    BY <1>1, <1>6, <2>1, Unlogged DEF Grows, AlerterInv
<1>8. AttemptsCounted'
  BY <1>1, <1>2, AttemptsEnd
<1>9. HandledInHand' /\ CommittedIsHandled'
  BY <1>1, <1>2, <1>5, <1>7, CommittedKept DEF AlerterInv, CommittedIsHandled, HandledInHand
<1> QED
  BY <1>5, <1>6, <1>8, <1>9 DEF AlerterInv

\* The two ways out of flush(10): what was handled remains so.
LEMMA FlushKeepsInv ==
    ASSUME AlerterInv, CaptureReturns \/ FlushDeadLetter
    PROVE  AlerterInv'
<1>1. /\ UNCHANGED <<log, committed, position, msg, outbox, orphans, rejected, exits,
                     attempt, logged, received>>
      /\ pc = "delivering" /\ pc' = "committing"
  BY DEF CaptureReturns, FlushDeadLetter, Flushed, alertVars
<1>2. LogGrows /\ Issued' = Issued /\ Payload(Alerts)' = Payload(Alerts)
  BY <1>1, LogUnchanged
     DEF AlerterInv, TypeOK, KafkaTypeOK, LogTypeOK, Issued, Settled, InLog, Queued, Payload
<1>3. TypeOK'
  <2>1. attempt = 0
    BY <1>1 DEF AlerterInv, TypeOK, AlertInHand
  <2> QED
    BY <1>1, <2>1 DEF AlerterInv, TypeOK, KafkaTypeOK, ControlPoints, IsRequest
<1>4. OneInHand(Alerts)'
  BY <1>1, <1>2, <1>3, OneInHandKept DEF AlerterInv, TypeOK, InHand, Topics
<1>5. AttemptsCounted'
  BY <1>1, <1>2, AttemptsStand
<1>6. HandledInHand' /\ CommittedIsHandled'
  BY <1>1, <1>2 DEF AlerterInv, HandledInHand, CommittedIsHandled
<1> QED
  BY <1>3, <1>4, <1>5, <1>6 DEF AlerterInv

\* A step of the handler: what is left to show is its types, its count of
\* attempts, and that it has handled the alert if it is done.
LEMMA HandlerKeepsInv ==
    ASSUME AlerterInv, TypeOK', AttemptsCounted', HandledInHand',
           pc = "processing", InHand',
           UNCHANGED <<log, committed, position, msg, rejected, exits>>,
           outbox \subseteq outbox',
           \A d \in Decisions : logged[d] <= logged'[d] /\ received[d] <= received'[d]
    PROVE  AlerterInv'
<1>1. LogGrows
  BY LogUnchanged DEF AlerterInv, TypeOK, KafkaTypeOK, LogTypeOK
<1>2. OneInHand(Alerts)'
  BY <1>1, OneInHandKept DEF AlerterInv, TypeOK, InHand, Topics
<1>3. Grows
  BY <1>1 DEF Grows, Issued, Settled, InLog, Queued, Topics
<1>4. CommittedIsHandled'
  BY <1>3, CommittedKept DEF AlerterInv, CommittedIsHandled
<1> QED
  BY <1>2, <1>4 DEF AlerterInv

\* The alert in hand, as the handlers find it.
LEMMA AlertInHandType ==
    ASSUME AlerterInv, AlertInHand
    PROVE  /\ Payload(Alerts) \in Decisions
           /\ logged[Payload(Alerts)] \in Nat /\ received[Payload(Alerts)] \in Nat
           /\ DOMAIN logged = Decisions /\ DOMAIN received = Decisions
BY DEF AlertInHand, AlerterInv, TypeOK

LEMMA LogKeepsInv == ASSUME AlerterInv, LogAlert PROVE AlerterInv'
<1> DEFINE a == Payload(Alerts)
<1>1. /\ pc = "processing" /\ attempt = 0
      /\ logged' = [logged EXCEPT ![a] = @ + 1]
      /\ \/ WebhookEnabled /\ attempt' = 1 /\ pc' = pc
         \/ ~ WebhookEnabled /\ attempt' = 0 /\ pc' = "committing"
      /\ UNCHANGED <<log, committed, position, msg, outbox, orphans, rejected, exits, received>>
  BY WebhookEnabledAssumption DEF LogAlert, AlertInHand
<1>2. /\ a \in Decisions /\ logged[a] \in Nat /\ DOMAIN logged = Decisions
      /\ a' = a
  BY <1>1, AlertInHandType DEF LogAlert, Payload
<1> HIDE DEF a
<1>3. /\ \A d \in Decisions : logged[d] \in Nat /\ received[d] \in Nat
      /\ logged' \in [Decisions -> Nat]
      /\ \A d \in Decisions : logged'[d] = IF d = a THEN logged[d] + 1 ELSE logged[d]
  BY <1>1, <1>2, CountTypes DEF AlerterInv, TypeOK
<1>4. TypeOK'
  <2>1. KafkaTypeOK(ValueType)'
    BY <1>1 DEF AlerterInv, TypeOK, KafkaTypeOK, ControlPoints, IsRequest
  <2>2. attempt' \in 0 .. MaxRetries + 1 /\ (attempt' > 0 => AlertInHand')
    BY <1>1, <1>2, MaxRetriesAssumption DEF AlertInHand, a
  <2> QED
    BY <1>1, <1>3, <2>1, <2>2 DEF AlerterInv, TypeOK
<1>5. AttemptsCounted'
  <2>1. ASSUME NEW d \in Decisions
        PROVE  received'[d] + PostsLeft(d)' <= MaxRetries * logged'[d]
    <3>1. received[d] <= MaxRetries * logged[d]
      <4>1. PostsLeft(d) = 0
        BY <1>1 DEF PostsLeft
      <4> QED
        BY <1>3, <4>1 DEF AlerterInv, AttemptsCounted
    <3>2. CASE d = a
      <4>1. MaxRetries * (logged[d] + 1) = MaxRetries * logged[d] + MaxRetries
        BY <1>3, MaxRetriesAssumption
      <4>2. PostsLeft(d)' <= MaxRetries /\ PostsLeft(d)' \in Nat
        BY <1>1, MaxRetriesAssumption DEF PostsLeft
      <4>3. MaxRetries * logged[d] \in Nat
        BY <1>3, MaxRetriesAssumption
      <4> HIDE DEF PostsLeft
      <4> QED
        BY <1>1, <1>3, <3>1, <3>2, <4>1, <4>2, <4>3, MaxRetriesAssumption
    <3>3. CASE d # a
      <4>1. PostsLeft(d)' = 0
        BY <1>2, <3>3 DEF PostsLeft, a
      <4> QED
        BY <1>1, <1>3, <3>1, <3>3, <4>1
    <3> QED
      BY <3>2, <3>3
  <2>2. logged'[a] > 0
    BY <1>2, <1>3
  <2> QED
    BY <1>2, <2>1, <2>2 DEF AttemptsCounted, a
<1>6. HandledInHand'
  BY <1>1, <1>2, <1>3 DEF HandledInHand, Handled, a
<1> QED
  BY <1>1, <1>3, <1>4, <1>5, <1>6, HandlerKeepsInv DEF InHand

\* A POST uses up one attempt and reaches the sink once at most.
LEMMA PostKeepsInv == ASSUME AlerterInv, PostSucceeds \/ PostFails PROVE AlerterInv'
<1> DEFINE a == Payload(Alerts)
<1>1. /\ pc = "processing" /\ attempt \in 1 .. MaxRetries
      /\ UNCHANGED <<log, committed, position, msg, outbox, orphans, rejected, exits, logged>>
  BY DEF PostSucceeds, PostFails, AlertInHand, kafkaVars
<1>2. PICK n \in {0, 1} :
         /\ received' = [received EXCEPT ![a] = @ + n]
         /\ \/ n = 1 /\ attempt' = 0 /\ pc' = "committing"
            \/ attempt' = attempt + 1 /\ pc' = pc
  BY DEF PostSucceeds, PostFails, kafkaVars
<1>3. /\ a \in Decisions /\ received[a] \in Nat /\ DOMAIN received = Decisions /\ a' = a
  BY <1>1, AlertInHandType DEF PostSucceeds, PostFails, Payload
<1>4. logged[a] > 0
  BY <1>1 DEF AlerterInv, AttemptsCounted
<1> HIDE DEF a
<1>5. /\ \A d \in Decisions : logged[d] \in Nat /\ received[d] \in Nat
      /\ received' \in [Decisions -> Nat]
      /\ \A d \in Decisions : received'[d] = IF d = a THEN received[d] + n ELSE received[d]
  BY <1>2, <1>3, CountTypes DEF AlerterInv, TypeOK
<1>6. TypeOK'
  <2>1. KafkaTypeOK(ValueType)'
    BY <1>1, <1>2 DEF AlerterInv, TypeOK, KafkaTypeOK, ControlPoints, IsRequest
  <2>2. attempt' \in 0 .. MaxRetries + 1 /\ (attempt' > 0 => AlertInHand')
    BY <1>1, <1>2, <1>3, MaxRetriesAssumption DEF AlertInHand, a
  <2> QED
    BY <1>1, <1>5, <2>1, <2>2 DEF AlerterInv, TypeOK
<1>7. AttemptsCounted'
  <2>1. ASSUME NEW d \in Decisions
        PROVE  received'[d] + PostsLeft(d)' <= MaxRetries * logged'[d]
    <3>1. received[d] + PostsLeft(d) <= MaxRetries * logged[d]
      BY DEF AlerterInv, AttemptsCounted
    <3>2. received'[d] + PostsLeft(d)' <= received[d] + PostsLeft(d)
      BY <1>1, <1>2, <1>3, <1>5, MaxRetriesAssumption DEF PostsLeft, a
    <3>3. /\ MaxRetries * logged[d] \in Nat
          /\ PostsLeft(d) \in Nat /\ PostsLeft(d)' \in Nat
          /\ received[d] \in Nat /\ received'[d] \in Nat
      BY <1>1, <1>2, <1>5, MaxRetriesAssumption DEF PostsLeft
    <3> HIDE DEF PostsLeft
    <3> QED
      BY <1>1, <3>1, <3>2, <3>3
  <2> QED
    BY <1>1, <1>3, <1>4, <2>1 DEF AttemptsCounted, a
<1>8. HandledInHand'
  BY <1>1, <1>2, <1>3, <1>4, <1>5 DEF HandledInHand, Handled, a
<1>9. \A d \in Decisions : logged[d] <= logged'[d] /\ received[d] <= received'[d]
  BY <1>1, <1>5
<1> QED
  BY <1>1, <1>2, <1>6, <1>7, <1>8, <1>9, HandlerKeepsInv DEF InHand

\* The dead letters: a captured alert, or a payload that does not validate.
LEMMA DeadLetterKeepsInv ==
    ASSUME AlerterInv, CaptureAlert \/ DeadLetterAlert
    PROVE  AlerterInv'
<1> DEFINE a == Payload(Alerts)
           q == Request(DeadLetter, DeadLetterPartition, a)
<1>1. /\ pc = "processing" /\ a \in Decisions \cup Invalid
      /\ Produce({q}) /\ attempt' = 0 /\ UNCHANGED <<logged, received>>
      /\ a \in Decisions => attempt > 0
  <2>1. CASE CaptureAlert
    BY <2>1, MaxRetriesAssumption DEF CaptureAlert, AlertInHand, AlerterInv, TypeOK
  <2>2. CASE DeadLetterAlert
    <3>1. a \in Invalid /\ a \notin Decisions
      BY <2>2, InvalidAssumption DEF DeadLetterAlert
    <3>2. attempt = 0
      BY <3>1 DEF AlerterInv, TypeOK, AlertInHand
    <3> QED
      BY <2>2, <3>1, <3>2 DEF DeadLetterAlert, alertVars
  <2> QED
    BY <2>1, <2>2
<1>2. IsRequest(q, ValueType)
  <2>1. DeadLetter \in Topics /\ ValueType[DeadLetter] = Decisions \cup Invalid
    BY DEF Topics, ValueType, DeadLetter, Alerts
  <2>2. exits \in 0 .. MaxExits
    BY DEF AlerterInv, TypeOK, KafkaTypeOK
  <2> QED
    BY <1>1, <2>1, <2>2, DeadLetterPartitionAssumption DEF IsRequest, Request
<1>3. KafkaTypeOK(ValueType)'
  BY <1>1, <1>2, ProduceTypesOK DEF AlerterInv, TypeOK
<1>4. TypeOK'
  BY <1>1, <1>3, MaxRetriesAssumption DEF AlerterInv, TypeOK
<1>5. /\ UNCHANGED <<log, committed, position, msg, rejected, exits>>
      /\ pc' = "delivering" /\ outbox' = outbox \cup {q}
  BY <1>1 DEF Produce
<1>6. AttemptsCounted'
  BY <1>1, AttemptsEnd
<1>7. HandledInHand'
  <2>1. a' = a /\ a \in Issued'[DeadLetter]
    <3>1. q \in outbox'
      BY <1>5
    <3>2. a' = a
      BY <1>5 DEF Payload
    <3> QED
      BY <3>1, <3>2 DEF Issued, Queued, Request, Topics
  <2>2. a \in Decisions => logged'[a] > 0
    BY <1>1 DEF AlerterInv, AttemptsCounted
  <2> QED
    BY <2>1, <2>2 DEF HandledInHand, Handled
<1>8. \A d \in Decisions : logged[d] <= logged'[d] /\ received[d] <= received'[d]
  BY <1>1, Unlogged DEF AlerterInv
<1> QED
  BY <1>1, <1>4, <1>5, <1>6, <1>7, <1>8, HandlerKeepsInv DEF InHand

\* The commit, with or without a captured alert still in the producer's queue.
LEMMA CommitKeepsInv == ASSUME AlerterInv, CommitOffset PROVE AlerterInv'
<1>1. /\ UNCHANGED <<log, outbox, rejected, exits, attempt, logged, received>>
      /\ pc = "committing" /\ pc' = "polling" /\ attempt = 0
  BY DEF CommitOffset, Commit, alertVars, AlerterInv, TypeOK, AlertInHand
<1>2. /\ KafkaTypeOK(ValueType)' /\ OneInHand(Alerts)' /\ LogGrows
      /\ \A p \in Partitions : \A i \in 1 .. committed'[p] :
            i \in 1 .. committed[p] \/ log'[Alerts][p][i] = Payload(Alerts)
  BY CommitOneInHand DEF CommitOffset, AlerterInv, TypeOK, Topics
<1>3. TypeOK'
  BY <1>1, <1>2 DEF AlerterInv, TypeOK
<1>4. Grows
  BY <1>1, <1>2, Unlogged DEF Grows, Issued, Settled, InLog, Queued, AlerterInv
<1>5. CommittedIsHandled'
  <2>1. Handled(Payload(Alerts), logged', received', Issued', exits')
    BY <1>1, <1>3, <1>4, HandledMonotone DEF AlerterInv, HandledInHand
  <2>2. ASSUME NEW p \in Partitions, NEW i \in 1 .. committed'[p]
        PROVE  Handled(log'[Alerts][p][i], logged', received', Issued', exits')
    <3>1. CASE i \in 1 .. committed[p]
      BY <1>3, <1>4, <3>1, CommittedKept DEF AlerterInv
    <3>2. CASE log'[Alerts][p][i] = Payload(Alerts)
      BY <2>1, <3>2
    <3> QED
      BY <1>2, <3>1, <3>2
  <2> QED
    BY <2>2 DEF CommittedIsHandled
<1>6. AttemptsCounted'
  BY <1>1, AttemptsEnd
<1>7. HandledInHand'
  BY <1>1 DEF HandledInHand
<1> QED
  BY <1>2, <1>3, <1>5, <1>6, <1>7 DEF AlerterInv

LEMMA StutterKeepsInv == ASSUME AlerterInv, UNCHANGED vars PROVE AlerterInv'
<1>1. UNCHANGED <<log, committed, position, pc, msg, outbox, orphans, rejected, exits,
                  attempt, logged, received>>
  BY DEF vars, kafkaVars, alertVars
<1>2. TypeOK'
  BY <1>1 DEF AlerterInv, TypeOK, KafkaTypeOK, IsRequest, AlertInHand, Payload
<1>3. OneInHand(Alerts)' /\ AttemptsCounted'
  BY <1>1 DEF AlerterInv, OneInHand, InHand, AttemptsCounted, PostsLeft, Payload
<1>4. HandledInHand' /\ CommittedIsHandled'
  BY <1>1 DEF AlerterInv, HandledInHand, CommittedIsHandled, Payload, Issued, Settled, InLog,
              Queued
<1> QED
  BY <1>2, <1>3, <1>4 DEF AlerterInv

LEMMA NextKeepsInv == AlerterInv /\ [Next]_vars => AlerterInv'
<1> SUFFICES ASSUME AlerterInv, [Next]_vars PROVE AlerterInv'
  OBVIOUS
<1>1. CASE WorkerStep
  BY <1>1, LoopKeepsInv, LogKeepsInv, PostKeepsInv, DeadLetterKeepsInv, FlushKeepsInv,
     CommitKeepsInv DEF WorkerStep
<1>2. CASE Broker \/ Orphans \/ Environment
  BY <1>2, EnvironmentKeepsInv
<1>3. CASE DeadLetterTimeout \/ CrashAlerter \/ StopAlerter
  BY <1>3, LoopKeepsInv
<1>4. CASE Idle \/ UNCHANGED vars
  BY <1>4, StutterKeepsInv DEF Idle, IdlePoll, vars
<1> QED
  BY <1>1, <1>2, <1>3, <1>4 DEF Next

-----------------------------------------------------------------------------
(* The theorems. *)

\* Log, POST or capture, then commit -- the invariant of the alerter.
THEOREM Invariance == Spec => []AlerterInv
  BY InitInv, NextKeepsInv, PTL DEF Spec

\* The alerter's variables keep their types.
THEOREM TypeCorrect == Spec => []TypeOK
<1>1. AlerterInv => TypeOK
  BY DEF AlerterInv
<1> QED
  BY <1>1, Invariance, PTL

\* alerter.py:124 precedes every way to the commit: no alert is committed without
\* its log line, whatever the webhook does and wherever the worker crashes.
THEOREM EveryCommittedAlertIsLogged == Spec => []EveryAlertLogged
<1>1. AlerterInv => EveryAlertLogged
  BY DEF AlerterInv, EveryAlertLogged, Committed, CommittedIsHandled, Handled
<1> QED
  BY <1>1, Invariance, PTL

\* Until its first exit the worker drops no alert although it ignores the result
\* of the flush behind a capture: only an exit, or a refusal by the broker, can.
THEOREM BeforeExitsNothingDropped == Spec => []OnlyExitsDropAlerts
<1>1. AlerterInv => OnlyExitsDropAlerts
  <2> SUFFICES ASSUME AlerterInv, exits = 0, WebhookEnabled, NEW d \in Decisions, Committed(d)
               PROVE  Captured(d) \/ d \in rejected[DeadLetter]
    BY DEF OnlyExitsDropAlerts
  <2>1. received[d] > 0 \/ d \in Issued[DeadLetter]
    BY DEF AlerterInv, Committed, CommittedIsHandled, Handled
  <2> QED
    BY <2>1 DEF Captured, Issued, Settled, Topics
<1> QED
  BY <1>1, Invariance, PTL

\* However often the worker restarts, the sink hears of an alert at most
\* MaxRetries times for each time it was logged.
THEOREM PostsAreBounded == Spec => []RetriesBounded
<1>1. ASSUME AlerterInv PROVE RetriesBounded
  <2> SUFFICES ASSUME NEW d \in Decisions PROVE received[d] <= MaxRetries * logged[d]
    BY DEF RetriesBounded
  <2>1. received[d] \in Nat /\ logged[d] \in Nat /\ PostsLeft(d) \in Nat
    BY <1>1, MaxRetriesAssumption DEF AlerterInv, TypeOK, PostsLeft
  <2>2. received[d] + PostsLeft(d) <= MaxRetries * logged[d]
    BY <1>1 DEF AlerterInv, AttemptsCounted
  <2>3. MaxRetries * logged[d] \in Nat
    BY <2>1, MaxRetriesAssumption
  <2> QED
    BY <2>1, <2>2, <2>3
<1> QED
  BY <1>1, Invariance, PTL
=============================================================================
