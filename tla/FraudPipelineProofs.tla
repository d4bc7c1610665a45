------------------------ MODULE FraudPipelineProofs ------------------------
(***************************************************************************)
(* The detector, and the pipeline it forms with the decision store, for    *)
(* every value of the constants: types, one message in hand at a time,     *)
(* outputs issued before the commit, and so every committed message        *)
(* handled; decisions in the order of their transactions; a memory that is *)
(* what the process has read; duplicates and torn publications paid for by *)
(* exits.                                                                  *)
(*                                                                         *)
(* Then, that the table and the alerts agree: a decision that a crash left *)
(* half published is newer than nothing the store keeps for good: its      *)
(* message is still uncommitted, so that a retry follows, and the retry is *)
(* newer.                                                                  *)
(***************************************************************************)
EXTENDS FraudPipeline, KafkaWorkerProofs, FraudScoringProofs

\* What is handled stays handled when the outputs only grow.
LEMMA HandledMonotone ==
    ASSUME NEW v, NEW A, NEW B, \A t \in Topics : A[t] \subseteq B[t], Handled(v, A)
    PROVE  Handled(v, B)
BY DEF Handled, Topics

\* The outcome of a scoring is one of the three DecisionOutcome values.
LEMMA ScoreIsOutcome == ASSUME NEW s, NEW e PROVE Score(s, e) \in Outcomes
BY DEF Score, DecisionForScore, Outcomes

\* TypeOK gives the types of the logs, in this step and the next.
LEMMA LogTypes ==
    /\ TypeOK => LogTypeOK(ValueType)
    /\ TypeOK' => LogTypeOK(ValueType)'
BY DEF TypeOK, KafkaTypeOK, LogTypeOK

\* Messages that were committed before the step stay handled.
LEMMA CommittedKept ==
    ASSUME TypeOK, TypeOK', OneInHand(Raw), CommittedIsHandled, LogGrows,
           \A t \in Topics : rejected[t] \subseteq rejected'[t],
           NEW p \in Partitions, NEW i \in 1 .. committed[p]
    PROVE  Handled(log'[Raw][p][i], Settled')
<1>1. log'[Raw][p][i] = log[Raw][p][i]
  BY CommittedRecordKept DEF TypeOK, Topics
<1>2. \A t \in Topics : Settled[t] \subseteq Settled'[t]
  <2>1. LogTypeOK(ValueType) /\ LogTypeOK(ValueType)'
    BY LogTypes
  <2> QED
    BY <2>1, SettledGrows
<1>3. Handled(log[Raw][p][i], Settled)
  BY DEF CommittedIsHandled
<1> QED
  BY <1>1, <1>2, <1>3, HandledMonotone

-----------------------------------------------------------------------------
(* The handlers' requests, and what they put into Issued. *)

\* The requests of a scored transaction are typed and handle it.
LEMMA ScoreIssues ==
    ASSUME TypeOK, OneInHand(Raw), ScoreTransaction
    PROVE  TypeOK' /\ LogGrows /\ UNCHANGED <<rejected, committed>>
           /\ Handled(Payload(Raw)', Issued')
<1> DEFINE e == Payload(Raw)
           c == e.customer_id
           d == [event |-> e, decision |-> Score(memory[c], e), processed_at |-> clock + 1]
<1>1. /\ pc = "processing" /\ e \in Events
      /\ Produce(DecisionRequests(d))
      /\ memory' = [memory EXCEPT ![c] = Observe(@, e)]
      /\ clock' = clock + 1 /\ UNCHANGED since
  BY DEF ScoreTransaction
<1>2. c \in Customers /\ PartitionOf[c] \in Partitions
  BY <1>1, EventsAssumption, PartitionOfAssumption
<1>3. d \in Decisions
  <2>1. Score(memory[c], e) \in Outcomes /\ clock + 1 \in Nat
    BY ScoreIsOutcome DEF TypeOK
  <2> QED
    BY <1>1, <2>1 DEF Decisions
<1> HIDE DEF d
<1>4. d.event = e
  BY DEF d
<1>5. exits \in 0 .. MaxExits
  BY DEF TypeOK, KafkaTypeOK
<1>6. \A r \in DecisionRequests(d) : IsRequest(r, ValueType)
  <2>1. Scored \in Topics /\ Alerts \in Topics
    BY DEF Topics
  <2>2. ValueType[Scored] = Decisions /\ ValueType[Alerts] = Decisions
    BY <2>1 DEF ValueType, Topics, Scored, Alerts, Raw, DeadLetter
  <2> QED
    BY <1>2, <1>3, <1>4, <1>5, <2>1, <2>2 DEF DecisionRequests, Request, IsRequest
<1>7. KafkaTypeOK(ValueType)'
  BY <1>1, <1>6, ProduceTypesOK DEF TypeOK
<1>8. UNCHANGED <<log, msg, rejected, committed>> /\ outbox' = outbox \cup DecisionRequests(d)
  BY <1>1 DEF Produce
<1>9. TypeOK'
  BY <1>1, <1>7 DEF TypeOK
<1>10. d \in Issued'[Scored]
  <2>1. Request(Scored, PartitionOf[c], d) \in outbox'
    BY <1>4, <1>8 DEF DecisionRequests
  <2> QED
    BY <2>1 DEF Issued, Queued, Request, Topics
<1>11. d.decision = "approve" \/ d \in Issued'[Alerts]
  <2> SUFFICES ASSUME d.decision # "approve" PROVE d \in Issued'[Alerts]
    OBVIOUS
  <2>1. Request(Alerts, PartitionOf[c], d) \in outbox'
    BY <1>4, <1>8 DEF DecisionRequests
  <2> QED
    BY <2>1 DEF Issued, Queued, Request, Topics
<1>12. Payload(Raw)' = e /\ e \notin Malformed
  BY <1>1, <1>8, PayloadAssumption DEF Payload
<1> QED
  BY <1>4, <1>8, <1>9, <1>10, <1>11, <1>12, LogTypes, LogUnchanged DEF Handled

\* The request of a payload that does not validate handles it.
LEMMA DeadLetterIssues ==
    ASSUME TypeOK, OneInHand(Raw), DeadLetterTransaction
    PROVE  TypeOK' /\ LogGrows /\ UNCHANGED <<rejected, committed>>
           /\ Handled(Payload(Raw)', Issued')
<1> DEFINE v == Payload(Raw)
           q == Request(DeadLetter, DeadLetterPartition, v)
<1>1. pc = "processing" /\ v \in Malformed /\ Produce({q}) /\ UNCHANGED detectorVars
  BY DEF DeadLetterTransaction
<1>2. IsRequest(q, ValueType)
  <2>1. DeadLetter \in Topics /\ ValueType[DeadLetter] = Malformed
    BY DEF Topics, ValueType, DeadLetter, Raw
  <2>2. exits \in 0 .. MaxExits
    BY DEF TypeOK, KafkaTypeOK
  <2> QED
    BY <1>1, <2>1, <2>2, DeadLetterPartitionAssumption DEF IsRequest, Request
<1>3. TypeOK'
  BY <1>1, <1>2, ProduceTypesOK DEF TypeOK, detectorVars
<1>4. UNCHANGED <<log, msg, rejected, committed>> /\ q \in outbox'
  BY <1>1 DEF Produce
<1>5. v \in Issued'[DeadLetter]
  BY <1>4 DEF Issued, Queued, Request, Topics
<1>6. Payload(Raw)' = v /\ v \notin Events
  BY <1>1, <1>4, PayloadAssumption DEF Payload
<1> QED
  BY <1>3, <1>4, <1>5, <1>6, LogTypes, LogUnchanged DEF Handled
-----------------------------------------------------------------------------
(* The inductive invariant, one lemma per group of actions. *)

LEMMA InitInv == Init => DetectorInv
<1> SUFFICES ASSUME Init PROVE DetectorInv
  OBVIOUS
<1>1. TypeOK
  <2>1. \A t \in Topics : log[t] \in [Partitions -> Seq(ValueType[t])]
    BY DEF Init, KafkaInit
  <2>2. exits \in 0 .. MaxExits
    BY MaxExitsAssumption DEF Init, KafkaInit
  <2> QED
    BY <2>1, <2>2 DEF Init, KafkaInit, TypeOK, KafkaTypeOK, ControlPoints, ColdMemory
<1>2. \A p \in Partitions : Len(log[Raw][p]) = 0 /\ committed[p] = 0
  BY DEF Init, KafkaInit, Topics
<1>3. OneInHand(Raw)
  BY <1>2 DEF OneInHand, InHand, Init, KafkaInit
<1>4. OutputsIssued
  BY DEF OutputsIssued, Init, KafkaInit
<1>5. CommittedIsHandled
  BY <1>2 DEF CommittedIsHandled
<1> QED
  BY <1>1, <1>3, <1>4, <1>5 DEF DetectorInv

\* Steps that only move records: the broker's, the orphans', the raw writers'.
LEMMA EnvironmentKeepsInv ==
    ASSUME DetectorInv, Broker \/ Orphans \/ Environment
    PROVE  DetectorInv'
<1>1. /\ TypeOK' /\ LogGrows
      /\ \A t \in Topics : rejected[t] \subseteq rejected'[t]
      /\ \A t \in Topics : Issued[t] \subseteq Issued'[t]
  <2>1. CASE Broker
    BY <2>1, BrokerAnswersOK DEF Broker, detectorVars, DetectorInv, TypeOK
  <2>2. CASE Orphans
    <3>1. UNCHANGED rejected
      BY <2>2 DEF Orphans, OrphanStep, LateArrival, LostRequest
    <3> QED
      BY <2>2, <3>1, OrphanStepOK DEF Orphans, detectorVars, DetectorInv, TypeOK
  <2>3. CASE Environment
    <3>1. PICK v \in Events \cup Malformed, p \in Partitions : Ingest(v, p)
      BY <2>3 DEF Environment
    <3>2. LogTypeOK(ValueType) /\ Raw \in Topics /\ v \in ValueType[Raw]
      BY LogTypes DEF DetectorInv, Topics, ValueType
    <3>3. LogTypeOK(ValueType)' /\ LogGrows
      BY <3>1, <3>2, AppendOK DEF Ingest
    <3>4. TypeOK'
      BY <3>1, <3>3 DEF Ingest, DetectorInv, TypeOK, KafkaTypeOK, LogTypeOK,
                        IsRequest, detectorVars
    <3>5. UNCHANGED <<rejected, outbox>>
      BY <3>1 DEF Ingest
    <3>6. \A t \in Topics : InLog(t) \subseteq InLog(t)'
      BY <3>2, <3>3, LogInLog
    <3> QED
      BY <3>3, <3>4, <3>5, <3>6 DEF Issued, Settled, Queued
  <2> QED
    BY <2>1, <2>2, <2>3
<1>2. UNCHANGED <<committed, position, pc, msg>>
  BY DEF Broker, BrokerAnswers, Deliver, Reject, Orphans, OrphanStep, LateArrival,
         LostRequest, Environment, Ingest
<1>3. OneInHand(Raw)'
  BY <1>1, <1>2, OneInHandKept DEF DetectorInv, TypeOK, InHand, Topics
<1>4. OutputsIssued'
  <2>1. outbox' \subseteq outbox
    BY DEF Broker, BrokerAnswers, Deliver, Reject, Orphans, OrphanStep, LateArrival,
           LostRequest, Environment, Ingest
  <2>2. ASSUME pc \in {"delivering", "committing"}
        PROVE  Handled(Payload(Raw)', Issued')
    <3>1. InHand /\ Handled(Payload(Raw), Issued)
      BY <2>2 DEF DetectorInv, OutputsIssued, InHand
    <3>2. Payload(Raw)' = Payload(Raw)
      BY <1>1, <1>2, <3>1, PayloadKept DEF DetectorInv, TypeOK, Topics
    <3> QED
      BY <1>1, <3>1, <3>2, HandledMonotone
  <2> QED
    BY <1>2, <2>1, <2>2 DEF DetectorInv, OutputsIssued
<1>5. CommittedIsHandled'
  BY <1>1, <1>2, CommittedKept DEF DetectorInv, CommittedIsHandled
<1> QED
  BY <1>1, <1>3, <1>4, <1>5 DEF DetectorInv

\* Steps of the worker that neither produce nor commit.
LEMMA LoopKeepsInv ==
    ASSUME DetectorInv,
           \/ StartDetector
           \/ \E p \in Partitions : PollRaw(p)
           \/ ScoringRaises
           \/ FlushOutputs
           \/ CloseDetector
           \/ ExitDetector
           \/ StopDetector
    PROVE  DetectorInv'
<1>1. UNCHANGED <<log, committed, rejected>>
  BY DEF StartDetector, Start, PollRaw, Poll, ScoringRaises, Exit, FlushOutputs, Flushed,
         CloseDetector, Close, CountedExit, ExitDetector, FlushTimeout, Crash,
         StopDetector, Stop
<1>2. TypeOK'
  <2>1. DOMAIN memory' = Customers /\ clock' \in Nat /\ since' \in [Partitions -> Nat]
    BY DEF StartDetector, PollRaw, ScoringRaises, FlushOutputs, CloseDetector,
           ExitDetector, StopDetector, Forget, detectorVars, DetectorInv, TypeOK,
           KafkaTypeOK, ColdMemory
  <2>2. \/ Start \/ (\E p \in Partitions : Poll(Raw, p)) \/ Flushed \/ Stop
        \/ (Exit /\ exits' \in 0 .. MaxExits)
    BY MaxExitsAssumption
       DEF StartDetector, PollRaw, ScoringRaises, FlushOutputs, CloseDetector, Close,
           ExitDetector, FlushTimeout, Crash, CountedExit, StopDetector, DetectorInv,
           TypeOK, KafkaTypeOK
  <2> QED
    BY <2>1, <2>2, LoopTypesOK DEF DetectorInv, TypeOK, Topics
<1>3. LogGrows /\ OneInHand(Raw)'
  <2>1. Start \/ (\E p \in Partitions : Poll(Raw, p)) \/ Flushed \/ Stop \/ Exit
    BY DEF StartDetector, PollRaw, ScoringRaises, FlushOutputs, CloseDetector, Close,
           ExitDetector, FlushTimeout, Crash, CountedExit, StopDetector
  <2> QED
    BY <1>2, <2>1, LoopOneInHand DEF DetectorInv, TypeOK, Topics
<1>4. CommittedIsHandled'
  BY <1>1, <1>2, <1>3, CommittedKept DEF DetectorInv, CommittedIsHandled
<1>5. OutputsIssued'
  <2>1. CASE StartDetector \/ StopDetector \/ \E p \in Partitions : PollRaw(p)
    BY <2>1 DEF StartDetector, Start, StopDetector, Stop, PollRaw, Poll, DetectorInv,
                OutputsIssued
  <2>2. CASE ScoringRaises \/ CloseDetector \/ ExitDetector
    BY <2>2 DEF ScoringRaises, CloseDetector, Close, ExitDetector, FlushTimeout, Crash,
                CountedExit, Exit, OutputsIssued
  <2>3. CASE FlushOutputs
    <3>1. Payload(Raw)' = Payload(Raw) /\ Issued' = Issued
      BY <1>1, <2>3 DEF FlushOutputs, Flushed, Payload, Issued, Settled, InLog, Queued
    <3> QED
      BY <2>3, <3>1 DEF FlushOutputs, Flushed, DetectorInv, OutputsIssued
  <2> QED
    BY <2>1, <2>2, <2>3
<1> QED
  BY <1>2, <1>3, <1>4, <1>5 DEF DetectorInv

\* The two handlers: the message in hand stays in hand, its outputs are issued.
LEMMA HandlersKeepInv ==
    ASSUME DetectorInv, ScoreTransaction \/ DeadLetterTransaction
    PROVE  DetectorInv'
<1>1. TypeOK' /\ LogGrows /\ UNCHANGED <<rejected, committed>>
  BY ScoreIssues, DeadLetterIssues DEF DetectorInv
<1>2. Handled(Payload(Raw)', Issued')
  BY ScoreIssues, DeadLetterIssues DEF DetectorInv
<1>3. pc = "processing" /\ pc' = "delivering" /\ UNCHANGED <<log, committed, position, msg>>
  BY DEF ScoreTransaction, DeadLetterTransaction, Produce
<1>4. OneInHand(Raw)'
  BY <1>1, <1>3, OneInHandKept DEF DetectorInv, TypeOK, InHand, Topics
<1>5. OutputsIssued'
  BY <1>2, <1>3 DEF OutputsIssued
<1>6. CommittedIsHandled'
  BY <1>1, CommittedKept DEF DetectorInv, CommittedIsHandled
<1> QED
  BY <1>1, <1>4, <1>5, <1>6 DEF DetectorInv

\* The commit: nothing is outstanding, so what was issued is settled.
LEMMA CommitKeepsInv ==
    ASSUME DetectorInv, CommitOffset
    PROVE  /\ DetectorInv'
           /\ outbox = {}
           /\ committed' = [committed EXCEPT ![msg.partition] = @ + 1]
<1>1. /\ outbox = {} /\ outbox' = {} /\ pc = "committing" /\ pc' = "polling"
      /\ UNCHANGED <<log, rejected>>
  BY DEF CommitOffset, Commit, DetectorInv, OutputsIssued
<1>2. /\ TypeOK' /\ OneInHand(Raw)' /\ LogGrows
      /\ committed' = [committed EXCEPT ![msg.partition] = @ + 1]
      /\ \A p \in Partitions : \A i \in 1 .. committed'[p] :
            i \in 1 .. committed[p] \/ log'[Raw][p][i] = Payload(Raw)
  BY CommitOneInHand DEF CommitOffset, detectorVars, DetectorInv, TypeOK, Topics
<1>3. CommittedIsHandled'
  <2>1. Handled(Payload(Raw), Settled')
    <3>1. Handled(Payload(Raw), Issued)
      BY <1>1 DEF DetectorInv, OutputsIssued
    <3>2. \A t \in Topics : Issued[t] \subseteq Settled'[t]
      BY <1>1 DEF Issued, Settled, Queued, InLog
    <3> QED
      BY <3>1, <3>2, HandledMonotone
  <2>2. ASSUME NEW p \in Partitions, NEW i \in 1 .. committed'[p]
        PROVE  Handled(log'[Raw][p][i], Settled')
    <3>1. CASE i \in 1 .. committed[p]
      BY <1>1, <1>2, <3>1, CommittedKept DEF DetectorInv
    <3>2. CASE log'[Raw][p][i] = Payload(Raw)
      BY <2>1, <3>2
    <3> QED
      BY <1>2, <3>1, <3>2
  <2> QED
    BY <2>2 DEF CommittedIsHandled
<1>4. OutputsIssued'
  BY <1>1 DEF OutputsIssued
<1> QED
  BY <1>1, <1>2, <1>3, <1>4 DEF DetectorInv

LEMMA StutterKeepsInv == ASSUME DetectorInv, UNCHANGED vars PROVE DetectorInv'
<1>1. UNCHANGED <<log, committed, position, pc, msg, outbox, orphans, rejected, exits,
                  memory, clock, since>>
  BY DEF vars, kafkaVars, detectorVars
<1>2. TypeOK'
  BY <1>1 DEF DetectorInv, TypeOK, KafkaTypeOK, IsRequest
<1>3. OneInHand(Raw)' /\ OutputsIssued'
  BY <1>1 DEF DetectorInv, OneInHand, InHand, OutputsIssued, Payload, Issued, Settled,
              InLog, Queued
<1>4. CommittedIsHandled'
  BY <1>1 DEF DetectorInv, CommittedIsHandled, Settled, InLog
<1> QED
  BY <1>2, <1>3, <1>4 DEF DetectorInv

LEMMA NextKeepsInv == DetectorInv /\ [Next]_vars => DetectorInv'
<1> SUFFICES ASSUME DetectorInv, [Next]_vars PROVE DetectorInv'
  OBVIOUS
<1>1. CASE WorkerStep
  BY <1>1, LoopKeepsInv, HandlersKeepInv, CommitKeepsInv DEF WorkerStep
<1>2. CASE Broker \/ Orphans \/ Environment
  BY <1>2, EnvironmentKeepsInv
<1>3. CASE ExitDetector \/ StopDetector
  BY <1>3, LoopKeepsInv
<1>4. CASE Idle \/ UNCHANGED vars
  BY <1>4, StutterKeepsInv DEF Idle, IdlePoll, vars
<1> QED
  BY <1>1, <1>2, <1>3, <1>4 DEF Next

-----------------------------------------------------------------------------
(* Order: what precedes a transaction is decided before it. *)

\* No step of the detector or of Kafka removes a record.
LEMMA NextGrowsLog == ASSUME DetectorInv, Next PROVE LogGrows
<1>1. CASE Broker \/ Orphans
  BY <1>1, BrokerAnswersOK, OrphanStepOK DEF Broker, Orphans, DetectorInv, TypeOK
<1>2. CASE Environment
  <2>1. PICK v \in Events \cup Malformed, p \in Partitions : Ingest(v, p)
    BY <1>2 DEF Environment
  <2>2. LogTypeOK(ValueType) /\ Raw \in Topics /\ v \in ValueType[Raw]
    BY LogTypes DEF DetectorInv, Topics, ValueType
  <2> QED
    BY <2>1, <2>2, AppendOK DEF Ingest
<1>3. CASE WorkerStep \/ ExitDetector \/ StopDetector \/ Idle
  <2>1. UNCHANGED log
    BY <1>3 DEF WorkerStep, StartDetector, Start, PollRaw, Poll, ScoreTransaction,
                DeadLetterTransaction, Produce, ScoringRaises, Exit, FlushOutputs, Flushed,
                CommitOffset, Commit, CloseDetector, Close, CountedExit, ExitDetector,
                FlushTimeout, Crash, StopDetector, Stop, Idle, IdlePoll, kafkaVars
  <2> QED
    BY <2>1, LogTypes, LogUnchanged DEF DetectorInv
<1> QED
  BY <1>1, <1>2, <1>3 DEF Next

\* A step keeps the records and the refusals there are.
LEMMA RecordsKept ==
    ASSUME DetectorInv, [Next]_vars
    PROVE  LogGrows /\ rejected[Scored] \subseteq rejected'[Scored]
<1>1. LogGrows
  BY NextGrowsLog, LogTypes, LogUnchanged DEF DetectorInv, vars, kafkaVars
<1>2. CASE Broker
  BY <1>1, <1>2, BrokerAnswersOK DEF Broker, DetectorInv, TypeOK, Topics
<1>3. CASE ~ Broker
  <2>1. UNCHANGED rejected
    BY <1>3 DEF Next, WorkerStep, StartDetector, Start, PollRaw, Poll, ScoreTransaction,
                DeadLetterTransaction, Produce, ScoringRaises, Exit, FlushOutputs, Flushed,
                CommitOffset, Commit, CloseDetector, Close, CountedExit, Orphans,
                OrphanStep, LateArrival, LostRequest, ExitDetector, FlushTimeout, Crash,
                StopDetector, Stop, Idle, IdlePoll, Environment, Ingest, vars, kafkaVars
  <2> QED
    BY <1>1, <2>1
<1> QED
  BY <1>2, <1>3

\* What preceded e before offset k still does, there and at later offsets.
LEMMA PrecededKept ==
    ASSUME DetectorInv, [Next]_vars, NEW p \in Partitions, NEW e,
           NEW k \in Nat, k <= Len(log[Scored][p]) + 1, NEW n \in Nat, k <= n,
           Preceded(e, log[Raw][p], Before(log[Scored][p], rejected[Scored], k))
    PROVE  Preceded(e, log'[Raw][p], Before(log'[Scored][p], rejected'[Scored], n))
<1>1. DetectorInv' /\ LogGrows /\ rejected[Scored] \subseteq rejected'[Scored]
  BY NextKeepsInv, RecordsKept
<1>2. \A t \in Topics : Len(log[t][p]) \in Nat /\ Len(log'[t][p]) \in Nat
  BY <1>1, InputType DEF DetectorInv, TypeOK
<1>3. Raw \in Topics /\ Scored \in Topics
  BY DEF Topics
<1>4. Before(log[Scored][p], rejected[Scored], k)
        \subseteq Before(log'[Scored][p], rejected'[Scored], n)
  <2>1. ASSUME NEW m \in 1 .. k - 1
        PROVE  m \in 1 .. n - 1 /\ log'[Scored][p][m] = log[Scored][p][m]
    <3>1. m \in 1 .. n - 1 /\ m \in 1 .. Len(log[Scored][p])
      BY <1>2, <1>3
    <3> QED
      BY <1>1, <1>3, <3>1 DEF LogGrows
  <2> QED
    BY <1>1, <2>1 DEF Before
<1>5. /\ Len(log[Raw][p]) <= Len(log'[Raw][p])
      /\ \A i \in 1 .. Len(log[Raw][p]) : log'[Raw][p][i] = log[Raw][p][i]
  BY <1>1, <1>3 DEF LogGrows
<1>6. PICK j \in 1 .. Len(log[Raw][p]) :
         /\ log[Raw][p][j] = e
         /\ \A i \in 1 .. j - 1 :
               log[Raw][p][i] \in Events
                  => \E d \in Before(log[Scored][p], rejected[Scored], k) :
                        d.event = log[Raw][p][i]
  BY DEF Preceded
<1>7. j \in 1 .. Len(log'[Raw][p]) /\ \A i \in 1 .. j - 1 : i \in 1 .. Len(log[Raw][p])
  BY <1>2, <1>3, <1>5
<1>8. log'[Raw][p][j] = e
  BY <1>5, <1>6
<1>9. ASSUME NEW i \in 1 .. j - 1, log'[Raw][p][i] \in Events
      PROVE  \E d \in Before(log'[Scored][p], rejected'[Scored], n) : d.event = log'[Raw][p][i]
  <2>1. log'[Raw][p][i] = log[Raw][p][i]
    BY <1>5, <1>7
  <2> QED
    BY <1>4, <1>6, <1>9, <2>1
<1> QED
  BY <1>7, <1>8, <1>9 DEF Preceded

\* Outside a scoring, a step issues no request to transactions.scored, and none
\* at all to transactions.raw.
LEMMA OthersRequestNothing ==
    ASSUME [Next]_vars, ~ ScoreTransaction, NEW r \in outbox' \cup orphans',
           r.topic \in {Scored, Raw}
    PROVE  r \in outbox \cup orphans
<1>1. CASE DeadLetterTransaction
  <2>1. Request(DeadLetter, DeadLetterPartition, Payload(Raw)).topic = DeadLetter
    BY DEF Request
  <2>2. DeadLetter \notin {Scored, Raw}
    BY DEF DeadLetter, Scored, Raw
  <2> QED
    BY <1>1, <2>1, <2>2 DEF DeadLetterTransaction, Produce
<1>2. CASE ~ DeadLetterTransaction
  BY <1>2 DEF Next, WorkerStep, StartDetector, Start, PollRaw, Poll, ScoringRaises, Exit,
              FlushOutputs, Flushed, CommitOffset, Commit, CloseDetector, Close,
              CountedExit, Broker, BrokerAnswers, Deliver, Reject, Orphans, OrphanStep,
              LateArrival, LostRequest, ExitDetector, FlushTimeout, Crash, StopDetector,
              Stop, Idle, IdlePoll, Environment, Ingest, vars, kafkaVars
<1> QED
  BY <1>1, <1>2

\* The requests of a scoring follow the key of the transaction in hand.
LEMMA ScoreRequests ==
    ASSUME ScoreTransaction, NEW r \in outbox' \cup orphans'
    PROVE  \/ r \in outbox \cup orphans
           \/ /\ r.topic \in {Scored, Alerts}
              /\ r.value.event = Payload(Raw)
              /\ r.partition = PartitionOf[Payload(Raw).customer_id]
<1> DEFINE d == [event |-> Payload(Raw),
                 decision |-> Score(memory[Payload(Raw).customer_id], Payload(Raw)),
                 processed_at |-> clock + 1]
<1>1. outbox' = outbox \cup DecisionRequests(d) /\ orphans' = orphans
  BY DEF ScoreTransaction, Produce
<1>2. d.event = Payload(Raw)
  OBVIOUS
<1> HIDE DEF d
<1> QED
  BY <1>1, <1>2 DEF DecisionRequests, Request

\* A new record of transactions.scored is a request that was waiting, a new
\* transaction is where its key belongs.
LEMMA NewRecords ==
    ASSUME DetectorInv, OrderInv, [Next]_vars, NEW p \in Partitions
    PROVE  /\ \A k \in 1 .. Len(log'[Scored][p]) :
                 \/ k \in 1 .. Len(log[Scored][p]) /\ log'[Scored][p][k] = log[Scored][p][k]
                 \/ /\ k = Len(log[Scored][p]) + 1
                    /\ \E r \in ScoredRequests :
                          r.partition = p /\ r.value = log'[Scored][p][k]
           /\ \A i \in 1 .. Len(log'[Raw][p]) :
                 \/ i \in 1 .. Len(log[Raw][p]) /\ log'[Raw][p][i] = log[Raw][p][i]
                 \/ log'[Raw][p][i] \in Events
                       => p = PartitionOf[log'[Raw][p][i].customer_id]
<1>1. LogTypeOK(ValueType) /\ Scored \in Topics /\ Raw \in Topics /\ Scored # Raw
  BY LogTypes DEF DetectorInv, Topics, Scored, Raw
<1>2. CASE UNCHANGED log
  BY <1>2
<1>3. CASE \E r \in outbox \cup orphans : log' = Appended(r.topic, r.partition, r.value)
  <2>1. PICK r \in outbox \cup orphans : log' = Appended(r.topic, r.partition, r.value)
    BY <1>3
  <2>2. IsRequest(r, ValueType) /\ r.topic # Raw
    BY DEF DetectorInv, TypeOK, KafkaTypeOK, OrderInv, KeyedByCustomer
  <2>3. r.topic \in Topics /\ r.partition \in Partitions
    BY <2>2 DEF IsRequest
  <2>4. \A k \in 1 .. Len(log'[Scored][p]) :
           \/ k \in 1 .. Len(log[Scored][p]) /\ log'[Scored][p][k] = log[Scored][p][k]
           \/ /\ Scored = r.topic /\ p = r.partition
              /\ k = Len(log[Scored][p]) + 1 /\ log'[Scored][p][k] = r.value
    BY <1>1, <2>1, <2>3, AppendAt
  <2>5. \A i \in 1 .. Len(log'[Raw][p]) :
           i \in 1 .. Len(log[Raw][p]) /\ log'[Raw][p][i] = log[Raw][p][i]
    BY <1>1, <2>1, <2>2, <2>3, AppendAt
  <2> QED
    BY <2>4, <2>5 DEF ScoredRequests
<1>4. CASE Environment
  <2>1. PICK v \in Events \cup Malformed, q \in Partitions : Ingest(v, q)
    BY <1>4 DEF Environment
  <2>2. log' = Appended(Raw, q, v) /\ (v \in Events => q = PartitionOf[v.customer_id])
    BY <2>1 DEF Ingest
  <2>3. \A i \in 1 .. Len(log'[Raw][p]) :
           \/ i \in 1 .. Len(log[Raw][p]) /\ log'[Raw][p][i] = log[Raw][p][i]
           \/ p = q /\ log'[Raw][p][i] = v
    BY <1>1, <2>2, AppendAt
  <2>4. \A k \in 1 .. Len(log'[Scored][p]) :
           k \in 1 .. Len(log[Scored][p]) /\ log'[Scored][p][k] = log[Scored][p][k]
    BY <1>1, <2>2, AppendAt
  <2> QED
    BY <2>2, <2>3, <2>4
<1>5. CASE Broker \/ Orphans
  <2>1. \/ UNCHANGED log
        \/ \E r \in outbox \cup orphans : log' = Appended(r.topic, r.partition, r.value)
    BY <1>5 DEF Broker, BrokerAnswers, Deliver, Reject, Orphans, OrphanStep, LateArrival,
                LostRequest
  <2> QED
    BY <1>2, <1>3, <2>1
<1>6. CASE WorkerStep \/ ExitDetector \/ StopDetector \/ Idle \/ UNCHANGED vars
  <2>1. UNCHANGED log
    BY <1>6 DEF WorkerStep, StartDetector, Start, PollRaw, Poll, ScoreTransaction,
                DeadLetterTransaction, Produce, ScoringRaises, Exit, FlushOutputs, Flushed,
                CommitOffset, Commit, CloseDetector, Close, CountedExit, ExitDetector,
                FlushTimeout, Crash, StopDetector, Stop, Idle, IdlePoll, vars, kafkaVars
  <2> QED
    BY <1>2, <2>1
<1> QED
  BY <1>4, <1>5, <1>6 DEF Next

\* When a transaction is scored all that precedes it is committed, and so decided.
LEMMA InHandIsPreceded ==
    ASSUME DetectorInv, OrderInv, InHand, Payload(Raw) \in Events
    PROVE  /\ msg.partition = PartitionOf[Payload(Raw).customer_id]
           /\ Preceded(Payload(Raw), log[Raw][msg.partition],
                       Before(log[Scored][msg.partition], rejected[Scored],
                              Len(log[Scored][msg.partition]) + 1))
<1> DEFINE p == msg.partition
           j == msg.offset + 1
           decided == Before(log[Scored][p], rejected[Scored], Len(log[Scored][p]) + 1)
<1>1. TypeOK /\ KafkaTypeOK(ValueType) /\ OneInHand(Raw) /\ Raw \in Topics /\ Scored \in Topics
  BY DEF DetectorInv, TypeOK, Topics
<1>2. /\ p \in Partitions /\ j \in 1 .. Len(log[Raw][p]) /\ log[Raw][p][j] = Payload(Raw)
      /\ j = committed[p] + 1
  BY <1>1, PayloadInLog DEF OneInHand, Payload
<1>3. committed[p] \in Nat /\ \A q \in Partitions : Len(log[Scored][q]) \in Nat
  BY <1>1, <1>2, InputType
<1> HIDE DEF p, j
<1>4. p = PartitionOf[Payload(Raw).customer_id]
  BY <1>2 DEF OrderInv, KeyedByCustomer
<1>5. ASSUME NEW i \in 1 .. j - 1, log[Raw][p][i] \in Events
      PROVE  \E d \in decided : d.event = log[Raw][p][i]
  <2>1. i \in 1 .. committed[p]
    BY <1>2, <1>3
  <2>2. Handled(log[Raw][p][i], Settled)
    BY <1>2, <2>1 DEF DetectorInv, CommittedIsHandled
  <2>3. PICK d \in Settled[Scored] : d.event = log[Raw][p][i]
    BY <1>5, <2>2 DEF Handled
  <2>4. d \in InLog(Scored) \/ d \in rejected[Scored]
    BY <1>1, <2>3 DEF Settled
  <2>5. CASE d \in InLog(Scored)
    <3>1. PICK q \in Partitions : \E m \in 1 .. Len(log[Scored][q]) : d = log[Scored][q][m]
      BY <2>5 DEF InLog
    <3>2. PICK m \in 1 .. Len(log[Scored][q]) : d = log[Scored][q][m]
      BY <3>1
    <3>3. q = PartitionOf[log[Raw][p][i].customer_id]
      BY <2>3, <3>2 DEF OrderInv, KeyedByCustomer
    <3>4. i \in 1 .. Len(log[Raw][p])
      <4>1. Len(log[Raw][p]) \in Nat
        BY <1>1, <1>2, InputType
      <4> QED
        BY <1>2, <1>3, <2>1, <4>1
    <3>5. p = PartitionOf[log[Raw][p][i].customer_id]
      BY <1>2, <1>5, <3>4 DEF OrderInv, KeyedByCustomer
    <3>6. q = p
      BY <3>3, <3>5
    <3>7. m \in 1 .. Len(log[Scored][p]) /\ d = log[Scored][p][m]
      BY <3>2, <3>6
    <3>8. d \in decided
      <4>1. Len(log[Scored][p]) \in Nat
        BY <1>2, <1>3
      <4>2. m \in 1 .. Len(log[Scored][p]) + 1 - 1
        BY <3>7, <4>1
      <4> QED
        BY <3>7, <4>2 DEF Before
    <3> QED
      BY <2>3, <3>8
  <2>6. CASE d \in rejected[Scored]
    BY <2>3, <2>6 DEF Before
  <2> QED
    BY <2>4, <2>5, <2>6
<1>6. Preceded(Payload(Raw), log[Raw][p], decided)
  BY <1>2, <1>5 DEF Preceded
<1> QED
  BY <1>4, <1>6 DEF p

LEMMA NextKeepsOrder == DetectorInv /\ OrderInv /\ [Next]_vars => OrderInv'
<1> SUFFICES ASSUME DetectorInv, OrderInv, [Next]_vars PROVE OrderInv'
  OBVIOUS
<1>1. DetectorInv' /\ LogGrows
  BY NextKeepsInv, RecordsKept
<1>2. ASSUME NEW p \in Partitions
      PROVE  /\ Len(log[Scored][p]) \in Nat /\ Len(log'[Scored][p]) \in Nat
             /\ Len(log[Scored][p]) <= Len(log'[Scored][p])
  BY <1>1, InputType DEF DetectorInv, TypeOK, Topics, LogGrows
<1>3. ASSUME NEW r \in ScoredRequests' PROVE r.partition \in Partitions
  BY <1>1, <1>3 DEF ScoredRequests, DetectorInv, TypeOK, KafkaTypeOK, IsRequest
<1> DEFINE All(p) == Before(log[Scored][p], rejected[Scored], Len(log[Scored][p]) + 1)
<1>4. ASSUME NEW r \in ScoredRequests', r \notin ScoredRequests
      PROVE  /\ r.partition = PartitionOf[r.value.event.customer_id]
             /\ Preceded(r.value.event, log[Raw][r.partition], All(r.partition))
  <2>1. r \in outbox' \cup orphans' /\ r.topic = Scored /\ r \notin outbox \cup orphans
    BY <1>4 DEF ScoredRequests
  <2>2. ScoreTransaction
    BY <2>1, OthersRequestNothing
  <2>3. /\ r.value.event = Payload(Raw)
        /\ r.partition = PartitionOf[Payload(Raw).customer_id]
    BY <2>1, <2>2, ScoreRequests
  <2>4. InHand /\ Payload(Raw) \in Events
    BY <2>2 DEF ScoreTransaction, InHand
  <2> QED
    BY <2>3, <2>4, InHandIsPreceded
<1>5. KeyedByCustomer'
  <2>1. ASSUME NEW p \in Partitions, NEW i \in 1 .. Len(log'[Raw][p]),
               log'[Raw][p][i] \in Events
        PROVE  p = PartitionOf[log'[Raw][p][i].customer_id]
    <3>1. CASE i \in 1 .. Len(log[Raw][p]) /\ log'[Raw][p][i] = log[Raw][p][i]
      BY <2>1, <3>1 DEF OrderInv, KeyedByCustomer
    <3> QED
      BY <2>1, <3>1, NewRecords
  <2>2. ASSUME NEW p \in Partitions, NEW k \in 1 .. Len(log'[Scored][p])
        PROVE  p = PartitionOf[log'[Scored][p][k].event.customer_id]
    <3>1. CASE k \in 1 .. Len(log[Scored][p]) /\ log'[Scored][p][k] = log[Scored][p][k]
      BY <3>1 DEF OrderInv, KeyedByCustomer
    <3>2. CASE \E r \in ScoredRequests :
                  r.partition = p /\ r.value = log'[Scored][p][k]
      BY <3>2 DEF OrderInv, KeyedByCustomer
    <3> QED
      BY <3>1, <3>2, NewRecords
  <2>3. \A r \in ScoredRequests' : r.partition = PartitionOf[r.value.event.customer_id]
    BY <1>4 DEF OrderInv, KeyedByCustomer
  <2>4. ASSUME NEW r \in outbox' \cup orphans' PROVE r.topic # Raw
    <3>1. CASE r \in outbox \cup orphans
      BY <3>1 DEF OrderInv, KeyedByCustomer
    <3>2. CASE r \notin outbox \cup orphans
      <4>1. ScoreTransaction \/ r.topic # Raw
        BY <3>2, OthersRequestNothing
      <4>2. Raw \notin {Scored, Alerts}
        BY DEF Raw, Scored, Alerts
      <4> QED
        BY <3>2, <4>1, <4>2, ScoreRequests
    <3> QED
      BY <3>1, <3>2
  <2> QED
    BY <2>1, <2>2, <2>3, <2>4 DEF KeyedByCustomer
<1>6. RequestsInOrder'
  <2>1. ASSUME NEW r \in ScoredRequests'
        PROVE  Preceded(r.value.event, log'[Raw][r.partition],
                        Before(log'[Scored][r.partition], rejected'[Scored],
                               Len(log'[Scored][r.partition]) + 1))
    <3>1. Preceded(r.value.event, log[Raw][r.partition], All(r.partition))
      BY <1>4 DEF OrderInv, RequestsInOrder
    <3>2. r.partition \in Partitions
      BY <1>3
    <3>3. /\ Len(log[Scored][r.partition]) + 1 \in Nat
          /\ Len(log'[Scored][r.partition]) + 1 \in Nat
          /\ Len(log[Scored][r.partition]) + 1 <= Len(log'[Scored][r.partition]) + 1
      BY <1>2, <3>2
    <3>4. Len(log[Scored][r.partition]) + 1 <= Len(log[Scored][r.partition]) + 1
      BY <3>3
    <3> QED
      BY <3>1, <3>2, <3>3, <3>4, PrecededKept
  <2> QED
    BY <2>1 DEF RequestsInOrder
<1>7. ScoredInOrder'
  <2>1. ASSUME NEW p \in Partitions, NEW k \in 1 .. Len(log'[Scored][p])
        PROVE  Preceded(log'[Scored][p][k].event, log'[Raw][p],
                        Before(log'[Scored][p], rejected'[Scored], k))
    <3>1. k \in Nat /\ k <= Len(log[Scored][p]) + 1 /\ k <= k
      BY <1>2, NewRecords
    <3>2. Preceded(log'[Scored][p][k].event, log[Raw][p],
                   Before(log[Scored][p], rejected[Scored], k))
      <4>1. CASE k \in 1 .. Len(log[Scored][p]) /\ log'[Scored][p][k] = log[Scored][p][k]
        BY <4>1 DEF OrderInv, ScoredInOrder
      <4>2. CASE /\ k = Len(log[Scored][p]) + 1
                 /\ \E r \in ScoredRequests :
                       r.partition = p /\ r.value = log'[Scored][p][k]
        BY <4>2 DEF OrderInv, RequestsInOrder
      <4> QED
        BY <4>1, <4>2, NewRecords
    <3> QED
      BY <3>1, <3>2, PrecededKept
  <2> QED
    BY <2>1 DEF ScoredInOrder
<1> QED
  BY <1>5, <1>6, <1>7 DEF OrderInv

LEMMA InitOrder == Init => OrderInv
<1> SUFFICES ASSUME Init PROVE OrderInv
  OBVIOUS
<1>1. \A p \in Partitions : Len(log[Scored][p]) = 0 /\ Len(log[Raw][p]) = 0
  BY DEF Init, KafkaInit, Topics
<1>2. ScoredRequests = {} /\ outbox \cup orphans = {}
  BY DEF Init, KafkaInit, ScoredRequests
<1> QED
  BY <1>1, <1>2 DEF OrderInv, KeyedByCustomer, RequestsInOrder, ScoredInOrder

-----------------------------------------------------------------------------
(* The detector's theorems. *)

\* The detector's variables keep their types.
THEOREM TypeCorrect == Spec => []TypeOK
<1>1. DetectorInv => TypeOK
  BY DEF DetectorInv
<1> QED
  BY <1>1, InitInv, NextKeepsInv, PTL DEF Spec

\* detector.py: flush before commit, one message at a time -- the invariant.
THEOREM Invariance == Spec => []DetectorInv
  BY InitInv, NextKeepsInv, PTL DEF Spec

\* detector.py commits a message only when its decision, alert or dead letter
\* is in Kafka (or was refused): no crash, timeout or restart loses a message.
THEOREM NothingCommittedUnhandled == Spec => []CommittedIsHandled
<1>1. DetectorInv => CommittedIsHandled
  BY DEF DetectorInv
<1> QED
  BY <1>1, Invariance, PTL

\* The only step that moves a committed offset is the commit.
LEMMA OnlyCommitCommits ==
    ASSUME DetectorInv, [Next]_vars, committed' # committed
    PROVE  CommitOffset
BY DEF Next, WorkerStep, StartDetector, Start, PollRaw, Poll, ScoreTransaction,
       DeadLetterTransaction, Produce, ScoringRaises, Exit, FlushOutputs, Flushed,
       CloseDetector, Close, CountedExit, Broker, BrokerAnswers, Deliver, Reject, Orphans,
       OrphanStep, LateArrival, LostRequest, ExitDetector, FlushTimeout, Crash,
       StopDetector, Stop, Idle, IdlePoll, Environment, Ingest, vars, kafkaVars

\* The committed offset of a partition advances message by message, never back,
\* and only when no produce request of the worker is outstanding.
THEOREM CommitOrder == Spec => CommitsOneByOne
<1>1. ASSUME DetectorInv, [Next]_vars
      PROVE  [\A p \in Partitions :
                committed'[p] # committed[p] =>
                   committed'[p] = committed[p] + 1 /\ outbox = {}]_vars
  <2> SUFFICES ASSUME NEW p \in Partitions, committed'[p] # committed[p]
               PROVE  committed'[p] = committed[p] + 1 /\ outbox = {}
    OBVIOUS
  <2>1. /\ committed' = [committed EXCEPT ![msg.partition] = @ + 1]
        /\ outbox = {}
    BY <1>1, OnlyCommitCommits, CommitKeepsInv
  <2>2. p \in DOMAIN committed
    BY <1>1 DEF DetectorInv, TypeOK, KafkaTypeOK
  <2> QED
    BY <2>1, <2>2
<1> QED
  BY <1>1, Invariance, PTL DEF Spec, CommitsOneByOne

\* kafka_key orders a customer's decisions: each appears after those of all the
\* transactions before it, whatever is retried or arrives late.
THEOREM DecisionsInOrder == Spec => []ScoredInOrder
<1>1. OrderInv => ScoredInOrder
  BY DEF OrderInv
<1> QED
  BY <1>1, InitOrder, NextKeepsOrder, Invariance, PTL DEF Spec

-----------------------------------------------------------------------------
(* Memory: what a process has observed since it started. *)

\* A part of a sequence does not change while the sequence grows behind it.
LEMMA SubSeqKept ==
    ASSUME NEW V, NEW s \in Seq(V), NEW t \in Seq(V), NEW m \in Nat, NEW n \in Nat,
           n <= Len(s), Len(s) <= Len(t), \A i \in 1 .. Len(s) : t[i] = s[i]
    PROVE  SubSeq(t, m + 1, n) = SubSeq(s, m + 1, n)
<1>1. Len(s) \in Nat /\ Len(t) \in Nat
  BY LenProperties
<1>2. \A i \in m + 1 .. n : i \in 1 .. Len(s) /\ i \in 1 .. Len(t) /\ t[i] = s[i]
  BY <1>1
<1>3. \A i \in m + 1 .. n : s[i] \in V /\ t[i] \in V
  BY <1>2, ElementOfSeq
<1> DEFINE first == m + 1
<1> HIDE DEF first
<1>4. first \in Int /\ first = m + 1
  BY DEF first
<1>5. /\ SubSeq(s, first, n) \in Seq(V)
      /\ Len(SubSeq(s, first, n)) = IF first <= n THEN n - first + 1 ELSE 0
      /\ \A i \in 1 .. n - first + 1 : SubSeq(s, first, n)[i] = s[first + i - 1]
  BY <1>3, <1>4, SubSeqProperties
<1>6. /\ SubSeq(t, first, n) \in Seq(V)
      /\ Len(SubSeq(t, first, n)) = IF first <= n THEN n - first + 1 ELSE 0
      /\ \A i \in 1 .. n - first + 1 : SubSeq(t, first, n)[i] = t[first + i - 1]
  BY <1>3, <1>4, SubSeqProperties
<1>7. /\ SubSeq(s, m + 1, n) \in Seq(V) /\ SubSeq(t, m + 1, n) \in Seq(V)
      /\ Len(SubSeq(s, m + 1, n)) = IF m + 1 <= n THEN n - (m + 1) + 1 ELSE 0
      /\ Len(SubSeq(t, m + 1, n)) = IF m + 1 <= n THEN n - (m + 1) + 1 ELSE 0
      /\ \A i \in 1 .. n - (m + 1) + 1 : /\ SubSeq(s, m + 1, n)[i] = s[m + 1 + i - 1]
                                         /\ SubSeq(t, m + 1, n)[i] = t[m + 1 + i - 1]
  BY <1>5, <1>6 DEF first
<1>8. \A i \in 1 .. Len(SubSeq(t, m + 1, n)) :
         i \in 1 .. n - (m + 1) + 1 /\ m + 1 + i - 1 \in m + 1 .. n
  BY <1>7
<1>9. \A i \in 1 .. Len(SubSeq(t, m + 1, n)) :
         SubSeq(t, m + 1, n)[i] = SubSeq(s, m + 1, n)[i]
  BY <1>2, <1>7, <1>8
<1> QED
  BY <1>7, <1>9, SeqEqual

\* One element more of a sequence.
LEMMA SubSeqOneMore ==
    ASSUME NEW V, NEW s \in Seq(V), NEW m \in Nat, NEW n \in Nat, m <= n, n < Len(s)
    PROVE  SubSeq(s, m + 1, n + 1) = Append(SubSeq(s, m + 1, n), s[n + 1])
<1>1. Len(s) \in Nat
  BY LenProperties
<1>2. \A i \in m + 1 .. n + 1 : i \in 1 .. Len(s) /\ s[i] \in V
  BY <1>1, ElementOfSeq
<1> DEFINE a == SubSeq(s, m + 1, n)
           b == SubSeq(s, m + 1, n + 1)
<1>3. /\ a \in Seq(V) /\ Len(a) = n - m
      /\ \A i \in 1 .. n - m : a[i] = s[m + i]
  <2>1. /\ a \in Seq(V) /\ Len(a) = IF m + 1 <= n THEN n - (m + 1) + 1 ELSE 0
        /\ \A i \in 1 .. n - (m + 1) + 1 : a[i] = s[m + 1 + i - 1]
    BY <1>2, SubSeqProperties
  <2> HIDE DEF a
  <2>2. \A i \in 1 .. n - m : i \in 1 .. n - (m + 1) + 1 /\ m + 1 + i - 1 = m + i
    OBVIOUS
  <2> QED
    BY <2>1, <2>2
<1>4. /\ b \in Seq(V) /\ Len(b) = n - m + 1
      /\ \A i \in 1 .. n - m + 1 : b[i] = s[m + i]
  <2>1. /\ b \in Seq(V) /\ Len(b) = IF m + 1 <= n + 1 THEN n + 1 - (m + 1) + 1 ELSE 0
        /\ \A i \in 1 .. n + 1 - (m + 1) + 1 : b[i] = s[m + 1 + i - 1]
    BY <1>2, SubSeqProperties
  <2> HIDE DEF b
  <2>2. \A i \in 1 .. n - m + 1 : i \in 1 .. n + 1 - (m + 1) + 1 /\ m + 1 + i - 1 = m + i
    OBVIOUS
  <2> QED
    BY <2>1, <2>2
<1> HIDE DEF a, b
<1>5. s[n + 1] \in V
  BY <1>1, <1>2
<1>6. /\ Append(a, s[n + 1]) \in Seq(V) /\ Len(Append(a, s[n + 1])) = n - m + 1
      /\ \A i \in 1 .. n - m : Append(a, s[n + 1])[i] = a[i]
      /\ Append(a, s[n + 1])[n - m + 1] = s[n + 1]
  BY <1>3, <1>5, AppendProperties
<1>7. \A i \in 1 .. n - m + 1 : i \in 1 .. n - m \/ (i = n - m + 1 /\ m + i = n + 1)
  OBVIOUS
<1>8. b = Append(a, s[n + 1])
  BY <1>3, <1>4, <1>6, <1>7, SeqEqual
<1> QED
  BY <1>8 DEF a, b

\* A running process has observed a part of each partition, from where it started.
LEMMA ObservedType ==
    ASSUME DetectorInv, MemoryInv, pc # "down", NEW p \in Partitions
    PROVE  /\ log[Raw][p] \in Seq(ValueType[Raw])
           /\ Len(log[Raw][p]) \in Nat
           /\ since[p] \in Nat /\ Observed(p) \in Nat
           /\ since[p] <= Observed(p) /\ Observed(p) <= Len(log[Raw][p])
           /\ Replayed(p) \in Seq(ValueType[Raw])
<1>1. /\ KafkaTypeOK(ValueType) /\ OneInHand(Raw) /\ Raw \in Topics
      /\ since \in [Partitions -> Nat] /\ since[p] <= Observed(p)
  BY DEF DetectorInv, TypeOK, Topics, MemoryInv, ReadSinceStart
<1>2. /\ log[Raw][p] \in Seq(ValueType[Raw]) /\ Len(log[Raw][p]) \in Nat
      /\ committed[p] \in Nat /\ committed[p] <= Len(log[Raw][p])
  BY <1>1, InputType DEF OneInHand
<1>3. Observed(p) \in Nat /\ Observed(p) <= Len(log[Raw][p])
  <2>1. CASE InHand
    <3>1. /\ msg.partition \in Partitions /\ msg.offset = committed[msg.partition]
          /\ msg.offset < Len(log[Raw][msg.partition])
          /\ position = [committed EXCEPT ![msg.partition] = committed[msg.partition] + 1]
      BY <1>1, <2>1 DEF OneInHand, Messages
    <3>2. committed \in [Partitions -> Nat]
      BY <1>1 DEF KafkaTypeOK
    <3>3. CASE msg.partition = p
      <4>1. Observed(p) = committed[p] \/ Observed(p) = committed[p] + 1
        BY <3>1, <3>2, <3>3 DEF Observed
      <4> QED
        BY <1>2, <3>1, <3>3, <4>1
    <3>4. CASE msg.partition # p
      <4>1. Observed(p) = committed[p]
        BY <3>1, <3>2, <3>4 DEF Observed
      <4> QED
        BY <1>2, <4>1
    <3> QED
      BY <3>3, <3>4
  <2>2. CASE ~ InHand
    <3>1. position = committed
      BY <1>1, <2>2 DEF OneInHand, InHand, KafkaTypeOK, ControlPoints
    <3>2. Observed(p) = committed[p]
      BY <2>2, <3>1 DEF Observed, InHand
    <3> QED
      BY <1>2, <3>2
  <2> QED
    BY <2>1, <2>2
<1>4. since[p] \in Nat
  BY <1>1
<1>5. \A i \in since[p] + 1 .. Observed(p) : log[Raw][p][i] \in ValueType[Raw]
  <2>1. \A i \in since[p] + 1 .. Observed(p) : i \in 1 .. Len(log[Raw][p])
    BY <1>2, <1>3, <1>4
  <2> QED
    BY <1>2, <2>1, ElementOfSeq
<1>6. Replayed(p) \in Seq(ValueType[Raw])
  <2>1. since[p] + 1 \in Int /\ Observed(p) \in Int
    BY <1>3, <1>4
  <2>2. SubSeq(log[Raw][p], since[p] + 1, Observed(p)) \in Seq(ValueType[Raw])
    BY <1>5, <2>1, SubSeqProperties
  <2> QED
    BY <2>2 DEF Replayed
<1> QED
  BY <1>1, <1>2, <1>3, <1>4, <1>6

\* A step that observes nothing: what was observed is where it was.
LEMMA NothingObserved ==
    ASSUME DetectorInv, DetectorInv', MemoryInv, LogGrows, pc # "down", pc' # "down",
           UNCHANGED <<memory, since>>, \A p \in Partitions : Observed(p)' = Observed(p)
    PROVE  MemoryInv'
<1>1. ASSUME NEW p \in Partitions PROVE Replayed(p)' = Replayed(p)
  <2>1. /\ log[Raw][p] \in Seq(ValueType[Raw]) /\ Len(log[Raw][p]) \in Nat
        /\ since[p] \in Nat /\ Observed(p) \in Nat /\ Observed(p) <= Len(log[Raw][p])
    BY ObservedType
  <2>2. log'[Raw][p] \in Seq(ValueType[Raw])
    BY DEF DetectorInv, TypeOK, KafkaTypeOK, Topics
  <2>3. /\ Len(log[Raw][p]) <= Len(log'[Raw][p])
        /\ \A i \in 1 .. Len(log[Raw][p]) : log'[Raw][p][i] = log[Raw][p][i]
    BY DEF LogGrows, Topics
  <2>4. SubSeq(log'[Raw][p], since[p] + 1, Observed(p)) =
           SubSeq(log[Raw][p], since[p] + 1, Observed(p))
    <3> DEFINE V == ValueType[Raw]
               s == log[Raw][p]
               t == log'[Raw][p]
               m == since[p]
               n == Observed(p)
    <3>1. /\ s \in Seq(V) /\ t \in Seq(V) /\ m \in Nat /\ n \in Nat
          /\ n <= Len(s) /\ Len(s) <= Len(t) /\ \A i \in 1 .. Len(s) : t[i] = s[i]
      BY <2>1, <2>2, <2>3
    <3> HIDE DEF V, s, t, m, n
    <3>2. SubSeq(t, m + 1, n) = SubSeq(s, m + 1, n)
      BY <3>1, SubSeqKept
    <3> QED
      BY <3>2 DEF s, t, m, n
  <2>5. since'[p] = since[p] /\ Observed(p)' = Observed(p)
    OBVIOUS
  <2>6. Replayed(p)' = SubSeq(log'[Raw][p], since'[p] + 1, Observed(p)')
    BY DEF Replayed
  <2>7. Replayed(p) = SubSeq(log[Raw][p], since[p] + 1, Observed(p))
    BY DEF Replayed
  <2> QED
    BY <2>4, <2>5, <2>6, <2>7
<1>2. ASSUME NEW c \in Customers PROVE memory'[c] = History(c, Replayed(PartitionOf[c])')
  <2>1. PartitionOf[c] \in Partitions
    BY PartitionOfAssumption
  <2>2. memory[c] = History(c, Replayed(PartitionOf[c]))
    BY DEF MemoryInv, MemoryIsReplay
  <2> QED
    BY <1>1, <2>1, <2>2
<1>3. ReadSinceStart'
  BY DEF MemoryInv, ReadSinceStart
<1> QED
  BY <1>2, <1>3 DEF MemoryInv, MemoryIsReplay

\* A handler observes the message in hand, and nothing else.
LEMMA HandlerObserves ==
    ASSUME DetectorInv, MemoryInv, ScoreTransaction \/ DeadLetterTransaction
    PROVE  /\ msg.partition \in Partitions
           /\ \A p \in Partitions :
                 /\ Observed(p)' = Observed(p) + (IF p = msg.partition THEN 1 ELSE 0)
                 /\ p = msg.partition => Replayed(p)' = Append(Replayed(p), Payload(Raw))
                 /\ p # msg.partition => Replayed(p)' = Replayed(p)
<1> DEFINE q == msg.partition
<1>1. /\ pc = "processing" /\ pc' = "delivering"
      /\ UNCHANGED <<log, msg, position, since>>
  BY DEF ScoreTransaction, DeadLetterTransaction, Produce, detectorVars
<1>2. /\ q \in Partitions /\ msg.offset = committed[q] /\ msg.offset < Len(log[Raw][q])
      /\ position = [committed EXCEPT ![q] = committed[q] + 1]
      /\ committed \in [Partitions -> Nat]
  BY <1>1 DEF DetectorInv, OneInHand, InHand, Messages, TypeOK, KafkaTypeOK
<1>3. ASSUME NEW p \in Partitions, p = q
      PROVE  Observed(p) = msg.offset /\ Observed(p)' = msg.offset + 1
  BY <1>1, <1>2, <1>3 DEF Observed
<1>4. ASSUME NEW p \in Partitions, p # q
      PROVE  Observed(p)' = Observed(p) /\ Observed(p) \in Nat
  <2>1. Observed(p)' = Observed(p) /\ Observed(p) = committed[p]
    BY <1>1, <1>2, <1>4 DEF Observed
  <2> QED
    BY <1>2, <2>1
<1>5. ASSUME NEW p \in Partitions, p # q PROVE Replayed(p)' = Replayed(p)
  BY <1>1, <1>4, <1>5 DEF Replayed
<1>6. ASSUME NEW p \in Partitions, p = q
      PROVE  Replayed(p)' = Append(Replayed(p), Payload(Raw))
  <2>1. /\ log[Raw][p] \in Seq(ValueType[Raw]) /\ since[p] \in Nat
        /\ Observed(p) \in Nat /\ since[p] <= Observed(p)
    BY <1>1, ObservedType
  <2>2. SubSeq(log[Raw][p], since[p] + 1, Observed(p) + 1) =
           Append(SubSeq(log[Raw][p], since[p] + 1, Observed(p)), log[Raw][p][Observed(p) + 1])
    BY <1>2, <1>3, <1>6, <2>1, SubSeqOneMore
  <2>3. Payload(Raw) = log[Raw][p][Observed(p) + 1]
    BY <1>3, <1>6 DEF Payload
  <2>4. Observed(p)' = Observed(p) + 1
    BY <1>3, <1>6
  <2>5. Replayed(p)' = SubSeq(log'[Raw][p], since'[p] + 1, Observed(p)')
    BY DEF Replayed
  <2> QED
    BY <1>1, <2>2, <2>3, <2>4, <2>5 DEF Replayed
<1>7. ASSUME NEW p \in Partitions
      PROVE  /\ Observed(p)' = Observed(p) + (IF p = q THEN 1 ELSE 0)
             /\ p = q => Replayed(p)' = Append(Replayed(p), Payload(Raw))
             /\ p # q => Replayed(p)' = Replayed(p)
  <2>1. CASE p = q
    BY <1>3, <1>6, <2>1
  <2>2. CASE p # q
    BY <1>4, <1>5, <2>2
  <2> QED
    BY <2>1, <2>2
<1> QED
  BY <1>2, <1>7

\* The handler of a transaction puts it into its customer's history, the handler
\* of a message that does not validate leaves the histories alone.
LEMMA HandlersKeepMemory ==
    ASSUME DetectorInv, OrderInv, MemoryInv, ScoreTransaction \/ DeadLetterTransaction
    PROVE  MemoryInv'
<1> DEFINE q == msg.partition
           v == Payload(Raw)
<1>1. pc = "processing" /\ pc' = "delivering" /\ UNCHANGED since
  BY DEF ScoreTransaction, DeadLetterTransaction, Produce, detectorVars
<1>2. /\ q \in Partitions
      /\ \A p \in Partitions :
            /\ Observed(p)' = Observed(p) + (IF p = q THEN 1 ELSE 0)
            /\ p = q => Replayed(p)' = Append(Replayed(p), v)
            /\ p # q => Replayed(p)' = Replayed(p)
  BY HandlerObserves
<1>3. \A p \in Partitions : /\ since[p] \in Nat /\ Observed(p) \in Nat
                            /\ since[p] <= Observed(p)
                            /\ Replayed(p) \in Seq(ValueType[Raw])
  BY <1>1, ObservedType
<1>4. \A c \in Customers : memory[c] = History(c, Replayed(PartitionOf[c]))
  BY <1>1 DEF MemoryInv, MemoryIsReplay
<1>5. \A c \in Customers : Of(c, v) => PartitionOf[c] = q
  BY <1>1, InHandIsPreceded DEF Of, InHand
<1>6. ASSUME NEW c \in Customers
      PROVE  memory'[c] = IF Of(c, v) THEN Observe(memory[c], v) ELSE memory[c]
  <2>1. CASE ScoreTransaction
    <3>1. /\ v \in Events
          /\ memory' = [memory EXCEPT ![v.customer_id] = Observe(memory[v.customer_id], v)]
      BY <2>1 DEF ScoreTransaction
    <3>2. DOMAIN memory = Customers
      BY DEF DetectorInv, TypeOK
    <3> QED
      BY <3>1, <3>2 DEF Of
  <2>2. CASE DeadLetterTransaction
    <3>1. v \notin Events /\ memory' = memory
      BY <2>2, PayloadAssumption DEF DeadLetterTransaction, detectorVars
    <3> QED
      BY <3>1 DEF Of
  <2> QED
    BY <2>1, <2>2
<1> HIDE DEF q, v
<1>7. ASSUME NEW c \in Customers PROVE memory'[c] = History(c, Replayed(PartitionOf[c])')
  <2> DEFINE p == PartitionOf[c]
  <2>1. p \in Partitions /\ Replayed(p) \in Seq(ValueType[Raw])
    BY <1>3, PartitionOfAssumption
  <2> HIDE DEF p
  <2>2. memory[c] = History(c, Replayed(p))
    BY <1>4 DEF p
  <2>3. CASE p = q
    <3>1. Replayed(p)' = Append(Replayed(p), v)
      BY <1>2, <2>1, <2>3
    <3>2. /\ Of(c, v) => History(c, Append(Replayed(p), v)) = Observe(memory[c], v)
          /\ ~ Of(c, v) => History(c, Append(Replayed(p), v)) = memory[c]
      BY <2>1, <2>2, HistoryAppended
    <3> QED
      BY <1>6, <3>1, <3>2 DEF p
  <2>4. CASE p # q
    <3>1. ~ Of(c, v) /\ Replayed(p)' = Replayed(p)
      BY <1>2, <1>5, <2>1, <2>4 DEF p
    <3> QED
      BY <1>6, <2>2, <3>1 DEF p
  <2> QED
    BY <2>3, <2>4
<1>8. ReadSinceStart'
  <2> SUFFICES ASSUME NEW p \in Partitions PROVE since'[p] <= Observed(p)'
    BY DEF ReadSinceStart
  <2>1. Observed(p)' = Observed(p) \/ Observed(p)' = Observed(p) + 1
    BY <1>2, <1>3
  <2> QED
    BY <1>1, <1>3, <2>1
<1> QED
  BY <1>1, <1>7, <1>8 DEF MemoryInv, MemoryIsReplay

\* A process starts with an empty memory, where the last commit was.
LEMMA StartKeepsMemory ==
    ASSUME DetectorInv, MemoryInv, StartDetector
    PROVE  MemoryInv'
<1>1. /\ pc = "down" /\ pc' = "polling"
      /\ position' = committed /\ since' = committed /\ memory' = memory
      /\ UNCHANGED <<log, committed>>
  BY DEF StartDetector, Start
<1>2. ASSUME NEW p \in Partitions
      PROVE  Observed(p)' = committed[p] /\ committed[p] \in Nat /\ Replayed(p)' = <<>>
  <2>1. committed[p] \in Nat
    BY DEF DetectorInv, TypeOK, KafkaTypeOK
  <2>2. Observed(p)' = committed[p]
    BY <1>1 DEF Observed
  <2>3. SubSeq(log[Raw][p], committed[p] + 1, committed[p]) = <<>>
    BY <2>1, SubSeqEmpty
  <2> QED
    BY <1>1, <2>1, <2>2, <2>3 DEF Replayed
<1>3. ASSUME NEW c \in Customers PROVE memory'[c] = History(c, Replayed(PartitionOf[c])')
  <2>1. Replayed(PartitionOf[c])' = <<>>
    BY <1>2, PartitionOfAssumption
  <2>2. memory'[c] = NoHistory
    BY <1>1 DEF MemoryInv, ColdMemory
  <2> QED
    BY <2>1, <2>2, HistoryOfNothing
<1>4. ReadSinceStart'
  BY <1>1, <1>2 DEF ReadSinceStart
<1> QED
  BY <1>1, <1>3, <1>4 DEF MemoryInv, MemoryIsReplay

LEMMA NextKeepsMemory ==
    ASSUME DetectorInv, OrderInv, MemoryInv, [Next]_vars
    PROVE  MemoryInv'
<1>1. DetectorInv' /\ LogGrows
  BY NextKeepsInv, RecordsKept
<1>2. CASE ScoreTransaction \/ DeadLetterTransaction
  BY <1>2, HandlersKeepMemory
<1>3. CASE StartDetector
  BY <1>3, StartKeepsMemory
<1>4. CASE ScoringRaises \/ CloseDetector \/ ExitDetector
  <2>1. pc' = "down" /\ memory' = ColdMemory
    BY <1>4 DEF ScoringRaises, CloseDetector, Close, ExitDetector, FlushTimeout, Crash,
                CountedExit, Exit, Forget
  <2> QED
    BY <2>1 DEF MemoryInv, MemoryIsReplay, ReadSinceStart
<1>5. CASE \E p \in Partitions : PollRaw(p)
  <2>1. PICK p \in Partitions : PollRaw(p)
    BY <1>5
  <2>2. /\ pc = "polling" /\ pc' = "processing" /\ UNCHANGED <<memory, since>>
        /\ msg' = [partition |-> p, offset |-> position[p]]
        /\ position' = [position EXCEPT ![p] = @ + 1]
    BY <2>1 DEF PollRaw, Poll, detectorVars
  <2>3. \A r \in Partitions : Observed(r)' = Observed(r)
    BY <2>2 DEF Observed, DetectorInv, TypeOK, KafkaTypeOK
  <2> QED
    BY <1>1, <2>2, <2>3, NothingObserved
<1>6. CASE FlushOutputs \/ CommitOffset \/ StopDetector
  <2>1. /\ pc # "down" /\ pc' # "down" /\ pc # "processing" /\ pc' # "processing"
        /\ UNCHANGED <<memory, since, position>>
    BY <1>6 DEF FlushOutputs, Flushed, CommitOffset, Commit, StopDetector, Stop, detectorVars
  <2>2. \A p \in Partitions : Observed(p)' = Observed(p)
    BY <2>1 DEF Observed
  <2> QED
    BY <1>1, <2>1, <2>2, NothingObserved
<1>7. CASE Broker \/ Orphans \/ Environment \/ Idle \/ UNCHANGED vars
  <2>1. UNCHANGED <<pc, msg, position, memory, since>>
    BY <1>7 DEF Broker, BrokerAnswers, Deliver, Reject, Orphans, OrphanStep, LateArrival,
                LostRequest, Environment, Ingest, Idle, IdlePoll, vars, kafkaVars,
                detectorVars
  <2>2. \A p \in Partitions : Observed(p)' = Observed(p)
    BY <2>1 DEF Observed
  <2>3. CASE pc = "down"
    BY <2>1, <2>3 DEF MemoryInv, MemoryIsReplay, ReadSinceStart
  <2>4. CASE pc # "down"
    BY <1>1, <2>1, <2>2, <2>4, NothingObserved
  <2> QED
    BY <2>3, <2>4
<1> QED
  BY <1>2, <1>3, <1>4, <1>5, <1>6, <1>7 DEF Next, WorkerStep

LEMMA InitMemory == Init => MemoryInv
BY DEF Init, KafkaInit, MemoryInv, MemoryIsReplay, ReadSinceStart

\* features.py lives and dies with the process: its memory is what the messages
\* since the last start leave in it, a message retried within the process counted
\* once.
THEOREM MemoryIsWhatWasRead == Spec => []MemoryIsReplay
<1>1. MemoryInv => MemoryIsReplay
  BY DEF MemoryInv
<1>2. DetectorInv /\ OrderInv /\ MemoryInv /\ [Next]_vars => MemoryInv'
  BY NextKeepsMemory
<1> QED
  BY <1>1, <1>2, InitOrder, NextKeepsOrder, InitMemory, Invariance, PTL DEF Spec

-----------------------------------------------------------------------------
(* Duplicates: every scoring is paid for. *)

\* What is counted for e is finite.
Countable(e) ==
    /\ IsFiniteSet(Scorings(e)) /\ Cardinality(Scorings(e)) \in Nat
    /\ IsFiniteSet(Ingested(e)) /\ Cardinality(Ingested(e)) \in Nat
    /\ IsFiniteSet(CommittedCopies(e)) /\ Cardinality(CommittedCopies(e)) \in Nat
    /\ IsFiniteSet(Underway(e, outbox)) /\ Cardinality(Underway(e, outbox)) \in Nat
    /\ IsFiniteSet(Underway(e, orphans)) /\ Cardinality(Underway(e, orphans)) \in Nat
    /\ exits \in Nat

LEMMA CountsAreFinite ==
    TypeOK /\ IsFiniteSet(outbox) /\ IsFiniteSet(orphans) => \A e \in Events : Countable(e)
<1> SUFFICES ASSUME TypeOK, IsFiniteSet(outbox), IsFiniteSet(orphans), NEW e \in Events
             PROVE  Countable(e)
  OBVIOUS
<1> DEFINE p == PartitionOf[e.customer_id]
           n == Len(log[Raw][p])
           m == Len(log[Scored][p])
<1>1. p \in Partitions /\ Raw \in Topics /\ Scored \in Topics
  BY EventsAssumption, PartitionOfAssumption DEF Topics
<1> HIDE DEF p
<1>2. n \in Int /\ m \in Int
  BY <1>1, InputType DEF TypeOK
<1>3. /\ Scorings(e) \subseteq 1 .. m /\ Ingested(e) \subseteq 1 .. n
      /\ CommittedCopies(e) \subseteq Ingested(e)
      /\ Underway(e, outbox) \subseteq outbox /\ Underway(e, orphans) \subseteq orphans
  BY DEF Scorings, Ingested, CommittedCopies, Underway, p
<1> HIDE DEF n, m
<1>4. IsFiniteSet(1 .. n) /\ IsFiniteSet(1 .. m)
  BY <1>2, FS_Interval
<1>5. /\ IsFiniteSet(Scorings(e)) /\ IsFiniteSet(Ingested(e))
      /\ IsFiniteSet(Underway(e, outbox)) /\ IsFiniteSet(Underway(e, orphans))
  BY <1>3, <1>4, FS_Subset
<1>6. IsFiniteSet(CommittedCopies(e))
  BY <1>3, <1>5, FS_Subset
<1>7. exits \in Nat
  BY MaxExitsAssumption DEF TypeOK, KafkaTypeOK
<1> QED
  BY <1>5, <1>6, <1>7, FS_CardinalityType DEF Countable

LEMMA CountsStayFinite ==
    TypeOK' /\ IsFiniteSet(outbox)' /\ IsFiniteSet(orphans)' => (\A e \in Events : Countable(e))'
BY CountsAreFinite, PTL

\* Records keep their places, so no commit is uncounted.
LEMMA CommittedCopiesKept ==
    ASSUME DetectorInv, LogGrows, DetectorInv',
           \A p \in Partitions : committed[p] <= committed'[p], NEW e \in Events
    PROVE  CommittedCopies(e) \subseteq CommittedCopies(e)'
<1> DEFINE p == PartitionOf[e.customer_id]
<1>1. p \in Partitions /\ Raw \in Topics
  BY EventsAssumption, PartitionOfAssumption DEF Topics
<1>2. /\ Len(log[Raw][p]) \in Nat /\ committed[p] \in Nat
      /\ Len(log'[Raw][p]) \in Nat /\ committed'[p] \in Nat
  <2> HIDE DEF p
  <2> QED
    BY <1>1 DEF DetectorInv, TypeOK, KafkaTypeOK
<1>3. /\ Len(log[Raw][p]) <= Len(log'[Raw][p]) /\ committed[p] <= committed'[p]
      /\ \A i \in 1 .. Len(log[Raw][p]) : log'[Raw][p][i] = log[Raw][p][i]
  BY <1>1 DEF LogGrows
<1>4. /\ CommittedCopies(e) = {i \in 1 .. Len(log[Raw][p]) : log[Raw][p][i] = e /\ i <= committed[p]}
      /\ CommittedCopies(e)' = {i \in 1 .. Len(log'[Raw][p]) : log'[Raw][p][i] = e /\ i <= committed'[p]}
  BY DEF CommittedCopies, Ingested
<1> HIDE DEF p
<1> QED
  BY <1>2, <1>3, <1>4

\* A request that reaches the broker becomes at most one scoring, and is no
\* longer underway.
LEMMA ArrivalBalances ==
    ASSUME DetectorInv, IsFiniteSet(outbox), IsFiniteSet(orphans), NEW e \in Events,
           NEW Q \in {outbox, orphans}, NEW r \in Q,
           log' = Appended(r.topic, r.partition, r.value)
    PROVE  /\ IsFiniteSet(Scorings(e)') /\ IsFiniteSet(Underway(e, Q \ {r}))
           /\ Cardinality(Scorings(e)') + Cardinality(Underway(e, Q \ {r}))
                 <= Cardinality(Scorings(e)) + Cardinality(Underway(e, Q))
<1> DEFINE p == PartitionOf[e.customer_id]
           n == Len(log[Scored][p])
<1>1. p \in Partitions /\ Scored \in Topics
  BY EventsAssumption, PartitionOfAssumption DEF Topics
<1>2. LogTypeOK(ValueType) /\ IsRequest(r, ValueType)
  BY LogTypes DEF DetectorInv, TypeOK, KafkaTypeOK
<1>3. r.topic \in Topics /\ r.partition \in Partitions
  BY <1>2 DEF IsRequest
<1>4. \A i \in 1 .. Len(log'[Scored][p]) :
         \/ i \in 1 .. n /\ log'[Scored][p][i] = log[Scored][p][i]
         \/ Scored = r.topic /\ p = r.partition /\ i = n + 1 /\ log'[Scored][p][i] = r.value
  <2> HIDE DEF p
  <2> QED
    BY <1>1, <1>2, <1>3, AppendAt
<1>5. /\ IsFiniteSet(Scorings(e)) /\ Cardinality(Scorings(e)) \in Nat
      /\ IsFiniteSet(Underway(e, Q)) /\ Cardinality(Underway(e, Q)) \in Nat
  BY CountsAreFinite DEF DetectorInv, Countable
<1>6. /\ Scorings(e) = {i \in 1 .. n : log[Scored][p][i].event = e}
      /\ Scorings(e)' = {i \in 1 .. Len(log'[Scored][p]) : log'[Scored][p][i].event = e}
  BY DEF Scorings
<1> HIDE DEF p, n
<1>7. CASE r \in Underway(e, Q)
  <2>1. Scorings(e)' \subseteq Scorings(e) \cup {n + 1}
    BY <1>4, <1>6
  <2>2. /\ IsFiniteSet(Scorings(e) \cup {n + 1})
        /\ Cardinality(Scorings(e) \cup {n + 1}) <= Cardinality(Scorings(e)) + 1
    <3> DEFINE S == Scorings(e)
    <3>1. IsFiniteSet(S) /\ Cardinality(S) \in Nat
      BY <1>5
    <3> HIDE DEF S
    <3>2. /\ IsFiniteSet(S \cup {n + 1})
          /\ Cardinality(S \cup {n + 1}) = IF n + 1 \in S THEN Cardinality(S) ELSE Cardinality(S) + 1
      BY <3>1, FS_AddElement
    <3>3. Cardinality(S \cup {n + 1}) <= Cardinality(S) + 1
      BY <3>1, <3>2
    <3> QED
      BY <3>2, <3>3 DEF S
  <2>3. /\ IsFiniteSet(Scorings(e)')
        /\ Cardinality(Scorings(e)') <= Cardinality(Scorings(e) \cup {n + 1})
    BY <2>1, <2>2, FS_Subset
  <2>4. Cardinality(Scorings(e)') \in Nat /\ Cardinality(Scorings(e) \cup {n + 1}) \in Nat
    BY <2>2, <2>3, FS_CardinalityType
  <2>5. Underway(e, Q \ {r}) = Underway(e, Q) \ {r}
    BY DEF Underway
  <2>6. /\ IsFiniteSet(Underway(e, Q \ {r}))
        /\ Cardinality(Underway(e, Q \ {r})) = Cardinality(Underway(e, Q)) - 1
    <3> DEFINE U == Underway(e, Q)
    <3>1. IsFiniteSet(U) /\ r \in U
      BY <1>5, <1>7
    <3> HIDE DEF U
    <3>2. IsFiniteSet(U \ {r}) /\ Cardinality(U \ {r}) = Cardinality(U) - 1
      BY <3>1, FS_RemoveElement
    <3> QED
      BY <2>5, <3>2 DEF U
  <2> QED
    BY <1>5, <2>2, <2>3, <2>4, <2>6
<1>8. CASE r \notin Underway(e, Q)
  <2>1. ~ (r.topic = Scored /\ r.value.event = e)
    BY <1>8 DEF Underway
  <2>2. Scorings(e)' \subseteq Scorings(e)
    BY <1>4, <1>6, <2>1
  <2>3. IsFiniteSet(Scorings(e)') /\ Cardinality(Scorings(e)') <= Cardinality(Scorings(e))
    BY <1>5, <2>2, FS_Subset
  <2>4. Underway(e, Q \ {r}) = Underway(e, Q)
    BY <1>8 DEF Underway
  <2>5. Cardinality(Scorings(e)') \in Nat
    BY <2>3, FS_CardinalityType
  <2> QED
    BY <1>5, <2>3, <2>4, <2>5
<1> QED
  BY <1>7, <1>8

\* Steps of Kafka and of the raw writers, which commit nothing: nothing is
\* underway that was not, and what arrives was.
LEMMA EnvironmentKeepsScorings ==
    ASSUME DetectorInv, OrderInv, ScoringsInv, Broker \/ Orphans \/ Environment
    PROVE  ScoringsInv'
<1>1. /\ DetectorInv' /\ LogGrows /\ TypeOK /\ TypeOK'
      /\ UNCHANGED <<committed, pc, msg, exits>>
  <2>1. [Next]_vars
    BY DEF Next
  <2> QED
    BY <2>1, NextKeepsInv, RecordsKept
       DEF DetectorInv, Broker, BrokerAnswers, Deliver, Reject, Orphans, OrphanStep, LateArrival,
           LostRequest, Environment, Ingest
<1>2. IsFiniteSet(outbox) /\ IsFiniteSet(orphans)
  BY DEF ScoringsInv
<1>3. outbox' \subseteq outbox /\ orphans' \subseteq orphans
  BY DEF Broker, BrokerAnswers, Deliver, Reject, Orphans, OrphanStep, LateArrival,
         LostRequest, Environment, Ingest
<1>4. IsFiniteSet(outbox') /\ IsFiniteSet(orphans')
  BY <1>2, <1>3, FS_Subset
<1>5. ASSUME NEW e \in Events
      PROVE  Cardinality(Scorings(e)') + Cardinality(Underway(e, outbox'))
                + Cardinality(Underway(e, orphans'))
               <= Cardinality(Scorings(e)) + Cardinality(Underway(e, outbox))
                    + Cardinality(Underway(e, orphans))
  <2> DEFINE p == PartitionOf[e.customer_id]
  <2>1. /\ Cardinality(Scorings(e)) \in Nat /\ IsFiniteSet(Scorings(e))
        /\ Cardinality(Underway(e, outbox)) \in Nat /\ IsFiniteSet(Underway(e, outbox))
        /\ Cardinality(Underway(e, orphans)) \in Nat /\ IsFiniteSet(Underway(e, orphans))
    BY <1>1, <1>2, CountsAreFinite DEF Countable
  <2>2. /\ Underway(e, outbox') \subseteq Underway(e, outbox)
        /\ Underway(e, orphans') \subseteq Underway(e, orphans)
    BY <1>3 DEF Underway
  <2>3. /\ Cardinality(Underway(e, outbox')) <= Cardinality(Underway(e, outbox))
        /\ Cardinality(Underway(e, outbox')) \in Nat
        /\ Cardinality(Underway(e, orphans')) <= Cardinality(Underway(e, orphans))
        /\ Cardinality(Underway(e, orphans')) \in Nat
    BY <2>1, <2>2, FS_Subset, FS_CardinalityType
  <2>4. CASE log'[Scored] = log[Scored]
    <3>1. Scorings(e)' = Scorings(e)
      BY <2>4 DEF Scorings
    <3> QED
      BY <2>1, <2>3, <3>1
  <2>5. CASE \E r \in outbox : Deliver(r)
    <3>1. PICK r \in outbox : Deliver(r)
      BY <2>5
    <3>2. /\ log' = Appended(r.topic, r.partition, r.value)
          /\ outbox' = outbox \ {r} /\ orphans' = orphans
      BY <3>1 DEF Deliver
    <3>3. /\ IsFiniteSet(Scorings(e)')
          /\ Cardinality(Scorings(e)') + Cardinality(Underway(e, outbox \ {r}))
                <= Cardinality(Scorings(e)) + Cardinality(Underway(e, outbox))
      BY <1>2, <3>2, ArrivalBalances
    <3>4. Cardinality(Scorings(e)') \in Nat
      BY <3>3, FS_CardinalityType
    <3> QED
      BY <2>1, <2>3, <3>2, <3>3, <3>4
  <2>6. CASE \E r \in orphans : LateArrival(r)
    <3>1. PICK r \in orphans : LateArrival(r)
      BY <2>6
    <3>2. /\ log' = Appended(r.topic, r.partition, r.value)
          /\ orphans' = orphans \ {r} /\ outbox' = outbox
      BY <3>1 DEF LateArrival
    <3>3. /\ IsFiniteSet(Scorings(e)')
          /\ Cardinality(Scorings(e)') + Cardinality(Underway(e, orphans \ {r}))
                <= Cardinality(Scorings(e)) + Cardinality(Underway(e, orphans))
      BY <1>2, <3>2, ArrivalBalances
    <3>4. Cardinality(Scorings(e)') \in Nat
      BY <3>3, FS_CardinalityType
    <3> QED
      BY <2>1, <2>3, <3>2, <3>3, <3>4
  <2>7. CASE Environment
    <3>1. PICK v \in Events \cup Malformed, q \in Partitions : log' = Appended(Raw, q, v)
      BY <2>7 DEF Environment, Ingest
    <3>2. log' = [log EXCEPT ![Raw] = [log[Raw] EXCEPT ![q] = Append(log[Raw][q], v)]]
      BY <3>1 DEF Appended
    <3>3. log'[Scored] = log[Scored]
      BY <3>2, LogTypes DEF DetectorInv, LogTypeOK, Topics, Raw, Scored
    <3> QED
      BY <2>4, <3>3
  <2> QED
    BY <2>4, <2>5, <2>6, <2>7
       DEF Broker, BrokerAnswers, Reject, Orphans, OrphanStep, LostRequest
<1>6. ASSUME NEW e \in Events
      PROVE  /\ Cardinality(CommittedCopies(e)) <= Cardinality(CommittedCopies(e)')
             /\ InDelivery(e)' <=> InDelivery(e)
  <2>1. IsFiniteSet(CommittedCopies(e)')
    BY <1>1, <1>4, CountsStayFinite DEF Countable
  <2>2. CommittedCopies(e) \subseteq CommittedCopies(e)'
    <3>1. \A p \in Partitions : committed[p] <= committed'[p]
      BY <1>1 DEF TypeOK, KafkaTypeOK
    <3> QED
      BY <1>1, <3>1, CommittedCopiesKept
  <2>3. InHand => Payload(Raw)' = Payload(Raw)
    BY <1>1, PayloadKept DEF DetectorInv, TypeOK, Topics
  <2> QED
    BY <1>1, <2>1, <2>2, <2>3, FS_Subset DEF InDelivery, InHand
<1> QED
  <2> SUFFICES ASSUME NEW e \in Events
               PROVE  Cardinality(Scorings(e)') + Cardinality(Underway(e, outbox'))
                         + Cardinality(Underway(e, orphans'))
                        <= Cardinality(CommittedCopies(e)')
                             + (IF InDelivery(e)' THEN 1 ELSE 0) + exits'
    BY <1>4 DEF ScoringsInv
  <2>1. /\ Cardinality(Scorings(e)) \in Nat /\ Cardinality(CommittedCopies(e)) \in Nat
        /\ Cardinality(Underway(e, outbox)) \in Nat
        /\ Cardinality(Underway(e, orphans)) \in Nat /\ exits \in Nat
    BY <1>1, <1>2, CountsAreFinite DEF Countable
  <2>2. /\ Cardinality(Scorings(e)') \in Nat /\ Cardinality(CommittedCopies(e)') \in Nat
        /\ Cardinality(Underway(e, outbox')) \in Nat
        /\ Cardinality(Underway(e, orphans')) \in Nat /\ exits' \in Nat
    BY <1>1, <1>4, CountsStayFinite DEF Countable
  <2>3. Cardinality(Scorings(e)) + Cardinality(Underway(e, outbox))
           + Cardinality(Underway(e, orphans))
          <= Cardinality(CommittedCopies(e)) + (IF InDelivery(e) THEN 1 ELSE 0) + exits
    BY DEF ScoringsInv
  <2> QED
    BY <1>1, <1>5, <1>6, <2>1, <2>2, <2>3

\* The handler of a transaction puts one decision underway, with the message
\* that pays for it in delivery; that of a dead letter puts none.
LEMMA HandlersKeepScorings ==
    ASSUME DetectorInv, ScoringsInv, ScoreTransaction \/ DeadLetterTransaction
    PROVE  ScoringsInv'
<1>1. /\ pc = "processing" /\ pc' = "delivering" /\ outbox = {}
      /\ UNCHANGED <<log, msg, committed, orphans, exits>>
  BY DEF ScoreTransaction, DeadLetterTransaction, Produce, DetectorInv, OutputsIssued
<1>2. Payload(Raw)' = Payload(Raw)
  BY <1>1 DEF Payload
<1>3. IsFiniteSet(outbox') /\
      \A e \in Events : /\ e = Payload(Raw) => Cardinality(Underway(e, outbox')) <= 1
                        /\ e # Payload(Raw) => Cardinality(Underway(e, outbox')) = 0
  <2>1. CASE ScoreTransaction
    <3> DEFINE e == Payload(Raw)
               d == [event |-> e, decision |-> Score(memory[e.customer_id], e),
                     processed_at |-> clock + 1]
               q == PartitionOf[d.event.customer_id]
               scoring == Request(Scored, q, d)
               alert == Request(Alerts, q, d)
    <3>1. outbox' = DecisionRequests(d)
      BY <1>1, <2>1 DEF ScoreTransaction, Produce
    <3>2. outbox' \subseteq {scoring} \cup {alert}
      BY <3>1 DEF DecisionRequests
    <3>3. scoring.topic = Scored /\ alert.topic # Scored /\ scoring.value.event = e
      BY DEF Request, Scored, Alerts
    <3> HIDE DEF scoring, alert, d, e, q
    <3>4. IsFiniteSet(outbox')
      <4>1. IsFiniteSet({scoring}) /\ IsFiniteSet({scoring} \cup {alert})
        BY FS_Singleton, FS_AddElement
      <4> QED
        BY <3>2, <4>1, FS_Subset
    <3>5. ASSUME NEW f \in Events
          PROVE  /\ f = e => Cardinality(Underway(f, outbox')) <= 1
                 /\ f # e => Cardinality(Underway(f, outbox')) = 0
      <4>1. CASE f = e
        <5>1. Underway(f, outbox') \subseteq {scoring}
          BY <3>2, <3>3 DEF Underway
        <5>2. IsFiniteSet({scoring}) /\ Cardinality({scoring}) = 1
          BY FS_Singleton
        <5>3. Cardinality(Underway(f, outbox')) <= Cardinality({scoring})
          BY <5>1, <5>2, FS_Subset
        <5> QED
          BY <4>1, <5>2, <5>3
      <4>2. CASE f # e
        <5>1. Underway(f, outbox') = {}
          BY <3>2, <3>3, <4>2 DEF Underway
        <5> QED
          BY <4>2, <5>1, FS_EmptySet
      <4> QED
        BY <4>1, <4>2
    <3> QED
      BY <3>4, <3>5 DEF e
  <2>2. CASE DeadLetterTransaction
    <3> DEFINE r == Request(DeadLetter, DeadLetterPartition, Payload(Raw))
    <3>1. outbox' = {r}
      BY <1>1, <2>2 DEF DeadLetterTransaction, Produce
    <3>2. r.topic # Scored
      BY DEF Request, DeadLetter, Scored
    <3> HIDE DEF r
    <3>3. IsFiniteSet(outbox')
      BY <3>1, FS_Singleton
    <3>4. \A e \in Events : Underway(e, outbox') = {}
      BY <3>1, <3>2 DEF Underway
    <3> QED
      BY <3>3, <3>4, FS_EmptySet
  <2> QED
    BY <2>1, <2>2
<1>4. TypeOK /\ TypeOK' /\ IsFiniteSet(orphans') /\ IsFiniteSet(orphans) /\ IsFiniteSet(outbox)
  <2>1. [Next]_vars
    BY DEF Next, WorkerStep
  <2> QED
    BY <1>1, <2>1, NextKeepsInv DEF ScoringsInv, DetectorInv
<1>5. ASSUME NEW e \in Events
      PROVE  Cardinality(Scorings(e)') + Cardinality(Underway(e, outbox'))
                + Cardinality(Underway(e, orphans'))
               <= Cardinality(CommittedCopies(e)') + (IF InDelivery(e)' THEN 1 ELSE 0) + exits'
  <2>1. Countable(e) /\ Countable(e)'
    BY <1>3, <1>4, CountsAreFinite, CountsStayFinite
  <2>2. Scorings(e)' = Scorings(e) /\ CommittedCopies(e)' = CommittedCopies(e)
    BY <1>1 DEF Scorings, CommittedCopies, Ingested
  <2>3. ~ InDelivery(e) /\ (InDelivery(e)' <=> e = Payload(Raw))
    BY <1>1, <1>2 DEF InDelivery
  <2>4. Cardinality(Scorings(e)) + Cardinality(Underway(e, outbox))
           + Cardinality(Underway(e, orphans))
          <= Cardinality(CommittedCopies(e)) + 0 + exits
    BY <2>3 DEF ScoringsInv
  <2>5. Cardinality(Underway(e, outbox')) <= (IF InDelivery(e)' THEN 1 ELSE 0)
    BY <1>3, <2>3
  <2> QED
    BY <1>1, <2>1, <2>2, <2>4, <2>5 DEF Countable
<1> QED
  BY <1>3, <1>4, <1>5 DEF ScoringsInv

\* A commit pays for the scoring of its message.
LEMMA CommitKeepsScorings ==
    ASSUME DetectorInv, OrderInv, ScoringsInv, CommitOffset
    PROVE  ScoringsInv'
<1> DEFINE q == msg.partition
<1>1. /\ DetectorInv' /\ LogGrows /\ TypeOK /\ TypeOK'
      /\ pc = "committing" /\ pc' = "polling"
      /\ UNCHANGED <<log, outbox, orphans, exits>>
      /\ committed' = [committed EXCEPT ![q] = committed[q] + 1]
  <2>1. [Next]_vars
    BY DEF Next, WorkerStep
  <2> QED
    BY <2>1, NextKeepsInv, RecordsKept, CommitKeepsInv
       DEF DetectorInv, CommitOffset, Commit
<1>2. /\ q \in Partitions /\ msg.offset = committed[q]
      /\ committed[q] \in Nat /\ Len(log[Raw][q]) \in Nat /\ msg.offset < Len(log[Raw][q])
      /\ committed \in [Partitions -> Nat]
  BY <1>1 DEF DetectorInv, OneInHand, InHand, Messages, TypeOK, KafkaTypeOK, Topics
<1>3. IsFiniteSet(outbox) /\ IsFiniteSet(orphans) /\ IsFiniteSet(outbox') /\ IsFiniteSet(orphans')
  BY <1>1 DEF ScoringsInv
<1>4. ASSUME NEW e \in Events
      PROVE  Cardinality(CommittedCopies(e)) + (IF InDelivery(e) THEN 1 ELSE 0)
               <= Cardinality(CommittedCopies(e)')
  <2>1. Countable(e) /\ Countable(e)'
    BY <1>1, <1>3, CountsAreFinite, CountsStayFinite
  <2>2. CommittedCopies(e) \subseteq CommittedCopies(e)'
    <3>1. \A p \in Partitions : committed[p] <= committed'[p]
      BY <1>1, <1>2
    <3> QED
      BY <1>1, <3>1, CommittedCopiesKept
  <2>3. CASE InDelivery(e)
    <3> DEFINE C == CommittedCopies(e)
    <3>1. e = log[Raw][q][committed[q] + 1] /\ q = PartitionOf[e.customer_id]
      BY <1>1, <1>2, <2>3, InHandIsPreceded DEF InDelivery, Payload, InHand
    <3>p. PICK p \in Partitions : p = q
      BY <1>2
    <3>i. PICK i \in Nat : i = committed[p] + 1
      BY <1>2, <3>p
    <3>a. /\ p = PartitionOf[e.customer_id] /\ i \in 1 .. Len(log[Raw][p]) /\ log[Raw][p][i] = e
          /\ ~ (i <= committed[p]) /\ i <= committed'[p] /\ log' = log
      <4>1. p = PartitionOf[e.customer_id] /\ log[Raw][p][i] = e
        BY <3>1, <3>p, <3>i
      <4>2. i \in 1 .. Len(log[Raw][p]) /\ ~ (i <= committed[p])
        BY <1>2, <3>p, <3>i
      <4>3. committed'[p] = i /\ log' = log
        BY <1>1, <1>2, <3>p, <3>i
      <4> QED
        BY <4>1, <4>2, <4>3
    <3>b. i \in CommittedCopies(e)'
      <4>1. i \in 1 .. Len(log'[Raw][p]) /\ log'[Raw][p][i] = e
        BY <3>a
      <4>2. p = PartitionOf[e.customer_id] /\ i <= committed'[p]
        BY <3>a
      <4> QED
        BY <4>1, <4>2 DEF CommittedCopies, Ingested
    <3>2. i \in CommittedCopies(e)' /\ i \notin C
      BY <3>a, <3>b DEF CommittedCopies
    <3>3. IsFiniteSet(C) /\ Cardinality(C) \in Nat
      BY <2>1 DEF Countable
    <3>4. C \cup {i} \subseteq CommittedCopies(e)'
      BY <2>2, <3>2
    <3> HIDE DEF C
    <3>5. Cardinality(C \cup {i}) = Cardinality(C) + 1
      BY <3>2, <3>3, FS_AddElement
    <3>6. Cardinality(C \cup {i}) <= Cardinality(CommittedCopies(e)')
      BY <2>1, <3>4, FS_Subset DEF Countable
    <3> QED
      BY <2>3, <3>5, <3>6 DEF C
  <2>4. CASE ~ InDelivery(e)
    <3>1. Cardinality(CommittedCopies(e)) <= Cardinality(CommittedCopies(e)')
      BY <2>1, <2>2, FS_Subset DEF Countable
    <3> QED
      BY <2>1, <2>4, <3>1 DEF Countable
  <2> QED
    BY <2>3, <2>4
<1>5. ASSUME NEW e \in Events
      PROVE  Cardinality(Scorings(e)') + Cardinality(Underway(e, outbox'))
                + Cardinality(Underway(e, orphans'))
               <= Cardinality(CommittedCopies(e)') + (IF InDelivery(e)' THEN 1 ELSE 0) + exits'
  <2>1. Countable(e) /\ Countable(e)'
    BY <1>1, <1>3, CountsAreFinite, CountsStayFinite
  <2>2. Scorings(e)' = Scorings(e) /\ ~ InDelivery(e)'
    BY <1>1 DEF Scorings, InDelivery
  <2>3. Cardinality(Scorings(e)) + Cardinality(Underway(e, outbox))
           + Cardinality(Underway(e, orphans))
          <= Cardinality(CommittedCopies(e)) + (IF InDelivery(e) THEN 1 ELSE 0) + exits
    BY DEF ScoringsInv
  <2> QED
    BY <1>1, <1>4, <2>1, <2>2, <2>3 DEF Countable
<1> QED
  BY <1>3, <1>5 DEF ScoringsInv

\* An exit pays for the scoring that is in delivery when it happens; what was
\* underway stays so.
LEMMA ExitKeepsScorings ==
    ASSUME DetectorInv, ScoringsInv, ScoringRaises \/ CloseDetector \/ ExitDetector
    PROVE  ScoringsInv'
<1>1. /\ pc' = "down" /\ UNCHANGED <<log, committed>>
      /\ orphans' = orphans \cup outbox /\ outbox' = {}
  BY DEF ScoringRaises, CloseDetector, Close, ExitDetector, FlushTimeout, Crash,
         CountedExit, Exit
<1>2. exits' = exits + 1 \/ (exits' = exits /\ pc = "processing")
  BY DEF ScoringRaises, CloseDetector, Close, ExitDetector, FlushTimeout, Crash, CountedExit
<1>3. /\ IsFiniteSet(outbox) /\ IsFiniteSet(orphans)
      /\ IsFiniteSet(outbox') /\ IsFiniteSet(orphans')
  BY <1>1, FS_Union, FS_EmptySet DEF ScoringsInv
<1>4. TypeOK /\ TypeOK'
  <2>1. [Next]_vars
    BY DEF Next, WorkerStep
  <2> QED
    BY <2>1, NextKeepsInv DEF DetectorInv
<1>5. ASSUME NEW e \in Events
      PROVE  Cardinality(Scorings(e)') + Cardinality(Underway(e, outbox'))
                + Cardinality(Underway(e, orphans'))
               <= Cardinality(CommittedCopies(e)') + (IF InDelivery(e)' THEN 1 ELSE 0) + exits'
  <2> DEFINE A == Underway(e, outbox)
             B == Underway(e, orphans)
  <2>1. Countable(e) /\ Countable(e)'
    BY <1>3, <1>4, CountsAreFinite, CountsStayFinite
  <2>2. /\ Scorings(e)' = Scorings(e) /\ CommittedCopies(e)' = CommittedCopies(e)
        /\ ~ InDelivery(e)'
    BY <1>1 DEF Scorings, CommittedCopies, Ingested, InDelivery
  <2>3. Underway(e, outbox') = {} /\ Underway(e, orphans') = B \cup A
    BY <1>1 DEF Underway
  <2>4. /\ IsFiniteSet(A) /\ Cardinality(A) \in Nat
        /\ IsFiniteSet(B) /\ Cardinality(B) \in Nat
    BY <2>1 DEF Countable
  <2>5. Cardinality(Scorings(e)) + Cardinality(A) + Cardinality(B)
          <= Cardinality(CommittedCopies(e)) + (IF InDelivery(e) THEN 1 ELSE 0) + exits
    BY DEF ScoringsInv
  <2>6. (IF InDelivery(e) THEN 1 ELSE 0) + exits <= exits'
    BY <1>2, <2>1 DEF InDelivery, Countable
  <2> HIDE DEF A, B
  <2>7. Cardinality(B \cup A) <= Cardinality(B) + Cardinality(A) /\ Cardinality(B \cup A) \in Nat
    <3>1. /\ IsFiniteSet(B \cup A)
          /\ Cardinality(B \cup A) = Cardinality(B) + Cardinality(A) - Cardinality(B \cap A)
      BY <2>4, FS_Union
    <3>2. Cardinality(B \cap A) \in Nat /\ Cardinality(B \cup A) \in Nat
      BY <2>4, <3>1, FS_Intersection, FS_CardinalityType
    <3> QED
      BY <2>4, <3>1, <3>2
  <2>8. Cardinality({}) = 0
    BY FS_EmptySet
  <2>9. /\ Cardinality(Scorings(e)) \in Nat /\ Cardinality(CommittedCopies(e)) \in Nat
        /\ exits \in Nat /\ exits' \in Nat
    BY <2>1 DEF Countable
  <2> QED
    BY <2>2, <2>3, <2>4, <2>5, <2>6, <2>7, <2>8, <2>9
<1> QED
  BY <1>3, <1>5 DEF ScoringsInv

\* The other steps of the loop leave what is counted alone.
LEMMA LoopKeepsScorings ==
    ASSUME ScoringsInv,
           \/ StartDetector \/ (\E p \in Partitions : PollRaw(p)) \/ FlushOutputs
           \/ StopDetector \/ Idle \/ UNCHANGED vars
    PROVE  ScoringsInv'
<1>1. /\ UNCHANGED <<log, committed, outbox, orphans, exits>>
      /\ \/ UNCHANGED <<pc, msg>>
         \/ UNCHANGED msg /\ pc = "delivering" /\ pc' = "committing"
         \/ pc \notin {"delivering", "committing"} /\ pc' \notin {"delivering", "committing"}
  BY DEF StartDetector, Start, PollRaw, Poll, FlushOutputs, Flushed, StopDetector, Stop, Idle,
         IdlePoll, vars, kafkaVars
<1>2. ASSUME NEW e \in Events
      PROVE  /\ Scorings(e)' = Scorings(e) /\ CommittedCopies(e)' = CommittedCopies(e)
             /\ InDelivery(e)' <=> InDelivery(e)
  BY <1>1 DEF Scorings, CommittedCopies, Ingested, InDelivery, Payload
<1> QED
  BY <1>1, <1>2 DEF ScoringsInv

LEMMA NextKeepsScorings ==
    ASSUME DetectorInv, OrderInv, ScoringsInv, [Next]_vars
    PROVE  ScoringsInv'
BY EnvironmentKeepsScorings, HandlersKeepScorings, CommitKeepsScorings, ExitKeepsScorings,
   LoopKeepsScorings DEF Next, WorkerStep

LEMMA InitScorings == Init => ScoringsInv
<1> SUFFICES ASSUME Init, NEW e \in Events
             PROVE  /\ Cardinality(Scorings(e)) = 0
                    /\ Cardinality(Underway(e, {})) = 0
                    /\ Cardinality(CommittedCopies(e)) = 0
                    /\ ~ InDelivery(e)
  BY FS_EmptySet DEF Init, KafkaInit, ScoringsInv
<1>1. PartitionOf[e.customer_id] \in Partitions
  BY EventsAssumption, PartitionOfAssumption
<1>2. Scorings(e) = {} /\ CommittedCopies(e) = {} /\ Underway(e, {}) = {}
  BY <1>1 DEF Init, KafkaInit, Topics, Scorings, CommittedCopies, Ingested, Underway
<1> QED
  BY <1>2, FS_EmptySet DEF Init, KafkaInit, InDelivery

\* detector.py is at-least-once, and only exits of its process make it more than
\* once: a transaction is scored at most once per copy in transactions.raw, and
\* once more per exit.
THEOREM OnlyExitsDuplicate == Spec => []DuplicatesOnlyFromExits
<1>1. ASSUME DetectorInv, OrderInv, ScoringsInv, NEW e \in Events
      PROVE  Cardinality(CommittedCopies(e)) + (IF InDelivery(e) THEN 1 ELSE 0)
               <= Cardinality(Ingested(e))
  <2> DEFINE C == CommittedCopies(e)
             i == msg.offset + 1
  <2>1. Countable(e) /\ C \subseteq Ingested(e)
    BY <1>1, CountsAreFinite DEF DetectorInv, ScoringsInv, CommittedCopies
  <2>2. CASE InDelivery(e)
    <3>1. /\ e = log[Raw][msg.partition][i] /\ msg.partition = PartitionOf[e.customer_id]
          /\ i \in 1 .. Len(log[Raw][msg.partition])
          /\ msg.offset = committed[msg.partition] /\ committed[msg.partition] \in Nat
      BY <1>1, <2>2, InHandIsPreceded, PayloadInLog
         DEF InDelivery, Payload, InHand, DetectorInv, TypeOK, KafkaTypeOK, OneInHand, Topics
    <3>2. i \in Ingested(e) /\ i \notin C
      <4>1. i \in Ingested(e)
        BY <3>1 DEF Ingested
      <4>2. /\ committed[PartitionOf[e.customer_id]] \in Nat
            /\ msg.offset = committed[PartitionOf[e.customer_id]]
        BY <3>1
      <4>3. ~ (i <= committed[PartitionOf[e.customer_id]])
        BY <4>2
      <4> QED
        BY <4>1, <4>3 DEF CommittedCopies
    <3>3. C \cup {i} \subseteq Ingested(e)
      BY <2>1, <3>2
    <3> HIDE DEF C, i
    <3>4. Cardinality(C \cup {i}) = Cardinality(C) + 1
      BY <2>1, <3>2, FS_AddElement DEF Countable, C
    <3>5. Cardinality(C \cup {i}) <= Cardinality(Ingested(e))
      BY <2>1, <3>3, FS_Subset DEF Countable
    <3> QED
      BY <2>2, <3>4, <3>5 DEF C
  <2>3. CASE ~ InDelivery(e)
    <3>1. Cardinality(C) <= Cardinality(Ingested(e))
      BY <2>1, FS_Subset DEF Countable
    <3> QED
      BY <2>1, <2>3, <3>1 DEF Countable
  <2> QED
    BY <2>2, <2>3
<1>2. DetectorInv /\ OrderInv /\ ScoringsInv => DuplicatesOnlyFromExits
  <2> SUFFICES ASSUME DetectorInv, OrderInv, ScoringsInv, NEW e \in Events
               PROVE  Cardinality(Scorings(e)) <= Cardinality(Ingested(e)) + exits
    BY DEF DuplicatesOnlyFromExits
  <2>1. Countable(e)
    BY CountsAreFinite DEF DetectorInv, ScoringsInv
  <2>2. Cardinality(Scorings(e)) + Cardinality(Underway(e, outbox))
           + Cardinality(Underway(e, orphans))
          <= Cardinality(CommittedCopies(e)) + (IF InDelivery(e) THEN 1 ELSE 0) + exits
    BY DEF ScoringsInv
  <2> QED
    BY <1>1, <2>1, <2>2 DEF Countable
<1>3. DetectorInv /\ OrderInv /\ ScoringsInv /\ [Next]_vars => ScoringsInv'
  BY NextKeepsScorings
<1> QED
  BY <1>2, <1>3, InitOrder, NextKeepsOrder, InitScorings, Invariance, PTL DEF Spec

-----------------------------------------------------------------------------
(* What is published. *)

\* The decisions of all detectors are decisions.
LEMMA PublishedType == ASSUME TypeOK PROVE Published \subseteq Decisions
<1>1. Scored \in Topics /\ ValueType[Scored] = Decisions
  BY DEF Topics, ValueType, Scored, Raw, DeadLetter
<1>2. InLog(Scored) \subseteq Decisions
  BY <1>1 DEF TypeOK, KafkaTypeOK, InLog
<1>3. rejected[Scored] \subseteq Decisions
  BY <1>1 DEF TypeOK, KafkaTypeOK
<1>4. ASSUME NEW r \in outbox \cup orphans, r.topic = Scored PROVE r.value \in Decisions
  BY <1>1, <1>4 DEF TypeOK, KafkaTypeOK, IsRequest
<1> QED
  BY <1>2, <1>3, <1>4 DEF Published

\* The answers of the broker and the orphans publish nothing new.
LEMMA KafkaPublishesNothing ==
    ASSUME DetectorInv, Broker \/ Orphans
    PROVE  Published' \subseteq Published
<1>1. LogTypeOK(ValueType) /\ Scored \in Topics
  BY LogTypes DEF DetectorInv, Topics
<1>2. ASSUME NEW r \in outbox \cup orphans,
             Deliver(r) \/ Reject(r) \/ LateArrival(r) \/ LostRequest(r)
      PROVE  Published' \subseteq Published
  <2>1. IsRequest(r, ValueType) /\ DOMAIN rejected = Topics
    BY <1>2 DEF DetectorInv, TypeOK, KafkaTypeOK
  <2>2. outbox' \subseteq outbox /\ orphans' \subseteq orphans
    BY <1>2 DEF Deliver, Reject, LateArrival, LostRequest
  <2>3. ASSUME NEW d \in rejected'[Scored] PROVE d \in Published
    <3>1. CASE UNCHANGED rejected
      BY <2>3, <3>1 DEF Published
    <3>2. CASE rejected' = [rejected EXCEPT ![r.topic] = @ \cup {r.value}]
      <4>1. d \in rejected[Scored] \/ (r.topic = Scored /\ d = r.value)
        BY <2>1, <2>3, <3>2
      <4> QED
        BY <1>2, <4>1 DEF Published
    <3> QED
      BY <1>2, <3>1, <3>2 DEF Deliver, Reject, LateArrival, LostRequest
  <2>4. ASSUME NEW d \in InLog(Scored)' PROVE d \in Published
    <3>1. CASE UNCHANGED log
      BY <2>4, <3>1 DEF InLog, Published
    <3>2. CASE log' = Appended(r.topic, r.partition, r.value)
      <4>1. d \in InLog(Scored) \/ (Scored = r.topic /\ d = r.value)
        BY <1>1, <2>1, <2>4, <3>2, AppendInLog DEF IsRequest
      <4> QED
        BY <1>2, <4>1 DEF Published
    <3> QED
      BY <1>2, <3>1, <3>2 DEF Deliver, Reject, LateArrival, LostRequest
  <2> QED
    BY <2>2, <2>3, <2>4 DEF Published
<1> QED
  BY <1>2 DEF Broker, BrokerAnswers, Orphans, OrphanStep

\* Only a scoring publishes.
LEMMA OthersPublishNothing ==
    ASSUME DetectorInv, [Next]_vars, ~ ScoreTransaction
    PROVE  Published' \subseteq Published /\ clock' = clock
<1>1. CASE Broker \/ Orphans
  BY <1>1, KafkaPublishesNothing DEF Broker, Orphans, detectorVars
<1>2. CASE Environment
  <2>1. PICK v \in Events \cup Malformed, p \in Partitions : Ingest(v, p)
    BY <1>2 DEF Environment
  <2>2. LogTypeOK(ValueType) /\ Raw \in Topics /\ Scored \in Topics /\ Scored # Raw
    BY LogTypes DEF DetectorInv, Topics, Scored, Raw
  <2>3. InLog(Scored)' \subseteq InLog(Scored)
    BY <2>1, <2>2, AppendInLog DEF Ingest
  <2> QED
    BY <2>1, <2>3 DEF Ingest, Published, detectorVars
<1>3. CASE DeadLetterTransaction
  <2>1. /\ UNCHANGED <<log, rejected, orphans, clock>>
        /\ outbox' = outbox
             \cup {Request(DeadLetter, DeadLetterPartition, Payload(Raw))}
    BY <1>3 DEF DeadLetterTransaction, Produce, detectorVars
  <2>2. Request(DeadLetter, DeadLetterPartition, Payload(Raw)).topic # Scored
    BY DEF Request, DeadLetter, Scored
  <2> QED
    BY <2>1, <2>2 DEF Published, InLog
<1>4. CASE \/ StartDetector \/ (\E p \in Partitions : PollRaw(p)) \/ ScoringRaises
           \/ FlushOutputs \/ CommitOffset \/ CloseDetector \/ ExitDetector
           \/ StopDetector \/ Idle \/ UNCHANGED vars
  <2>1. UNCHANGED <<log, rejected, clock>> /\ outbox' \cup orphans' = outbox \cup orphans
    BY <1>4 DEF StartDetector, Start, PollRaw, Poll, ScoringRaises, Exit, FlushOutputs,
                Flushed, CommitOffset, Commit, CloseDetector, Close, CountedExit,
                ExitDetector, FlushTimeout, Crash, StopDetector, Stop, Idle, IdlePoll,
                vars, kafkaVars, detectorVars, Forget
  <2> QED
    BY <2>1 DEF Published, InLog
<1> QED
  BY <1>1, <1>2, <1>3, <1>4 DEF Next, WorkerStep

\* A scoring publishes one decision, with a time of its own.
LEMMA ScorePublishes ==
    ASSUME DetectorInv, ScoreTransaction
    PROVE  \E d \in Decisions :
              /\ d.event = Payload(Raw) /\ d.processed_at = clock + 1 /\ clock' = clock + 1
              /\ Published' \subseteq Published \cup {d}
              /\ d \in Issued'[Scored]
              /\ d.decision = "approve" \/ d \in Issued'[Alerts]
<1> DEFINE e == Payload(Raw)
           d == [event |-> e, decision |-> Score(memory[e.customer_id], e),
                 processed_at |-> clock + 1]
<1>1. /\ e \in Events /\ Produce(DecisionRequests(d)) /\ clock' = clock + 1
  BY DEF ScoreTransaction
<1>2. d \in Decisions
  BY <1>1, ScoreIsOutcome DEF DetectorInv, TypeOK, Decisions
<1>3. d.event = e /\ d.processed_at = clock + 1
  OBVIOUS
<1> HIDE DEF d
<1>4. UNCHANGED <<log, rejected, orphans>> /\ outbox' = outbox \cup DecisionRequests(d)
  BY <1>1 DEF Produce
<1>5. /\ \A r \in DecisionRequests(d) : r.value = d
      /\ Request(Scored, PartitionOf[d.event.customer_id], d) \in DecisionRequests(d)
      /\ d.decision # "approve" =>
            Request(Alerts, PartitionOf[d.event.customer_id], d) \in DecisionRequests(d)
  BY DEF DecisionRequests, Request
<1>6. Published' \subseteq Published \cup {d}
  BY <1>4, <1>5 DEF Published, InLog
<1>7. ASSUME NEW t \in Topics, NEW p, Request(t, p, d) \in DecisionRequests(d)
      PROVE  d \in Issued'[t]
  <2>1. Request(t, p, d) \in outbox' /\ Request(t, p, d).topic = t /\ Request(t, p, d).value = d
    BY <1>4, <1>7 DEF Request
  <2>2. d \in Queued(t)'
    BY <2>1 DEF Queued
  <2> QED
    BY <2>2 DEF Issued
<1>8. d \in Issued'[Scored] /\ (d.decision = "approve" \/ d \in Issued'[Alerts])
  BY <1>5, <1>7 DEF Topics
<1> QED
  BY <1>1, <1>2, <1>3, <1>6, <1>8

\* What the steps keep: what has settled, and, while a message is being flushed
\* and committed, what was issued for it.
LEMMA OutputsKept ==
    ASSUME DetectorInv, DetectorInv', [Next]_vars
    PROVE  /\ LogGrows
           /\ \A t \in Topics : Settled[t] \subseteq Settled'[t]
           /\ pc' \in {"delivering", "committing"} =>
                 \/ ScoreTransaction \/ DeadLetterTransaction
                 \/ /\ pc \in {"delivering", "committing"} /\ UNCHANGED msg
                    /\ \A t \in Topics : Issued[t] \subseteq Issued'[t]
<1>1. LogTypeOK(ValueType) /\ LogTypeOK(ValueType)'
  BY LogTypes DEF DetectorInv
<1>2. LogGrows
  BY <1>1, NextGrowsLog, LogUnchanged DEF vars, kafkaVars
<1>3. \A t \in Topics : InLog(t) \subseteq InLog(t)'
  BY <1>1, <1>2, LogInLog
<1>4. CASE Broker \/ Orphans
  <2>1. /\ \A t \in Topics : rejected[t] \subseteq rejected'[t]
        /\ \A t \in Topics : Issued[t] \subseteq Issued'[t]
    BY <1>4, BrokerAnswersOK, OrphanStepOK
       DEF Broker, Orphans, OrphanStep, LateArrival, LostRequest, DetectorInv, TypeOK
  <2>2. UNCHANGED <<pc, msg>>
    BY <1>4 DEF Broker, BrokerAnswers, Deliver, Reject, Orphans, OrphanStep, LateArrival,
                LostRequest
  <2> QED
    BY <1>2, <1>3, <2>1, <2>2 DEF Settled
<1>5. CASE ScoreTransaction \/ DeadLetterTransaction
  <2>1. UNCHANGED rejected
    BY <1>5 DEF ScoreTransaction, DeadLetterTransaction, Produce
  <2> QED
    BY <1>2, <1>3, <1>5, <2>1 DEF Settled
<1>6. CASE Environment \/ FlushOutputs \/ Idle \/ UNCHANGED vars
  <2>1. /\ UNCHANGED <<rejected, outbox, msg>>
        /\ pc' \in {"delivering", "committing"} => pc \in {"delivering", "committing"}
    BY <1>6 DEF Environment, Ingest, FlushOutputs, Flushed, Idle, IdlePoll, vars, kafkaVars
  <2> QED
    BY <1>2, <1>3, <2>1 DEF Settled, Issued, Queued
<1>7. CASE \/ StartDetector \/ (\E p \in Partitions : PollRaw(p)) \/ ScoringRaises
           \/ CommitOffset \/ CloseDetector \/ ExitDetector \/ StopDetector
  <2>1. UNCHANGED rejected /\ pc' \notin {"delivering", "committing"}
    BY <1>7 DEF StartDetector, Start, PollRaw, Poll, ScoringRaises, Exit, CommitOffset,
                Commit, CloseDetector, Close, CountedExit, ExitDetector, FlushTimeout,
                Crash, StopDetector, Stop
  <2> QED
    BY <1>2, <1>3, <2>1 DEF Settled
<1> QED
  BY <1>4, <1>5, <1>6, <1>7 DEF Next, WorkerStep

-----------------------------------------------------------------------------
(* Retries supersede: the detector's half of the pipeline's invariant. *)

\* More outputs, and no further decision on e: its newest stays out.
LEMMA NewestKept ==
    ASSUME NEW e, NEW all, NEW more, NEW A, NEW B,
           \A c \in more : c.event = e => c \in all,
           \A t \in Topics : A[t] \subseteq B[t],
           NewestIsOut(e, all, A)
    PROVE  NewestIsOut(e, more, B)
BY DEF NewestIsOut, Topics

\* While nothing is committed, only a transaction that was ingested and all
\* committed before is so after the step.
LEMMA CommittedBefore ==
    ASSUME DetectorInv, DetectorInv', LogGrows, UNCHANGED committed, NEW e,
           e \in InLog(Raw)', ~ Uncommitted(e)'
    PROVE  e \in InLog(Raw) /\ ~ Uncommitted(e)
<1>1. KafkaTypeOK(ValueType) /\ KafkaTypeOK(ValueType)' /\ Raw \in Topics /\ OneInHand(Raw)
  BY DEF DetectorInv, TypeOK, Topics
<1>2. ASSUME NEW p \in Partitions
      PROVE  /\ committed[p] \in Nat /\ Len(log[Raw][p]) \in Nat /\ Len(log'[Raw][p]) \in Nat
             /\ committed[p] <= Len(log[Raw][p]) /\ Len(log[Raw][p]) <= Len(log'[Raw][p])
  BY <1>1, InputType DEF OneInHand, LogGrows
<1>3. ~ Uncommitted(e)
  <2> SUFFICES ASSUME NEW p \in Partitions, NEW i \in committed[p] + 1 .. Len(log[Raw][p]),
                      log[Raw][p][i] = e
               PROVE  Uncommitted(e)'
    BY DEF Uncommitted
  <2>1. i \in 1 .. Len(log[Raw][p]) /\ i \in committed'[p] + 1 .. Len(log'[Raw][p])
    BY <1>2
  <2>2. log'[Raw][p][i] = e
    BY <1>1, <2>1 DEF LogGrows
  <2> QED
    BY <2>1, <2>2 DEF Uncommitted
<1>4. e \in InLog(Raw)
  <2>1. PICK p \in Partitions : \E i \in 1 .. Len(log'[Raw][p]) : e = log'[Raw][p][i]
    BY DEF InLog
  <2>2. PICK i \in 1 .. Len(log'[Raw][p]) : e = log'[Raw][p][i]
    BY <2>1
  <2>3. i \in 1 .. committed[p]
    BY <1>2, <2>2 DEF Uncommitted
  <2>4. log[Raw][p][i] = e /\ i \in 1 .. Len(log[Raw][p])
    BY <1>1, <1>2, <2>2, <2>3, CommittedRecordKept
  <2> QED
    BY <2>4 DEF InLog
<1> QED
  BY <1>3, <1>4

\* A step that neither scores nor commits.
LEMMA OthersKeepSupersede ==
    ASSUME DetectorInv, DetectorInv', [Next]_vars, RetriesSupersede,
           ~ ScoreTransaction, ~ CommitOffset
    PROVE  RetriesSupersede'
<1>1. Published' \subseteq Published
  BY OthersPublishNothing
<1>2. UNCHANGED committed
  BY OnlyCommitCommits
<1>3. ASSUME NEW e \in Events, e \in InLog(Raw)', ~ Uncommitted(e)'
      PROVE  NewestIsOut(e, Published', Settled')
  <2>1. NewestIsOut(e, Published, Settled)
    BY <1>2, <1>3, CommittedBefore, OutputsKept DEF RetriesSupersede
  <2> QED
    BY <1>1, <2>1, OutputsKept, NewestKept
<1>4. ASSUME pc' \in {"delivering", "committing"}, Payload(Raw)' \in Events
      PROVE  NewestIsOut(Payload(Raw)', Published', Issued')
  <2>1. ~ DeadLetterTransaction
    <3> SUFFICES ASSUME DeadLetterTransaction PROVE FALSE
      OBVIOUS
    <3>1. Payload(Raw)' \in Malformed
      BY DEF DeadLetterTransaction, Produce, Payload
    <3> QED
      BY <1>4, <3>1, PayloadAssumption
  <2>2. /\ pc \in {"delivering", "committing"} /\ UNCHANGED msg /\ LogGrows
        /\ \A t \in Topics : Issued[t] \subseteq Issued'[t]
    BY <1>4, <2>1, OutputsKept
  <2>3. Payload(Raw)' = Payload(Raw)
    BY <2>2, PayloadKept DEF DetectorInv, TypeOK, Topics, InHand
  <2>4. NewestIsOut(Payload(Raw), Published, Issued)
    BY <1>4, <2>2, <2>3 DEF RetriesSupersede
  <2> QED
    BY <1>1, <2>2, <2>3, <2>4, NewestKept
<1> QED
  BY <1>3, <1>4 DEF RetriesSupersede

\* The message in hand is not committed.
LEMMA InHandIsUncommitted ==
    ASSUME DetectorInv, InHand
    PROVE  Uncommitted(Payload(Raw))
<1>1. KafkaTypeOK(ValueType) /\ Raw \in Topics /\ OneInHand(Raw)
  BY DEF DetectorInv, TypeOK, Topics
<1>2. /\ msg.partition \in Partitions /\ msg.offset = committed[msg.partition]
      /\ msg.offset + 1 \in 1 .. Len(log[Raw][msg.partition])
  BY <1>1, PayloadInLog DEF OneInHand
<1>3. committed[msg.partition] \in Nat /\ Len(log[Raw][msg.partition]) \in Nat
  BY <1>1, <1>2, InputType
<1>4. msg.offset + 1 \in committed[msg.partition] + 1 .. Len(log[Raw][msg.partition])
  BY <1>2, <1>3
<1> QED
  BY <1>2, <1>4 DEF Uncommitted, Payload

\* A scoring publishes the newest decision on a transaction that is uncommitted,
\* all of it, and nothing on any other transaction.
LEMMA ScoreSupersedes ==
    ASSUME DetectorInv, DetectorInv', ScoreTransaction, TimesAreUnique, RetriesSupersede
    PROVE  RetriesSupersede'
<1>1. PICK d \in Decisions :
         /\ d.event = Payload(Raw) /\ d.processed_at = clock + 1
         /\ Published' \subseteq Published \cup {d}
         /\ d \in Issued'[Scored]
         /\ d.decision = "approve" \/ d \in Issued'[Alerts]
  BY ScorePublishes
<1>2. /\ Next /\ pc = "processing" /\ pc' = "delivering"
      /\ UNCHANGED <<committed, msg, log>>
  BY DEF Next, WorkerStep, ScoreTransaction, Produce
<1>3. Payload(Raw)' = Payload(Raw) /\ Uncommitted(d.event)'
  <2>1. Payload(Raw)' = Payload(Raw)
    BY <1>2 DEF Payload
  <2>2. Uncommitted(d.event)
    BY <1>1, <1>2, InHandIsUncommitted DEF InHand
  <2>3. Uncommitted(d.event)'
    BY <1>2, <2>2 DEF Uncommitted
  <2> QED
    BY <2>1, <2>3
<1>4. ASSUME NEW e \in Events, e \in InLog(Raw)', ~ Uncommitted(e)'
      PROVE  NewestIsOut(e, Published', Settled')
  <2>1. NewestIsOut(e, Published, Settled)
    BY <1>2, <1>4, CommittedBefore, OutputsKept DEF RetriesSupersede
  <2>2. \A c \in Published' : c.event = e => c \in Published
    BY <1>1, <1>3, <1>4
  <2> QED
    BY <1>2, <2>1, <2>2, OutputsKept, NewestKept
<1>5. NewestIsOut(Payload(Raw)', Published', Issued')
  <2>1. \A c \in Published : c.processed_at <= clock /\ c.processed_at \in Nat /\ clock \in Nat
    BY PublishedType DEF TimesAreUnique, Decisions, DetectorInv, TypeOK
  <2>2. clock \in Nat
    BY DEF DetectorInv, TypeOK
  <2>3. \A c \in Published' : c.processed_at <= d.processed_at
    BY <1>1, <2>1, <2>2
  <2> QED
    BY <1>1, <1>3, <2>3 DEF NewestIsOut
<1> QED
  BY <1>4, <1>5 DEF RetriesSupersede

\* The commit: what was issued for the message in hand has settled.
LEMMA CommitSupersedes ==
    ASSUME DetectorInv, DetectorInv', CommitOffset, RetriesSupersede
    PROVE  RetriesSupersede'
<1>1. /\ outbox = {} /\ pc = "committing" /\ pc' = "polling"
      /\ UNCHANGED <<log, rejected, orphans, outbox>>
  BY DEF CommitOffset, Commit, DetectorInv, OutputsIssued
<1>2. /\ Published' = Published /\ UNCHANGED <<InLog(Raw), Settled>>
      /\ \A t \in Topics : Issued[t] \subseteq Settled[t]
  BY <1>1 DEF Published, InLog, Settled, Issued, Queued
<1>3. /\ KafkaTypeOK(ValueType) /\ KafkaTypeOK(ValueType)' /\ Raw \in Topics
      /\ \A p \in Partitions : \A i \in 1 .. committed'[p] :
            i \in 1 .. committed[p] \/ log'[Raw][p][i] = Payload(Raw)
  BY CommitOneInHand DEF CommitOffset, DetectorInv, TypeOK, Topics
<1>4. ASSUME NEW e \in Events, e \in InLog(Raw)', ~ Uncommitted(e)'
      PROVE  NewestIsOut(e, Published', Settled')
  <2>1. CASE e = Payload(Raw)
    <3>1. NewestIsOut(e, Published, Issued)
      BY <1>1, <2>1 DEF RetriesSupersede
    <3>2. NewestIsOut(e, Published, Settled)
      BY <1>2, <3>1, NewestKept
    <3> QED
      BY <1>2, <3>2
  <2>2. CASE e # Payload(Raw)
    <3>1. ~ Uncommitted(e)
      <4> SUFFICES ASSUME NEW p \in Partitions,
                          NEW i \in committed[p] + 1 .. Len(log[Raw][p]), log[Raw][p][i] = e
                   PROVE  FALSE
        BY DEF Uncommitted
      <4>1. committed[p] \in Nat /\ Len(log[Raw][p]) \in Nat /\ committed'[p] \in Nat
        BY <1>3, InputType DEF KafkaTypeOK
      <4>2. i \notin 1 .. committed'[p]
        BY <1>1, <1>3, <2>2, <4>1
      <4>3. i \in committed'[p] + 1 .. Len(log'[Raw][p])
        BY <1>1, <4>1, <4>2
      <4> QED
        BY <1>1, <1>4, <4>3 DEF Uncommitted
    <3>2. NewestIsOut(e, Published, Settled)
      BY <1>2, <1>4, <3>1 DEF RetriesSupersede
    <3> QED
      BY <1>2, <3>2
  <2> QED
    BY <2>1, <2>2
<1> QED
  BY <1>1, <1>4 DEF RetriesSupersede

\* The clock stays ahead of every decision, and no two share a time.
LEMMA TimesStayUnique ==
    ASSUME DetectorInv, [Next]_vars, TimesAreUnique
    PROVE  TimesAreUnique'
<1>1. /\ clock \in Nat
      /\ \A c \in Published : c.processed_at \in Nat /\ c.processed_at <= clock
  BY PublishedType DEF DetectorInv, TypeOK, Decisions, TimesAreUnique
<1>2. CASE ScoreTransaction
  <2>1. PICK d \in Decisions :
           /\ d.processed_at = clock + 1 /\ clock' = clock + 1
           /\ Published' \subseteq Published \cup {d}
    BY <1>2, ScorePublishes
  <2>2. \A c \in Published' : c.processed_at <= clock'
    BY <1>1, <2>1
  <2>3. \A c \in Published : c.processed_at # d.processed_at
    BY <1>1, <2>1
  <2>4. ASSUME NEW c1 \in Published', NEW c2 \in Published',
               c1.processed_at = c2.processed_at
        PROVE  c1 = c2
    <3>1. CASE c1 \in Published /\ c2 \in Published
      BY <2>4, <3>1 DEF TimesAreUnique
    <3> QED
      BY <2>1, <2>3, <2>4, <3>1
  <2> QED
    BY <2>2, <2>4 DEF TimesAreUnique
<1>3. CASE ~ ScoreTransaction
  BY <1>3, OthersPublishNothing DEF TimesAreUnique
<1> QED
  BY <1>2, <1>3

LEMMA SupersedeKept ==
    ASSUME DetectorInv, [Next]_vars, TimesAreUnique, RetriesSupersede
    PROVE  RetriesSupersede'
BY NextKeepsInv, OthersKeepSupersede, ScoreSupersedes, CommitSupersedes
-----------------------------------------------------------------------------
(* The store's half of the pipeline's invariant. *)

\* A row's time is a number; NoRow is older than every decision.
LEMMA RowTimes ==
    ASSUME PipelineTypeOK, NEW e \in Events
    PROVE  /\ rows[e].processed_at \in Int
           /\ rows[e] # NoRow => rows[e] \in Decisions
<1>1. InLog(Scored) \subseteq Decisions
  BY PublishedType DEF PipelineTypeOK, Published
<1> QED
  BY <1>1 DEF PipelineTypeOK, Decisions, NoRow

\* A message of transactions.scored is a decision.
LEMMA ScoredType ==
    ASSUME TypeOK, NEW p \in Partitions
    PROVE  /\ Len(log[Scored][p]) \in Nat
           /\ \A i \in 1 .. Len(log[Scored][p]) :
                 /\ log[Scored][p][i] \in Decisions
                 /\ log[Scored][p][i] \in InLog(Scored)
<1>1. log[Scored][p] \in Seq(ValueType[Scored]) /\ ValueType[Scored] = Decisions
  BY DEF TypeOK, KafkaTypeOK, Topics, ValueType, Scored, Raw, DeadLetter
<1> QED
  BY <1>1 DEF InLog

\* The store lets the detector be.
LEMMA DetectorKeepsStore ==
    ASSUME PipelineInv, [Next]_vars, UNCHANGED storeVars
    PROVE  PipelineTypeOK' /\ RowsAreNewest'
<1>1. /\ DetectorInv /\ DetectorInv' /\ TypeOK' /\ PipelineTypeOK /\ RowsAreNewest
      /\ LogGrows /\ Scored \in Topics
      /\ InLog(Scored) \subseteq InLog(Scored)'
  BY NextKeepsInv, OutputsKept, LogTypes, LogInLog DEF PipelineInv, DetectorInv, Topics
<1>2. UNCHANGED <<rows, stored, upserted>>
  BY DEF storeVars
<1>3. ASSUME NEW p \in Partitions
      PROVE  /\ stored[p] \in Nat /\ stored[p] <= Len(log[Scored][p])
             /\ p \in upserted => stored[p] < Len(log[Scored][p])
             /\ Len(log[Scored][p]) \in Nat /\ Len(log'[Scored][p]) \in Nat
             /\ Len(log[Scored][p]) <= Len(log'[Scored][p])
             /\ \A i \in 1 .. Len(log[Scored][p]) : log'[Scored][p][i] = log[Scored][p][i]
  <2>1. /\ stored[p] \in Nat /\ stored[p] <= Len(log[Scored][p])
        /\ p \in upserted => stored[p] < Len(log[Scored][p])
    BY <1>1 DEF PipelineTypeOK
  <2>2. Len(log[Scored][p]) \in Nat
    BY <1>1, ScoredType DEF DetectorInv
  <2>3. Len(log'[Scored][p]) \in Nat
    BY <1>1 DEF TypeOK, KafkaTypeOK
  <2>4. /\ Len(log[Scored][p]) <= Len(log'[Scored][p])
        /\ \A i \in 1 .. Len(log[Scored][p]) : log'[Scored][p][i] = log[Scored][p][i]
    BY <1>1 DEF LogGrows
  <2> QED
    BY <2>1, <2>2, <2>3, <2>4
<1>4. PipelineTypeOK'
  BY <1>1, <1>2, <1>3 DEF PipelineTypeOK
<1>5. RowsAreNewest'
  <2> SUFFICES ASSUME NEW p \in Partitions,
                      NEW i \in 1 .. stored[p] + (IF p \in upserted THEN 1 ELSE 0)
               PROVE  rows[log'[Scored][p][i].event].processed_at
                         >= log'[Scored][p][i].processed_at
    BY <1>2 DEF RowsAreNewest
  <2>1. i \in 1 .. Len(log[Scored][p])
    BY <1>3
  <2>2. log'[Scored][p][i] = log[Scored][p][i]
    BY <1>3, <2>1
  <2>3. rows[log[Scored][p][i].event].processed_at >= log[Scored][p][i].processed_at
    BY <1>1 DEF RowsAreNewest
  <2> QED
    BY <2>2, <2>3
<1> QED
  BY <1>4, <1>5

\* An upsert leaves a row that is at least as new as the message, and no row
\* older than it was.
LEMMA UpsertKeepsNewest ==
    ASSUME PipelineInv, NEW p \in Partitions, StoreDecision(p)
    PROVE  PipelineTypeOK' /\ RowsAreNewest'
<1> DEFINE d == NextScored(p)
<1>1. /\ TypeOK /\ TypeOK' /\ PipelineTypeOK /\ RowsAreNewest
      /\ UNCHANGED <<log, stored>>
      /\ upserted = {} /\ upserted' = {p} /\ stored[p] < Len(log[Scored][p])
  BY DEF StoreDecision, PipelineInv, PipelineTypeOK, TypeOK, KafkaTypeOK, IsRequest,
         vars, kafkaVars, detectorVars
<1>2. \A q \in Partitions : stored[q] \in Nat /\ Len(log[Scored][q]) \in Nat
  BY <1>1, ScoredType DEF PipelineTypeOK
<1>3. d \in Decisions /\ d \in InLog(Scored) /\ d.event \in Events
  <2>1. stored[p] + 1 \in 1 .. Len(log[Scored][p])
    BY <1>1, <1>2
  <2> QED
    BY <1>1, <2>1, ScoredType DEF NextScored, Decisions
<1>4. rows' = IF rows[d.event].processed_at <= d.processed_at
              THEN [rows EXCEPT ![d.event] = d] ELSE rows
  BY DEF StoreDecision
<1> HIDE DEF d
<1>5. InLog(Scored)' = InLog(Scored)
  BY <1>1 DEF InLog
<1>6. PipelineTypeOK'
  <2>1. DOMAIN rows' = Events
    BY <1>1, <1>4 DEF PipelineTypeOK
  <2>2. ASSUME NEW e \in Events
        PROVE  rows'[e] = NoRow \/ (rows'[e] \in InLog(Scored) /\ rows'[e].event = e)
    BY <1>1, <1>3, <1>4 DEF PipelineTypeOK
  <2> QED
    BY <1>1, <1>5, <2>1, <2>2 DEF PipelineTypeOK
<1>7. ASSUME NEW e \in Events PROVE rows'[e].processed_at >= rows[e].processed_at
  <2>1. rows[e].processed_at \in Int /\ DOMAIN rows = Events
    BY <1>1, RowTimes DEF PipelineTypeOK
  <2>2. CASE e = d.event /\ rows[e].processed_at <= d.processed_at
    BY <1>3, <1>4, <2>1, <2>2 DEF Decisions
  <2>3. CASE ~ (e = d.event /\ rows[e].processed_at <= d.processed_at)
    BY <1>4, <2>1, <2>3
  <2> QED
    BY <2>2, <2>3
<1>8. rows'[d.event].processed_at >= d.processed_at
  <2>1. /\ rows[d.event].processed_at \in Int /\ d.processed_at \in Nat
        /\ DOMAIN rows = Events
    BY <1>1, <1>3, RowTimes DEF PipelineTypeOK, Decisions
  <2> QED
    BY <1>3, <1>4, <2>1
<1>9. RowsAreNewest'
  <2> SUFFICES ASSUME NEW q \in Partitions,
                      NEW i \in 1 .. stored[q] + (IF q \in {p} THEN 1 ELSE 0)
               PROVE  rows'[log[Scored][q][i].event].processed_at
                         >= log[Scored][q][i].processed_at
    BY <1>1 DEF RowsAreNewest
  <2>1. CASE q = p /\ i = stored[p] + 1
    BY <1>8, <2>1 DEF d, NextScored
  <2>2. CASE ~ (q = p /\ i = stored[p] + 1)
    <3>1. i \in 1 .. stored[q] /\ i \in 1 .. Len(log[Scored][q])
      BY <1>1, <1>2, <2>2 DEF PipelineTypeOK
    <3>2. rows[log[Scored][q][i].event].processed_at >= log[Scored][q][i].processed_at
      <4>1. i \in 1 .. stored[q] + (IF q \in upserted THEN 1 ELSE 0)
        BY <1>1, <1>2, <3>1
      <4> QED
        BY <1>1, <4>1 DEF RowsAreNewest
    <3>3. log[Scored][q][i] \in Decisions
      BY <1>1, <3>1, ScoredType
    <3>4. log[Scored][q][i].event \in Events /\ log[Scored][q][i].processed_at \in Int
      BY <3>3 DEF Decisions
    <3>5. /\ rows[log[Scored][q][i].event].processed_at \in Int
          /\ rows'[log[Scored][q][i].event].processed_at \in Int
      BY <1>1, <1>3, <1>4, <3>4, RowTimes DEF PipelineTypeOK, Decisions
    <3> QED
      BY <1>7, <3>2, <3>4, <3>5
  <2> QED
    BY <2>1, <2>2
<1> QED
  BY <1>6, <1>9

\* The commit of an upserted message, and an exit before it.
LEMMA StoredKeepsNewest ==
    ASSUME PipelineInv, ExitStore \/ \E p \in Partitions : CommitStored(p)
    PROVE  PipelineTypeOK' /\ RowsAreNewest'
<1>1. /\ TypeOK /\ TypeOK' /\ PipelineTypeOK /\ RowsAreNewest
      /\ UNCHANGED <<log, rows>> /\ upserted' = {}
  BY DEF ExitStore, CommitStored, PipelineInv, PipelineTypeOK, TypeOK, KafkaTypeOK,
         IsRequest, vars, kafkaVars, detectorVars
<1>2. stored \in [Partitions -> Nat]
  BY <1>1 DEF PipelineTypeOK
<1>3. \A q \in Partitions : Len(log[Scored][q]) \in Nat
  BY <1>1, ScoredType
<1>4. ASSUME NEW q \in Partitions
      PROVE  /\ stored'[q] \in Nat
             /\ stored'[q] <= stored[q] + (IF q \in upserted THEN 1 ELSE 0)
  BY <1>2 DEF ExitStore, CommitStored
<1>5. stored' \in [Partitions -> Nat]
  BY <1>2, <1>4 DEF ExitStore, CommitStored
<1>6. InLog(Scored)' = InLog(Scored)
  BY <1>1 DEF InLog
<1>7. \A q \in Partitions : stored'[q] <= Len(log[Scored][q])
  BY <1>1, <1>2, <1>3, <1>4 DEF PipelineTypeOK
<1>8. PipelineTypeOK'
  BY <1>1, <1>5, <1>6, <1>7 DEF PipelineTypeOK
<1>9. RowsAreNewest'
  <2> SUFFICES ASSUME NEW q \in Partitions, NEW i \in 1 .. stored'[q]
               PROVE  rows[log[Scored][q][i].event].processed_at
                         >= log[Scored][q][i].processed_at
    BY <1>1, <1>4 DEF RowsAreNewest
  <2>1. i \in 1 .. stored[q] + (IF q \in upserted THEN 1 ELSE 0)
    BY <1>2, <1>4
  <2> QED
    BY <1>1, <2>1 DEF RowsAreNewest
<1> QED
  BY <1>8, <1>9

-----------------------------------------------------------------------------
(* Publication: an exit exposes at most one decision. *)

\* The topics of a decision.
LEMMA DecisionTopics == {Scored, Alerts} \subseteq Topics /\ Raw \notin {Scored, Alerts}
BY DEF Topics, Scored, Alerts, Raw

\* Exposure grows by nothing new: the number of exits still covers it.
LEMMA ExposedShrinks ==
    ASSUME PublicationInv, TypeOK, TypeOK', Exposed' \subseteq Exposed, exits <= exits'
    PROVE  IsFiniteSet(Exposed') /\ Cardinality(Exposed') <= exits'
<1>1. exits \in Nat /\ exits' \in Nat
  BY MaxExitsAssumption DEF TypeOK, KafkaTypeOK
<1>2. IsFiniteSet(Exposed) /\ Cardinality(Exposed) <= exits
  BY DEF PublicationInv
<1>3. IsFiniteSet(Exposed') /\ Cardinality(Exposed') <= Cardinality(Exposed)
  BY <1>2, FS_Subset
<1>4. Cardinality(Exposed) \in Nat /\ Cardinality(Exposed') \in Nat
  BY <1>2, <1>3, FS_CardinalityType
<1> QED
  BY <1>1, <1>2, <1>3, <1>4

\* Whoever is issued stays issued, nothing is orphaned, and what arrives in a
\* topic was orphaned or is issued in both: nothing new is exposed.
LEMMA IssuedKeepsPublication ==
    ASSUME PublicationInv, TypeOK, TypeOK', exits <= exits',
           DecisionsIn(outbox') \subseteq DecisionsIn(outbox),
           DecisionsIn(orphans') \subseteq DecisionsIn(orphans),
           \A t \in {Scored, Alerts} : Issued[t] \subseteq Issued'[t],
           \A t \in {Scored, Alerts} : \A d \in InLog(t)' :
              d \in InLog(t) \/ \E r \in DecisionsIn(outbox \cup orphans) : d = r.value
    PROVE  PublicationInv'
<1>1. /\ \A q, r \in DecisionsIn(outbox') : q.value = r.value
      /\ \A r \in DecisionsIn(outbox') :
            r.value.decision # "approve" => \A t \in {Scored, Alerts} : r.value \in Issued'[t]
  BY DEF PublicationInv
<1>2. ASSUME NEW d \in Exposed' PROVE d \in Exposed
  <2>1. /\ d.decision # "approve"
        /\ \E t \in {Scored, Alerts} : d \notin Issued'[t]
        /\ \/ \E t \in {Scored, Alerts} : d \in InLog(t)'
           \/ \E r \in DecisionsIn(orphans') : d = r.value
    BY <1>2 DEF Exposed
  <2>2. \E t \in {Scored, Alerts} : d \notin Issued[t]
    BY <2>1
  <2>3. ~ \E r \in DecisionsIn(outbox) : d = r.value
    BY <2>1, <2>2 DEF PublicationInv
  <2>4. \/ \E t \in {Scored, Alerts} : d \in InLog(t)
        \/ \E r \in DecisionsIn(orphans) : d = r.value
    BY <2>1, <2>3 DEF DecisionsIn
  <2> QED
    BY <2>1, <2>2, <2>4 DEF Exposed
<1>3. IsFiniteSet(Exposed') /\ Cardinality(Exposed') <= exits'
  BY <1>2, ExposedShrinks
<1> QED
  BY <1>1, <1>3 DEF PublicationInv

\* Kafka answers and orphans arrive.
LEMMA KafkaKeepsPublication ==
    ASSUME DetectorInv, DetectorInv', PublicationInv, Broker \/ Orphans
    PROVE  PublicationInv'
<1>1. LogTypeOK(ValueType) /\ TypeOK /\ TypeOK' /\ exits \in Nat
  BY LogTypes, MaxExitsAssumption DEF DetectorInv, TypeOK, KafkaTypeOK
<1>2. \A t \in Topics : Issued[t] \subseteq Issued'[t]
  BY BrokerAnswersOK, OrphanStepOK
     DEF Broker, Orphans, OrphanStep, LateArrival, LostRequest, DetectorInv, TypeOK
<1>3. PICK r \in outbox \cup orphans : Deliver(r) \/ Reject(r) \/ LateArrival(r) \/ LostRequest(r)
  BY DEF Broker, BrokerAnswers, Orphans, OrphanStep
<1>4. /\ outbox' \subseteq outbox /\ orphans' \subseteq orphans /\ exits' = exits
      /\ \/ log' = log
         \/ log' = Appended(r.topic, r.partition, r.value)
  BY <1>3 DEF Deliver, Reject, LateArrival, LostRequest
<1>5. /\ DecisionsIn(outbox') \subseteq DecisionsIn(outbox)
      /\ DecisionsIn(orphans') \subseteq DecisionsIn(orphans)
  BY <1>4 DEF DecisionsIn
<1>6. ASSUME NEW t \in {Scored, Alerts}, NEW d \in InLog(t)'
      PROVE  d \in InLog(t) \/ \E q \in DecisionsIn(outbox \cup orphans) : d = q.value
  <2>1. CASE log' = log
    BY <1>6, <2>1 DEF InLog
  <2>2. CASE log' = Appended(r.topic, r.partition, r.value)
    <3>1. r.topic \in Topics /\ r.partition \in Partitions
      BY <1>1 DEF TypeOK, KafkaTypeOK, IsRequest
    <3>2. d \in InLog(t) \/ (t = r.topic /\ d = r.value)
      BY <1>1, <1>6, <2>2, <3>1, AppendInLog, DecisionTopics
    <3> QED
      BY <1>6, <3>2 DEF DecisionsIn
  <2> QED
    BY <1>4, <2>1, <2>2
<1> QED
  BY <1>1, <1>2, <1>4, <1>5, <1>6, IssuedKeepsPublication, DecisionTopics

\* The two produce calls of a scoring carry one decision to both topics.
LEMMA HandlersKeepPublication ==
    ASSUME DetectorInv, DetectorInv', PublicationInv, ScoreTransaction \/ DeadLetterTransaction
    PROVE  PublicationInv'
<1>1. /\ pc = "processing" /\ outbox = {} /\ TypeOK /\ TypeOK' /\ exits \in Nat
      /\ UNCHANGED <<log, orphans, rejected, exits>>
  BY MaxExitsAssumption DEF ScoreTransaction, DeadLetterTransaction, Produce, DetectorInv,
     OutputsIssued, TypeOK, KafkaTypeOK
<1>2. \A t \in {Scored, Alerts} : Issued[t] \subseteq Issued'[t]
  BY <1>1, DecisionTopics DEF Issued, Settled, Queued, InLog
<1>3. Exposed' \subseteq Exposed
  BY <1>1, <1>2 DEF Exposed, InLog
<1>4. IsFiniteSet(Exposed') /\ Cardinality(Exposed') <= exits'
  BY <1>1, <1>3, ExposedShrinks
<1>5. CASE DeadLetterTransaction
  <2> DEFINE r == Request(DeadLetter, DeadLetterPartition, Payload(Raw))
  <2>1. outbox' = {r}
    BY <1>1, <1>5 DEF DeadLetterTransaction, Produce
  <2>2. r.topic \notin {Scored, Alerts}
    BY DEF Request, DeadLetter, Scored, Alerts
  <2> HIDE DEF r
  <2>3. DecisionsIn(outbox') = {}
    BY <2>1, <2>2 DEF DecisionsIn
  <2> QED
    BY <1>4, <2>3 DEF PublicationInv
<1>6. CASE ScoreTransaction
  <2> DEFINE e == Payload(Raw)
             d == [event |-> e, decision |-> Score(memory[e.customer_id], e),
                   processed_at |-> clock + 1]
             q == PartitionOf[d.event.customer_id]
  <2>1. outbox' = DecisionRequests(d)
    BY <1>1, <1>6 DEF ScoreTransaction, Produce
  <2> HIDE DEF d
  <2>2. \A r \in outbox' : r.value = d
    BY <2>1 DEF DecisionRequests, Request
  <2>3. ASSUME NEW t \in {Scored, Alerts}, d.decision # "approve" PROVE d \in Issued'[t]
    <3>1. Request(t, q, d) \in outbox'
      BY <2>1, <2>3 DEF DecisionRequests
    <3>2. Request(t, q, d).topic = t /\ Request(t, q, d).value = d
      BY DEF Request
    <3>3. d \in Queued(t)'
      BY <3>1, <3>2 DEF Queued
    <3> QED
      BY <3>3, DecisionTopics DEF Issued
  <2>4. DecisionsIn(outbox') \subseteq outbox'
    BY DEF DecisionsIn
  <2> QED
    BY <1>4, <2>2, <2>3, <2>4 DEF PublicationInv
<1> QED
  BY <1>5, <1>6

\* An exit exposes the decision in the queue, if there is one.
LEMMA ExitKeepsPublication ==
    ASSUME DetectorInv, DetectorInv', PublicationInv,
           ScoringRaises \/ CloseDetector \/ ExitDetector
    PROVE  PublicationInv'
<1>1. /\ TypeOK /\ TypeOK' /\ exits \in Nat /\ exits' \in Nat
      /\ UNCHANGED <<log, rejected>> /\ orphans' = orphans \cup outbox /\ outbox' = {}
      /\ exits' = exits + 1 \/ (exits' = exits /\ outbox = {})
  BY MaxExitsAssumption
     DEF DetectorInv, TypeOK, KafkaTypeOK, OutputsIssued, ScoringRaises, CloseDetector, Close,
         ExitDetector, FlushTimeout, Crash, CountedExit, Exit
<1>2. DecisionsIn(outbox') = {} /\ DecisionsIn(orphans') = DecisionsIn(orphans) \cup DecisionsIn(outbox)
  BY <1>1 DEF DecisionsIn
<1>3. ASSUME NEW t \in {Scored, Alerts}, NEW d, d \in Issued[t],
             ~ \E r \in DecisionsIn(outbox) : d = r.value
      PROVE  d \in Issued'[t]
  <2>1. d \notin Queued(t)
    BY <1>3 DEF Queued, DecisionsIn
  <2> QED
    BY <1>1, <1>3, <2>1, DecisionTopics DEF Issued, Settled, InLog
<1>4. ASSUME NEW d \in Exposed', ~ \E r \in DecisionsIn(outbox) : d = r.value
      PROVE  d \in Exposed
  <2>1. d \in InLog(Scored) \cup InLog(Alerts) \cup {r.value : r \in DecisionsIn(orphans)}
    <3>1. \/ d \in InLog(Scored)' \/ d \in InLog(Alerts)'
          \/ \E r \in DecisionsIn(orphans') : d = r.value
      BY <1>4 DEF Exposed
    <3>2. InLog(Scored)' = InLog(Scored) /\ InLog(Alerts)' = InLog(Alerts)
      BY <1>1 DEF InLog
    <3> QED
      BY <1>2, <1>4, <3>1, <3>2
  <2>2. d.decision # "approve" /\ \E t \in {Scored, Alerts} : d \notin Issued[t]
    BY <1>3, <1>4 DEF Exposed
  <2> QED
    BY <2>1, <2>2 DEF Exposed
<1>5. CASE DecisionsIn(outbox) = {}
  <2>1. Exposed' \subseteq Exposed
    BY <1>4, <1>5
  <2>2. IsFiniteSet(Exposed') /\ Cardinality(Exposed') <= exits'
    BY <1>1, <2>1, ExposedShrinks
  <2> QED
    BY <1>2, <2>2 DEF PublicationInv
<1>6. CASE DecisionsIn(outbox) # {}
  <2>1. PICK q \in DecisionsIn(outbox) : \A r \in DecisionsIn(outbox) : r.value = q.value
    BY <1>6 DEF PublicationInv
  <2> DEFINE E == Exposed
             v == q.value
  <2>2. Exposed' \subseteq E \cup {v}
    BY <1>4, <2>1
  <2>3. exits' = exits + 1
    BY <1>1, <2>1 DEF DecisionsIn
  <2>4. IsFiniteSet(E) /\ Cardinality(E) \in Nat /\ Cardinality(E) <= exits
    BY FS_CardinalityType DEF PublicationInv
  <2> HIDE DEF E, v
  <2>5. IsFiniteSet(E \cup {v}) /\ Cardinality(E \cup {v}) <= Cardinality(E) + 1
    BY <2>4, FS_AddElement
  <2>6. IsFiniteSet(Exposed') /\ Cardinality(Exposed') <= Cardinality(E \cup {v})
    BY <2>2, <2>5, FS_Subset
  <2>7. Cardinality(Exposed') \in Nat /\ Cardinality(E \cup {v}) \in Nat
    BY <2>5, <2>6, FS_CardinalityType
  <2>8. Cardinality(Exposed') <= exits'
    BY <1>1, <2>3, <2>4, <2>5, <2>6, <2>7
  <2> QED
    BY <1>2, <2>6, <2>8 DEF PublicationInv
<1> QED
  BY <1>5, <1>6

\* The other steps touch neither the two topics nor the requests.
LEMMA OthersKeepPublication ==
    ASSUME DetectorInv, DetectorInv', PublicationInv,
           \/ StartDetector \/ (\E p \in Partitions : PollRaw(p)) \/ FlushOutputs
           \/ CommitOffset \/ StopDetector \/ Idle \/ Environment \/ UNCHANGED vars
    PROVE  PublicationInv'
<1>1. TypeOK /\ TypeOK' /\ UNCHANGED <<outbox, orphans, rejected, exits>>
  BY DEF DetectorInv, StartDetector, Start, PollRaw, Poll, FlushOutputs, Flushed, CommitOffset,
         Commit, StopDetector, Stop, Idle, IdlePoll, Environment, Ingest, vars, kafkaVars
<1>2. ASSUME NEW t \in {Scored, Alerts} PROVE InLog(t)' = InLog(t)
  <2>1. CASE Environment
    <3>1. PICK v \in Events \cup Malformed, q \in Partitions : log' = Appended(Raw, q, v)
      BY <2>1 DEF Environment, Ingest
    <3>2. log' = [log EXCEPT ![Raw] = [log[Raw] EXCEPT ![q] = Append(log[Raw][q], v)]]
      BY <3>1 DEF Appended
    <3>3. log'[t] = log[t]
      BY <3>2, LogTypes, DecisionTopics DEF DetectorInv, LogTypeOK
    <3> QED
      BY <3>3 DEF InLog
  <2>2. CASE log' = log
    BY <2>2 DEF InLog
  <2> QED
    BY <2>1, <2>2
       DEF StartDetector, Start, PollRaw, Poll, FlushOutputs, Flushed, CommitOffset,
           Commit, StopDetector, Stop, Idle, IdlePoll, vars, kafkaVars
<1>3. \A t \in {Scored, Alerts} : Issued'[t] = Issued[t]
  BY <1>1, <1>2, DecisionTopics DEF Issued, Settled, Queued
<1>4. exits <= exits'
  BY <1>1, MaxExitsAssumption DEF TypeOK, KafkaTypeOK
<1> QED
  BY <1>1, <1>2, <1>3, <1>4, IssuedKeepsPublication

LEMMA NextKeepsPublication ==
    ASSUME DetectorInv, PublicationInv, [Next]_vars
    PROVE  PublicationInv'
<1>1. DetectorInv'
  BY NextKeepsInv
<1> QED
  BY <1>1, KafkaKeepsPublication, HandlersKeepPublication, ExitKeepsPublication,
     OthersKeepPublication DEF Next, WorkerStep

LEMMA InitPublication == Init => PublicationInv
<1> SUFFICES ASSUME Init PROVE PublicationInv
  OBVIOUS
<1>1. outbox = {} /\ orphans = {} /\ exits = 0
  BY DEF Init, KafkaInit
<1>2. InLog(Scored) = {} /\ InLog(Alerts) = {}
  <2>1. \A t \in Topics, p \in Partitions : Len(log[t][p]) = 0
    BY DEF Init, KafkaInit
  <2> QED
    BY <2>1, DecisionTopics DEF InLog
<1>3. Exposed = {} /\ DecisionsIn(outbox) = {}
  BY <1>1, <1>2 DEF Exposed, DecisionsIn
<1> QED
  BY <1>1, <1>3, FS_EmptySet DEF PublicationInv

\* _publish_decision is two produce calls and no transaction: a decision whose
\* halves part was in the queue of a process when it exited, and no exit parts
\* more than one.
THEOREM OnlyExitsTear == Spec => []TornOnlyByExits
<1>1. DetectorInv /\ PublicationInv => TornOnlyByExits
  <2> SUFFICES ASSUME DetectorInv, PublicationInv PROVE TornOnlyByExits
    OBVIOUS
  <2>1. Torn \subseteq Exposed
    BY DEF Torn, Exposed
  <2>2. IsFiniteSet(Exposed) /\ Cardinality(Exposed) <= exits
    BY DEF PublicationInv
  <2>3. IsFiniteSet(Torn) /\ Cardinality(Torn) <= Cardinality(Exposed)
    BY <2>1, <2>2, FS_Subset
  <2>4. Cardinality(Torn) \in Nat /\ Cardinality(Exposed) \in Nat /\ exits \in Nat
    BY <2>2, <2>3, FS_CardinalityType, MaxExitsAssumption DEF DetectorInv, TypeOK, KafkaTypeOK
  <2> QED
    BY <2>2, <2>3, <2>4 DEF TornOnlyByExits
<1>2. DetectorInv /\ PublicationInv /\ [Next]_vars => PublicationInv'
  BY NextKeepsPublication
<1> QED
  BY <1>1, <1>2, InitPublication, Invariance, PTL DEF Spec

-----------------------------------------------------------------------------
(* The pipeline's theorems. *)

LEMMA PipelineInitInv == PipelineInit => PipelineInv
<1> SUFFICES ASSUME PipelineInit PROVE PipelineInv
  OBVIOUS
<1>1. DetectorInv /\ TypeOK /\ OrderInv /\ MemoryInv /\ ScoringsInv /\ PublicationInv
  BY InitInv, InitOrder, InitMemory, InitScorings, InitPublication DEF PipelineInit, DetectorInv
<1>2. \A p \in Partitions : Len(log[Scored][p]) = 0 /\ Len(log[Raw][p]) = 0
  BY DEF PipelineInit, Init, KafkaInit, Topics
<1>3. InLog(Raw) = {} /\ Published = {}
  BY <1>2 DEF InLog, Published, PipelineInit, Init, KafkaInit, Topics
<1>4. PipelineTypeOK
  BY <1>1, <1>2 DEF PipelineTypeOK, PipelineInit
<1>5. TimesAreUnique
  BY <1>3 DEF TimesAreUnique
<1>6. RetriesSupersede
  BY <1>3 DEF RetriesSupersede, PipelineInit, Init, KafkaInit
<1>7. RowsAreNewest
  BY DEF RowsAreNewest, PipelineInit
<1> QED
  BY <1>1, <1>4, <1>5, <1>6, <1>7 DEF PipelineInv

LEMMA PipelineNextIsNext == [PipelineNext]_pipelineVars => [Next]_vars
BY DEF PipelineNext, pipelineVars, StoreStep, StoreDecision, CommitStored, ExitStore

LEMMA PipelineNextKeepsInv == PipelineInv /\ [PipelineNext]_pipelineVars => PipelineInv'
<1> SUFFICES ASSUME PipelineInv, [PipelineNext]_pipelineVars PROVE PipelineInv'
  OBVIOUS
<1>1. [Next]_vars
  BY PipelineNextIsNext
<1>2. /\ DetectorInv' /\ OrderInv' /\ MemoryInv' /\ ScoringsInv' /\ PublicationInv'
      /\ TimesAreUnique' /\ RetriesSupersede'
  BY <1>1, NextKeepsInv, NextKeepsOrder, NextKeepsMemory, NextKeepsScorings,
     NextKeepsPublication, TimesStayUnique, SupersedeKept DEF PipelineInv
<1>3. CASE UNCHANGED storeVars
  BY <1>1, <1>2, <1>3, DetectorKeepsStore DEF PipelineInv
<1>4. CASE \E p \in Partitions : StoreDecision(p)
  BY <1>2, <1>4, UpsertKeepsNewest DEF PipelineInv
<1>5. CASE ExitStore \/ \E p \in Partitions : CommitStored(p)
  BY <1>2, <1>5, StoredKeepsNewest DEF PipelineInv
<1> QED
  BY <1>3, <1>4, <1>5 DEF PipelineNext, StoreStep, pipelineVars

\* detector.py beside decision_store.py behaves as it does alone: the store only
\* reads what the detector writes, so every theorem on Spec holds here too.
THEOREM StoreOnlyReads == PipelineSpec => Spec
<1>1. PipelineInit => Init
  BY DEF PipelineInit
<1> QED
  BY <1>1, PipelineNextIsNext, PTL DEF PipelineSpec, Spec

\* The invariant: times are unique, retries supersede, rows are newest.
THEOREM PipelineInvariance == PipelineSpec => []PipelineInv
  BY PipelineInitInv, PipelineNextKeepsInv, PTL DEF PipelineSpec

\* detector.py's retry and decision_store.py's comparison of processed_at agree:
\* once both have caught up, a row that does not approve has its own alert.
THEOREM TableAndAlertsAgree == PipelineSpec => []FlaggedRowIsAlerted
<1>1. ASSUME PipelineInv PROVE FlaggedRowIsAlerted
  <2> SUFFICES ASSUME NEW e \in Events, CaughtUp(e),
                      rejected[Scored] \cup rejected[Alerts] = {}
               PROVE  /\ rows[e] # NoRow
                      /\ rows[e].decision = "approve" \/ rows[e] \in InLog(Alerts)
    BY DEF FlaggedRowIsAlerted
  <2>1. PipelineTypeOK /\ TimesAreUnique /\ RetriesSupersede /\ RowsAreNewest /\ TypeOK
    BY <1>1 DEF PipelineInv, PipelineTypeOK
  <2>2. Settled[Scored] = InLog(Scored) /\ Settled[Alerts] = InLog(Alerts)
    BY DEF Settled, Topics
  <2>3. ~ Uncommitted(e)
    BY DEF CaughtUp, Uncommitted
  <2>4. PICK d \in InLog(Scored) :
           /\ d.event = e /\ (d.decision = "approve" \/ d \in InLog(Alerts))
           /\ \A c \in Published : c.event = e => c.processed_at <= d.processed_at
    BY <2>1, <2>2, <2>3 DEF RetriesSupersede, CaughtUp, NewestIsOut
  <2>5. d \in Published /\ d.processed_at \in Nat
    BY <2>1, <2>4, PublishedType DEF Published, Decisions
  <2>6. rows[e].processed_at >= d.processed_at
    <3>1. PICK p \in Partitions : \E i \in 1 .. Len(log[Scored][p]) : d = log[Scored][p][i]
      BY <2>4 DEF InLog
    <3>2. PICK i \in 1 .. Len(log[Scored][p]) : d = log[Scored][p][i]
      BY <3>1
    <3>3. stored[p] = Len(log[Scored][p]) /\ stored[p] \in Nat
      BY <2>1 DEF CaughtUp, PipelineTypeOK
    <3>4. i \in 1 .. stored[p]
      BY <3>2, <3>3
    <3>5. i \in 1 .. stored[p] + (IF p \in upserted THEN 1 ELSE 0)
      <4> DEFINE ahead == IF p \in upserted THEN 1 ELSE 0
      <4>1. ahead \in Nat
        OBVIOUS
      <4> HIDE DEF ahead
      <4>2. i \in 1 .. stored[p] + ahead
        BY <3>3, <3>4, <4>1
      <4> QED
        BY <4>2 DEF ahead
    <3> QED
      BY <2>1, <2>4, <3>2, <3>5 DEF RowsAreNewest
  <2>7. rows[e] # NoRow
    BY <2>5, <2>6 DEF NoRow
  <2>8. rows[e] \in Published /\ rows[e].event = e /\ rows[e].processed_at \in Nat
    BY <2>1, <2>7, PublishedType DEF PipelineTypeOK, Published, Decisions
  <2>9. rows[e].processed_at = d.processed_at
    BY <2>4, <2>5, <2>6, <2>8
  <2>10. rows[e] = d
    BY <2>1, <2>5, <2>8, <2>9 DEF TimesAreUnique
  <2> QED
    BY <2>4, <2>7, <2>10
<1> QED
  BY <1>1, PipelineInvariance, PTL
=============================================================================
