------------------------- MODULE DecisionStoreProofs -------------------------
(***************************************************************************)
(* The table fraud_decisions keeps the promise of LatestDecision: whatever *)
(* is replayed, redelivered or reordered, and wherever the store crashes,  *)
(* a row only moves to a decision that is at least as new.  And the store  *)
(* commits nothing that is not in the table, so that a table that has      *)
(* caught up shows the newest decision of every transaction.               *)
(***************************************************************************)
EXTENDS DecisionStore, KafkaWorkerProofs

\* Both modules mean the same by a missing row.
LEMMA SameNoRow == Promise!NoRow = NoRow
BY DEF Promise!NoRow, NoRow

\* The upsert of a decision is Adopt, or leaves the table alone.
LEMMA UpsertAdopts ==
    ASSUME NEW d \in Decisions, Upsert(d)
    PROVE  Promise!Next \/ UNCHANGED rows
<1>1. CASE rows[d.transaction_id].processed_at <= d.processed_at
  <2>1. rows' = [rows EXCEPT ![d.transaction_id] = d]
    BY <1>1 DEF Upsert
  <2>2. Promise!Adopt(d)
    BY <1>1, <2>1 DEF Promise!Adopt
  <2> QED BY <2>2 DEF Promise!Next
<1>2. CASE ~ (rows[d.transaction_id].processed_at <= d.processed_at)
  BY <1>2 DEF Upsert
<1> QED BY <1>1, <1>2

\* Only the handler of a valid decision touches the table.
LEMMA OnlyUpsertsWrite ==
    ASSUME Next
    PROVE  (\E d \in Decisions : Upsert(d)) \/ UNCHANGED rows
<1>1. CASE WorkerStep
  <2>1. CASE StoreDecision
    <3>1. Payload(Scored) \in Decisions /\ Upsert(Payload(Scored))
      BY <2>1 DEF StoreDecision
    <3> QED BY <3>1
  <2>2. CASE WorkerStep /\ ~ StoreDecision
    BY <2>2 DEF WorkerStep, StartStore, PollScored, StoreRaises, DeadLetterDecision,
                FlushDeadLetter, CommitOffset, CloseStore
  <2> QED BY <1>1, <2>1, <2>2
<1>2. CASE Broker \/ Orphans \/ ExitStore \/ StopStore \/ Idle
  BY <1>2 DEF Broker, Orphans, ExitStore, StopStore, Idle
<1>3. CASE Environment
  BY <1>3 DEF Environment, Ingest
<1> QED BY <1>1, <1>2, <1>3 DEF Next

\* docs/ARCHITECTURE.md:29-30: the store, with its crashes, redeliveries and
\* orphaned decisions of dead detectors, implements LatestDecision: a row once
\* written is only replaced by a decision with an equal or newer processed_at.
THEOREM Refinement == Spec => RefinesLatestDecision
<1>1. Init => Promise!Init
  BY SameNoRow DEF Init, Promise!Init
<1>2. [Next]_vars => [Promise!Next]_rows
  <2>1. CASE Next
    BY <2>1, OnlyUpsertsWrite, UpsertAdopts
  <2>2. CASE UNCHANGED vars
    BY <2>2 DEF vars
  <2> QED BY <2>1, <2>2
<1> QED BY <1>1, <1>2, PTL DEF Spec, RefinesLatestDecision, Promise!Spec
-----------------------------------------------------------------------------
(* The invariant. *)

\* Rows that move move to newer decisions.
RowsGrow ==
    \A t \in Transactions : rows[t].processed_at <= rows'[t].processed_at

\* Timestamps are numbers, a missing row's included.
LEMMA RowType ==
    ASSUME TypeOK, NEW t \in Transactions
    PROVE  rows[t].processed_at \in Int
BY DecisionsAssumption DEF TypeOK, NoRow

\* What is handled stays handled when rows and outputs only grow.
LEMMA HandledMonotone ==
    ASSUME TypeOK, TypeOK', RowsGrow, NEW A, NEW B, A[DeadLetter] \subseteq B[DeadLetter],
           NEW v, Handled(v, rows, A)
    PROVE  Handled(v, rows', B)
<1>1. ASSUME v \in Decisions PROVE rows'[v.transaction_id].processed_at >= v.processed_at
  <2>1. v.transaction_id \in Transactions /\ v.processed_at \in Nat
    BY <1>1, DecisionsAssumption
  <2>2. rows[v.transaction_id].processed_at >= v.processed_at
    BY <1>1 DEF Handled, Stored
  <2>3. rows[v.transaction_id].processed_at <= rows'[v.transaction_id].processed_at
    BY <2>1 DEF RowsGrow
  <2>4. rows[v.transaction_id].processed_at \in Int
    BY <2>1, RowType
  <2>5. rows'[v.transaction_id].processed_at \in Int
    BY <2>1, DecisionsAssumption DEF TypeOK, NoRow
  <2> QED
    BY <2>1, <2>2, <2>3, <2>4, <2>5
<1> QED
  BY <1>1 DEF Handled, Stored

\* Messages that were committed before the step stay handled.
LEMMA CommittedKept ==
    ASSUME TypeOK, TypeOK', OneInHand(Scored), CommittedIsStored, LogGrows, RowsGrow,
           \A t \in Topics : rejected[t] \subseteq rejected'[t],
           NEW p \in Partitions, NEW i \in 1 .. committed[p]
    PROVE  Handled(log'[Scored][p][i], rows', Settled')
<1>1. log'[Scored][p][i] = log[Scored][p][i]
  BY CommittedRecordKept DEF TypeOK, Topics
<1>2. Settled[DeadLetter] \subseteq Settled'[DeadLetter]
  BY SettledGrows DEF TypeOK, KafkaTypeOK, LogTypeOK, Topics
<1>3. Handled(log[Scored][p][i], rows, Settled)
  BY DEF CommittedIsStored
<1> QED
  BY <1>1, <1>2, <1>3, HandledMonotone

\* Rows of the log stay rows of the log.
LEMMA RowsFromLogKept ==
    ASSUME TypeOK, TypeOK', RowsFromLog, LogGrows, UNCHANGED rows
    PROVE  RowsFromLog'
<1>1. InLog(Scored) \subseteq InLog(Scored)'
  BY LogInLog DEF TypeOK, KafkaTypeOK, LogTypeOK, Topics
<1> QED
  BY <1>1 DEF RowsFromLog

LEMMA RowsUnchanged ==
    ASSUME TypeOK, UNCHANGED rows
    PROVE  RowsGrow
BY RowType DEF RowsGrow

LEMMA InitInv == Init => StoreInv
<1> SUFFICES ASSUME Init PROVE StoreInv
  OBVIOUS
<1>1. TypeOK
  <2>1. \A t \in Topics : log[t] \in [Partitions -> Seq(ValueType[t])]
    BY DEF Init, KafkaInit
  <2>2. exits \in 0 .. MaxExits
    BY MaxExitsAssumption DEF Init, KafkaInit
  <2> QED
    BY <2>1, <2>2 DEF Init, KafkaInit, TypeOK, KafkaTypeOK, ControlPoints
<1>2. \A p \in Partitions : Len(log[Scored][p]) = 0 /\ committed[p] = 0
  BY DEF Init, KafkaInit, Topics
<1>3. OneInHand(Scored) /\ CommittedIsStored
  BY <1>2 DEF OneInHand, InHand, CommittedIsStored, Init, KafkaInit
<1>4. OutputsIssued /\ RowsFromLog
  BY DEF OutputsIssued, RowsFromLog, Init, KafkaInit
<1> QED
  BY <1>1, <1>3, <1>4 DEF StoreInv

\* Steps that only move records: the broker's, the orphans', the detectors'.
LEMMA EnvironmentKeepsInv ==
    ASSUME StoreInv, Broker \/ Orphans \/ Environment
    PROVE  StoreInv'
<1>1. UNCHANGED <<committed, position, pc, msg, rows>> /\ outbox' \subseteq outbox
  BY DEF Broker, BrokerAnswers, Deliver, Reject, Orphans, OrphanStep, LateArrival,
         LostRequest, Environment, Ingest
<1>2. /\ TypeOK' /\ LogGrows
      /\ \A t \in Topics : rejected[t] \subseteq rejected'[t]
      /\ \A t \in Topics : Issued[t] \subseteq Issued'[t]
  <2>1. CASE Broker
    BY <2>1, BrokerAnswersOK DEF Broker, StoreInv, TypeOK
  <2>2. CASE Orphans
    <3>1. UNCHANGED rejected
      BY <2>2 DEF Orphans, OrphanStep, LateArrival, LostRequest
    <3> QED
      BY <2>2, <3>1, OrphanStepOK DEF Orphans, StoreInv, TypeOK
  <2>3. CASE Environment
    <3>1. PICK v \in Decisions \cup Invalid, p \in Partitions : Ingest(v, p)
      BY <2>3 DEF Environment
    <3>2. LogTypeOK(ValueType) /\ Scored \in Topics /\ v \in ValueType[Scored]
      BY DEF StoreInv, TypeOK, KafkaTypeOK, LogTypeOK, Topics, ValueType
    <3>3. LogTypeOK(ValueType)' /\ LogGrows
      BY <3>1, <3>2, AppendOK DEF Ingest
    <3>4. TypeOK'
      BY <3>1, <3>3 DEF Ingest, StoreInv, TypeOK, KafkaTypeOK, LogTypeOK, IsRequest
    <3>5. UNCHANGED <<rejected, outbox>>
      BY <3>1 DEF Ingest
    <3>6. \A t \in Topics : InLog(t) \subseteq InLog(t)'
      BY <3>2, <3>3, LogInLog
    <3> QED
      BY <3>3, <3>4, <3>5, <3>6 DEF Issued, Settled, Queued
  <2> QED
    BY <2>1, <2>2, <2>3
<1>3. RowsGrow
  BY <1>1, RowsUnchanged DEF StoreInv
<1>4. OneInHand(Scored)'
  BY <1>1, <1>2, OneInHandKept DEF StoreInv, TypeOK, InHand, Topics
<1>5. OutputsIssued'
  <2>1. ASSUME pc \in {"delivering", "committing"}
        PROVE  Handled(Payload(Scored)', rows', Issued')
    <3>1. Handled(Payload(Scored), rows, Issued)
      BY <2>1 DEF StoreInv, OutputsIssued
    <3>2. Payload(Scored)' = Payload(Scored)
      BY <1>1, <1>2, <2>1, PayloadKept DEF StoreInv, TypeOK, InHand, Topics
    <3>3. Issued[DeadLetter] \subseteq Issued'[DeadLetter]
      BY <1>2 DEF Topics
    <3> QED
      BY <1>2, <1>3, <3>1, <3>2, <3>3, HandledMonotone DEF StoreInv
  <2> QED
    BY <1>1, <2>1 DEF StoreInv, OutputsIssued
<1>6. RowsFromLog' /\ CommittedIsStored'
  BY <1>1, <1>2, <1>3, CommittedKept, RowsFromLogKept DEF StoreInv, CommittedIsStored
<1> QED
  BY <1>2, <1>4, <1>5, <1>6 DEF StoreInv

\* Steps of the worker that neither write nor commit.
LEMMA LoopKeepsInv ==
    ASSUME StoreInv,
           \/ StartStore
           \/ \E p \in Partitions : PollScored(p)
           \/ StoreRaises
           \/ FlushDeadLetter
           \/ CloseStore
           \/ ExitStore
           \/ StopStore
    PROVE  StoreInv'
<1>1. UNCHANGED <<log, committed, rejected, rows>>
  BY DEF StartStore, Start, PollScored, Poll, StoreRaises, Exit, FlushDeadLetter, Flushed,
         CloseStore, Close, CountedExit, ExitStore, FlushTimeout, Crash, StopStore, Stop
<1>2. \/ Start \/ (\E p \in Partitions : Poll(Scored, p)) \/ Flushed \/ Stop
      \/ (Exit /\ exits' \in 0 .. MaxExits)
  BY MaxExitsAssumption
     DEF StartStore, PollScored, StoreRaises, FlushDeadLetter, CloseStore, Close, ExitStore,
         FlushTimeout, Crash, CountedExit, StopStore, StoreInv, TypeOK, KafkaTypeOK
<1>3. TypeOK'
  BY <1>1, <1>2, LoopTypesOK DEF StoreInv, TypeOK, Topics
<1>4. LogGrows /\ OneInHand(Scored)'
  BY <1>2, <1>3, LoopOneInHand DEF StoreInv, TypeOK, Topics
<1>5. RowsFromLog' /\ CommittedIsStored'
  BY <1>1, <1>3, <1>4, RowsUnchanged, CommittedKept, RowsFromLogKept
     DEF StoreInv, CommittedIsStored
<1>6. OutputsIssued'
  <2>1. CASE StartStore \/ StopStore \/ \E p \in Partitions : PollScored(p)
    BY <2>1 DEF StartStore, Start, StopStore, Stop, PollScored, Poll, StoreInv, OutputsIssued
  <2>2. CASE StoreRaises \/ CloseStore \/ ExitStore
    BY <2>2 DEF StoreRaises, CloseStore, Close, ExitStore, FlushTimeout, Crash, CountedExit,
                Exit, OutputsIssued
  <2>3. CASE FlushDeadLetter
    <3>1. Payload(Scored)' = Payload(Scored) /\ Issued' = Issued
      BY <1>1, <2>3 DEF FlushDeadLetter, Flushed, Payload, Issued, Settled, InLog, Queued
    <3> QED
      BY <1>1, <2>3, <3>1 DEF FlushDeadLetter, Flushed, StoreInv, OutputsIssued
  <2> QED
    BY <2>1, <2>2, <2>3
<1> QED
  BY <1>3, <1>4, <1>5, <1>6 DEF StoreInv

\* The upsert: no row gets older, and the decision in hand is in the table.
LEMMA UpsertGrows ==
    ASSUME TypeOK, NEW d \in Decisions, Upsert(d)
    PROVE  /\ RowsGrow
           /\ Stored(d, rows')
           /\ \A t \in Transactions :
                 rows'[t] = rows[t] \/ (rows'[t] = d /\ d.transaction_id = t)
           /\ DOMAIN rows' = Transactions
<1> DEFINE u == d.transaction_id
<1>1. u \in Transactions /\ d.processed_at \in Nat /\ DOMAIN rows = Transactions
  BY DecisionsAssumption DEF TypeOK
<1>2. \A t \in Transactions : rows[t].processed_at \in Int
  BY RowType
<1>3. CASE rows[u].processed_at <= d.processed_at
  <2>1. rows' = [rows EXCEPT ![u] = d]
    BY <1>3 DEF Upsert
  <2>2. rows'[u] = d /\ \A t \in Transactions \ {u} : rows'[t] = rows[t]
    BY <1>1, <2>1
  <2> QED
    BY <1>1, <1>2, <1>3, <2>1, <2>2 DEF RowsGrow, Stored
<1>4. CASE ~ (rows[u].processed_at <= d.processed_at)
  <2>1. rows' = rows
    BY <1>4 DEF Upsert
  <2> QED
    BY <1>1, <1>2, <1>4, <2>1 DEF RowsGrow, Stored
<1> QED
  BY <1>3, <1>4

LEMMA StoreKeepsInv == ASSUME StoreInv, StoreDecision PROVE StoreInv'
<1> DEFINE d == Payload(Scored)
<1>1. /\ pc = "processing" /\ pc' = "committing" /\ d \in Decisions /\ Upsert(d)
      /\ UNCHANGED <<log, committed, position, msg, outbox, orphans, rejected, exits>>
  BY DEF StoreDecision
<1>2. d' = d /\ d \in InLog(Scored) /\ InLog(Scored)' = InLog(Scored)
  <2>1. d' = d /\ InLog(Scored)' = InLog(Scored)
    BY <1>1 DEF Payload, InLog
  <2>2. d \in InLog(Scored)
    BY <1>1, PayloadInLog DEF StoreInv, TypeOK, InHand, Topics
  <2> QED
    BY <2>1, <2>2
<1> HIDE DEF d
<1>3. /\ RowsGrow /\ Stored(d, rows') /\ DOMAIN rows' = Transactions
      /\ \A t \in Transactions :
            rows'[t] = rows[t] \/ (rows'[t] = d /\ d.transaction_id = t)
  BY <1>1, UpsertGrows DEF StoreInv
<1>4. TypeOK'
  <2>1. KafkaTypeOK(ValueType)'
    BY <1>1 DEF StoreInv, TypeOK, KafkaTypeOK, ControlPoints, IsRequest
  <2> QED
    BY <1>1, <1>3, <2>1 DEF StoreInv, TypeOK
<1>5. LogGrows
  BY <1>1, LogUnchanged DEF StoreInv, TypeOK, KafkaTypeOK, LogTypeOK
<1>6. OneInHand(Scored)'
  BY <1>1, <1>4, <1>5, OneInHandKept DEF StoreInv, TypeOK, InHand, Topics
<1>7. RowsFromLog'
  BY <1>2, <1>3 DEF StoreInv, RowsFromLog
<1>8. CommittedIsStored'
  BY <1>1, <1>3, <1>4, <1>5, CommittedKept DEF StoreInv, CommittedIsStored
<1>9. OutputsIssued'
  <2>1. d \notin Invalid
    BY <1>1, InvalidAssumption
  <2>2. Handled(Payload(Scored)', rows', Issued')
    BY <1>2, <1>3, <2>1 DEF Handled, d
  <2>3. outbox' = {}
    BY <1>1 DEF StoreInv, OutputsIssued
  <2> QED
    BY <2>2, <2>3 DEF OutputsIssued
<1> QED
  BY <1>4, <1>6, <1>7, <1>8, <1>9 DEF StoreInv

LEMMA DeadLetterKeepsInv == ASSUME StoreInv, DeadLetterDecision PROVE StoreInv'
<1> DEFINE v == Payload(Scored)
           q == Request(DeadLetter, DeadLetterPartition, v)
<1>1. pc = "processing" /\ v \in Invalid /\ Produce({q}) /\ UNCHANGED rows
  BY DEF DeadLetterDecision
<1>2. IsRequest(q, ValueType)
  <2>1. DeadLetter \in Topics /\ ValueType[DeadLetter] = Invalid
    BY DEF Topics, ValueType, DeadLetter, Scored
  <2>2. exits \in 0 .. MaxExits
    BY DEF StoreInv, TypeOK, KafkaTypeOK
  <2> QED
    BY <1>1, <2>1, <2>2, DeadLetterPartitionAssumption DEF IsRequest, Request
<1>3. TypeOK'
  BY <1>1, <1>2, ProduceTypesOK DEF StoreInv, TypeOK
<1>4. /\ UNCHANGED <<log, committed, position, msg, rejected>>
      /\ pc' = "delivering" /\ q \in outbox'
  BY <1>1 DEF Produce
<1>5. LogGrows
  BY <1>4, LogUnchanged DEF StoreInv, TypeOK, KafkaTypeOK, LogTypeOK
<1>6. OneInHand(Scored)'
  BY <1>1, <1>3, <1>4, <1>5, OneInHandKept DEF StoreInv, TypeOK, InHand, Topics
<1>7. RowsFromLog' /\ CommittedIsStored'
  BY <1>1, <1>3, <1>4, <1>5, RowsUnchanged, CommittedKept, RowsFromLogKept
     DEF StoreInv, CommittedIsStored
<1>8. OutputsIssued'
  <2>1. v \in Issued'[DeadLetter]
    BY <1>4 DEF Issued, Queued, Request, Topics
  <2>2. Payload(Scored)' = v /\ v \notin Decisions
    BY <1>1, <1>4, InvalidAssumption DEF Payload
  <2> QED
    BY <1>4, <2>1, <2>2 DEF OutputsIssued, Handled, Stored
<1> QED
  BY <1>3, <1>6, <1>7, <1>8 DEF StoreInv

\* The commit: nothing is outstanding, so what was issued is settled.
LEMMA CommitKeepsInv == ASSUME StoreInv, CommitOffset PROVE StoreInv'
<1>1. /\ outbox = {} /\ outbox' = {} /\ pc = "committing" /\ pc' = "polling"
      /\ UNCHANGED <<log, rejected, rows>>
  BY DEF CommitOffset, Commit, StoreInv, OutputsIssued
<1>2. /\ KafkaTypeOK(ValueType)' /\ OneInHand(Scored)' /\ LogGrows
      /\ \A p \in Partitions : \A i \in 1 .. committed'[p] :
            i \in 1 .. committed[p] \/ log'[Scored][p][i] = Payload(Scored)
  BY CommitOneInHand DEF CommitOffset, StoreInv, TypeOK, Topics
<1>3. TypeOK'
  BY <1>1, <1>2 DEF StoreInv, TypeOK
<1>4. CommittedIsStored'
  <2>1. Handled(Payload(Scored), rows', Settled')
    <3>1. Handled(Payload(Scored), rows, Issued)
      BY <1>1 DEF StoreInv, OutputsIssued
    <3>2. Issued[DeadLetter] \subseteq Settled'[DeadLetter]
      BY <1>1 DEF Issued, Settled, Queued, InLog, Topics
    <3> QED
      BY <1>1, <3>1, <3>2 DEF Handled
  <2>2. ASSUME NEW p \in Partitions, NEW i \in 1 .. committed'[p]
        PROVE  Handled(log'[Scored][p][i], rows', Settled')
    <3>1. CASE i \in 1 .. committed[p]
      BY <1>1, <1>2, <1>3, <3>1, CommittedKept, RowsUnchanged DEF StoreInv
    <3>2. CASE log'[Scored][p][i] = Payload(Scored)
      BY <2>1, <3>2
    <3> QED
      BY <1>2, <3>1, <3>2
  <2> QED
    BY <2>2 DEF CommittedIsStored
<1>5. OutputsIssued' /\ RowsFromLog'
  BY <1>1, <1>2, <1>3, RowsFromLogKept DEF StoreInv, OutputsIssued
<1> QED
  BY <1>2, <1>3, <1>4, <1>5 DEF StoreInv

LEMMA StutterKeepsInv == ASSUME StoreInv, UNCHANGED vars PROVE StoreInv'
<1>1. UNCHANGED <<log, committed, position, pc, msg, outbox, orphans, rejected, exits, rows>>
  BY DEF vars, kafkaVars
<1>2. TypeOK'
  BY <1>1 DEF StoreInv, TypeOK, KafkaTypeOK, IsRequest
<1>3. OneInHand(Scored)' /\ OutputsIssued' /\ RowsFromLog'
  BY <1>1 DEF StoreInv, OneInHand, InHand, OutputsIssued, RowsFromLog, Payload, Issued,
              Settled, InLog, Queued
<1>4. CommittedIsStored'
  BY <1>1 DEF StoreInv, CommittedIsStored, Settled, InLog
<1> QED
  BY <1>2, <1>3, <1>4 DEF StoreInv

LEMMA NextKeepsInv == StoreInv /\ [Next]_vars => StoreInv'
<1> SUFFICES ASSUME StoreInv, [Next]_vars PROVE StoreInv'
  OBVIOUS
<1>1. CASE WorkerStep
  BY <1>1, LoopKeepsInv, StoreKeepsInv, DeadLetterKeepsInv, CommitKeepsInv DEF WorkerStep
<1>2. CASE Broker \/ Orphans \/ Environment
  BY <1>2, EnvironmentKeepsInv
<1>3. CASE ExitStore \/ StopStore
  BY <1>3, LoopKeepsInv
<1>4. CASE Idle \/ UNCHANGED vars
  BY <1>4, StutterKeepsInv DEF Idle, IdlePoll, vars
<1> QED
  BY <1>1, <1>2, <1>3, <1>4 DEF Next

-----------------------------------------------------------------------------
(* The theorems. *)

\* Write, then commit, one message at a time -- the invariant of the store.
THEOREM Invariance == Spec => []StoreInv
  BY InitInv, NextKeepsInv, PTL DEF Spec

\* The store's variables keep their types.
THEOREM TypeCorrect == Spec => []TypeOK
<1>1. StoreInv => TypeOK
  BY DEF StoreInv
<1> QED
  BY <1>1, Invariance, PTL

\* decision_store.py loses no decision: wherever it crashes, a committed decision
\* is in its row, or a decision that is as new is, and a committed payload that
\* did not validate is in the dead letters (or was refused there).
THEOREM NothingCommittedUnstored == Spec => []CommittedIsStored
<1>1. StoreInv => CommittedIsStored
  BY DEF StoreInv
<1> QED
  BY <1>1, Invariance, PTL

\* A table that has caught up with the topic shows, of every transaction in it,
\* the newest decision, and one that is in the topic.
THEOREM CaughtUpIsNewest == Spec => []SettledRowIsNewest
<1>1. StoreInv => SettledRowIsNewest
  <2> SUFFICES ASSUME StoreInv, \A p \in Partitions : committed[p] = Len(log[Scored][p]),
                      NEW t \in Transactions, NEW d \in InLog(Scored) \cap Decisions,
                      d.transaction_id = t
               PROVE  rows[t].processed_at >= d.processed_at /\ rows[t] \in InLog(Scored)
    BY DEF SettledRowIsNewest
  <2>1. PICK p \in Partitions : \E i \in 1 .. Len(log[Scored][p]) : d = log[Scored][p][i]
    BY DEF InLog
  <2>2. PICK i \in 1 .. committed[p] : d = log[Scored][p][i]
    BY <2>1
  <2>3. rows[t].processed_at >= d.processed_at
    BY <2>2 DEF StoreInv, CommittedIsStored, Handled, Stored
  <2>4. rows[t] # NoRow
    BY <2>3, DecisionsAssumption DEF NoRow
  <2> QED
    BY <2>3, <2>4 DEF StoreInv, RowsFromLog
<1> QED
  BY <1>1, Invariance, PTL
=============================================================================
