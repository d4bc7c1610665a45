-------------------------- MODULE KafkaWorkerProofs --------------------------
(***************************************************************************)
(* Lemmas about the actions every Kafka worker shares: they keep the types *)
(* of the Kafka state, records never leave a log, and what was issued      *)
(* stays issued as long as the process lives.                              *)
(***************************************************************************)
EXTENDS KafkaWorker, SequenceTheorems, TLAPS

\* Every record keeps its place: a step only appends to the topic partitions.
LogGrows ==
    \A t \in Topics, p \in Partitions :
       /\ Len(log[t][p]) <= Len(log'[t][p])
       /\ \A i \in 1 .. Len(log[t][p]) : log'[t][p][i] = log[t][p][i]

LogTypeOK(ValueType) ==
    /\ DOMAIN log = Topics
    /\ \A t \in Topics : log[t] \in [Partitions -> Seq(ValueType[t])]

\* Appending a value of the right type keeps the type of the logs and every
\* record already there.
LEMMA AppendOK ==
    ASSUME NEW V, LogTypeOK(V),
           NEW t \in Topics, NEW p \in Partitions, NEW v \in V[t],
           log' = Appended(t, p, v)
    PROVE  /\ LogTypeOK(V)'
           /\ LogGrows
           /\ Len(log'[t][p]) = Len(log[t][p]) + 1
           /\ log'[t][p][Len(log[t][p]) + 1] = v
<1> DEFINE old == log[t][p]
<1>1. log[t] \in [Partitions -> Seq(V[t])] /\ old \in Seq(V[t])
  BY DEF LogTypeOK
<1>2. /\ Append(old, v) \in Seq(V[t])
      /\ Len(Append(old, v)) = Len(old) + 1
      /\ Append(old, v)[Len(old) + 1] = v
      /\ \A i \in 1 .. Len(old) : Append(old, v)[i] = old[i]
  <2> HIDE DEF old
  <2> QED
    BY <1>1, AppendProperties
<1>3. log' = [log EXCEPT ![t] = [log[t] EXCEPT ![p] = Append(old, v)]]
  BY DEF Appended
<1>4. log'[t] = [log[t] EXCEPT ![p] = Append(old, v)]
  BY <1>3 DEF LogTypeOK
<1>5. log'[t][p] = Append(old, v)
  BY <1>1, <1>4
<1>6. \A u \in Topics, q \in Partitions : <<u, q>> # <<t, p>> => log'[u][q] = log[u][q]
  BY <1>1, <1>3, <1>4 DEF LogTypeOK
<1>7. LogTypeOK(V)'
  <2>1. DOMAIN log' = Topics
    BY <1>3 DEF LogTypeOK
  <2>2. ASSUME NEW u \in Topics PROVE log'[u] \in [Partitions -> Seq(V[u])]
    <3>1. CASE u = t
      BY <1>1, <1>2, <1>4, <3>1
    <3>2. CASE u # t
      BY <1>3, <3>2 DEF LogTypeOK
    <3> QED
      BY <3>1, <3>2
  <2> QED
    BY <2>1, <2>2 DEF LogTypeOK
<1>8. ASSUME NEW u \in Topics, NEW q \in Partitions
       PROVE  /\ Len(log[u][q]) <= Len(log'[u][q])
              /\ \A i \in 1 .. Len(log[u][q]) : log'[u][q][i] = log[u][q][i]
  <2>1. log[u][q] \in Seq(V[u]) /\ Len(log[u][q]) \in Nat
    BY DEF LogTypeOK
  <2>2. CASE u = t /\ q = p
    BY <1>2, <1>5, <2>1, <2>2
  <2>3. CASE ~ (u = t /\ q = p)
    BY <1>6, <2>1, <2>3
  <2> QED
    BY <2>2, <2>3
<1> QED
  BY <1>2, <1>5, <1>7, <1>8 DEF LogGrows

\* A record that an append did not find there is the appended one.
LEMMA AppendAt ==
    ASSUME NEW V, LogTypeOK(V),
           NEW t \in Topics, NEW p \in Partitions, NEW v,
           log' = Appended(t, p, v),
           NEW u \in Topics, NEW q \in Partitions, NEW i \in 1 .. Len(log'[u][q])
    PROVE  \/ i \in 1 .. Len(log[u][q]) /\ log'[u][q][i] = log[u][q][i]
           \/ u = t /\ q = p /\ i = Len(log[u][q]) + 1 /\ log'[u][q][i] = v
<1>1. log[u] \in [Partitions -> Seq(V[u])] /\ log[u][q] \in Seq(V[u])
  BY DEF LogTypeOK
<1>2. CASE u = t /\ q = p
  <2>1. log' = [log EXCEPT ![t] = [log[t] EXCEPT ![p] = Append(log[t][p], v)]]
    BY DEF Appended
  <2>2. log'[u][q] = Append(log[u][q], v)
    BY <1>1, <1>2, <2>1 DEF LogTypeOK
  <2>3. /\ Len(log[u][q]) \in Nat
        /\ Len(log'[u][q]) = Len(log[u][q]) + 1
        /\ log'[u][q][Len(log[u][q]) + 1] = v
        /\ \A j \in 1 .. Len(log[u][q]) : log'[u][q][j] = log[u][q][j]
    <3>1. log[u][q] \in Seq(V[u] \cup {v})
      BY <1>1
    <3> QED
      BY <2>2, <3>1
  <2>4. i \in 1 .. Len(log[u][q]) \/ i = Len(log[u][q]) + 1
    BY <2>3
  <2> QED
    BY <1>2, <2>3, <2>4
<1>3. CASE ~ (u = t /\ q = p)
  <2>1. log'[u][q] = log[u][q]
    BY <1>1, <1>3 DEF Appended, LogTypeOK
  <2> QED
    BY <2>1
<1> QED
  BY <1>2, <1>3

\* An append adds its value to its topic, and nothing to the others.
LEMMA AppendInLog ==
    ASSUME NEW V, LogTypeOK(V),
           NEW t \in Topics, NEW p \in Partitions, NEW v,
           log' = Appended(t, p, v),
           NEW u \in Topics, NEW w \in InLog(u)'
    PROVE  w \in InLog(u) \/ (u = t /\ w = v)
<1>1. PICK q \in Partitions : \E i \in 1 .. Len(log'[u][q]) : w = log'[u][q][i]
  BY DEF InLog
<1>2. PICK i \in 1 .. Len(log'[u][q]) : w = log'[u][q][i]
  BY <1>1
<1>3. (i \in 1 .. Len(log[u][q]) /\ w = log[u][q][i]) \/ (u = t /\ w = v)
  BY <1>2, AppendAt
<1> QED
  BY <1>3 DEF InLog

\* A step that leaves the logs alone grows them trivially.
LEMMA LogUnchanged ==
    ASSUME NEW V, LogTypeOK(V), UNCHANGED log
    PROVE  LogGrows
BY DEF LogTypeOK, LogGrows

\* What is in a topic stays there.
LEMMA LogInLog ==
    ASSUME NEW V, LogTypeOK(V), LogTypeOK(V)', LogGrows, NEW t \in Topics
    PROVE  InLog(t) \subseteq InLog(t)'
<1>1. ASSUME NEW v \in InLog(t) PROVE v \in InLog(t)'
  <2>1. PICK p \in Partitions : \E i \in 1 .. Len(log[t][p]) : v = log[t][p][i]
    BY <1>1 DEF InLog
  <2>2. PICK i \in 1 .. Len(log[t][p]) : v = log[t][p][i]
    BY <2>1
  <2>3. Len(log[t][p]) <= Len(log'[t][p]) /\ log'[t][p][i] = v
    BY <2>2 DEF LogGrows
  <2>4. Len(log[t][p]) \in Nat /\ Len(log'[t][p]) \in Nat
    BY DEF LogTypeOK
  <2>5. i \in 1 .. Len(log'[t][p])
    BY <2>3, <2>4
  <2> QED
    BY <2>3, <2>5 DEF InLog
<1> QED
  BY <1>1

\* Every answer of the broker keeps the types, only grows the logs, and moves a
\* value from the producer's queue to the topic or to the rejected values.
LEMMA BrokerAnswersOK ==
    ASSUME NEW V, KafkaTypeOK(V), BrokerAnswers
    PROVE  /\ KafkaTypeOK(V)'
           /\ LogGrows
           /\ \A t \in Topics : rejected[t] \subseteq rejected'[t]
           /\ \A t \in Topics : Issued[t] \subseteq Issued'[t]
<1>1. PICK r \in outbox : Deliver(r) \/ Reject(r)
  BY DEF BrokerAnswers
<1>2. IsRequest(r, V) /\ LogTypeOK(V)
  BY <1>1 DEF KafkaTypeOK, LogTypeOK
<1>3. CASE Deliver(r)
  <2>1. log' = Appended(r.topic, r.partition, r.value) /\ UNCHANGED rejected
    BY <1>3 DEF Deliver
  <2>2. /\ LogTypeOK(V)' /\ LogGrows
        /\ Len(log'[r.topic][r.partition]) = Len(log[r.topic][r.partition]) + 1
        /\ log'[r.topic][r.partition][Len(log[r.topic][r.partition]) + 1] = r.value
    BY <1>2, <2>1, AppendOK DEF IsRequest
  <2>3. KafkaTypeOK(V)'
    BY <1>3, <2>2 DEF KafkaTypeOK, LogTypeOK, Deliver, IsRequest
  <2>4. r.value \in InLog(r.topic)'
    <3>1. Len(log[r.topic][r.partition]) \in Nat
      BY <1>2 DEF LogTypeOK, IsRequest
    <3> QED
      BY <1>2, <2>2, <3>1 DEF InLog, IsRequest
  <2>5. ASSUME NEW t \in Topics PROVE Issued[t] \subseteq Issued'[t]
    <3>1. InLog(t) \subseteq InLog(t)'
      BY <1>2, <2>2, LogInLog
    <3>2. Queued(t) \subseteq Queued(t)' \cup InLog(t)'
      BY <1>3, <2>4 DEF Deliver, Queued
    <3> QED
      BY <2>1, <3>1, <3>2 DEF Issued, Settled
  <2> QED
    BY <2>1, <2>2, <2>3, <2>5
<1>4. CASE Reject(r)
  <2>1. UNCHANGED log /\ rejected' = [rejected EXCEPT ![r.topic] = @ \cup {r.value}]
    BY <1>4 DEF Reject
  <2>2. KafkaTypeOK(V)'
    BY <1>2, <1>4, <2>1 DEF KafkaTypeOK, Reject, IsRequest
  <2>3. \A t \in Topics : rejected[t] \subseteq rejected'[t]
    BY <2>1 DEF KafkaTypeOK
  <2>4. r.value \in rejected'[r.topic]
    BY <1>2, <2>1 DEF KafkaTypeOK, IsRequest
  <2>5. ASSUME NEW t \in Topics PROVE Issued[t] \subseteq Issued'[t]
    <3>1. InLog(t) = InLog(t)'
      BY <2>1 DEF InLog
    <3>2. Queued(t) \subseteq Queued(t)' \cup rejected'[t]
      BY <1>4, <2>4 DEF Reject, Queued
    <3> QED
      BY <2>3, <3>1, <3>2 DEF Issued, Settled
  <2> QED
    BY <1>2, <2>1, <2>2, <2>3, <2>5, LogUnchanged
<1> QED
  BY <1>1, <1>3, <1>4

\* A request of a dead process that lands, or is lost, keeps the types; nothing
\* the running process issued is affected.
LEMMA OrphanStepOK ==
    ASSUME NEW V, KafkaTypeOK(V), OrphanStep
    PROVE  /\ KafkaTypeOK(V)'
           /\ LogGrows
           /\ \A t \in Topics : Issued[t] \subseteq Issued'[t]
<1>1. PICK r \in orphans : LateArrival(r) \/ LostRequest(r)
  BY DEF OrphanStep
<1>2. IsRequest(r, V) /\ LogTypeOK(V)
  BY <1>1 DEF KafkaTypeOK, LogTypeOK
<1>3. LogTypeOK(V)' /\ LogGrows
  <2>1. CASE LateArrival(r)
    BY <1>2, <2>1, AppendOK DEF LateArrival, IsRequest
  <2>2. CASE LostRequest(r)
    <3>1. UNCHANGED log
      BY <2>2 DEF LostRequest
    <3> QED
      BY <1>2, <3>1, LogUnchanged DEF LogTypeOK
  <2> QED
    BY <1>1, <2>1, <2>2
<1>4. KafkaTypeOK(V)'
  BY <1>1, <1>3 DEF KafkaTypeOK, LogTypeOK, LateArrival, LostRequest
<1>5. ASSUME NEW t \in Topics PROVE Issued[t] \subseteq Issued'[t]
  <2>1. InLog(t) \subseteq InLog(t)'
    BY <1>2, <1>3, LogInLog
  <2>2. UNCHANGED rejected /\ Queued(t) = Queued(t)'
    BY <1>1 DEF LateArrival, LostRequest, Queued
  <2> QED
    BY <2>1, <2>2 DEF Issued, Settled
<1> QED
  BY <1>3, <1>4, <1>5

\* The loop's own actions keep the types; Produce does when its requests are typed.
LEMMA LoopTypesOK ==
    ASSUME NEW V, KafkaTypeOK(V), NEW topic \in Topics,
           \/ Start
           \/ \E p \in Partitions : Poll(topic, p)
           \/ Flushed
           \/ Commit /\ msg \in Messages
           \/ Stop
           \/ Exit /\ exits' \in 0 .. MaxExits
    PROVE  KafkaTypeOK(V)'
<1>1. CASE Start
  BY <1>1 DEF KafkaTypeOK, Start, ControlPoints, IsRequest
<1>2. CASE \E p \in Partitions : Poll(topic, p)
  <2>1. PICK p \in Partitions : Poll(topic, p)
    BY <1>2
  <2>2. position[p] \in Nat /\ position' = [position EXCEPT ![p] = position[p] + 1]
    BY <2>1 DEF KafkaTypeOK, Poll
  <2>3. position' \in [Partitions -> Nat] /\ msg' \in Messages
    BY <2>1, <2>2 DEF KafkaTypeOK, Poll, Messages
  <2> QED
    BY <2>1, <2>3 DEF KafkaTypeOK, Poll, ControlPoints, IsRequest
<1>3. CASE Flushed
  BY <1>3 DEF KafkaTypeOK, Flushed, ControlPoints, IsRequest
<1>4. CASE Commit /\ msg \in Messages
  <2>1. msg.partition \in Partitions /\ msg.offset + 1 \in Nat
    BY <1>4 DEF Messages
  <2>2. committed' \in [Partitions -> Nat]
    BY <1>4, <2>1 DEF Commit, KafkaTypeOK
  <2> QED
    BY <1>4, <2>2 DEF KafkaTypeOK, Commit, ControlPoints, IsRequest
<1>5. CASE Stop
  BY <1>5 DEF KafkaTypeOK, Stop, ControlPoints, IsRequest
<1>6. CASE Exit /\ exits' \in 0 .. MaxExits
  BY <1>6 DEF KafkaTypeOK, Exit, ControlPoints, IsRequest
<1> QED
  BY <1>1, <1>2, <1>3, <1>4, <1>5, <1>6

LEMMA ProduceTypesOK ==
    ASSUME NEW V, KafkaTypeOK(V), NEW requests, Produce(requests),
           \A r \in requests : IsRequest(r, V)
    PROVE  KafkaTypeOK(V)'
BY DEF KafkaTypeOK, Produce, ControlPoints, IsRequest

\* When the logs and the rejected values only grow, so does what is settled.
LEMMA SettledGrows ==
    ASSUME NEW V, LogTypeOK(V), LogTypeOK(V)', LogGrows,
           \A t \in Topics : rejected[t] \subseteq rejected'[t],
           NEW t \in Topics
    PROVE  Settled[t] \subseteq Settled'[t]
BY LogInLog DEF Settled
-----------------------------------------------------------------------------
(* One message at a time. *)

\* The types of an input topic and of the offsets the group has committed on it.
LEMMA InputType ==
    ASSUME NEW V, KafkaTypeOK(V), NEW topic \in Topics, NEW p \in Partitions
    PROVE  /\ log[topic][p] \in Seq(V[topic])
           /\ Len(log[topic][p]) \in Nat
           /\ committed[p] \in Nat
BY DEF KafkaTypeOK

\* The message in hand is a record of the input topic ...
LEMMA PayloadInLog ==
    ASSUME NEW V, KafkaTypeOK(V), NEW topic \in Topics, OneInHand(topic), InHand
    PROVE  /\ msg.partition \in Partitions
           /\ msg.offset + 1 \in 1 .. Len(log[topic][msg.partition])
           /\ Payload(topic) \in V[topic]
           /\ Payload(topic) \in InLog(topic)
<1>1. msg \in Messages /\ msg.offset < Len(log[topic][msg.partition])
  BY DEF OneInHand
<1>2. msg.partition \in Partitions /\ msg.offset + 1 \in 1 .. Len(log[topic][msg.partition])
  BY <1>1, InputType DEF Messages
<1> QED
  BY <1>2, InputType DEF Payload, InLog

\* ... and stays the same one while the logs grow.
LEMMA PayloadKept ==
    ASSUME NEW V, KafkaTypeOK(V), NEW topic \in Topics, OneInHand(topic), InHand,
           LogGrows, UNCHANGED msg
    PROVE  Payload(topic)' = Payload(topic)
BY PayloadInLog DEF Payload, LogGrows

\* What was committed before a step that grows the logs is where it was.
LEMMA CommittedRecordKept ==
    ASSUME NEW V, KafkaTypeOK(V), NEW topic \in Topics, OneInHand(topic), LogGrows,
           NEW p \in Partitions, NEW i \in 1 .. committed[p]
    PROVE  log'[topic][p][i] = log[topic][p][i]
<1>1. i \in 1 .. Len(log[topic][p])
  BY InputType DEF OneInHand
<1> QED
  BY <1>1 DEF LogGrows

\* A step that leaves the offsets and the message in hand alone, and neither
\* takes a message nor lets go of one, keeps OneInHand.
LEMMA OneInHandKept ==
    ASSUME NEW V, KafkaTypeOK(V), KafkaTypeOK(V)', NEW topic \in Topics,
           OneInHand(topic), LogGrows, UNCHANGED <<committed, position, msg>>,
           InHand' => InHand,
           pc' \in {"polling", "closing"} => pc \in {"polling", "closing"}
    PROVE  OneInHand(topic)'
<1>1. ASSUME NEW p \in Partitions
      PROVE  /\ Len(log[topic][p]) <= Len(log'[topic][p])
             /\ Len(log[topic][p]) \in Nat /\ Len(log'[topic][p]) \in Nat
             /\ committed[p] \in Nat
  BY InputType DEF LogGrows
<1>2. \A p \in Partitions : committed'[p] <= Len(log'[topic][p])
  BY <1>1 DEF OneInHand
<1>3. ASSUME InHand' PROVE msg \in Messages /\ msg.offset < Len(log'[topic][msg.partition])
  <2>1. msg.partition \in Partitions /\ msg.offset \in Nat
    BY <1>3 DEF OneInHand, Messages
  <2> QED
    BY <1>1, <1>3, <2>1 DEF OneInHand
<1> QED
  BY <1>2, <1>3 DEF OneInHand

\* The loop's own actions keep it.
LEMMA LoopOneInHand ==
    ASSUME NEW V, KafkaTypeOK(V), KafkaTypeOK(V)', NEW topic \in Topics, OneInHand(topic),
           \/ Start
           \/ \E p \in Partitions : Poll(topic, p)
           \/ Flushed
           \/ Stop
           \/ Exit
    PROVE  OneInHand(topic)' /\ LogGrows
<1>1. UNCHANGED <<log, committed>>
  BY DEF Start, Poll, Flushed, Stop, Exit
<1>2. LogGrows
  BY <1>1, LogUnchanged DEF KafkaTypeOK, LogTypeOK
<1>3. CASE Start
  BY <1>1, <1>2, <1>3 DEF Start, OneInHand, InHand
<1>4. CASE \E p \in Partitions : Poll(topic, p)
  <2>1. PICK p \in Partitions : Poll(topic, p)
    BY <1>4
  <2>2. position = committed /\ pc' = "processing"
    BY <2>1 DEF Poll, OneInHand
  <2>3. msg' = [partition |-> p, offset |-> committed[p]]
    BY <2>1, <2>2 DEF Poll
  <2>4. committed[p] \in Nat /\ committed[p] < Len(log[topic][p])
    BY <2>1, <2>2, InputType DEF Poll
  <2>5. msg' \in Messages
    BY <2>3, <2>4 DEF Messages
  <2>6. position' = [committed EXCEPT ![msg'.partition] = @ + 1]
    BY <2>1, <2>2, <2>3 DEF Poll
  <2> QED
    BY <1>1, <1>2, <2>2, <2>3, <2>4, <2>5, <2>6 DEF OneInHand, InHand
<1>5. CASE Flushed \/ Stop
  BY <1>2, <1>5, OneInHandKept DEF Flushed, Stop, InHand
<1>6. CASE Exit
  BY <1>1, <1>2, <1>6 DEF Exit, OneInHand, InHand
<1> QED
  BY <1>2, <1>3, <1>4, <1>5, <1>6

\* A commit advances the partition of the message in hand by that message.
LEMMA CommitOneInHand ==
    ASSUME NEW V, KafkaTypeOK(V), NEW topic \in Topics, OneInHand(topic), Commit
    PROVE  /\ KafkaTypeOK(V)' /\ OneInHand(topic)' /\ LogGrows
           /\ committed' = [committed EXCEPT ![msg.partition] = @ + 1]
           /\ \A p \in Partitions : \A i \in 1 .. committed'[p] :
                 i \in 1 .. committed[p] \/ log'[topic][p][i] = Payload(topic)
<1> DEFINE q == msg.partition
<1>1. /\ pc = "committing" /\ pc' = "polling"
      /\ UNCHANGED <<log, position>>
      /\ committed' = [committed EXCEPT ![q] = msg.offset + 1]
  BY DEF Commit
<1>2. /\ msg \in Messages /\ q \in Partitions
      /\ msg.offset = committed[q]
      /\ msg.offset < Len(log[topic][q])
      /\ position = [committed EXCEPT ![q] = @ + 1]
  BY <1>1 DEF OneInHand, InHand, Messages
<1>3. committed' = [committed EXCEPT ![q] = @ + 1] /\ position' = committed'
  BY <1>1, <1>2
<1>4. KafkaTypeOK(V)'
  BY <1>2, LoopTypesOK
<1>5. \A p \in Partitions : committed[p] \in Nat /\ Len(log[topic][p]) \in Nat
  BY InputType
<1>6. \A p \in Partitions : committed'[p] = IF p = q THEN committed[q] + 1 ELSE committed[p]
  BY <1>3 DEF KafkaTypeOK
<1>7. OneInHand(topic)'
  BY <1>1, <1>2, <1>3, <1>5, <1>6 DEF OneInHand, InHand
<1>8. LogGrows
  BY <1>1, LogUnchanged DEF KafkaTypeOK, LogTypeOK
<1>9. Payload(topic) = log'[topic][q][committed[q] + 1]
  BY <1>1, <1>2 DEF Payload
<1>10. ASSUME NEW p \in Partitions, NEW i \in 1 .. committed'[p]
       PROVE  i \in 1 .. committed[p] \/ log'[topic][p][i] = Payload(topic)
  <2>1. i \in 1 .. committed[p] \/ (p = q /\ i = committed[q] + 1)
    BY <1>5, <1>6
  <2> QED
    BY <1>9, <2>1
<1> QED
  BY <1>3, <1>4, <1>7, <1>8, <1>10
=============================================================================
