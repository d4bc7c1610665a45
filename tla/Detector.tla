------------------------------ MODULE Detector ------------------------------
(***************************************************************************)
(* DetectionWorker (detector.py): consume transactions.raw, score each     *)
(* transaction against the in-memory customer history, publish the         *)
(* decision (and an alert when it is not an approval), flush, commit.      *)
(***************************************************************************)
EXTENDS KafkaWorker, FraudScoring

CONSTANTS
    Malformed,     \* payloads TransactionEvent.model_validate_json refuses
    PartitionOf,   \* PartitionOf[c]: the partition the key of customer c hashes to
    MaxRaw         \* bound: records ever written to one partition of transactions.raw

ASSUME PartitionOfAssumption == PartitionOf \in [Customers -> Partitions]
ASSUME PayloadAssumption == Events \cap Malformed = {}
ASSUME MaxRawAssumption == MaxRaw \in Nat

VARIABLES
    memory,    \* memory[c]: the StreamingFeatureStore of the running process
    clock,     \* the last processed_at handed out
    since      \* since[p]: where the running process began to read (history)

detectorVars == <<memory, clock, since>>
vars == <<kafkaVars, detectorVars>>

Decisions == [event : Events, decision : Outcomes, processed_at : Nat]

\* What each topic carries.
ValueType ==
    [t \in Topics |-> IF t = Raw THEN Events \cup Malformed
                      ELSE IF t = DeadLetter THEN Malformed ELSE Decisions]

ColdMemory == [c \in Customers |-> NoHistory]

Init ==
    /\ KafkaInit
    /\ memory = ColdMemory
    /\ clock = 0
    /\ since = [p \in Partitions |-> 0]

-----------------------------------------------------------------------------
(* Producers of transactions.raw: the API keys a record by its customer,   *)
(* anything else may write a malformed record to any partition.            *)

Ingest(v, p) ==
    /\ Len(log[Raw][p]) < MaxRaw
    /\ v \in Events => p = PartitionOf[v.customer_id]
    /\ log' = Appended(Raw, p, v)
    /\ UNCHANGED <<committed, position, pc, msg, outbox, orphans, rejected, exits>>
    /\ UNCHANGED detectorVars

-----------------------------------------------------------------------------
(* The handler. *)

StartDetector ==
    /\ Start
    /\ since' = committed
    /\ UNCHANGED <<memory, clock>>

PollRaw(p) == Poll(Raw, p) /\ UNCHANGED detectorVars

\* Wrong: only declined transactions raise an alert.
AlertOnDeclineOnly(d) ==
    LET p == PartitionOf[d.event.customer_id]
    IN  {Request(Scored, p, d)}
          \cup (IF d.decision = "decline" THEN {Request(Alerts, p, d)} ELSE {})

\* _publish_decision: every decision is scored, a non-approval is an alert too.
DecisionRequests(d) ==
    LET p == PartitionOf[d.event.customer_id]
    IN  {Request(Scored, p, d)}
          \cup (IF d.decision = "approve" THEN {} ELSE {Request(Alerts, p, d)})

\* Wrong: processed_at is the time of the event, the same at every retry.
ScoreStampsEventTime ==
    LET e == Payload(Raw)
        c == e.customer_id
        d == [event |-> e, decision |-> Score(memory[c], e), processed_at |-> e.event_time]
    IN  /\ pc = "processing"
        /\ e \in Events
        /\ CanWindow(e)
        /\ Produce(DecisionRequests(d))
        /\ memory' = [memory EXCEPT ![c] = Observe(@, e)]
        /\ UNCHANGED <<clock, since>>

\* _process on a transaction that parses: observe, score, publish.
ScoreTransaction ==
    LET e == Payload(Raw)
        c == e.customer_id
        d == [event |-> e, decision |-> Score(memory[c], e), processed_at |-> clock + 1]
    IN  /\ pc = "processing"
        /\ e \in Events
        /\ CanWindow(e)
        /\ Produce(DecisionRequests(d))
        /\ memory' = [memory EXCEPT ![c] = Observe(@, e)]
        /\ clock' = clock + 1
        /\ UNCHANGED since

\* Wrong: the dead letter goes to the topic of the decisions.
DeadLetterToScored ==
    /\ pc = "processing"
    /\ Payload(Raw) \in Malformed
    /\ Produce({Request(Scored, DeadLetterPartition, Payload(Raw))})
    /\ UNCHANGED detectorVars

\* Wrong: the handler does not catch the ValidationError.
MalformedRaises ==
    /\ pc = "processing"
    /\ Payload(Raw) \in Malformed
    /\ Exit
    /\ memory' = ColdMemory
    /\ UNCHANGED <<exits, clock, since>>

\* _process on a payload that does not validate: copy it to the dead letters.
DeadLetterTransaction ==
    /\ pc = "processing"
    /\ Payload(Raw) \in Malformed
    /\ Produce({Request(DeadLetter, DeadLetterPartition, Payload(Raw))})
    /\ UNCHANGED detectorVars

\* Wrong: the loop is restarted inside a process that keeps its memory.
RestartInPlace == UNCHANGED detectorVars

\* An exit loses the feature memory with the process.
Forget ==
    /\ memory' = ColdMemory
    /\ UNCHANGED <<clock, since>>

\* OverflowError is neither ValidationError nor ValueError: it leaves the loop.
ScoringRaises ==
    /\ pc = "processing"
    /\ Payload(Raw) \in Events
    /\ ~ CanWindow(Payload(Raw))
    /\ Exit
    /\ UNCHANGED exits
    /\ Forget

FlushOutputs == Flushed /\ UNCHANGED detectorVars

CommitOffset == Commit /\ UNCHANGED detectorVars

CloseDetector == Close /\ Forget

ExitDetector == (FlushTimeout \/ Crash) /\ Forget

StopDetector == Stop /\ UNCHANGED detectorVars

-----------------------------------------------------------------------------
Idle == IdlePoll /\ UNCHANGED detectorVars

WorkerStep ==
    \/ StartDetector
    \/ \E p \in Partitions : PollRaw(p)
    \/ ScoreTransaction
    \/ DeadLetterTransaction
    \/ ScoringRaises
    \/ FlushOutputs
    \/ CommitOffset
    \/ CloseDetector

Broker == BrokerAnswers /\ UNCHANGED detectorVars

Orphans == OrphanStep /\ UNCHANGED detectorVars

Environment ==
    \E v \in Events \cup Malformed, p \in Partitions : Ingest(v, p)

Next ==
    \/ WorkerStep
    \/ Broker
    \/ Orphans
    \/ ExitDetector
    \/ StopDetector
    \/ Idle
    \/ Environment

Spec == Init /\ [][Next]_vars

(***************************************************************************)
(* docker-compose restarts the container (restart: unless-stopped) and the *)
(* loop never waits on anything but the broker, so the worker keeps taking *)
(* steps; the broker answers every live produce request.  Nothing is       *)
(* assumed of crashes, orphaned requests or the writers of the raw topic.  *)
(***************************************************************************)
Fairness == WF_vars(WorkerStep) /\ WF_vars(Broker)

FairSpec == Spec /\ Fairness

-----------------------------------------------------------------------------
(* Properties. *)

\* The types of all variables; scored and alerts hold decisions only, the raw
\* topic what was ingested, the dead letters what did not validate.
TypeOK ==
    /\ KafkaTypeOK(ValueType)
    /\ DOMAIN memory = Customers
    /\ clock \in Nat
    /\ since \in [Partitions -> Nat]

\* What handling the payload v puts into the output topics: its dead letter, or
\* its decision and, unless that approves, the alert with the same decision.
Handled(v, out) ==
    /\ v \in Malformed => v \in out[DeadLetter]
    /\ v \in Events =>
          \E d \in out[Scored] :
             d.event = v /\ (d.decision = "approve" \/ d \in out[Alerts])

\* _process commits only after flush: whatever crash, timeout or restart hit
\* the worker, each committed message has its decision in transactions.scored,
\* the alert of the same decision in fraud.alerts, or its dead letter -- or the
\* broker refused the record and nobody read the report.
CommittedIsHandled ==
    \A p \in Partitions : \A i \in 1 .. committed[p] : Handled(log[Raw][p][i], Settled)

\* Requests are outstanding only while the worker waits in flush(10), and from
\* then on the message in hand has all its outputs issued.
OutputsIssued ==
    /\ pc # "delivering" => outbox = {}
    /\ pc \in {"delivering", "committing"} => Handled(Payload(Raw), Issued)

\* The inductive invariant behind CommittedIsHandled and CommitsOneByOne.
DetectorInv == TypeOK /\ OneInHand(Raw) /\ OutputsIssued /\ CommittedIsHandled

\* The decisions before offset k of a partition, and those that were refused.
Before(scored, refused, k) == {scored[m] : m \in 1 .. k - 1} \cup refused

\* Every transaction before some copy of e in a partition has a decision.
Preceded(e, raw, decisions) ==
    \E j \in 1 .. Len(raw) :
       /\ raw[j] = e
       /\ \A i \in 1 .. j - 1 : raw[i] \in Events => \E d \in decisions : d.event = raw[i]

\* kafka_key keeps a customer's events ordered through the pipeline: a decision
\* appears in transactions.scored only after the decisions of every transaction
\* that precedes it in the partition, retries and late arrivals included.
ScoredInOrder ==
    \A p \in Partitions : \A k \in 1 .. Len(log[Scored][p]) :
       Preceded(log[Scored][p][k].event, log[Raw][p],
                Before(log[Scored][p], rejected[Scored], k))

ScoredRequests == {r \in outbox \cup orphans : r.topic = Scored}

\* A transaction and all its decisions, arrived or not, are in the partition of
\* its customer; the worker itself writes no transactions.
KeyedByCustomer ==
    /\ \A p \in Partitions : \A i \in 1 .. Len(log[Raw][p]) :
          log[Raw][p][i] \in Events => p = PartitionOf[log[Raw][p][i].customer_id]
    /\ \A p \in Partitions : \A k \in 1 .. Len(log[Scored][p]) :
          p = PartitionOf[log[Scored][p][k].event.customer_id]
    /\ \A r \in ScoredRequests : r.partition = PartitionOf[r.value.event.customer_id]
    /\ \A r \in outbox \cup orphans : r.topic # Raw

\* Whenever a request is appended, what precedes its transaction is there.
RequestsInOrder ==
    \A r \in ScoredRequests :
       LET p == r.partition
       IN  Preceded(r.value.event, log[Raw][p],
                    Before(log[Scored][p], rejected[Scored], Len(log[Scored][p]) + 1))

\* The inductive invariant behind ScoredInOrder, together with DetectorInv.
OrderInv == KeyedByCustomer /\ RequestsInOrder /\ ScoredInOrder

\* How far the running process has observed partition p.
Observed(p) ==
    IF pc = "processing" /\ msg.partition = p THEN msg.offset ELSE position[p]

\* The messages of partition p the running process has observed.
Replayed(p) == SubSeq(log[Raw][p], since[p] + 1, Observed(p))

\* The feature memory is exactly what the messages polled since the last restart
\* leave: a retried message is never counted a second time, and nothing of a
\* process outlives it.
MemoryIsReplay ==
    pc # "down" =>
       \A c \in Customers : memory[c] = History(c, Replayed(PartitionOf[c]))

\* The process began to read at an offset it had committed, and goes on from there.
ReadSinceStart ==
    pc # "down" => \A p \in Partitions : since[p] <= Observed(p)

\* The inductive invariant behind MemoryIsReplay, with DetectorInv and OrderInv.
MemoryInv ==
    /\ pc = "down" => memory = ColdMemory
    /\ MemoryIsReplay /\ ReadSinceStart

\* The places of transaction e in its partition of the raw and scored topics,
\* and among the messages that are committed.
Ingested(e) ==
    LET raw == log[Raw][PartitionOf[e.customer_id]] IN {i \in 1 .. Len(raw) : raw[i] = e}

Scorings(e) ==
    LET scored == log[Scored][PartitionOf[e.customer_id]]
    IN  {i \in 1 .. Len(scored) : scored[i].event = e}

CommittedCopies(e) == {i \in Ingested(e) : i <= committed[PartitionOf[e.customer_id]]}

\* At-least-once has a price, and only restarts pay it: a transaction is scored
\* at most once per time it was ingested, plus once per process exit.
DuplicatesOnlyFromExits ==
    \A e \in Events : Cardinality(Scorings(e)) <= Cardinality(Ingested(e)) + exits

\* Decisions on e that may still be appended.
Underway(e, requests) == {r \in requests : r.topic = Scored /\ r.value.event = e}

InDelivery(e) == pc \in {"delivering", "committing"} /\ Payload(Raw) = e

\* The inductive invariant behind DuplicatesOnlyFromExits: what has been scored
\* is paid for by a commit, by the message in hand, or by an exit.
ScoringsInv ==
    /\ IsFiniteSet(outbox) /\ IsFiniteSet(orphans)
    /\ \A e \in Events :
          Cardinality(Scorings(e)) + Cardinality(Underway(e, outbox))
             + Cardinality(Underway(e, orphans))
            <= Cardinality(CommittedCopies(e)) + (IF InDelivery(e) THEN 1 ELSE 0) + exits

\* The committed offset of a partition never goes back and never skips a
\* message, and it moves only when no request of the worker is unanswered.
CommitsOneByOne ==
    [][\A p \in Partitions :
          committed'[p] # committed[p] =>
             committed'[p] = committed[p] + 1 /\ outbox = {}]_vars

\* The worker keeps up: every record of transactions.raw is eventually
\* committed, as long as it can be scored.
EveryMessageCommitted ==
    \A p \in Partitions : \A i \in 1 .. MaxRaw :
       Len(log[Raw][p]) >= i ~> committed[p] >= i
=============================================================================
