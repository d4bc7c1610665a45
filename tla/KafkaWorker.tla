----------------------------- MODULE KafkaWorker -----------------------------
(***************************************************************************)
(* What the three Kafka workers (detector, decision store, alerter) have   *)
(* in common: one consumer with manual commits, one idempotent producer    *)
(* whose delivery reports nobody reads, a poll loop that handles a single  *)
(* message at a time, and a container that restarts the process whenever   *)
(* it exits.  Each worker module EXTENDS this one and adds what it does    *)
(* with a message.                                                         *)
(*                                                                         *)
(* Kafka itself is external: a topic partition is a sequence that only     *)
(* grows, a consumer group is one committed offset per partition.          *)
(***************************************************************************)
EXTENDS Integers, Sequences

CONSTANTS
    Partitions,           \* partitions of a topic (transactions.raw, scored, alerts)
    DeadLetterPartition,  \* the only partition of transactions.dead_letter
    Rejectable,           \* topics for which the broker may refuse a record
    MaxExits              \* bound: process exits other than a raising handler

ASSUME DeadLetterPartitionAssumption == DeadLetterPartition \in Partitions
ASSUME MaxExitsAssumption == MaxExits \in Nat

Raw        == "transactions.raw"
Scored     == "transactions.scored"
Alerts     == "fraud.alerts"
DeadLetter == "transactions.dead_letter"
Topics     == {Raw, Scored, Alerts, DeadLetter}

VARIABLES
    log,        \* log[topic][p]: the records of a topic partition, in offset order
    committed,  \* committed[p]: the group's committed offset on the input topic
    position,   \* position[p]: the next offset this process will poll
    pc,         \* where the process is in its loop
    msg,        \* the message in hand, or NoMessage
    outbox,     \* produce requests of this process that have no delivery report
    orphans,    \* requests of dead processes that may still reach the broker
    rejected,   \* rejected[topic]: values whose delivery report was an error (history)
    exits       \* how often the process exited (bounded by MaxExits)

kafkaVars == <<log, committed, position, pc, msg, outbox, orphans, rejected, exits>>

NoMessage == [partition |-> DeadLetterPartition, offset |-> -1]

Messages == [partition : Partitions, offset : Nat]

ControlPoints == {"down", "polling", "processing", "delivering", "committing", "closing"}

\* A produce request for a topic whose records are of type ValueType[topic].
IsRequest(r, ValueType) ==
    /\ r = [topic |-> r.topic, partition |-> r.partition, value |-> r.value, run |-> r.run]
    /\ r.topic \in Topics
    /\ r.partition \in Partitions
    /\ r.value \in ValueType[r.topic]
    /\ r.run \in 0 .. MaxExits

KafkaTypeOK(ValueType) ==
    /\ DOMAIN log = Topics
    /\ \A t \in Topics : log[t] \in [Partitions -> Seq(ValueType[t])]
    /\ committed \in [Partitions -> Nat]
    /\ position \in [Partitions -> Nat]
    /\ pc \in ControlPoints
    /\ msg \in Messages \cup {NoMessage}
    /\ \A r \in outbox \cup orphans : IsRequest(r, ValueType)
    /\ DOMAIN rejected = Topics
    /\ \A t \in Topics : rejected[t] \subseteq ValueType[t]
    /\ exits \in 0 .. MaxExits

KafkaInit ==
    /\ log = [t \in Topics |-> [p \in Partitions |-> <<>>]]
    /\ committed = [p \in Partitions |-> 0]
    /\ position = [p \in Partitions |-> 0]
    /\ pc = "down"
    /\ msg = NoMessage
    /\ outbox = {}
    /\ orphans = {}
    /\ rejected = [t \in Topics |-> {}]
    /\ exits = 0

-----------------------------------------------------------------------------
(* Helpers on logs and requests. *)

\* The payload of the message in hand.
Payload(topic) == log[topic][msg.partition][msg.offset + 1]

Appended(topic, p, value) == [log EXCEPT ![topic][p] = Append(@, value)]

\* A produce request of the running process.
Request(topic, p, value) ==
    [topic |-> topic, partition |-> p, value |-> value, run |-> exits]

\* The requests the producer holds for a topic.
Queued(topic) == {r.value : r \in {q \in outbox : q.topic = topic}}

InLog(topic) ==
    UNION {{log[topic][p][i] : i \in 1 .. Len(log[topic][p])} : p \in Partitions}

\* What has left a producer for good: in the topic, or refused by the broker.
Settled == [t \in Topics |-> InLog(t) \cup rejected[t]]

\* ... together with what the running process still holds.
Issued == [t \in Topics |-> Settled[t] \cup Queued(t)]

-----------------------------------------------------------------------------
(* The broker side of a produce request. *)

\* The broker appends the record and the delivery report empties its slot.
Deliver(r) ==
    /\ r \in outbox
    /\ log' = Appended(r.topic, r.partition, r.value)
    /\ outbox' = outbox \ {r}
    /\ UNCHANGED <<committed, position, pc, msg, orphans, rejected, exits>>

\* The broker refuses the record.  The producer was given no on_delivery
\* callback, so the error report is dropped and flush() counts it as done.
Reject(r) ==
    /\ r \in outbox
    /\ r.topic \in Rejectable
    /\ rejected' = [rejected EXCEPT ![r.topic] = @ \cup {r.value}]
    /\ outbox' = outbox \ {r}
    /\ UNCHANGED <<log, committed, position, pc, msg, orphans, exits>>

\* A request that was on the wire when its process died still arrives ...
LateArrival(r) ==
    /\ r \in orphans
    /\ log' = Appended(r.topic, r.partition, r.value)
    /\ orphans' = orphans \ {r}
    /\ UNCHANGED <<committed, position, pc, msg, outbox, rejected, exits>>

\* ... or was still in the client's queue and is gone.
LostRequest(r) ==
    /\ r \in orphans
    /\ orphans' = orphans \ {r}
    /\ UNCHANGED <<log, committed, position, pc, msg, outbox, rejected, exits>>

BrokerAnswers == \E r \in outbox : Deliver(r) \/ Reject(r)

OrphanStep == \E r \in orphans : LateArrival(r) \/ LostRequest(r)

-----------------------------------------------------------------------------
(* The poll loop. *)

\* docker restarts the process: it subscribes and resumes at the committed offsets.
Start ==
    /\ pc = "down"
    /\ pc' = "polling"
    /\ position' = committed
    /\ UNCHANGED <<log, committed, msg, outbox, orphans, rejected, exits>>

\* consumer.poll returns the next message of partition p.
Poll(topic, p) ==
    /\ pc = "polling"
    /\ position[p] < Len(log[topic][p])
    /\ msg' = [partition |-> p, offset |-> position[p]]
    /\ position' = [position EXCEPT ![p] = @ + 1]
    /\ pc' = "processing"
    /\ UNCHANGED <<log, committed, outbox, orphans, rejected, exits>>

\* consumer.poll returns None or a _PARTITION_EOF event: the loop goes round.
IdlePoll == pc = "polling" /\ UNCHANGED kafkaVars

\* producer.produce: the requests enter the client's queue.
Produce(requests) ==
    /\ pc = "processing"
    /\ outbox' = outbox \cup requests
    /\ pc' = "delivering"
    /\ UNCHANGED <<log, committed, position, msg, orphans, rejected, exits>>

\* Wrong: the result of flush(10) is not looked at.
FlushIgnored ==
    /\ pc = "delivering"
    /\ pc' = "committing"
    /\ UNCHANGED <<log, committed, position, msg, outbox, orphans, rejected, exits>>

\* flush(10) returns 0: no request is left without a report.
Flushed ==
    /\ pc = "delivering"
    /\ outbox = {}
    /\ pc' = "committing"
    /\ UNCHANGED <<log, committed, position, msg, outbox, orphans, rejected, exits>>

\* consumer.commit(message=message, asynchronous=False).
Commit ==
    /\ pc = "committing"
    /\ committed' = [committed EXCEPT ![msg.partition] = msg.offset + 1]
    /\ msg' = NoMessage
    /\ pc' = "polling"
    /\ UNCHANGED <<log, position, outbox, orphans, rejected, exits>>

\* What every exit does: the process is gone, its requests are orphaned.
Exit ==
    /\ pc' = "down"
    /\ msg' = NoMessage
    /\ orphans' = orphans \cup outbox
    /\ outbox' = {}
    /\ UNCHANGED <<log, committed, position, rejected>>

CountedExit == exits < MaxExits /\ exits' = exits + 1 /\ Exit

\* Wrong: the loop catches the error of the handler and polls on.
FlushErrorSwallowed ==
    /\ pc = "delivering"
    /\ outbox # {}
    /\ msg' = NoMessage
    /\ pc' = "polling"
    /\ UNCHANGED <<log, committed, position, outbox, orphans, rejected, exits>>

\* Wrong: the handler is run again for the same message.
FlushRetriesMessage ==
    /\ pc = "delivering"
    /\ outbox # {}
    /\ pc' = "processing"
    /\ UNCHANGED <<log, committed, position, msg, outbox, orphans, rejected, exits>>

\* flush(10) returns with requests left: the handler raises out of the loop.
FlushTimeout ==
    /\ pc = "delivering"
    /\ outbox # {}
    /\ CountedExit

\* The process is killed, or a Kafka call (poll, produce, commit) raises.
Crash == pc # "down" /\ CountedExit

\* SIGTERM sets the stop event, which the loop honours between messages.
Stop ==
    /\ pc = "polling"
    /\ pc' = "closing"
    /\ exits < MaxExits
    /\ UNCHANGED <<log, committed, position, msg, outbox, orphans, rejected, exits>>

\* close(): flush(10), whose result is ignored, then the consumer leaves.
Close == pc = "closing" /\ CountedExit

-----------------------------------------------------------------------------
(* What the loop maintains, whatever a worker does with a message. *)

InHand == pc \in {"processing", "delivering", "committing"}

\* One message at a time: the message in hand is the first uncommitted one of
\* its partition, and no other partition is ahead of its committed offset.
OneInHand(topic) ==
    /\ \A p \in Partitions : committed[p] <= Len(log[topic][p])
    /\ pc \in {"polling", "closing"} => position = committed
    /\ InHand =>
          /\ msg \in Messages
          /\ msg.offset = committed[msg.partition]
          /\ msg.offset < Len(log[topic][msg.partition])
          /\ position = [committed EXCEPT ![msg.partition] = @ + 1]
=============================================================================
