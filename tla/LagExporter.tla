---------------------------- MODULE LagExporter ----------------------------
(***************************************************************************)
(* lag_exporter.py: every 15 seconds read the committed offsets of each    *)
(* consumer group, then the high watermark of each of its partitions, and  *)
(* publish the difference as the gauge fraud_consumer_lag.  The groups are *)
(* at work while it reads.                                                 *)
(*                                                                         *)
(* Kafka is external: offsets only grow, and any read may fail.            *)
(***************************************************************************)
EXTENDS Integers, Sequences, Functions

CONSTANTS
    CONSUMER_GROUPS,  \* the groups, in the order they are read
    Partitions,       \* partitions of the topic a group reads
    MaxOffset         \* bound: records of a partition

Groups == Range(CONSUMER_GROUPS)

ASSUME GroupsAssumption == CONSUMER_GROUPS \in Seq(Groups)
ASSUME MaxOffsetAssumption == MaxOffset \in Nat

VARIABLES
    high,       \* high[g][p]: the high watermark of partition p of g's topic
    committed,  \* committed[g][p]: the group's committed offset, or NoOffset
    running,    \* whether the exporter's process is running
    groups,     \* the groups the current collect has not reached
    offsets,    \* offsets[<<g, p>>]: an offset it has read and not yet turned into a gauge
    gauge       \* gauge[g][p]: the published lag, or Unset

kafkaVars == <<high, committed>>
exporterVars == <<running, groups, offsets, gauge>>

NoOffset == -1
Unset == -1

Lag(g, p) == high[g][p] - committed[g][p]

LagInit ==
    /\ high = [g \in Groups |-> [p \in Partitions |-> 0]]
    /\ committed = [g \in Groups |-> [p \in Partitions |-> NoOffset]]
    /\ running = FALSE
    /\ groups = <<>>
    /\ offsets = <<>>
    /\ gauge = [g \in Groups |-> [p \in Partitions |-> Unset]]

-----------------------------------------------------------------------------
(* Kafka: producers append, workers commit the offset after each message. *)

Arrives(g, p) ==
    /\ high[g][p] < MaxOffset
    /\ high' = [high EXCEPT ![g][p] = @ + 1]
    /\ UNCHANGED <<committed, exporterVars>>

Commits(g, p) ==
    LET next == IF committed[g][p] = NoOffset THEN 1 ELSE committed[g][p] + 1
    IN  /\ next <= high[g][p]
        /\ committed' = [committed EXCEPT ![g][p] = next]
        /\ UNCHANGED <<high, exporterVars>>

-----------------------------------------------------------------------------
(* The exporter. *)

\* Wrong: the watermark is taken for the offset of the last record.
ComputeLagOfLastRecord(highWatermark, committedOffset) ==
    IF committedOffset < 0 \/ highWatermark - 1 < committedOffset THEN 0
    ELSE highWatermark - 1 - committedOffset

\* Wrong: no committed offset is taken for an offset like any other.
ComputeLagOfUncommitted(highWatermark, committedOffset) ==
    IF highWatermark < committedOffset THEN 0 ELSE highWatermark - committedOffset

ComputeLag(highWatermark, committedOffset) ==
    IF committedOffset < 0 \/ highWatermark < committedOffset THEN 0
    ELSE highWatermark - committedOffset

\* A new process: no gauge has a value.
StartExporter ==
    /\ ~ running
    /\ running' = TRUE
    /\ UNCHANGED <<kafkaVars, groups, offsets, gauge>>

\* stop.wait is over: collect goes through all groups.
StartCollect ==
    /\ running
    /\ groups = <<>>
    /\ offsets = <<>>
    /\ groups' = CONSUMER_GROUPS
    /\ UNCHANGED <<kafkaVars, running, offsets, gauge>>

\* Every partition of the groups before g is done.
AtGroup(g) == offsets = <<>> /\ groups # <<>> /\ Head(groups) = g

\* list_consumer_group_offsets returns the offsets of all partitions at once.
ReadOffsets(g) ==
    /\ AtGroup(g)
    /\ groups' = Tail(groups)
    /\ offsets' = [gp \in {g} \X Partitions |-> committed[g][gp[2]]]
    /\ UNCHANGED <<kafkaVars, running, gauge>>

\* ... or raises: the group is skipped and its gauges stand.
OffsetsFail(g) ==
    /\ AtGroup(g)
    /\ groups' = Tail(groups)
    /\ UNCHANGED <<kafkaVars, running, offsets, gauge>>

Without(g, p) == [gp \in DOMAIN offsets \ {<<g, p>>} |-> offsets[gp]]

\* Wrong: a lag of zero is not published.
PublishBacklogOnly(g, p) ==
    LET lag == ComputeLag(high[g][p], offsets[<<g, p>>])
    IN  /\ <<g, p>> \in DOMAIN offsets
        /\ gauge' = IF lag = 0 THEN gauge ELSE [gauge EXCEPT ![g][p] = lag]
        /\ offsets' = Without(g, p)
        /\ UNCHANGED <<kafkaVars, running, groups>>

\* get_watermark_offsets returns: publish the lag of the partition.
PublishLag(g, p) ==
    /\ <<g, p>> \in DOMAIN offsets
    /\ gauge' = [gauge EXCEPT ![g][p] = ComputeLag(high[g][p], offsets[<<g, p>>])]
    /\ offsets' = Without(g, p)
    /\ UNCHANGED <<kafkaVars, running, groups>>

\* Wrong: the gauge of a partition that cannot be read is removed.
WatermarkFailsClears(g, p) ==
    /\ <<g, p>> \in DOMAIN offsets
    /\ offsets' = Without(g, p)
    /\ gauge' = [gauge EXCEPT ![g][p] = Unset]
    /\ UNCHANGED <<kafkaVars, running, groups>>

\* ... or raises: the partition's gauge stands.
WatermarkFails(g, p) ==
    /\ <<g, p>> \in DOMAIN offsets
    /\ offsets' = Without(g, p)
    /\ UNCHANGED <<kafkaVars, running, groups, gauge>>

\* The process ends, by a signal or a crash, and its gauges with it.
ExitExporter ==
    /\ running
    /\ running' = FALSE
    /\ groups' = <<>>
    /\ offsets' = <<>>
    /\ gauge' = [g \in Groups |-> [p \in Partitions |-> Unset]]
    /\ UNCHANGED kafkaVars

ReadFails ==
    \E g \in Groups : OffsetsFail(g) \/ \E p \in Partitions : WatermarkFails(g, p)

ExporterStep ==
    \/ StartExporter
    \/ StartCollect
    \/ \E g \in Groups : ReadOffsets(g) \/ \E p \in Partitions : PublishLag(g, p)
    \/ ReadFails
=============================================================================
