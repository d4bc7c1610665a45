--------------------------- MODULE OperationsProofs ---------------------------
(***************************************************************************)
(* The tools operators run beside the pipeline.  The replay script loses a *)
(* letter only where it commits after a flush whose result it ignores, or  *)
(* after a refusal it does not ask for, for every set of letters and every *)
(* --max.  The exporter understates no lag,                                *)
(* and DetectorFailures gives no false alarm and none for a delivery, for  *)
(* all groups, partitions, windows and thresholds.                         *)
(*                                                                         *)
(* The two specifications share no variable; neither theorem on the one    *)
(* uses anything of the other.                                             *)
(***************************************************************************)
EXTENDS DeadLetterReplay, Monitoring, TLAPS

\* Before the first run every letter is queued.
LEMMA InitReplayInv == ReplayInit => ReplayInv
BY MaxCrashesAssumption
   DEF ReplayInit, ReplayInv, ReplayTypeOK, NoLetterLost, PolledIsProduced

\* The loop of the script: start, a message, an error, an empty poll, the flush.
LEMMA LoopKeepsReplayInv ==
    ASSUME ReplayInv,
           \/ StartReplay \/ (\E x \in Letters : ReplayMessage(x))
           \/ PollError \/ PollNothing \/ FlushReturns
    PROVE  ReplayInv'
<1>1. CASE StartReplay
  <2>1. taken = {} /\ outbox = {} /\ refused = {}
    BY <1>1 DEF StartReplay, ReplayInv, ReplayTypeOK, PolledIsProduced
  <2>2. limit' \in Limits /\ limit' \in Nat /\ replayed' = 0
    BY <1>1, LimitsAssumption DEF StartReplay
  <2>3. /\ phase' = "polling" /\ mode' \in {"replay", "dry-run"} /\ idlePolls' = 0
        /\ UNCHANGED <<queued, taken, outbox, refused, target, handled, dropped, crashes>>
    BY <1>1 DEF StartReplay
  <2> QED
    BY <2>1, <2>2, <2>3 DEF ReplayInv, ReplayTypeOK, NoLetterLost, PolledIsProduced
<1>2. ASSUME NEW x \in Letters, ReplayMessage(x)
      PROVE  ReplayInv'
  <2>1. replayed' = Count(replayed + 1) /\ phase = "polling"
        /\ phase' = IF Reached(replayed + 1) THEN "flushing" ELSE "polling"
    BY <1>2 DEF ReplayMessage
  <2>2. limit \in Nat /\ replayed \in 0 .. limit /\ (limit = 0 \/ replayed < limit)
    BY <2>1, LimitsAssumption DEF ReplayInv, ReplayTypeOK
  <2>3. /\ replayed' \in 0 .. limit
        /\ phase' = "polling" => limit = 0 \/ replayed' < limit
    BY <2>1, <2>2 DEF Count, Reached
  <2>4. phase' \in {"polling", "flushing"}
    BY <2>1
  <2>5. /\ queued' = queued \ {x} /\ taken' = taken \cup {x}
        /\ outbox' = IF mode = "dry-run" THEN outbox ELSE outbox \cup {x}
        /\ idlePolls' = 0
        /\ UNCHANGED <<mode, limit, refused, target, handled, dropped, crashes>>
    BY <1>2 DEF ReplayMessage
  <2>6. ReplayTypeOK'
    BY <2>3, <2>4, <2>5 DEF ReplayInv, ReplayTypeOK
  <2>7. NoLetterLost'
    BY <2>5 DEF ReplayInv, NoLetterLost, PolledIsProduced
  <2>8. PolledIsProduced'
    BY <2>4, <2>5 DEF ReplayInv, PolledIsProduced
  <2> QED
    BY <2>6, <2>7, <2>8 DEF ReplayInv
<1>3. CASE PollNothing
  BY <1>3 DEF PollNothing, ReplayInv, ReplayTypeOK, NoLetterLost, PolledIsProduced
<1>4. CASE FlushReturns
  BY <1>4 DEF FlushReturns, ReplayInv, ReplayTypeOK, NoLetterLost, PolledIsProduced
<1>5. CASE PollError
  BY <1>5 DEF PollError, replayVars, ReplayInv, ReplayTypeOK, NoLetterLost, PolledIsProduced
<1> QED
  BY <1>1, <1>2, <1>3, <1>4, <1>5

\* The three ways a run ends, and the pipeline around it.
LEMMA EndKeepsReplayInv ==
    ASSUME ReplayInv, DryRunEnds \/ CommitReplayed \/ Interrupt
    PROVE  ReplayInv'
<1> USE DEF ReplayInv, ReplayTypeOK, NoLetterLost, PolledIsProduced
<1>1. CASE DryRunEnds
  BY <1>1 DEF DryRunEnds, EndProcess
<1>2. CASE CommitReplayed
  <2>1. PICK S \in SUBSET outbox :
           EndProcess(S) /\ dropped' = dropped \cup (outbox \ S) \cup refused
    BY <1>2 DEF CommitReplayed
  <2>2. mode = "replay"
    BY <1>2 DEF CommitReplayed
  <2> QED
    BY <1>2, <2>1, <2>2 DEF CommitReplayed, EndProcess
<1>3. CASE Interrupt
  <2>1. PICK S \in SUBSET outbox : EndProcess(S)
    BY <1>3 DEF Interrupt
  <2>2. crashes' \in 0 .. MaxCrashes
    BY <1>3, MaxCrashesAssumption DEF Interrupt
  <2> QED
    BY <1>3, <2>1, <2>2 DEF Interrupt, EndProcess
<1> QED
  BY <1>1, <1>2, <1>3

LEMMA PipelineKeepsReplayInv ==
    ASSUME ReplayInv, NEW x \in Letters, Deliver(x) \/ Refuse(x) \/ WorkerHandles(x)
    PROVE  ReplayInv'
<1> USE DEF ReplayInv, ReplayTypeOK, NoLetterLost, PolledIsProduced
<1>1. CASE Deliver(x)
  BY <1>1 DEF Deliver
<1>2. CASE Refuse(x)
  BY <1>2 DEF Refuse
<1>3. CASE WorkerHandles(x)
  BY <1>3 DEF WorkerHandles
<1> QED
  BY <1>1, <1>2, <1>3

\* Every step of the specification keeps the invariant.
LEMMA NextKeepsReplayInv == ReplayInv /\ [ReplayNext]_replayVars => ReplayInv'
<1> SUFFICES ASSUME ReplayInv, [ReplayNext]_replayVars
             PROVE  ReplayInv'
  OBVIOUS
<1>1. CASE ReplayNext
  BY <1>1, LoopKeepsReplayInv, EndKeepsReplayInv, PipelineKeepsReplayInv
     DEF ReplayNext, Script, Pipeline
<1>2. CASE UNCHANGED replayVars
  BY <1>2 DEF replayVars, ReplayInv, ReplayTypeOK, NoLetterLost, PolledIsProduced
<1> QED
  BY <1>1, <1>2

\* replay_dead_letter.py: no interruption, dry run or repeated failure loses a
\* dead letter, except that a run may commit what its flush left unsent or the
\* broker refused.
THEOREM NothingLost == ReplaySpec => []ReplayInv
  BY InitReplayInv, NextKeepsReplayInv, PTL DEF ReplaySpec
-----------------------------------------------------------------------------
(* Monitoring: the types.                                                   *)

USE DEF NoOffset, Unset

\* What TypeOK says of Kafka and the exporter, of the detector, and of Prometheus.
KafkaTypes ==
    /\ high \in Offsets /\ committed \in Offsets
    /\ \A g \in Groups, p \in Partitions : 0 <= high[g][p] /\ committed[g][p] <= high[g][p]

ExporterTypes ==
    /\ gauge \in Offsets
    /\ \A g \in Groups, p \in Partitions : gauge[g][p] <= high[g][p]
    /\ running \in BOOLEAN /\ groups \in Seq(Groups) /\ Len(groups) <= Len(CONSUMER_GROUPS)
    /\ DOMAIN offsets \subseteq Groups \X Partitions

DetectorTypes ==
    /\ pc \in {"down", "polling", "flushing", "failed"} /\ inHand \in Partitions
    /\ pc = "flushing" => committed[Detector][inHand] < high[Detector][inHand]
    /\ failures \in [Stages -> Nat] /\ (pc = "down" => \A s \in Stages : failures[s] = 0)
    /\ \A s \in Stages \ {"validation"} : failures[s] <= IF pc = "failed" THEN 1 ELSE 0

PrometheusTypes ==
    /\ samples \in Seq([Stages -> Nat]) /\ Len(samples) <= Window
    /\ above \in [Groups -> 0 .. ForTicks]
    /\ age \in [Stages -> 0 .. Window]

LEMMA TypesApart ==
    TypeOK <=> KafkaTypes /\ ExporterTypes /\ DetectorTypes /\ PrometheusTypes
BY DEF TypeOK, KafkaTypes, ExporterTypes, DetectorTypes, PrometheusTypes

\* ... and the invariant put together again after a step.
LEMMA InvAfter ==
    ASSUME KafkaTypes', ExporterTypes', DetectorTypes', PrometheusTypes',
           OffsetsAreOld', SeriesFollowFailures'
    PROVE  MonitoringInv'
BY DEF MonitoringInv, TypeOK, KafkaTypes, ExporterTypes, DetectorTypes, PrometheusTypes

\* Nothing has been appended, read or counted.
LEMMA InitMonitoringInv == Init => MonitoringInv
<1> SUFFICES ASSUME Init
             PROVE  MonitoringInv
  OBVIOUS
<1>1. /\ high \in Offsets /\ committed \in Offsets /\ gauge \in Offsets
      /\ \A g \in Groups, p \in Partitions :
            /\ 0 <= high[g][p] /\ committed[g][p] <= high[g][p]
            /\ gauge[g][p] <= high[g][p]
  BY MaxOffsetAssumption DEF Init, LagInit, Offsets
<1>2. groups = <<>> /\ groups \in Seq(Groups) /\ Len(groups) <= Len(CONSUMER_GROUPS)
      /\ running = FALSE /\ offsets = <<>> /\ DOMAIN offsets = {}
  BY GroupsAssumption DEF Init, LagInit
<1>3. /\ pc = "down" /\ inHand \in Partitions
      /\ failures \in [Stages -> Nat] /\ \A s \in Stages : failures[s] = 0
  BY DEF Init
<1>4. samples = <<>> /\ samples \in Seq([Stages -> Nat]) /\ Len(samples) <= Window
  BY WindowAssumption DEF Init
<1>5. above \in [Groups -> 0 .. ForTicks] /\ age \in [Stages -> 0 .. Window]
  BY WindowAssumption, ForTicksAssumption DEF Init
<1>6. DetectorTypes
  BY <1>3 DEF DetectorTypes
<1>7. KafkaTypes /\ ExporterTypes /\ PrometheusTypes
  BY <1>1, <1>2, <1>4, <1>5 DEF KafkaTypes, ExporterTypes, PrometheusTypes
<1>8. TypeOK
  BY <1>6, <1>7, TypesApart
<1> QED
  BY <1>2, <1>4, <1>8 DEF MonitoringInv, OffsetsAreOld, SeriesFollowFailures

\* A record more is a watermark more; offsets and gauges stay behind it.
LEMMA ArrivesKeepsKafka ==
    ASSUME MonitoringInv, NEW g \in Groups, NEW p \in Partitions, Arrives(g, p)
    PROVE  /\ KafkaTypes' /\ ExporterTypes' /\ OffsetsAreOld'
           /\ \A h \in Groups, q \in Partitions : high[h][q] <= high'[h][q]
<1>1. KafkaTypes /\ ExporterTypes /\ OffsetsAreOld
  BY TypesApart DEF MonitoringInv
<1>2. /\ high[g][p] < MaxOffset /\ high' = [high EXCEPT ![g][p] = @ + 1]
      /\ UNCHANGED <<committed, running, groups, offsets, gauge>>
  BY DEF Arrives, exporterVars
<1>3. high \in [Groups -> [Partitions -> Int]] /\ 0 <= high[g][p]
  BY <1>1, MaxOffsetAssumption DEF KafkaTypes, Offsets
<1>4. \A h \in Groups, q \in Partitions :
         high'[h][q] = IF h = g /\ q = p THEN high[h][q] + 1 ELSE high[h][q]
  BY <1>2, <1>3
<1>5. \A h \in Groups, q \in Partitions :
         high[h][q] \in Int /\ committed[h][q] \in Int /\ gauge[h][q] \in Int
  BY <1>1, MaxOffsetAssumption DEF KafkaTypes, ExporterTypes, Offsets
<1>6. \A h \in Groups, q \in Partitions : high[h][q] <= high'[h][q]
  BY <1>4, <1>5
<1>7. high' \in Offsets
  <2>1. high[g][p] + 1 \in {NoOffset} \cup 0 .. MaxOffset
    BY <1>2, <1>3, MaxOffsetAssumption
  <2> QED
    BY <1>1, <1>2, <2>1 DEF KafkaTypes, Offsets
<1>8. KafkaTypes'
  BY <1>1, <1>2, <1>4, <1>5, <1>7 DEF KafkaTypes
<1>9. ExporterTypes'
  <2>1. \A h \in Groups, q \in Partitions : gauge[h][q] <= high'[h][q]
    BY <1>1, <1>4, <1>5 DEF ExporterTypes
  <2> QED
    BY <1>1, <1>2, <2>1 DEF ExporterTypes
<1> QED
  BY <1>1, <1>2, <1>6, <1>8, <1>9 DEF OffsetsAreOld

\* A commit moves an offset forward, as far as the watermark.
LEMMA CommitsKeepsKafka ==
    ASSUME MonitoringInv, NEW g \in Groups, NEW p \in Partitions, Commits(g, p)
    PROVE  /\ KafkaTypes' /\ ExporterTypes' /\ OffsetsAreOld'
           /\ \A h \in Groups, q \in Partitions : h # g => committed'[h][q] = committed[h][q]
<1> DEFINE next == IF committed[g][p] = NoOffset THEN 1 ELSE committed[g][p] + 1
<1>1. KafkaTypes /\ ExporterTypes /\ OffsetsAreOld
  BY TypesApart DEF MonitoringInv
<1>2. /\ next <= high[g][p] /\ committed' = [committed EXCEPT ![g][p] = next]
      /\ UNCHANGED <<high, running, groups, offsets, gauge>>
  BY DEF Commits, exporterVars
<1>3. \A h \in Groups, q \in Partitions :
         /\ high[h][q] \in 0 .. MaxOffset
         /\ committed[h][q] \in {NoOffset} \cup 0 .. MaxOffset
  BY <1>1, MaxOffsetAssumption DEF KafkaTypes, Offsets
<1>4. next \in 0 .. MaxOffset /\ committed[g][p] <= next
  BY <1>2, <1>3, MaxOffsetAssumption
<1> HIDE DEF next
<1>5. \A h \in Groups, q \in Partitions :
         committed'[h][q] = IF h = g /\ q = p THEN next ELSE committed[h][q]
  BY <1>1, <1>2 DEF KafkaTypes, Offsets
<1>6. KafkaTypes'
  <2>1. committed' \in Offsets
    BY <1>1, <1>2, <1>4 DEF KafkaTypes, Offsets
  <2> QED
    BY <1>1, <1>2, <1>5, <2>1 DEF KafkaTypes
<1>7. OffsetsAreOld'
  <2>1. \A h \in Groups, q \in Partitions : committed[h][q] <= committed'[h][q]
    BY <1>3, <1>4, <1>5, MaxOffsetAssumption
  <2>2. \A h \in Groups, q \in Partitions : committed'[h][q] \in Int
    BY <1>3, <1>4, <1>5, MaxOffsetAssumption
  <2> QED
    BY <1>1, <1>2, <1>3, <2>1, <2>2, MaxOffsetAssumption DEF OffsetsAreOld
<1>8. ExporterTypes'
  BY <1>1, <1>2 DEF ExporterTypes
<1> QED
  BY <1>5, <1>6, <1>7, <1>8

\* What is published is the watermark less an offset that is old by now.
LEMMA LagPublished ==
    ASSUME MonitoringInv, NEW g \in Groups, NEW p \in Partitions, PublishLag(g, p)
    PROVE  /\ gauge' \in Offsets /\ gauge'[g][p] <= high[g][p]
           /\ \A h \in Groups, q \in Partitions :
                 ~ (h = g /\ q = p) => gauge'[h][q] = gauge[h][q]
           /\ offsets[<<g, p>>] # NoOffset => gauge'[g][p] >= Lag(g, p)
<1> DEFINE lag == ComputeLag(high[g][p], offsets[<<g, p>>])
<1>1. KafkaTypes /\ ExporterTypes /\ OffsetsAreOld
  BY TypesApart DEF MonitoringInv
<1>2. <<g, p>> \in DOMAIN offsets /\ gauge' = [gauge EXCEPT ![g][p] = lag]
  BY DEF PublishLag
<1>3. /\ high[g][p] \in 0 .. MaxOffset
      /\ committed[g][p] \in {NoOffset} \cup 0 .. MaxOffset
      /\ committed[g][p] <= high[g][p]
  BY <1>1, MaxOffsetAssumption DEF KafkaTypes, Offsets
<1>4. /\ offsets[<<g, p>>] \in {NoOffset} \cup 0 .. MaxOffset
      /\ offsets[<<g, p>>] <= committed[g][p]
  BY <1>1, <1>2 DEF OffsetsAreOld
<1>5. /\ lag \in 0 .. MaxOffset /\ lag <= high[g][p]
      /\ offsets[<<g, p>>] # NoOffset => lag >= Lag(g, p)
  BY <1>3, <1>4, MaxOffsetAssumption DEF ComputeLag, Lag
<1> HIDE DEF lag
<1>6. \A h \in Groups, q \in Partitions :
         gauge'[h][q] = IF h = g /\ q = p THEN lag ELSE gauge[h][q]
  BY <1>1, <1>2 DEF ExporterTypes, Offsets
<1>7. gauge' \in Offsets
  BY <1>1, <1>2, <1>5 DEF ExporterTypes, Offsets
<1> QED
  BY <1>5, <1>6, <1>7

\* The exporter reads Kafka and changes nothing there; its gauges follow.
LEMMA ExporterKeepsTypes ==
    ASSUME MonitoringInv, ExporterStep \/ ExitExporter
    PROVE  KafkaTypes' /\ ExporterTypes' /\ OffsetsAreOld' /\ UNCHANGED kafkaVars
<1>1. KafkaTypes /\ ExporterTypes /\ OffsetsAreOld
  BY TypesApart DEF MonitoringInv
<1>2. UNCHANGED kafkaVars
  BY DEF ExporterStep, ExitExporter, StartExporter, StartCollect, ReadOffsets, PublishLag,
         ReadFails, OffsetsFail, WatermarkFails, kafkaVars
<1>3. KafkaTypes'
  BY <1>1, <1>2 DEF KafkaTypes, kafkaVars
<1>4. CASE StartExporter \/ StartCollect
  <2>1. groups' \in Seq(Groups) /\ Len(groups') <= Len(CONSUMER_GROUPS)
    <3>1. CASE StartExporter
      BY <1>1, <3>1 DEF StartExporter, ExporterTypes
    <3>2. CASE StartCollect
      <4>1. groups' = CONSUMER_GROUPS /\ Len(CONSUMER_GROUPS) \in Nat
        BY <3>2, GroupsAssumption DEF StartCollect
      <4> QED
        BY <4>1, GroupsAssumption
    <3> QED
      BY <1>4, <3>1, <3>2
  <2>2. running' \in BOOLEAN /\ UNCHANGED <<offsets, gauge>>
    BY <1>1, <1>4 DEF StartExporter, StartCollect, ExporterTypes
  <2> QED
    BY <1>1, <1>2, <1>3, <2>1, <2>2 DEF ExporterTypes, OffsetsAreOld, kafkaVars
<1>5. ASSUME NEW g \in Groups, ReadOffsets(g) \/ OffsetsFail(g)
      PROVE  ExporterTypes' /\ OffsetsAreOld'
  <2>1. groups' \in Seq(Groups) /\ Len(groups') <= Len(CONSUMER_GROUPS)
    <3>1. groups' = Tail(groups) /\ groups # <<>> /\ groups \in Seq(Groups)
      BY <1>1, <1>5 DEF ReadOffsets, OffsetsFail, AtGroup, ExporterTypes
    <3>2. groups' \in Seq(Groups) /\ Len(groups') = Len(groups) - 1 /\ Len(groups) \in Nat
      BY <3>1
    <3>3. Len(CONSUMER_GROUPS) \in Nat /\ Len(groups) <= Len(CONSUMER_GROUPS)
      BY <1>1, GroupsAssumption DEF ExporterTypes
    <3> QED
      BY <3>2, <3>3
  <2>2. UNCHANGED <<gauge, running, kafkaVars>>
    BY <1>2, <1>5 DEF ReadOffsets, OffsetsFail
  <2>3. CASE ReadOffsets(g)
    <3>1. offsets' = [gp \in {g} \X Partitions |-> committed[g][gp[2]]]
      BY <2>3 DEF ReadOffsets
    <3>2. \A h \in Groups, q \in Partitions :
             committed[h][q] \in {NoOffset} \cup 0 .. MaxOffset
      BY <1>1 DEF KafkaTypes, Offsets
    <3>3. \A h \in Groups, q \in Partitions :
             <<h, q>> \in DOMAIN offsets' => h = g /\ offsets'[<<h, q>>] = committed[g][q]
      BY <3>1
    <3>4. OffsetsAreOld'
      BY <2>2, <3>2, <3>3, MaxOffsetAssumption DEF OffsetsAreOld, kafkaVars
    <3>5. DOMAIN offsets' \subseteq Groups \X Partitions
      BY <3>1
    <3> QED
      BY <1>1, <2>1, <2>2, <3>4, <3>5 DEF ExporterTypes, kafkaVars
  <2>4. CASE OffsetsFail(g)
    BY <1>1, <2>1, <2>2, <2>4 DEF OffsetsFail, ExporterTypes, OffsetsAreOld, kafkaVars
  <2> QED
    BY <1>5, <2>3, <2>4
<1>6. ASSUME NEW g \in Groups, NEW p \in Partitions, PublishLag(g, p) \/ WatermarkFails(g, p)
      PROVE  ExporterTypes' /\ OffsetsAreOld'
  <2>1. offsets' = Without(g, p) /\ UNCHANGED <<kafkaVars, running, groups>>
    BY <1>6 DEF PublishLag, WatermarkFails
  <2>2. /\ DOMAIN offsets' \subseteq DOMAIN offsets
        /\ \A gp \in DOMAIN offsets' : offsets'[gp] = offsets[gp]
    BY <2>1 DEF Without
  <2>3. gauge' \in Offsets /\ \A h \in Groups, q \in Partitions : gauge'[h][q] <= high[h][q]
    BY <1>1, <1>6, LagPublished DEF WatermarkFails, ExporterTypes
  <2>4. OffsetsAreOld'
    BY <1>1, <2>1, <2>2 DEF OffsetsAreOld, kafkaVars
  <2> QED
    BY <1>1, <2>1, <2>2, <2>3, <2>4 DEF ExporterTypes, kafkaVars
<1>7. CASE ExitExporter
  <2>1. /\ running' = FALSE /\ groups' = <<>> /\ offsets' = <<>>
        /\ gauge' = [g \in Groups |-> [p \in Partitions |-> Unset]]
    BY <1>7 DEF ExitExporter
  <2>2. DOMAIN offsets' = {} /\ groups' \in Seq(Groups) /\ Len(groups') <= Len(CONSUMER_GROUPS)
    BY <2>1, GroupsAssumption
  <2>3. \A h \in Groups, q \in Partitions : high[h][q] \in Int /\ 0 <= high[h][q]
    BY <1>1, MaxOffsetAssumption DEF KafkaTypes, Offsets
  <2>4. gauge' \in Offsets /\ \A h \in Groups, q \in Partitions : gauge'[h][q] <= high[h][q]
    BY <2>1, <2>3, MaxOffsetAssumption DEF Offsets
  <2> QED
    BY <1>1, <1>2, <1>3, <2>1, <2>2, <2>4 DEF ExporterTypes, OffsetsAreOld, kafkaVars
<1> QED
  BY <1>2, <1>3, <1>4, <1>5, <1>6, <1>7 DEF ExporterStep, ReadFails

-----------------------------------------------------------------------------
(* Monitoring: the failure counters and their series.                       *)

\* Counting a failure makes it the last one; an exit makes every series absent.
LEMMA CountingKeepsSeries ==
    ASSUME MonitoringInv, UNCHANGED samples,
           \/ \E stage \in {"validation", "delivery"} : CountFailure(stage)
           \/ UNCHANGED <<failures, age>>
           \/ failures' = [s \in Stages |-> 0] /\ UNCHANGED age
    PROVE  SeriesFollowFailures'
<1>1. /\ SeriesFollowFailures /\ samples \in Seq([Stages -> Nat])
      /\ failures \in [Stages -> Nat] /\ age \in [Stages -> 0 .. Window]
  BY TypesApart DEF MonitoringInv, PrometheusTypes, DetectorTypes
<1>2. \A i \in DOMAIN samples : i \in Nat /\ Len(samples) \in Nat /\ i <= Len(samples)
  BY <1>1
<1>3. ASSUME NEW stage \in {"validation", "delivery"}, CountFailure(stage)
      PROVE  SeriesFollowFailures'
  <2>1. \A s \in Stages : s # stage => failures'[s] = failures[s] /\ age'[s] = age[s]
    BY <1>3 DEF CountFailure
  <2>2. \A s \in Stages : s = stage => age'[s] = 0
    BY <1>3 DEF CountFailure
  <2> QED
    BY <1>1, <1>2, <2>1, <2>2 DEF SeriesFollowFailures
<1>4. CASE UNCHANGED <<failures, age>>
  BY <1>1, <1>4 DEF SeriesFollowFailures
<1>5. CASE failures' = [s \in Stages |-> 0] /\ UNCHANGED age
  BY <1>1, <1>5 DEF SeriesFollowFailures
<1> QED
  BY <1>3, <1>4, <1>5

\* The types of the counters after a count: a delivery is counted once.
LEMMA CountingKeepsTypes ==
    ASSUME MonitoringInv, NEW stage \in {"validation", "delivery"}, CountFailure(stage)
    PROVE  /\ failures' \in [Stages -> Nat] /\ age' \in [Stages -> 0 .. Window]
           /\ \A s \in Stages : s # stage => failures'[s] = failures[s]
           /\ \A s \in Stages : s = stage => failures'[s] = failures[s] + 1
<1>1. failures \in [Stages -> Nat] /\ age \in [Stages -> 0 .. Window]
  BY TypesApart DEF MonitoringInv, DetectorTypes, PrometheusTypes
<1>2. 0 \in 0 .. Window
  BY WindowAssumption
<1> QED
  BY <1>1, <1>2 DEF CountFailure

\* One step of the detector per case: it starts, handles, commits, fails, ends.
LEMMA DetectorKeepsInv ==
    ASSUME MonitoringInv, DetectorStep \/ ExitDetector
    PROVE  MonitoringInv'
<1>1. /\ KafkaTypes /\ ExporterTypes /\ DetectorTypes /\ PrometheusTypes
      /\ OffsetsAreOld /\ SeriesFollowFailures
  BY TypesApart DEF MonitoringInv
<1>2. DetectorAssumption
  BY DetectorAssumption
<1>3. UNCHANGED prometheusVars
  BY DEF DetectorStep, StartDetector, HandleMessage, FlushSucceeds, FlushTimesOut, ExitDetector
<1>4. ASSUME UNCHANGED <<kafkaVars, exporterVars>>
      PROVE  KafkaTypes' /\ ExporterTypes' /\ OffsetsAreOld'
  BY <1>1, <1>4 DEF kafkaVars, exporterVars, KafkaTypes, ExporterTypes, OffsetsAreOld
<1>5. CASE StartDetector
  <2>1. /\ pc = "down" /\ pc' = "polling"
        /\ UNCHANGED <<kafkaVars, exporterVars, inHand, failures, prometheusVars, age>>
    BY <1>5 DEF StartDetector
  <2>2. DetectorTypes' /\ PrometheusTypes'
    BY <1>1, <2>1 DEF DetectorTypes, PrometheusTypes, prometheusVars
  <2>3. SeriesFollowFailures'
    BY <2>1, CountingKeepsSeries DEF prometheusVars
  <2> QED
    BY <1>4, <2>1, <2>2, <2>3, InvAfter
<1>6. ASSUME NEW p \in Partitions, HandleMessage(p)
      PROVE  MonitoringInv'
  <2>1. /\ pc = "polling" /\ high[Detector][p] > committed[Detector][p]
        /\ pc' = "flushing" /\ inHand' = p
        /\ UNCHANGED <<failures, age>> \/ CountFailure("validation")
        /\ UNCHANGED <<kafkaVars, exporterVars, prometheusVars>>
    BY <1>6 DEF HandleMessage
  <2>2. failures' \in [Stages -> Nat] /\ age' \in [Stages -> 0 .. Window]
        /\ \A s \in Stages \ {"validation"} : failures'[s] = failures[s]
    BY <1>1, <2>1, CountingKeepsTypes DEF DetectorTypes, PrometheusTypes
  <2>3. committed'[Detector][p] < high'[Detector][p]
    <3>1. committed[Detector][p] \in Int /\ high[Detector][p] \in Int
      BY <1>1, <1>2, MaxOffsetAssumption DEF KafkaTypes, Offsets, DetectorAssumption
    <3> QED
      BY <2>1, <3>1 DEF kafkaVars
  <2>4. DetectorTypes'
    BY <1>1, <2>1, <2>2, <2>3 DEF DetectorTypes
  <2>5. PrometheusTypes'
    BY <1>1, <2>1, <2>2 DEF PrometheusTypes, prometheusVars
  <2>6. SeriesFollowFailures'
    BY <2>1, CountingKeepsSeries DEF prometheusVars
  <2> QED
    BY <1>4, <2>1, <2>4, <2>5, <2>6, InvAfter
<1>7. CASE FlushSucceeds
  <2>1. /\ pc' = "polling" /\ Commits(Detector, inHand) /\ pc = "flushing"
        /\ UNCHANGED <<inHand, failures, prometheusVars, age>>
    BY <1>7 DEF FlushSucceeds
  <2>2. KafkaTypes' /\ ExporterTypes' /\ OffsetsAreOld'
    BY <1>1, <1>2, <2>1, CommitsKeepsKafka DEF DetectorTypes, DetectorAssumption
  <2>3. DetectorTypes' /\ PrometheusTypes'
    BY <1>1, <2>1 DEF DetectorTypes, PrometheusTypes, prometheusVars
  <2>4. SeriesFollowFailures'
    BY <2>1, CountingKeepsSeries DEF prometheusVars
  <2> QED
    BY <2>2, <2>3, <2>4, InvAfter
<1>8. CASE FlushTimesOut
  <2>1. /\ pc = "flushing" /\ pc' = "failed" /\ CountFailure("delivery")
        /\ UNCHANGED <<kafkaVars, exporterVars, inHand, prometheusVars>>
    BY <1>8 DEF FlushTimesOut
  <2>2. /\ failures' \in [Stages -> Nat] /\ age' \in [Stages -> 0 .. Window]
        /\ \A s \in Stages : s # "delivery" => failures'[s] = failures[s]
        /\ \A s \in Stages : s = "delivery" => failures'[s] = failures[s] + 1
    BY <2>1, CountingKeepsTypes
  <2>3. \A s \in Stages \ {"validation"} : failures[s] <= 0 /\ failures[s] \in Nat
    BY <1>1, <2>1 DEF DetectorTypes
  <2>4. \A s \in Stages \ {"validation"} : failures'[s] <= 1
    BY <2>2, <2>3
  <2>5. DetectorTypes'
    BY <1>1, <2>1, <2>2, <2>4 DEF DetectorTypes
  <2>6. PrometheusTypes'
    BY <1>1, <2>1, <2>2 DEF PrometheusTypes, prometheusVars
  <2>7. SeriesFollowFailures'
    BY <2>1, CountingKeepsSeries DEF prometheusVars
  <2> QED
    BY <1>4, <2>1, <2>5, <2>6, <2>7, InvAfter
<1>9. CASE ExitDetector
  <2>1. /\ pc' = "down" /\ failures' = [s \in Stages |-> 0]
        /\ UNCHANGED <<kafkaVars, exporterVars, inHand, prometheusVars, age>>
    BY <1>9 DEF ExitDetector
  <2>2. DetectorTypes' /\ PrometheusTypes'
    BY <1>1, <2>1 DEF DetectorTypes, PrometheusTypes, prometheusVars
  <2>3. SeriesFollowFailures'
    BY <2>1, CountingKeepsSeries DEF prometheusVars
  <2> QED
    BY <1>4, <2>1, <2>2, <2>3, InvAfter
<1> QED
  BY <1>5, <1>6, <1>7, <1>8, <1>9 DEF DetectorStep

\* The other workers commit and the producers append behind the detector's back,
\* but nobody else moves the detector's offsets.
LEMMA EnvironmentKeepsInv ==
    ASSUME MonitoringInv, Environment
    PROVE  MonitoringInv'
<1>1. /\ KafkaTypes /\ DetectorTypes /\ PrometheusTypes /\ SeriesFollowFailures
  BY TypesApart DEF MonitoringInv
<1>2. PICK g \in Groups, p \in Partitions : Arrives(g, p) \/ (g # Detector /\ Commits(g, p))
  BY DEF Environment
<1>3. UNCHANGED <<pc, inHand, failures, samples, above, age>>
  BY DEF Environment, pipelineVars, workerVars, prometheusVars
<1>4. KafkaTypes' /\ ExporterTypes' /\ OffsetsAreOld'
  BY <1>2, ArrivesKeepsKafka, CommitsKeepsKafka
<1>5. \A h \in Groups, q \in Partitions :
         /\ committed[h][q] \in Int /\ high[h][q] \in Int
         /\ committed'[h][q] \in Int /\ high'[h][q] \in Int
  BY <1>1, <1>4, MaxOffsetAssumption DEF KafkaTypes, Offsets
<1>6. pc = "flushing" => committed'[Detector][inHand] < high'[Detector][inHand]
  <2> SUFFICES ASSUME pc = "flushing"
               PROVE  committed'[Detector][inHand] < high'[Detector][inHand]
    OBVIOUS
  <2>1. /\ inHand \in Partitions /\ Detector \in Groups
        /\ committed[Detector][inHand] < high[Detector][inHand]
    BY <1>1, DetectorAssumption DEF DetectorTypes
  <2>2. CASE Arrives(g, p)
    <3>1. high[Detector][inHand] <= high'[Detector][inHand]
      BY <2>1, <2>2, ArrivesKeepsKafka
    <3>2. UNCHANGED committed
      BY <2>2 DEF Arrives
    <3> QED
      BY <1>5, <2>1, <3>1, <3>2
  <2>3. CASE g # Detector /\ Commits(g, p)
    <3>1. committed'[Detector][inHand] = committed[Detector][inHand]
      BY <2>1, <2>3, CommitsKeepsKafka
    <3>2. UNCHANGED high
      BY <2>3 DEF Commits
    <3> QED
      BY <2>1, <3>1, <3>2
  <2> QED
    BY <1>2, <2>2, <2>3
<1>7. DetectorTypes' /\ PrometheusTypes'
  BY <1>1, <1>3, <1>6 DEF DetectorTypes, PrometheusTypes
<1>8. SeriesFollowFailures'
  BY <1>3, CountingKeepsSeries
<1> QED
  BY <1>4, <1>7, <1>8, InvAfter

\* A scrape appends a sample; once the range is full the oldest one leaves it.
LEMMA ScrapeShifts ==
    ASSUME MonitoringInv, Scrape
    PROVE  \E k \in {0, 1} :
              /\ Len(samples') = Len(samples) + 1 - k /\ Len(samples) \in Nat
              /\ DOMAIN samples = 1 .. Len(samples) /\ DOMAIN samples' = 1 .. Len(samples')
              /\ \A i \in 1 .. Len(samples') :
                    samples'[i] = IF i + k <= Len(samples) THEN samples[i + k] ELSE failures
              /\ samples' \in Seq([Stages -> Nat]) /\ Len(samples') <= Window
<1> DEFINE more == Append(samples, failures)
<1>1. /\ samples \in Seq([Stages -> Nat]) /\ Len(samples) <= Window /\ Len(samples) \in Nat
      /\ failures \in [Stages -> Nat] /\ Window \in Nat \ {0}
  BY TypesApart, WindowAssumption DEF MonitoringInv, PrometheusTypes, DetectorTypes
<1>2. samples' = IF Len(more) > Window THEN Tail(more) ELSE more
  BY DEF Scrape
<1>3. /\ more \in Seq([Stages -> Nat]) /\ Len(more) = Len(samples) + 1
      /\ \A i \in 1 .. Len(more) :
            more[i] = IF i <= Len(samples) THEN samples[i] ELSE failures
  <2>1. more \in Seq([Stages -> Nat]) /\ Len(more) = Len(samples) + 1
    BY <1>1
  <2>2. more[Len(samples) + 1] = failures
    BY <1>1
  <2>3. \A i \in 1 .. Len(samples) : more[i] = samples[i]
    BY <1>1
  <2> HIDE DEF more
  <2>4. ASSUME NEW i \in 1 .. Len(more)
        PROVE  more[i] = IF i <= Len(samples) THEN samples[i] ELSE failures
    <3>1. i \in 1 .. Len(samples) \/ i = Len(samples) + 1
      BY <1>1, <2>1
    <3> QED
      BY <1>1, <2>2, <2>3, <3>1
  <2> QED
    BY <2>1, <2>4
<1> HIDE DEF more
<1>4. CASE Len(more) > Window
  <2>1. samples' = Tail(more) /\ more # <<>>
    BY <1>1, <1>2, <1>3, <1>4
  <2>2. /\ samples' \in Seq([Stages -> Nat]) /\ Len(samples') = Len(more) - 1
        /\ \A i \in 1 .. Len(samples') : samples'[i] = more[i + 1]
    BY <1>3, <2>1
  <2>3. Len(samples') = Len(samples) + 1 - 1 /\ Len(samples') <= Window
    BY <1>1, <1>3, <2>2
  <2>4. \A i \in 1 .. Len(samples') :
           samples'[i] = IF i + 1 <= Len(samples) THEN samples[i + 1] ELSE failures
    BY <1>1, <1>3, <2>2
  <2> QED
    BY <1>1, <2>2, <2>3, <2>4
<1>5. CASE ~ (Len(more) > Window)
  <2>1. samples' = more /\ Len(samples') = Len(samples) + 1 - 0 /\ Len(samples') <= Window
    BY <1>1, <1>2, <1>3, <1>5
  <2>2. \A i \in 1 .. Len(samples') :
           samples'[i] = IF i + 0 <= Len(samples) THEN samples[i + 0] ELSE failures
    BY <1>1, <1>3, <2>1
  <2> QED
    BY <1>1, <1>3, <2>1, <2>2
<1> QED
  BY <1>4, <1>5

LEMMA ScrapeKeepsInv ==
    ASSUME MonitoringInv, Scrape
    PROVE  MonitoringInv'
<1>1. /\ KafkaTypes /\ ExporterTypes /\ DetectorTypes /\ PrometheusTypes
      /\ OffsetsAreOld /\ SeriesFollowFailures
  BY TypesApart DEF MonitoringInv
<1>2. UNCHANGED <<kafkaVars, exporterVars, workerVars>>
  BY DEF Scrape
<1>3. KafkaTypes' /\ ExporterTypes' /\ DetectorTypes' /\ OffsetsAreOld'
  BY <1>1, <1>2 DEF kafkaVars, exporterVars, workerVars, KafkaTypes, ExporterTypes,
                    DetectorTypes, OffsetsAreOld
<1>4. /\ age' \in [Stages -> 0 .. Window]
      /\ \A s \in Stages : age'[s] <= age[s] + 1 /\ age[s] \in Nat /\ age'[s] \in Nat
  <2>1. /\ age' = [s \in Stages |-> Capped(age[s] + 1, Window)]
        /\ age \in [Stages -> 0 .. Window] /\ Window \in Nat
    BY <1>1, WindowAssumption DEF Scrape, PrometheusTypes
  <2> QED
    BY <2>1 DEF Capped
<1>5. above' \in [Groups -> 0 .. ForTicks]
  <2>1. /\ above \in [Groups -> 0 .. ForTicks] /\ ForTicks \in Nat
        /\ above' = [g \in Groups |->
                       IF ReportedLag(g) > LagThreshold THEN Capped(above[g] + 1, ForTicks)
                       ELSE 0]
    BY <1>1, ForTicksAssumption DEF Scrape, PrometheusTypes
  <2>2. \A g \in Groups : Capped(above[g] + 1, ForTicks) \in 0 .. ForTicks
    BY <2>1 DEF Capped
  <2>3. 0 \in 0 .. ForTicks
    BY <2>1
  <2> QED
    BY <2>1, <2>2, <2>3
<1>6. PICK k \in {0, 1} :
         /\ Len(samples') = Len(samples) + 1 - k /\ Len(samples) \in Nat
         /\ DOMAIN samples = 1 .. Len(samples) /\ DOMAIN samples' = 1 .. Len(samples')
         /\ \A i \in 1 .. Len(samples') :
               samples'[i] = IF i + k <= Len(samples) THEN samples[i + k] ELSE failures
         /\ samples' \in Seq([Stages -> Nat]) /\ Len(samples') <= Window
  BY ScrapeShifts
<1>7. PrometheusTypes'
  BY <1>4, <1>5, <1>6 DEF PrometheusTypes
<1>8. SeriesFollowFailures'
  <2> SUFFICES ASSUME NEW s \in Stages, NEW i \in DOMAIN samples'
               PROVE  /\ age'[s] > Len(samples') - i =>
                            /\ failures'[s] \in {0, samples'[i][s]}
                            /\ \A j \in i .. Len(samples') :
                                  samples'[j][s] \in {0, samples'[i][s]}
                      /\ s # "validation" => samples'[i][s] <= 1
    BY DEF SeriesFollowFailures
  <2>1. failures' = failures /\ i \in 1 .. Len(samples')
    BY <1>2, <1>6 DEF workerVars
  <2>2. CASE i + k <= Len(samples)
    <3>1. samples'[i] = samples[i + k] /\ i + k \in DOMAIN samples
      BY <1>6, <2>1, <2>2
    <3>2. ASSUME age'[s] > Len(samples') - i
          PROVE  /\ failures[s] \in {0, samples[i + k][s]}
                 /\ \A j \in i + k .. Len(samples) : samples[j][s] \in {0, samples[i + k][s]}
      <4>1. /\ age[s] \in Nat /\ age'[s] \in Nat /\ age'[s] <= age[s] + 1
            /\ Len(samples) \in Nat /\ k \in Int /\ i \in Int
            /\ age'[s] > (Len(samples) + 1 - k) - i
        BY <1>4, <1>6, <2>1, <3>2
      <4>2. age[s] > Len(samples) - (i + k)
        BY <4>1
      <4> QED
        BY <1>1, <3>1, <4>2 DEF SeriesFollowFailures
    <3>3. ASSUME age'[s] > Len(samples') - i, NEW j \in i .. Len(samples')
          PROVE  samples'[j][s] \in {0, samples'[i][s]}
      <4>1. samples'[j] = IF j + k <= Len(samples) THEN samples[j + k] ELSE failures
        BY <1>6, <2>1
      <4>2. j + k <= Len(samples) => j + k \in i + k .. Len(samples)
        BY <1>6, <2>1
      <4> QED
        BY <3>1, <3>2, <3>3, <4>1, <4>2
    <3>4. s # "validation" => samples'[i][s] <= 1
      BY <1>1, <3>1 DEF SeriesFollowFailures
    <3> QED
      BY <2>1, <3>1, <3>2, <3>3, <3>4
  <2>3. CASE ~ (i + k <= Len(samples))
    <3>1. i = Len(samples') /\ samples'[i] = failures
      BY <1>6, <2>1, <2>3
    <3>2. s # "validation" => failures[s] <= 1
      BY <1>1 DEF DetectorTypes
    <3>3. \A j \in i .. Len(samples') : j = i
      BY <1>6, <2>1, <3>1
    <3> QED
      BY <2>1, <3>1, <3>2, <3>3
  <2> QED
    BY <2>2, <2>3
<1> QED
  BY <1>1, <1>3, <1>7, <1>8, InvAfter

\* Every step of the specification keeps the invariant.
LEMMA NextKeepsMonitoringInv == MonitoringInv /\ [Next]_vars => MonitoringInv'
<1> SUFFICES ASSUME MonitoringInv, [Next]_vars
             PROVE  MonitoringInv'
  OBVIOUS
<1>1. CASE Exporter
  <2>1. KafkaTypes' /\ ExporterTypes' /\ OffsetsAreOld' /\ UNCHANGED kafkaVars
    BY <1>1, ExporterKeepsTypes DEF Exporter
  <2>2. UNCHANGED <<kafkaVars, pipelineVars>>
    BY <1>1, <2>1 DEF Exporter
  <2>3. DetectorTypes' /\ PrometheusTypes' /\ SeriesFollowFailures'
    <3>1. DetectorTypes /\ PrometheusTypes
      BY TypesApart DEF MonitoringInv
    <3>2. UNCHANGED <<high, committed, pc, inHand, failures, samples, above, age>>
      BY <2>2 DEF kafkaVars, pipelineVars, workerVars, prometheusVars
    <3>3. SeriesFollowFailures'
      BY <3>2, CountingKeepsSeries
    <3> QED
      BY <3>1, <3>2, <3>3 DEF DetectorTypes, PrometheusTypes
  <2> QED
    BY <2>1, <2>3, InvAfter
<1>2. CASE UNCHANGED vars
  <2>1. UNCHANGED <<high, committed, running, groups, offsets, gauge, pc, inHand, failures,
                    samples, above, age>>
    BY <1>2 DEF vars, kafkaVars, exporterVars, pipelineVars, workerVars, prometheusVars
  <2>2. KafkaTypes' /\ ExporterTypes' /\ DetectorTypes' /\ PrometheusTypes'
    BY <2>1, TypesApart
       DEF MonitoringInv, KafkaTypes, ExporterTypes, DetectorTypes, PrometheusTypes
  <2>3. OffsetsAreOld' /\ SeriesFollowFailures'
    BY <2>1 DEF MonitoringInv, OffsetsAreOld, SeriesFollowFailures
  <2> QED
    BY <2>2, <2>3, InvAfter
<1> QED
  BY <1>1, <1>2, DetectorKeepsInv, ScrapeKeepsInv, EnvironmentKeepsInv DEF Next

\* What the exporter, the detector's counters and Prometheus keep among them,
\* for all groups, partitions, windows and thresholds.
THEOREM MonitoringInvariance == Spec => []MonitoringInv
  BY InitMonitoringInv, NextKeepsMonitoringInv, PTL DEF Spec

-----------------------------------------------------------------------------
(* Monitoring: what its readers may rely on.                                *)

\* lag_exporter.py: the offsets are read before the watermark, so that whatever
\* is committed and appended in between, no lag is published below the backlog.
THEOREM NoLagUnderstated == Spec => LagNeverUnderstated
<1>1. MonitoringInv /\ [Next]_vars =>
         [\A g \in Groups, p \in Partitions :
             PublishLag(g, p) /\ offsets[<<g, p>>] # NoOffset
                => gauge'[g][p] >= Lag(g, p)]_vars
  BY LagPublished
<1> QED
  BY <1>1, MonitoringInvariance, PTL DEF Spec, LagNeverUnderstated

\* monitoring/alerts.yml: DetectorFailures needs two samples of a series that
\* differ, and between them lies a failure, not merely an exit.
THEOREM NoFalseAlarm == Spec => []AlarmsAreRecent
<1>1. MonitoringInv => AlarmsAreRecent
  <2> SUFFICES ASSUME MonitoringInv, NEW s \in Stages, DetectorFailures(s)
               PROVE  age[s] < Window
    BY DEF AlarmsAreRecent
  <2>1. /\ samples \in Seq([Stages -> Nat]) /\ Len(samples) <= Window /\ Len(samples) \in Nat
        /\ age \in [Stages -> 0 .. Window] /\ Window \in Nat /\ SeriesFollowFailures
    BY TypesApart, WindowAssumption DEF MonitoringInv, PrometheusTypes
  <2>2. PICK i, j \in DOMAIN samples : 0 < samples[i][s] /\ samples[i][s] < samples[j][s]
    BY DEF DetectorFailures
  <2>3. i \in 1 .. Len(samples) /\ j \in 1 .. Len(samples)
    BY <2>1, <2>2
  <2>4. samples[i][s] \in Nat /\ samples[j][s] \in Nat
    BY <2>1, <2>2
  <2>5. ASSUME NEW m \in 1 .. Len(samples), NEW n \in m .. Len(samples),
               age[s] > Len(samples) - m
        PROVE  samples[n][s] \in {0, samples[m][s]}
    <3>1. m \in DOMAIN samples
      BY <2>1
    <3> QED
      BY <2>1, <2>5, <3>1 DEF SeriesFollowFailures
  <2>6. CASE i <= j
    <3>1. j \in i .. Len(samples) /\ samples[j][s] \notin {0, samples[i][s]}
      BY <2>2, <2>3, <2>4, <2>6
    <3>2. ~ (age[s] > Len(samples) - i)
      BY <2>3, <2>5, <3>1
    <3> QED
      BY <2>1, <2>3, <3>2
  <2>7. CASE ~ (i <= j)
    <3>1. i \in j .. Len(samples) /\ samples[i][s] \notin {0, samples[j][s]}
      BY <2>2, <2>3, <2>4, <2>7
    <3>2. ~ (age[s] > Len(samples) - j)
      BY <2>3, <2>5, <3>1
    <3> QED
      BY <2>1, <2>3, <3>2
  <2> QED
    BY <2>6, <2>7
<1> QED
  BY <1>1, MonitoringInvariance, PTL

\* detector.py:96-97 and monitoring/alerts.yml: the process that counts a
\* delivery failure ends with it, so the series never shows two values.
THEOREM DeliveryIsNeverAlerted == Spec => []NoDeliveryAlarm
<1>1. MonitoringInv => NoDeliveryAlarm
  <2> SUFFICES ASSUME MonitoringInv, NEW s \in Stages \ {"validation"}, DetectorFailures(s)
               PROVE  FALSE
    BY DEF NoDeliveryAlarm
  <2>1. samples \in Seq([Stages -> Nat]) /\ SeriesFollowFailures
    BY TypesApart DEF MonitoringInv, PrometheusTypes
  <2>2. PICK i, j \in DOMAIN samples : 0 < samples[i][s] /\ samples[i][s] < samples[j][s]
    BY DEF DetectorFailures
  <2>3. samples[i][s] \in Nat /\ samples[j][s] \in Nat /\ samples[j][s] <= 1
    BY <2>1, <2>2 DEF SeriesFollowFailures
  <2> QED
    BY <2>2, <2>3
<1> QED
  BY <1>1, MonitoringInvariance, PTL
=============================================================================
