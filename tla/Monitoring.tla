----------------------------- MODULE Monitoring -----------------------------
(***************************************************************************)
(* What operators see of the pipeline: the detector's offsets and its      *)
(* failure counters (detector.py, metrics.py), the lag exporter, and the   *)
(* rules DetectorFailures and ConsumerLag (monitoring/alerts.yml).         *)
(*                                                                         *)
(* Prometheus is external.  A scrape is a tick: the rules are evaluated at *)
(* the rate of the scrapes, [5m] is a window of Window samples, for: 5m is *)
(* ForTicks evaluations in a row.  A counter is a number in the memory of  *)
(* its process, and a labelled counter does not exist before its first     *)
(* inc.                                                                    *)
(***************************************************************************)
EXTENDS LagExporter

CONSTANTS
    Detector,      \* the detector's group; the other workers only commit
    Stages,        \* the stages whose failures are followed: each is a series of its own
    Window,        \* samples in the range of increase(...[5m])
    LagThreshold,  \* 1000 in the rule
    ForTicks       \* evaluations before ConsumerLag fires

ASSUME DetectorAssumption == Detector \in Groups
ASSUME StagesAssumption == Stages \subseteq {"validation", "delivery"}
ASSUME WindowAssumption == Window \in Nat \ {0}
ASSUME ForTicksAssumption == ForTicks \in Nat \ {0}

VARIABLES
    pc,        \* the detector: "down", "polling", "flushing" or "failed"
    inHand,    \* the partition of the message it handles
    failures,  \* failures[s]: DETECTOR_FAILURES of the process, 0 before its first inc
    samples,   \* the last Window scrapes of failures; 0 where there is no sample
    above,     \* above[g]: evaluations in a row with the lag above the threshold
    age        \* age[s]: scrapes since the last failure of the stage (history)

workerVars == <<pc, inHand, failures>>
prometheusVars == <<samples, above>>
pipelineVars == <<workerVars, prometheusVars, age>>
vars == <<kafkaVars, exporterVars, pipelineVars>>

Init ==
    /\ LagInit
    /\ pc = "down"
    /\ inHand \in Partitions
    /\ failures = [s \in Stages |-> 0]
    /\ samples = <<>>
    /\ above = [g \in Groups |-> 0]
    /\ age = [s \in Stages |-> Window]

-----------------------------------------------------------------------------
(* The detector, as far as it is monitored. *)

CountFailure(stage) ==
    /\ failures' = [s \in Stages |-> IF s = stage THEN failures[s] + 1 ELSE failures[s]]
    /\ age' = [s \in Stages |-> IF s = stage THEN 0 ELSE age[s]]

StartDetector ==
    /\ pc = "down"
    /\ pc' = "polling"
    /\ UNCHANGED <<kafkaVars, exporterVars, inHand, failures, prometheusVars, age>>

\* poll returns a message of partition p; it validates, or the failure counts.
HandleMessage(p) ==
    /\ pc = "polling"
    /\ high[Detector][p] > 0 /\ high[Detector][p] > committed[Detector][p]
    /\ pc' = "flushing"
    /\ inHand' = p
    /\ \/ UNCHANGED <<failures, age>>
       \/ CountFailure("validation")
    /\ UNCHANGED <<kafkaVars, exporterVars, prometheusVars>>

FlushSucceeds ==
    /\ pc = "flushing"
    /\ pc' = "polling"
    /\ Commits(Detector, inHand)
    /\ UNCHANGED <<inHand, failures, prometheusVars, age>>

\* flush(10) leaves a remainder: count it and raise out of the loop.
FlushTimesOut ==
    /\ pc = "flushing"
    /\ pc' = "failed"
    /\ CountFailure("delivery")
    /\ UNCHANGED <<kafkaVars, exporterVars, inHand, prometheusVars>>

\* The process ends, after a failed flush or for any other reason.
ExitDetector ==
    /\ pc # "down"
    /\ pc' = "down"
    /\ failures' = [s \in Stages |-> 0]
    /\ UNCHANGED <<kafkaVars, exporterVars, inHand, prometheusVars, age>>

-----------------------------------------------------------------------------
(* Prometheus and the rules of monitoring/alerts.yml. *)

\* Wrong: a series that is absent is taken for one that stands at zero.
DetectorFailuresOfAbsent(s) ==
    \E i, j \in DOMAIN samples : samples[i][s] < samples[j][s]

\* increase(fraud_detector_failures_total[5m]) > 0: two samples of the range
\* differ.  A first sample is no increase, and a counter that fell was reset and
\* has counted up to its new value.
DetectorFailures(s) ==
    \E i, j \in DOMAIN samples : 0 < samples[i][s] /\ samples[i][s] < samples[j][s]

\* sum by (group) (fraud_consumer_lag); there is none before a gauge has a value.
ReportedLag(g) ==
    FoldFunctionOnSet(+, 0, gauge[g], {p \in Partitions : gauge[g][p] # Unset})

ConsumerLag(g) == above[g] >= ForTicks

Capped(n, limit) == IF n > limit THEN limit ELSE n

\* The failures counters are sampled if the detector answers; both rules are
\* evaluated.
Scrape ==
    /\ samples' = LET s == Append(samples, failures)
                  IN  IF Len(s) > Window THEN Tail(s) ELSE s
    /\ above' = [g \in Groups |->
                   IF ReportedLag(g) > LagThreshold THEN Capped(above[g] + 1, ForTicks) ELSE 0]
    /\ age' = [s \in Stages |-> Capped(age[s] + 1, Window)]
    /\ UNCHANGED <<kafkaVars, exporterVars, workerVars>>

-----------------------------------------------------------------------------
DetectorStep ==
    \/ StartDetector
    \/ \E p \in Partitions : HandleMessage(p)
    \/ FlushSucceeds
    \/ FlushTimesOut

Exporter == (ExporterStep \/ ExitExporter) /\ UNCHANGED pipelineVars

Environment ==
    /\ \E g \in Groups, p \in Partitions : Arrives(g, p) \/ (g # Detector /\ Commits(g, p))
    /\ UNCHANGED pipelineVars

Next == DetectorStep \/ ExitDetector \/ Scrape \/ Exporter \/ Environment

Spec == Init /\ [][Next]_vars

(***************************************************************************)
(* Prometheus scrapes and docker keeps the exporter running; Kafka may     *)
(* fail any read, but does not fail the same read for ever.  Nothing is    *)
(* assumed of the workers.                                                 *)
(***************************************************************************)
Fairness ==
    /\ WF_vars(Scrape)
    /\ WF_vars(ExporterStep /\ UNCHANGED pipelineVars)
    /\ \A g \in Groups :
          /\ SF_vars(ReadOffsets(g) /\ UNCHANGED pipelineVars)
          /\ \A p \in Partitions : SF_vars(PublishLag(g, p) /\ UNCHANGED pipelineVars)

FairSpec == Spec /\ Fairness

-----------------------------------------------------------------------------
(* Properties. *)

Offsets == [Groups -> [Partitions -> {NoOffset} \cup 0 .. MaxOffset]]

\* Types; a gauge never shows more than the partition holds, and the detector
\* handles a message that is there and not committed.
TypeOK ==
    /\ high \in Offsets /\ committed \in Offsets /\ gauge \in Offsets
    /\ \A g \in Groups, p \in Partitions :
          /\ 0 <= high[g][p] /\ committed[g][p] <= high[g][p]
          /\ gauge[g][p] <= high[g][p]
    /\ running \in BOOLEAN /\ groups \in Seq(Groups) /\ Len(groups) <= Len(CONSUMER_GROUPS)
    /\ DOMAIN offsets \subseteq Groups \X Partitions
    /\ pc \in {"down", "polling", "flushing", "failed"} /\ inHand \in Partitions
    /\ pc = "flushing" => committed[Detector][inHand] < high[Detector][inHand]
    /\ failures \in [Stages -> Nat] /\ (pc = "down" => \A s \in Stages : failures[s] = 0)
    /\ \A s \in Stages \ {"validation"} : failures[s] <= IF pc = "failed" THEN 1 ELSE 0
    /\ samples \in Seq([Stages -> Nat]) /\ Len(samples) <= Window
    /\ above \in [Groups -> 0 .. ForTicks]
    /\ age \in [Stages -> 0 .. Window]

\* Offsets first, watermark second, with the group at work in between: a
\* published lag is at least the backlog there is at that moment.
LagNeverUnderstated ==
    [][\A g \in Groups, p \in Partitions :
          PublishLag(g, p) /\ offsets[<<g, p>>] # NoOffset
             => gauge'[g][p] >= Lag(g, p)]_vars

\* The exporter's half of the inductive invariant: an offset it holds was the
\* group's some time before, and offsets only grow.
OffsetsAreOld ==
    \A g \in Groups, p \in Partitions :
       <<g, p>> \in DOMAIN offsets =>
          /\ offsets[<<g, p>>] \in {NoOffset} \cup 0 .. MaxOffset
          /\ offsets[<<g, p>>] <= committed[g][p]

\* DetectorFailures gives no false alarm: when it fires for a stage, a message
\* failed there since the oldest sample of the range, however often the
\* detector stopped and its counters started over.
AlarmsAreRecent ==
    \A s \in Stages : DetectorFailures(s) => age[s] < Window

\* ... but it never fires for a delivery failure, not even for several of them
\* within 5m: detector.py:96-97 counts it and ends the process.
NoDeliveryAlarm ==
    \A s \in Stages \ {"validation"} : ~ DetectorFailures(s)

\* The alert's half: since a scrape with no failure after it, the series stands
\* where it stood or is gone; and no process counts two delivery failures.
SeriesFollowFailures ==
    \A s \in Stages, i \in DOMAIN samples :
       /\ age[s] > Len(samples) - i =>
             /\ failures[s] \in {0, samples[i][s]}
             /\ \A j \in i .. Len(samples) : samples[j][s] \in {0, samples[i][s]}
       /\ s # "validation" => samples[i][s] <= 1

MonitoringInv == TypeOK /\ OffsetsAreOld /\ SeriesFollowFailures

\* What a group has left in the partitions it has committed an offset of.
Backlog(g) ==
    LET counted == {p \in Partitions : committed[g][p] # NoOffset}
    IN  FoldFunctionOnSet(+, 0, [p \in counted |-> Lag(g, p)], counted)

\* docs/RUNBOOK.md:76-78, "the real health signal": when a group stays behind by
\* more than the threshold, ConsumerLag fires and goes on firing, whatever
\* reads fail in between -- provided that the group has ever committed and that
\* the exporter ends up running.
StuckIsAlerted ==
    \A g \in Groups :
       <>[](running /\ Backlog(g) > LagThreshold) => <>[]ConsumerLag(g)

\* ... and it stops when the group has caught up: no stale gauge keeps it on.
CaughtUpIsResolved ==
    \A g \in Groups :
       <>[](Backlog(g) = 0) => <>[]~ ConsumerLag(g)

\* docs/RUNBOOK.md:73 of DetectorFailures: "validation or delivery failures
\* within 5m".  The alert fires after every failure.
EveryFailureIsAlerted ==
    \A s \in Stages : age[s] = 0 ~> DetectorFailures(s)
=============================================================================
