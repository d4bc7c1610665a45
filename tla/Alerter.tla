------------------------------- MODULE Alerter -------------------------------
(***************************************************************************)
(* AlertWorker (alerter.py): consume fraud.alerts, write each alert to the *)
(* log, forward it to the webhook when one is configured, capture it in    *)
(* the dead letters when every attempt failed, commit.  The webhook sink   *)
(* is external: a POST may be received although its answer is an error or  *)
(* never comes.                                                            *)
(***************************************************************************)
EXTENDS KafkaWorker

CONSTANTS
    Decisions,        \* payloads FraudDecision.model_validate_json accepts
    Invalid,          \* payloads it refuses
    WebhookEnabled,   \* ALERT_WEBHOOK_URL is set
    MaxRetries,       \* alert_webhook_max_retries: attempts per alert
    MaxAlerts         \* bound: records ever written to a partition of fraud.alerts

ASSUME InvalidAssumption == Decisions \cap Invalid = {}
ASSUME WebhookEnabledAssumption == WebhookEnabled \in BOOLEAN
ASSUME MaxRetriesAssumption == MaxRetries \in Nat
ASSUME MaxAlertsAssumption == MaxAlerts \in Nat

VARIABLES
    attempt,    \* the POST about to be made for the message in hand, 0 if none
    logged,     \* logged[d]: log lines written for alert d (history)
    received    \* received[d]: how often the sink received d (history)

alertVars == <<attempt, logged, received>>
vars == <<kafkaVars, alertVars>>

Init ==
    /\ KafkaInit
    /\ attempt = 0
    /\ logged = [d \in Decisions |-> 0]
    /\ received = [d \in Decisions |-> 0]

-----------------------------------------------------------------------------
\* The detector publishes an alert, each with its own processed_at; anything
\* may write an invalid record.
Ingest(v, p) ==
    /\ Len(log[Alerts][p]) < MaxAlerts
    /\ v \in Decisions => v \notin InLog(Alerts)
    /\ log' = Appended(Alerts, p, v)
    /\ UNCHANGED <<committed, position, pc, msg, outbox, orphans, rejected, exits>>
    /\ UNCHANGED alertVars

StartAlerter == Start /\ UNCHANGED alertVars

PollAlerts(p) == Poll(Alerts, p) /\ UNCHANGED alertVars

\* The alert the handler has yet to deal with.
AlertInHand == pc = "processing" /\ Payload(Alerts) \in Decisions

\* Wrong: with a webhook, the log line is left to the webhook's success.
LogWithoutWebhookOnly ==
    /\ AlertInHand
    /\ attempt = 0
    /\ IF WebhookEnabled
       THEN attempt' = 1 /\ pc' = pc /\ logged' = logged
       ELSE attempt' = 0 /\ pc' = "committing"
              /\ logged' = [logged EXCEPT ![Payload(Alerts)] = @ + 1]
    /\ UNCHANGED <<log, committed, position, msg, outbox, orphans, rejected, exits, received>>

\* _dispatch: the log line comes first; without a webhook that is all.
LogAlert ==
    /\ AlertInHand
    /\ attempt = 0
    /\ logged' = [logged EXCEPT ![Payload(Alerts)] = @ + 1]
    /\ IF WebhookEnabled THEN attempt' = 1 /\ pc' = pc
                         ELSE attempt' = 0 /\ pc' = "committing"
    /\ UNCHANGED <<log, committed, position, msg, outbox, orphans, rejected, exits, received>>

\* deliver_webhook: the sink answers 2xx.
PostSucceeds ==
    /\ AlertInHand
    /\ attempt \in 1 .. MaxRetries
    /\ received' = [received EXCEPT ![Payload(Alerts)] = @ + 1]
    /\ attempt' = 0
    /\ pc' = "committing"
    /\ UNCHANGED <<log, committed, position, msg, outbox, orphans, rejected, exits, logged>>

\* Wrong: the counter of attempts starts over with every failure.
PostFailsForever ==
    /\ AlertInHand
    /\ attempt \in 1 .. MaxRetries
    /\ attempt' = 1
    /\ \E n \in {0, 1} : received' = [received EXCEPT ![Payload(Alerts)] = @ + n]
    /\ UNCHANGED <<kafkaVars, logged>>

\* deliver_webhook: an httpx.HTTPError, after which the next attempt is due.
\* The sink may have received the alert all the same (a read timeout, a 5xx).
PostFails ==
    /\ AlertInHand
    /\ attempt \in 1 .. MaxRetries
    /\ attempt' = attempt + 1
    /\ \E n \in {0, 1} : received' = [received EXCEPT ![Payload(Alerts)] = @ + n]
    /\ UNCHANGED <<kafkaVars, logged>>

\* Wrong: an alert is dropped when the retries are exhausted.
DropAlert ==
    /\ AlertInHand
    /\ attempt > MaxRetries
    /\ attempt' = 0
    /\ pc' = "committing"
    /\ UNCHANGED <<log, committed, position, msg, outbox, orphans, rejected, exits>>
    /\ UNCHANGED <<logged, received>>

\* _dispatch, retries exhausted: produce the alert to the dead letters.
CaptureAlert ==
    /\ AlertInHand
    /\ attempt > MaxRetries
    /\ Produce({Request(DeadLetter, DeadLetterPartition, Payload(Alerts))})
    /\ attempt' = 0
    /\ UNCHANGED <<logged, received>>

\* Wrong: flush without a timeout waits for the broker.
CaptureWaits ==
    /\ Flushed
    /\ Payload(Alerts) \in Decisions
    /\ UNCHANGED alertVars

\* ... and flush(10), whose result is ignored: after ten seconds the handler
\* returns and commits, with the request answered or not.
CaptureReturns ==
    /\ pc = "delivering"
    /\ Payload(Alerts) \in Decisions
    /\ pc' = "committing"
    /\ UNCHANGED <<log, committed, position, msg, outbox, orphans, rejected, exits>>
    /\ UNCHANGED alertVars

\* _process on a payload that does not validate.
DeadLetterAlert ==
    /\ pc = "processing"
    /\ Payload(Alerts) \in Invalid
    /\ Produce({Request(DeadLetter, DeadLetterPartition, Payload(Alerts))})
    /\ UNCHANGED alertVars

\* There the result of flush(10) counts: it is 0 ...
FlushDeadLetter ==
    /\ Flushed
    /\ Payload(Alerts) \in Invalid
    /\ UNCHANGED alertVars

\* ... or something is left, a captured alert of an earlier message included.
DeadLetterTimeout ==
    /\ FlushTimeout
    /\ Payload(Alerts) \in Invalid
    /\ attempt' = 0
    /\ UNCHANGED <<logged, received>>

CommitOffset == Commit /\ UNCHANGED alertVars

CloseAlerter == Close /\ UNCHANGED alertVars

StopAlerter == Stop /\ UNCHANGED alertVars

CrashAlerter ==
    /\ Crash
    /\ attempt' = 0
    /\ UNCHANGED <<logged, received>>

Idle == IdlePoll /\ UNCHANGED alertVars

Broker == BrokerAnswers /\ UNCHANGED alertVars

Orphans == OrphanStep /\ UNCHANGED alertVars

WorkerStep ==
    \/ StartAlerter
    \/ \E p \in Partitions : PollAlerts(p)
    \/ LogAlert
    \/ PostSucceeds
    \/ PostFails
    \/ CaptureAlert
    \/ CaptureReturns
    \/ DeadLetterAlert
    \/ FlushDeadLetter
    \/ CommitOffset
    \/ CloseAlerter

Environment ==
    \E v \in Decisions \cup Invalid, p \in Partitions : Ingest(v, p)

Next ==
    \/ WorkerStep
    \/ Broker
    \/ Orphans
    \/ DeadLetterTimeout
    \/ CrashAlerter
    \/ StopAlerter
    \/ Idle
    \/ Environment

Spec == Init /\ [][Next]_vars

\* Only the worker itself is assumed to go on: each POST ends by its timeout,
\* each flush by its ten seconds, and docker restarts the process.  Neither
\* the sink nor, for valid alerts, the broker is assumed to answer.
FairSpec == Spec /\ WF_vars(WorkerStep)

-----------------------------------------------------------------------------
(* Properties. *)

ValueType ==
    [t \in Topics |-> IF t = Alerts THEN Decisions \cup Invalid
                      ELSE IF t = DeadLetter THEN Decisions \cup Invalid ELSE {}]

\* Types; an attempt is counted only while an alert is in hand.
TypeOK ==
    /\ KafkaTypeOK(ValueType)
    /\ attempt \in 0 .. MaxRetries + 1
    /\ attempt > 0 => AlertInHand
    /\ logged \in [Decisions -> Nat]
    /\ received \in [Decisions -> Nat]

Committed(d) == \E p \in Partitions : \E i \in 1 .. committed[p] : log[Alerts][p][i] = d

\* docs/RUNBOOK.md:134-135: every alert is written to the alerter log,
\* whatever becomes of the webhook and however often the worker restarts.
EveryAlertLogged == \A d \in Decisions : Committed(d) => logged[d] > 0

\* Where an alert the worker is done with can still be found or awaited.
Captured(d) ==
    \/ received[d] > 0
    \/ d \in InLog(DeadLetter)
    \/ d \in Queued(DeadLetter)
    \/ d \in {r.value : r \in orphans}

\* alerter.py:8-10: when all retries are exhausted the alert is captured in the
\* dead-letter topic rather than dropped.
NoAlertDropped == WebhookEnabled => \A d \in Decisions : Committed(d) => Captured(d)

\* What the code does ensure: until the process exits, an alert it is done with
\* was received by the sink, or is in, or on its way to, the dead letters --
\* unless the broker refused it there.
OnlyExitsDropAlerts ==
    exits = 0 /\ WebhookEnabled =>
       \A d \in Decisions : Committed(d) => Captured(d) \/ d \in rejected[DeadLetter]

\* The sink hears of an alert at most MaxRetries times per log line, that is per
\* time the alert was handled: retries are bounded, restarts included.
RetriesBounded == \A d \in Decisions : received[d] <= MaxRetries * logged[d]

\* What the worker leaves behind of an alert v it is done with after n exits: its
\* log line and, before the first exit, its reception or its dead letter.
Handled(v, lines, posts, out, n) ==
    v \in Decisions =>
       /\ lines[v] > 0
       /\ WebhookEnabled /\ n = 0 => posts[v] > 0 \/ v \in out[DeadLetter]

CommittedIsHandled ==
    \A p \in Partitions : \A i \in 1 .. committed[p] :
       Handled(log[Alerts][p][i], logged, received, Issued, exits)

\* The same of the alert in hand, once only its flush and its commit are left.
HandledInHand ==
    pc \in {"delivering", "committing"} =>
       Handled(Payload(Alerts), logged, received, Issued, exits)

\* The POSTs the handler may still make for d.
PostsLeft(d) ==
    IF attempt > 0 /\ d = Payload(Alerts) THEN MaxRetries + 1 - attempt ELSE 0

\* POSTs start after the log line, and each log line allows MaxRetries of them.
AttemptsCounted ==
    /\ attempt > 0 => logged[Payload(Alerts)] > 0
    /\ \A d \in Decisions : received[d] + PostsLeft(d) <= MaxRetries * logged[d]

\* The inductive invariant behind EveryAlertLogged, OnlyExitsDropAlerts and
\* RetriesBounded.
AlerterInv ==
    /\ TypeOK
    /\ OneInHand(Alerts)
    /\ AttemptsCounted
    /\ HandledInHand
    /\ CommittedIsHandled

\* "never blocks or re-drives the pipeline" (alerter.py:10): as long as the topic
\* holds valid alerts only, each is eventually committed, with nothing assumed
\* of the sink or of the broker.
NeverBlocked ==
    [](InLog(Alerts) \cap Invalid = {}) =>
       \A p \in Partitions : \A i \in 1 .. MaxAlerts :
          Len(log[Alerts][p]) >= i ~> committed[p] >= i
=============================================================================
