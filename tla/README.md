# Real-time fraud detection pipeline: TLA+ project

The pipeline takes payment transactions over HTTP, queues them in Kafka, scores them with rules and
a logistic model, stores the decisions in PostgreSQL and sends the suspicious ones to a log, a
webhook, or a dead-letter topic. Its correctness lives in three poll loops that commit offsets by
hand, in what they do when a flush, a webhook, the database or the process fails, and in an
in-memory feature history that a restart loses. These modules model that.

Paths below are relative to `src/fraud_detection/` in the repository unless they start otherwise.

## Inventory

| Part | State | Operations | Talks to |
| --- | --- | --- | --- |
| Transaction API (`api.py`, `messaging.py`) | producer queue, unread delivery reports, request threads | submit, poll(0), shutdown | callers (202/503), `transactions.raw` |
| Detector (`detector.py`) | offsets, message in hand, producer queue, feature memory | poll, score, publish, dead-letter, flush, commit, stop | `transactions.raw` to `transactions.scored`, `fraud.alerts`, `transactions.dead_letter` |
| Feature memory, rules, scorer (`features.py`, `rules.py`, `scoring.py`) | per customer: event times, devices, countries | observe, evaluate, decide | called by the detector |
| Decision store (`decision_store.py`, `storage.py`) | offsets, table `fraud_decisions` | poll, upsert, dead-letter, commit | `transactions.scored`, PostgreSQL |
| Alerter (`alerter.py`) | offsets, attempt counter, producer queue | poll, log, POST with retries, capture, commit | `fraud.alerts`, webhook, `transactions.dead_letter` |
| Dead-letter replay (`scripts/replay_dead_letter.py`) | offsets of its own group | read all, republish, flush, commit | `transactions.dead_letter` to a chosen topic |
| Lag exporter (`lag_exporter.py`) | gauges | read offsets and watermarks every 15 s | Kafka, Prometheus |
| Logistic model (`model.py`, `models/fraud_logreg_v1.json`) | none | load, logit, calibrate, round | called by the scorer |
| Alert rules (`metrics.py`, `monitoring/alerts.yml`) | counters, samples, pending alerts | inc, scrape, evaluate | scraped by Prometheus |
| Artifact verification, training, evaluation (`model_artifact.py`, `scripts/`) | none at run time | numeric | files |
| Simulator, dashboard | none the pipeline depends on | generate, display | API, PostgreSQL |

What is hard here: a crash between any two of produce, flush, upsert and commit; requests of a dead
producer that still arrive; delivery reports nobody reads; retries that repeat what was already
done, and may decide differently the second time; event times out of order; a message that fails on
every attempt; a full producer queue; offsets that move while their lag is computed.
`PROJECT.json` lists these under "hazards", each at its line and with the properties that watch it.

What makes each part correct:

- *API*: a 503 can be repeated safely; a 202 is lost only in named circumstances; no request waits
  for Kafka.
- *Detector*: nothing is committed before its outputs are in Kafka; decisions of a partition keep
  its order; duplicates come from restarts only; every message is eventually committed.
- *Features*: counts and novelty mean what the documentation says; what a restart forgets costs no
  more than the novelty the customer then seems to have.
- *Store*: rows only move to decisions that are at least as new; each decision arrives.
- *Alerter*: every alert is logged; none is dropped; a bad sink does not block it.
- *Dead-letter replay*: no letter is lost, whatever is interrupted, but by a flush or a refusal the
  script ignores; every run with `--max` ends.
- *Detector and store together*: the table and `fraud.alerts` agree, although a crash can tear the
  two halves of a decision apart and the retry may decide differently.
- *Monitoring*: a published lag is never too small; a group that stays behind is alerted, and the
  alert ends when it has caught up; `DetectorFailures` fires for recent failures only.

## Modules

| Module | Models | Built on |
| --- | --- | --- |
| `FraudScoring` | `observe`, `evaluate`, `decision_for_score`, `score` as operators | |
| `LogisticModel` | `model.py`: load, feature vector, logit, Platt scaling, the rounded percentage | |
| `ShippedModel` | the coefficients of `models/fraud_logreg_v1.json`, for the instances | `LogisticModel` |
| `KafkaWorker` | what the three workers share: consumer group, producer, poll loop, exits, broker | |
| `Detector` | the detection worker | `KafkaWorker`, `FraudScoring` |
| `FeatureWindow` | the feature store against a history of arrivals | `FraudScoring` |
| `LatestDecision` | abstract: what the table promises its readers | |
| `DecisionStore` | the store worker and its upsert; refines `LatestDecision` | `KafkaWorker` |
| `Alerter` | the alert worker with its webhook | `KafkaWorker` |
| `TransactionApi` | the API's request threads and its publisher | |
| `DeadLetterReplay` | the replay script and the worker that may dead-letter a letter again | |
| `FraudPipeline` | detector and decision store on one `transactions.scored` | `Detector` |
| `LagExporter` | the exporter's collect loop against groups at work | |
| `Monitoring` | the exporter, the detector's failure counters, Prometheus and two alert rules | `LagExporter` |
| `MC*` | instances for TLC | |
| `KafkaWorkerProofs`, `FraudScoringProofs` | lemmas on the shared loop, and on what `observe` does to a history | the module of that name |
| `FraudPipelineProofs` | theorems about `Detector` and `FraudPipeline` | both of these |
| `FeatureWindowProofs` | theorems about `FeatureWindow`, for any model and for the shipped one | `FeatureWindow`, `FraudScoringProofs`, `ShippedModel` |
| `OperationsProofs` | theorems about `DeadLetterReplay` and `Monitoring`, the tools beside the pipeline | both of these |
| `DecisionStoreProofs`, `AlerterProofs`, `TransactionApiProofs` | theorems about the module of that name | that module |

### How state and actions correspond to the code

*Kafka* is external. A topic partition is a sequence in `log`; a consumer group is one committed
offset per partition. `outbox` is the set of produce requests without a delivery report. When a
process exits they become `orphans`: each may still be appended at any later time, or be lost.
`Reject` is an error report: the workers give `produce` no callback, so the report vanishes and
`flush` counts the request as done; `rejected` remembers the value so that the properties can name
the exception.

*The poll loop* is the same in `detector.py:51-98`, `decision_store.py:45-95` and
`alerter.py:95-140`. Its program counter moves through polling, processing (the handler up to its
produce or database call), delivering (inside `flush(10)`), committing and, after SIGTERM, closing. `Crash` is a
kill, or any Kafka call that raises: `produce`, `poll` and `commit` may, and none of those is
caught. `FlushTimeout` is the `RuntimeError` after `flush(10)` returns a remainder. Every exit goes
to "down", and `Start` resumes at the committed offsets.

*The detector* observes, decides and enqueues in one action because nothing of it is visible
outside until the broker answers. A transaction whose window starts before `datetime.min` makes
`observe` raise `OverflowError` (`ScoringRaises`). `clock` stands for `datetime.now` in
`processed_at` and only grows.

*The feature store* keeps a bag where the code has a list, since only its members and length matter;
the length is the number of `Copies` in the bag. `History` says in closed form what any sequence of
messages leaves in it: the event times that no later transaction of the customer has expired, and
every device and country. It is no part of the model but what the model is compared with, by
`MemoryIsReplay` for the detector and by `WindowInv` for the store on its own.
`ModelPercent` is `round(100 * predict_probability(f))`. `FraudScoring` keeps the order of
`observe`: prune, compare, add, count.

*The logistic model* is integer arithmetic in units of 1/10000 over the numbers of the shipped
artifact. The logistic function is monotone, so its rounded percentage is the number of cut points
(the logits at which it passes from one percent to the next) below the logit. `Loads` is what
`LogisticModelArtifact.load` demands. For the feature vectors of the instances the percentages
agree with those Python computes from the same file. The logit is the sum of one `Contribution` per
feature, written out, so that the proofs can bound each. Only `ShippedFirstAfterRestartIsSafe`
uses these numbers; every other theorem leaves `ModelPercent` an arbitrary function.

*The store* upserts in a database transaction of its own; the row is the decision it holds, and the
`WHERE` clause of the upsert is the comparison in `Upsert`. `Unstorable` holds decisions a column
refuses (for instance a `detector_version` over 50 characters), for which psycopg raises what the
handler does not catch.

*The alerter* counts attempts in `attempt`. A failed POST may or may not have reached the sink.
`CaptureReturns` is the unchecked `flush(10)` at `alerter.py:171`: it may return with the request
still queued, and the commit follows.

*The pipeline* puts the detector, as it is, beside a store reduced to its upsert and commit; invalid
and unstorable decisions are `DecisionStore`'s matter. An exit of the store between the two is
`ExitStore`, as often as it likes.

*The exporter* reads all committed offsets of a group in one call and then a watermark per
partition, so a collect is `ReadOffsets` followed by one `PublishLag` per partition, with the
workers and producers free to move in between. Either read may fail (`OffsetsFail`,
`WatermarkFails`); the gauge then keeps its value.

*Prometheus* is external. A scrape is a tick at which both rules are evaluated; the five-minute range
is the last `Window` samples and `for: 5m` is `ForTicks` evaluations. `DetectorFailures` is what
`increase` makes of the samples: it needs two different values of one series. The counters live in
the process and start over with it.

*The API* holds a record against the queue limit until a `poll` has served its report, which is how
the client library counts outstanding messages. `publish` is two actions because threads
interleave between `produce` and `poll(0)`. On SIGTERM running requests finish before `close()`.
`exits` bounds the exits; the container has no restart policy, so `Restart` is possible and never
assumed.

*The replay script* reads from the offset of its own group, so the topic is two sets, `queued` and
`taken`, split at the running consumer's position. Each run has a `--max` of its own (`limit`, one of
`Limits`), 0 being the default. An interrupted run and a dry run put `taken` back. A letter that does
not fit its target comes back through `WorkerHandles`. A poll that returns an error (`PollError`)
neither counts nor resets `idle_polls`. The broker may refuse a copy (`Refuse`): there is no delivery
callback, so the flush counts it as done. `dropped` remembers what a run committed although
`flush(10)`, whose result the script ignores, had left its copy unsent, or the broker had refused it.

Definitions commented "Wrong:" are faulty variants of the definition after them. No specification
uses them; each is there to show that some property notices it.

## Runs

| Run | Instance | Shows |
| --- | --- | --- |
| `detector` | 2 partitions with a customer each, 2 records each, 1 exit, refusable records, an event that raises | inductive invariant, nothing committed unhandled, memory is the history of what was polled, offsets advance one by one |
| `pipeline` | 1 partition, 2 transactions, 1 malformed payload, 2 records, 2 detector exits, any number of store exits, fairness | inductive invariant, the table agrees with the alerts, torn publications and duplicates are paid for by exits, order, every transaction gets its row, every record is committed |
| `detector_too_early` | an event too early for its window, no exits | **violation**: the worker restarts on it for ever |
| `features` | 5 arrivals, 9 transactions, 2 customers, window 2, the shipped model | inductive invariant (memory is history), counts, novelty, no harder decision of a customer's first transaction after a restart, what any restart costs the later ones |
| `store` | 2 transactions, 5 decisions and 1 invalid payload, 3 records, 2 exits, fairness | inductive invariant, refinement, committed is stored, newest row wins, delivery of all that stands before a blocking decision |
| `alerter` | 2 alerts, 1 invalid payload, 3 records, 2 attempts, 1 exit, fairness of the worker only | inductive invariant, logged, not dropped before an exit, bounded retries, never blocked |
| `alerter_drop` | same, broker refuses nothing | **violation**: an exit loses a captured alert |
| `api` | 3 transactions, 2 threads, queue of 2, 1 exit | inductive invariant, retries safe, losses accounted for, every request answered |
| `api_full` | no exits, persistent callers, answering broker | **violation**: 503 for ever once the queue is full of unserved reports |
| `replay` | 3 letters, one of them dead-lettered again, `--max` 0 and 2, dry runs, refused copies, 2 interruptions, fairness | nothing lost but by an unfinished flush or a refusal; a run is endless only at `--max 0`, fed by letters dead-lettered again |
| `monitoring` | 2 groups, offsets up to 2, alert at the evaluation of any backlog, validation failures in a range of 2 samples, fairness | inductive invariant, lag never understated, a stuck group is alerted, a group that caught up is not, `DetectorFailures` fires for recent failures only |
| `monitoring_failures` | the detector's group, 3 samples | **violation**: a delivery failure never raises `DetectorFailures` |

### Bounds and why they are enough

`MaxExits`, `MaxRaw`, `MaxScored`, `MaxAlerts` and `MaxArrivals` bound what would grow for ever.

- Two records per partition are the least in which one is retried while another has been committed,
  or waits; two partitions show that the loop handles one message across all of them.
- Two exits of the detector give the orphans of two dead runs and a third run beside them.
- The kinds of decision that matter (approve, one that depends on history, decline) occur in the
  events of `detector` and `pipeline`; in the latter a transaction is reviewed with a warm memory and
  approved with a cold one, so that a retry contradicts the first attempt.
- Five arrivals over five instants with a window of two cover pruning, the boundary, and a late
  arrival after pruning. The amounts include one at which the model outweighs the rules.
- The store's decisions include two of equal `processed_at`, and three records allow older, newer
  and equal in any order.
- A queue of two with three transactions can be filled by either thread, and refuses the third.
- Two webhook attempts stand for the configured three: one that is retried and one that is last.
- `features` takes every point of restart in every sequence of arrivals: five suffice for something
  known to be seen before it, something else after it, and the first again.
- `--max 0` and `--max 2` are the two kinds of run. Three letters with `--max 2` leave one for the next
  run, and two interruptions let a letter be produced by three runs. `--max` counts what a run has
  replayed.
- Offsets up to 2 let a group be behind by two, by one and not at all; two groups let one be read
  while the other fails or moves. Two samples are the fewest an increase can be read off, or misread
  when a process started over between them, and two offsets let one process count two failures. Three
  samples are the fewest in which a series appears, stays and vanishes.
- The alerter's runs have the webhook enabled; without it a handler is the log line alone.

Deadlock is checked for the workers (an idle poll is always possible). The API and the feature store
do come to rest at their bounds, so there it is off.

### Fairness

- *Detector and store*: weak fairness of the worker's own steps, because `docker-compose.yml` sets
  `restart: unless-stopped` and the loops wait for nothing but the broker; and of the broker
  answering live requests. Crashes, orphans and producers get no fairness.
- *Pipeline*: the same for the detector, weak fairness of the store's steps, and strong fairness of
  its commit in each partition: the store does not exit at every single commit.
- *Alerter*: weak fairness of the worker only. `flush(10)` and the HTTP timeout end every wait, so
  progress with valid alerts must not need the broker or the sink, and `NeverBlocked` shows it does not.
- *API*: weak fairness of each thread. `api_full` adds persistent callers (strong fairness of being
  served) and a client library that answers within `delivery.timeout.ms`, so that the violation is
  not the fault of an outage that never ends.
- *Replay*: weak fairness of a started script and of the pipeline it feeds: Kafka does not answer its
  polls with errors for ever. Nobody has to start it.
- *Monitoring*: weak fairness of the scrapes and of the exporter, and strong fairness of each read
  succeeding: Kafka may fail any read but does not fail the same one for ever. Nothing is assumed of
  the workers and producers.

The liveness properties of store, alerter and replay have exceptions: a decision the table refuses
blocks what stands behind it in its partition, an invalid alert needs the broker for its dead letter,
and a replay without `--max` may be fed for ever.

## Proofs

Checked by TLAPS for every value of the constants that meets the named assumptions.

- `KafkaWorkerProofs`: lemmas about the shared loop, for any worker and any types of its topics.
  Each action keeps the types; appending keeps what is in the log; the broker only moves requests
  from `outbox` to `log` or `rejected`, and what has settled stays settled. `OneInHand` (the message
  in hand is the first uncommitted one of its partition) is kept by every action of the loop, and a
  commit adds exactly that message to the committed ones. The three workers cite these lemmas.
- `FraudScoringProofs`: lemmas about the pure operators, for any messages. `HistoryAppended`: observing
  a transaction turns the history of its customer into that of one message more, and a message that is
  no transaction of the customer changes nothing. `CopiesOfHistory`: a history has as many copies of
  event times as transactions that have not expired. The latter would be an induction on the size of a
  bag; it is proved by a minimal counterexample instead (`EveryCopyCounts`): strict inclusion of finite
  sets is well-founded, so a set of transactions whose copies are miscounted would have a smallest one,
  and dropping one transaction from it makes a smaller one.
- `FeatureWindowProofs`: `MemoryIsHistory` (`WindowInv`, inductive as it stands thanks to the closed
  form), and from it `Counts`, `InOrderCounts` and `Novelty`, for every order of arrival. On a
  customer's first transaction after a restart, `FirstAfterRestartIsLenient` is the half of
  `FirstAfterRestartIsNoHarder` that the rules decide: without a history every snapshot counts one and
  calls nothing new, so it fires no rule the other does not. Of the combined score the same is false.
  What saves the decision is that on a first transaction the model alone decides nothing
  (`RulesDecideFirst`): then the cold decision is the cold rules', which is no harder than the warm
  rules', and the model can only raise that (`FirstAfterRestartIsSafe`, for any model).
  `ShippedFirstAfterRestartIsSafe` proves the premise for the artifact, for every amount the schema
  admits. The features a first transaction fixes contribute constants; that of the amount is bounded
  through its logarithm. Two cases remain: at an ordinary merchant, or below 2,500, the calibrated logit
  is under the cut point of 40 % (`FirstIsBelowForty`), no review; 2,500 or more at a risky merchant are
  80 points, a decline already. Of the later transactions nothing of the kind is true (see the
  disagreements below); what is, is `RelearningCosts`, for every point of restart `k`. The arrivals
  since `k` are a sequence of their own, whose unexpired transactions map one to one to unexpired ones
  of the whole (`CountAfterRestart`), so the count does not rise. Novelty is relative to the arrivals
  since `k` alone (`NoveltyAfterRestart`), so it is false exactly where the customer was seen with the
  device or country before `k` only; `NoveltyPoints` turns that into a bound of the rule score.
- `FraudPipelineProofs`, on the detector: `TypeCorrect`, `Invariance`, `NothingCommittedUnhandled`,
  `CommitOrder`, `DecisionsInOrder`, `MemoryIsWhatWasRead`, `OnlyExitsDuplicate`, `OnlyExitsTear`.
  - `CommittedIsHandled` is not inductive: a commit must know that the message in hand has its outputs
    issued, that none of them is still outstanding, and that the offset it commits is the next one.
    `DetectorInv` adds those facts (`OutputsIssued`, `OneInHand`) and the types. Only `Commit` moves
    `committed`, and only growth of `Settled` is used of the broker.
  - `ScoredInOrder` rests on the same commit order: what precedes the message in hand is committed,
    hence decided, when its decision is requested. A request may still arrive after later ones, so
    `OrderInv` states the order for the requests underway, of the live process and of dead ones, besides
    the log (`RequestsInOrder`), and that a decision goes to the partition its transaction came from
    (`KeyedByCustomer`).
  - `MemoryIsReplay` needs that a stopped process has no memory and that a running one began to read at
    or before where it is now (`MemoryInv`), and of `OneInHand` that a step observes the very next
    message. `KeyedByCustomer` makes the other partitions irrelevant to a customer.
  - `DuplicatesOnlyFromExits` is a balance: scorings in the log and decisions underway are paid for by
    committed copies, by the message in delivery, or by exits (`ScoringsInv`). A delivery moves a
    decision from underway to the log, a commit turns the message in delivery into a committed copy,
    and an exit, which leaves its decision underway, pays for it with itself.
  - `TornOnlyByExits` is not inductive, since the halves of a decision that is not torn yet may still be
    lost. `PublicationInv` bounds what is torn or may be (`Exposed`), and says that the process has one
    decision at a time in its queue, with both halves issued: that one is what an exit exposes.
- `FraudPipelineProofs`, on the composition: `StoreOnlyReads` (it implements the detector alone),
  `PipelineInvariance` and `TableAndAlertsAgree`. A crash may leave a decision without its alert.
  What saves the table is that its message is then uncommitted, so that a retry follows, and that the
  retry is newer. `PipelineInv` says so, beside the detector's invariants: no two published decisions
  share a `processed_at` (`TimesAreUnique`); of a transaction with no uncommitted copy the newest
  decision has settled with its alert (`RetriesSupersede`); and the row is at least as new as everything
  upserted (`RowsAreNewest`). The three together make the row of a caught-up transaction that very
  decision.
- `DecisionStoreProofs`: `Refinement` needs no invariant, since only the upsert writes the table.
  `NothingCommittedUnstored` and `CaughtUpIsNewest` follow from `StoreInv`, which adds that rows come
  from the topic and that the message about to be committed is in the table.
- `AlerterProofs`: `EveryCommittedAlertIsLogged`, `BeforeExitsNothingDropped`, `PostsAreBounded`, from
  `AlerterInv`. The bound on the POSTs becomes inductive when the attempts the handler has left are
  counted as if made (`AttemptsCounted`).
- `TransactionApiProofs`: `RefusedIsNotIngested` and `NothingElseLoses`, for any number of threads. A
  transaction between `produce` and its answer is one record ahead of the exits; `ApiInv` says where
  it is (`NotYetAccepted`) and that no other thread serves it (`OneServer`).
- `OperationsProofs`, on the replay: `NothingLost`. `NoLetterLost` needs that what a real run has polled
  it has also produced, even if the copy was refused, and that only a real run gets as far as the
  commit (`PolledIsProduced`).
- `OperationsProofs`, on the monitoring: `MonitoringInvariance`, `NoLagUnderstated`, `NoFalseAlarm` and
  `DeliveryIsNeverAlerted`. A published lag is large enough because the offset in the exporter's hands
  was the group's at an earlier time and offsets only grow (`OffsetsAreOld`), while the watermark is the
  present one. `AlarmsAreRecent` is not inductive: a scrape moves the range. `SeriesFollowFailures` says
  it of every sample: since a scrape with no failure after it, the series stands where it stood or is
  gone, so two different values need a failure between them; and a process that counted one delivery
  failure counts no other, so that series is never anything but 1.
  The two specifications in this module share no variable and no name. `NoDeliveryAlarm`, which
  `DeliveryIsNeverAlerted` states, is no run's property: both stages and two groups are too many states
  for the liveness of the run, and `monitoring_failures` shows the case itself.

Each inductive invariant is also an invariant of a run: the detector's are conjuncts of `DetectorInv`
and `PipelineInv`. (`FirstAfterRestartIsLenient` and `Refinement` need but a lemma of their own.)
Assumptions used: events belong to known customers and happen at integer times, the velocity threshold
is an integer (`config.py:26`), customers have a partition, malformed payloads are not events, the
dead-letter partition exists, the bounds and the values of `--max` are natural numbers, the consumer
groups are a list, and those on the constants of the other modules, each named where the constant is
declared. Nothing is assumed of `ModelPercent` but in two theorems, as hypotheses of theirs.
`FirstAfterRestartIsSafe` takes thresholds that are integers, percentages in 0..100, and
`RulesDecideFirst`, which `ShippedRulesDecideFirst` proves of the shipped model.
`ShippedFirstAfterRestartIsSafe` takes `ModelIsShipped` (the model is `LogisticModel` over
`FraudLogregV1`), `SettingsAreShipped` (2,500, 40 and 70, `config.py:24-28`) and `AmountsAreValid`
(amounts above 0 and up to 1,000,000, `schemas.py:50`, and two values of the logarithm). The instance of
the `features` run is one of those; that these bounds of the logarithm are right (`log1p(1000000) <
13.8156`, `log1p(2500) < 7.8245`) is arithmetic outside of the modules, and so is what rounding to
1/10000 does. The worst case is close: 1,000,000 at an ordinary merchant has the logit -0.42840 in
Python (39.45 %) and -0.4284 or less here, and the cut point is at -0.4263 (39.5 %).

Only model-checked: the liveness properties (TLAPS proves none). Every safety invariant and action
property of a passing run is a theorem.

## Disagreements between code and documentation

Four runs expect a violation; `PROJECT.json` quotes the sentence each contradicts.

1. `detector.py:84` does not catch the `OverflowError` of `features.py:26`: one such event stops the
   detector's partition (`detector_too_early`).
2. An alert can be dropped despite the dead-letter capture at `alerter.py:171` (`alerter_drop`).
3. A 503 for a full queue is not temporary (`api_full`). With the default queue of 100,000 records
   this takes a burst far above the measured rates, within one delivery timeout of an outage.
4. A delivery failure of the detector never raises `DetectorFailures` (`monitoring_failures`): the
   counter is created with the value 1 by a process that ends at once, and `increase` needs two
   different values. That is so for any range, any number of failures within it and any timing of the
   scrapes (`DeliveryIsNeverAlerted`).

More became visible without a run of their own.

- The velocity count of a late arrival is not the "Transaction count in the prior five-minute
  event-time window" of `docs/MODEL_CARD.md:24`: later times are never excluded and earlier ones
  may be pruned. `InOrderCountIsWindowCount` says when it is, `CountIsUnexpired` what it is otherwise.
- The API answers 202 when the record is in its producer's queue, although `docs/RUNBOOK.md:106`
  calls that synchronous; `AcceptedIsAccountedFor` names what a 202 can still lose.
- "captured events are reprocessed instead of lost" (`scripts/replay_dead_letter.py:5-6`): the replay
  commits letters whose copies its flush left unsent or the broker refused. `NoLetterLost` names them
  in `dropped`.
- The replay "stops once the queue is drained (or after --max)" (lines 3-4), and `--max 0`, the default,
  "replays everything currently queued" (line 20). With the default a letter that its worker
  dead-letters again lands behind the others in the queue being read, and resets `idle_polls` when it
  is polled: the run goes on as long as such letters come back within three polls, replays what was
  not queued when it began, and has no end of its own. TLC finds that run when `EveryRunEnds` is
  reduced to its first disjunct; the second names it exactly.
- A group that has never committed reports lag 0, so `StuckIsAlerted` counts only the partitions with
  a committed offset.
- The model's probability falls with the velocity count and with a new country, so that history can
  soften a score: 1,000,000 at a risky merchant is 89 % as the first transaction of its window and
  86 % as the second; 2,499 on a new device is 80 %, a decline, and 65 %, a review, if the country is
  new as well. For a customer's first transaction after a restart the direction is the safe one, for
  all amounts and histories (`ShippedFirstAfterRestartIsSafe`).
- A later transaction can be decided harder than without the restart. Seen with d1 in the US, then, after
  a restart, with d2 in GB, the customer's next transaction with d1 in the US is 45 points, a review;
  without the restart nothing about it is new. The model can do so with no false novelty at all, since
  a restart lowers the count: 2,499 on a device that is new in truth is 58 % as the fifth
  transaction of its window, a review, and 75 % as the second, a decline.
  `RelearningCostsOnlyNovelty` bounds the rule score; of the decision nothing better holds.

## Not modelled

- The other alert rules (`PipelineStalled`, `ServiceDown` and those on the remaining workers), log
  formats, health endpoints, the dashboard: no handler depends on them.
- Training, evaluation, benchmark and artifact verification scripts: floating-point computations over
  files without interacting state. The simulator: the models take every input of a small set instead.
- The field constraints of `schemas.py`: a payload is valid or not.
- Consumer-group rebalancing between several workers of a kind: compose starts one of each.
- Wall clocks that go backwards: `processed_at` grows with each decision. `TimesAreUnique` is what
  the agreement of table and alerts rests on.
- The order and the copies of dead letters.
- The alerter in the composition: it only reads `fraud.alerts`, whose contents `FraudPipeline` has.

## What could follow

- The same bounds for a retrained model: `RulesDecideFirst` is the check it has to pass, and the shipped
  model passes it by 0.05 percentage points.
- Several detectors and a rebalance, if the deployment ever runs them.

Runs stay small by merging questions about one instance; a theorem first runs as an invariant.
