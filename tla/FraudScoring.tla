---------------------------- MODULE FraudScoring ----------------------------
(***************************************************************************)
(* The pure scoring path of the detector: the per-customer feature memory  *)
(* (features.py), the rules (rules.py) and the combination of the rule     *)
(* score with the model probability (scoring.py).                          *)
(*                                                                         *)
(* Amounts and times are integers.  The logistic model is the constant     *)
(* operator ModelPercent: what round(100 * predict_probability(features))  *)
(* returns for a feature snapshot.                                         *)
(***************************************************************************)
EXTENDS Integers, Sequences, FiniteSets, Bags

CONSTANTS
    Customers,                \* customer_id values
    Events,                   \* the well-formed transactions of an instance
    EarliestTime,             \* datetime.min: subtracting below it raises
    VelocityWindow,           \* velocity_window_seconds
    HighAmountThreshold,      \* high_amount_threshold
    VelocityCountThreshold,   \* velocity_count_threshold
    ReviewScoreThreshold,     \* review_score_threshold
    DeclineScoreThreshold,    \* decline_score_threshold
    ModelPercent(_)           \* round(100 * model probability) of a snapshot

ASSUME EventsAssumption == \A e \in Events : e.customer_id \in Customers
ASSUME EventTimesAssumption == \A e \in Events : e.event_time \in Int
ASSUME VelocityCountAssumption == VelocityCountThreshold \in Int
ASSUME WindowAssumption == VelocityWindow \in Nat \ {0}

Outcomes == {"approve", "review", "decline"}

(***************************************************************************)
(* The memory of one customer.  event_times is a list in the code; only    *)
(* its members and its length are ever used, so it is a bag here.          *)
(***************************************************************************)
NoHistory ==
    [event_times |-> EmptyBag, device_ids |-> {}, country_codes |-> {}]

\* event_time - window is a datetime: below datetime.min Python raises
\* OverflowError instead of returning a value.
CanWindow(e) == e.event_time - VelocityWindow >= EarliestTime

\* Wrong: nothing is pruned; or the oldest instant of the window is, too.
RememberAll(state, e) == state.event_times

RememberStrictlyAfter(state, e) ==
    [t \in {u \in DOMAIN state.event_times : e.event_time - VelocityWindow < u}
        |-> state.event_times[t]]

\* The times that survive the pruning; a remembered time has no upper bound.
Remembered(state, e) ==
    [t \in {u \in DOMAIN state.event_times : e.event_time - VelocityWindow <= u}
        |-> state.event_times[t]]

\* Wrong: the country goes to the devices; or only the latest device is kept.
ObserveCountryAsDevice(state, e) ==
    [event_times   |-> Remembered(state, e) (+) SetToBag({e.event_time}),
     device_ids    |-> state.device_ids \cup {e.device_id, e.country_code},
     country_codes |-> state.country_codes]

ObserveLatestDevice(state, e) ==
    [event_times   |-> Remembered(state, e) (+) SetToBag({e.event_time}),
     device_ids    |-> {e.device_id},
     country_codes |-> state.country_codes \cup {e.country_code}]

\* CustomerState after observing e.
Observe(state, e) ==
    [event_times   |-> Remembered(state, e) (+) SetToBag({e.event_time}),
     device_ids    |-> state.device_ids \cup {e.device_id},
     country_codes |-> state.country_codes \cup {e.country_code}]

\* The elements of a bag, its copies told apart; as many as the list has.
Copies(bag) == UNION {{t} \X (1 .. bag[t]) : t \in DOMAIN bag}

\* Wrong: the first device of a customer counts as new.
SnapshotFirstIsNew(state, e) ==
    [amount               |-> e.amount,
     transaction_count_5m |-> Cardinality(Copies(Observe(state, e).event_times)),
     is_new_device        |-> e.device_id \notin state.device_ids,
     is_new_country       |-> state.country_codes # {}
                                /\ e.country_code \notin state.country_codes,
     is_risky_merchant    |-> e.risky]

\* The FeatureSnapshot observe returns; the first event of a customer is
\* never "new", since there is nothing to compare it with.
Snapshot(state, e) ==
    [amount               |-> e.amount,
     transaction_count_5m |-> Cardinality(Copies(Observe(state, e).event_times)),
     is_new_device        |-> state.device_ids # {} /\ e.device_id \notin state.device_ids,
     is_new_country       |-> state.country_codes # {}
                                /\ e.country_code \notin state.country_codes,
     is_risky_merchant    |-> e.risky]

Points(condition, n) == IF condition THEN n ELSE 0

\* FraudRuleEngine.evaluate: the capped sum of the points of the rules that fire.
RuleScore(f) ==
    LET total == Points(f.amount >= HighAmountThreshold, 60)
               + Points(f.transaction_count_5m >= VelocityCountThreshold, 35)
               + Points(f.is_new_device, 20)
               + Points(f.is_new_country, 25)
               + Points(f.is_risky_merchant /\ f.amount >= 500, 20)
    IN  IF total > 100 THEN 100 ELSE total

DecisionForScore(score) ==
    IF score >= DeclineScoreThreshold THEN "decline"
    ELSE IF score >= ReviewScoreThreshold THEN "review" ELSE "approve"

\* FraudScorer.score: the model can only raise the rule score.
CombinedScore(f) ==
    IF ModelPercent(f) > RuleScore(f) THEN ModelPercent(f) ELSE RuleScore(f)

Score(state, e) == DecisionForScore(CombinedScore(Snapshot(state, e)))

-----------------------------------------------------------------------------
(* What the memory stands for: the messages a process has observed, of which *)
(* those that are no transactions leave no trace.                            *)

\* The transactions of customer c among the messages, as indices.
Own(c, messages) ==
    {i \in 1 .. Len(messages) : messages[i] \in Events /\ messages[i].customer_id = c}

\* ... that no later one has pushed out of its window.
Unexpired(c, messages) ==
    {i \in Own(c, messages) :
        \A j \in Own(c, messages) :
           i < j => messages[j].event_time - VelocityWindow <= messages[i].event_time}

\* The CustomerState of customer c after the messages: the times that have not
\* expired, and every device and country there ever was.
History(c, messages) ==
    LET kept == Unexpired(c, messages)
        own  == Own(c, messages)
    IN  [event_times   |-> [t \in {messages[i].event_time : i \in kept} |->
                              Cardinality({i \in kept : messages[i].event_time = t})],
         device_ids    |-> {messages[i].device_id : i \in own},
         country_codes |-> {messages[i].country_code : i \in own}]
=============================================================================
