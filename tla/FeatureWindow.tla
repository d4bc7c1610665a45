---------------------------- MODULE FeatureWindow ----------------------------
(***************************************************************************)
(* StreamingFeatureStore (features.py) on its own: transactions arrive in  *)
(* any order of their event times, and each snapshot is compared with the  *)
(* history of arrivals since the process started.                          *)
(***************************************************************************)
EXTENDS FraudScoring

CONSTANT MaxArrivals   \* bound: transactions observed

ASSUME MaxArrivalsAssumption == MaxArrivals \in Nat
ASSUME WindowedAssumption == \A e \in Events : CanWindow(e)

VARIABLES
    memory,    \* the StreamingFeatureStore: CustomerState by customer_id
    arrivals,  \* the transactions observed, in order of arrival (history)
    last       \* the FeatureSnapshot of the last observe

vars == <<memory, arrivals, last>>

NoSnapshot == [transaction_count_5m |-> 0]

Init ==
    /\ memory = [c \in Customers |-> NoHistory]
    /\ arrivals = <<>>
    /\ last = NoSnapshot

ObserveTransaction(e) ==
    LET c == e.customer_id
    IN  /\ Len(arrivals) < MaxArrivals
        /\ last' = Snapshot(memory[c], e)
        /\ memory' = [memory EXCEPT ![c] = Observe(@, e)]
        /\ arrivals' = Append(arrivals, e)

Next == \E e \in Events : ObserveTransaction(e)

Spec == Init /\ [][Next]_vars

-----------------------------------------------------------------------------
Arrived == arrivals # <<>>

Newest == arrivals[Len(arrivals)]

\* The arrivals of the newest transaction's customer, as indices.
SameCustomer == Own(Newest.customer_id, arrivals)

InWindow(i) ==
    /\ Newest.event_time - VelocityWindow <= arrivals[i].event_time
    /\ arrivals[i].event_time <= Newest.event_time

InOrder ==
    \A i, j \in SameCustomer : i < j => arrivals[i].event_time <= arrivals[j].event_time

\* Types: the memory holds bags of times and sets of what was seen.
TypeOK ==
    /\ DOMAIN memory = Customers
    /\ \A c \in Customers :
          /\ IsABag(memory[c].event_times)
          /\ DOMAIN memory[c].event_times \subseteq {e.event_time : e \in Events}
          /\ memory[c].device_ids \subseteq {e.device_id : e \in Events}
          /\ memory[c].country_codes \subseteq {e.country_code : e \in Events}
    /\ arrivals \in Seq(Events)
    /\ last.transaction_count_5m \in Nat

\* What observe counts, for any order of arrival: the transactions of the
\* customer that no later arrival has pushed out of its window.
CountIsUnexpired ==
    Arrived =>
       last.transaction_count_5m = Cardinality(Unexpired(Newest.customer_id, arrivals))

\* When a customer's transactions arrive in the order of their event times, the
\* count is the number of transactions in the window that ends at the newest.
InOrderCountIsWindowCount ==
    Arrived /\ InOrder =>
       last.transaction_count_5m = Cardinality({i \in SameCustomer : InWindow(i)})

\* A device or country is new exactly when the customer was seen before, but
\* never with it: neither is ever forgotten, however old.
NoveltyMatchesHistory ==
    Arrived =>
       LET earlier == SameCustomer \ {Len(arrivals)}
       IN  /\ last.is_new_device <=>
                 earlier # {} /\ \A i \in earlier : arrivals[i].device_id # Newest.device_id
           /\ last.is_new_country <=>
                 earlier # {} /\ \A i \in earlier :
                                    arrivals[i].country_code # Newest.country_code

\* The inductive invariant behind the counts and NoveltyMatchesHistory: after
\* any arrivals the memory of a customer is its history.
WindowInv == TypeOK /\ \A c \in Customers : memory[c] = History(c, arrivals)

Severity == [approve |-> 0, review |-> 1, decline |-> 2]

\* scoring.py:18, the first transaction of a customer after a restart: compared
\* with nothing, it never gets a higher rule score than with its history ...
FirstAfterRestartIsNoRiskier ==
    Arrived => RuleScore(Snapshot(NoHistory, Newest)) <= RuleScore(last)

\* ... nor a harder decision.  Of the combined score that is not true: the
\* model's probability falls with the count.
FirstAfterRestartIsNoHarder ==
    /\ FirstAfterRestartIsNoRiskier
    /\ Arrived =>
          Severity[DecisionForScore(CombinedScore(Snapshot(NoHistory, Newest)))]
             <= Severity[DecisionForScore(CombinedScore(last))]

\* What a process observes of the newest transaction that started after the
\* first k arrivals: it compares with those since, of any customer.
AfterRestart(k) ==
    Snapshot(History(Newest.customer_id, SubSeq(arrivals, k + 1, Len(arrivals) - 1)), Newest)

\* The customer's transactions before that start, and between it and the newest.
Before(k) == {i \in SameCustomer : i <= k}
Since(k) == {i \in SameCustomer : k < i /\ i < Len(arrivals)}

Devices(S) == {arrivals[i].device_id : i \in S}
Countries(S) == {arrivals[i].country_code : i \in S}

\* features.py:22, what a restart costs any transaction after it.  The velocity
\* count does not rise.  Something known is new again only where the customer
\* was seen with it before the restart alone, and since then with something
\* else; only the first transaction after the restart misses something new.
\* The rule score rises by the points of such a false novelty and by no others
\* (which are enough for a harder decision).
RelearningCostsOnlyNovelty ==
    \A k \in 0 .. Len(arrivals) - 1 :
       LET cold == AfterRestart(k)
       IN  /\ cold.transaction_count_5m <= last.transaction_count_5m
           /\ cold.is_new_device /\ ~ last.is_new_device =>
                 /\ Since(k) # {}
                 /\ Newest.device_id \in Devices(Before(k)) \ Devices(Since(k))
           /\ cold.is_new_country /\ ~ last.is_new_country =>
                 /\ Since(k) # {}
                 /\ Newest.country_code \in Countries(Before(k)) \ Countries(Since(k))
           /\ last.is_new_device /\ ~ cold.is_new_device => Since(k) = {}
           /\ last.is_new_country /\ ~ cold.is_new_country => Since(k) = {}
           /\ RuleScore(cold) <= RuleScore(last)
                + Points(cold.is_new_device /\ ~ last.is_new_device, 20)
                + Points(cold.is_new_country /\ ~ last.is_new_country, 25)

\* What it rests on: of a first transaction the model's percentage alone makes
\* no harder decision than the rules do.
RulesDecideFirst ==
    \A e \in Events :
       LET f == Snapshot(NoHistory, e)
       IN  Severity[DecisionForScore(ModelPercent(f))] <= Severity[DecisionForScore(RuleScore(f))]
=============================================================================
