------------------------- MODULE FeatureWindowProofs -------------------------
(***************************************************************************)
(* The snapshots of the feature store, for any customers, transactions and *)
(* order of arrival: what it counts, what it calls new, and what a restart *)
(* changes of it, for a customer's first transaction after it and for the  *)
(* later ones.                                                             *)
(***************************************************************************)
EXTENDS FeatureWindow, FraudScoringProofs, ShippedModel

\* The first arrival finds every history empty.
LEMMA InitWindow == Init => WindowInv
<1> SUFFICES ASSUME Init
             PROVE  WindowInv
  OBVIOUS
<1>1. \A c \in Customers : memory[c] = History(c, arrivals)
  BY HistoryOfNothing DEF Init
<1>2. /\ IsABag(EmptyBag) /\ DOMAIN EmptyBag = {}
  BY DEF IsABag, EmptyBag, SetToBag
<1>3. TypeOK
  BY <1>2 DEF Init, TypeOK, NoSnapshot, NoHistory
<1> QED
  BY <1>1, <1>3 DEF WindowInv

\* observe counts the times it has just kept, its own included.
LEMMA CountOfObserve ==
    ASSUME WindowInv, NEW e \in Events, ObserveTransaction(e)
    PROVE  last'.transaction_count_5m = Cardinality(Unexpired(e.customer_id, arrivals'))
<1> DEFINE c == e.customer_id
<1>1. c \in Customers /\ Of(c, e)
  BY EventsAssumption DEF Of
<1>2. arrivals \in Seq(Events) /\ arrivals' = Append(arrivals, e) /\ arrivals' \in Seq(Events)
  BY AppendProperties DEF WindowInv, TypeOK, ObserveTransaction
<1>3. memory[c] = History(c, arrivals)
  BY <1>1 DEF WindowInv
<1>4. last' = Snapshot(memory[c], e)
  BY DEF ObserveTransaction
<1>5. Observe(memory[c], e) = History(c, arrivals')
  BY <1>1, <1>2, <1>3, HistoryAppended
<1>6. last'.transaction_count_5m = Cardinality(Copies(History(c, arrivals').event_times))
  BY <1>4, <1>5 DEF Snapshot
<1> QED
  BY <1>2, <1>6, CopiesOfHistory

\* observe turns the history of its customer, and of no other, into the
\* history of one transaction more.
LEMMA ObserveKeepsWindow ==
    ASSUME WindowInv, NEW e \in Events, ObserveTransaction(e)
    PROVE  WindowInv'
<1> DEFINE d == e.customer_id
<1>1. d \in Customers
  BY EventsAssumption
<1>2. /\ arrivals \in Seq(Events) /\ arrivals' = Append(arrivals, e)
      /\ arrivals' \in Seq(Events)
  BY AppendProperties DEF WindowInv, TypeOK, ObserveTransaction
<1>3. DOMAIN memory = Customers /\ memory' = [memory EXCEPT ![d] = Observe(memory[d], e)]
  BY DEF WindowInv, TypeOK, ObserveTransaction
<1>4. DOMAIN memory' = Customers
  BY <1>3
<1>5. ASSUME NEW c \in Customers
      PROVE  memory'[c] = History(c, arrivals')
  <2>1. memory[c] = History(c, arrivals)
    BY DEF WindowInv
  <2>2. CASE c = d
    <3>1. memory'[c] = Observe(History(c, arrivals), e)
      BY <1>1, <1>3, <2>1, <2>2
    <3>2. Of(c, e)
      BY <2>2 DEF Of
    <3> QED
      BY <1>2, <3>1, <3>2, HistoryAppended
  <2>3. CASE c # d
    <3>1. memory'[c] = History(c, arrivals)
      BY <1>3, <2>1, <2>3
    <3>2. ~ Of(c, e)
      BY <2>3 DEF Of
    <3> QED
      BY <1>2, <3>1, <3>2, HistoryAppended
  <2> QED
    BY <2>2, <2>3
<1>6. last'.transaction_count_5m \in Nat
  <2>1. IsFiniteSet(Unexpired(d, arrivals'))
    BY <1>2, OwnType
  <2> QED
    BY <2>1, CountOfObserve, FS_CardinalityType
<1>7. TypeOK'
  BY <1>2, <1>4, <1>5, <1>6, HistoryType DEF TypeOK
<1> QED
  BY <1>5, <1>7 DEF WindowInv

LEMMA NextKeepsWindow == WindowInv /\ [Next]_vars => WindowInv'
<1> SUFFICES ASSUME WindowInv, [Next]_vars
             PROVE  WindowInv'
  OBVIOUS
<1>1. CASE Next
  BY <1>1, ObserveKeepsWindow DEF Next
<1>2. CASE UNCHANGED vars
  BY <1>2 DEF vars, WindowInv, TypeOK
<1> QED
  BY <1>1, <1>2

\* features.py:14-35: after any arrivals, the CustomerState of a customer is
\* the history of its transactions.
THEOREM MemoryIsHistory == Spec => []WindowInv
BY InitWindow, NextKeepsWindow, PTL DEF Spec

\* features.py:14-35: types.
THEOREM WindowTypes == Spec => []TypeOK
BY MemoryIsHistory, PTL DEF WindowInv

-----------------------------------------------------------------------------
(* The newest arrival. *)

LEMMA NewestArrival ==
    ASSUME WindowInv, NEW e \in Events, ObserveTransaction(e)
    PROVE  /\ Len(arrivals) \in Nat /\ Len(arrivals') = Len(arrivals) + 1
           /\ arrivals \in Seq(Events) /\ arrivals' = Append(arrivals, e)
           /\ arrivals'[Len(arrivals')] = e /\ Newest' = e
           /\ SameCustomer' = Own(e.customer_id, arrivals) \cup {Len(arrivals')}
<1>1. arrivals \in Seq(Events) /\ arrivals' = Append(arrivals, e)
  BY DEF WindowInv, TypeOK, ObserveTransaction
<1>2. /\ Len(arrivals) \in Nat /\ Len(arrivals') = Len(arrivals) + 1
      /\ arrivals'[Len(arrivals')] = e
  BY <1>1, OneMoreMessage
<1>3. Newest' = e
  BY <1>2 DEF Newest
<1>4. Own(e.customer_id, arrivals') = Own(e.customer_id, arrivals) \cup {Len(arrivals')}
  <2>1. Of(e.customer_id, e)
    BY DEF Of
  <2> QED
    BY <1>1, <1>2, <2>1, OwnAppended
<1> QED
  BY <1>1, <1>2, <1>3, <1>4 DEF SameCustomer

\* A step that observes nothing changes none of it.
LEMMA SameArrivals ==
    ASSUME UNCHANGED vars
    PROVE  /\ CountIsUnexpired' <=> CountIsUnexpired
           /\ NoveltyMatchesHistory' <=> NoveltyMatchesHistory
BY DEF vars, CountIsUnexpired, NoveltyMatchesHistory, Arrived, SameCustomer, Newest

\* features.py:25-29: whatever the order of arrival, transaction_count_5m
\* counts the customer's transactions that no later one has expired.
THEOREM Counts == Spec => []CountIsUnexpired
<1>1. Init => CountIsUnexpired
  BY DEF Init, CountIsUnexpired, Arrived
<1>2. WindowInv /\ CountIsUnexpired /\ [Next]_vars => CountIsUnexpired'
  <2> SUFFICES ASSUME WindowInv, CountIsUnexpired, [Next]_vars
               PROVE  CountIsUnexpired'
    OBVIOUS
  <2>1. ASSUME NEW e \in Events, ObserveTransaction(e)
        PROVE  CountIsUnexpired'
    <3>1. last'.transaction_count_5m = Cardinality(Unexpired(e.customer_id, arrivals'))
      BY <2>1, CountOfObserve
    <3>2. Newest' = e
      BY <2>1, NewestArrival
    <3> QED
      BY <3>1, <3>2 DEF CountIsUnexpired
  <2>2. CASE Next
    BY <2>1, <2>2 DEF Next
  <2>3. CASE UNCHANGED vars
    BY <2>3, SameArrivals
  <2> QED
    BY <2>2, <2>3
<1> QED
  BY <1>1, <1>2, MemoryIsHistory, PTL DEF Spec

-----------------------------------------------------------------------------
(* Arrivals in the order of their event times. *)

\* In order, what no later transaction has expired is what lies in the window
\* of the last one.
LEMMA InOrderUnexpired ==
    ASSUME WindowInv, Arrived, InOrder, Newest \in Events, Len(arrivals) \in SameCustomer
    PROVE  Unexpired(Newest.customer_id, arrivals) = {i \in SameCustomer : InWindow(i)}
<1> DEFINE n == Len(arrivals)
           time(i) == arrivals[i].event_time
<1>1. /\ arrivals \in Seq(Events)
      /\ n \in Nat
  BY DEF WindowInv, TypeOK
<1>2. /\ SameCustomer \subseteq 1 .. n
      /\ \A i \in SameCustomer : time(i) \in Int
  BY <1>1, OwnType DEF SameCustomer
<1>3. /\ n \in SameCustomer /\ Newest.event_time = time(n)
      /\ VelocityWindow \in Nat
  BY WindowAssumption DEF Newest
<1>4. \A i, j \in SameCustomer : i < j => time(i) <= time(j)
  BY DEF InOrder
<1>5. Unexpired(Newest.customer_id, arrivals) =
         {i \in SameCustomer : \A j \in SameCustomer : i < j => time(j) - VelocityWindow <= time(i)}
  BY DEF Unexpired, SameCustomer
<1>6. \A i \in SameCustomer :
         InWindow(i) <=> time(n) - VelocityWindow <= time(i) /\ time(i) <= time(n)
  BY <1>3 DEF InWindow
<1> HIDE DEF time, n
<1>7. ASSUME NEW i \in SameCustomer
      PROVE  (\A j \in SameCustomer : i < j => time(j) - VelocityWindow <= time(i))
                <=> time(n) - VelocityWindow <= time(i) /\ time(i) <= time(n)
  <2>1. \A j \in SameCustomer : j \in 1 .. n /\ time(j) \in Int /\ (j < n \/ j = n)
    BY <1>1, <1>2
  <2>2. \A j \in SameCustomer : time(j) <= time(n)
    BY <1>3, <1>4, <2>1
  <2>3. time(n) - VelocityWindow <= time(i) =>
           \A j \in SameCustomer : time(j) - VelocityWindow <= time(i)
    BY <1>2, <1>3, <2>2
  <2>4. (\A j \in SameCustomer : i < j => time(j) - VelocityWindow <= time(i))
           => time(n) - VelocityWindow <= time(i)
    BY <1>2, <1>3, <2>1
  <2> QED
    BY <2>2, <2>3, <2>4
<1> QED
  BY <1>5, <1>6, <1>7

\* features.py:25-29: when a customer's transactions arrive in the order of
\* their event times, transaction_count_5m is the number of them in the window
\* that ends at the newest.
THEOREM InOrderCounts == Spec => []InOrderCountIsWindowCount
<1>1. WindowInv => (Arrived => Newest \in Events /\ Len(arrivals) \in SameCustomer)
  <2> SUFFICES ASSUME WindowInv, Arrived
               PROVE  Newest \in Events /\ Len(arrivals) \in SameCustomer
    OBVIOUS
  <2>1. arrivals \in Seq(Events) /\ arrivals # <<>>
    BY DEF WindowInv, TypeOK, Arrived
  <2>2. Len(arrivals) \in 1 .. Len(arrivals) /\ arrivals[Len(arrivals)] \in Events
    BY <2>1
  <2> QED
    BY <2>2 DEF Newest, SameCustomer, Own
<1>2. WindowInv /\ CountIsUnexpired => InOrderCountIsWindowCount
  BY <1>1, InOrderUnexpired DEF CountIsUnexpired, InOrderCountIsWindowCount
<1> QED
  BY <1>2, MemoryIsHistory, Counts, PTL

-----------------------------------------------------------------------------
(* Novelty. *)

\* A snapshot taken from a history compares with the history.
LEMMA SnapshotIsRight ==
    ASSUME WindowInv, NEW e \in Events, ObserveTransaction(e)
    PROVE  NoveltyMatchesHistory'
<1> DEFINE c == e.customer_id
           own == Own(c, arrivals)
           earlier == SameCustomer' \ {Len(arrivals')}
<1>1. /\ Len(arrivals) \in Nat /\ Len(arrivals') = Len(arrivals) + 1
      /\ arrivals \in Seq(Events) /\ arrivals' = Append(arrivals, e)
      /\ Newest' = e
      /\ SameCustomer' = own \cup {Len(arrivals')}
  BY NewestArrival
<1>2. own \subseteq 1 .. Len(arrivals)
  BY <1>1, OwnType
<1>3. earlier = own
  <2>1. Len(arrivals') \notin 1 .. Len(arrivals)
    BY <1>1
  <2> QED
    BY <1>1, <1>2, <2>1
<1>4. \A i \in own : arrivals'[i] = arrivals[i]
  BY <1>1, <1>2, OneMoreMessage
<1>5. last' = Snapshot(History(c, arrivals), e)
  BY EventsAssumption DEF ObserveTransaction, WindowInv
<1>6. /\ History(c, arrivals).device_ids = {arrivals[i].device_id : i \in own}
      /\ History(c, arrivals).country_codes = {arrivals[i].country_code : i \in own}
  BY DEF History
<1> HIDE DEF earlier, own
<1>7. /\ last'.is_new_device <=>
            own # {} /\ \A i \in own : arrivals'[i].device_id # e.device_id
      /\ last'.is_new_country <=>
            own # {} /\ \A i \in own : arrivals'[i].country_code # e.country_code
  <2> DEFINE before == History(c, arrivals)
  <2>1. /\ before.device_ids = {arrivals'[i].device_id : i \in own}
        /\ before.country_codes = {arrivals'[i].country_code : i \in own}
    BY <1>4, <1>6
  <2> HIDE DEF before
  <2>2. /\ last'.is_new_device = (before.device_ids # {} /\ e.device_id \notin before.device_ids)
        /\ last'.is_new_country =
              (before.country_codes # {} /\ e.country_code \notin before.country_codes)
    BY <1>5 DEF Snapshot, before
  <2>3. last'.is_new_device <=> own # {} /\ \A i \in own : arrivals'[i].device_id # e.device_id
    <3>1. before.device_ids # {} <=> own # {}
      BY <2>1
    <3>2. e.device_id \in before.device_ids <=> \E i \in own : e.device_id = arrivals'[i].device_id
      BY <2>1
    <3> QED
      BY <2>2, <3>1, <3>2
  <2>4. last'.is_new_country <=>
           own # {} /\ \A i \in own : arrivals'[i].country_code # e.country_code
    <3>1. before.country_codes # {} <=> own # {}
      BY <2>1
    <3>2. e.country_code \in before.country_codes <=> \E i \in own : e.country_code = arrivals'[i].country_code
      BY <2>1
    <3> QED
      BY <2>2, <3>1, <3>2
  <2> QED
    BY <2>3, <2>4
<1> QED
  BY <1>1, <1>3, <1>7 DEF NoveltyMatchesHistory, earlier

\* features.py:31-34: is_new_device and is_new_country mean what their names
\* say, for every history of arrivals: nothing seen is ever forgotten, and the
\* first transaction of a customer is never new.
THEOREM Novelty == Spec => []NoveltyMatchesHistory
<1>1. Init => NoveltyMatchesHistory
  BY DEF Init, NoveltyMatchesHistory, Arrived
<1>2. WindowInv /\ NoveltyMatchesHistory /\ [Next]_vars => NoveltyMatchesHistory'
  BY SnapshotIsRight, SameArrivals DEF Next
<1> QED
  BY <1>1, <1>2, MemoryIsHistory, PTL DEF Spec

-----------------------------------------------------------------------------
(* The first transaction after a restart. *)

\* Of two snapshots of one transaction, the one with nothing new and no more
\* of a count fires no rule that the other does not.
LEMMA FewerRules ==
    ASSUME NEW f, NEW g, f.amount = g.amount, f.is_risky_merchant = g.is_risky_merchant,
           ~ f.is_new_device, ~ f.is_new_country,
           f.transaction_count_5m >= VelocityCountThreshold =>
              g.transaction_count_5m >= VelocityCountThreshold
    PROVE  RuleScore(f) <= RuleScore(g)
<1> DEFINE high(h)    == Points(h.amount >= HighAmountThreshold, 60)
           many(h)    == Points(h.transaction_count_5m >= VelocityCountThreshold, 35)
           device(h)  == Points(h.is_new_device, 20)
           country(h) == Points(h.is_new_country, 25)
           risky(h)   == Points(h.is_risky_merchant /\ h.amount >= 500, 20)
<1>1. \A h \in {f, g} : /\ high(h) \in Nat /\ many(h) \in Nat /\ risky(h) \in Nat
                        /\ device(h) \in Nat /\ country(h) \in Nat
  BY DEF Points
<1>2. /\ high(f) = high(g) /\ risky(f) = risky(g) /\ many(f) <= many(g)
      /\ device(f) = 0 /\ country(f) = 0
  BY DEF Points
<1>3. \A h \in {f, g} : RuleScore(h) =
         LET total == high(h) + many(h) + device(h) + country(h) + risky(h)
         IN  IF total > 100 THEN 100 ELSE total
  BY DEF RuleScore
<1> HIDE DEF high, many, device, country, risky
<1> QED
  BY <1>1, <1>2, <1>3

\* Without a history every transaction is the first one.
LEMMA ColdSnapshot ==
    ASSUME NEW e \in Events
    PROVE  /\ Snapshot(NoHistory, e).amount = e.amount
           /\ Snapshot(NoHistory, e).is_risky_merchant = e.risky
           /\ Snapshot(NoHistory, e).transaction_count_5m = 1
           /\ ~ Snapshot(NoHistory, e).is_new_device
           /\ ~ Snapshot(NoHistory, e).is_new_country
<1> DEFINE c == e.customer_id
           one == Append(<<>>, e)
<1>1. Of(c, e) /\ <<>> \in Seq(Events) /\ one \in Seq(Events)
  BY DEF Of
<1>2. Observe(NoHistory, e) = History(c, one)
  <2>1. Append(<<>>, e) \in Seq(Events)
    BY <1>1
  <2> HIDE DEF c, one
  <2>2. History(c, Append(<<>>, e)) = Observe(History(c, <<>>), e)
    BY <1>1, HistoryAppended
  <2> QED
    BY <2>2, HistoryOfNothing DEF one
<1>3. Unexpired(c, one) = {1}
  <2>1. Len(one) = 1 /\ one[1] = e
    OBVIOUS
  <2>2. Own(c, one) = {1}
    BY <2>1 DEF Own
  <2> QED
    BY <2>2 DEF Unexpired
<1>4. Cardinality(Copies(Observe(NoHistory, e).event_times)) = 1
  <2> HIDE DEF c, one
  <2>1. Cardinality(Copies(History(c, one).event_times)) = Cardinality(Unexpired(c, one))
    BY <1>1, CopiesOfHistory
  <2> QED
    BY <1>2, <1>3, <2>1, FS_Singleton
<1> QED
  BY <1>4 DEF Snapshot, NoHistory

\* The last snapshot is that of the newest arrival, and counts it.
LastIsOfNewest ==
    Arrived => /\ last.amount = Newest.amount /\ last.is_risky_merchant = Newest.risky
               /\ Newest \in Events
               /\ last.transaction_count_5m \in Nat \ {0}

LEMMA ObserveSnapshotsNewest ==
    ASSUME WindowInv, NEW e \in Events, ObserveTransaction(e)
    PROVE  LastIsOfNewest'
<1>1. Newest' = e /\ arrivals' \in Seq(Events) /\ Len(arrivals') \in Nat
      /\ Len(arrivals') \in SameCustomer' /\ Len(arrivals') # 0
  BY NewestArrival, AppendProperties
<1>2. last'.amount = e.amount /\ last'.is_risky_merchant = e.risky
  BY DEF ObserveTransaction, Snapshot
<1>3. Len(arrivals') \in Unexpired(e.customer_id, arrivals')
  <2>1. \A j \in Own(e.customer_id, arrivals') : ~ (Len(arrivals') < j)
    BY <1>1 DEF Own
  <2> QED
    BY <1>1, <2>1 DEF Unexpired, SameCustomer
<1>4. last'.transaction_count_5m \in Nat \ {0}
  <2>1. IsFiniteSet(Unexpired(e.customer_id, arrivals'))
    BY <1>1, OwnType
  <2> QED
    BY <1>3, <2>1, CountOfObserve, FS_CardinalityType, FS_EmptySet
<1> QED
  BY <1>1, <1>2, <1>4 DEF LastIsOfNewest

LEMMA LastSnapshotIsNewest == Spec => []LastIsOfNewest
<1>1. Init => LastIsOfNewest
  BY DEF Init, LastIsOfNewest, Arrived
<1>2. WindowInv /\ LastIsOfNewest /\ [Next]_vars => LastIsOfNewest'
  BY ObserveSnapshotsNewest DEF Next, vars, LastIsOfNewest, Arrived, Newest
<1> QED
  BY <1>1, <1>2, MemoryIsHistory, PTL DEF Spec

\* features.py and rules.py: whatever the memory held before a restart of the
\* detector, a customer's first transaction after it gets no rule points more.
THEOREM FirstAfterRestartIsLenient == Spec => []FirstAfterRestartIsNoRiskier
<1>1. LastIsOfNewest => FirstAfterRestartIsNoRiskier
  <2> SUFFICES ASSUME LastIsOfNewest, Arrived
               PROVE  RuleScore(Snapshot(NoHistory, Newest)) <= RuleScore(last)
    BY DEF FirstAfterRestartIsNoRiskier
  <2>1. /\ last.amount = Newest.amount /\ last.is_risky_merchant = Newest.risky
        /\ Newest \in Events /\ last.transaction_count_5m \in Nat \ {0}
    BY DEF LastIsOfNewest
  <2>2. 1 >= VelocityCountThreshold => last.transaction_count_5m >= VelocityCountThreshold
    BY <2>1, VelocityCountAssumption
  <2> QED
    BY <2>1, <2>2, ColdSnapshot, FewerRules
<1> QED
  BY <1>1, LastSnapshotIsNewest, PTL

-----------------------------------------------------------------------------
(* The later transactions after a restart. *)

\* The arrivals since a restart are those of the log, k places on.
LEMMA SinceRestart ==
    ASSUME WindowInv, NEW k \in 0 .. Len(arrivals) - 1
    PROVE  LET n     == Len(arrivals)
               since == SubSeq(arrivals, k + 1, n - 1)
               more  == Append(since, Newest)
           IN  /\ n \in Nat \ {0} /\ Newest = arrivals[n] /\ Newest \in Events
               /\ since \in Seq(Events) /\ Len(since) = n - 1 - k
               /\ \A i \in 1 .. n - 1 - k : since[i] = arrivals[k + i]
               /\ more \in Seq(Events) /\ Len(more) = n - k
               /\ \A i \in 1 .. n - k : more[i] = arrivals[k + i]
<1> DEFINE n     == Len(arrivals)
           since == SubSeq(arrivals, k + 1, n - 1)
           more  == Append(since, Newest)
<1>1. arrivals \in Seq(Events) /\ n \in Nat \ {0}
  BY DEF WindowInv, TypeOK
<1>2. Newest = arrivals[n] /\ Newest \in Events
  BY <1>1 DEF Newest
<1>3. /\ since \in Seq(Events) /\ Len(since) = n - 1 - k
      /\ \A i \in 1 .. n - 1 - k : since[i] = arrivals[k + i]
  <2>1. \A i \in k + 1 .. n - 1 : arrivals[i] \in Events
    BY <1>1
  <2>2. k + 1 \in Int /\ n - 1 \in Int /\ k \in Int
    BY <1>1
  <2>3. /\ since \in Seq(Events)
        /\ Len(since) = IF k + 1 <= n - 1 THEN (n - 1) - (k + 1) + 1 ELSE 0
        /\ \A i \in 1 .. (n - 1) - (k + 1) + 1 : since[i] = arrivals[(k + 1) + i - 1]
    BY <2>1, <2>2, SubSeqProperties
  <2> HIDE DEF since
  <2> QED
    BY <1>1, <2>3
<1> HIDE DEF since
<1>4. /\ more \in Seq(Events) /\ Len(more) = Len(since) + 1 /\ more[Len(since) + 1] = Newest
      /\ \A i \in 1 .. Len(since) : more[i] = since[i]
  BY <1>2, <1>3, AppendProperties
<1> HIDE DEF more
<1>5. \A i \in 1 .. n - k : more[i] = arrivals[k + i]
  <2> SUFFICES ASSUME NEW i \in 1 .. n - k
               PROVE  more[i] = arrivals[k + i]
    OBVIOUS
  <2>1. CASE i = n - k
    BY <1>1, <1>2, <1>3, <1>4, <2>1
  <2>2. CASE i # n - k
    <3>1. i \in 1 .. n - 1 - k
      BY <1>1, <2>2
    <3>2. more[i] = since[i]
      BY <1>3, <1>4, <3>1
    <3> QED
      BY <1>3, <3>1, <3>2
  <2> QED
    BY <2>1, <2>2
<1> QED
  BY <1>1, <1>2, <1>3, <1>4, <1>5 DEF since, more

\* What expired before a restart is not counted after it either: the count
\* after the restart is of transactions that the process before it would count.
LEMMA CountAfterRestart ==
    ASSUME WindowInv, NEW k \in 0 .. Len(arrivals) - 1
    PROVE  /\ AfterRestart(k).transaction_count_5m
                 <= Cardinality(Unexpired(Newest.customer_id, arrivals))
           /\ AfterRestart(k).transaction_count_5m \in Nat
<1> DEFINE n     == Len(arrivals)
           c     == Newest.customer_id
           since == SubSeq(arrivals, k + 1, n - 1)
           more  == Append(since, Newest)
           cold  == Unexpired(c, more)
           warm  == Unexpired(c, arrivals)
<1>1. /\ n \in Nat \ {0} /\ Newest \in Events /\ since \in Seq(Events)
      /\ more \in Seq(Events) /\ Len(more) = n - k
      /\ \A i \in 1 .. n - k : more[i] = arrivals[k + i]
      /\ arrivals \in Seq(Events) /\ k \in Nat /\ k < n
  BY SinceRestart DEF WindowInv, TypeOK
<1>2. AfterRestart(k).transaction_count_5m = Cardinality(cold)
  <2>1. Of(c, Newest)
    BY <1>1 DEF Of
  <2>2. Observe(History(c, since), Newest) = History(c, more)
    BY <1>1, <2>1, HistoryAppended
  <2>3. AfterRestart(k).transaction_count_5m = Cardinality(Copies(History(c, more).event_times))
    BY <2>2 DEF AfterRestart, Snapshot
  <2> QED
    BY <1>1, <2>3, CopiesOfHistory
<1>3. IsFiniteSet(cold) /\ IsFiniteSet(warm)
  BY <1>1, OwnType
<1> HIDE DEF more, since, n, c
<1>4. \A i \in 1 .. n - k : i \in Own(c, more) <=> k + i \in Own(c, arrivals)
  <2>1. \A i \in 1 .. n - k : i \in 1 .. Len(more) /\ k + i \in 1 .. Len(arrivals)
    BY <1>1 DEF n
  <2> QED
    BY <1>1, <2>1 DEF Own
<1>5. \A i \in cold : i \in 1 .. n - k /\ k + i \in warm
  <2> SUFFICES ASSUME NEW i \in cold
               PROVE  i \in 1 .. n - k /\ k + i \in warm
    OBVIOUS
  <2>1. /\ i \in Own(c, more) /\ i \in 1 .. n - k
        /\ \A j \in Own(c, more) : i < j => more[j].event_time - VelocityWindow <= more[i].event_time
    BY <1>1 DEF Unexpired, Own
  <2>2. k + i \in Own(c, arrivals)
    BY <1>4, <2>1
  <2>3. ASSUME NEW j \in Own(c, arrivals), k + i < j
        PROVE  arrivals[j].event_time - VelocityWindow <= arrivals[k + i].event_time
    <3>1. j \in 1 .. n
      BY DEF Own, n
    <3>2. j - k \in 1 .. n - k /\ i < j - k /\ k + (j - k) = j
      BY <1>1, <2>1, <2>3, <3>1
    <3>3. j - k \in Own(c, more) /\ more[j - k] = arrivals[j] /\ more[i] = arrivals[k + i]
      BY <1>1, <1>4, <2>1, <3>2
    <3> QED
      BY <2>1, <3>2, <3>3
  <2> QED
    BY <2>1, <2>2, <2>3 DEF Unexpired
<1> HIDE DEF cold, warm
<1>6. Cardinality(cold) \in Nat /\ Cardinality(warm) \in Nat
  BY <1>3, FS_CardinalityType
<1>7. ~ (Cardinality(warm) < Cardinality(cold))
  <2> SUFFICES ASSUME Cardinality(warm) < Cardinality(cold)
               PROVE  FALSE
    OBVIOUS
  <2> DEFINE f == [i \in cold |-> k + i]
  <2>1. f \in [cold -> warm]
    BY <1>5
  <2>2. \E i, j \in cold : i # j /\ f[i] = f[j]
    <3> HIDE DEF f
    <3> QED
      BY <1>3, <2>1, FS_PigeonHole
  <2> QED
    BY <1>1, <1>5, <2>2
<1> QED
  BY <1>2, <1>6, <1>7 DEF warm, c

\* After a restart the newest transaction is compared with those since.
LEMMA NoveltyAfterRestart ==
    ASSUME WindowInv, NEW k \in 0 .. Len(arrivals) - 1
    PROVE  /\ AfterRestart(k).amount = Newest.amount
           /\ AfterRestart(k).is_risky_merchant = Newest.risky
           /\ AfterRestart(k).is_new_device <=>
                 Since(k) # {} /\ Newest.device_id \notin Devices(Since(k))
           /\ AfterRestart(k).is_new_country <=>
                 Since(k) # {} /\ Newest.country_code \notin Countries(Since(k))
<1> DEFINE n     == Len(arrivals)
           c     == Newest.customer_id
           since == SubSeq(arrivals, k + 1, n - 1)
           own   == Own(c, since)
           before == History(c, since)
<1>1. /\ n \in Nat \ {0} /\ k \in Nat /\ k < n
      /\ Len(since) = n - 1 - k
      /\ \A i \in 1 .. n - 1 - k : since[i] = arrivals[k + i]
  BY SinceRestart
<1>2. /\ AfterRestart(k).amount = Newest.amount
      /\ AfterRestart(k).is_risky_merchant = Newest.risky
      /\ AfterRestart(k).is_new_device =
            (before.device_ids # {} /\ Newest.device_id \notin before.device_ids)
      /\ AfterRestart(k).is_new_country =
            (before.country_codes # {} /\ Newest.country_code \notin before.country_codes)
  BY DEF AfterRestart, Snapshot
<1>3. /\ before.device_ids = {since[i].device_id : i \in own}
      /\ before.country_codes = {since[i].country_code : i \in own}
  BY DEF History
<1> HIDE DEF before, since
<1>4. \A i \in own : k + i \in Since(k) /\ since[i] = arrivals[k + i]
  <2> SUFFICES ASSUME NEW i \in own
               PROVE  k + i \in Since(k) /\ since[i] = arrivals[k + i]
    OBVIOUS
  <2>1. i \in 1 .. n - 1 - k /\ since[i] \in Events /\ since[i].customer_id = c
    BY <1>1 DEF Own
  <2>2. since[i] = arrivals[k + i] /\ k + i \in 1 .. n /\ k < k + i /\ k + i < n
    BY <1>1, <2>1
  <2> QED
    BY <2>1, <2>2 DEF Since, SameCustomer, Own
<1>5. \A j \in Since(k) : j - k \in own /\ since[j - k] = arrivals[j]
  <2> SUFFICES ASSUME NEW j \in Since(k)
               PROVE  j - k \in own /\ since[j - k] = arrivals[j]
    OBVIOUS
  <2>1. /\ j \in 1 .. n /\ k < j /\ j < n
        /\ arrivals[j] \in Events /\ arrivals[j].customer_id = c
    BY DEF Since, SameCustomer, Own
  <2>2. j - k \in 1 .. n - 1 - k /\ since[j - k] = arrivals[j]
    BY <1>1, <2>1
  <2> QED
    BY <1>1, <2>1, <2>2 DEF Own
<1> HIDE DEF own, n, c
<1>6. before.device_ids = Devices(Since(k)) /\ before.country_codes = Countries(Since(k))
  BY <1>3, <1>4, <1>5 DEF Devices, Countries
<1>7. /\ Devices(Since(k)) # {} <=> Since(k) # {}
      /\ Countries(Since(k)) # {} <=> Since(k) # {}
  BY DEF Devices, Countries
<1> QED
  BY <1>2, <1>6, <1>7

\* ... and before it, with all of them.
LEMMA NoveltyBeforeRestart ==
    ASSUME WindowInv, NoveltyMatchesHistory, NEW k \in 0 .. Len(arrivals) - 1
    PROVE  LET all == Before(k) \cup Since(k)
           IN  /\ last.is_new_device <=> all # {} /\ Newest.device_id \notin Devices(all)
               /\ last.is_new_country <=> all # {} /\ Newest.country_code \notin Countries(all)
<1> DEFINE n   == Len(arrivals)
           all == Before(k) \cup Since(k)
<1>1. n \in Nat \ {0} /\ k \in Nat /\ k < n
  BY SinceRestart
<1>2. Arrived
  BY <1>1 DEF Arrived
<1>3. SameCustomer \ {n} = all
  <2>1. \A i \in SameCustomer : i \in 1 .. n
    BY DEF SameCustomer, Own
  <2>2. \A i \in SameCustomer : i # n <=> i <= k \/ (k < i /\ i < n)
    BY <1>1, <2>1
  <2> QED
    BY <2>2 DEF Before, Since
<1>4. /\ last.is_new_device <=>
            all # {} /\ \A i \in all : arrivals[i].device_id # Newest.device_id
      /\ last.is_new_country <=>
            all # {} /\ \A i \in all : arrivals[i].country_code # Newest.country_code
  BY <1>2, <1>3 DEF NoveltyMatchesHistory
<1> HIDE DEF all
<1>5. /\ Newest.device_id \in Devices(all) <=>
            \E i \in all : arrivals[i].device_id = Newest.device_id
      /\ Newest.country_code \in Countries(all) <=>
            \E i \in all : arrivals[i].country_code = Newest.country_code
  BY DEF Devices, Countries
<1> QED
  BY <1>4, <1>5 DEF all

\* Of two snapshots of one transaction, the one with no more of a count fires
\* no rule that the other does not, but those of its own novelty.
LEMMA NoveltyPoints ==
    ASSUME NEW f, NEW g, f.amount = g.amount, f.is_risky_merchant = g.is_risky_merchant,
           f.transaction_count_5m >= VelocityCountThreshold =>
              g.transaction_count_5m >= VelocityCountThreshold
    PROVE  RuleScore(f) <= RuleScore(g)
              + Points(f.is_new_device /\ ~ g.is_new_device, 20)
              + Points(f.is_new_country /\ ~ g.is_new_country, 25)
<1> DEFINE high(h)    == Points(h.amount >= HighAmountThreshold, 60)
           many(h)    == Points(h.transaction_count_5m >= VelocityCountThreshold, 35)
           device(h)  == Points(h.is_new_device, 20)
           country(h) == Points(h.is_new_country, 25)
           risky(h)   == Points(h.is_risky_merchant /\ h.amount >= 500, 20)
           x          == Points(f.is_new_device /\ ~ g.is_new_device, 20)
           y          == Points(f.is_new_country /\ ~ g.is_new_country, 25)
<1>1. \A h \in {f, g} : /\ high(h) \in Nat /\ many(h) \in Nat /\ risky(h) \in Nat
                        /\ device(h) \in Nat /\ country(h) \in Nat
  BY DEF Points
<1>2. high(f) = high(g) /\ risky(f) = risky(g) /\ many(f) <= many(g)
  BY DEF Points
<1>3. x \in Nat /\ y \in Nat /\ device(f) <= device(g) + x /\ country(f) <= country(g) + y
  BY DEF Points
<1>4. \A h \in {f, g} : RuleScore(h) =
         LET total == high(h) + many(h) + device(h) + country(h) + risky(h)
         IN  IF total > 100 THEN 100 ELSE total
  BY DEF RuleScore
<1> HIDE DEF high, many, device, country, risky, x, y
<1>5. RuleScore(f) <= RuleScore(g) + x + y
  BY <1>1, <1>2, <1>3, <1>4
<1> QED
  BY <1>5 DEF x, y

\* features.py:22, scoring.py:18: for every restart and every transaction after
\* it, whatever the thresholds: the count does not rise, and a rule score rises
\* only by what the customer was last seen with before the restart.
THEOREM RelearningCosts == Spec => []RelearningCostsOnlyNovelty
<1>1. WindowInv /\ CountIsUnexpired /\ NoveltyMatchesHistory /\ LastIsOfNewest
         => RelearningCostsOnlyNovelty
  <2> SUFFICES ASSUME WindowInv, CountIsUnexpired, NoveltyMatchesHistory, LastIsOfNewest,
                      NEW k \in 0 .. Len(arrivals) - 1
               PROVE  LET cold == AfterRestart(k)
                      IN  /\ cold.transaction_count_5m <= last.transaction_count_5m
                          /\ cold.is_new_device /\ ~ last.is_new_device =>
                                /\ Since(k) # {}
                                /\ Newest.device_id \in Devices(Before(k)) \ Devices(Since(k))
                          /\ cold.is_new_country /\ ~ last.is_new_country =>
                                /\ Since(k) # {}
                                /\ Newest.country_code
                                      \in Countries(Before(k)) \ Countries(Since(k))
                          /\ last.is_new_device /\ ~ cold.is_new_device => Since(k) = {}
                          /\ last.is_new_country /\ ~ cold.is_new_country => Since(k) = {}
                          /\ RuleScore(cold) <= RuleScore(last)
                               + Points(cold.is_new_device /\ ~ last.is_new_device, 20)
                               + Points(cold.is_new_country /\ ~ last.is_new_country, 25)
    BY DEF RelearningCostsOnlyNovelty
  <2> DEFINE cold == AfterRestart(k)
             all  == Before(k) \cup Since(k)
  <2>1. Arrived
    <3>1. Len(arrivals) \in Nat \ {0}
      BY SinceRestart
    <3> QED
      BY <3>1 DEF Arrived
  <2>2. /\ last.amount = Newest.amount /\ last.is_risky_merchant = Newest.risky
        /\ last.transaction_count_5m \in Nat
    BY <2>1 DEF LastIsOfNewest
  <2>3. cold.transaction_count_5m \in Nat /\ cold.transaction_count_5m <= last.transaction_count_5m
    BY <2>1, CountAfterRestart DEF CountIsUnexpired
  <2>4. /\ cold.amount = Newest.amount /\ cold.is_risky_merchant = Newest.risky
        /\ cold.is_new_device <=>
              Since(k) # {} /\ Newest.device_id \notin Devices(Since(k))
        /\ cold.is_new_country <=>
              Since(k) # {} /\ Newest.country_code \notin Countries(Since(k))
    BY NoveltyAfterRestart
  <2>5. /\ last.is_new_device <=> all # {} /\ Newest.device_id \notin Devices(all)
        /\ last.is_new_country <=> all # {} /\ Newest.country_code \notin Countries(all)
    BY NoveltyBeforeRestart
  <2>6. /\ Devices(all) = Devices(Before(k)) \cup Devices(Since(k))
        /\ Countries(all) = Countries(Before(k)) \cup Countries(Since(k))
        /\ Since(k) # {} => all # {}
    BY DEF Devices, Countries
  <2>7. cold.transaction_count_5m >= VelocityCountThreshold =>
           last.transaction_count_5m >= VelocityCountThreshold
    BY <2>2, <2>3, VelocityCountAssumption
  <2> HIDE DEF cold, all
  <2>8. RuleScore(cold) <= RuleScore(last)
           + Points(cold.is_new_device /\ ~ last.is_new_device, 20)
           + Points(cold.is_new_country /\ ~ last.is_new_country, 25)
    BY <2>2, <2>4, <2>7, NoveltyPoints
  <2>9. /\ cold.is_new_device /\ ~ last.is_new_device =>
              /\ Since(k) # {}
              /\ Newest.device_id \in Devices(Before(k)) \ Devices(Since(k))
        /\ last.is_new_device /\ ~ cold.is_new_device => Since(k) = {}
    BY <2>4, <2>5, <2>6
  <2>10. /\ cold.is_new_country /\ ~ last.is_new_country =>
               /\ Since(k) # {}
               /\ Newest.country_code \in Countries(Before(k)) \ Countries(Since(k))
         /\ last.is_new_country /\ ~ cold.is_new_country => Since(k) = {}
    BY <2>4, <2>5, <2>6
  <2> QED
    BY <2>3, <2>8, <2>9, <2>10 DEF cold
<1> QED
  BY <1>1, MemoryIsHistory, Counts, Novelty, LastSnapshotIsNewest, PTL

-----------------------------------------------------------------------------
(* The first transaction after a restart, and the model. *)

\* The decision gets no softer with the score.
LEMMA DecisionRises ==
    ASSUME ReviewScoreThreshold \in Int, DeclineScoreThreshold \in Int,
           NEW x \in Int, NEW y \in Int, x <= y
    PROVE  /\ Severity[DecisionForScore(x)] \in Int /\ Severity[DecisionForScore(y)] \in Int
           /\ Severity[DecisionForScore(x)] <= Severity[DecisionForScore(y)]
BY DEF DecisionForScore, Severity

\* The rules and the model give numbers, and the harder of the two decides.
LEMMA HarderDecides ==
    ASSUME ReviewScoreThreshold \in Int, DeclineScoreThreshold \in Int,
           NEW f, ModelPercent(f) \in Int
    PROVE  /\ RuleScore(f) \in Int /\ CombinedScore(f) \in Int
           /\ CombinedScore(f) \in {ModelPercent(f), RuleScore(f)}
           /\ RuleScore(f) <= CombinedScore(f)
<1>1. RuleScore(f) \in Int
  BY DEF RuleScore, Points
<1> QED
  BY <1>1 DEF CombinedScore

\* scoring.py:27, a customer's first transaction after a restart, for any model:
\* when the model decides no first transaction on its own, the decision is no
\* harder than it would have been with the history.
THEOREM FirstAfterRestartIsSafe ==
    ASSUME ReviewScoreThreshold \in Int, DeclineScoreThreshold \in Int,
           \A f : ModelPercent(f) \in 0 .. 100,
           RulesDecideFirst
    PROVE  Spec => []FirstAfterRestartIsNoHarder
<1>1. LastIsOfNewest /\ FirstAfterRestartIsNoRiskier => FirstAfterRestartIsNoHarder
  <2> SUFFICES ASSUME LastIsOfNewest, FirstAfterRestartIsNoRiskier, Arrived
               PROVE  Severity[DecisionForScore(CombinedScore(Snapshot(NoHistory, Newest)))]
                         <= Severity[DecisionForScore(CombinedScore(last))]
    BY DEF FirstAfterRestartIsNoHarder
  <2> DEFINE cold == Snapshot(NoHistory, Newest)
             S(x) == Severity[DecisionForScore(x)]
  <2>1. Newest \in Events /\ RuleScore(cold) <= RuleScore(last)
    BY DEF LastIsOfNewest, FirstAfterRestartIsNoRiskier
  <2>2. S(ModelPercent(cold)) <= S(RuleScore(cold))
    BY <2>1 DEF RulesDecideFirst
  <2>3. \A f : ModelPercent(f) \in Int
    OBVIOUS
  <2> HIDE DEF cold
  <2>4. /\ RuleScore(cold) \in Int /\ CombinedScore(cold) \in {ModelPercent(cold), RuleScore(cold)}
        /\ RuleScore(last) \in Int /\ CombinedScore(last) \in Int
        /\ RuleScore(last) <= CombinedScore(last)
    BY <2>3, HarderDecides
  <2>5. S(RuleScore(cold)) <= S(RuleScore(last)) /\ S(RuleScore(cold)) \in Int
    BY <2>1, <2>4, DecisionRises
  <2>6. S(RuleScore(last)) <= S(CombinedScore(last))
        /\ S(RuleScore(last)) \in Int /\ S(CombinedScore(last)) \in Int
    BY <2>4, DecisionRises
  <2>7. S(ModelPercent(cold)) \in Int
    BY <2>3, DecisionRises
  <2>8. S(CombinedScore(cold)) <= S(RuleScore(cold)) /\ S(CombinedScore(cold)) \in Int
    BY <2>2, <2>4, <2>5, <2>7
  <2> HIDE DEF S
  <2>9. S(CombinedScore(cold)) <= S(CombinedScore(last))
    BY <2>5, <2>6, <2>8
  <2> QED
    BY <2>9 DEF S, cold
<1> QED
  BY <1>1, LastSnapshotIsNewest, FirstAfterRestartIsLenient, PTL

-----------------------------------------------------------------------------
(* The shipped model. *)

\* models/fraud_logreg_v1.json, loaded; the thresholds of config.py:24-28; and
\* amounts schemas.py:50 admits, with what their logarithms are at most: that
\* of 1,000,000, and that of 2,500 for an amount that is not high.
ModelIsShipped ==
    Artifact = FraudLogregV1 /\ \A f : ModelPercent(f) = Percent(f)

SettingsAreShipped ==
    HighAmountThreshold = 2500 /\ ReviewScoreThreshold = 40 /\ DeclineScoreThreshold = 70

AmountsAreValid ==
    \A e \in Events :
       /\ e.amount \in Int /\ 0 < e.amount /\ e.amount <= 1000000 /\ e.risky \in BOOLEAN
       /\ Log1p(e.amount) \in Int /\ 0 <= Log1p(e.amount) /\ Log1p(e.amount) <= 138155
       /\ e.amount < 2500 => Log1p(e.amount) <= 78245

LEMMA IntervalSize == \A n \in Nat : IsFiniteSet(1 .. n) /\ Cardinality(1 .. n) = n
<1> TAKE n \in Nat
<1>1. IsFiniteSet(1 .. n) /\ Cardinality(1 .. n) = IF 1 > n THEN 0 ELSE n - 1 + 1
  BY FS_Interval
<1> QED
  BY <1>1

\* A probability is a percentage.
LEMMA PercentType == \A f : Percent(f) \in 0 .. 100
<1> SUFFICES ASSUME NEW f
             PROVE  Percent(f) \in 0 .. 100
  OBVIOUS
<1> DEFINE below == {percent \in 1 .. 100 : CalibratedLogit(f) >= CutPoint(percent)}
<1>1. IsFiniteSet(1 .. 100) /\ Cardinality(1 .. 100) = 100
  BY IntervalSize
<1>2. Cardinality(below) \in Nat /\ Cardinality(below) <= 100
  BY <1>1, FS_Subset, FS_CardinalityType
<1> QED
  BY <1>2 DEF Percent

\* The logistic function: from 40 % on, the cut points are at -0.4263 or above.
LEMMA CutPointsFromForty == \A p \in 40 .. 100 : CutPoint(p) \in Int /\ CutPoint(p) >= -4263
<1>1. \A i \in 40 .. 50 : LowerCutPoints[i] \in Int /\ LowerCutPoints[i] >= -4263
  BY DEF LowerCutPoints
<1>2. \A i \in 1 .. 50 : LowerCutPoints[i] \in Int /\ LowerCutPoints[i] <= -200
  BY DEF LowerCutPoints
<1> QED
  BY <1>1, <1>2 DEF CutPoint

LEMMA BelowForty ==
    ASSUME NEW f, CalibratedLogit(f) \in Int, CalibratedLogit(f) < -4263
    PROVE  Percent(f) <= 39
<1> DEFINE below == {percent \in 1 .. 100 : CalibratedLogit(f) >= CutPoint(percent)}
<1>1. below \subseteq 1 .. 39
  BY CutPointsFromForty
<1>2. IsFiniteSet(1 .. 39) /\ Cardinality(1 .. 39) = 39
  <2>1. 39 \in Nat
    OBVIOUS
  <2> QED
    BY ONLY <2>1, IntervalSize
<1>3. Cardinality(below) <= 39
  BY <1>1, <1>2, FS_Subset
<1> QED
  BY <1>3 DEF Percent

\* The arithmetic of the artifact's constants: a quotient from its bounds.
LEMMA Quotient ==
    ASSUME NEW x \in Int, NEW d \in Int, NEW q \in Int,
           d > 0, d * q <= x, x < d * q + d
    PROVE  x \div d = q
BY SMT

LEMMA CountTerm == (-2069 * (((10000 - 15856) * 10000) \div 7506)) \div 10000 = 1614
<1> DEFINE c == -2069
           x == (10000 - 15856) * 10000
           d == 7506
           q == -7802
           k == 1614
<1>1. /\ x \in Int /\ d \in Int /\ c \in Int /\ q \in Int /\ k \in Int
      /\ d > 0 /\ d * q <= x /\ x < d * q + d
      /\ 10000 * k <= c * q /\ c * q < 10000 * k + 10000
  BY SMT
<1> HIDE DEF c, x, d, q, k
<1>2. x \div d = q
  BY <1>1, Quotient, SMT
<1>3. (c * q) \div 10000 = k
  BY <1>1, SMT
<1> QED
  BY <1>2, <1>3, SMT DEF c, x, d, q, k

LEMMA DeviceTerm == (23663 * (((0 - 1247) * 10000) \div 3304)) \div 10000 = -8933
<1> DEFINE c == 23663
           x == (0 - 1247) * 10000
           d == 3304
           q == -3775
           k == -8933
<1>1. /\ x \in Int /\ d \in Int /\ c \in Int /\ q \in Int /\ k \in Int
      /\ d > 0 /\ d * q <= x /\ x < d * q + d
      /\ 10000 * k <= c * q /\ c * q < 10000 * k + 10000
  BY SMT
<1> HIDE DEF c, x, d, q, k
<1>2. x \div d = q
  BY <1>1, Quotient, SMT
<1>3. (c * q) \div 10000 = k
  BY <1>1, SMT
<1> QED
  BY <1>2, <1>3, SMT DEF c, x, d, q, k

LEMMA CountryTerm == (-1449 * (((0 - 357) * 10000) \div 1856)) \div 10000 = 278
<1> DEFINE c == -1449
           x == (0 - 357) * 10000
           d == 1856
           q == -1924
           k == 278
<1>1. /\ x \in Int /\ d \in Int /\ c \in Int /\ q \in Int /\ k \in Int
      /\ d > 0 /\ d * q <= x /\ x < d * q + d
      /\ 10000 * k <= c * q /\ c * q < 10000 * k + 10000
  BY SMT
<1> HIDE DEF c, x, d, q, k
<1>2. x \div d = q
  BY <1>1, Quotient, SMT
<1>3. (c * q) \div 10000 = k
  BY <1>1, SMT
<1> QED
  BY <1>2, <1>3, SMT DEF c, x, d, q, k

\* models/fraud_logreg_v1.json: the first transaction of a customer stays below
\* 40 % unless it is a high amount at a risky merchant.
LEMMA FirstIsBelowForty ==
    ASSUME ModelIsShipped, AmountsAreValid, NEW e \in Events,
           ~ (e.risky /\ e.amount >= 2500)
    PROVE  ModelPercent(Snapshot(NoHistory, e)) <= 39
<1> DEFINE f == Snapshot(NoHistory, e)
           log == Log1p(e.amount)
<1>1. /\ f.amount = e.amount /\ f.is_risky_merchant = e.risky /\ f.transaction_count_5m = 1
      /\ ~ f.is_new_device /\ ~ f.is_new_country
  BY ColdSnapshot
<1>2. /\ log \in Int /\ log <= 138155 /\ e.amount \in Int
      /\ e.amount < 2500 => log <= 78245
  BY DEF AmountsAreValid
<1> HIDE DEF f, log
<1>3. FeatureVector(f) = <<log, Unit, 0, 0, Flag(e.risky)>>
  BY <1>1 DEF FeatureVector, Flag, Unit, log
<1>4. /\ Artifact.scaler_mean = <<44609, 15856, 1247, 357, 5289>>
      /\ Artifact.scaler_scale = <<13123, 7506, 3304, 1856, 4992>>
      /\ Artifact.coefficients = <<11601, -2069, 23663, -1449, 13059>>
      /\ Artifact.intercept = -40035
      /\ Artifact.calibration = [method |-> "platt", a |-> 9662, b |-> -25330]
  BY DEF ModelIsShipped, FraudLogregV1
<1>5. Contribution(f, 2) = 1614 /\ Contribution(f, 3) = -8933 /\ Contribution(f, 4) = 278
  <2>1. /\ FeatureVector(f)[2] = 10000 /\ FeatureVector(f)[3] = 0 /\ FeatureVector(f)[4] = 0
        /\ Artifact.scaler_mean[2] = 15856 /\ Artifact.scaler_mean[3] = 1247
        /\ Artifact.scaler_mean[4] = 357
    BY <1>3, <1>4 DEF Unit
  <2>2. /\ Artifact.scaler_scale[2] = 7506 /\ Artifact.coefficients[2] = -2069
        /\ Artifact.scaler_scale[3] = 3304 /\ Artifact.coefficients[3] = 23663
        /\ Artifact.scaler_scale[4] = 1856 /\ Artifact.coefficients[4] = -1449
    BY <1>4
  <2>3. /\ Contribution(f, 2) = (-2069 * (((10000 - 15856) * 10000) \div 7506)) \div 10000
        /\ Contribution(f, 3) = (23663 * (((0 - 1247) * 10000) \div 3304)) \div 10000
        /\ Contribution(f, 4) = (-1449 * (((0 - 357) * 10000) \div 1856)) \div 10000
    BY <2>1, <2>2 DEF Contribution, Times, Unit
  <2> QED
    BY <2>3, CountTerm, DeviceTerm, CountryTerm
<1>6. Contribution(f, 5) = IF e.risky THEN 12323 ELSE -13837
  BY <1>3, <1>4 DEF Contribution, Times, Unit, Flag
<1>7. Contribution(f, 1) = (11601 * (((log - 44609) * 10000) \div 13123)) \div 10000
  BY <1>3, <1>4 DEF Contribution, Times, Unit
<1>8. /\ Contribution(f, 1) \in Int /\ Contribution(f, 1) <= 82696
      /\ e.amount < 2500 => Contribution(f, 1) <= 29734
  BY <1>2, <1>7
<1>9. Logit(f) \in Int /\ Logit(f) <= 21783
  BY <1>2, <1>4, <1>5, <1>6, <1>8 DEF Logit
<1>10. CalibratedLogit(f) = (9662 * Logit(f)) \div 10000 - 25330
  BY <1>4, <1>9 DEF CalibratedLogit, Times, Unit
<1>11. CalibratedLogit(f) \in Int /\ CalibratedLogit(f) < -4263
  BY <1>9, <1>10
<1>12. Percent(f) <= 39
  BY <1>11, BelowForty
<1> QED
  BY <1>12 DEF ModelIsShipped, f

\* ... and that one the rules already decline; a high amount elsewhere they review.
LEMMA ShippedRulesDecideFirst ==
    ASSUME ModelIsShipped, SettingsAreShipped, AmountsAreValid
    PROVE  RulesDecideFirst
<1> SUFFICES ASSUME NEW e \in Events
             PROVE  LET f == Snapshot(NoHistory, e)
                    IN  Severity[DecisionForScore(ModelPercent(f))]
                           <= Severity[DecisionForScore(RuleScore(f))]
  BY DEF RulesDecideFirst
<1> DEFINE f == Snapshot(NoHistory, e)
<1>1. f.amount = e.amount /\ f.is_risky_merchant = e.risky
  BY ColdSnapshot
<1>2. ModelPercent(f) \in 0 .. 100 /\ e.amount \in Int
  BY PercentType DEF ModelIsShipped, AmountsAreValid
<1>3. ~ (e.risky /\ e.amount >= 2500) => ModelPercent(f) <= 39
  BY FirstIsBelowForty
<1> HIDE DEF f
<1>4. e.risky /\ e.amount >= 2500 => RuleScore(f) >= 80
  <2> SUFFICES ASSUME e.risky, e.amount >= 2500
               PROVE  RuleScore(f) >= 80
    OBVIOUS
  <2> DEFINE a == Points(f.amount >= HighAmountThreshold, 60)
             b == Points(f.transaction_count_5m >= VelocityCountThreshold, 35)
             c == Points(f.is_new_device, 20)
             d == Points(f.is_new_country, 25)
             g == Points(f.is_risky_merchant /\ f.amount >= 500, 20)
  <2>1. a = 60 /\ g = 20
    BY <1>1, <1>2 DEF Points, SettingsAreShipped
  <2>2. b \in Nat /\ c \in Nat /\ d \in Nat
    BY DEF Points
  <2>3. RuleScore(f) = IF a + b + c + d + g > 100 THEN 100 ELSE a + b + c + d + g
    BY DEF RuleScore
  <2> QED
    BY <2>1, <2>2, <2>3
<1>5. RuleScore(f) \in Int
  BY DEF RuleScore, Points
<1>6. \A x : Severity[DecisionForScore(x)] \in 0 .. 2
  BY DEF DecisionForScore, Severity
<1>7. \A x \in Int : x >= 70 => Severity[DecisionForScore(x)] = 2
  BY DEF DecisionForScore, Severity, SettingsAreShipped
<1>8. \A x \in Int : x < 40 => Severity[DecisionForScore(x)] = 0
  BY DEF DecisionForScore, Severity, SettingsAreShipped
<1>9. Severity[DecisionForScore(ModelPercent(f))] <= Severity[DecisionForScore(RuleScore(f))]
  <2>1. CASE e.risky /\ e.amount >= 2500
    BY <1>4, <1>5, <1>6, <1>7, <2>1
  <2>2. CASE ~ (e.risky /\ e.amount >= 2500)
    BY <1>2, <1>3, <1>6, <1>8, <2>2
  <2> QED
    BY <2>1, <2>2
<1> QED
  BY <1>9 DEF f

\* scoring.py:18-27, as shipped: no customer's first transaction after a restart
\* is decided more severely for the history it lost, for every amount there is.
THEOREM ShippedFirstAfterRestartIsSafe ==
    ASSUME ModelIsShipped, SettingsAreShipped, AmountsAreValid
    PROVE  Spec => []FirstAfterRestartIsNoHarder
<1>1. ReviewScoreThreshold \in Int /\ DeclineScoreThreshold \in Int
  BY DEF SettingsAreShipped
<1>2. \A f : ModelPercent(f) \in 0 .. 100
  BY PercentType DEF ModelIsShipped
<1>3. RulesDecideFirst
  BY ShippedRulesDecideFirst
<1> QED
  BY <1>1, <1>2, <1>3, FirstAfterRestartIsSafe
=============================================================================
