------------------------- MODULE FraudScoringProofs -------------------------
(***************************************************************************)
(* What observe does to a customer's history, for any messages: observing  *)
(* one transaction more is the history of one message more, and the times  *)
(* it counts are those that have not expired.                              *)
(***************************************************************************)
EXTENDS FraudScoring, FiniteSetTheorems, SequenceTheorems, TLAPS

\* A message of customer c.
Of(c, v) == v \in Events /\ v.customer_id = c

\* The kept transactions with event time t.
At(t, kept, messages) == {i \in kept : messages[i].event_time = t}

-----------------------------------------------------------------------------
(* The transactions of a customer, once one more message has arrived. *)

LEMMA OneMoreMessage ==
    ASSUME NEW V, NEW messages \in Seq(V), NEW v
    PROVE  /\ Len(messages) \in Nat
           /\ Len(Append(messages, v)) = Len(messages) + 1
           /\ Append(messages, v)[Len(messages) + 1] = v
           /\ \A i \in 1 .. Len(messages) : Append(messages, v)[i] = messages[i]
<1>1. messages \in Seq(V \cup {v})
  OBVIOUS
<1> QED
  BY <1>1, AppendProperties

LEMMA OwnType ==
    ASSUME NEW V, NEW messages \in Seq(V), NEW c
    PROVE  /\ Own(c, messages) \subseteq 1 .. Len(messages)
           /\ Unexpired(c, messages) \subseteq Own(c, messages)
           /\ IsFiniteSet(Own(c, messages)) /\ IsFiniteSet(Unexpired(c, messages))
           /\ \A i \in Own(c, messages) : /\ i \in Nat
                                          /\ messages[i] \in Events
                                          /\ messages[i].customer_id = c
                                          /\ messages[i].event_time \in Int
<1>1. Own(c, messages) \subseteq 1 .. Len(messages)
  BY DEF Own
<1>2. Unexpired(c, messages) \subseteq Own(c, messages)
  BY DEF Unexpired
<1>3. IsFiniteSet(1 .. Len(messages))
  BY FS_Interval
<1>4. IsFiniteSet(Own(c, messages)) /\ IsFiniteSet(Unexpired(c, messages))
  BY <1>1, <1>2, <1>3, FS_Subset
<1> QED
  BY <1>1, <1>2, <1>4, EventTimesAssumption DEF Own

LEMMA OwnAppended ==
    ASSUME NEW V, NEW messages \in Seq(V), NEW v, NEW c
    PROVE  Own(c, Append(messages, v)) =
              Own(c, messages) \cup (IF Of(c, v) THEN {Len(messages) + 1} ELSE {})
<1> DEFINE n == Len(messages)
           more == Append(messages, v)
<1>1. /\ n \in Nat /\ Len(more) = n + 1 /\ more[n + 1] = v
      /\ \A i \in 1 .. n : more[i] = messages[i]
  BY OneMoreMessage
<1> HIDE DEF more
<1>2. 1 .. Len(more) = (1 .. n) \cup {n + 1}
  BY <1>1
<1>3. Own(c, more) = Own(c, messages) \cup (IF Of(c, v) THEN {n + 1} ELSE {})
  BY <1>1, <1>2 DEF Own, Of
<1> QED
  BY <1>3 DEF more

\* A transaction expires those that lie before its window, and is itself kept.
LEMMA UnexpiredAppended ==
    ASSUME NEW V, NEW messages \in Seq(V), NEW v, NEW c, Of(c, v)
    PROVE  Unexpired(c, Append(messages, v)) =
              {i \in Unexpired(c, messages) :
                  v.event_time - VelocityWindow <= messages[i].event_time}
                \cup {Len(messages) + 1}
<1> DEFINE n == Len(messages)
           more == Append(messages, v)
           old == Own(c, messages)
           kept == {i \in Unexpired(c, messages) :
                       v.event_time - VelocityWindow <= messages[i].event_time}
<1>1. /\ n \in Nat /\ more[n + 1] = v
      /\ \A i \in 1 .. n : more[i] = messages[i]
  BY OneMoreMessage
<1>2. Own(c, more) = old \cup {n + 1}
  BY OwnAppended
<1>3. old \subseteq 1 .. n /\ \A i \in old : messages[i].event_time \in Int
  BY OwnType
<1>4. v.event_time \in Int /\ VelocityWindow \in Nat
  BY EventTimesAssumption, WindowAssumption DEF Of
<1> HIDE DEF more, old
<1>5. ASSUME NEW i \in old
      PROVE  i \in Unexpired(c, more) <=> i \in kept
  <2>1. i \in 1 .. n /\ i < n + 1 /\ ~ (n + 1 < i) /\ more[i] = messages[i]
    BY <1>1, <1>3
  <2>2. i \in Unexpired(c, more) <=>
           \A j \in old \cup {n + 1} :
              i < j => more[j].event_time - VelocityWindow <= messages[i].event_time
    BY <1>2, <2>1 DEF Unexpired
  <2>3. i \in Unexpired(c, messages) <=>
           \A j \in old :
              i < j => messages[j].event_time - VelocityWindow <= messages[i].event_time
    BY DEF Unexpired, old
  <2>4. \A j \in old : more[j] = messages[j]
    BY <1>1, <1>3
  <2> QED
    BY <1>1, <2>1, <2>2, <2>3, <2>4
<1>6. n + 1 \in Unexpired(c, more)
  <2>1. \A j \in old \cup {n + 1} : ~ (n + 1 < j)
    BY <1>1, <1>3
  <2> QED
    BY <1>2, <2>1 DEF Unexpired
<1>7. Unexpired(c, more) \subseteq old \cup {n + 1}
  BY <1>2 DEF Unexpired
<1>8. kept \subseteq old
  BY OwnType DEF old
<1> HIDE DEF kept
<1>9. Unexpired(c, more) = kept \cup {n + 1}
  BY <1>5, <1>6, <1>7, <1>8
<1> QED
  BY <1>9 DEF more, kept

LEMMA UnexpiredByOthers ==
    ASSUME NEW V, NEW messages \in Seq(V), NEW v, NEW c, ~ Of(c, v)
    PROVE  /\ Own(c, Append(messages, v)) = Own(c, messages)
           /\ Unexpired(c, Append(messages, v)) = Unexpired(c, messages)
<1> DEFINE more == Append(messages, v)
           old == Own(c, messages)
<1>1. Own(c, more) = old \cup (IF Of(c, v) THEN {Len(messages) + 1} ELSE {})
  BY OwnAppended
<1>2. \A i \in old : more[i] = messages[i]
  BY OwnType, OneMoreMessage
<1> HIDE DEF more, old
<1>3. Own(c, more) = old
  BY <1>1
<1>4. Unexpired(c, messages) =
         {i \in old : \A j \in old :
            i < j => messages[j].event_time - VelocityWindow <= messages[i].event_time}
  BY DEF Unexpired, old
<1>5. Unexpired(c, more) =
         {i \in old : \A j \in old :
            i < j => more[j].event_time - VelocityWindow <= more[i].event_time}
  BY <1>3 DEF Unexpired
<1>6. Unexpired(c, more) = Unexpired(c, messages)
  BY <1>2, <1>4, <1>5
<1> QED
  BY <1>3, <1>6 DEF more, old

-----------------------------------------------------------------------------
(* The history, once one more message has arrived. *)

\* The number of kept transactions with event time t.
LEMMA HistoryTimes ==
    ASSUME NEW messages, NEW c
    PROVE  LET B == History(c, messages).event_times
               kept == Unexpired(c, messages)
           IN  /\ DOMAIN B = {messages[i].event_time : i \in kept}
               /\ \A t \in DOMAIN B : B[t] = Cardinality(At(t, kept, messages))
BY DEF History, At

\* The bag loses the times before the window and gains one.
LEMMA TimesAppended ==
    ASSUME NEW V, NEW messages \in Seq(V), NEW v, NEW c, Of(c, v)
    PROVE  History(c, Append(messages, v)).event_times =
              Remembered(History(c, messages), v) (+) SetToBag({v.event_time})
<1> DEFINE n == Len(messages)
           more == Append(messages, v)
           old == Unexpired(c, messages)
           kept == {i \in old : v.event_time - VelocityWindow <= messages[i].event_time}
           B == History(c, messages).event_times
           R == Remembered(History(c, messages), v)
           N == History(c, more).event_times
<1>1. /\ n \in Nat /\ more[n + 1] = v
      /\ \A i \in 1 .. n : more[i] = messages[i]
  BY OneMoreMessage
<1>2. /\ old \subseteq 1 .. n /\ IsFiniteSet(old)
      /\ \A i \in old : messages[i].event_time \in Int
  BY OwnType
<1>3. Unexpired(c, more) = kept \cup {n + 1}
  BY UnexpiredAppended
<1>4. /\ DOMAIN B = {messages[i].event_time : i \in old}
      /\ \A t \in DOMAIN B : B[t] = Cardinality(At(t, old, messages))
  BY HistoryTimes
<1>5. R = [t \in {u \in DOMAIN B : v.event_time - VelocityWindow <= u} |-> B[t]]
  BY DEF Remembered
<1>6. /\ DOMAIN N = {more[i].event_time : i \in Unexpired(c, more)}
      /\ \A t \in DOMAIN N : N[t] = Cardinality(At(t, Unexpired(c, more), more))
  BY HistoryTimes
<1>7. N = [t \in DOMAIN N |-> N[t]]
  BY DEF History
<1> HIDE DEF more, B, R, N, old
<1>8. kept \subseteq 1 .. n /\ n + 1 \notin kept /\ \A i \in kept : more[i] = messages[i]
  <2>1. kept \subseteq old
    OBVIOUS
  <2> HIDE DEF kept
  <2>2. kept \subseteq 1 .. n
    BY <1>2, <2>1
  <2>3. n + 1 \notin 1 .. n
    BY <1>1
  <2> QED
    BY <1>1, <2>2, <2>3
<1>9. DOMAIN R = {messages[i].event_time : i \in kept}
  BY <1>4, <1>5
<1>10. DOMAIN N = DOMAIN R \cup {v.event_time}
  BY <1>1, <1>3, <1>6, <1>8, <1>9
<1>11. ASSUME NEW t \in DOMAIN R
       PROVE  R[t] = Cardinality(At(t, kept, messages))
  <2>1. t \in DOMAIN B /\ v.event_time - VelocityWindow <= t /\ R[t] = B[t]
    BY <1>5
  <2>2. At(t, old, messages) = At(t, kept, messages)
    BY <2>1 DEF At
  <2> QED
    BY <1>4, <2>1, <2>2
<1>12. ASSUME NEW t \in DOMAIN N
       PROVE  N[t] = (IF t \in DOMAIN R THEN R[t] ELSE 0)
                       + (IF t = v.event_time THEN 1 ELSE 0)
  <2> DEFINE a == At(t, kept, messages)
  <2>1. At(t, Unexpired(c, more), more)
          = a \cup (IF t = v.event_time THEN {n + 1} ELSE {})
    BY <1>1, <1>3, <1>8 DEF At
  <2>2. a \subseteq kept
    BY DEF At
  <2>3. IsFiniteSet(a) /\ n + 1 \notin a
    <3>1. kept \subseteq old
      OBVIOUS
    <3> QED
      BY <1>2, <1>8, <2>2, <3>1, FS_Subset
  <2>4. Cardinality(a) \in Nat
    BY <2>3, FS_CardinalityType
  <2>5. Cardinality(a \cup {n + 1}) = Cardinality(a) + 1
    BY <2>3, FS_AddElement
  <2>6. t \notin DOMAIN R => a = {}
    BY <1>9 DEF At
  <2>7. Cardinality({}) = 0
    BY FS_EmptySet
  <2>8. Cardinality(a) = IF t \in DOMAIN R THEN R[t] ELSE 0
    BY <1>11, <2>6, <2>7
  <2> HIDE DEF a
  <2>9. CASE t = v.event_time
    <3>1. N[t] = Cardinality(a) + 1
      BY <1>6, <2>1, <2>5, <2>9
    <3> QED
      BY <2>8, <2>9, <3>1
  <2>10. CASE t # v.event_time
    <3>1. N[t] = Cardinality(a)
      BY <1>6, <2>1, <2>10
    <3> QED
      BY <2>4, <2>8, <2>10, <3>1
  <2> QED
    BY <2>9, <2>10
<1>13. R (+) SetToBag({v.event_time}) =
          [t \in DOMAIN R \cup {v.event_time} |->
             (IF t \in DOMAIN R THEN R[t] ELSE 0) + (IF t = v.event_time THEN 1 ELSE 0)]
  <2>1. /\ DOMAIN SetToBag({v.event_time}) = {v.event_time}
        /\ SetToBag({v.event_time})[v.event_time] = 1
    BY DEF SetToBag
  <2> QED
    BY <2>1 DEF (+)
<1>14. N = R (+) SetToBag({v.event_time})
  BY <1>7, <1>10, <1>12, <1>13
<1> QED
  BY <1>14 DEF N, R, more

\* observe is one message more of the history of its customer, and no message
\* touches the history of another.
LEMMA HistoryAppended ==
    ASSUME NEW V, NEW messages \in Seq(V), NEW v, NEW c
    PROVE  /\ Of(c, v) =>
                History(c, Append(messages, v)) = Observe(History(c, messages), v)
           /\ ~ Of(c, v) => History(c, Append(messages, v)) = History(c, messages)
<1> DEFINE n == Len(messages)
           more == Append(messages, v)
           old == Own(c, messages)
<1>1. /\ n \in Nat /\ more[n + 1] = v
      /\ \A i \in 1 .. n : more[i] = messages[i]
  BY OneMoreMessage
<1>2. old \subseteq 1 .. n
  BY OwnType
<1>3. \A i \in old : more[i] = messages[i]
  BY <1>1, <1>2
<1>4. ASSUME Of(c, v)
      PROVE  History(c, more) = Observe(History(c, messages), v)
  <2>1. Own(c, more) = old \cup {n + 1}
    BY <1>4, OwnAppended
  <2>2. History(c, more).event_times =
           Remembered(History(c, messages), v) (+) SetToBag({v.event_time})
    BY <1>4, TimesAppended
  <2> HIDE DEF more, old
  <2>3. /\ {more[i].device_id : i \in Own(c, more)} =
              {messages[i].device_id : i \in old} \cup {v.device_id}
        /\ {more[i].country_code : i \in Own(c, more)} =
              {messages[i].country_code : i \in old} \cup {v.country_code}
    BY <1>1, <1>3, <2>1
  <2>4. /\ History(c, more).device_ids = History(c, messages).device_ids \cup {v.device_id}
        /\ History(c, more).country_codes =
              History(c, messages).country_codes \cup {v.country_code}
    BY <2>3 DEF History, old
  <2>5. History(c, more) = [event_times   |-> History(c, more).event_times,
                            device_ids    |-> History(c, more).device_ids,
                            country_codes |-> History(c, more).country_codes]
    BY DEF History
  <2> QED
    BY <2>2, <2>4, <2>5 DEF Observe
<1>5. ASSUME ~ Of(c, v)
      PROVE  History(c, more) = History(c, messages)
  <2> DEFINE kept == Unexpired(c, messages)
  <2>1. Own(c, more) = old /\ Unexpired(c, more) = kept
    BY <1>5, UnexpiredByOthers
  <2>2. \A i \in kept : more[i] = messages[i]
    BY <1>3, OwnType
  <2> HIDE DEF more, old, kept
  <2>3. [t \in {more[i].event_time : i \in kept} |->
             Cardinality({i \in kept : more[i].event_time = t})] =
         [t \in {messages[i].event_time : i \in kept} |->
             Cardinality({i \in kept : messages[i].event_time = t})]
    <3>1. \A t : {i \in kept : more[i].event_time = t} =
                    {i \in kept : messages[i].event_time = t}
      BY <2>2
    <3>2. {more[i].event_time : i \in kept} = {messages[i].event_time : i \in kept}
      BY <2>2
    <3> QED
      BY <3>1, <3>2
  <2>4. /\ {more[i].device_id : i \in old} = {messages[i].device_id : i \in old}
        /\ {more[i].country_code : i \in old} = {messages[i].country_code : i \in old}
    BY <1>3
  <2>5. History(c, more) =
           [event_times   |-> [t \in {more[i].event_time : i \in kept} |->
                                 Cardinality({i \in kept : more[i].event_time = t})],
            device_ids    |-> {more[i].device_id : i \in old},
            country_codes |-> {more[i].country_code : i \in old}]
    BY <2>1 DEF History
  <2>6. History(c, messages) =
           [event_times   |-> [t \in {messages[i].event_time : i \in kept} |->
                                 Cardinality({i \in kept : messages[i].event_time = t})],
            device_ids    |-> {messages[i].device_id : i \in old},
            country_codes |-> {messages[i].country_code : i \in old}]
    BY DEF History, kept, old
  <2> QED
    BY <2>3, <2>4, <2>5, <2>6
<1> QED
  BY <1>4, <1>5

LEMMA HistoryOfNothing ==
    ASSUME NEW c PROVE History(c, <<>>) = NoHistory
<1>1. Own(c, <<>>) = {} /\ Unexpired(c, <<>>) = {}
  BY DEF Own, Unexpired
<1> QED
  BY <1>1 DEF History, NoHistory, EmptyBag, SetToBag

-----------------------------------------------------------------------------
(* A history holds one copy of a time for each transaction that has not      *)
(* expired.  By induction on the transactions: of the sets of transactions   *)
(* that are miscounted, if there are any, one is minimal.                    *)

\* One copy of its time for each transaction of K.
CopiesOf(K, messages) ==
    UNION {{t} \X (1 .. Cardinality(At(t, K, messages))) : t \in {messages[i].event_time : i \in K}}

LEMMA CopyMembership ==
    ASSUME NEW messages, NEW K, IsFiniteSet(K), NEW t, NEW k
    PROVE  <<t, k>> \in CopiesOf(K, messages) <=> k \in 1 .. Cardinality(At(t, K, messages))
<1>1. CASE \E i \in K : messages[i].event_time = t
  BY <1>1 DEF CopiesOf
<1>2. CASE ~ \E i \in K : messages[i].event_time = t
  <2>1. At(t, K, messages) = {}
    BY <1>2 DEF At
  <2>2. 1 .. Cardinality(At(t, K, messages)) = {}
    BY <2>1, FS_EmptySet
  <2> QED
    BY <1>2, <2>2 DEF CopiesOf
<1> QED
  BY <1>1, <1>2

\* One transaction more is one copy more.
LEMMA OneMoreCopy ==
    ASSUME NEW messages, NEW K, IsFiniteSet(K), NEW i, i \notin K,
           IsFiniteSet(CopiesOf(K, messages))
    PROVE  /\ IsFiniteSet(CopiesOf(K \cup {i}, messages))
           /\ Cardinality(CopiesOf(K \cup {i}, messages)) = Cardinality(CopiesOf(K, messages)) + 1
<1> DEFINE L == K \cup {i}
           t == messages[i].event_time
           a == At(t, K, messages)
           n == Cardinality(a)
           C == CopiesOf(K, messages)
           D == CopiesOf(L, messages)
<1>1. IsFiniteSet(L)
  BY FS_AddElement
<1>2. IsFiniteSet(a) /\ i \notin a
  <2>1. a \subseteq K
    BY DEF At
  <2> QED
    BY <2>1, FS_Subset
<1>3. n \in Nat /\ Cardinality(a \cup {i}) = n + 1
  BY <1>2, FS_AddElement, FS_CardinalityType
<1>4. At(t, L, messages) = a \cup {i}
  BY DEF At
<1>5. \A u : u # t => At(u, L, messages) = At(u, K, messages)
  BY DEF At
<1>6. /\ \A p \in C : p = <<p[1], p[2]>>
      /\ \A p \in D : p = <<p[1], p[2]>>
  BY DEF CopiesOf
<1>7. /\ \A u, k : <<u, k>> \in C <=> k \in 1 .. Cardinality(At(u, K, messages))
      /\ \A u, k : <<u, k>> \in D <=> k \in 1 .. Cardinality(At(u, L, messages))
  BY <1>1, CopyMembership
<1> HIDE DEF C, D, L, a, t
<1>8. \A u, k : <<u, k>> \in D <=> <<u, k>> \in C \/ (u = t /\ k = n + 1)
  <2> SUFFICES ASSUME NEW u, NEW k
               PROVE  <<u, k>> \in D <=> <<u, k>> \in C \/ (u = t /\ k = n + 1)
    OBVIOUS
  <2>1. CASE u = t
    <3>1. 1 .. n + 1 = (1 .. n) \cup {n + 1}
      BY <1>3
    <3>2. <<u, k>> \in D <=> k \in 1 .. n + 1
      BY <1>3, <1>4, <1>7, <2>1
    <3>3. <<u, k>> \in C <=> k \in 1 .. n
      BY <1>7, <2>1 DEF a
    <3> QED
      BY <2>1, <3>1, <3>2, <3>3
  <2>2. CASE u # t
    BY <1>5, <1>7, <2>2
  <2> QED
    BY <2>1, <2>2
<1>9. D = C \cup {<<t, n + 1>>}
  BY <1>6, <1>8
<1>10. <<t, n + 1>> \notin C
  <2>1. n + 1 \notin 1 .. n
    BY <1>3
  <2> QED
    BY <1>7, <2>1 DEF a
<1>11. IsFiniteSet(C)
  BY DEF C
<1>12. IsFiniteSet(D) /\ Cardinality(D) = Cardinality(C) + 1
  BY <1>9, <1>10, <1>11, FS_AddElement
<1> QED
  BY <1>12 DEF C, D, L

\* A set of transactions is as large as the set of its copies.
Counted(K, messages) ==
    /\ IsFiniteSet(CopiesOf(K, messages))
    /\ Cardinality(CopiesOf(K, messages)) = Cardinality(K)

LEMMA EveryCopyCounts ==
    ASSUME NEW messages, NEW S, IsFiniteSet(S)
    PROVE  Counted(S, messages)
<1> SUFFICES ASSUME ~ Counted(S, messages)
             PROVE  FALSE
  OBVIOUS
<1> DEFINE Miscounted == {K \in SUBSET S : ~ Counted(K, messages)}
<1>1. IsWellFoundedOn(StrictSubsetOrdering(S), SUBSET S)
  BY FS_StrictSubsetOrderingWellFounded, FS_FiniteSubsetsOfFinite
<1>2. S \in Miscounted
  OBVIOUS
<1>3. \E K \in Miscounted : \A L \in Miscounted : <<L, K>> \notin StrictSubsetOrdering(S)
  <2>1. Miscounted \subseteq SUBSET S /\ Miscounted # {}
    BY <1>2
  <2> HIDE DEF Miscounted
  <2> QED
    BY <1>1, <2>1, WFMin
<1>4. PICK K \in Miscounted :
         \A L \in Miscounted : <<L, K>> \notin StrictSubsetOrdering(S)
  BY <1>3
<1>5. K \subseteq S /\ IsFiniteSet(K) /\ ~ Counted(K, messages)
  BY FS_Subset
<1>6. CASE K = {}
  <2>1. CopiesOf(K, messages) = {}
    BY <1>6 DEF CopiesOf
  <2> QED
    BY <1>5, <1>6, <2>1, FS_EmptySet DEF Counted
<1>7. CASE K # {}
  <2>1. PICK i \in K : TRUE
    BY <1>7
  <2> DEFINE L == K \ {i}
  <2>2. L \subseteq S /\ L \subseteq K /\ L # K /\ K = L \cup {i} /\ i \notin L
    BY <1>5, <2>1
  <2>3. IsFiniteSet(L)
    BY <1>5, FS_RemoveElement
  <2> HIDE DEF L
  <2>4. Counted(L, messages)
    <3>1. <<L, K>> \in StrictSubsetOrdering(S)
      BY <1>5, <2>2 DEF StrictSubsetOrdering
    <3>2. L \notin Miscounted
      BY <1>4, <3>1
    <3> QED
      BY <2>2, <3>2
  <2>5. /\ IsFiniteSet(CopiesOf(K, messages))
        /\ Cardinality(CopiesOf(K, messages)) = Cardinality(CopiesOf(L, messages)) + 1
    BY <2>2, <2>3, <2>4, OneMoreCopy DEF Counted
  <2>6. Cardinality(K) = Cardinality(L) + 1
    BY <2>2, <2>3, FS_AddElement
  <2>7. Counted(K, messages)
    BY <2>4, <2>5, <2>6 DEF Counted
  <2> QED
    BY <1>5, <2>7
<1> QED
  BY <1>6, <1>7

\* What a snapshot counts: the transactions that have not expired.
LEMMA CopiesOfHistory ==
    ASSUME NEW V, NEW messages \in Seq(V), NEW c
    PROVE  Cardinality(Copies(History(c, messages).event_times))
              = Cardinality(Unexpired(c, messages))
<1> DEFINE kept == Unexpired(c, messages)
           B == History(c, messages).event_times
<1>1. IsFiniteSet(kept)
  BY OwnType
<1>2. /\ DOMAIN B = {messages[i].event_time : i \in kept}
      /\ \A t \in DOMAIN B : B[t] = Cardinality(At(t, kept, messages))
  BY HistoryTimes
<1> HIDE DEF B, kept
<1>3. Copies(B) = CopiesOf(kept, messages)
  BY <1>2 DEF Copies, CopiesOf
<1>4. Cardinality(CopiesOf(kept, messages)) = Cardinality(kept)
  BY <1>1, EveryCopyCounts DEF Counted
<1> QED
  BY <1>3, <1>4 DEF B, kept

\* Every time in a history is there at least once.
LEMMA HistoryType ==
    ASSUME NEW V, NEW messages \in Seq(V), NEW c
    PROVE  /\ IsABag(History(c, messages).event_times)
           /\ DOMAIN History(c, messages).event_times \subseteq {e.event_time : e \in Events}
           /\ History(c, messages).device_ids \subseteq {e.device_id : e \in Events}
           /\ History(c, messages).country_codes \subseteq {e.country_code : e \in Events}
<1> DEFINE kept == Unexpired(c, messages)
           B == History(c, messages).event_times
<1>1. /\ IsFiniteSet(kept) /\ kept \subseteq Own(c, messages)
      /\ \A i \in Own(c, messages) : messages[i] \in Events
  BY OwnType
<1>2. /\ DOMAIN B = {messages[i].event_time : i \in kept}
      /\ \A t \in DOMAIN B : B[t] = Cardinality(At(t, kept, messages))
  BY HistoryTimes
<1>3. B = [t \in DOMAIN B |-> B[t]]
  BY DEF History
<1> HIDE DEF B, kept
<1>4. ASSUME NEW t \in DOMAIN B
      PROVE  B[t] \in Nat /\ B[t] > 0
  <2>1. At(t, kept, messages) \subseteq kept /\ At(t, kept, messages) # {}
    BY <1>2 DEF At
  <2>2. /\ IsFiniteSet(At(t, kept, messages))
        /\ Cardinality(At(t, kept, messages)) \in Nat
        /\ Cardinality(At(t, kept, messages)) # 0
    BY <1>1, <2>1, FS_Subset, FS_CardinalityType, FS_EmptySet
  <2> QED
    BY <1>2, <2>2
<1>5. IsABag(B)
  BY <1>3, <1>4 DEF IsABag
<1>6. DOMAIN B \subseteq {e.event_time : e \in Events}
  BY <1>1, <1>2
<1>7. /\ History(c, messages).device_ids \subseteq {e.device_id : e \in Events}
      /\ History(c, messages).country_codes \subseteq {e.country_code : e \in Events}
  BY <1>1 DEF History
<1> QED
  BY <1>5, <1>6, <1>7 DEF B
=============================================================================
