------------------------ MODULE TransactionApiProofs ------------------------
(***************************************************************************)
(* The answers of the transaction API, for any number of transactions and  *)
(* request threads and any limit of the queue: a 503 can be retried, a 202 *)
(* is accounted for.                                                       *)
(***************************************************************************)
EXTENDS TransactionApi, FiniteSetTheorems, TLAPS

\* What a thread serves, by the stage it is at.
LEMMA ServingType ==
    ASSUME TypeOK, NEW h \in Threads, NEW s \in Stages, request[h].stage = s
    PROVE  \E t \in Transactions : request[h] = [stage |-> s, transaction |-> t]
<1>1. request[h] # Idle
  BY DEF Idle, Stages
<1>2. PICK t \in Transactions : request[h] \in Serving(t)
  BY <1>1 DEF TypeOK
<1> QED
  BY <1>2 DEF Serving, Stages

LEMMA ServingOne ==
    ASSUME NEW t, NEW u, NEW s \in Stages, [stage |-> s, transaction |-> t] \in Serving(u)
    PROVE  t = u
BY DEF Serving

LEMMA IdleServesNone == ASSUME NEW t PROVE Idle \notin Serving(t)
BY DEF Idle, Serving, Stages

\* A thread that moves between requests for other transactions leaves u alone.
LEMMA OthersUntouched ==
    ASSUME TypeOK, NEW h \in Threads, NEW r, request' = [request EXCEPT ![h] = r],
           NEW u \in Transactions, request[h] \notin Serving(u), r \notin Serving(u)
    PROVE  InService(u)' = InService(u) /\ AtPoll(u)' = AtPoll(u)
<1>1. \A k \in Threads : request'[k] = IF k = h THEN r ELSE request[k]
  BY DEF TypeOK
<1>2. [stage |-> "poll", transaction |-> u] \in Serving(u)
  BY DEF Serving, Stages
<1> QED
  BY <1>1, <1>2 DEF InService, AtPoll

\* One server per transaction, when the thread's new request is its own.
LEMMA OneServerKept ==
    ASSUME TypeOK, OneServer, NEW h \in Threads, NEW r,
           request' = [request EXCEPT ![h] = r],
           \A t \in Transactions : r \in Serving(t) =>
              request[h] \in Serving(t) \/ ~ InService(t)
    PROVE  OneServer'
<1>1. \A k \in Threads : request'[k] = IF k = h THEN r ELSE request[k]
  BY DEF TypeOK
<1> QED
  BY <1>1 DEF OneServer, InService

\* A transaction keeps its books while its request, its records and its answer do.
LEMMA BooksKept ==
    ASSUME NEW u \in Transactions,
           IF answer[u] = "accepted" THEN ~ InService(u) ELSE NotYetAccepted(u),
           InService(u)' = InService(u), AtPoll(u)' = AtPoll(u),
           answer'[u] = answer[u], ingested'[u] = ingested[u], exits' = exits,
           (u \in waiting') = (u \in waiting), (u \in undelivered') = (u \in undelivered)
    PROVE  IF answer'[u] = "accepted" THEN ~ InService(u)' ELSE NotYetAccepted(u)'
BY DEF NotYetAccepted

LEMMA InitInv == Init => ApiInv
<1> SUFFICES ASSUME Init PROVE ApiInv
  OBVIOUS
<1>1. IsFiniteSet(waiting) /\ Outstanding = 0
  BY FS_EmptySet DEF Init, Outstanding
<1>2. TypeOK
  BY <1>1, QueueLimitAssumption, MaxExitsAssumption DEF Init, TypeOK
<1>3. \A t \in Transactions : ~ InService(t) /\ ~ AtPoll(t)
  BY IdleServesNone DEF Init, InService, AtPoll, Serving, Stages
<1>4. OneServer
  BY <1>3 DEF OneServer, InService
<1>5. Bookkeeping /\ AcceptedIsAccountedFor
  BY <1>3 DEF Init, Bookkeeping, NotYetAccepted, AcceptedIsAccountedFor
<1> QED
  BY <1>1, <1>2, <1>4, <1>5 DEF ApiInv

\* A new request is for a transaction nobody serves.
LEMMA SubmitKeepsInv ==
    ASSUME ApiInv, NEW h \in Threads, NEW t \in Transactions, Submit(h, t)
    PROVE  ApiInv'
<1> DEFINE r == [stage |-> "produce", transaction |-> t]
<1>1. /\ request[h] = Idle /\ ~ InService(t) /\ answer[t] # "accepted"
      /\ request' = [request EXCEPT ![h] = r]
      /\ UNCHANGED <<waiting, unread, api, ingested, answer, undelivered, exits>>
  BY DEF Submit
<1>2. r \in Serving(t) /\ \A u \in Transactions : r \in Serving(u) => u = t
  BY ServingOne DEF Serving, Stages
<1> HIDE DEF r
<1>3. \A k \in Threads : request'[k] = IF k = h THEN r ELSE request[k]
  BY <1>1 DEF ApiInv, TypeOK
<1>4. TypeOK'
  BY <1>1, <1>2, <1>3 DEF ApiInv, TypeOK, Outstanding
<1>5. OneServer'
  BY <1>1, <1>2, OneServerKept DEF ApiInv
<1>6. ASSUME NEW u \in Transactions
      PROVE  IF answer'[u] = "accepted" THEN ~ InService(u)' ELSE NotYetAccepted(u)'
  <2>1. CASE u # t
    <3>1. InService(u)' = InService(u) /\ AtPoll(u)' = AtPoll(u)
      BY <1>1, <1>2, <2>1, OthersUntouched, IdleServesNone DEF ApiInv
    <3> QED
      BY <1>1, <3>1, BooksKept DEF ApiInv, Bookkeeping
  <2>2. CASE u = t
    <3>1. ~ AtPoll(t) /\ ~ AtPoll(t)'
      BY <1>1, <1>3 DEF AtPoll, InService, Serving, Stages, r
    <3> QED
      BY <1>1, <2>2, <3>1 DEF ApiInv, Bookkeeping, NotYetAccepted
  <2> QED
    BY <2>1, <2>2
<1> QED
  BY <1>1, <1>4, <1>5, <1>6 DEF ApiInv, Bookkeeping, AcceptedIsAccountedFor

\* produce puts a record into the queue that was not there.
LEMMA ProduceKeepsInv ==
    ASSUME ApiInv, NEW h \in Threads, Produce(h)
    PROVE  ApiInv'
<1>1. PICK t \in Transactions : request[h] = [stage |-> "produce", transaction |-> t]
  BY ServingType DEF ApiInv, Produce, Stages
<1> DEFINE r == [stage |-> "poll", transaction |-> t]
<1>2. /\ Outstanding < QueueLimit
      /\ waiting' = waiting \cup {t}
      /\ request' = [request EXCEPT ![h] = r]
      /\ UNCHANGED <<unread, api, ingested, answer, undelivered, exits>>
  <2>1. [request[h] EXCEPT !.stage = "poll"] = r
    BY <1>1
  <2>2. request[h].transaction = t
    BY <1>1
  <2>3. request' = [request EXCEPT ![h] = [request[h] EXCEPT !.stage = "poll"]]
    BY DEF Produce
  <2> QED
    BY <2>1, <2>2, <2>3 DEF Produce
<1>3. /\ r \in Serving(t) /\ request[h] \in Serving(t)
      /\ \A u \in Transactions : u # t => r \notin Serving(u) /\ request[h] \notin Serving(u)
  BY <1>1, ServingOne DEF Serving, Stages
<1>4. \A k \in Threads : request'[k] = IF k = h THEN r ELSE request[k]
  BY <1>2 DEF ApiInv, TypeOK
<1>5. InService(t) /\ AtPoll(t)'
  BY <1>3, <1>4 DEF InService, AtPoll
<1>6. ~ AtPoll(t)
  <2>1. ASSUME NEW k \in Threads, request[k] = [stage |-> "poll", transaction |-> t]
        PROVE  FALSE
    <3>1. request[k] \in Serving(t)
      BY <2>1 DEF Serving, Stages
    <3>2. k = h
      BY <1>3, <3>1 DEF ApiInv, OneServer
    <3> QED
      BY <1>1, <2>1, <3>2
  <2> QED
    BY <2>1 DEF AtPoll
<1> HIDE DEF r
<1>7. IsFiniteSet(waiting') /\ Outstanding' <= QueueLimit
  <2>1. /\ IsFiniteSet(waiting \cup {t})
        /\ Cardinality(waiting \cup {t}) <= Cardinality(waiting) + 1
        /\ Cardinality(waiting \cup {t}) \in Nat /\ Cardinality(waiting) \in Nat
    <3>1. IsFiniteSet(waiting)
      BY DEF ApiInv
    <3>2. /\ IsFiniteSet(waiting \cup {t})
          /\ Cardinality(waiting \cup {t}) =
                IF t \in waiting THEN Cardinality(waiting) ELSE Cardinality(waiting) + 1
      BY <3>1, FS_AddElement
    <3>3. Cardinality(waiting) \in Nat
      BY <3>1, FS_CardinalityType
    <3> QED
      BY <3>2, <3>3
  <2>2. unread \in Nat
    BY DEF ApiInv, TypeOK
  <2> QED
    BY <1>2, <2>1, <2>2, QueueLimitAssumption DEF Outstanding
<1>8. TypeOK'
  BY <1>2, <1>3, <1>4, <1>7 DEF ApiInv, TypeOK
<1>9. OneServer'
  BY <1>2, <1>3, OneServerKept DEF ApiInv
<1>10. ASSUME NEW u \in Transactions
       PROVE  IF answer'[u] = "accepted" THEN ~ InService(u)' ELSE NotYetAccepted(u)'
  <2>1. CASE u # t
    <3>1. InService(u)' = InService(u) /\ AtPoll(u)' = AtPoll(u)
      BY <1>2, <1>3, <2>1, OthersUntouched DEF ApiInv
    <3> QED
      BY <1>2, <2>1, <3>1, BooksKept DEF ApiInv, Bookkeeping
  <2>2. CASE u = t
    <3>1. answer[t] # "accepted" /\ ingested[t] <= exits
      BY <1>5, <1>6 DEF ApiInv, Bookkeeping, NotYetAccepted
    <3>2. ingested[t] \in Nat /\ exits \in Nat
      BY DEF ApiInv, TypeOK
    <3> QED
      BY <1>2, <1>5, <2>2, <3>1, <3>2 DEF NotYetAccepted
  <2> QED
    BY <2>1, <2>2
<1>11. AcceptedIsAccountedFor'
  BY <1>2 DEF ApiInv, AcceptedIsAccountedFor
<1> QED
  BY <1>7, <1>8, <1>9, <1>10, <1>11 DEF ApiInv, Bookkeeping

\* An answer ends the request.  A 503 is given before the record went into the
\* queue, a 202 after it.
LEMMA AnswerKeepsInv ==
    ASSUME ApiInv, NEW h \in Threads, Refuse(h) \/ Poll(h)
    PROVE  ApiInv'
<1>1. PICK t \in Transactions, s \in Stages : request[h] = [stage |-> s, transaction |-> t]
  <2>1. request[h].stage \in Stages
    BY DEF Refuse, Poll, Stages
  <2> QED
    BY <2>1, ServingType DEF ApiInv
<1>2. PICK a \in {"accepted", "rejected"} :
         /\ s = "poll" <=> a = "accepted"
         /\ answer' = [answer EXCEPT ![t] = a]
         /\ request' = [request EXCEPT ![h] = Idle]
         /\ unread' \in {unread, 0}
         /\ UNCHANGED <<waiting, api, ingested, undelivered, exits>>
  BY <1>1 DEF Refuse, Poll, Answer, Stages
<1>3. /\ request[h] \in Serving(t)
      /\ \A u \in Transactions : u # t => request[h] \notin Serving(u)
  <2>1. request[h] \in Serving(t)
    BY <1>1 DEF Serving
  <2>2. ASSUME NEW u \in Transactions, request[h] \in Serving(u) PROVE u = t
    BY <1>1, <2>2, ServingOne
  <2> QED
    BY <2>1, <2>2
<1>4. \A k \in Threads : request'[k] = IF k = h THEN Idle ELSE request[k]
  BY <1>2 DEF ApiInv, TypeOK
<1>5. /\ InService(t) /\ ~ InService(t)' /\ ~ AtPoll(t)'
      /\ AtPoll(t) <=> s = "poll"
  <2>1. \A k \in Threads : request[k] \in Serving(t) => k = h
    BY <1>3 DEF ApiInv, OneServer
  <2>2. [stage |-> "poll", transaction |-> t] \in Serving(t)
    BY DEF Serving, Stages
  <2>3. AtPoll(t) <=> s = "poll"
    BY <1>1, <2>1, <2>2 DEF AtPoll
  <2> QED
    BY <1>3, <1>4, <2>1, <2>2, <2>3, IdleServesNone DEF InService, AtPoll
<1>6. TypeOK'
  <2>1. Outstanding' <= QueueLimit
    <3>1. Cardinality(waiting) \in Nat /\ unread \in Nat
      BY FS_CardinalityType DEF ApiInv, TypeOK
    <3> QED
      BY <1>2, <3>1, QueueLimitAssumption DEF ApiInv, TypeOK, Outstanding
  <2> QED
    BY <1>2, <1>4, <2>1 DEF ApiInv, TypeOK
<1>7. OneServer'
  BY <1>2, OneServerKept, IdleServesNone DEF ApiInv
<1>8. \A u \in Transactions : answer'[u] = IF u = t THEN a ELSE answer[u]
  BY <1>2 DEF ApiInv, TypeOK
<1>9. answer[t] # "accepted" /\ NotYetAccepted(t)
  BY <1>5 DEF ApiInv, Bookkeeping
<1>10. ASSUME NEW u \in Transactions
       PROVE  IF answer'[u] = "accepted" THEN ~ InService(u)' ELSE NotYetAccepted(u)'
  <2>1. CASE u # t
    <3>1. InService(u)' = InService(u) /\ AtPoll(u)' = AtPoll(u)
      BY <1>2, <1>3, <2>1, OthersUntouched, IdleServesNone DEF ApiInv
    <3> QED
      BY <1>2, <1>8, <2>1, <3>1, BooksKept DEF ApiInv, Bookkeeping
  <2>2. CASE u = t
    BY <1>2, <1>5, <1>8, <1>9, <2>2 DEF NotYetAccepted
  <2> QED
    BY <2>1, <2>2
<1>11. AcceptedIsAccountedFor'
  BY <1>2, <1>5, <1>8, <1>9 DEF ApiInv, AcceptedIsAccountedFor, NotYetAccepted
<1> QED
  BY <1>2, <1>6, <1>7, <1>10, <1>11 DEF ApiInv, Bookkeeping

\* The broker's answer: the record leaves the queue, and with an error report it
\* is undelivered.
LEMMA BrokerKeepsInv == ASSUME ApiInv, Broker PROVE ApiInv'
<1>1. PICK t \in Transactions : Deliver(t) \/ Expire(t)
  BY DEF Broker
<1>2. PICK n \in {0, 1} :
         /\ t \in waiting /\ waiting' = waiting \ {t}
         /\ ingested' = [u \in Transactions |-> IF u = t THEN ingested[u] + n ELSE ingested[u]]
         /\ \/ n = 1 /\ undelivered' = undelivered
            \/ undelivered' = undelivered \cup {t}
         /\ unread' \in {unread, unread + 1}
         /\ UNCHANGED <<request, api, answer, exits>>
  <2>1. CASE Deliver(t)
    BY <2>1 DEF Deliver, Report, Ingested
  <2>2. CASE Expire(t)
    <3>1. PICK S \in {{}, {t}} : ingested' = Ingested(S)
      BY <2>2 DEF Expire
    <3>2. CASE S = {}
      <4>1. ingested' = [u \in Transactions |-> IF u = t THEN ingested[u] + 0 ELSE ingested[u]]
        BY <3>1, <3>2 DEF Ingested, ApiInv, TypeOK
      <4> QED
        BY <2>2, <4>1 DEF Expire, Report
    <3>3. CASE S = {t}
      <4>1. ingested' = [u \in Transactions |-> IF u = t THEN ingested[u] + 1 ELSE ingested[u]]
        BY <3>1, <3>3 DEF Ingested
      <4> QED
        BY <2>2, <4>1 DEF Expire, Report
    <3> QED
      BY <3>1, <3>2, <3>3
  <2> QED
    BY <1>1, <2>1, <2>2
<1>3. /\ ingested' \in [Transactions -> Nat]
      /\ \A u \in Transactions : ingested[u] \in Nat
      /\ exits \in Nat
  BY <1>2 DEF ApiInv, TypeOK
<1>4. IsFiniteSet(waiting') /\ Outstanding' <= QueueLimit
  <2>1. /\ IsFiniteSet(waiting \ {t})
        /\ Cardinality(waiting \ {t}) = Cardinality(waiting) - 1
        /\ Cardinality(waiting) \in Nat
    BY <1>2, FS_RemoveElement, FS_CardinalityType DEF ApiInv
  <2>2. unread \in Nat /\ Outstanding <= QueueLimit
    BY DEF ApiInv, TypeOK
  <2> QED
    BY <1>2, <2>1, <2>2, QueueLimitAssumption DEF Outstanding
<1>5. TypeOK'
  BY <1>2, <1>3, <1>4 DEF ApiInv, TypeOK
<1>6. OneServer' /\ \A u \in Transactions : InService(u)' = InService(u) /\ AtPoll(u)' = AtPoll(u)
  BY <1>2 DEF ApiInv, OneServer, InService, AtPoll
<1>7. Bookkeeping' /\ AcceptedIsAccountedFor'
  BY <1>2, <1>3, <1>6 DEF ApiInv, Bookkeeping, NotYetAccepted, AcceptedIsAccountedFor
<1> QED
  BY <1>4, <1>5, <1>6, <1>7 DEF ApiInv

\* An exit turns the queue into undelivered records, some of them written.
LEMMA ExitKeepsInv == ASSUME ApiInv, Exit PROVE ApiInv'
<1>1. PICK S \in SUBSET waiting : ingested' = Ingested(S)
  BY DEF Exit
<1>2. /\ exits < MaxExits /\ exits' = exits + 1 /\ api' = "down"
      /\ undelivered' = undelivered \cup waiting
      /\ waiting' = {} /\ unread' = 0 /\ request' = [h \in Threads |-> Idle]
      /\ UNCHANGED answer
  BY DEF Exit
<1>3. /\ \A u \in Transactions : ingested[u] \in Nat
      /\ \A u \in Transactions : ingested'[u] = IF u \in S THEN ingested[u] + 1 ELSE ingested[u]
      /\ ingested' \in [Transactions -> Nat]
      /\ exits \in Nat
  BY <1>1 DEF Ingested, ApiInv, TypeOK
<1>4. IsFiniteSet(waiting') /\ Outstanding' = 0
  BY <1>2, FS_EmptySet DEF Outstanding
<1>5. TypeOK'
  BY <1>2, <1>3, <1>4, QueueLimitAssumption, MaxExitsAssumption DEF ApiInv, TypeOK
<1>6. \A u \in Transactions : ~ InService(u)' /\ ~ AtPoll(u)'
  BY <1>2, IdleServesNone DEF InService, AtPoll, Idle
<1>7. OneServer'
  BY <1>2, IdleServesNone DEF OneServer
<1>8. Bookkeeping'
  BY <1>1, <1>2, <1>3, <1>6 DEF ApiInv, Bookkeeping, NotYetAccepted
<1>9. AcceptedIsAccountedFor'
  BY <1>1, <1>2, <1>3 DEF ApiInv, AcceptedIsAccountedFor
<1> QED
  BY <1>4, <1>5, <1>7, <1>8, <1>9 DEF ApiInv

\* SIGTERM, the start of close() and a restart touch no request and no record.
LEMMA ProcessKeepsInv ==
    ASSUME ApiInv,
           UNCHANGED <<request, waiting, ingested, answer, undelivered, exits>>,
           unread' \in {unread, 0}, api' \in {api, "draining", "closing", "up"}
    PROVE  ApiInv'
<1>1. TypeOK'
  <2>1. Cardinality(waiting) \in Nat /\ unread \in Nat
    BY FS_CardinalityType DEF ApiInv, TypeOK
  <2>2. Outstanding' <= QueueLimit
    BY <2>1, QueueLimitAssumption DEF ApiInv, TypeOK, Outstanding
  <2> QED
    BY <2>2 DEF ApiInv, TypeOK
<1>2. OneServer' /\ AcceptedIsAccountedFor'
  BY DEF ApiInv, OneServer, AcceptedIsAccountedFor
<1>3. Bookkeeping'
  BY DEF ApiInv, Bookkeeping, NotYetAccepted, InService, AtPoll
<1> QED
  BY <1>1, <1>2, <1>3 DEF ApiInv

LEMMA NextKeepsInv == ApiInv /\ [Next]_vars => ApiInv'
<1> SUFFICES ASSUME ApiInv, [Next]_vars PROVE ApiInv'
  OBVIOUS
<1>1. CASE \E h \in Threads, t \in Transactions : Submit(h, t)
  BY <1>1, SubmitKeepsInv
<1>2. CASE \E h \in Threads : ThreadStep(h)
  BY <1>2, ProduceKeepsInv, AnswerKeepsInv DEF ThreadStep
<1>3. CASE Broker
  BY <1>3, BrokerKeepsInv
<1>4. CASE Closed \/ Crash
  BY <1>4, ExitKeepsInv DEF Closed, Crash
<1>5. CASE Terminate \/ StartClosing \/ Restart \/ UNCHANGED vars
  BY <1>5, ProcessKeepsInv DEF Terminate, StartClosing, Restart, vars
<1> QED
  BY <1>1, <1>2, <1>3, <1>4, <1>5 DEF Next

-----------------------------------------------------------------------------
(* The theorems. *)

\* The books of the API balance in every reachable state.
THEOREM Invariance == Spec => []ApiInv
  BY InitInv, NextKeepsInv, PTL DEF Spec

\* The variables keep their types, and the queue its limit.
THEOREM TypeCorrect == Spec => []TypeOK
<1>1. ApiInv => TypeOK
  BY DEF ApiInv
<1> QED
  BY <1>1, Invariance, PTL

\* messaging.py:30-42 raises before the record is queued: a caller may repeat a
\* 503 without writing its transaction twice, exits aside.
THEOREM RefusedIsNotIngested == Spec => []RetriesAreSafe
<1>1. ApiInv => RetriesAreSafe
  <2> SUFFICES ASSUME ApiInv, NEW t \in Transactions, answer[t] # "accepted", ~ InService(t)
               PROVE  ingested[t] <= exits /\ t \notin waiting
    BY DEF RetriesAreSafe
  <2>1. ~ AtPoll(t)
    BY DEF AtPoll, InService, Serving, Stages
  <2> QED
    BY <2>1 DEF ApiInv, Bookkeeping, NotYetAccepted
<1> QED
  BY <1>1, Invariance, PTL

\* An accepted transaction is in the topic or in the queue, or a delivery timeout
\* or an exit has lost it: nothing else can.
THEOREM NothingElseLoses == Spec => []AcceptedIsAccountedFor
<1>1. ApiInv => AcceptedIsAccountedFor
  BY DEF ApiInv
<1> QED
  BY <1>1, Invariance, PTL
=============================================================================
