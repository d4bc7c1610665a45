--------------------------- MODULE TransactionApi ---------------------------
(***************************************************************************)
(* The transaction API (api.py) and its publisher (messaging.py): request  *)
(* threads share one producer, whose bounded queue holds every record that *)
(* was produced and whose delivery report nobody has polled yet.           *)
(*                                                                         *)
(* The producer's client library and the broker are external, and so are   *)
(* the callers: one that got a 503, or no answer because the process       *)
(* exited, may submit its transaction again.                               *)
(***************************************************************************)
EXTENDS Integers, FiniteSets

CONSTANTS
    Transactions,   \* the transactions the callers want to submit
    Threads,        \* the threads that serve requests
    QueueLimit,     \* queue.buffering.max.messages of the producer
    ClientErrors,   \* produce may raise a KafkaException as well
    MaxExits        \* bound: process exits

ASSUME QueueLimitAssumption == QueueLimit \in Nat \ {0}
ASSUME ClientErrorsAssumption == ClientErrors \in BOOLEAN
ASSUME MaxExitsAssumption == MaxExits \in Nat

VARIABLES
    request,    \* request[h]: what thread h is serving
    waiting,    \* the transactions produced but not yet answered by the broker
    unread,     \* the number of delivery reports no poll has served
    api,        \* "up", "draining" (SIGTERM received), "closing" or "down"
    ingested,   \* ingested[t]: records of t in transactions.raw
    answer,     \* answer[t]: the last answer to the caller of t (history)
    undelivered,\* transactions dropped with an error report or an exit (history)
    exits       \* how often the process exited (bounded by MaxExits)

vars == <<request, waiting, unread, api, ingested, answer, undelivered, exits>>

Idle == [stage |-> "idle"]
Stages == {"produce", "poll"}
Serving(t) == {[stage |-> s, transaction |-> t] : s \in Stages}

InService(t) == \E h \in Threads : request[h] \in Serving(t)

\* What counts against the queue's limit.
Outstanding == Cardinality(waiting) + unread

Init ==
    /\ request = [h \in Threads |-> Idle]
    /\ waiting = {}
    /\ unread = 0
    /\ api = "up"
    /\ ingested = [t \in Transactions |-> 0]
    /\ answer = [t \in Transactions |-> "none"]
    /\ undelivered = {}
    /\ exits = 0

-----------------------------------------------------------------------------
(* POST /transactions. *)

Submit(h, t) ==
    /\ api = "up"
    /\ request[h] = Idle
    /\ ~ InService(t)
    /\ answer[t] # "accepted"
    /\ request' = [request EXCEPT ![h] = [stage |-> "produce", transaction |-> t]]
    /\ UNCHANGED <<waiting, unread, api, ingested, answer, undelivered, exits>>

\* submit_transaction returns: 202 or 503.
Answer(h, a) ==
    /\ answer' = [answer EXCEPT ![request[h].transaction] = a]
    /\ request' = [request EXCEPT ![h] = Idle]

\* Wrong: the limit is not looked at.
ProduceAnyway(h) ==
    /\ request[h].stage = "produce"
    /\ waiting' = waiting \cup {request[h].transaction}
    /\ request' = [request EXCEPT ![h].stage = "poll"]
    /\ UNCHANGED <<unread, api, ingested, answer, undelivered, exits>>

\* publish: produce puts the record into the queue.
Produce(h) ==
    /\ request[h].stage = "produce"
    /\ Outstanding < QueueLimit
    /\ waiting' = waiting \cup {request[h].transaction}
    /\ request' = [request EXCEPT ![h].stage = "poll"]
    /\ UNCHANGED <<unread, api, ingested, answer, undelivered, exits>>

\* Wrong: the BufferError is swallowed.
BufferErrorSwallowed(h) ==
    /\ request[h].stage = "produce"
    /\ Outstanding >= QueueLimit \/ ClientErrors
    /\ Answer(h, "accepted")
    /\ UNCHANGED <<waiting, unread, api, ingested, undelivered, exits>>

\* Wrong: the error comes after the record went into the queue.
RefuseAfterProduce(h) ==
    /\ request[h].stage = "produce"
    /\ Outstanding < QueueLimit
    /\ waiting' = waiting \cup {request[h].transaction}
    /\ Answer(h, "rejected")
    /\ UNCHANGED <<unread, api, ingested, undelivered, exits>>

\* publish: produce raises BufferError or KafkaException.  The caller gets a
\* 503, and the poll(0) after produce is not reached.
Refuse(h) ==
    /\ request[h].stage = "produce"
    /\ Outstanding >= QueueLimit \/ ClientErrors
    /\ Answer(h, "rejected")
    /\ UNCHANGED <<waiting, unread, api, ingested, undelivered, exits>>

\* Wrong: publish waits for the delivery of what it produced.
PollWaits(h) ==
    /\ request[h].stage = "poll"
    /\ request[h].transaction \notin waiting
    /\ unread' = 0
    /\ Answer(h, "accepted")
    /\ UNCHANGED <<waiting, api, ingested, undelivered, exits>>

\* publish: poll(0) serves the reports that are there, and waits for none.
\* _on_delivery writes a log line; the caller gets a 202.
Poll(h) ==
    /\ request[h].stage = "poll"
    /\ unread' = 0
    /\ Answer(h, "accepted")
    /\ UNCHANGED <<waiting, api, ingested, undelivered, exits>>

-----------------------------------------------------------------------------
(* The client library and the broker. *)

Ingested(S) == [t \in Transactions |-> IF t \in S THEN ingested[t] + 1 ELSE ingested[t]]

\* flush serves the reports itself.
Report == unread' = IF api = "closing" THEN unread ELSE unread + 1

\* All replicas have the record; its report is due.
Deliver(t) ==
    /\ t \in waiting
    /\ waiting' = waiting \ {t}
    /\ ingested' = Ingested({t})
    /\ Report
    /\ UNCHANGED <<request, api, answer, undelivered, exits>>

\* delivery.timeout.ms passed: an error report, although the record may have
\* been written.
Expire(t) ==
    /\ t \in waiting
    /\ waiting' = waiting \ {t}
    /\ \E S \in {{}, {t}} : ingested' = Ingested(S)
    /\ undelivered' = undelivered \cup {t}
    /\ Report
    /\ UNCHANGED <<request, api, answer, exits>>

-----------------------------------------------------------------------------
(* The process. *)

\* SIGTERM: the server takes no new requests and finishes those it has ...
Terminate ==
    /\ api = "up"
    /\ exits < MaxExits
    /\ api' = "draining"
    /\ UNCHANGED <<request, waiting, unread, ingested, answer, undelivered, exits>>

\* ... then the lifespan ends and close() flushes.
StartClosing ==
    /\ api = "draining"
    /\ \A h \in Threads : request[h] = Idle
    /\ api' = "closing"
    /\ unread' = 0
    /\ UNCHANGED <<request, waiting, ingested, answer, undelivered, exits>>

\* The process is gone, with its queue: of the records without an answer some
\* were on the wire and are written, the others are lost.
Exit ==
    /\ exits < MaxExits
    /\ exits' = exits + 1
    /\ api' = "down"
    /\ \E S \in SUBSET waiting : ingested' = Ingested(S)
    /\ undelivered' = undelivered \cup waiting
    /\ waiting' = {}
    /\ unread' = 0
    /\ request' = [h \in Threads |-> Idle]
    /\ UNCHANGED answer

\* flush(10) is over; with records left close() only writes a log line.
Closed == api = "closing" /\ Exit

Crash == api # "down" /\ Exit

Restart ==
    /\ api = "down"
    /\ api' = "up"
    /\ UNCHANGED <<request, waiting, unread, ingested, answer, undelivered, exits>>

-----------------------------------------------------------------------------
ThreadStep(h) == Produce(h) \/ Refuse(h) \/ Poll(h)

Broker == \E t \in Transactions : Deliver(t) \/ Expire(t)

Next ==
    \/ \E h \in Threads, t \in Transactions : Submit(h, t)
    \/ \E h \in Threads : ThreadStep(h)
    \/ Broker
    \/ Terminate
    \/ StartClosing
    \/ Closed
    \/ Crash
    \/ Restart

Spec == Init /\ [][Next]_vars

\* A thread goes on with its request: neither produce nor poll(0) waits.
FairSpec == Spec /\ \A h \in Threads : WF_vars(ThreadStep(h))

\* Callers that retry, and a client that answers for every record: within ten
\* seconds it is delivered or expires.
RetryingSpec ==
    /\ FairSpec
    /\ WF_vars(Broker)
    /\ \A t \in Transactions : SF_vars(\E h \in Threads : Submit(h, t))

-----------------------------------------------------------------------------
(* Properties. *)

\* Types; the queue is never over its limit, and a record waits in it only for
\* a thread that is about to answer 202 or after that answer.
TypeOK ==
    /\ DOMAIN request = Threads
    /\ \A h \in Threads : request[h] = Idle \/ \E t \in Transactions : request[h] \in Serving(t)
    /\ waiting \subseteq Transactions
    /\ unread \in Nat
    /\ Outstanding <= QueueLimit
    /\ api \in {"up", "draining", "closing", "down"}
    /\ ingested \in [Transactions -> Nat]
    /\ answer \in [Transactions -> {"none", "accepted", "rejected"}]
    /\ undelivered \subseteq Transactions
    /\ exits \in 0 .. MaxExits

\* A 503 is safe to retry: a transaction has a record for its 202 at most, and
\* one more only for a process exit that swallowed an answer.
RetriesAreSafe ==
    \A t \in Transactions :
       answer[t] # "accepted" /\ ~ InService(t)
          => ingested[t] <= exits /\ t \notin waiting

\* A 202 is lost only with a delivery timeout or an exit of the process, and
\* both leave it among the undelivered.
AcceptedIsAccountedFor ==
    \A t \in Transactions :
       answer[t] = "accepted" => ingested[t] > 0 \/ t \in waiting \cup undelivered

AtPoll(t) == \E h \in Threads : request[h] = [stage |-> "poll", transaction |-> t]

\* The bookkeeping of a transaction that has no 202 yet.  Between produce and its
\* answer it may have one record more than the exits explain, and is accounted
\* for; otherwise it has no record of this process at all.
NotYetAccepted(t) ==
    IF AtPoll(t)
    THEN /\ ingested[t] + (IF t \in waiting THEN 1 ELSE 0) <= exits + 1
         /\ ingested[t] > 0 \/ t \in waiting \cup undelivered
    ELSE ingested[t] <= exits /\ t \notin waiting

Bookkeeping ==
    \A t \in Transactions :
       IF answer[t] = "accepted" THEN ~ InService(t) ELSE NotYetAccepted(t)

\* No two threads serve one transaction.
OneServer ==
    \A h, k \in Threads : \A t \in Transactions :
       request[h] \in Serving(t) /\ request[k] \in Serving(t) => h = k

\* The inductive invariant behind RetriesAreSafe and AcceptedIsAccountedFor.
ApiInv ==
    /\ TypeOK
    /\ IsFiniteSet(waiting)
    /\ OneServer
    /\ Bookkeeping
    /\ AcceptedIsAccountedFor

\* publish never waits for Kafka: every request gets its answer, or dies with
\* the process, without any assumption on the broker.
EveryRequestAnswered == \A h \in Threads : request[h] # Idle ~> request[h] = Idle

\* api.py:83, the detail of the 503: the stream is "temporarily unavailable".
\* A caller that keeps retrying is accepted in the end.
UnavailableIsTemporary ==
    \A t \in Transactions : answer[t] = "rejected" ~> answer[t] = "accepted"
=============================================================================
