---------------------------- MODULE DecisionStore ----------------------------
(***************************************************************************)
(* DecisionStoreWorker (decision_store.py) and the upsert it runs          *)
(* (storage.py): consume transactions.scored, write each decision to the   *)
(* table fraud_decisions, copy what does not validate to the dead letters, *)
(* commit.  PostgreSQL is external: a statement commits as a whole or      *)
(* raises, and a decision a column cannot hold raises every time.          *)
(***************************************************************************)
EXTENDS KafkaWorker

CONSTANTS
    Transactions,   \* transaction_id values
    Decisions,      \* payloads FraudDecision.model_validate_json accepts
    Unstorable,     \* decisions a column of the table cannot hold
    Invalid,        \* payloads it refuses
    MaxScored       \* bound: records ever written to a partition of the topic

ASSUME DecisionsAssumption ==
    \A d \in Decisions : d.transaction_id \in Transactions /\ d.processed_at \in Nat
ASSUME InvalidAssumption == Decisions \cap Invalid = {}
ASSUME UnstorableAssumption == Unstorable \subseteq Decisions
ASSUME MaxScoredAssumption == MaxScored \in Nat

VARIABLE rows   \* rows[t]: the row of transaction t, or NoRow

vars == <<kafkaVars, rows>>

NoRow == [processed_at |-> -1]

Init ==
    /\ KafkaInit
    /\ rows = [t \in Transactions |-> NoRow]

-----------------------------------------------------------------------------
\* Detectors, dead ones included, append decisions in whatever order they
\* arrive; the same decision may come again.
Ingest(v, p) ==
    /\ Len(log[Scored][p]) < MaxScored
    /\ log' = Appended(Scored, p, v)
    /\ UNCHANGED <<committed, position, pc, msg, outbox, orphans, rejected, exits, rows>>

\* ensure_schema only creates what is missing; then the worker subscribes.
StartStore == Start /\ UNCHANGED rows

PollScored(p) == Poll(Scored, p) /\ UNCHANGED rows

\* Wrong: ON CONFLICT DO UPDATE without the WHERE clause.
UpsertAnyway(d) == rows' = [rows EXCEPT ![d.transaction_id] = d]

\* Wrong: ON CONFLICT DO NOTHING.
InsertOnly(d) ==
    rows' = IF rows[d.transaction_id] = NoRow
            THEN [rows EXCEPT ![d.transaction_id] = d] ELSE rows

\* UPSERT_SQL: insert, or replace a row that is not newer.
Upsert(d) ==
    rows' = IF rows[d.transaction_id].processed_at <= d.processed_at
            THEN [rows EXCEPT ![d.transaction_id] = d] ELSE rows

\* _process on a valid decision: the transaction commits, then the offset.
StoreDecision ==
    /\ pc = "processing"
    /\ Payload(Scored) \in Decisions \ Unstorable
    /\ Upsert(Payload(Scored))
    /\ pc' = "committing"
    /\ UNCHANGED <<log, committed, position, msg, outbox, orphans, rejected, exits>>

\* Wrong: a row the database refuses is skipped and committed.
StoreSkips ==
    /\ pc = "processing"
    /\ Payload(Scored) \in Unstorable
    /\ pc' = "committing"
    /\ UNCHANGED <<log, committed, position, msg, outbox, orphans, rejected, exits, rows>>

\* psycopg raises what the handler does not catch: the process exits.
StoreRaises ==
    /\ pc = "processing"
    /\ Payload(Scored) \in Unstorable
    /\ Exit
    /\ UNCHANGED <<exits, rows>>

\* _process on a payload that does not validate.
DeadLetterDecision ==
    /\ pc = "processing"
    /\ Payload(Scored) \in Invalid
    /\ Produce({Request(DeadLetter, DeadLetterPartition, Payload(Scored))})
    /\ UNCHANGED rows

FlushDeadLetter == Flushed /\ UNCHANGED rows

CommitOffset == Commit /\ UNCHANGED rows

CloseStore == Close /\ UNCHANGED rows

\* A crash between the upsert and the commit leaves the row written.
ExitStore == (FlushTimeout \/ Crash) /\ UNCHANGED rows

StopStore == Stop /\ UNCHANGED rows

Idle == IdlePoll /\ UNCHANGED rows

Broker == BrokerAnswers /\ UNCHANGED rows

Orphans == OrphanStep /\ UNCHANGED rows

WorkerStep ==
    \/ StartStore
    \/ \E p \in Partitions : PollScored(p)
    \/ StoreDecision
    \/ StoreRaises
    \/ DeadLetterDecision
    \/ FlushDeadLetter
    \/ CommitOffset
    \/ CloseStore

Environment ==
    \E v \in Decisions \cup Invalid, p \in Partitions : Ingest(v, p)

Next ==
    \/ WorkerStep
    \/ Broker
    \/ Orphans
    \/ ExitStore
    \/ StopStore
    \/ Idle
    \/ Environment

Spec == Init /\ [][Next]_vars

\* As for the detector: docker restarts the worker, the broker answers.
Fairness == WF_vars(WorkerStep) /\ WF_vars(Broker)

FairSpec == Spec /\ Fairness

-----------------------------------------------------------------------------
(* Properties. *)

ValueType ==
    [t \in Topics |-> IF t = Scored THEN Decisions \cup Invalid
                      ELSE IF t = DeadLetter THEN Invalid ELSE {}]

\* Types: the scored topic holds what was written, the dead letters what did
\* not validate, a row is a decision of its own transaction.
TypeOK ==
    /\ KafkaTypeOK(ValueType)
    /\ DOMAIN rows = Transactions
    /\ \A t \in Transactions :
          rows[t] = NoRow \/ (rows[t] \in Decisions /\ rows[t].transaction_id = t)

Stored(v, table) ==
    v \in Decisions => table[v.transaction_id].processed_at >= v.processed_at

\* What handling the payload v leaves in the table and the output topics.
Handled(v, table, out) == Stored(v, table) /\ (v \in Invalid => v \in out[DeadLetter])

\* decision_store.py commits after the upsert or the flushed dead letter: the
\* row of a committed decision is at least as new as that decision, whatever
\* was replayed since, and a committed invalid payload is in the dead letters.
CommittedIsStored ==
    \A p \in Partitions : \A i \in 1 .. committed[p] :
       Handled(log[Scored][p][i], rows, Settled)

\* Requests are outstanding only while the worker waits in flush(10); what it
\* is about to commit is in the table, or its dead letter is issued.
OutputsIssued ==
    /\ pc # "delivering" => outbox = {}
    /\ pc \in {"delivering", "committing"} => Handled(Payload(Scored), rows, Issued)

RowsFromLog == \A t \in Transactions : rows[t] = NoRow \/ rows[t] \in InLog(Scored)

\* The inductive invariant behind CommittedIsStored and SettledRowIsNewest.
StoreInv == TypeOK /\ OneInHand(Scored) /\ OutputsIssued /\ RowsFromLog /\ CommittedIsStored

\* Once everything is committed, the row of each transaction is one of the
\* decisions of the log and the newest of its own, in whatever order they
\* arrived and however often they were read.
SettledRowIsNewest ==
    (\A p \in Partitions : committed[p] = Len(log[Scored][p])) =>
       \A t \in Transactions : \A d \in InLog(Scored) \cap Decisions :
          d.transaction_id = t =>
             /\ rows[t].processed_at >= d.processed_at
             /\ rows[t] \in InLog(Scored)

\* The table refines the promise to its readers.
Promise == INSTANCE LatestDecision WITH row <- rows

RefinesLatestDecision == Promise!Spec

\* No decision that blocks partition p stands at position i or before it.
Unblocked(p, i) == \A j \in 1 .. i : log[Scored][p][j] \notin Unstorable

\* decision_store.py:81-95: a decision that the table cannot hold blocks what
\* stands behind it in its partition, and nothing before it: every decision in
\* front of the first such one eventually reaches its row, or one that is as
\* new does, whatever follows it.  A worker that comes back from every restart
\* with the blocked partition first need not get to its others: hence the premise.
EveryDecisionStored ==
    \A p \in Partitions :
       [](\A q \in Partitions \ {p} : Unblocked(q, Len(log[Scored][q]))) =>
          \A i \in 1 .. MaxScored :
             i <= Len(log[Scored][p]) /\ Unblocked(p, i)
                ~> i <= Len(log[Scored][p]) /\ Stored(log[Scored][p][i], rows)
=============================================================================
