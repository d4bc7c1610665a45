---------------------------- MODULE FraudPipeline ----------------------------
(***************************************************************************)
(* The detector and the decision store on one transactions.scored: what    *)
(* the table says of a transaction, and what fraud.alerts says of it.      *)
(*                                                                         *)
(* The detector is the one of module Detector.  The store is the loop of   *)
(* decision_store.py on decisions that are valid and fit their columns:    *)
(* upsert, commit, one message at a time; module DecisionStore has the     *)
(* rest of it.  An event stands for its transaction_id.                    *)
(***************************************************************************)
EXTENDS Detector

VARIABLES
    rows,      \* rows[e]: the row of transaction e in fraud_decisions, or NoRow
    stored,    \* stored[p]: the store's committed offset on transactions.scored
    upserted   \* the partition whose next message is in the table, not yet committed

storeVars == <<rows, stored, upserted>>
pipelineVars == <<vars, storeVars>>

NoRow == [processed_at |-> -1]

PipelineInit ==
    /\ Init
    /\ rows = [e \in Events |-> NoRow]
    /\ stored = [p \in Partitions |-> 0]
    /\ upserted = {}

-----------------------------------------------------------------------------
(* The store. *)

NextScored(p) == log[Scored][p][stored[p] + 1]

\* Wrong: the last message to arrive wins.
StoreLastArrival(p) ==
    /\ upserted = {}
    /\ stored[p] < Len(log[Scored][p])
    /\ rows' = [rows EXCEPT ![NextScored(p).event] = NextScored(p)]
    /\ upserted' = {p}
    /\ UNCHANGED <<vars, stored>>

\* poll, validate, UPSERT_SQL: the row of the transaction is not replaced by an
\* older decision.
StoreDecision(p) ==
    LET d == NextScored(p)
    IN  /\ upserted = {}
        /\ stored[p] < Len(log[Scored][p])
        /\ rows' = IF rows[d.event].processed_at <= d.processed_at
                   THEN [rows EXCEPT ![d.event] = d] ELSE rows
        /\ upserted' = {p}
        /\ UNCHANGED <<vars, stored>>

\* consumer.commit: the next poll returns the next message.
CommitStored(p) ==
    /\ p \in upserted
    /\ stored' = [stored EXCEPT ![p] = @ + 1]
    /\ upserted' = {}
    /\ UNCHANGED <<vars, rows>>

\* The store's process ends between the upsert and the commit: the row stays,
\* and the next process reads the message again.
ExitStore ==
    /\ upserted # {}
    /\ upserted' = {}
    /\ UNCHANGED <<vars, rows, stored>>

StoreStep == \E p \in Partitions : StoreDecision(p) \/ CommitStored(p)

PipelineNext ==
    \/ Next /\ UNCHANGED storeVars
    \/ StoreStep
    \/ ExitStore

PipelineSpec == PipelineInit /\ [][PipelineNext]_pipelineVars

(***************************************************************************)
(* The detector's fairness (module Detector).  docker restarts the store,  *)
(* too, and it does not exit at every commit.                              *)
(***************************************************************************)
PipelineFairness ==
    /\ WF_pipelineVars(WorkerStep /\ UNCHANGED storeVars)
    /\ WF_pipelineVars(Broker /\ UNCHANGED storeVars)
    /\ WF_pipelineVars(StoreStep)
    /\ \A p \in Partitions : SF_pipelineVars(CommitStored(p))

FairPipelineSpec == PipelineSpec /\ PipelineFairness

-----------------------------------------------------------------------------
(* Properties. *)

\* Types; a row is a decision of its own transaction that was published, and a
\* partition in the store's hand holds a message it has not committed.
PipelineTypeOK ==
    /\ TypeOK
    /\ DOMAIN rows = Events
    /\ \A e \in Events : rows[e] = NoRow \/ (rows[e] \in InLog(Scored) /\ rows[e].event = e)
    /\ stored \in [Partitions -> Nat]
    /\ upserted \subseteq Partitions
    /\ \A p \in Partitions : stored[p] <= Len(log[Scored][p])
    /\ \A p \in upserted : stored[p] < Len(log[Scored][p])

\* The detector has committed every copy of e, the store all that is scored.
CaughtUp(e) ==
    /\ e \in InLog(Raw)
    /\ \A p \in Partitions :
          /\ \A i \in committed[p] + 1 .. Len(log[Raw][p]) : log[Raw][p][i] # e
          /\ stored[p] = Len(log[Scored][p])

\* What the table says was alerted: once both workers have caught up with a
\* transaction it has a row, and if the row does not approve, fraud.alerts has
\* the alert of that very decision.  A retry may decide differently, since the
\* memory is lost with the process, and a decision whose alert was lost in a
\* crash may arrive after it; processed_at keeps it out of the table.
FlaggedRowIsAlerted ==
    \A e \in Events :
       CaughtUp(e) /\ rejected[Scored] \cup rejected[Alerts] = {} =>
          /\ rows[e] # NoRow
          /\ rows[e].decision = "approve" \/ rows[e] \in InLog(Alerts)

\* The decisions of all detectors so far, whether they have arrived or not.
Published ==
    InLog(Scored) \cup rejected[Scored]
      \cup {r.value : r \in {q \in outbox \cup orphans : q.topic = Scored}}

\* processed_at tells decisions apart, and the clock is ahead of them all.
TimesAreUnique ==
    \A c, d \in Published :
       c.processed_at <= clock /\ (c.processed_at = d.processed_at => c = d)

Uncommitted(e) ==
    \E p \in Partitions : \E i \in committed[p] + 1 .. Len(log[Raw][p]) : log[Raw][p][i] = e

\* Of all decisions on e the newest is in the topics out, with its alert.
NewestIsOut(e, all, out) ==
    \E d \in out[Scored] :
       /\ d.event = e /\ (d.decision = "approve" \/ d \in out[Alerts])
       /\ \A c \in all : c.event = e => c.processed_at <= d.processed_at

\* A retry supersedes what its predecessors left half published: unless a copy of
\* e is still to be committed, its newest decision has settled completely, and
\* before the commit it has been issued completely.
RetriesSupersede ==
    /\ \A e \in Events :
          e \in InLog(Raw) /\ ~ Uncommitted(e) => NewestIsOut(e, Published, Settled)
    /\ pc \in {"delivering", "committing"} /\ Payload(Raw) \in Events
          => NewestIsOut(Payload(Raw), Published, Issued)

\* The row is at least as new as every decision the store has upserted.
RowsAreNewest ==
    \A p \in Partitions :
       \A i \in 1 .. stored[p] + (IF p \in upserted THEN 1 ELSE 0) :
          LET d == log[Scored][p][i]
          IN  rows[d.event].processed_at >= d.processed_at

\* Half a publication: a decision that is to be alerted is in one of the two
\* topics, and its other half is not underway.
Torn ==
    {d \in InLog(Scored) \cup InLog(Alerts) :
        /\ d.decision # "approve"
        /\ \E t \in {Scored, Alerts} : d \notin Issued[t]}

\* _publish_decision makes two produce calls and Kafka no transaction of them:
\* every exit tears at most one decision, and nothing else tears any.
TornOnlyByExits == Cardinality(Torn) <= exits

\* Requests for the two topics a decision is published in.
DecisionsIn(requests) == {r \in requests : r.topic \in {Scored, Alerts}}

\* Decisions to be alerted of which a half is in a topic, or may still arrive,
\* while the other half was not even issued: those that are torn or may be.
Exposed ==
    {d \in InLog(Scored) \cup InLog(Alerts) \cup {r.value : r \in DecisionsIn(orphans)} :
        /\ d.decision # "approve"
        /\ \E t \in {Scored, Alerts} : d \notin Issued[t]}

\* The inductive invariant behind TornOnlyByExits: the process has one decision
\* at a time in its queue, issues both halves of it together, and so exposes one
\* by an exit.
PublicationInv ==
    /\ \A q, r \in DecisionsIn(outbox) : q.value = r.value
    /\ \A r \in DecisionsIn(outbox) :
          r.value.decision # "approve" => \A t \in {Scored, Alerts} : r.value \in Issued[t]
    /\ IsFiniteSet(Exposed) /\ Cardinality(Exposed) <= exits

\* The inductive invariant of the pipeline: the detector's own, and what
\* FlaggedRowIsAlerted needs of both workers.
PipelineInv ==
    /\ DetectorInv /\ OrderInv /\ MemoryInv /\ ScoringsInv /\ PublicationInv
    /\ PipelineTypeOK /\ TimesAreUnique /\ RetriesSupersede /\ RowsAreNewest

\* Every transaction that is ingested gets its row, whatever crashes.
EveryTransactionIsDecided ==
    \A e \in Events : e \in InLog(Raw) ~> rows[e] # NoRow
=============================================================================
