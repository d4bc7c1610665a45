--------------------------- MODULE LatestDecision ---------------------------
(***************************************************************************)
(* What the table fraud_decisions promises its readers (docs/ARCHITECTURE: *)
(* "accepts only an equal or newer processing timestamp, making Kafka      *)
(* replays safe"): a transaction's row, once there, only ever moves to a   *)
(* decision that is at least as new.                                       *)
(***************************************************************************)
EXTENDS Integers

CONSTANTS
    Transactions,   \* transaction_id values
    Decisions       \* decision records, with transaction_id and processed_at

VARIABLE row        \* row[t]: the stored decision of transaction t, or NoRow

NoRow == [processed_at |-> -1]

Init == row = [t \in Transactions |-> NoRow]

Adopt(d) ==
    /\ row[d.transaction_id].processed_at <= d.processed_at
    /\ row' = [row EXCEPT ![d.transaction_id] = d]

Next == \E d \in Decisions : Adopt(d)

Spec == Init /\ [][Next]_row
=============================================================================
