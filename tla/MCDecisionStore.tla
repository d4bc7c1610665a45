--------------------------- MODULE MCDecisionStore ---------------------------
(***************************************************************************)
(* Two transactions: three decisions of the first, two of them with the    *)
(* same timestamp, one of the second, and one whose detector_version does  *)
(* not fit its column.                                                     *)
(***************************************************************************)
EXTENDS DecisionStore

Decision(t, outcome, time) ==
    [transaction_id |-> t, decision |-> outcome, processed_at |-> time]

StorableDecisions ==
    {Decision("t1", "decline", 1), Decision("t1", "approve", 2),
     Decision("t1", "review", 2), Decision("t2", "approve", 1)}

LongVersion == {Decision("t2", "decline", 3)}

AllDecisions == StorableDecisions \cup LongVersion

OnePartition == {0}

DeadLetterTopic == {DeadLetter}
=============================================================================
