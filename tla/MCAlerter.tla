------------------------------ MODULE MCAlerter ------------------------------
(* Two alerts and one invalid payload on one partition. *)
EXTENDS Alerter

OnePartition == {0}

DeadLetterTopic == {DeadLetter}
=============================================================================
