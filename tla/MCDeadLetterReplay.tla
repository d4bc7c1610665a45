------------------------- MODULE MCDeadLetterReplay -------------------------
(***************************************************************************)
(* Three dead letters; the target's worker accepts all, or all but one: a  *)
(* payload that still does not validate, or an alert of the webhook sent   *)
(* to transactions.raw.                                                    *)
(***************************************************************************)
EXTENDS DeadLetterReplay

MCLetters == {"l1", "l2", "poison"}

Repaired == {"l1", "l2"}
=============================================================================
