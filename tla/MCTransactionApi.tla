-------------------------- MODULE MCTransactionApi --------------------------
(***************************************************************************)
(* Three transactions and two request threads on a queue of two.           *)
(***************************************************************************)
EXTENDS TransactionApi
=============================================================================
