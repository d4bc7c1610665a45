---------------------------- MODULE MCMonitoring ----------------------------
(***************************************************************************)
(* Two groups with a partition each; ConsumerLag fires at the evaluation   *)
(* of any backlog, and the detector fails to validate what it likes.  The  *)
(* delivery failures: the detector's group alone.                          *)
(***************************************************************************)
EXTENDS Monitoring

TwoGroups == <<"fraud-detector-v1", "decision-store-v1">>
OneGroup == <<"fraud-detector-v1">>
=============================================================================
