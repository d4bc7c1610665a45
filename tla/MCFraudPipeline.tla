--------------------------- MODULE MCFraudPipeline ---------------------------
(***************************************************************************)
(* One partition, and a customer whose second transaction is reviewed when *)
(* the detector remembers the first one and approved when it does not.     *)
(***************************************************************************)
EXTENDS FraudPipeline, ShippedModel

MCCustomers == {"c1"}

SharedPartition == [c \in MCCustomers |-> 0]

Transaction(device, country) ==
    [customer_id |-> "c1", device_id |-> device, country_code |-> country,
     event_time |-> 10, amount |-> 50, risky |-> FALSE]

Usual  == Transaction("d1", "US")
Abroad == Transaction("d2", "GB")

MCEvents == {Usual, Abroad}
=============================================================================
