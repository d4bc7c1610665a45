--------------------------- MODULE MCFeatureWindow ---------------------------
(***************************************************************************)
(* Two customers, a window of two time units over five instants, and the   *)
(* model of models/fraud_logreg_v1.json.                                   *)
(***************************************************************************)
EXTENDS FeatureWindow, ShippedModel

MCCustomers == {"c1", "c2"}

Transaction(c, device, country, time, amount, risky) ==
    [customer_id |-> c, device_id |-> device, country_code |-> country,
     event_time |-> time, amount |-> amount, risky |-> risky]

\* Every instant, the last one with the largest amount there is, for which the
\* model outweighs the rules; one transaction from another device, one from
\* another country, one large risky one, and one of another customer.
MCEvents ==
    {Transaction("c1", "d1", "US", t, 50, FALSE) : t \in 2 .. 5}
      \cup {Transaction("c1", "d1", "US", 6, 1000000, TRUE),
            Transaction("c1", "d2", "US", 4, 50, TRUE),
            Transaction("c1", "d1", "GB", 5, 600, FALSE),
            Transaction("c1", "d2", "GB", 3, 3000, TRUE),
            Transaction("c2", "d1", "US", 4, 600, TRUE)}
=============================================================================
