----------------------------- MODULE MCDetector -----------------------------
(***************************************************************************)
(* A small instance of Detector: two customers on two partitions, one      *)
(* malformed payload, and a transaction so early that its velocity window  *)
(* starts before datetime.min.                                             *)
(***************************************************************************)
EXTENDS Detector, ShippedModel

MCCustomers == {"c1", "c2"}

\* Two instances: a partition per customer, and both customers on one partition.
TwoPartitions == {0, 1}
OnePartition == {0}

CustomerPartition == [c \in MCCustomers |-> IF c = "c1" THEN 0 ELSE 1]
SharedPartition == [c \in MCCustomers |-> 0]

DecisionTopics == {Scored, Alerts}

Transaction(c, device, country, time, amount, risky) ==
    [customer_id |-> c, device_id |-> device, country_code |-> country,
     event_time |-> time, amount |-> amount, risky |-> risky]

\* An approval at any time; a transaction from a second device and country,
\* which is reviewed when the memory is warm and approved when it is cold;
\* a decline at any time.
Usual     == Transaction("c1", "d1", "US", 10, 50, FALSE)
Abroad    == Transaction("c1", "d2", "GB", 11, 50, FALSE)
Expensive == Transaction("c2", "d3", "US", 10, 3000, TRUE)
TooEarly  == Transaction("c2", "d3", "US", 2, 50, FALSE)

ScorableEvents == {Usual, Abroad, Expensive}

AllEvents == ScorableEvents \cup {TooEarly}

\* One transaction of each customer that can be scored, and the early one.
FewEvents == {Usual, Expensive, TooEarly}
=============================================================================
