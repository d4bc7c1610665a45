---------------------------- MODULE ShippedModel ----------------------------
(***************************************************************************)
(* models/fraud_logreg_v1.json and the logarithms of the amounts that      *)
(* occur in the instances, in units of 1/10000.                            *)
(***************************************************************************)
EXTENDS LogisticModel
LOCAL INSTANCE TLC

FraudLogregV1 ==
    [feature_names |-> FEATURE_NAMES,
     scaler_mean   |-> <<44609, 15856, 1247, 357, 5289>>,
     scaler_scale  |-> <<13123, 7506, 3304, 1856, 4992>>,
     coefficients  |-> <<11601, -2069, 23663, -1449, 13059>>,
     intercept     |-> -40035,
     calibration   |-> [method |-> "platt", a |-> 9662, b |-> -25330]]

LogOfAmount ==
    50 :> 39318 @@ 200 :> 53033 @@ 400 :> 59940 @@ 600 :> 63986
      @@ 1500 :> 73139 @@ 2400 :> 77836 @@ 3000 :> 80067 @@ 1000000 :> 138155

Log1pOfAmount(amount) == LogOfAmount[amount]

Snapshots ==
    [amount : DOMAIN LogOfAmount, transaction_count_5m : 1 .. 6, is_new_device : BOOLEAN,
     is_new_country : BOOLEAN, is_risky_merchant : BOOLEAN]

\* Percent as a table: merged with the empty function, TLC computes it once.
Percentages == [f \in Snapshots |-> Percent(f)] @@ <<>>

ShippedPercent(f) == Percentages[f]
=============================================================================
