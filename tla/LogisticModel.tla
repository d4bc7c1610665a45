---------------------------- MODULE LogisticModel ----------------------------
(***************************************************************************)
(* LogisticModelArtifact (model.py) and the rounding of its probability in *)
(* FraudScorer.score.  Reals are integers in units of 1/Unit.              *)
(*                                                                         *)
(* The logistic function is monotone, so its rounded percentage is a count *)
(* of the cut points, where it passes from one percent to the next, below  *)
(* the logit; the cut points are math.exp's part of the model.             *)
(***************************************************************************)
EXTENDS Integers, Sequences, FiniteSets

CONSTANTS
    Artifact,   \* the fields of LogisticModelArtifact
    Log1p(_)    \* math.log1p of an amount

Unit == 10000

FEATURE_NAMES ==
    <<"log_amount", "transaction_count_5m", "is_new_device", "is_new_country",
      "is_risky_merchant">>

\* What load accepts; it raises otherwise, and the detector does not start.
Loads(artifact) ==
    /\ artifact.feature_names = FEATURE_NAMES
    /\ \A values \in {artifact.scaler_mean, artifact.scaler_scale, artifact.coefficients} :
          Len(values) = Len(FEATURE_NAMES)
    /\ \A i \in DOMAIN artifact.scaler_scale : artifact.scaler_scale[i] > 0

ASSUME ArtifactAssumption == Loads(Artifact)

Flag(b) == IF b THEN Unit ELSE 0

FeatureVector(f) ==
    <<Log1p(f.amount), f.transaction_count_5m * Unit, Flag(f.is_new_device),
      Flag(f.is_new_country), Flag(f.is_risky_merchant)>>

Times(x, y) == (x * y) \div Unit

\* coefficient * (value - mean) / scale of one feature.
Contribution(f, i) ==
    Times(Artifact.coefficients[i],
          ((FeatureVector(f)[i] - Artifact.scaler_mean[i]) * Unit)
             \div Artifact.scaler_scale[i])

Logit(f) ==
    Artifact.intercept + Contribution(f, 1) + Contribution(f, 2) + Contribution(f, 3)
      + Contribution(f, 4) + Contribution(f, 5)

\* Platt scaling, when the artifact was calibrated.
CalibratedLogit(f) ==
    IF Artifact.calibration.method = "platt"
    THEN Times(Artifact.calibration.a, Logit(f)) + Artifact.calibration.b
    ELSE Logit(f)

\* log(p / (1 - p)) for p = 0.5%, 1.5%, ..., 49.5%; above one half the cut
\* points are the same with their signs changed.
LowerCutPoints ==
    <<-52933, -41846, -36636, -33168, -30550, -28439, -26662, -25123, -23763, -22541,
       -21429, -20407, -19459, -18575, -17744, -16959, -16215, -15506, -14828, -14178,
       -13553, -12950, -12368, -11803, -11255, -10721, -10201, -9694, -9198, -8712,
       -8236, -7768, -7309, -6857, -6411, -5971, -5537, -5108, -4684, -4263,
       -3847, -3433, -3023, -2615, -2209, -1805, -1402, -1001, -600, -200>>

CutPoint(percent) ==
    IF percent <= 50 THEN LowerCutPoints[percent] ELSE - LowerCutPoints[101 - percent]

\* round(model_probability * 100)
Percent(f) ==
    LET logit == CalibratedLogit(f)
    IN  Cardinality({percent \in 1 .. 100 : logit >= CutPoint(percent)})
=============================================================================
