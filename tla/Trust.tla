-------------------------------- MODULE Trust --------------------------------
(***************************************************************************)
(* The Trust Engine of packages/shared/src/trust.ts, to which TrustService *)
(* delegates: from a driver's metrics to a score, from score, trips and    *)
(* tenure to a tier, from the tier to the vehicles the driver may book.    *)
(***************************************************************************)
EXTENDS Vocabulary, Integers

\* TRUST_TIER_ORDER: the position of each tier.
TrustTierRank ==
    [FOUNDATION |-> 0, ESTABLISHED |-> 1, TRUSTED |-> 2, ELITE |-> 3, CERTIFIED |-> 4]

\* TRUST_TIER_THRESHOLDS.
Threshold(score, trips, tenure) == [score |-> score, trips |-> trips, tenure |-> tenure]

TrustTierThresholds ==
    [FOUNDATION  |-> Threshold(0, 0, 0),
     ESTABLISHED |-> Threshold(400, 75, 3),
     TRUSTED     |-> Threshold(650, 250, 6),
     ELITE       |-> Threshold(850, 600, 12),
     CERTIFIED   |-> Threshold(950, 1000, 18)]

Qualifying(score, trips, tenure) ==
    {tier \in TrustTier : /\ score >= TrustTierThresholds[tier].score
                          /\ trips >= TrustTierThresholds[tier].trips
                          /\ tenure >= TrustTierThresholds[tier].tenure}

\* Mutation of ResolveTrustTier: the walk starts at the lowest tier.
ResolveTrustTierFromBelow(score, trips, tenure) ==
    LET tiers == Qualifying(score, trips, tenure)
    IN  IF tiers = {} THEN "FOUNDATION"
        ELSE CHOOSE tier \in tiers :
                \A other \in tiers : TrustTierRank[tier] <= TrustTierRank[other]

\* The walk from the top of the order stops at the first tier the driver
\* qualifies for, the highest; FOUNDATION when there is none.
ResolveTrustTier(score, trips, tenure) ==
    LET tiers == Qualifying(score, trips, tenure)
    IN  IF tiers = {} THEN "FOUNDATION"
        ELSE CHOOSE tier \in tiers :
                \A other \in tiers : TrustTierRank[other] <= TrustTierRank[tier]

\* VEHICLE_TIER_ACCESS.
BaseVehicleAccess == {"STANDARD", "EV_STANDARD", "XL_SUV"}

VehicleTierAccess ==
    [FOUNDATION  |-> BaseVehicleAccess,
     ESTABLISHED |-> BaseVehicleAccess \cup {"COMFORT"},
     TRUSTED     |-> BaseVehicleAccess \cup {"COMFORT", "PREMIUM"},
     ELITE       |-> BaseVehicleAccess \cup {"COMFORT", "PREMIUM", "LUXURY"},
     CERTIFIED   |-> BaseVehicleAccess \cup {"COMFORT", "PREMIUM", "LUXURY", "EXOTIC"}]

CanBookVehicleTier(trustTier, vehicleTier) == vehicleTier \in VehicleTierAccess[trustTier]

-----------------------------------------------------------------------------
(* The score.                                                              *)

\* SUB_METRICS: dimension and weight of each.
SubMetric(dimension, weight) == [dimension |-> dimension, weight |-> weight]

SubMetrics ==
    [passengerRatingAvg      |-> SubMetric("trip", 20),
     tripCompletionRate      |-> SubMetric("trip", 15),
     cancellationRate        |-> SubMetric("trip", 10),
     onTimePickupRate        |-> SubMetric("trip", 10),
     postTripConditionAvg    |-> SubMetric("care", 20),
     fuelComplianceRate      |-> SubMetric("care", 10),
     mileageCapAdherenceRate |-> SubMetric("care", 5),
     zeroDamageStreakScore   |-> SubMetric("care", 10),
     responseTimeScore       |-> SubMetric("platform", 5),
     ownerCommunicationScore |-> SubMetric("platform", 5),
     disputeRate             |-> SubMetric("platform", 5),
     accountConsistencyScore |-> SubMetric("platform", 5)]

\* Mutation of Inverted: cancelling is rewarded.
InvertedDisputesOnly == {"disputeRate"}

\* Those of SUB_METRICS for which a low rate is the good one.
Inverted == {"cancellationRate", "disputeRate"}

Metric == DOMAIN SubMetrics

Dimension == {"trip", "care", "platform"}

\* Mutation of TotalWeight: the weights are read as percentages.
TotalWeightHundred == 100

\* A sum over SUB_METRICS, term by term.
SumOverMetrics(f) ==
    f["passengerRatingAvg"] + f["tripCompletionRate"] + f["cancellationRate"]
    + f["onTimePickupRate"] + f["postTripConditionAvg"] + f["fuelComplianceRate"]
    + f["mileageCapAdherenceRate"] + f["zeroDamageStreakScore"] + f["responseTimeScore"]
    + f["ownerCommunicationScore"] + f["disputeRate"] + f["accountConsistencyScore"]

\* The weights add up to 120, not 100.
TotalWeight == SumOverMetrics([m \in Metric |-> SubMetrics[m].weight])

TrustScoreMax == 1000

\* clamp01 on a rate in grains: k stands for k/grain.  It takes NaN and a
\* negative rate to 0 alike, so a negative number stands for both.
NaN == -1

Clamp(rate, grain) ==
    IF rate < 0 THEN 0 ELSE IF rate > grain THEN grain ELSE rate

\* What a metric counts for in its dimension, as a multiple of 1/(TotalWeight * grain).
Credit(metrics, m, grain) ==
    LET raw == Clamp(metrics[m], grain)
    IN  SubMetrics[m].weight * (IF m \in Inverted THEN grain - raw ELSE raw)

\* A dimension's weighted sum: the fraction sum / (TotalWeight * grain).
WeightedSum(metrics, dimension, grain) ==
    SumOverMetrics([m \in Metric |-> IF SubMetrics[m].dimension = dimension
                                     THEN Credit(metrics, m, grain) ELSE 0])

\* The integers Math.round may give for num/den.  The code adds up
\* floating-point terms, so an exact half may come out on either side.
RoundedEitherWay(num, den) ==
    LET below == num \div den
    IN  CASE 2 * (num % den) < den -> {below}
          [] 2 * (num % den) = den -> {below, below + 1}
          [] OTHER -> {below + 1}

Points(metrics, dimension, grain) ==
    RoundedEitherWay(TrustScoreMax * WeightedSum(metrics, dimension, grain),
                     TotalWeight * grain)

\* computeTrustScore: each dimension is rounded, and the score is their sum.
Breakdowns(metrics, grain) ==
    {[trip |-> t, care |-> c, platform |-> p] :
        t \in Points(metrics, "trip", grain), c \in Points(metrics, "care", grain),
        p \in Points(metrics, "platform", grain)}

ClampScore(score) ==
    IF score < 0 THEN 0 ELSE IF score > TrustScoreMax THEN TrustScoreMax ELSE score

TrustScore(breakdown) == ClampScore(breakdown.trip + breakdown.care + breakdown.platform)

=============================================================================
