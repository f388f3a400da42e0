------------------------- MODULE DriverRecordProofs -------------------------
(***************************************************************************)
(* Proofs about DriverRecord, for every grain of the rates, every set of   *)
(* moving metrics, and all trips and tenures: the Trust Engine's score is  *)
(* its breakdown, its tier is the weakest dimension's, and getting better  *)
(* never costs the driver anything.                                        *)
(***************************************************************************)
EXTENDS DriverRecord, TLAPS

Rates == (0..Grain) \cup {NaN}

IInv ==
    /\ metrics \in [Metric -> Rates]
    /\ trips \in Nat
    /\ tenure \in Nat

-----------------------------------------------------------------------------
(* The table of sub-metrics.                                               *)

\* SUB_METRICS has these twelve entries.
LEMMA TheMetrics ==
    Metric = {"passengerRatingAvg", "tripCompletionRate", "cancellationRate",
              "onTimePickupRate", "postTripConditionAvg", "fuelComplianceRate",
              "mileageCapAdherenceRate", "zeroDamageStreakScore", "responseTimeScore",
              "ownerCommunicationScore", "disputeRate", "accountConsistencyScore"}
    BY DEF Metric, SubMetrics

\* Each belongs to one of the three dimensions and weighs something.
LEMMA TheTable ==
    ASSUME NEW m \in Metric
    PROVE  SubMetrics[m].dimension \in Dimension /\ SubMetrics[m].weight \in 1..20
    BY TheMetrics DEF SubMetrics, SubMetric, Dimension

\* The weights add up to 120.
LEMMA WeightsAddUp == TotalWeight = 120
<1>1. TotalWeight = 20 + 15 + 10 + 10 + 20 + 10 + 5 + 10 + 5 + 5 + 5 + 5
    BY TheMetrics DEF TotalWeight, SumOverMetrics, SubMetrics, SubMetric
<1> QED BY <1>1

\* A metric counts for no less than nothing and no more than its weight.
LEMMA CreditBounds ==
    ASSUME NEW g \in Nat \ {0}, NEW rates \in [Metric -> Int], NEW m \in Metric
    PROVE  Credit(rates, m, g) \in 0..(SubMetrics[m].weight * g)
<1> DEFINE raw == Clamp(rates[m], g)
           worth == IF m \in Inverted THEN g - raw ELSE raw
           weight == SubMetrics[m].weight
<1>1. rates[m] \in Int
    OBVIOUS
<1>2. raw \in 0..g
    BY <1>1 DEF Clamp
<1>3. worth \in 0..g
    <2> HIDE DEF raw
    <2> QED BY <1>2
<1>4. weight \in 1..20
    BY TheTable
<1>5. weight * worth \in 0..(weight * g)
    <2> HIDE DEF worth, weight
    <2>1. \A w \in 1..20, k \in 0..g : w * k \in 0..(w * g)
        OBVIOUS
    <2> QED BY <1>3, <1>4, <2>1
<1> QED BY <1>5 DEF Credit

\* A dimension's weighted sum is the sum of its metrics' credits.
LEMMA TheSums ==
    ASSUME NEW g \in Nat \ {0}, NEW rates \in [Metric -> Int]
    PROVE  /\ WeightedSum(rates, "trip", g) =
                 Credit(rates, "passengerRatingAvg", g) + Credit(rates, "tripCompletionRate", g)
                 + Credit(rates, "cancellationRate", g) + Credit(rates, "onTimePickupRate", g)
           /\ WeightedSum(rates, "care", g) =
                 Credit(rates, "postTripConditionAvg", g) + Credit(rates, "fuelComplianceRate", g)
                 + Credit(rates, "mileageCapAdherenceRate", g)
                 + Credit(rates, "zeroDamageStreakScore", g)
           /\ WeightedSum(rates, "platform", g) =
                 Credit(rates, "responseTimeScore", g) + Credit(rates, "ownerCommunicationScore", g)
                 + Credit(rates, "disputeRate", g) + Credit(rates, "accountConsistencyScore", g)
<1> DEFINE credit == [m \in Metric |-> Credit(rates, m, g)]
<1>1. \A m \in Metric : Credit(rates, m, g) \in Nat
    <2> TAKE m \in Metric
    <2> QED BY CreditBounds, TheTable
<1>2. ASSUME NEW d \in Dimension
      PROVE  WeightedSum(rates, d, g) =
                SumOverMetrics([m \in Metric |-> IF SubMetrics[m].dimension = d
                                                 THEN credit[m] ELSE 0])
    BY DEF WeightedSum
<1>3. credit \in [Metric -> Nat]
    BY <1>1
<1>4. QED
    <2>1. \A m \in Metric : credit[m] = Credit(rates, m, g)
        OBVIOUS
    <2> HIDE DEF credit
    <2>2. WeightedSum(rates, "trip", g) =
             credit["passengerRatingAvg"] + credit["tripCompletionRate"]
             + credit["cancellationRate"] + credit["onTimePickupRate"]
        BY <1>2, <1>3, TheMetrics DEF Dimension, SumOverMetrics, SubMetrics, SubMetric
    <2>3. WeightedSum(rates, "care", g) =
             credit["postTripConditionAvg"] + credit["fuelComplianceRate"]
             + credit["mileageCapAdherenceRate"] + credit["zeroDamageStreakScore"]
        BY <1>2, <1>3, TheMetrics DEF Dimension, SumOverMetrics, SubMetrics, SubMetric
    <2>4. WeightedSum(rates, "platform", g) =
             credit["responseTimeScore"] + credit["ownerCommunicationScore"]
             + credit["disputeRate"] + credit["accountConsistencyScore"]
        BY <1>2, <1>3, TheMetrics DEF Dimension, SumOverMetrics, SubMetrics, SubMetric
    <2> QED BY <2>1, <2>2, <2>3, <2>4, TheMetrics

\* What a dimension can weigh in all.
DimensionWeight == [trip |-> 55, care |-> 45, platform |-> 20]

LEMMA SumBounds ==
    ASSUME NEW g \in Nat \ {0}, NEW rates \in [Metric -> Int], NEW d \in Dimension
    PROVE  WeightedSum(rates, d, g) \in 0..(DimensionWeight[d] * g)
<1>1. \A m \in Metric : Credit(rates, m, g) \in 0..(SubMetrics[m].weight * g)
    BY CreditBounds
<1>2. /\ Credit(rates, "passengerRatingAvg", g) \in 0..(20 * g)
      /\ Credit(rates, "tripCompletionRate", g) \in 0..(15 * g)
      /\ Credit(rates, "cancellationRate", g) \in 0..(10 * g)
      /\ Credit(rates, "onTimePickupRate", g) \in 0..(10 * g)
    BY <1>1, TheMetrics DEF SubMetrics, SubMetric
<1>3. /\ Credit(rates, "postTripConditionAvg", g) \in 0..(20 * g)
      /\ Credit(rates, "fuelComplianceRate", g) \in 0..(10 * g)
      /\ Credit(rates, "mileageCapAdherenceRate", g) \in 0..(5 * g)
      /\ Credit(rates, "zeroDamageStreakScore", g) \in 0..(10 * g)
    BY <1>1, TheMetrics DEF SubMetrics, SubMetric
<1>4. /\ Credit(rates, "responseTimeScore", g) \in 0..(5 * g)
      /\ Credit(rates, "ownerCommunicationScore", g) \in 0..(5 * g)
      /\ Credit(rates, "disputeRate", g) \in 0..(5 * g)
      /\ Credit(rates, "accountConsistencyScore", g) \in 0..(5 * g)
    BY <1>1, TheMetrics DEF SubMetrics, SubMetric
<1>5. WeightedSum(rates, "trip", g) \in 0..(55 * g)
    BY <1>2, TheSums
<1>6. WeightedSum(rates, "care", g) \in 0..(45 * g)
    BY <1>3, TheSums
<1>7. WeightedSum(rates, "platform", g) \in 0..(20 * g)
    BY <1>4, TheSums
<1> QED BY <1>5, <1>6, <1>7 DEF Dimension, DimensionWeight
-----------------------------------------------------------------------------
(* Rounding.                                                               *)

\* A rounded quotient is within a half of the quotient.
LEMMA RoundingIsNear ==
    ASSUME NEW num \in Nat, NEW den \in Nat \ {0}, NEW x \in RoundedEitherWay(num, den)
    PROVE  /\ x \in Nat
           /\ 2 * (den * x) >= 2 * num - den
           /\ 2 * (den * x) <= 2 * num + den
<1> DEFINE below == num \div den
           rest == num % den
<1>1. below \in Nat /\ rest \in 0..(den - 1) /\ num = den * below + rest
    OBVIOUS
<1>2. den * below \in Nat /\ den * (below + 1) = den * below + den
    BY <1>1
<1>3. x \in {below, below + 1} /\ (2 * rest < den => x = below)
      /\ (2 * rest > den => x = below + 1)
    <2> HIDE DEF below, rest
    <2>1. RoundedEitherWay(num, den) =
             CASE 2 * rest < den -> {below}
               [] 2 * rest = den -> {below, below + 1}
               [] OTHER -> {below + 1}
        BY DEF RoundedEitherWay, below, rest
    <2>2. CASE 2 * rest < den
        BY <1>1, <2>1, <2>2
    <2>3. CASE 2 * rest = den
        BY <1>1, <2>1, <2>3
    <2>4. CASE 2 * rest > den
        BY <1>1, <2>1, <2>4
    <2> QED BY <1>1, <2>2, <2>3, <2>4
<1> HIDE DEF below, rest
<1>4. CASE x = below
    BY <1>1, <1>2, <1>3, <1>4
<1>5. CASE x = below + 1
    BY <1>1, <1>2, <1>3, <1>5
<1> QED BY <1>3, <1>4, <1>5

\* A larger quotient, over the same divisor, rounds to no less: on whichever
\* side the halves go.
LEMMA RoundingKeepsOrder ==
    ASSUME NEW den \in Nat \ {0}, NEW low \in Nat, NEW high \in Nat, low < high,
           NEW x \in RoundedEitherWay(low, den), NEW y \in RoundedEitherWay(high, den)
    PROVE  x <= y
<1>1. /\ x \in Nat /\ 2 * (den * x) <= 2 * low + den
      /\ y \in Nat /\ 2 * (den * y) >= 2 * high - den
    BY RoundingIsNear
<1>2. SUFFICES ASSUME x >= y + 1 PROVE FALSE
    BY <1>1
<1>3. den * x >= den * y + den
    <2>1. PICK k \in Nat : x = y + 1 + k
        <3>1. x - (y + 1) \in Nat /\ x = y + 1 + (x - (y + 1))
            BY <1>1, <1>2
        <3> QED BY <3>1
    <2>2. den * (y + 1 + k) = den * y + den + den * k /\ den * k \in Nat /\ den * y \in Nat
        BY <1>1
    <2> QED BY <2>1, <2>2
<1>4. den * x \in Nat /\ den * y \in Nat
    BY <1>1
<1> DEFINE upper == den * x
           lower == den * y
<1> HIDE DEF upper, lower
<1> QED BY <1>1, <1>3, <1>4 DEF upper, lower

\* A common factor cancels.
LEMMA FactorCancels ==
    ASSUME NEW g \in Nat \ {0}, NEW a \in Nat, NEW b \in Nat, a * g <= b * g
    PROVE  a <= b
<1> SUFFICES ASSUME a >= b + 1 PROVE FALSE
    OBVIOUS
<1>1. PICK k \in Nat : a = b + 1 + k
    <2>1. a - (b + 1) \in Nat /\ a = b + 1 + (a - (b + 1))
        OBVIOUS
    <2> QED BY <2>1
<1>2. (b + 1 + k) * g = b * g + g + k * g /\ k * g \in Nat /\ b * g \in Nat
    OBVIOUS
<1> QED BY <1>1, <1>2

\* The most points a dimension is worth.
DimensionPoints == [trip |-> 458, care |-> 375, platform |-> 167]

LEMMA PointsBounds ==
    ASSUME NEW g \in Nat \ {0}, NEW rates \in [Metric -> Int], NEW d \in Dimension,
           NEW x \in Points(rates, d, g)
    PROVE  x \in 0..DimensionPoints[d]
<1> DEFINE sum == WeightedSum(rates, d, g)
           num == 1000 * sum
           den == 120 * g
           weight == DimensionWeight[d]
<1>1. sum \in Nat /\ sum <= weight * g
    BY SumBounds DEF Dimension, DimensionWeight
<1>2. weight \in {55, 45, 20}
    BY DEF Dimension, DimensionWeight
<1>3. num \in Nat /\ den \in Nat \ {0}
    <2> HIDE DEF sum
    <2> QED BY <1>1
<1>4. x \in RoundedEitherWay(num, den)
    BY WeightsAddUp DEF Points, TrustScoreMax
<1>5. x \in Nat /\ 2 * (den * x) <= 2 * num + den
    <2> HIDE DEF num, den
    <2> QED BY <1>3, <1>4, RoundingIsNear
<1>6. num <= (1000 * weight) * g
    <2> HIDE DEF sum, weight
    <2>1. CASE weight = 55
        BY <1>1, <2>1
    <2>2. CASE weight = 45
        BY <1>1, <2>2
    <2>3. CASE weight = 20
        BY <1>1, <2>3
    <2> QED BY <1>2, <2>1, <2>2, <2>3
<1>7. (240 * x) * g <= (2000 * weight + 120) * g
    <2>1. 2 * (den * x) = (240 * x) * g
        BY <1>5
    <2>2. 2 * ((1000 * weight) * g) + den = (2000 * weight + 120) * g
        BY <1>2
    <2>3. (1000 * weight) * g \in Nat /\ (240 * x) * g \in Nat
        BY <1>2, <1>5
    <2> HIDE DEF num, weight
    <2>4. 2 * num + den <= 2 * ((1000 * weight) * g) + den
        BY <1>3, <1>6, <2>3
    <2> QED BY <1>3, <1>5, <2>1, <2>2, <2>4, <2>3
<1>8. 240 * x <= 2000 * weight + 120
    <2>1. 240 * x \in Nat /\ 2000 * weight + 120 \in Nat
        BY <1>2, <1>5
    <2> QED BY <1>7, <2>1, FactorCancels
<1> QED
    <2> HIDE DEF sum, num, den
    <2>1. CASE d = "trip"
        BY <1>5, <1>8, <2>1 DEF DimensionWeight, DimensionPoints
    <2>2. CASE d = "care"
        BY <1>5, <1>8, <2>2 DEF DimensionWeight, DimensionPoints
    <2>3. CASE d = "platform"
        BY <1>5, <1>8, <2>3 DEF DimensionWeight, DimensionPoints
    <2> QED BY <2>1, <2>2, <2>3 DEF Dimension
-----------------------------------------------------------------------------
(* The record keeps its types; the breakdown is the score.                 *)

LEMMA RatesAreNumbers == Rates \subseteq Int
    BY DriverRecordAssumption DEF Rates, NaN

\* A rate that improves stays a rate: it had somewhere to go.
LEMMA RecordKeepsItsTypes == Spec => []IInv
<1>1. ASSUME Init PROVE IInv
    <2>1. PICK r \in [Moving -> (0..Grain) \cup {NaN}] :
             metrics = [m \in Metric |-> IF m \in Moving THEN r[m] ELSE Perfect(m)]
        BY <1>1 DEF Init
    <2>2. \A m \in Metric : Perfect(m) \in Rates
        BY DriverRecordAssumption DEF Perfect, Rates
    <2>3. metrics \in [Metric -> Rates]
        BY <2>1, <2>2 DEF Rates
    <2> QED BY <1>1, <2>3, DriverRecordAssumption DEF Init, IInv
<1>2. ASSUME IInv, [Next]_vars PROVE IInv'
    <2>1. ASSUME NEW m \in Moving, Improve(m) PROVE IInv'
        <3>1. m \in Metric /\ metrics[m] \in Rates
            BY <1>2, DriverRecordAssumption DEF IInv
        <3>2. (IF m \in FailureRates THEN metrics[m] - 1 ELSE metrics[m] + 1) \in Rates
            BY <2>1, <3>1, DriverRecordAssumption DEF Improve, Perfect, Rates, NaN
        <3> QED BY <1>2, <2>1, <3>1, <3>2 DEF Improve, IInv
    <2>2. CASE DriveMore
        BY <1>2, <2>2, DriverRecordAssumption DEF DriveMore, IInv
    <2>3. CASE StayLonger
        BY <1>2, <2>3, DriverRecordAssumption DEF StayLonger, IInv
    <2>4. CASE UNCHANGED vars
        BY <1>2, <2>4 DEF vars, IInv
    <2> QED BY <1>2, <2>1, <2>2, <2>3, <2>4 DEF Next
<1> QED BY <1>1, <1>2, PTL DEF Spec

\* However the halves are rounded, the three dimensions together stay on the scale.
LEMMA BreakdownsFitTheScale ==
    ASSUME NEW g \in Nat \ {0}, NEW rates \in [Metric -> Int], NEW b \in Breakdowns(rates, g)
    PROVE  /\ b = [trip |-> b.trip, care |-> b.care, platform |-> b.platform]
           /\ \A d \in Dimension : b[d] \in Points(rates, d, g) /\ b[d] \in Nat
           /\ b.trip + b.care + b.platform \in 0..1000
           /\ TrustScore(b) = b.trip + b.care + b.platform
<1>1. PICK t \in Points(rates, "trip", g), c \in Points(rates, "care", g),
           p \in Points(rates, "platform", g) :
              b = [trip |-> t, care |-> c, platform |-> p]
    BY DEF Breakdowns
<1>2. t \in 0..458
    BY PointsBounds DEF Dimension, DimensionPoints
<1>3. c \in 0..375
    BY PointsBounds DEF Dimension, DimensionPoints
<1>4. p \in 0..167
    BY PointsBounds DEF Dimension, DimensionPoints
<1>5. b.trip + b.care + b.platform \in 0..1000
    BY <1>1, <1>2, <1>3, <1>4
<1>6. TrustScore(b) = b.trip + b.care + b.platform
    BY <1>5 DEF TrustScore, ClampScore, TrustScoreMax
<1>7. b["trip"] = t /\ b["care"] = c /\ b["platform"] = p
    BY <1>1
<1> QED BY <1>1, <1>2, <1>3, <1>4, <1>5, <1>6, <1>7 DEF Dimension

\* The breakdown shown to a driver adds up to the score, for rates of any grain
\* and any metrics: clamping at 1000 never hides a point computeTrustScore gave.
THEOREM ScoreIsItsBreakdown == Spec => []BreakdownIsTheScore
<1>1. ASSUME IInv PROVE BreakdownIsTheScore
    <2>1. metrics \in [Metric -> Int] /\ Grain \in Nat \ {0}
        BY <1>1, RatesAreNumbers, DriverRecordAssumption DEF IInv
    <2> QED BY <2>1, BreakdownsFitTheScale DEF BreakdownIsTheScore
<1> QED BY <1>1, RecordKeepsItsTypes, PTL

-----------------------------------------------------------------------------
(* The tier is the weakest dimension's.                                    *)

Thresholds == {"score", "trips", "tenure"}

\* The thresholds rise with the tiers, and the lowest asks for nothing.
LEMMA ThresholdsRise ==
    /\ \A t \in TrustTier, x \in Thresholds : TrustTierThresholds[t][x] \in Nat
    /\ \A x \in Thresholds : TrustTierThresholds["FOUNDATION"][x] = 0
    /\ \A t, u \in TrustTier, x \in Thresholds :
          TrustTierRank[t] <= TrustTierRank[u] =>
             TrustTierThresholds[t][x] <= TrustTierThresholds[u][x]
<1>1. \A x \in Thresholds :
         /\ TrustTierThresholds["FOUNDATION"][x] = 0
         /\ TrustTierThresholds["ESTABLISHED"][x] \in Nat
         /\ TrustTierThresholds["TRUSTED"][x] \in Nat
         /\ TrustTierThresholds["ELITE"][x] \in Nat
         /\ TrustTierThresholds["CERTIFIED"][x] \in Nat
         /\ TrustTierThresholds["ESTABLISHED"][x] <= TrustTierThresholds["TRUSTED"][x]
         /\ TrustTierThresholds["TRUSTED"][x] <= TrustTierThresholds["ELITE"][x]
         /\ TrustTierThresholds["ELITE"][x] <= TrustTierThresholds["CERTIFIED"][x]
    BY DEF TrustTierThresholds, Threshold, Thresholds
<1>2. /\ TrustTierRank["FOUNDATION"] = 0 /\ TrustTierRank["ESTABLISHED"] = 1
      /\ TrustTierRank["TRUSTED"] = 2 /\ TrustTierRank["ELITE"] = 3
      /\ TrustTierRank["CERTIFIED"] = 4
    BY DEF TrustTierRank
<1> QED BY <1>1, <1>2 DEF TrustTier

\* The ranks number the tiers from 0 to 4.
LEMMA RanksNumberTheTiers ==
    /\ \A t \in TrustTier : TrustTierRank[t] \in 0..4
    /\ \A t, u \in TrustTier : TrustTierRank[t] = TrustTierRank[u] => t = u
    /\ \A k \in 0..4 : \E t \in TrustTier : TrustTierRank[t] = k
    BY DEF TrustTierRank, TrustTier

\* A set of ranks has a greatest.
LEMMA MaxRank ==
    ASSUME NEW S \in SUBSET (0..4), S # {}
    PROVE  Max(S) \in S /\ \A k \in S : k <= Max(S)
<1>1. \E k \in S : \A l \in S : k >= l
    <2>1. \A k \in S : k \in Int /\ (k = 0 \/ k = 1 \/ k = 2 \/ k = 3 \/ k = 4)
        OBVIOUS
    <2>2. CASE 4 \in S
        BY <2>1, <2>2
    <2>3. CASE 3 \in S /\ 4 \notin S
        BY <2>1, <2>3
    <2>4. CASE 2 \in S /\ 4 \notin S /\ 3 \notin S
        BY <2>1, <2>4
    <2>5. CASE 1 \in S /\ 4 \notin S /\ 3 \notin S /\ 2 \notin S
        BY <2>1, <2>5
    <2>6. CASE 0 \in S /\ 4 \notin S /\ 3 \notin S /\ 2 \notin S /\ 1 \notin S
        BY <2>1, <2>6
    <2> QED BY <2>1, <2>2, <2>3, <2>4, <2>5, <2>6
<1> QED BY <1>1 DEF Max

\* And a least.
LEMMA MinRank ==
    ASSUME NEW S \in SUBSET (0..4), S # {}
    PROVE  Min(S) \in S /\ \A k \in S : Min(S) <= k
<1>1. \E k \in S : \A l \in S : k <= l
    <2>1. \A k \in S : k \in Int /\ (k = 0 \/ k = 1 \/ k = 2 \/ k = 3 \/ k = 4)
        OBVIOUS
    <2>2. CASE 0 \in S
        BY <2>1, <2>2
    <2>3. CASE 1 \in S /\ 0 \notin S
        BY <2>1, <2>3
    <2>4. CASE 2 \in S /\ 0 \notin S /\ 1 \notin S
        BY <2>1, <2>4
    <2>5. CASE 3 \in S /\ 0 \notin S /\ 1 \notin S /\ 2 \notin S
        BY <2>1, <2>5
    <2>6. CASE 4 \in S /\ 0 \notin S /\ 1 \notin S /\ 2 \notin S /\ 3 \notin S
        BY <2>1, <2>6
    <2> QED BY <2>1, <2>2, <2>3, <2>4, <2>5, <2>6
<1> QED BY <1>1 DEF Min

\* A tier is within one threshold exactly when it ranks no higher than that
\* threshold allows.
LEMMA RankByIsExact ==
    ASSUME NEW x \in Thresholds, NEW amount \in Nat
    PROVE  /\ RankBy(x, amount) \in 0..4
           /\ \A t \in TrustTier :
                 TrustTierThresholds[t][x] <= amount <=> TrustTierRank[t] <= RankBy(x, amount)
<1> DEFINE within == {u \in TrustTier : TrustTierThresholds[u][x] <= amount}
           ranks == {TrustTierRank[t] : t \in within}
<1>1. "FOUNDATION" \in within
    BY ThresholdsRise DEF TrustTier
<1>2. ranks \in SUBSET (0..4) /\ ranks # {}
    BY <1>1, RanksNumberTheTiers
<1>3. RankBy(x, amount) = Max(ranks)
    BY DEF RankBy
<1>4. RankBy(x, amount) \in ranks /\ \A k \in ranks : k <= RankBy(x, amount)
    BY <1>2, <1>3, MaxRank
<1>5. PICK top \in TrustTier : /\ TrustTierThresholds[top][x] <= amount
                               /\ TrustTierRank[top] = RankBy(x, amount)
    BY <1>4
<1>6. ASSUME NEW t \in TrustTier, TrustTierRank[t] <= RankBy(x, amount)
      PROVE  TrustTierThresholds[t][x] <= amount
    BY <1>5, <1>6, ThresholdsRise
<1>7. ASSUME NEW t \in TrustTier, TrustTierThresholds[t][x] <= amount
      PROVE  TrustTierRank[t] <= RankBy(x, amount)
    BY <1>4, <1>7
<1> QED BY <1>2, <1>4, <1>6, <1>7
\* The tier the walk of TRUST_TIER_ORDER stops at is the weakest dimension's.
LEMMA TierIsTheWeakest ==
    ASSUME NEW s \in Nat, NEW n \in Nat, NEW k \in Nat
    PROVE  /\ ResolveTrustTier(s, n, k) \in TrustTier
           /\ TrustTierRank[ResolveTrustTier(s, n, k)] =
                 Min({RankBy("score", s), RankBy("trips", n), RankBy("tenure", k)})
<1> DEFINE caps == {RankBy("score", s), RankBy("trips", n), RankBy("tenure", k)}
           least == Min(caps)
           tiers == Qualifying(s, n, k)
<1>1. caps \in SUBSET (0..4) /\ caps # {}
    BY RankByIsExact DEF Thresholds
<1>2. least \in 0..4 /\ least \in caps /\ \A c \in caps : least <= c
    BY <1>1, MinRank
<1>3. \A t \in TrustTier : t \in tiers <=> TrustTierRank[t] <= least
    <2> TAKE t \in TrustTier
    <2>1. t \in tiers <=> \A c \in caps : TrustTierRank[t] <= c
        BY RankByIsExact DEF Qualifying, Thresholds
    <2>2. TrustTierRank[t] \in 0..4
        BY RanksNumberTheTiers
    <2> HIDE DEF caps, least, tiers
    <2>3. (\A c \in caps : TrustTierRank[t] <= c) <=> TrustTierRank[t] <= least
        BY <1>1, <1>2, <2>2
    <2> QED BY <2>1, <2>3
<1>4. tiers \subseteq TrustTier
    BY DEF Qualifying
<1>5. PICK top \in TrustTier : TrustTierRank[top] = least
    BY <1>2, RanksNumberTheTiers
<1> HIDE DEF caps, least, tiers
<1>6. top \in tiers /\ \A other \in tiers : TrustTierRank[other] <= TrustTierRank[top]
    BY <1>2, <1>3, <1>4, <1>5
<1>7. ResolveTrustTier(s, n, k) =
         CHOOSE tier \in tiers : \A other \in tiers : TrustTierRank[other] <= TrustTierRank[tier]
    BY <1>6 DEF ResolveTrustTier, tiers
<1>8. /\ ResolveTrustTier(s, n, k) \in tiers
      /\ TrustTierRank[top] <= TrustTierRank[ResolveTrustTier(s, n, k)]
    BY <1>6, <1>7
<1>9. TrustTierRank[ResolveTrustTier(s, n, k)] = least
    BY <1>2, <1>3, <1>4, <1>5, <1>8, RanksNumberTheTiers
<1> QED BY <1>4, <1>8, <1>9 DEF least, caps

\* resolveTrustTier gives no driver a tier that one of score, trips and tenure
\* does not allow, and holds no driver below what all three allow.
THEOREM WeakestDimensionDecides == Spec => []WeakestDimensionCaps
<1>1. ASSUME IInv PROVE WeakestDimensionCaps
    <2>1. metrics \in [Metric -> Int] /\ Grain \in Nat \ {0}
        BY <1>1, RatesAreNumbers, DriverRecordAssumption DEF IInv
    <2>2. \A score \in Scores : score \in Nat
        BY <2>1, BreakdownsFitTheScale DEF Scores
    <2> QED BY <1>1, <2>2, TierIsTheWeakest DEF WeakestDimensionCaps, IInv
<1> QED BY <1>1, RecordKeepsItsTypes, PTL

-----------------------------------------------------------------------------
(* Getting better never costs anything.                                    *)

\* More of what a threshold asks for never allows less.
LEMMA RankByRises ==
    ASSUME NEW x \in Thresholds, NEW low \in Nat, NEW high \in Nat, low <= high
    PROVE  RankBy(x, low) <= RankBy(x, high)
<1>1. PICK t \in TrustTier : TrustTierRank[t] = RankBy(x, low)
    BY RankByIsExact, RanksNumberTheTiers
<1>2. RankBy(x, low) \in 0..4
    BY RankByIsExact
<1>3. TrustTierThresholds[t][x] <= low
    BY <1>1, <1>2, RankByIsExact
<1>4. TrustTierThresholds[t][x] <= high
    BY <1>3, ThresholdsRise
<1> QED BY <1>1, <1>4, RankByIsExact

\* A record no worse in score, trips and tenure ranks no lower.
LEMMA TierRises ==
    ASSUME NEW s \in Nat, NEW n \in Nat, NEW k \in Nat,
           NEW better_s \in Nat, NEW better_n \in Nat, NEW better_k \in Nat,
           s <= better_s, n <= better_n, k <= better_k
    PROVE  TrustTierRank[ResolveTrustTier(s, n, k)]
              <= TrustTierRank[ResolveTrustTier(better_s, better_n, better_k)]
<1> DEFINE caps == {RankBy("score", s), RankBy("trips", n), RankBy("tenure", k)}
           betterCaps == {RankBy("score", better_s), RankBy("trips", better_n),
                          RankBy("tenure", better_k)}
<1>1. /\ RankBy("score", s) <= RankBy("score", better_s)
      /\ RankBy("trips", n) <= RankBy("trips", better_n)
      /\ RankBy("tenure", k) <= RankBy("tenure", better_k)
    BY RankByRises DEF Thresholds
<1>2. caps \in SUBSET (0..4) /\ caps # {} /\ betterCaps \in SUBSET (0..4) /\ betterCaps # {}
    BY RankByIsExact DEF Thresholds
<1>3. Min(caps) \in 0..4 /\ Min(betterCaps) \in betterCaps /\ \A c \in caps : Min(caps) <= c
    BY <1>2, MinRank
<1>4. \A better \in betterCaps : \E c \in caps : c \in 0..4 /\ better \in 0..4 /\ c <= better
    BY <1>1, <1>2
<1>5. Min(caps) <= Min(betterCaps)
    <2> HIDE DEF caps, betterCaps
    <2> QED BY <1>3, <1>4
<1> QED BY <1>5, TierIsTheWeakest

\* A tier that ranks no lower unlocks no fewer vehicles and keeps no less of the fare.
LEMMA RankIsWorthIt ==
    ASSUME NEW t \in TrustTier, NEW u \in TrustTier, TrustTierRank[t] <= TrustTierRank[u]
    PROVE  /\ VehicleTierAccess[t] \subseteq VehicleTierAccess[u]
           /\ DriverKeepRate(t) <= DriverKeepRate(u)
<1>1. /\ VehicleTierAccess["FOUNDATION"] \subseteq VehicleTierAccess["ESTABLISHED"]
      /\ VehicleTierAccess["ESTABLISHED"] \subseteq VehicleTierAccess["TRUSTED"]
      /\ VehicleTierAccess["TRUSTED"] \subseteq VehicleTierAccess["ELITE"]
      /\ VehicleTierAccess["ELITE"] \subseteq VehicleTierAccess["CERTIFIED"]
    BY DEF VehicleTierAccess
<1>2. VehicleTierAccess[t] \subseteq VehicleTierAccess[u]
    BY <1>1 DEF TrustTierRank, TrustTier
<1>3. DriverKeepRate(t) <= DriverKeepRate(u)
    BY DEF TrustTierRank, TrustTier, DriverKeepRate
<1> QED BY <1>2, <1>3

\* A metric that counts for more, the others as they were, raises its dimension's sum.
LEMMA SumFollowsCredit ==
    ASSUME NEW g \in Nat \ {0}, NEW rates \in [Metric -> Int], NEW better \in [Metric -> Int],
           NEW m \in Metric, Credit(rates, m, g) < Credit(better, m, g),
           \A other \in Metric \ {m} : Credit(rates, other, g) = Credit(better, other, g)
    PROVE  WeightedSum(rates, SubMetrics[m].dimension, g)
              < WeightedSum(better, SubMetrics[m].dimension, g)
<1>1. \A o \in Metric : Credit(rates, o, g) \in Nat /\ Credit(better, o, g) \in Nat
    BY CreditBounds, TheTable
<1>2. m \in {"passengerRatingAvg", "tripCompletionRate", "cancellationRate",
             "onTimePickupRate"}
         => WeightedSum(rates, "trip", g) < WeightedSum(better, "trip", g)
    BY <1>1, TheSums, TheMetrics
<1>3. m \in {"postTripConditionAvg", "fuelComplianceRate", "mileageCapAdherenceRate",
             "zeroDamageStreakScore"}
         => WeightedSum(rates, "care", g) < WeightedSum(better, "care", g)
    BY <1>1, TheSums, TheMetrics
<1>4. m \in {"responseTimeScore", "ownerCommunicationScore", "disputeRate",
             "accountConsistencyScore"}
         => WeightedSum(rates, "platform", g) < WeightedSum(better, "platform", g)
    BY <1>1, TheSums, TheMetrics
<1> QED BY <1>2, <1>3, <1>4, TheMetrics DEF SubMetrics, SubMetric
\* Improving a metric makes it count for more: a lower rate of failures, a higher
\* rate of anything else.
LEMMA ImprovingCounts ==
    ASSUME IInv, NEW m \in Moving, Improve(m)
    PROVE  /\ m \in Metric
           /\ \A other \in Metric \ {m} : metrics'[other] = metrics[other]
           /\ Credit(metrics, m, Grain) < Credit(metrics', m, Grain)
<1>1. m \in Metric /\ metrics[m] \in Rates /\ Grain \in Nat \ {0}
    BY DriverRecordAssumption DEF IInv
<1>2. /\ metrics'[m] = IF m \in FailureRates THEN metrics[m] - 1 ELSE metrics[m] + 1
      /\ \A other \in Metric \ {m} : metrics'[other] = metrics[other]
    BY <1>1 DEF Improve, IInv
<1> DEFINE weight == SubMetrics[m].weight
           worth == IF m \in Inverted THEN Grain - Clamp(metrics[m], Grain)
                                      ELSE Clamp(metrics[m], Grain)
           better == IF m \in Inverted THEN Grain - Clamp(metrics'[m], Grain)
                                       ELSE Clamp(metrics'[m], Grain)
<1>3. metrics[m] \in 0..Grain /\ metrics[m] # Perfect(m)
    BY <1>1 DEF Improve, Rates
<1>4. worth \in Nat /\ better = worth + 1
    BY <1>1, <1>2, <1>3 DEF Clamp, Inverted, FailureRates, Perfect
<1>5. weight \in 1..20
    BY <1>1, TheTable
<1>6. weight * worth < weight * better
    <2> HIDE DEF weight, worth, better
    <2>1. \A w \in 1..20, k \in Nat : w * k < w * (k + 1)
        OBVIOUS
    <2> QED BY <1>4, <1>5, <2>1
<1> QED BY <1>1, <1>2, <1>6 DEF Credit

\* Nor does any step cost points, of the same rounding of the same metrics.
LEMMA NoStepCostsPoints ==
    ASSUME IInv, IInv', [Next]_vars,
           NEW b \in Breakdowns(metrics, Grain), NEW better \in Breakdowns(metrics', Grain),
           \A d \in Dimension : Untouched(d) => better[d] = b[d]
    PROVE  TrustScore(b) \in Nat /\ TrustScore(better) \in Nat
              /\ TrustScore(b) <= TrustScore(better)
<1>1. /\ metrics \in [Metric -> Int] /\ metrics' \in [Metric -> Int]
      /\ Grain \in Nat \ {0}
    BY RatesAreNumbers, DriverRecordAssumption DEF IInv
<1>2. /\ \A d \in Dimension : b[d] \in Points(metrics, d, Grain) /\ b[d] \in Nat
      /\ TrustScore(b) = b.trip + b.care + b.platform
    BY <1>1, BreakdownsFitTheScale
<1>3. /\ \A d \in Dimension : better[d] \in Points(metrics', d, Grain) /\ better[d] \in Nat
      /\ TrustScore(better) = better.trip + better.care + better.platform
    BY <1>1, BreakdownsFitTheScale
<1>4. \A d \in Dimension : b[d] <= better[d]
    <2>1. CASE UNCHANGED metrics
        BY <1>2, <2>1 DEF Untouched
    <2>2. ASSUME NEW m \in Moving, Improve(m) PROVE \A d \in Dimension : b[d] <= better[d]
        <3> DEFINE touched == SubMetrics[m].dimension
        <3>1. /\ m \in Metric
              /\ \A other \in Metric \ {m} : metrics'[other] = metrics[other]
              /\ Credit(metrics, m, Grain) < Credit(metrics', m, Grain)
            BY <2>2, ImprovingCounts
        <3>2. \A d \in Dimension \ {touched} : Untouched(d)
            BY <3>1 DEF Untouched
        <3>3. \A other \in Metric \ {m} :
                 Credit(metrics, other, Grain) = Credit(metrics', other, Grain)
            BY <3>1 DEF Credit
        <3>4. WeightedSum(metrics, touched, Grain) < WeightedSum(metrics', touched, Grain)
            BY <1>1, <3>1, <3>3, SumFollowsCredit
        <3>5. touched \in Dimension
            BY <3>1, TheTable
        <3>6. b[touched] <= better[touched]
            <4> DEFINE low == WeightedSum(metrics, touched, Grain)
                       high == WeightedSum(metrics', touched, Grain)
            <4>1. low \in Nat /\ high \in Nat
                BY <1>1, <3>5, SumBounds
            <4>2. /\ b[touched] \in RoundedEitherWay(1000 * low, 120 * Grain)
                  /\ better[touched] \in RoundedEitherWay(1000 * high, 120 * Grain)
                BY <1>2, <1>3, <3>5, WeightsAddUp DEF Points, TrustScoreMax
            <4> HIDE DEF low, high, touched
            <4>3. 1000 * low \in Nat /\ 1000 * high \in Nat /\ 1000 * low < 1000 * high
                  /\ 120 * Grain \in Nat \ {0}
                BY <1>1, <3>4, <4>1 DEF low, high
            <4> QED BY <4>2, <4>3, RoundingKeepsOrder
        <3> QED BY <1>2, <3>2, <3>6
    <2> QED BY <2>1, <2>2 DEF Next, DriveMore, StayLonger, vars
<1> QED BY <1>2, <1>3, <1>4 DEF Dimension

\* However fine the rates are, a driver who improves a metric, drives more or
\* stays longer loses no points, no tier, no vehicle and no part of the fare.
THEOREM GettingBetterNeverCosts == Spec => BetterNeverCosts
<1>1. ASSUME IInv, IInv', [Next]_vars,
             NEW b \in Breakdowns(metrics, Grain), NEW better \in Breakdowns(metrics', Grain),
             \A d \in Dimension : Untouched(d) => better[d] = b[d]
      PROVE  LET before == TrustScore(b)
                 after  == TrustScore(better)
             IN  /\ before <= after
                 /\ TrustTierRank[Tier(before)] <= TrustTierRank[Tier(after)']
                 /\ VehicleTierAccess[Tier(before)] \subseteq VehicleTierAccess[Tier(after)']
                 /\ DriverKeepRate(Tier(before)) <= DriverKeepRate(Tier(after)')
    <2> DEFINE before == TrustScore(b)
               after == TrustScore(better)
    <2>1. before \in Nat /\ after \in Nat /\ before <= after
        BY <1>1, NoStepCostsPoints
    <2>2. /\ trips \in Nat /\ trips' \in Nat /\ trips <= trips'
          /\ tenure \in Nat /\ tenure' \in Nat /\ tenure <= tenure'
        BY <1>1 DEF IInv, Next, Improve, DriveMore, StayLonger, vars
    <2>3. ASSUME NEW s \in Nat, NEW more \in Nat, s <= more
          PROVE  /\ Tier(s) \in TrustTier /\ Tier(more)' \in TrustTier
                 /\ TrustTierRank[Tier(s)] <= TrustTierRank[Tier(more)']
        <3>1. Tier(s) = ResolveTrustTier(s, trips, tenure)
            BY DEF Tier
        <3>2. Tier(more)' = ResolveTrustTier(more, trips', tenure')
            BY DEF Tier
        <3>3. ResolveTrustTier(s, trips, tenure) \in TrustTier
            BY <2>2, TierIsTheWeakest
        <3>4. ResolveTrustTier(more, trips', tenure') \in TrustTier
            BY <2>2, TierIsTheWeakest
        <3>5. TrustTierRank[ResolveTrustTier(s, trips, tenure)]
                 <= TrustTierRank[ResolveTrustTier(more, trips', tenure')]
            BY <2>2, <2>3, TierRises
        <3> QED BY <3>1, <3>2, <3>3, <3>4, <3>5
    <2> QED BY <2>1, <2>3, RankIsWorthIt
<1>2. ASSUME IInv, IInv', [Next]_vars
      PROVE  \A b \in Breakdowns(metrics, Grain), better \in Breakdowns(metrics', Grain) :
                (\A d \in Dimension : Untouched(d) => better[d] = b[d]) =>
                   LET before == TrustScore(b)
                       after  == TrustScore(better)
                   IN  /\ before <= after
                       /\ TrustTierRank[Tier(before)] <= TrustTierRank[Tier(after)']
                       /\ VehicleTierAccess[Tier(before)]
                             \subseteq VehicleTierAccess[Tier(after)']
                       /\ DriverKeepRate(Tier(before)) <= DriverKeepRate(Tier(after)')
    BY <1>1, <1>2
<1> QED BY <1>2, RecordKeepsItsTypes, PTL DEF Spec, BetterNeverCosts

=============================================================================
