---------------------------- MODULE DriverRecord ----------------------------
(***************************************************************************)
(* A driver's record as it improves, seen through the Trust Engine         *)
(* (TrustService delegates to packages/shared/src/trust.ts): the score it  *)
(* is worth, the tier it earns, and what that tier unlocks.  The record is *)
(* external: no code in the repository accumulates metrics yet, so each    *)
(* step here is one thing a driver gets better at.                         *)
(***************************************************************************)
EXTENDS Payout, FiniteSetsExt

CONSTANTS
    Grain,         \* a rate is a multiple of 1/Grain (a bound)
    Moving,        \* the metrics that vary; the others are perfect (a bound)
    TripCounts,    \* completed trips (a bound on the inputs)
    Tenures        \* months (a bound on the inputs)

ASSUME DriverRecordAssumption ==
    /\ Grain \in Nat \ {0}
    /\ Moving \subseteq Metric
    /\ TripCounts \subseteq Nat
    /\ Tenures \subseteq Nat

VARIABLES
    metrics,   \* TrustMetrics: a rate each, or NaN (0/0, a driver without data)
    trips,     \* completedTrips
    tenure     \* tenureMonths

vars == <<metrics, trips, tenure>>

\* The metrics passed as raw rates where lower is better.
FailureRates == {"cancellationRate", "disputeRate"}

Perfect(m) == IF m \in FailureRates THEN 0 ELSE Grain

Init ==
    /\ \E rates \in [Moving -> (0..Grain) \cup {NaN}] :
          metrics = [m \in Metric |-> IF m \in Moving THEN rates[m] ELSE Perfect(m)]
    /\ trips \in TripCounts
    /\ tenure \in Tenures

\* What trust.ts makes of it.
Scores == {TrustScore(b) : b \in Breakdowns(metrics, Grain)}

Tier(score) == ResolveTrustTier(score, trips, tenure)

-----------------------------------------------------------------------------
\* One rate gets better by a grain: higher, or lower for a rate of failures.
Improve(m) ==
    /\ metrics[m] # NaN /\ metrics[m] # Perfect(m)
    /\ metrics' = [metrics EXCEPT ![m] = IF m \in FailureRates
                                         THEN @ - 1 ELSE @ + 1]
    /\ UNCHANGED <<trips, tenure>>

DriveMore ==
    /\ trips' \in {n \in TripCounts : n > trips}
    /\ UNCHANGED <<metrics, tenure>>

StayLonger ==
    /\ tenure' \in {n \in Tenures : n > tenure}
    /\ UNCHANGED <<metrics, trips>>

Next == (\E m \in Moving : Improve(m)) \/ DriveMore \/ StayLonger

Spec == Init /\ [][Next]_vars

-----------------------------------------------------------------------------
(* Properties.                                                             *)

\* The breakdown shown to the driver adds up to the score, point for point: the
\* three roundings never carry it past the scale, where clamping would hide points.
BreakdownIsTheScore ==
    \A b \in Breakdowns(metrics, Grain) : TrustScore(b) = b.trip + b.care + b.platform

\* The best rank one of the three thresholds allows on its own.
RankBy(threshold, amount) ==
    Max({TrustTierRank[t] : t \in {u \in TrustTier :
                                      TrustTierThresholds[u][threshold] <= amount}})

\* The tier is capped by the weakest of score, trips and tenure, and by nothing
\* else: no combination slips past one threshold or falls a tier short.
WeakestDimensionCaps ==
    \A score \in Scores :
        TrustTierRank[ResolveTrustTier(score, trips, tenure)] =
            Min({RankBy("score", score), RankBy("trips", trips), RankBy("tenure", tenure)})

\* The metrics of a dimension are what they were.
Untouched(dimension) ==
    \A m \in Metric : SubMetrics[m].dimension = dimension => metrics'[m] = metrics[m]

\* Getting better at anything never costs points, a tier, a vehicle the driver
\* could book before, or a part of the fare.  (The same metrics are always worth
\* the same points, on whichever side a half is rounded.)
BetterNeverCosts ==
    [][\A b \in Breakdowns(metrics, Grain), better \in Breakdowns(metrics', Grain) :
          (\A d \in Dimension : Untouched(d) => better[d] = b[d]) =>
             LET before == TrustScore(b)
                 after  == TrustScore(better)
             IN  /\ before <= after
                 /\ TrustTierRank[Tier(before)] <= TrustTierRank[Tier(after)']
                 /\ VehicleTierAccess[Tier(before)] \subseteq VehicleTierAccess[Tier(after)']
                 /\ DriverKeepRate(Tier(before)) <= DriverKeepRate(Tier(after)')]_vars

=============================================================================
