------------------------------- MODULE Payout -------------------------------
(***************************************************************************)
(* The payout engine: computePayout of packages/shared/src/payout.ts, with *)
(* the rates of trust.ts and owner.ts and the insurance cost that          *)
(* InsuranceService prorates to the trip.  Money is in minor units, rates  *)
(* are in ten-thousandths (the code rounds them to four decimals).         *)
(*                                                                         *)
(* The code evaluates Math.round(gross * rate) in floating point.  For the  *)
(* rates of these tables and a gross up to 2 * 10^8 a floating-point error  *)
(* never carries a product across a half, so the result is the exact        *)
(* rounding below; the largest gross modelled is far smaller.               *)
(***************************************************************************)
EXTENDS Trust

CONSTANT MaxSafeInteger   \* Number.MAX_SAFE_INTEGER

ASSUME MaxSafeIntegerAssumption == MaxSafeInteger \in Nat

Unit == 10000

\* Math.round(amount * rate): to the nearest, a half upwards.
AtRate(amount, rate) == (amount * rate + Unit \div 2) \div Unit

\* assertMinorUnits, and the sign check that follows it.
IsAmount(amount) == amount \in 0..MaxSafeInteger

\* DRIVER_KEEP_RATE.
DriverKeepRate(driverTier) ==
    [FOUNDATION |-> 8800, ESTABLISHED |-> 8900, TRUSTED |-> 9000, ELITE |-> 9100,
     CERTIFIED |-> 9300][driverTier]

PlatformDriverTakeRate(driverTier) == Unit - DriverKeepRate(driverTier)

\* OWNER_TIER_ORDER.
OwnerTierRank == [LISTED |-> 0, ACTIVE |-> 1, PREMIER |-> 2, ELITE_FLEET |-> 3]

\* OWNER_BASE_ACCESS_RATE.
OwnerBaseAccessRate ==
    [STANDARD |-> 400, EV_STANDARD |-> 400, XL_SUV |-> 450, COMFORT |-> 500,
     PREMIUM |-> 550, LUXURY |-> 600, EXOTIC |-> 650]

\* OWNER_LOYALTY_BONUS.
OwnerLoyaltyBonus == [LISTED |-> 0, ACTIVE |-> 100, PREMIER |-> 200, ELITE_FLEET |-> 300]

\* Mutation of OwnerAccessShareRate: the bonus is a handicap.
OwnerAccessShareRateReversed(ownerTier, vehicleTier) ==
    OwnerBaseAccessRate[vehicleTier] + OwnerLoyaltyBonus["ELITE_FLEET"]
        - OwnerLoyaltyBonus[ownerTier]

OwnerAccessShareRate(ownerTier, vehicleTier) ==
    OwnerBaseAccessRate[vehicleTier] + OwnerLoyaltyBonus[ownerTier]

\* WEEKLY_COST_BY_TIER_CENTS of the (mock) insurance provider.
WeeklyCostByTier ==
    [STANDARD |-> 4500, EV_STANDARD |-> 4800, XL_SUV |-> 5200, COMFORT |-> 6000,
     PREMIUM |-> 9000, LUXURY |-> 18000, EXOTIC |-> 35000]

\* prorateWeeklyCostToTrip; a trip lasts a number of hours here.
Week == 7 * 24

Prorate(weeklyCost, duration) ==
    IF duration <= 0 THEN 0 ELSE (weeklyCost * duration + Week \div 2) \div Week

\* A completed paid trip, as computePayout receives it.
PayoutInput ==
    [gross: Int, insuranceCost: Int, driverTier: TrustTier, ownerTier: OwnerTier,
     vehicleTier: VehicleTier]

\* assertMinorUnits and the negative checks: anything else is a MoneyError.
Payable(input) == IsAmount(input.gross) /\ IsAmount(input.insuranceCost)

\* PayoutBreakdown; the rates it records for audit are left out.
Breakdown(driverShare, ownerShare, platformGross, cost) ==
    [driverShare   |-> driverShare,
     ownerShare    |-> ownerShare,
     platformGross |-> platformGross,
     platformNet   |-> platformGross - cost,
     flagged       |-> platformGross - cost < 0]

\* Mutation of ComputePayout: the driver's share is rounded on its own.
ComputePayoutRoundingEach(input) ==
    LET take  == AtRate(input.gross, PlatformDriverTakeRate(input.driverTier))
        owner == AtRate(input.gross,
                        OwnerAccessShareRate(input.ownerTier, input.vehicleTier))
        driver == AtRate(input.gross, DriverKeepRate(input.driverTier))
    IN  Breakdown(driver, owner, take - owner, input.insuranceCost)

\* Mutation of ComputePayout: the flag looks at the take before insurance.
ComputePayoutFlaggingGross(input) ==
    LET take  == AtRate(input.gross, PlatformDriverTakeRate(input.driverTier))
        owner == AtRate(input.gross,
                        OwnerAccessShareRate(input.ownerTier, input.vehicleTier))
    IN  [Breakdown(input.gross - take, owner, take - owner, input.insuranceCost)
            EXCEPT !.flagged = take - owner < 0]

\* computePayout: the driver keeps what the platform's take leaves, and the
\* owner's share is carved from the take.
ComputePayout(input) ==
    LET take  == AtRate(input.gross, PlatformDriverTakeRate(input.driverTier))
        owner == AtRate(input.gross,
                        OwnerAccessShareRate(input.ownerTier, input.vehicleTier))
    IN  Breakdown(input.gross - take, owner, take - owner, input.insuranceCost)

\* payoutStatusFor.
PayoutStatusFor(breakdown) == IF breakdown.flagged THEN "FLAGGED_REVIEW" ELSE "PENDING"

=============================================================================
