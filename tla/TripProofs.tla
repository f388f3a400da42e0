------------------------------ MODULE TripProofs ------------------------------
(***************************************************************************)
(* The safety of a trip: its booking (Booking) and the settlement of its   *)
(* money (Settlement, for every trip, however many attempts).  The code    *)
(* has no caller that joins the two yet, so the theorems are about each of *)
(* them by itself.                                                         *)
(*                                                                         *)
(* Of a booking, the inductive invariant says what it has been through by  *)
(* the time it is in a state: the history the properties ask about is a    *)
(* function of the edges of BOOKING_TRANSITIONS.  Of the money: the        *)
(* payout's arithmetic, from what AtRate keeps and bounds, and the         *)
(* disbursement's outcome, from an inductive invariant on the two          *)
(* concurrent transfers.                                                   *)
(***************************************************************************)
EXTENDS Booking, Settlement, TLAPS

-----------------------------------------------------------------------------
(* The booking.                                                            *)

\* The state of no booking is none of a booking's.
LEMMA NoneIsNoState == NoState \notin BookingState
    BY DEF NoState, BookingState

\* The states in which, and after which, the booking is insured.
Secured ==
    {"INSURANCE_BOUND", "CONFIRMED", "PICKUP_PENDING", "PICKUP_CONFIRMED", "IN_PROGRESS",
     "RETURN_PENDING", "RETURN_CONFIRMED", "CLAIM_WINDOW", "SETTLED"}

\* How far along a booking is: every edge of BOOKING_TRANSITIONS goes up.
Stage ==
    [REQUESTED |-> 0, OWNER_REVIEW |-> 1, APPROVED |-> 2, DECLINED |-> 2,
     INSURANCE_BOUND |-> 3, CONFIRMED |-> 4, PICKUP_PENDING |-> 5,
     PICKUP_CONFIRMED |-> 6, CANCELLED |-> 6, IN_PROGRESS |-> 7, RETURN_PENDING |-> 8,
     RETURN_CONFIRMED |-> 9, CLAIM_WINDOW |-> 10, SETTLED |-> 11]

\* After pickup the booking was there, and any other place it has been is behind it.
HistoryInv ==
    /\ state = NoState => visited = {}
    /\ state # NoState =>
          /\ state \in visited
          /\ \A s \in visited \ {state} : Stage[s] < Stage[state]
          /\ state \in Secured \ {"INSURANCE_BOUND", "CONFIRMED", "PICKUP_PENDING"}
                => "PICKUP_CONFIRMED" \in visited
          /\ CanBookVehicleTier(driverTier, vehicleTier)
          /\ visited \cap Secured # {} => bound

BookingInv == BookingTypeOK /\ HistoryInv

-----------------------------------------------------------------------------
\* The code's transition map, edge by edge.
LEMMA Edges ==
    ASSUME NEW from \in BookingState, NEW to \in BookingState,
           CanTransition(from, to)
    PROVE  <<from, to>> \in
              {<<"REQUESTED", "OWNER_REVIEW">>, <<"REQUESTED", "APPROVED">>,
               <<"REQUESTED", "CANCELLED">>, <<"OWNER_REVIEW", "APPROVED">>,
               <<"OWNER_REVIEW", "DECLINED">>, <<"OWNER_REVIEW", "CANCELLED">>,
               <<"APPROVED", "INSURANCE_BOUND">>, <<"APPROVED", "CANCELLED">>,
               <<"INSURANCE_BOUND", "CONFIRMED">>, <<"INSURANCE_BOUND", "CANCELLED">>,
               <<"CONFIRMED", "PICKUP_PENDING">>, <<"CONFIRMED", "CANCELLED">>,
               <<"PICKUP_PENDING", "PICKUP_CONFIRMED">>, <<"PICKUP_PENDING", "CANCELLED">>,
               <<"PICKUP_CONFIRMED", "IN_PROGRESS">>, <<"IN_PROGRESS", "RETURN_PENDING">>,
               <<"RETURN_PENDING", "RETURN_CONFIRMED">>, <<"RETURN_CONFIRMED", "SETTLED">>,
               <<"RETURN_CONFIRMED", "CLAIM_WINDOW">>, <<"CLAIM_WINDOW", "SETTLED">>}
    BY DEF CanTransition, BookingTransitions, BookingState

\* Every edge goes up.
LEMMA EdgesGoUp ==
    ASSUME NEW from \in BookingState, NEW to \in BookingState,
           CanTransition(from, to)
    PROVE  Stage[from] < Stage[to]
    BY Edges DEF Stage

\* Stages are numbers.
LEMMA StageIsNat == \A s \in BookingState : Stage[s] \in Nat
    BY DEF Stage, BookingState

\* The invariant holds of a booking nobody has requested.
LEMMA InitBookingInv == BookingInit => BookingInv
    BY DEF BookingInit, BookingInv, BookingTypeOK, HistoryInv, BookingState

\* Every guarded call preserves the invariant.
LEMMA NextBookingInv == BookingInv /\ [BookingNext]_bookingVars => BookingInv'
<1> SUFFICES ASSUME BookingInv, [BookingNext]_bookingVars PROVE BookingInv'
    OBVIOUS
<1> USE NoneIsNoState
<1>1. CASE Request
    <2>1. BookingTypeOK'
        BY <1>1 DEF Request, BookingInv, BookingTypeOK, BookingState
    <2>2. HistoryInv'
        BY <1>1 DEF Request, BookingInv, BookingTypeOK, HistoryInv, BookingState, Secured,
                    Stage, CanBookVehicleTier
    <2> QED BY <2>1, <2>2 DEF BookingInv
<1>2. CASE Bind
    BY <1>2 DEF Bind, BookingInv, BookingTypeOK, HistoryInv, CanBookVehicleTier
<1>3. ASSUME NEW to \in BookingState, Move(to) PROVE BookingInv'
    <2>1. state \in BookingState
        BY <1>3 DEF Move, BookingInv, BookingTypeOK
    <2>2. BookingTypeOK'
        BY <1>3 DEF Move, BookingInv, BookingTypeOK
    <2>3. HistoryInv'
        <3>1. state' # NoState /\ state' \in visited'
            BY <1>3 DEF Move
        <3>2. \A s \in visited' \ {state'} : Stage[s] < Stage[state']
            BY <1>3, <2>1, EdgesGoUp, StageIsNat DEF Move, BookingInv, BookingTypeOK, HistoryInv
        <3>3. state' \in Secured \ {"INSURANCE_BOUND", "CONFIRMED", "PICKUP_PENDING"}
                => "PICKUP_CONFIRMED" \in visited'
            BY <1>3, <2>1, Edges DEF Move, BookingInv, BookingTypeOK, HistoryInv, Secured
        <3>4. CanBookVehicleTier(driverTier, vehicleTier)'
            BY <1>3 DEF Move, BookingInv, HistoryInv, CanBookVehicleTier
        <3>5. visited' \cap Secured # {} => bound'
            BY <1>3, <2>1, Edges DEF Move, BookingInv, BookingTypeOK, HistoryInv, Secured
        <3> QED BY <3>1, <3>2, <3>3, <3>4, <3>5 DEF HistoryInv
    <2> QED BY <2>2, <2>3 DEF BookingInv
<1>4. CASE UNCHANGED bookingVars
    BY <1>4 DEF bookingVars, BookingInv, BookingTypeOK, HistoryInv, CanBookVehicleTier
<1> QED BY <1>1, <1>2, <1>3, <1>4 DEF BookingNext

\* BookingInv is an invariant.
LEMMA BookingInvariance == BookingSpec => []BookingInv
    BY InitBookingInv, NextBookingInv, PTL DEF BookingSpec

-----------------------------------------------------------------------------
\* Types: a booking is only ever in one of the fourteen states.
THEOREM BookingTypeCorrect == BookingSpec => []BookingTypeOK
<1>1. BookingInv => BookingTypeOK
    BY DEF BookingInv
<1> QED BY <1>1, BookingInvariance, PTL

\* No sequence of guarded calls puts an uninsured car, or one above the
\* driver's tier, on the road, nor settles such a trip.
THEOREM RoadIsInsured == BookingSpec => []InsuredOnTheRoad
<1>1. BookingInv => InsuredOnTheRoad
    BY NoneIsNoState DEF BookingInv, BookingTypeOK, HistoryInv, InsuredOnTheRoad, Secured
<1> QED BY <1>1, BookingInvariance, PTL

\* Reclaim by cancel is offered exactly until pickup is confirmed.
THEOREM ReclaimIsExact == BookingSpec => []ReclaimEndsAtPickup
<1>1. BookingInv => ReclaimEndsAtPickup
    <2> SUFFICES ASSUME BookingInv, state # NoState
                 PROVE  IsReclaimableByCancel(state)
                          <=> ~IsTerminal(state) /\ "PICKUP_CONFIRMED" \notin visited
        BY DEF ReclaimEndsAtPickup
    <2>1. state \in BookingState
        BY DEF BookingInv, BookingTypeOK
    <2> QED
        BY <2>1 DEF BookingInv, HistoryInv, IsReclaimableByCancel, IsTerminal,
                    BookingTransitions, BookingState, Secured, Stage
<1> QED BY <1>1, BookingInvariance, PTL

\* The terminal states are exactly those without a way out.
THEOREM TerminalIsExact == BookingSpec => []TerminalIsTheEnd
<1>1. BookingInv => TerminalIsTheEnd
    BY DEF BookingInv, BookingTypeOK, TerminalIsTheEnd, IsTerminal, CanTransition,
           BookingTransitions, BookingState
<1> QED BY <1>1, BookingInvariance, PTL

\* A booking never returns to a state it has left.
THEOREM NoReturn == BookingSpec => NeverBack
<1>1. BookingInv /\ [BookingNext]_bookingVars => [state' # state => state' \notin visited]_bookingVars
    <2> SUFFICES ASSUME BookingInv, BookingNext, state' # state
                 PROVE  state' \notin visited
        BY DEF bookingVars
    <2> USE NoneIsNoState
    <2>1. CASE Request
        BY <2>1 DEF Request, BookingInv, HistoryInv
    <2>2. CASE Bind
        BY <2>2 DEF Bind
    <2>3. ASSUME NEW to \in BookingState, Move(to) PROVE state' \notin visited
        BY <2>3, EdgesGoUp, StageIsNat DEF Move, BookingInv, BookingTypeOK, HistoryInv
    <2> QED BY <2>1, <2>2, <2>3 DEF BookingNext
<1> QED BY <1>1, BookingInvariance, PTL DEF BookingSpec, NeverBack

\* The states the code goes through implement what a trip promises: each call
\* is one step of the promise, or none.
THEOREM TripRefinement == BookingSpec => ImplementsTrip
<1>1. BookingInit => Trip!Init
    BY DEF BookingInit, Trip!Init, Phase
<1>2. BookingInv /\ [BookingNext]_bookingVars => [Trip!Next]_(Trip!vars)
    <2> SUFFICES ASSUME BookingInv, [BookingNext]_bookingVars
                 PROVE  Trip!Next \/ UNCHANGED Trip!vars
        OBVIOUS
    <2> USE NoneIsNoState
    <2>1. CASE Request
        <3>1. Phase = "none" /\ Phase' = "open" /\ bound' = bound
            BY <2>1 DEF Request, Phase, PhaseOf, BookingState
        <3> QED BY <3>1 DEF Trip!Next, Trip!Propose, Trip!Step
    <2>2. CASE Bind
        <3>1. Phase # "none" /\ Phase' = Phase /\ bound' = TRUE
            BY <2>2 DEF Bind, Phase, PhaseOf, BookingInv, BookingTypeOK, BookingState
        <3> QED BY <3>1 DEF Trip!Next, Trip!Insure
    <2>3. ASSUME NEW to \in BookingState, Move(to)
          PROVE  Trip!Next \/ UNCHANGED Trip!vars
        <3>1. state \in BookingState /\ Phase = PhaseOf[state]
              /\ Phase' = PhaseOf[to]
            BY <2>3 DEF Move, BookingInv, BookingTypeOK, Phase
        <3>2. bound' = bound /\ (to = "INSURANCE_BOUND" => bound)
            BY <2>3 DEF Move
        <3>3. \/ Phase' = Phase
              \/ Phase = "open" /\ Phase' = "secured" /\ bound
              \/ Phase = "secured" /\ Phase' = "out"
              \/ Phase = "out" /\ Phase' = "back"
              \/ Phase = "back" /\ Phase' = "closed"
              \/ Phase \in {"open", "secured"} /\ Phase' = "off"
            BY <2>3, <3>1, <3>2, Edges DEF Move, PhaseOf
        <3> QED
            BY <3>2, <3>3
               DEF Trip!Next, Trip!vars, Trip!Step, Trip!Secure,
                   Trip!HandOver, Trip!Return, Trip!Close, Trip!CallOff
    <2>4. CASE UNCHANGED bookingVars
        BY <2>4 DEF bookingVars, Phase, Trip!vars
    <2> QED BY <2>1, <2>2, <2>3, <2>4 DEF BookingNext
<1> QED BY <1>1, <1>2, BookingInvariance, PTL DEF BookingSpec, ImplementsTrip, Trip!Spec

-----------------------------------------------------------------------------
(* The money.                                                              *)

\* A transfer's money has moved only after it was requested, for the computed
\* share; an answered one has moved its money.
LedgerInv ==
    /\ \A t \in ledger :
          /\ t.attempt \in Attempts /\ t.payee \in Payee
          /\ t = TransferOf(t.attempt, t.payee)
          /\ transfers[t.attempt][t.payee] # "none"
    /\ \A a \in Attempts, p \in Payee :
          transfers[a][p] = "answered" => TransferOf(a, p) \in ledger

\* An attempt starts after every earlier one was rejected, sends both transfers
\* at once, and fulfils with both.
AttemptInv ==
    \A a \in Attempts :
        /\ callPc[a] = "idle" <=> \A p \in Payee : transfers[a][p] = "none"
        /\ callPc[a] = "idle" <=> \E p \in Payee : transfers[a][p] = "none"
        /\ callPc[a] # "idle" =>
              Computed /\ \A b \in Attempts : b < a => callPc[b] = "rejected"
        /\ callPc[a] = "fulfilled" =>
              /\ \A p \in Payee : transfers[a][p] = "answered"
              /\ ids[a] = <<TransferOf(a, "driver"), TransferOf(a, "owner")>>
        /\ callPc[a] # "fulfilled" => ids[a] = <<>>

\* What was computed was computed from the trip, and only if it was payable.
ComputedInv ==
    Computed => Payable(InputOf(trip)) /\ breakdown = ComputePayout(InputOf(trip))

Types ==
    /\ trip \in Trips
    /\ breakdown = NoBreakdown \/ breakdown \in PayoutBreakdown
    /\ refused \in BOOLEAN
    /\ callPc \in [Attempts -> {"idle", "waiting", "fulfilled", "rejected"}]
    /\ transfers \in [Attempts -> [Payee -> {"none", "sent", "answered", "failed"}]]
    /\ DOMAIN ids = Attempts

IInv == Types /\ LedgerInv /\ AttemptInv /\ ComputedInv

-----------------------------------------------------------------------------
(* The payout's arithmetic.                                                *)

\* A rate of at most one takes at most the amount.
LEMMA AtRateBounds ==
    ASSUME NEW amount \in Nat, NEW rate \in 0..Unit
    PROVE  AtRate(amount, rate) \in 0..amount
<1>1. amount * rate \in Nat /\ amount * rate <= amount * 10000
    BY DEF Unit
<1> DEFINE product == amount * rate
<1>2. (product + 5000) \div 10000 \in 0..amount
    <2>1. product \in Nat /\ product <= amount * 10000
        BY <1>1
    <2> HIDE DEF product
    <2> QED BY <2>1
<1> QED BY <1>2 DEF AtRate, Unit

\* A higher rate takes no less.
LEMMA AtRateMonotone ==
    ASSUME NEW amount \in Nat, NEW low \in 0..Unit, NEW high \in 0..Unit, low <= high
    PROVE  AtRate(amount, low) <= AtRate(amount, high)
<1> DEFINE lower == amount * low
           upper == amount * high
<1>1. lower \in Nat /\ upper \in Nat /\ lower <= upper
    <2>1. \A d \in Nat : amount * d \in Nat /\ amount * (low + d) = amount * low + amount * d
        BY DEF Unit
    <2>2. high - low \in Nat /\ low + (high - low) = high /\ lower \in Nat
        BY DEF Unit
    <2> QED BY <2>1, <2>2 DEF Unit
<1>2. (lower + 5000) \div 10000 <= (upper + 5000) \div 10000
    <2> HIDE DEF lower, upper
    <2> QED BY <1>1
<1> QED BY <1>2 DEF AtRate, Unit

\* Every rate of the tables is a rate.
LEMMA Rates ==
    /\ \A d \in TrustTier : PlatformDriverTakeRate(d) \in 0..Unit
    /\ \A o \in OwnerTier, v \in VehicleTier : OwnerAccessShareRate(o, v) \in 0..Unit
    BY DEF PlatformDriverTakeRate, DriverKeepRate, OwnerAccessShareRate, OwnerBaseAccessRate,
           OwnerLoyaltyBonus, TrustTier, OwnerTier, VehicleTier, Unit

\* A better driver is charged a lower rate, a better owner given a higher one.
LEMMA RatesFollowStanding ==
    /\ \A d, e \in TrustTier : TrustTierRank[e] > TrustTierRank[d] =>
          PlatformDriverTakeRate(e) <= PlatformDriverTakeRate(d)
    /\ \A o, q \in OwnerTier, v \in VehicleTier : OwnerTierRank[q] > OwnerTierRank[o] =>
          OwnerAccessShareRate(o, v) <= OwnerAccessShareRate(q, v)
    BY DEF PlatformDriverTakeRate, DriverKeepRate, OwnerAccessShareRate, OwnerBaseAccessRate,
           OwnerLoyaltyBonus, TrustTier, OwnerTier, VehicleTier, Unit, TrustTierRank,
           OwnerTierRank

\* The prorated insurance cost is a number.
LEMMA ProrateIsInt ==
    ASSUME NEW cost \in Nat, NEW duration \in Int
    PROVE  Prorate(cost, duration) \in Int
<1> DEFINE product == cost * duration
<1>1. product \in Int
    OBVIOUS
<1>2. (product + 84) \div 168 \in Int
    <2> HIDE DEF product
    <2> QED BY <1>1
<1>3. Week = 168 /\ Week \div 2 = 84
    BY DEF Week
<1> QED BY <1>2, <1>3 DEF Prorate

\* A trip's input has the types computePayout declares.
LEMMA InputTypes ==
    ASSUME NEW t \in Trips
    PROVE  InputOf(t) \in PayoutInput
<1>1. /\ t.gross \in Int /\ t.duration \in Int
      /\ t.driverTier \in TrustTier /\ t.ownerTier \in OwnerTier
      /\ t.vehicleTier \in VehicleTier
    BY SettlementInputsAssumption DEF Trips
<1>2. WeeklyCostByTier[t.vehicleTier] \in Nat
    BY <1>1 DEF WeeklyCostByTier, VehicleTier
<1>3. Prorate(WeeklyCostByTier[t.vehicleTier], t.duration) \in Int
    BY <1>1, <1>2, ProrateIsInt
<1> QED BY <1>1, <1>3 DEF InputOf, PayoutInput

\* What computePayout returns, in the terms the properties speak of.
LEMMA PayoutArithmetic ==
    ASSUME NEW input \in PayoutInput, Payable(input)
    PROVE  LET b     == ComputePayout(input)
               take  == AtRate(input.gross, PlatformDriverTakeRate(input.driverTier))
               owner == AtRate(input.gross,
                               OwnerAccessShareRate(input.ownerTier, input.vehicleTier))
           IN  /\ input.gross \in Nat
               /\ take \in 0..input.gross /\ owner \in 0..input.gross
               /\ b.driverShare = input.gross - take
               /\ b.ownerShare = owner
               /\ b.platformGross = take - owner
               /\ b.platformNet = take - owner - input.insuranceCost
               /\ b.flagged <=> take - owner - input.insuranceCost < 0
               /\ b \in PayoutBreakdown
<1> DEFINE take  == AtRate(input.gross, PlatformDriverTakeRate(input.driverTier))
           owner == AtRate(input.gross,
                           OwnerAccessShareRate(input.ownerTier, input.vehicleTier))
<1>1. input.gross \in Nat /\ input.insuranceCost \in Int
    BY MaxSafeIntegerAssumption DEF Payable, IsAmount, PayoutInput
<1>2. /\ PlatformDriverTakeRate(input.driverTier) \in 0..Unit
      /\ OwnerAccessShareRate(input.ownerTier, input.vehicleTier) \in 0..Unit
    BY Rates DEF PayoutInput
<1>3. take \in 0..input.gross /\ owner \in 0..input.gross
    BY <1>1, <1>2, AtRateBounds
<1>4. ComputePayout(input)
        = Breakdown(input.gross - take, owner, take - owner, input.insuranceCost)
    BY DEF ComputePayout
<1> HIDE DEF take, owner
<1>5. (take - owner - input.insuranceCost < 0) \in BOOLEAN
    OBVIOUS
<1>6. ComputePayout(input) \in PayoutBreakdown
    BY <1>1, <1>3, <1>4, <1>5 DEF Breakdown, PayoutBreakdown
<1>7. /\ ComputePayout(input).driverShare = input.gross - take
      /\ ComputePayout(input).ownerShare = owner
      /\ ComputePayout(input).platformGross = take - owner
      /\ ComputePayout(input).platformNet = take - owner - input.insuranceCost
      /\ ComputePayout(input).flagged = (take - owner - input.insuranceCost < 0)
    BY <1>4 DEF Breakdown
<1>8. ComputePayout(input).flagged <=> take - owner - input.insuranceCost < 0
    BY <1>7
<1> QED BY <1>1, <1>3, <1>6, <1>7, <1>8 DEF take, owner

-----------------------------------------------------------------------------
\* The payout of a trip is safe whenever it was computed from that trip.
LEMMA SharesConserveStep == IInv => SharesConserve
<1> SUFFICES ASSUME IInv, Computed
             PROVE  LET cost == InputOf(trip).insuranceCost
                        b    == breakdown
                    IN  /\ b.driverShare \in 0..trip.gross
                        /\ b.ownerShare \in 0..trip.gross
                        /\ b.driverShare + b.ownerShare + b.platformGross = trip.gross
                        /\ b.driverShare + b.ownerShare + b.platformNet + cost = trip.gross
    BY DEF SharesConserve
<1>1. InputOf(trip) \in PayoutInput /\ InputOf(trip).gross = trip.gross
    BY InputTypes DEF IInv, Types, InputOf
<1>2. Payable(InputOf(trip)) /\ breakdown = ComputePayout(InputOf(trip))
    BY DEF IInv, ComputedInv
<1>3. InputOf(trip).insuranceCost \in Int
    BY <1>1 DEF PayoutInput
<1>4. \E take, owner \in 0..trip.gross :
          /\ trip.gross \in Nat
          /\ breakdown.driverShare = trip.gross - take
          /\ breakdown.ownerShare = owner
          /\ breakdown.platformGross = take - owner
          /\ breakdown.platformNet = take - owner - InputOf(trip).insuranceCost
    BY <1>1, <1>2, PayoutArithmetic
<1> QED BY <1>3, <1>4

LEMMA LossIsFlaggedStep == IInv => LossIsFlagged
<1> SUFFICES ASSUME IInv, Computed
             PROVE  /\ PayoutStatusFor(breakdown) = "FLAGGED_REVIEW"
                          <=> breakdown.driverShare + breakdown.ownerShare
                                 + InputOf(trip).insuranceCost > trip.gross
                    /\ breakdown.platformGross < 0
                          => OwnerAccessShareRate(trip.ownerTier, trip.vehicleTier)
                                 > PlatformDriverTakeRate(trip.driverTier)
    BY DEF LossIsFlagged
<1> DEFINE take  == AtRate(trip.gross, PlatformDriverTakeRate(trip.driverTier))
           owner == AtRate(trip.gross, OwnerAccessShareRate(trip.ownerTier, trip.vehicleTier))
           cost  == InputOf(trip).insuranceCost
<1>1. /\ InputOf(trip) \in PayoutInput /\ InputOf(trip).gross = trip.gross
      /\ InputOf(trip).driverTier = trip.driverTier
      /\ InputOf(trip).ownerTier = trip.ownerTier
      /\ InputOf(trip).vehicleTier = trip.vehicleTier
    BY InputTypes DEF IInv, Types, InputOf
<1>2. Payable(InputOf(trip)) /\ breakdown = ComputePayout(InputOf(trip))
    BY DEF IInv, ComputedInv
<1>3. /\ trip.gross \in Nat /\ take \in 0..trip.gross /\ owner \in 0..trip.gross
      /\ breakdown.driverShare = trip.gross - take
      /\ breakdown.ownerShare = owner
      /\ breakdown.platformGross = take - owner
      /\ breakdown.flagged <=> take - owner - cost < 0
    BY <1>1, <1>2, PayoutArithmetic
<1>4. cost \in Int
    BY <1>1 DEF PayoutInput
<1>5. /\ PlatformDriverTakeRate(trip.driverTier) \in 0..Unit
      /\ OwnerAccessShareRate(trip.ownerTier, trip.vehicleTier) \in 0..Unit
    BY Rates DEF IInv, Types, Trips
<1>6. PayoutStatusFor(breakdown) = "FLAGGED_REVIEW" <=> breakdown.flagged
    BY DEF PayoutStatusFor
<1>7. PlatformDriverTakeRate(trip.driverTier)
            >= OwnerAccessShareRate(trip.ownerTier, trip.vehicleTier)
        => take >= owner
    BY <1>3, <1>5, AtRateMonotone
<1> HIDE DEF take, owner, cost
<1>8. breakdown.flagged <=>
          breakdown.driverShare + breakdown.ownerShare + cost > trip.gross
    BY <1>3, <1>4
<1>9. breakdown.platformGross < 0
        => OwnerAccessShareRate(trip.ownerTier, trip.vehicleTier)
               > PlatformDriverTakeRate(trip.driverTier)
    <2>1. \A rate, share \in 0..Unit :
              (rate >= share => take >= owner) => (take - owner < 0 => share > rate)
        BY <1>3 DEF Unit
    <2> QED BY <1>3, <1>5, <1>7, <2>1
<1> QED BY <1>6, <1>8, <1>9 DEF cost

-----------------------------------------------------------------------------
(* The invariant.                                                          *)

LEMMA InitIInv == Init => IInv
<1> SUFFICES ASSUME Init PROVE IInv
    OBVIOUS
<1>1. Types
    BY DEF Init, Types
<1>2. LedgerInv
    BY DEF Init, LedgerInv
<1>3. AttemptInv
    BY DEF Init, AttemptInv, Payee
<1>4. ComputedInv
    BY DEF Init, ComputedInv, Computed
<1> QED BY <1>1, <1>2, <1>3, <1>4 DEF IInv

\* Before anything is computed nothing has been asked for, nor moved.
LEMMA NothingBeforePreview ==
    ASSUME IInv, ~Computed
    PROVE  /\ ledger = {}
           /\ \A a \in Attempts : callPc[a] = "idle" /\ \A p \in Payee : transfers[a][p] = "none"
<1>1. \A a \in Attempts : callPc[a] = "idle" /\ \A p \in Payee : transfers[a][p] = "none"
    BY DEF IInv, AttemptInv
<1>2. ledger = {}
    BY <1>1 DEF IInv, LedgerInv
<1> QED BY <1>1, <1>2

LEMMA PreviewKeeps ==
    ASSUME IInv, Preview
    PROVE  IInv'
<1>1. ledger = {} /\ \A a \in Attempts :
          callPc[a] = "idle" /\ \A p \in Payee : transfers[a][p] = "none"
    BY NothingBeforePreview DEF Preview, Computed
<1>2. InputOf(trip) \in PayoutInput
    BY InputTypes DEF IInv, Types
<1>3. Computed' => Payable(InputOf(trip)) /\ breakdown' = ComputePayout(InputOf(trip))
    BY DEF Preview, Computed
<1>4. breakdown' = NoBreakdown \/ breakdown' \in PayoutBreakdown
    BY <1>2, <1>3, PayoutArithmetic DEF Computed
<1>5. refused' \in BOOLEAN
    BY DEF Preview, IInv, Types
<1>6. UNCHANGED <<trip, callPc, transfers, ids, ledger>>
    BY DEF Preview
<1>7. Types'
    BY <1>4, <1>5, <1>6 DEF IInv, Types, Trips
<1>8. LedgerInv'
    BY <1>1, <1>6 DEF LedgerInv
<1>9. AttemptInv'
    BY <1>1, <1>6 DEF IInv, AttemptInv
<1>10. ComputedInv'
    BY <1>3, <1>6 DEF ComputedInv, InputOf
<1> QED BY <1>7, <1>8, <1>9, <1>10 DEF IInv

\* While trip and breakdown stand, so does what every transfer is worth.
LEMMA SameTransfers ==
    ASSUME UNCHANGED <<trip, breakdown>>
    PROVE  /\ \A a, p : TransferOf(a, p)' = TransferOf(a, p)
           /\ Computed' = Computed
           /\ ComputedInv => ComputedInv'
    BY DEF TransferOf, Share, Computed, ComputedInv, InputOf

LEMMA DisburseKeeps ==
    ASSUME IInv, NEW a \in Attempts, Disburse(a)
    PROVE  IInv'
<1> USE DEF IInv, Disburse
<1>1. Types'
    BY DEF Types, Trips
<1>2. LedgerInv'
    BY SameTransfers DEF Types, LedgerInv, AttemptInv
<1>3. AttemptInv'
    BY SameTransfers DEF Types, AttemptInv, Payee, Computed
<1>4. ComputedInv'
    BY SameTransfers
<1> QED BY <1>1, <1>2, <1>3, <1>4

LEMMA MoveMoneyKeeps ==
    ASSUME IInv, NEW a \in Attempts, NEW p \in Payee, MoveMoney(a, p)
    PROVE  IInv'
<1> USE DEF IInv, MoveMoney
<1>1. Types'
    BY DEF Types, Trips
<1>2. LedgerInv'
    <2>1. TransferOf(a, p).attempt = a /\ TransferOf(a, p).payee = p
        BY DEF TransferOf
    <2> QED BY <2>1, SameTransfers DEF LedgerInv
<1>3. AttemptInv'
    BY SameTransfers DEF AttemptInv
<1>4. ComputedInv'
    BY SameTransfers
<1> QED BY <1>1, <1>2, <1>3, <1>4

LEMMA TransferAnsweredKeeps ==
    ASSUME IInv, NEW a \in Attempts, NEW p \in Payee, TransferAnswered(a, p)
    PROVE  IInv'
<1> USE DEF IInv, TransferAnswered
<1>1. Types'
    BY DEF Types, Trips
<1>2. LedgerInv'
    BY SameTransfers DEF LedgerInv, Types
<1>3. AttemptInv'
    BY SameTransfers DEF AttemptInv, Types, Payee
<1>4. ComputedInv'
    BY SameTransfers
<1> QED BY <1>1, <1>2, <1>3, <1>4

LEMMA TransferFailedKeeps ==
    ASSUME IInv, NEW a \in Attempts, NEW p \in Payee, TransferFailed(a, p)
    PROVE  IInv'
<1> USE DEF IInv, TransferFailed
<1>1. Types'
    BY DEF Types, Trips
<1>2. LedgerInv'
    BY SameTransfers DEF LedgerInv, Types
<1>3. AttemptInv'
    BY SameTransfers DEF AttemptInv, Types, Payee
<1>4. ComputedInv'
    BY SameTransfers
<1> QED BY <1>1, <1>2, <1>3, <1>4

LEMMA NextIInv == IInv /\ [Next]_vars => IInv'
<1>1. IInv /\ UNCHANGED vars => IInv'
    BY DEF vars, IInv, Types, LedgerInv, AttemptInv, ComputedInv, Computed, TransferOf, Share,
           InputOf, Trips
<1> QED
    BY <1>1, PreviewKeeps, DisburseKeeps, MoveMoneyKeeps, TransferAnsweredKeeps,
       TransferFailedKeeps
       DEF Next

LEMMA Invariance == Spec => []IInv
    BY InitIInv, NextIInv, PTL DEF Spec

-----------------------------------------------------------------------------
\* Rounding neither makes nor loses a cent, for any trip and any tiers.
THEOREM PayoutConserves == Spec => []SharesConserve
    BY SharesConserveStep, Invariance, PTL

\* A payout is flagged exactly when it promises more than the trip grossed.
THEOREM PayoutFlagIsExact == Spec => []LossIsFlagged
    BY LossIsFlaggedStep, Invariance, PTL

\* Types: a disburse call answers with at most two transfers, of integral amounts.
THEOREM SettlementTypeCorrect == Spec => []TypeOK
<1>1. IInv => TypeOK
    <2> SUFFICES ASSUME IInv PROVE TypeOK
        OBVIOUS
    <2>1. Computed => \A a \in Attempts, p \in Payee : TransferOf(a, p) \in Transfer
        BY DEF IInv, Types, Computed, TransferOf, Share, Transfer, PayoutBreakdown
    <2>2. ledger \subseteq Transfer
        BY <2>1 DEF IInv, LedgerInv, AttemptInv
    <2>3. ASSUME NEW a \in Attempts PROVE Len(ids[a]) <= 2 /\ Range(ids[a]) \subseteq Transfer
        <3>1. CASE callPc[a] = "fulfilled"
            <4>1. /\ ids[a] = <<TransferOf(a, "driver"), TransferOf(a, "owner")>>
                  /\ TransferOf(a, "driver") \in Transfer /\ TransferOf(a, "owner") \in Transfer
                BY <2>1, <3>1 DEF IInv, AttemptInv, Payee
            <4> QED BY <4>1 DEF Range
        <3>2. CASE callPc[a] # "fulfilled"
            <4>1. ids[a] = <<>>
                BY <3>2 DEF IInv, AttemptInv
            <4> QED BY <4>1 DEF Range
        <3> QED BY <3>1, <3>2
    <2> QED BY <2>2, <2>3 DEF TypeOK, IInv, Types
<1> QED BY <1>1, Invariance, PTL

\* A fulfilled disburse has paid both parties and names the two transfers, however
\* its two concurrent requests and those of earlier attempts ended.
THEOREM DisburseIsComplete == Spec => []FulfilledPaysBoth
<1>1. IInv => FulfilledPaysBoth
    <2> SUFFICES ASSUME IInv, NEW a \in Attempts, callPc[a] = "fulfilled"
                 PROVE  /\ ids[a] = <<TransferOf(a, "driver"), TransferOf(a, "owner")>>
                        /\ Range(ids[a]) \subseteq ledger
                        /\ \A t \in ledger \ Range(ids[a]) : callPc[t.attempt] = "rejected"
        BY DEF FulfilledPaysBoth
    <2>1. ids[a] = <<TransferOf(a, "driver"), TransferOf(a, "owner")>>
        BY DEF IInv, AttemptInv
    <2>2. Range(ids[a]) = {TransferOf(a, "driver"), TransferOf(a, "owner")}
        BY <2>1 DEF Range
    <2>3. Range(ids[a]) \subseteq ledger
        BY <2>2 DEF IInv, AttemptInv, LedgerInv, Payee
    <2>4. ASSUME NEW t \in ledger, t \notin Range(ids[a])
          PROVE  callPc[t.attempt] = "rejected"
        <3>1. /\ t.attempt \in Attempts /\ t.payee \in {"driver", "owner"}
              /\ t = TransferOf(t.attempt, t.payee) /\ callPc[t.attempt] # "idle"
            BY DEF IInv, LedgerInv, AttemptInv, Payee
        <3>2. t.attempt # a
            BY <2>2, <2>4, <3>1
        <3>3. t.attempt < a \/ a < t.attempt
            BY <3>1, <3>2, SettlementInputsAssumption DEF Attempts
        <3>4. ~(a < t.attempt)
            BY <3>1 DEF IInv, AttemptInv
        <3> QED BY <3>1, <3>3, <3>4 DEF IInv, AttemptInv
    <2> QED BY <2>1, <2>3, <2>4
<1> QED BY <1>1, Invariance, PTL

-----------------------------------------------------------------------------
(* What a settlement promises.                                             *)

\* A call of the promise is the call of the code, and so is a payment.
LEMMA TransfersArePayments ==
    ASSUME Computed, NEW a \in Attempts, NEW p \in Payee
    PROVE  /\ TransferOf(a, p) = Promise!Payment(a, p)
           /\ TransferOf(a, p).attempt = a /\ TransferOf(a, p).payee = p
    BY DEF TransferOf, Promise!Payment, Due

\* While trip, breakdown and refusal stand, so does the decision.
LEMMA SameDecision ==
    ASSUME UNCHANGED <<trip, breakdown, refused>>
    PROVE  UNCHANGED <<trip.gross, Decision, Due>>
    BY DEF Decision, Due, Share, Computed

\* Only what was computed is called for: a call that is being made, or was.
LEMMA CalledIsComputed ==
    ASSUME IInv, NEW a \in Attempts, NEW p \in Payee,
           transfers[a][p] # "none" \/ callPc[a] # "idle"
    PROVE  Computed /\ callPc[a] # "idle"
    BY DEF IInv, AttemptInv

\* preview decides, or refuses.
LEMMA PreviewDecides ==
    ASSUME IInv, Preview
    PROVE  Promise!Decide \/ Promise!Refuse
<1>1. Decision = "open" /\ UNCHANGED <<trip, callPc, ledger, ids>>
    BY DEF Preview, Decision, Computed
<1>2. CASE ~Payable(InputOf(trip))
    <2>1. Decision' = "refused" /\ Due' = Due
        BY <1>2 DEF Preview, Decision, Computed, Due
    <2> QED BY <1>1, <2>1 DEF Promise!Refuse
<1>3. CASE Payable(InputOf(trip))
    <2>1. breakdown' = ComputePayout(InputOf(trip))
        BY <1>3 DEF Preview
    <2>2. InputOf(trip) \in PayoutInput /\ InputOf(trip).gross = trip.gross
        BY InputTypes DEF IInv, Types, InputOf
    <2>3. \E take, owner \in 0..trip.gross :
              /\ trip.gross \in Nat /\ breakdown' \in PayoutBreakdown
              /\ breakdown'.driverShare = trip.gross - take
              /\ breakdown'.ownerShare = owner
        BY <1>3, <2>1, <2>2, PayoutArithmetic
    <2>4. Computed'
        BY <2>3, NoBreakdownAssumption DEF Computed
    <2>5. Due' = [p \in Payee |-> Share(p)']
        BY <2>4 DEF Due
    <2>6. \A p \in Payee : Share(p)' \in 0..trip.gross
        BY <2>3 DEF Share, Payee
    <2>7. Decision' = "made" /\ Due' \in [Payee -> 0..trip.gross]
        BY <2>4, <2>5, <2>6 DEF Decision
    <2> QED BY <1>1, <2>7 DEF Promise!Decide
<1> QED BY <1>2, <1>3

\* disburse asks for the payments.
LEMMA DisburseAsks ==
    ASSUME IInv, NEW a \in Attempts, Disburse(a)
    PROVE  Promise!Ask(a)
    BY SameDecision DEF Disburse, Promise!Ask, Promise!Becomes, Decision, Computed

\* The provider pays, unless this payment was made before.
LEMMA MoveMoneyPays ==
    ASSUME IInv, NEW a \in Attempts, NEW p \in Payee, MoveMoney(a, p)
    PROVE  Promise!Pay(a, p) \/ UNCHANGED Promise!vars
<1>1. Computed /\ callPc[a] \in {"waiting", "rejected"}
    <2>1. transfers[a][p] \in {"sent", "failed"}
        BY DEF MoveMoney
    <2>2. Computed /\ callPc[a] # "idle"
        BY <2>1, CalledIsComputed
    <2>3. callPc[a] # "fulfilled"
        BY <2>1 DEF IInv, AttemptInv
    <2> QED BY <2>2, <2>3 DEF IInv, Types
<1>2. /\ ledger' = ledger \cup {Promise!Payment(a, p)}
      /\ UNCHANGED <<trip.gross, Decision, Due, callPc, ids>>
    BY <1>1, TransfersArePayments, SameDecision DEF MoveMoney
<1>3. CASE Promise!Payment(a, p) \in ledger
    BY <1>2, <1>3 DEF Promise!vars
<1>4. CASE Promise!Payment(a, p) \notin ledger
    BY <1>1, <1>2, <1>4 DEF Promise!Pay
<1> QED BY <1>3, <1>4

\* The last answer confirms the call: by then both payments have been made.
LEMMA TransferAnsweredConfirms ==
    ASSUME IInv, NEW a \in Attempts, NEW p \in Payee, TransferAnswered(a, p)
    PROVE  Promise!Confirm(a) \/ UNCHANGED Promise!vars
<1>1. UNCHANGED <<trip.gross, Decision, Due, ledger>>
    BY SameDecision DEF TransferAnswered
<1>2. CASE callPc[a] = "waiting" /\ \A q \in Payee \ {p} : transfers[a][q] = "answered"
    <2>1. Computed
        BY <1>2, CalledIsComputed
    <2>2. \A q \in Payee : Promise!Payment(a, q) \in ledger
        BY <1>2, <2>1, TransfersArePayments DEF TransferAnswered, IInv, LedgerInv
    <2>3. "driver" \in Payee /\ "owner" \in Payee
        BY DEF Payee
    <2>4. /\ callPc' = [callPc EXCEPT ![a] = "fulfilled"]
          /\ ids' = [ids EXCEPT ![a] =
                        <<Promise!Payment(a, "driver"), Promise!Payment(a, "owner")>>]
        BY <1>2, <2>1, <2>3, TransfersArePayments DEF TransferAnswered
    <2> QED BY <1>1, <1>2, <2>2, <2>4 DEF Promise!Confirm, Promise!Becomes
<1>3. CASE ~(callPc[a] = "waiting" /\ \A q \in Payee \ {p} : transfers[a][q] = "answered")
    BY <1>1, <1>3 DEF TransferAnswered, Promise!vars
<1> QED BY <1>2, <1>3

\* The first rejection gives the call up.
LEMMA TransferFailedGivesUp ==
    ASSUME IInv, NEW a \in Attempts, NEW p \in Payee, TransferFailed(a, p)
    PROVE  Promise!GiveUp(a) \/ UNCHANGED Promise!vars
<1>1. UNCHANGED <<trip.gross, Decision, Due, ledger, ids>>
    BY SameDecision DEF TransferFailed
<1>2. CASE callPc[a] = "waiting"
    BY <1>1, <1>2 DEF TransferFailed, Promise!GiveUp, Promise!Becomes
<1>3. CASE callPc[a] # "waiting"
    BY <1>1, <1>3 DEF TransferFailed, Promise!vars
<1> QED BY <1>2, <1>3

\* Preview, the concurrent transfers of a disburse and those still under way from
\* earlier ones implement the promise: each step is one step of it, or none.
THEOREM SettlementKeepsPromise == Spec => ImplementsPromise
<1>1. Init => Promise!Init
    <2> SUFFICES ASSUME Init PROVE Promise!Init
        OBVIOUS
    <2>1. trip.gross \in Int
        BY SettlementInputsAssumption DEF Init, Trips
    <2>2. Decision = "open" /\ Due = [p \in Payee |-> 0]
        BY DEF Init, Decision, Due, Computed
    <2> QED BY <2>1, <2>2 DEF Init, Promise!Init
<1>2. IInv /\ [Next]_vars => [Promise!Next]_(Promise!vars)
    <2> SUFFICES ASSUME IInv, [Next]_vars PROVE Promise!Next \/ UNCHANGED Promise!vars
        OBVIOUS
    <2>1. CASE Preview
        BY <2>1, PreviewDecides DEF Promise!Next
    <2>2. ASSUME NEW a \in Attempts, Disburse(a) PROVE Promise!Next
        BY <2>2, DisburseAsks DEF Promise!Next
    <2>3. ASSUME NEW a \in Attempts, NEW p \in Payee,
                 MoveMoney(a, p) \/ TransferAnswered(a, p) \/ TransferFailed(a, p)
          PROVE  Promise!Next \/ UNCHANGED Promise!vars
        BY <2>3, MoveMoneyPays, TransferAnsweredConfirms, TransferFailedGivesUp
           DEF Promise!Next
    <2>4. CASE UNCHANGED vars
        BY <2>4, SameDecision DEF vars, Promise!vars
    <2> QED BY <2>1, <2>2, <2>3, <2>4 DEF Next
<1> QED BY <1>1, <1>2, Invariance, PTL DEF Spec, ImplementsPromise, Promise!Spec

-----------------------------------------------------------------------------
\* Standing pays, and at nobody else's expense.
THEOREM StandingIsWorthIt == Spec => []StandingPays
<1>1. IInv => StandingPays
    <2> SUFFICES ASSUME IInv, Computed PROVE StandingPays
        BY DEF StandingPays
    <2> DEFINE input == InputOf(trip)
    <2>1. /\ input \in PayoutInput /\ Payable(input) /\ breakdown = ComputePayout(input)
          /\ input.driverTier = trip.driverTier /\ input.ownerTier = trip.ownerTier
        BY InputTypes DEF IInv, Types, ComputedInv, InputOf
    <2> HIDE DEF input
    <2>2. ASSUME NEW better \in TrustTier,
                 TrustTierRank[better] > TrustTierRank[trip.driverTier]
          PROVE  LET b == ComputePayout([input EXCEPT !.driverTier = better])
                 IN  b.driverShare >= breakdown.driverShare /\ b.ownerShare = breakdown.ownerShare
        <3> DEFINE other == [input EXCEPT !.driverTier = better]
                   low   == PlatformDriverTakeRate(better)
                   high  == PlatformDriverTakeRate(input.driverTier)
        <3>1. /\ other \in PayoutInput /\ Payable(other)
              /\ other.gross = input.gross /\ other.driverTier = better
              /\ other.ownerTier = input.ownerTier /\ other.vehicleTier = input.vehicleTier
            BY <2>1 DEF PayoutInput, Payable
        <3>2. low \in 0..Unit /\ high \in 0..Unit /\ low <= high
            BY <2>1, <2>2, Rates, RatesFollowStanding DEF PayoutInput
        <3>3. input.gross \in Nat
            BY <2>1, PayoutArithmetic
        <3>4. AtRate(input.gross, low) <= AtRate(input.gross, high)
            BY <3>2, <3>3, AtRateMonotone
        <3> HIDE DEF other, low, high
        <3>5. /\ ComputePayout(other).driverShare = input.gross - AtRate(input.gross, low)
              /\ ComputePayout(other).ownerShare = breakdown.ownerShare
              /\ breakdown.driverShare = input.gross - AtRate(input.gross, high)
              /\ AtRate(input.gross, low) \in Int /\ AtRate(input.gross, high) \in Int
            BY <2>1, <3>1, PayoutArithmetic DEF low, high
        <3> QED BY <3>3, <3>4, <3>5 DEF other
    <2>3. ASSUME NEW better \in OwnerTier,
                 OwnerTierRank[better] > OwnerTierRank[trip.ownerTier]
          PROVE  LET b == ComputePayout([input EXCEPT !.ownerTier = better])
                 IN  b.ownerShare >= breakdown.ownerShare /\ b.driverShare = breakdown.driverShare
        <3> DEFINE other == [input EXCEPT !.ownerTier = better]
                   low   == OwnerAccessShareRate(input.ownerTier, input.vehicleTier)
                   high  == OwnerAccessShareRate(better, input.vehicleTier)
        <3>1. /\ other \in PayoutInput /\ Payable(other)
              /\ other.gross = input.gross /\ other.driverTier = input.driverTier
              /\ other.ownerTier = better /\ other.vehicleTier = input.vehicleTier
            BY <2>1 DEF PayoutInput, Payable
        <3>2. low \in 0..Unit /\ high \in 0..Unit /\ low <= high
            BY <2>1, <2>3, Rates, RatesFollowStanding DEF PayoutInput
        <3>3. input.gross \in Nat
            BY <2>1, PayoutArithmetic
        <3>4. AtRate(input.gross, low) <= AtRate(input.gross, high)
            BY <3>2, <3>3, AtRateMonotone
        <3> HIDE DEF other, low, high
        <3>5. /\ ComputePayout(other).ownerShare = AtRate(input.gross, high)
              /\ ComputePayout(other).driverShare = breakdown.driverShare
              /\ breakdown.ownerShare = AtRate(input.gross, low)
              /\ AtRate(input.gross, low) \in Int /\ AtRate(input.gross, high) \in Int
            BY <2>1, <3>1, PayoutArithmetic DEF low, high
        <3> QED BY <3>4, <3>5 DEF other
    <2> QED BY <2>2, <2>3 DEF StandingPays, input
<1> QED BY <1>1, Invariance, PTL

=============================================================================
