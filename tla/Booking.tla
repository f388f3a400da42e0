------------------------------- MODULE Booking -------------------------------
(***************************************************************************)
(* A booking under the guards of BookingService: the transition map of     *)
(* packages/shared/src/booking.ts, tier gating at request time, and the    *)
(* binding check before INSURANCE_BOUND.  Bookings share nothing in this   *)
(* code, so the module follows one.                                        *)
(*                                                                         *)
(* The service's guards have no caller yet: the orchestration that will    *)
(* persist bookings comes later.  Here any caller that asks every guard    *)
(* the service offers may move the booking, in any order.                  *)
(***************************************************************************)
EXTENDS Trust

\* There is no booking yet.
NoState == "none"

VARIABLES
    state,         \* Booking.state
    driverTier,    \* the driver's trust tier when the request was made
    vehicleTier,   \* the tier of the requested vehicle
    bound,         \* whether the booking has a valid InsuranceBinding
    visited        \* history: the states the booking has been in

bookingVars == <<state, driverTier, vehicleTier, bound, visited>>

-----------------------------------------------------------------------------
\* BOOKING_TRANSITIONS.
BookingTransitions ==
    [REQUESTED        |-> {"OWNER_REVIEW", "APPROVED", "CANCELLED"},
     OWNER_REVIEW     |-> {"APPROVED", "DECLINED", "CANCELLED"},
     APPROVED         |-> {"INSURANCE_BOUND", "CANCELLED"},
     INSURANCE_BOUND  |-> {"CONFIRMED", "CANCELLED"},
     CONFIRMED        |-> {"PICKUP_PENDING", "CANCELLED"},
     PICKUP_PENDING   |-> {"PICKUP_CONFIRMED", "CANCELLED"},
     PICKUP_CONFIRMED |-> {"IN_PROGRESS"},
     IN_PROGRESS      |-> {"RETURN_PENDING"},
     RETURN_PENDING   |-> {"RETURN_CONFIRMED"},
     RETURN_CONFIRMED |-> {"SETTLED", "CLAIM_WINDOW"},
     CLAIM_WINDOW     |-> {"SETTLED"},
     DECLINED         |-> {},
     CANCELLED        |-> {},
     SETTLED          |-> {}]

IsTerminal(s) == s \in {"DECLINED", "CANCELLED", "SETTLED"}

\* Mutations of CanTransition: confirmation without insurance; a
\* cancellation while the car is out.
CanTransitionUninsured(from, to) ==
    \/ to \in BookingTransitions[from]
    \/ /\ from = "APPROVED"
       /\ to = "CONFIRMED"

CanTransitionCallingOff(from, to) ==
    \/ to \in BookingTransitions[from]
    \/ /\ from = "IN_PROGRESS"
       /\ to = "CANCELLED"

CanTransition(from, to) == to \in BookingTransitions[from]

\* Mutation of IsReclaimableByCancel: forgets the owner's own review.
IsReclaimableAfterReview(s) ==
    s # "OWNER_REVIEW" /\ "CANCELLED" \in BookingTransitions[s]

IsReclaimableByCancel(s) == "CANCELLED" \in BookingTransitions[s]

-----------------------------------------------------------------------------
BookingInit ==
    /\ state = NoState
    /\ driverTier \in TrustTier
    /\ vehicleTier \in VehicleTier
    /\ bound = FALSE
    /\ visited = {}

\* assertCanRequest, or a ForbiddenException that leaves no booking.
Request ==
    /\ state = NoState
    /\ CanBookVehicleTier(driverTier, vehicleTier)
    /\ state' = "REQUESTED"
    /\ visited' = {"REQUESTED"}
    /\ UNCHANGED <<driverTier, vehicleTier, bound>>

\* InsuranceService.bind: it asks nothing about the booking's state.
Bind ==
    /\ state # NoState
    /\ bound' = TRUE
    /\ UNCHANGED <<state, driverTier, vehicleTier, visited>>

\* assertTransition, and into INSURANCE_BOUND assertInsuranceBindingPresent too.
Move(to) ==
    /\ state # NoState
    /\ CanTransition(state, to)
    /\ to = "INSURANCE_BOUND" => bound
    /\ state' = to
    /\ visited' = visited \cup {to}
    /\ UNCHANGED <<driverTier, vehicleTier, bound>>

BookingNext == Request \/ Bind \/ \E to \in BookingState : Move(to)

BookingSpec == BookingInit /\ [][BookingNext]_bookingVars

-----------------------------------------------------------------------------
(* Properties.                                                             *)

\* Types.
BookingTypeOK ==
    /\ state \in BookingState \cup {NoState}
    /\ driverTier \in TrustTier
    /\ vehicleTier \in VehicleTier
    /\ bound \in BOOLEAN
    /\ visited \subseteq BookingState

\* No sequence of permitted calls puts an uninsured car, or one above the
\* driver's tier, in the driver's hands, and the money is only settled for a
\* trip that was insured.
InsuredOnTheRoad ==
    visited \cap {"INSURANCE_BOUND", "CONFIRMED", "PICKUP_CONFIRMED", "IN_PROGRESS",
                  "RETURN_PENDING", "SETTLED"} # {}
        => bound /\ CanBookVehicleTier(driverTier, vehicleTier)

\* The one-tap reclaim is offered exactly until pickup is confirmed: in every
\* live state before it and in none after it.
ReclaimEndsAtPickup ==
    state # NoState =>
        (IsReclaimableByCancel(state) <=> ~IsTerminal(state) /\ "PICKUP_CONFIRMED" \notin visited)

\* A booking never comes back to a state it has left, so it ends.
NeverBack == [][state' # state => state' \notin visited]_bookingVars

\* The states called terminal are those nothing leads out of; every other one
\* can be left.
TerminalIsTheEnd ==
    state # NoState =>
        (IsTerminal(state) <=> \A to \in BookingState : ~CanTransition(state, to))

\* What the parties see of a booking (TripPromise).
PhaseOf ==
    [REQUESTED |-> "open", OWNER_REVIEW |-> "open", APPROVED |-> "open",
     INSURANCE_BOUND |-> "secured", CONFIRMED |-> "secured", PICKUP_PENDING |-> "secured",
     PICKUP_CONFIRMED |-> "out", IN_PROGRESS |-> "out", RETURN_PENDING |-> "out",
     RETURN_CONFIRMED |-> "back", CLAIM_WINDOW |-> "back", SETTLED |-> "closed",
     DECLINED |-> "off", CANCELLED |-> "off"]

Phase == IF state = NoState THEN "none" ELSE PhaseOf[state]

Trip == INSTANCE TripPromise WITH phase <- Phase, insured <- bound

\* Every path through the fourteen states is a path of the trip's six phases.
ImplementsTrip == Trip!Spec

=============================================================================
