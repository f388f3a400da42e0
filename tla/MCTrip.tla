------------------------------- MODULE MCTrip -------------------------------
(* One trip: its booking, or its money, each with the other at rest.  No    *)
(* code joins the two yet, they share no variable and no property is about  *)
(* both, so their interleavings would add nothing.  The trips earn nothing, *)
(* a cent, amounts whose shares fall on a half, a usual fare, the largest   *)
(* amount accepted, and two that computePayout refuses.                     *)
EXTENDS Booking, Settlement

EarningsUpToLimit == {-1, 0, 1, 50, 4567, MaxSafeInteger, MaxSafeInteger + 1}

TripLengths == {-1, 5, Week}

\* The booking is of the trip's driver and vehicle.
TripInit ==
    /\ Init /\ BookingInit
    /\ driverTier = trip.driverTier /\ vehicleTier = trip.vehicleTier

BookTrip ==
    /\ breakdown = NoBreakdown /\ ~refused
    /\ BookingNext
    /\ UNCHANGED vars

SettleTrip ==
    /\ state = NoState
    /\ Next
    /\ UNCHANGED bookingVars

TripSpec == TripInit /\ [][BookTrip \/ SettleTrip]_<<vars, bookingVars>>

=============================================================================
