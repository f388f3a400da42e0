--------------------------- MODULE MCDriverRecord ---------------------------
(* DriverRecord with rates in quarters for four metrics, of each dimension  *)
(* one at least and both rates of failures, and trips and tenure at and     *)
(* just below the thresholds.                                               *)
EXTENDS DriverRecord

Varying ==
    {"passengerRatingAvg", "cancellationRate", "postTripConditionAvg", "disputeRate"}

Trips == {0, 74, 75, 250, 599, 1000}

Months == {0, 3, 6, 11, 18}

=============================================================================
