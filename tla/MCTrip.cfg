CONSTANTS
    NoBreakdown = NoBreakdown
    MaxSafeInteger = 200000
    MaxAttempts = 2
    Grosses <- EarningsUpToLimit
    Durations <- TripLengths
SPECIFICATION TripSpec
CHECK_DEADLOCK FALSE
INVARIANTS
    InsuredOnTheRoad
    ReclaimEndsAtPickup
    SharesConserve
    LossIsFlagged
    StandingPays
PROPERTIES
    ImplementsTrip
    ImplementsPromise
