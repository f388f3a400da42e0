CONSTANTS
    MaxSafeInteger = 200000
    Grain = 4
    Moving <- Varying
    TripCounts <- Trips
    Tenures <- Months
SPECIFICATION Spec
CHECK_DEADLOCK FALSE
INVARIANTS
    BreakdownIsTheScore
    WeakestDimensionCaps
PROPERTIES
    BetterNeverCosts
