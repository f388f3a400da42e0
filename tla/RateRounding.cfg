CONSTANTS
    Bits = 7
    FractionBits = 8
    NaN = NaN
    Undefined = Undefined
    RegionalAverage <- Earnings
    Terms <- SafeTerms
    Amounts <- Numbers127
    Rates <- Fractions
    Weightings <- Splits
    Payments <- Numbers127
    Dollars <- Typed
SPECIFICATION Spec
CHECK_DEADLOCK FALSE
INVARIANTS
    RatesRoundHalfAway
