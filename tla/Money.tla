-------------------------------- MODULE Money --------------------------------
(***************************************************************************)
(* The money helpers of packages/shared/src/money.ts, on amounts that are  *)
(* JavaScript numbers (Numbers): sums, a rate of an amount, and the split  *)
(* of an amount over weights.  formatMoney is display only and left out.   *)
(***************************************************************************)
EXTENDS Numbers, Sequences, FiniteSets

Value(v) == [kind |-> "value", value |-> v]

MoneyError == [kind |-> "MoneyError"]

Currency == {"USD", "CAD", "GBP"}

\* Mutation of IsMinorUnits: any integer will do (Number.isInteger).
IsMinorUnitsUnbounded(x) == x # NaN /\ IsInteger(x)

\* isMinorUnits, which assertMinorUnits asserts: a safe integer.
IsMinorUnits(x) == x # NaN /\ IsInteger(x) /\ x \in (-MaxSafe)..MaxSafe

MoneyOf(amount, currency) ==
    IF IsMinorUnits(amount) THEN Value([amount |-> amount, currency |-> currency])
    ELSE MoneyError

\* assertSameCurrency comes first.
AddMoney(a, b) ==
    IF a.currency # b.currency THEN MoneyError
    ELSE MoneyOf(Plus(a.amount, b.amount), a.currency)

SubtractMoney(a, b) ==
    IF a.currency # b.currency THEN MoneyError
    ELSE MoneyOf(Minus(a.amount, b.amount), a.currency)

\* Mutation of ApplyRate: the fraction of a unit is cut off.
ApplyRateCut(amount, rate) ==
    IF ~IsMinorUnits(amount) \/ rate = NaN \/ rate < 0 \/ rate > One THEN MoneyError
    ELSE Value(Floor(Times(amount, rate)))

ApplyRate(amount, rate) ==
    IF ~IsMinorUnits(amount) \/ rate = NaN \/ rate < 0 \/ rate > One THEN MoneyError
    ELSE Value(Round(Times(amount, rate)))

-----------------------------------------------------------------------------
(* splitMinorUnits.                                                        *)

\* What reduce((acc, x) => acc + x, 0) has accumulated after each number, and at the end.
Accumulated(numbers) ==
    LET acc[k \in 0..Len(numbers)] == IF k = 0 THEN 0 ELSE Plus(acc[k - 1], numbers[k])
    IN  acc

Total(numbers) == Accumulated(numbers)[Len(numbers)]

\* What each bucket is due, in floating point: total times weight, over the sum.
Dues(total, weights) ==
    [i \in DOMAIN weights |-> Over(Times(total, weights[i]), Total(weights))]

Fraction(x) == x - Floor(x)

\* Mutation of PlaceOf: the order of the buckets, not of their remainders.
PlaceOfIndex(dues, i) == i - 1

\* The place of a bucket when they are sorted by remainder, largest first; the
\* sort is stable.
PlaceOf(dues, i) ==
    Cardinality({j \in DOMAIN dues :
                    \/ Fraction(dues[j]) > Fraction(dues[i])
                    \/ Fraction(dues[j]) = Fraction(dues[i]) /\ j < i})

\* Mutation of Distribute: every bucket is rounded by itself.
DistributeByRounding(total, dues) == [i \in DOMAIN dues |-> Round(dues[i])]

\* The floors, and a unit more for as many of the first buckets as units are left.
Distribute(total, dues) ==
    LET floors == [i \in DOMAIN dues |-> Floor(dues[i])]
        left   == Minus(total, Total(floors))
    IN  [i \in DOMAIN dues |->
            IF PlaceOf(dues, i) * One < left THEN Plus(floors[i], One) ELSE floors[i]]

\* No weight anywhere: all of it goes to the first bucket.
SplitMinorUnits(total, weights) ==
    IF \/ ~IsMinorUnits(total) \/ total < 0
       \/ weights = <<>>
       \/ \E i \in DOMAIN weights : weights[i] = NaN \/ weights[i] < 0
    THEN MoneyError
    ELSE IF Total(weights) = 0
    THEN Value([i \in DOMAIN weights |-> IF i = 1 THEN total ELSE 0])
    ELSE Value(Distribute(total, Dues(total, weights)))

=============================================================================
