------------------------------- MODULE Numbers -------------------------------
(***************************************************************************)
(* JavaScript's numbers, as far as the money code computes with them:      *)
(* binary floating point, rounded to nearest with ties to even.  The code  *)
(* has 53 bits of significand, this module has Bits of them, so that the   *)
(* boundary at Number.MAX_SAFE_INTEGER is within TLC's reach.              *)
(*                                                                         *)
(* A number is written as an integer: how many times 1/One it is.  Below   *)
(* 2^(Bits - FractionBits) the grid is coarser than the code's, and        *)
(* infinities are left out: no input modelled overflows.                   *)
(***************************************************************************)
EXTENDS Integers

CONSTANTS
    Bits,           \* bits of a significand
    FractionBits,   \* bits behind the binary point
    NaN             \* not a number

ASSUME NumbersAssumption == Bits \in Nat \ {0} /\ FractionBits \in Nat /\ NaN \notin Int

\* The powers of two.
Power[k \in Nat] == IF k = 0 THEN 1 ELSE 2 * Power[k - 1]

One == Power[FractionBits]

\* Number.MAX_SAFE_INTEGER.
MaxSafe == (Power[Bits] - 1) * One

\* How many bits of n are too many.
Shift(n) == CHOOSE e \in 0..n : n < Power[Bits + e] /\ \A f \in 0..(e - 1) : n >= Power[Bits + f]

\* The number nearest to the fraction n/d, for n not negative.
NearestNat(n, d) ==
    LET step == Power[Shift(n \div d)]
        m    == n \div (d * step)
        rest == 2 * (n % (d * step))
    IN  step * IF rest > d * step \/ (rest = d * step /\ m % 2 = 1) THEN m + 1 ELSE m

Nearest(n, d) == IF n < 0 THEN -NearestNat(-n, d) ELSE NearestNat(n, d)

Plus(x, y) == Nearest(x + y, 1)
Minus(x, y) == Nearest(x - y, 1)
Times(x, y) == Nearest(x * y, One)
Over(x, y) == Nearest(x * One, y)

Floor(x) == One * (x \div One)
Ceil(x) == -Floor(-x)

\* Math.round: a half goes up, towards zero below it.
Round(x) == Floor(x + One \div 2)

IsInteger(x) == x % One = 0

=============================================================================
