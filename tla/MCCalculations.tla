--------------------------- MODULE MCCalculations ---------------------------
(* Calculations with seven bits of significand and eight behind the point: *)
(* every total up to the largest safe integer, 127, and past it.           *)
EXTENDS Calculations

Numbers127 ==
    {n * One : n \in 0..128} \cup {-One, -7 * One, -127 * One, NaN, One + One \div 2}

SafeTerms == {n * One : n \in {-127, -126, -64, -63, -1, 0, 1, 2, 63, 64, 65, 126, 127}}

Fractions == {-1, 0, Nearest(One, 10), Nearest(12 * One, 100), One \div 2, One, One + 1, NaN}

\* A tenth, whole weights that divide evenly or not, none, and refused ones.
Weights == {0, Nearest(One, 10), One, 3 * One, 5 * One, 50 * One}

Splits ==
    {<<>>, <<NaN>>, <<One, -One>>} \cup UNION {[1..n -> Weights] : n \in 1..3}

\* 25, 23 and 24 stand for 2500, 2300 and 2400 cents an hour.
Earnings == [US |-> 25, CA |-> 23, GB |-> 24]

\* Dollars to the cent, one that is not, and amounts around the limit and past it.
Typed ==
    {Nearest(c * One, 100) : c \in -2..130} \cup {NaN, One + 1, 2 * One, 127 * One}

=============================================================================
