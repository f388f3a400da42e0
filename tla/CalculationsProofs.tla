-------------------------- MODULE CalculationsProofs --------------------------
(***************************************************************************)
(* The answers of the shared calculations, for every width of the numbers  *)
(* and every number passed: the invariant is that an answer is what the    *)
(* function called returns (Computed), and everything above it says what   *)
(* that is.  In order: induction and recursion on the natural numbers,     *)
(* for the powers of two and the sums; rounding to the nearest number,     *)
(* which never crosses a whole number; car notes; sums; quotients; the     *)
(* places of the buckets; the split, over whole weights and then over any, *)
(* where what every rounding costs is added up.                            *)
(***************************************************************************)
EXTENDS Calculations, WellFoundedInduction, FiniteSetTheorems, TLAPS

\* Induction, for a set.
LEMMA SetInduction ==
    ASSUME NEW S, 0 \in S, \A n \in Nat : n \in S => n + 1 \in S
    PROVE  Nat \subseteq S
<1> SUFFICES ASSUME Nat \ S # {} PROVE FALSE
    OBVIOUS
<1>1. PICK x \in Nat \ S : \A y \in Nat \ S : ~ (<<y, x>> \in OpToRel(<, Nat))
    <2>1. Nat \ S \subseteq Nat
        OBVIOUS
    <2> QED BY <2>1, WFMin, NatLessThanWellFounded
<1>2. x # 0 /\ x - 1 \in Nat
    OBVIOUS
<1>3. <<x - 1, x>> \in OpToRel(<, Nat)
    BY <1>2 DEF OpToRel
<1>4. x - 1 \in S
    BY <1>1, <1>2, <1>3
<1>5. (x - 1) + 1 = x
    OBVIOUS
<1> QED BY <1>2, <1>4, <1>5

\* Recursion over the natural numbers.
LEMMA Recursion ==
    \A b \in Int : \A next \in [Nat \X Int -> Int] :
        \E f \in [Nat -> Int] : f[0] = b /\ \A k \in Nat : f[k + 1] = next[<<k, f[k]>>]
<1> TAKE b \in Int
<1> TAKE next \in [Nat \X Int -> Int]
<1> DEFINE Upto(n, g) == /\ g \in [0..n -> Int] /\ g[0] = b
                         /\ \A k \in 0..(n - 1) : g[k + 1] = next[<<k, g[k]>>]
<1>1. \A n \in Nat : \E g : Upto(n, g)
    <2> DEFINE S == {n \in Nat : \E g : Upto(n, g)}
    <2>1. 0 \in S
        <3>1. Upto(0, [i \in 0..0 |-> b])
            OBVIOUS
        <3> QED BY <3>1
    <2>2. ASSUME NEW n \in Nat, n \in S PROVE n + 1 \in S
        <3>1. PICK g : Upto(n, g)
            BY <2>2
        <3> DEFINE h == [i \in 0..(n + 1) |-> IF i = n + 1 THEN next[<<n, g[n]>>] ELSE g[i]]
        <3>2. Upto(n + 1, h)
            <4>1. h \in [0..(n + 1) -> Int]
                BY <3>1
            <4>2. h[0] = b
                BY <3>1
            <4>3. ASSUME NEW k \in 0..n PROVE h[k + 1] = next[<<k, h[k]>>]
                <5>1. h[k] = g[k] /\ k + 1 \in 0..(n + 1)
                    OBVIOUS
                <5>2. CASE k = n
                    BY <5>1, <5>2
                <5>3. CASE k \in 0..(n - 1)
                    BY <5>1, <5>3, <3>1
                <5> QED BY <5>2, <5>3
            <4>4. (n + 1) - 1 = n
                OBVIOUS
            <4> HIDE DEF h
            <4> QED BY <4>1, <4>2, <4>3, <4>4
        <3> HIDE DEF h
        <3> QED BY <3>2
    <2>3. Nat \subseteq S
        <3> HIDE DEF S
        <3> QED BY <2>1, <2>2, SetInduction
    <2> QED BY <2>3
<1>2. ASSUME NEW n \in Nat, NEW m \in Nat, NEW g, NEW h, Upto(n, g), Upto(m, h)
      PROVE  \A k \in Nat : k <= n /\ k <= m => g[k] = h[k]
    <2> DEFINE S == {k \in Nat : k <= n /\ k <= m => g[k] = h[k]}
    <2>1. 0 \in S
        BY <1>2
    <2>2. ASSUME NEW k \in Nat, k \in S PROVE k + 1 \in S
        <3> SUFFICES ASSUME k + 1 <= n, k + 1 <= m PROVE g[k + 1] = h[k + 1]
            OBVIOUS
        <3>1. k \in 0..(n - 1) /\ k \in 0..(m - 1)
            OBVIOUS
        <3>2. g[k] = h[k]
            BY <2>2
        <3> QED BY <1>2, <3>1, <3>2
    <2>3. Nat \subseteq S
        <3> HIDE DEF S
        <3> QED BY <2>1, <2>2, SetInduction
    <2> QED BY <2>3
<1> DEFINE Seg(n) == CHOOSE g : Upto(n, g)
           f == [n \in Nat |-> Seg(n)[n]]
<1>3. ASSUME NEW n \in Nat PROVE Upto(n, Seg(n))
    <2> HIDE DEF Upto
    <2> QED BY <1>1
<1> HIDE DEF Seg
<1>4. f \in [Nat -> Int] /\ f[0] = b
    BY <1>3
<1>5. ASSUME NEW k \in Nat PROVE f[k + 1] = next[<<k, f[k]>>]
    <2>1. Upto(k, Seg(k)) /\ Upto(k + 1, Seg(k + 1))
        <3>1. k + 1 \in Nat
            OBVIOUS
        <3> HIDE DEF Upto
        <3> QED BY <1>3, <3>1
    <2>2. Seg(k)[k] = Seg(k + 1)[k]
        <3> HIDE DEF Upto
        <3> QED BY <2>1, <1>2
    <2> QED BY <2>1, <2>2
<1> HIDE DEF f
<1> QED BY <1>4, <1>5

\* What Power computes.
LEMMA PowerStep ==
    /\ \A k \in Nat : Power[k] \in Nat \ {0}
    /\ Power[0] = 1
    /\ \A k \in Nat : Power[k + 1] = 2 * Power[k]
<1> DEFINE twice == [kv \in Nat \X Int |-> 2 * kv[2]]
<1>1. PICK f \in [Nat -> Int] : f[0] = 1 /\ \A k \in Nat : f[k + 1] = twice[<<k, f[k]>>]
    <2>1. twice \in [Nat \X Int -> Int]
        OBVIOUS
    <2> DEFINE one == 1
    <2>2. one \in Int /\ one = 1
        OBVIOUS
    <2> HIDE DEF one, twice
    <2>3. \E f \in [Nat -> Int] : f[0] = one /\ \A k \in Nat : f[k + 1] = twice[<<k, f[k]>>]
        BY <2>1, <2>2, Recursion, Zenon
    <2> QED BY <2>2, <2>3, Zenon
<1>2. \A k \in Nat : f[k + 1] = 2 * f[k]
    BY <1>1
<1>3. f = [k \in Nat |-> IF k = 0 THEN 1 ELSE 2 * f[k - 1]]
    <2>1. ASSUME NEW k \in Nat, k # 0 PROVE f[k] = 2 * f[k - 1]
        <3>1. k - 1 \in Nat /\ (k - 1) + 1 = k
            BY <2>1
        <3> QED BY <3>1, <1>2
    <2> QED BY <1>1, <2>1
<1>4. Power = [k \in Nat |-> IF k = 0 THEN 1 ELSE 2 * Power[k - 1]]
    BY <1>3 DEF Power
<1>5. Power[0] = 1 /\ \A k \in Nat : Power[k + 1] = 2 * Power[k]
    <2>1. \A k \in Nat : Power[k + 1] = 2 * Power[(k + 1) - 1] /\ (k + 1) - 1 = k
        BY <1>4
    <2> QED BY <1>4, <2>1
<1>6. Nat \subseteq {k \in Nat : Power[k] \in Nat \ {0}}
    <2> DEFINE S == {k \in Nat : Power[k] \in Nat \ {0}}
    <2>1. 0 \in S /\ \A n \in Nat : n \in S => n + 1 \in S
        BY <1>5
    <2>2. Nat \subseteq S
        <3> HIDE DEF S
        <3> QED BY <2>1, SetInduction
    <2> QED BY <2>2
<1> QED BY <1>5, <1>6

\* Powers multiply by adding their exponents.
LEMMA PowerSum == \A a, b \in Nat : Power[a + b] = Power[a] * Power[b]
<1> SUFFICES ASSUME NEW a \in Nat PROVE \A b \in Nat : Power[a + b] = Power[a] * Power[b]
    OBVIOUS
<1> DEFINE S == {b \in Nat : Power[a + b] = Power[a] * Power[b]}
<1>1. 0 \in S
    BY PowerStep
<1>2. ASSUME NEW b \in Nat, b \in S PROVE b + 1 \in S
    <2>1. Power[(a + b) + 1] = 2 * Power[a + b] /\ (a + b) + 1 = a + (b + 1)
        BY PowerStep
    <2>2. Power[b + 1] = 2 * Power[b] /\ Power[a] \in Nat /\ Power[b] \in Nat
        BY PowerStep
    <2>3. Power[a + b] = Power[a] * Power[b]
        BY <1>2
    <2>4. Power[a] * (2 * Power[b]) = 2 * (Power[a] * Power[b])
        BY <2>2
    <2> QED BY <2>1, <2>2, <2>3, <2>4
<1> HIDE DEF S
<1>3. Nat \subseteq S
    BY <1>1, <1>2, SetInduction
<1> QED BY <1>3 DEF S

\* And keep the order of their exponents.
LEMMA PowerOrder ==
    /\ \A a, b \in Nat : a <= b => Power[a] <= Power[b]
    /\ \A n \in Nat : n < Power[n]
<1>1. ASSUME NEW a \in Nat, NEW b \in Nat, a <= b PROVE Power[a] <= Power[b]
    <2>1. b - a \in Nat /\ a + (b - a) = b
        BY <1>1
    <2>2. Power[b] = Power[a] * Power[b - a]
        BY <2>1, PowerSum
    <2>3. Power[a] \in Nat \ {0} /\ Power[b - a] \in Nat \ {0}
        BY <2>1, PowerStep
    <2> QED BY <2>2, <2>3
<1>2. Nat \subseteq {n \in Nat : n < Power[n]}
    <2> DEFINE S == {n \in Nat : n < Power[n]}
    <2>1. 0 \in S /\ \A n \in Nat : n \in S => n + 1 \in S
        BY PowerStep
    <2>2. Nat \subseteq S
        <3> HIDE DEF S
        <3> QED BY <2>1, SetInduction
    <2> QED BY <2>2
<1> QED BY <1>1, <1>2

\* A set of natural numbers has a least one.
LEMMA Least ==
    ASSUME NEW S, S \subseteq Nat, S # {}
    PROVE  \E x \in S : \A y \in S : x <= y
<1>1. PICK x \in S : \A y \in S : ~ (<<y, x>> \in OpToRel(<, Nat))
    BY WFMin, NatLessThanWellFounded
<1>2. ASSUME NEW y \in S PROVE x <= y
    <2>1. x \in Nat /\ y \in Nat
        OBVIOUS
    <2>2. ASSUME y < x PROVE FALSE
        <3>1. <<y, x>> \in OpToRel(<, Nat)
            BY <2>1, <2>2 DEF OpToRel
        <3> QED BY <1>1, <3>1
    <2> QED BY <2>1, <2>2
<1> QED BY <1>2

\* The bits that are shifted off leave as many as a significand has, and no fewer.
LEMMA ShiftLeavesBits ==
    ASSUME NEW n \in Nat
    PROVE  /\ Shift(n) \in Nat
           /\ n < Power[Bits + Shift(n)]
           /\ Shift(n) # 0 => n >= Power[Bits + (Shift(n) - 1)]
<1> USE NumbersAssumption
<1> DEFINE Enough == {e \in Nat : n < Power[Bits + e]}
<1>1. n \in Enough
    <2>1. Bits + n \in Nat /\ n <= Bits + n
        OBVIOUS
    <2>2. Power[n] <= Power[Bits + n] /\ n < Power[n]
        BY <2>1, PowerOrder
    <2>3. Power[n] \in Nat /\ Power[Bits + n] \in Nat
        BY <2>1, PowerStep
    <2> QED BY <2>2, <2>3
<1>2. PICK x \in Enough : \A y \in Enough : x <= y
    <2>1. Enough \subseteq Nat /\ Enough # {}
        BY <1>1
    <2> HIDE DEF Enough
    <2> QED BY <2>1, Least
<1>3. x \in 0..n
    BY <1>1, <1>2
<1>4. ASSUME NEW f \in 0..(x - 1) PROVE n >= Power[Bits + f]
    <2>1. f \notin Enough /\ f \in Nat
        BY <1>2
    <2>2. Power[Bits + f] \in Nat
        BY PowerStep
    <2> QED BY <2>1, <2>2
<1> DEFINE Fits(e) == n < Power[Bits + e] /\ \A f \in 0..(e - 1) : n >= Power[Bits + f]
<1>5. Fits(x)
    BY <1>2, <1>4
<1>6. Shift(n) = CHOOSE e \in 0..n : Fits(e)
    BY DEF Shift
<1> HIDE DEF Fits
<1>7. Shift(n) \in 0..n /\ Fits(Shift(n))
    BY <1>3, <1>5, <1>6
<1> QED BY <1>7 DEF Fits

\* Multiplying by a positive number keeps order.
LEMMA TimesKeepsOrder ==
    ASSUME NEW a \in Int, NEW b \in Int, NEW c \in Nat \ {0}
    PROVE  /\ a <= b <=> a * c <= b * c
           /\ a < b <=> a * c < b * c
           /\ a < b => a * c + c <= b * c
           /\ a <= b <=> c * a <= c * b
           /\ a < b <=> c * a < c * b
<1>1. a <= b => a * c <= b * c
    OBVIOUS
<1>2. a < b => (a + 1) * c <= b * c
    OBVIOUS
<1>3. (a + 1) * c = a * c + c
    OBVIOUS
<1>4. b < a => (b + 1) * c <= a * c
    OBVIOUS
<1>5. (b + 1) * c = b * c + c
    OBVIOUS
<1>6. a * c \in Int /\ b * c \in Int /\ c * a = a * c /\ c * b = b * c
    OBVIOUS
<1> QED BY <1>1, <1>2, <1>3, <1>4, <1>5, <1>6

\* Division with a remainder.
LEMMA Division ==
    ASSUME NEW n \in Int, NEW w \in Nat \ {0}
    PROVE  /\ n \div w \in Int /\ n % w \in 0..(w - 1)
           /\ n = w * (n \div w) + (n % w)
           /\ n \in Nat => n \div w \in Nat
    OBVIOUS

\* The spacing of the numbers about n/d, and how many times it the nearest of them is.
Step(n, d) == Power[Shift(n \div d)]

Steps(n, d) ==
    LET w == d * Step(n, d)
        m == n \div w
        rest == 2 * (n % w)
    IN  IF rest > w \/ (rest = w /\ m % 2 = 1) THEN m + 1 ELSE m

\* What rounding to the nearest does.
LEMMA RoundsToNearest ==
    ASSUME NEW n \in Nat, NEW d \in Nat \ {0}
    PROVE  /\ Step(n, d) \in Nat \ {0} /\ Steps(n, d) \in Nat
           /\ NearestNat(n, d) = Step(n, d) * Steps(n, d)
           /\ 2 * (n - (d * Step(n, d)) * Steps(n, d)) <= d * Step(n, d)
           /\ 2 * ((d * Step(n, d)) * Steps(n, d) - n) <= d * Step(n, d)
           /\ Step(n, d) = 1 \/ 2 * n >= d * (Power[Bits] * Step(n, d))
           /\ \A a \in Nat : /\ n <= (d * Step(n, d)) * a => Steps(n, d) <= a
                             /\ n >= (d * Step(n, d)) * a => Steps(n, d) >= a
<1> DEFINE step == Step(n, d)
           w == d * step
           m == n \div w
           rem == n % w
           k == IF 2 * rem > w \/ (2 * rem = w /\ m % 2 = 1) THEN m + 1 ELSE m
<1>1. step \in Nat \ {0}
    <2>1. n \div d \in Nat
        OBVIOUS
    <2>2. Shift(n \div d) \in Nat
        BY <2>1, ShiftLeavesBits
    <2> QED BY <2>2, PowerStep DEF Step
<1>2. w \in Nat \ {0}
    <2> HIDE DEF step
    <2> QED BY <1>1
<1>3. NearestNat(n, d) = step * k /\ Steps(n, d) = k
    BY DEF NearestNat, Step, Steps
<1> HIDE DEF step
<1>4. m \in Nat /\ rem \in 0..(w - 1) /\ n = w * m + rem
    <2> HIDE DEF w
    <2> QED BY <1>2
<1>5. /\ 2 * (n - w * k) <= w
      /\ 2 * (w * k - n) <= w
      /\ k \in Nat
      /\ k \in {m, m + 1} /\ (rem = 0 => k = m)
    <2>1. w * (m + 1) = w * m + w
        <3> HIDE DEF w, m
        <3> QED BY <1>2, <1>4
    <2>2. w * m \in Int
        <3> HIDE DEF w, m
        <3> QED BY <1>2, <1>4
    <2> HIDE DEF w, m, rem
    <2>3. CASE k = m
        BY <1>2, <1>4, <2>2, <2>3
    <2>4. CASE k = m + 1 /\ 2 * rem >= w
        BY <1>2, <1>4, <2>1, <2>2, <2>4
    <2> QED BY <1>2, <1>4, <2>3, <2>4
<1>6. ASSUME NEW a \in Nat
      PROVE  /\ n <= w * a => k <= a
             /\ n >= w * a => k >= a
    <2> HIDE DEF w, m, rem, k
    <2>1. /\ a <= m <=> a * w <= m * w
          /\ a < m <=> a * w < m * w
          /\ m < a => m * w + w <= a * w
        BY <1>2, <1>4, TimesKeepsOrder
    <2>2. a * w = w * a /\ m * w = w * m /\ w * a \in Int /\ w * m \in Int
        BY <1>2, <1>4
    <2>3. n <= w * a => k <= a
        BY <1>2, <1>4, <1>5, <2>1, <2>2
    <2>4. n >= w * a => k >= a
        BY <1>2, <1>4, <1>5, <2>1, <2>2
    <2> QED BY <2>3, <2>4
<1>7. step = 1 \/ 2 * n >= d * (Power[Bits] * step)
    <2> DEFINE q == n \div d
               e == Shift(q)
    <2>1. q \in Nat /\ n >= d * q
        <3>1. q \in Nat /\ n = d * q + (n % d) /\ n % d \in Nat /\ d * q \in Nat
            OBVIOUS
        <3> QED BY <3>1
    <2> HIDE DEF q
    <2>2. e \in Nat /\ (e # 0 => q >= Power[Bits + (e - 1)])
        BY <2>1, ShiftLeavesBits
    <2>3. step = Power[e]
        BY DEF step, Step, q
    <2> HIDE DEF e
    <2> SUFFICES ASSUME step # 1 PROVE 2 * n >= d * (Power[Bits] * step)
        OBVIOUS
    <2>4. e # 0 /\ Bits \in Nat /\ Bits + (e - 1) \in Nat /\ (Bits + (e - 1)) + 1 = Bits + e
        BY <2>2, <2>3, PowerStep, NumbersAssumption
    <2>5. Power[Bits + e] = Power[Bits] * step
        BY <2>2, <2>3, <2>4, PowerSum
    <2>6. Power[Bits + e] = 2 * Power[Bits + (e - 1)] /\ Power[Bits + (e - 1)] \in Nat
        BY <2>4, PowerStep
    <2>7. d * q >= d * Power[Bits + (e - 1)]
        BY <2>1, <2>2, <2>4, <2>6, TimesKeepsOrder
    <2>8. d * (2 * Power[Bits + (e - 1)]) = 2 * (d * Power[Bits + (e - 1)])
          /\ d * Power[Bits + (e - 1)] \in Int /\ d * q \in Int
        BY <2>1, <2>6
    <2> QED BY <2>1, <2>5, <2>6, <2>7, <2>8
<1> HIDE DEF k, w
<1> QED BY <1>1, <1>3, <1>5, <1>6, <1>7 DEF step, w

-----------------------------------------------------------------------------
(* The grid.                                                               *)

\* The unit, its half and the largest safe integer, as powers of two.
LEMMA Grid ==
    /\ One \in Nat \ {0} /\ MaxSafe \in Nat
    /\ MaxSafe + One = Power[Bits + FractionBits]
    /\ One = 1 \/ One = 2 * (One \div 2)
<1> USE NumbersAssumption
<1>1. One \in Nat \ {0} /\ Power[Bits] \in Nat \ {0}
    BY PowerStep DEF One
<1>2. Power[Bits + FractionBits] = Power[Bits] * One
    BY PowerSum DEF One
<1>3. (Power[Bits] - 1) * One = Power[Bits] * One - One /\ (Power[Bits] - 1) * One \in Nat
    BY <1>1
<1>4. One = 1 \/ One = 2 * (One \div 2)
    <2>1. CASE FractionBits = 0
        BY <2>1, PowerStep DEF One
    <2>2. CASE FractionBits # 0
        <3>1. FractionBits - 1 \in Nat /\ (FractionBits - 1) + 1 = FractionBits
            BY <2>2
        <3>2. One = 2 * Power[FractionBits - 1] /\ Power[FractionBits - 1] \in Nat
            BY <3>1, PowerStep DEF One
        <3> QED BY <3>2
    <2> QED BY <2>1, <2>2
<1> QED BY <1>1, <1>2, <1>3, <1>4 DEF MaxSafe

\* Below the limit, every whole number is one of the numbers nearby.
LEMMA StepDividesWholes ==
    ASSUME NEW q \in Nat, q < MaxSafe + One, NEW K \in Nat
    PROVE  \E a \in Nat : K * One = Power[Shift(q)] * a
<1> USE NumbersAssumption
<1> DEFINE e == Shift(q)
<1>1. e \in Nat /\ (e # 0 => q >= Power[Bits + (e - 1)])
    BY ShiftLeavesBits
<1> HIDE DEF e
<1>2. e <= FractionBits
    <2> SUFFICES ASSUME e > FractionBits PROVE FALSE
        BY <1>1
    <2>1. Bits + (e - 1) \in Nat /\ Bits + FractionBits \in Nat
          /\ Bits + FractionBits <= Bits + (e - 1) /\ e # 0
        BY <1>1
    <2>2. Power[Bits + FractionBits] <= Power[Bits + (e - 1)]
        BY <2>1, PowerOrder
    <2>3. Power[Bits + FractionBits] \in Nat /\ Power[Bits + (e - 1)] \in Nat
        BY <2>1, PowerStep
    <2> QED BY <1>1, <2>1, <2>2, <2>3, Grid
<1> DEFINE rest == Power[FractionBits - e]
<1>3. FractionBits - e \in Nat /\ e + (FractionBits - e) = FractionBits
    BY <1>1, <1>2
<1>4. One = Power[e] * rest /\ Power[e] \in Nat /\ rest \in Nat
    <2>1. Power[e + (FractionBits - e)] = Power[e] * Power[FractionBits - e]
        BY <1>1, <1>3, PowerSum
    <2>2. Power[e] \in Nat /\ Power[FractionBits - e] \in Nat
        BY <1>1, <1>3, PowerStep
    <2> QED BY <1>3, <2>1, <2>2 DEF One
<1> HIDE DEF rest
<1>5. K * (Power[e] * rest) = Power[e] * (K * rest) /\ K * rest \in Nat
    BY <1>4
<1> QED BY <1>4, <1>5 DEF e

\* Rounding to the nearest does not cross a whole number.
LEMMA NearestKeepsWholes ==
    ASSUME NEW n \in Nat, NEW d \in Nat \ {0}, n < d * (MaxSafe + One), NEW K \in Nat
    PROVE  /\ n <= d * (K * One) => NearestNat(n, d) <= K * One
           /\ n >= d * (K * One) => NearestNat(n, d) >= K * One
<1>1. n \div d \in Nat /\ n \div d < MaxSafe + One
    <2> DEFINE limit == MaxSafe + One
    <2>1. limit \in Nat
        BY Grid
    <2>2. n < d * limit
        OBVIOUS
    <2> HIDE DEF limit
    <2>3. n \div d \in Nat /\ n = d * (n \div d) + (n % d) /\ n % d >= 0 /\ n % d \in Int
        OBVIOUS
    <2>4. d * (n \div d) < d * limit
        BY <2>1, <2>2, <2>3
    <2>5. n \div d < limit
        BY <2>1, <2>3, <2>4, TimesKeepsOrder
    <2> QED BY <2>3, <2>5 DEF limit
<1> DEFINE step == Step(n, d)
           k == Steps(n, d)
<1>2. /\ step \in Nat \ {0} /\ k \in Nat
      /\ step = Power[Shift(n \div d)]
      /\ NearestNat(n, d) = step * k
      /\ \A a \in Nat : /\ n <= (d * step) * a => k <= a
                        /\ n >= (d * step) * a => k >= a
    BY RoundsToNearest DEF Step
<1> HIDE DEF step, k
<1>3. PICK a \in Nat : K * One = step * a
    BY <1>1, <1>2, StepDividesWholes
<1>4. d * (step * a) = (d * step) * a
    BY <1>2
<1>5. /\ n <= d * (K * One) => k <= a
      /\ n >= d * (K * One) => k >= a
    BY <1>2, <1>3, <1>4
<1>6. /\ k <= a => step * k <= step * a
      /\ k >= a => step * k >= step * a
    <2>1. k \in Int /\ a \in Int /\ step \in Nat \ {0}
        BY <1>2
    <2>2. k <= a <=> step * k <= step * a
        BY <2>1, TimesKeepsOrder
    <2>3. a <= k <=> step * a <= step * k
        BY <2>1, TimesKeepsOrder
    <2>4. step * a \in Int /\ step * k \in Int
        BY <2>1
    <2> QED BY <2>1, <2>2, <2>3, <2>4
<1> QED BY <1>2, <1>3, <1>5, <1>6

\* Rounding to the nearest gives a number.
LEMMA NearestIsNat ==
    ASSUME NEW n \in Nat, NEW d \in Nat \ {0}
    PROVE  NearestNat(n, d) \in Nat
    BY RoundsToNearest

\* What is too large stays too large.
LEMMA NearestKeepsTooLarge ==
    ASSUME NEW n \in Nat, NEW d \in Nat \ {0}, n >= d * (MaxSafe + One)
    PROVE  NearestNat(n, d) >= MaxSafe + One
<1> USE NumbersAssumption
<1> DEFINE q == n \div d
           e == Shift(q)
<1>1. q \in Nat /\ q >= MaxSafe + One /\ n >= d * q
    <2> DEFINE limit == MaxSafe + One
    <2>1. limit \in Nat /\ limit \in Int
        BY Grid
    <2>2. n >= d * limit
        OBVIOUS
    <2> HIDE DEF limit
    <2>3. q \in Nat /\ n = d * q + (n % d) /\ n % d >= 0 /\ n % d < d /\ n % d \in Int
        OBVIOUS
    <2> HIDE DEF q
    <2>4. d * limit < d * (q + 1)
        <3>1. d * (q + 1) = d * q + d
            BY <2>3
        <3> QED BY <2>1, <2>2, <2>3, <3>1
    <2>5. limit < q + 1
        <3>1. d * limit = limit * d /\ d * (q + 1) = (q + 1) * d /\ q + 1 \in Int
            BY <2>1, <2>3
        <3> QED BY <2>1, <2>4, <3>1, TimesKeepsOrder
    <2>6. d * q \in Nat
        BY <2>3
    <2> QED BY <2>1, <2>3, <2>5, <2>6 DEF limit
<1> HIDE DEF q
<1>2. e \in Nat /\ q < Power[Bits + e] /\ (e # 0 => q >= Power[Bits + (e - 1)])
    BY <1>1, ShiftLeavesBits
<1> DEFINE step == Step(n, d)
           k == Steps(n, d)
<1>3. /\ step \in Nat \ {0} /\ k \in Nat
      /\ step = Power[e]
      /\ NearestNat(n, d) = step * k
      /\ \A a \in Nat : n >= (d * step) * a => k >= a
    BY RoundsToNearest DEF q, Step
<1> HIDE DEF e, step, k
<1>4. e > FractionBits
    <2> SUFFICES ASSUME e <= FractionBits PROVE FALSE
        BY <1>2
    <2>1. Power[Bits + e] <= Power[Bits + FractionBits]
        BY <1>2, PowerOrder
    <2>2. Power[Bits + e] \in Nat /\ Power[Bits + FractionBits] \in Nat
        BY <1>2, PowerStep
    <2> QED BY <1>1, <1>2, <2>1, <2>2, Grid
<1> DEFINE a == Power[Bits - 1]
<1>5. Bits - 1 \in Nat /\ e + (Bits - 1) = Bits + (e - 1) /\ Bits + (e - 1) \in Nat
    BY <1>2, <1>4
<1>6. Power[Bits + (e - 1)] = step * a /\ a \in Nat
    <2>1. Power[e + (Bits - 1)] = Power[e] * Power[Bits - 1]
        BY <1>2, <1>5, PowerSum
    <2>2. Power[Bits - 1] \in Nat
        BY <1>5, PowerStep
    <2> QED BY <1>3, <1>5, <2>1, <2>2
<1>7. Power[Bits + FractionBits] <= step * a
    <2>1. Bits + FractionBits <= Bits + (e - 1)
        BY <1>2, <1>4
    <2> QED BY <1>5, <1>6, <2>1, PowerOrder
<1> HIDE DEF a
<1>8. n >= (d * step) * a
    <2>1. q >= step * a
        BY <1>2, <1>4, <1>6
    <2>2. d * q >= d * (step * a)
        BY <1>1, <1>3, <1>6, <2>1, TimesKeepsOrder
    <2>3. d * (step * a) = (d * step) * a /\ d * q \in Int /\ d * (step * a) \in Int
        BY <1>1, <1>3, <1>6
    <2> QED BY <1>1, <2>2, <2>3
<1>9. step * k >= step * a
    BY <1>3, <1>6, <1>8, TimesKeepsOrder
<1>10. step * k \in Int /\ step * a \in Int /\ MaxSafe + One \in Int
    BY <1>3, <1>6, Grid
<1> QED BY <1>3, <1>7, <1>9, <1>10, Grid

\* How many units Math.round makes of x.
Units(x) == (x + One \div 2) \div One

\* Math.round: no further than a half, up from below, and across no whole number.
LEMMA Rounding ==
    ASSUME NEW x \in Int
    PROVE  /\ Units(x) \in Int /\ Round(x) = Units(x) * One /\ Round(x) \in Int
           /\ 2 * (Round(x) - x) <= One /\ 2 * (Round(x) - x) > -One
           /\ \A K \in Int : /\ x <= K * One => Round(x) <= K * One
                             /\ x >= K * One => Round(x) >= K * One
<1> DEFINE half == One \div 2
           j == Units(x)
           rest == (x + half) % One
<1>1. One \in Nat \ {0} /\ half \in Nat /\ (One = 1 \/ One = 2 * half) /\ (One = 1 => half = 0)
    BY Grid
<1>2. Round(x) = One * j
    BY DEF Round, Floor, Units
<1>9. j = (x + half) \div One
    BY DEF Units
<1> HIDE DEF half
<1>3. x + half \in Int
    BY <1>1
<1>4. j \in Int /\ rest \in 0..(One - 1) /\ x + half = One * j + rest
    BY <1>1, <1>3, <1>9, Division
<1> HIDE DEF j, rest
<1>5. One * j = j * One /\ One * j \in Int
    BY <1>1, <1>4
<1>6. 2 * (One * j - x) <= One /\ 2 * (One * j - x) > -One
    BY <1>1, <1>4, <1>5
<1>7. ASSUME NEW K \in Int
      PROVE  /\ x <= K * One => One * j <= K * One
             /\ x >= K * One => One * j >= K * One
    <2>1. K * One \in Int
        BY <1>1
    <2>2. /\ j <= K <=> j * One <= K * One
          /\ K < j => K * One + One <= j * One
          /\ j < K => j * One + One <= K * One
        BY <1>1, <1>4, TimesKeepsOrder
    <2> QED BY <1>1, <1>4, <1>5, <1>6, <2>1, <2>2
<1> QED BY <1>2, <1>4, <1>5, <1>6, <1>7 DEF j

\* Whole numbers are multiples of One.
LEMMA Wholes ==
    /\ \A x \in Int : IsInteger(x) => \E K \in Int : x = K * One /\ (x >= 0 => K \in Nat)
    /\ \A x \in Nat : IsInteger(x) => \E K \in Nat : x = K * One
    /\ \A K \in Int : IsInteger(K * One) /\ K * One \in Int /\ -(K * One) = (-K) * One
    /\ \A x, y \in Int : IsInteger(x) /\ IsInteger(y) => IsInteger(x + y) /\ IsInteger(x - y)
<1> USE Grid
<1>1. ASSUME NEW K \in Int
      PROVE  IsInteger(K * One) /\ K * One \in Int /\ -(K * One) = (-K) * One
    <2> DEFINE x == K * One
               q == x \div One
               rest == x % One
    <2>1. x \in Int /\ -x = (-K) * One
        OBVIOUS
    <2>2. q \in Int /\ rest \in 0..(One - 1) /\ x = One * q + rest
        <3> HIDE DEF x
        <3> QED BY <2>1, Division
    <2> HIDE DEF q, rest
    <2>3. One * q = q * One /\ q * One \in Int
        BY <2>2
    <2>4. /\ q < K => q * One + One <= K * One
          /\ K < q => K * One + One <= q * One
        BY <2>2, TimesKeepsOrder
    <2>5. rest = 0
        BY <2>1, <2>2, <2>3, <2>4
    <2> QED BY <2>1, <2>5 DEF IsInteger, rest
<1>2. ASSUME NEW x \in Int, IsInteger(x)
      PROVE  x \div One \in Int /\ x = (x \div One) * One /\ (x >= 0 => x \div One \in Nat)
    BY <1>2 DEF IsInteger
<1>3. ASSUME NEW x \in Int, NEW y \in Int, IsInteger(x), IsInteger(y)
      PROVE  IsInteger(x + y) /\ IsInteger(x - y)
    <2>1. PICK K \in Int : x = K * One
        BY <1>2, <1>3
    <2>2. PICK L \in Int : y = L * One
        BY <1>2, <1>3
    <2>3. x + y = (K + L) * One /\ x - y = (K - L) * One /\ K + L \in Int /\ K - L \in Int
        BY <2>1, <2>2
    <2> QED BY <1>1, <2>3
<1>4. \A x \in Int : IsInteger(x) => \E K \in Int : x = K * One /\ (x >= 0 => K \in Nat)
    BY <1>2
<1>5. \A x \in Nat : IsInteger(x) => \E K \in Nat : x = K * One
    <2>1. ASSUME NEW x \in Nat, IsInteger(x) PROVE \E K \in Nat : x = K * One
        <3>1. x \in Int /\ x >= 0
            OBVIOUS
        <3> QED BY <1>2, <2>1, <3>1
    <2> QED BY <2>1
<1> QED BY <1>1, <1>3, <1>4, <1>5

\* A whole number leaves floating point as it was, or as no amount at all.
LEMMA NearestWhole ==
    ASSUME NEW x \in Int, IsInteger(x)
    PROVE  IF x \in (-MaxSafe)..MaxSafe THEN Nearest(x, 1) = x ELSE ~IsMinorUnits(Nearest(x, 1))
<1> USE Grid
<1>1. ASSUME NEW y \in Nat, IsInteger(y)
      PROVE  /\ y <= MaxSafe => NearestNat(y, 1) = y
             /\ y > MaxSafe => NearestNat(y, 1) > MaxSafe
             /\ NearestNat(y, 1) \in Nat
    <2>1. PICK K \in Nat : y = K * One
        BY <1>1, Wholes
    <2>2. 1 * (K * One) = K * One /\ 1 * (MaxSafe + One) = MaxSafe + One /\ K * One \in Int
        OBVIOUS
    <2>3. NearestNat(y, 1) \in Nat
        BY NearestIsNat
    <2>4. ASSUME y <= MaxSafe PROVE NearestNat(y, 1) = y
        <3>1. y < 1 * (MaxSafe + One) /\ 1 \in Nat \ {0} /\ 1 * (K * One) = y
            BY <2>1, <2>4
        <3>2. /\ y <= 1 * (K * One) => NearestNat(y, 1) <= K * One
              /\ y >= 1 * (K * One) => NearestNat(y, 1) >= K * One
            BY <3>1, NearestKeepsWholes
        <3> QED BY <2>1, <2>3, <3>1, <3>2
    <2>5. y > MaxSafe => y >= MaxSafe + One
        <3>1. (Power[Bits] - 1) \in Int /\ Power[Bits] \in Int
            BY NumbersAssumption, PowerStep
        <3>2. (Power[Bits] - 1) < K => (Power[Bits] - 1) * One + One <= K * One
            BY <3>1, TimesKeepsOrder
        <3>3. (Power[Bits] - 1) * One < K * One => (Power[Bits] - 1) < K
            BY <3>1, TimesKeepsOrder
        <3> QED BY <2>1, <2>2, <3>1, <3>2, <3>3 DEF MaxSafe
    <2>6. y > MaxSafe => NearestNat(y, 1) >= MaxSafe + One
        BY <2>2, <2>5, NearestKeepsTooLarge
    <2> QED BY <2>3, <2>4, <2>6
<1>2. CASE x >= 0
    <2>1. Nearest(x, 1) = NearestNat(x, 1) /\ x \in Nat
        BY <1>2 DEF Nearest
    <2> QED BY <1>1, <2>1 DEF IsMinorUnits
<1>3. CASE x < 0
    <2>1. Nearest(x, 1) = -NearestNat(-x, 1) /\ -x \in Nat
        BY <1>3 DEF Nearest
    <2>2. IsInteger(-x)
        BY Wholes
    <2> QED BY <1>1, <1>3, <2>1, <2>2 DEF IsMinorUnits
<1> QED BY <1>2, <1>3

\* A rate takes no more than there is, before its result is rounded to a whole amount.
LEMMA ProductWithin ==
    ASSUME NEW amount \in Int, IsMinorUnits(amount), NEW rate \in 0..One
    PROVE  /\ Times(amount, rate) \in Int
           /\ amount >= 0 => 0 <= Times(amount, rate) /\ Times(amount, rate) <= amount
           /\ amount < 0 => amount <= Times(amount, rate) /\ Times(amount, rate) <= 0
<1> USE Grid
<1>1. ASSUME NEW a \in Nat, a <= MaxSafe, IsInteger(a)
      PROVE  /\ a * rate \in Nat
             /\ NearestNat(a * rate, One) \in Nat /\ NearestNat(a * rate, One) <= a
    <2>1. PICK K \in Nat : a = K * One
        BY <1>1, Wholes
    <2>2. a * rate \in Nat /\ a * rate <= One * a
        <3>1. rate * a <= One * a /\ rate * a = a * rate /\ a * rate \in Nat
            <4>1. CASE a = 0
                BY <4>1
            <4>2. CASE a # 0
                <5>1. rate \in Int /\ One \in Int /\ a \in Nat \ {0} /\ rate <= One
                    BY <4>2
                <5>2. rate * a <= One * a
                    BY <5>1, TimesKeepsOrder
                <5>3. rate * a = a * rate /\ a * rate \in Nat
                    OBVIOUS
                <5> QED BY <5>2, <5>3
            <4> QED BY <4>1, <4>2
        <3> QED BY <3>1
    <2>3. One * a < One * (MaxSafe + One) /\ One * a \in Int /\ One * (MaxSafe + One) \in Int
        <3>1. a < MaxSafe + One /\ MaxSafe + One \in Int /\ a \in Int
            BY <1>1
        <3>2. One * a < One * (MaxSafe + One)
            BY <3>1, TimesKeepsOrder
        <3> QED BY <3>1, <3>2
    <2>4. NearestNat(a * rate, One) <= a
        BY <2>1, <2>2, <2>3, NearestKeepsWholes
    <2>5. NearestNat(a * rate, One) \in Nat
        BY <2>2, NearestIsNat
    <2> QED BY <2>2, <2>4, <2>5
<1>2. IsInteger(amount) /\ amount \in (-MaxSafe)..MaxSafe /\ IsInteger(-amount)
    BY Wholes DEF IsMinorUnits
<1>3. CASE amount >= 0
    <2>1. amount \in Nat /\ amount * rate \in Nat
        BY <1>1, <1>2, <1>3
    <2>2. Times(amount, rate) = NearestNat(amount * rate, One)
        BY <2>1 DEF Times, Nearest
    <2> QED BY <1>1, <1>2, <2>1, <2>2
<1>4. CASE amount < 0
    <2>1. -amount \in Nat /\ -amount <= MaxSafe
        BY <1>2, <1>4
    <2>2. (-amount) * rate \in Nat /\ NearestNat((-amount) * rate, One) \in Nat
          /\ NearestNat((-amount) * rate, One) <= -amount
        BY <1>1, <1>2, <2>1
    <2>3. (-amount) * rate = -(amount * rate)
        OBVIOUS
    <2>4. amount * rate \in Int
        OBVIOUS
    <2>5. CASE amount * rate < 0
        BY <2>2, <2>3, <2>5 DEF Times, Nearest
    <2>6. CASE ~(amount * rate < 0)
        <3>1. amount * rate = 0 /\ (-amount) * rate = 0
            BY <2>2, <2>3, <2>4, <2>6
        <3>2. Times(amount, rate) = NearestNat(0, One)
            BY <3>1 DEF Times, Nearest
        <3>3. NearestNat(0, One) <= 0 * One
            <4>1. 0 < One * (MaxSafe + One) /\ One * (0 * One) = 0
                OBVIOUS
            <4> QED BY <4>1, NearestKeepsWholes
        <3> QED BY <2>2, <3>1, <3>2, <3>3, <1>4
    <2> QED BY <2>5, <2>6
<1> QED BY <1>3, <1>4

-----------------------------------------------------------------------------
(* Car notes.                                                              *)

\* A quotient that is more than a whole number is not rounded down to it, nor one that
\* is not more than it rounded up past it.
LEMMA QuotientKeepsSide ==
    ASSUME NEW p \in Nat, p * One <= MaxSafe, NEW q \in Nat \ {0}, q < 2 * One
    PROVE  /\ Over(p * One, q * One) \in Nat
           /\ \A k \in Nat : /\ k * q < p => Over(p * One, q * One) > k * One
                             /\ p <= k * q => Over(p * One, q * One) <= k * One
<1> USE Grid
<1> DEFINE n == (p * One) * One
           d == q * One
           square == One * One
<1>1. n \in Nat /\ d \in Nat \ {0} /\ n = p * square /\ square \in Nat \ {0}
    BY TimesKeepsOrder
<1>2. Over(p * One, q * One) = NearestNat(n, d)
    BY <1>1 DEF Over, Nearest
<1>3. ASSUME NEW k \in Nat
      PROVE  d * (k * One) = (k * q) * square /\ k * q \in Nat
    OBVIOUS
<1>4. n < d * (MaxSafe + One)
    <2> DEFINE limit == MaxSafe + One
    <2>1. limit \in Nat /\ p * One < limit /\ p * One \in Nat
        OBVIOUS
    <2> HIDE DEF limit
    <2>2. (p * One) * One < limit * One
        BY <2>1, TimesKeepsOrder
    <2>3. limit * One <= limit * d
        <3>1. One <= d
            <4>1. 1 <= q /\ 1 * One = One /\ 1 \in Int /\ q \in Int
                OBVIOUS
            <4> QED BY <4>1, TimesKeepsOrder
        <3>2. limit \in Nat \ {0} /\ One \in Int /\ d \in Int
            BY <2>1
        <3> HIDE DEF d
        <3> QED BY <3>1, <3>2, TimesKeepsOrder
    <2>4. limit * d = d * limit /\ limit * One \in Int /\ d * limit \in Int
        BY <2>1
    <2> HIDE DEF d, n
    <2> QED BY <2>2, <2>3, <2>4, <1>1 DEF limit, n
<1> HIDE DEF n, d, square
<1>5. NearestNat(n, d) \in Nat
    BY <1>1, NearestIsNat
<1>6. ASSUME NEW k \in Nat, p <= k * q
      PROVE  NearestNat(n, d) <= k * One
    <2>1. p * square <= (k * q) * square
        BY <1>1, <1>3, <1>6, TimesKeepsOrder
    <2>2. n <= d * (k * One)
        BY <1>1, <1>3, <2>1
    <2> QED BY <1>1, <1>4, <2>2, NearestKeepsWholes
<1>7. ASSUME NEW k \in Nat, k * q < p, NearestNat(n, d) <= k * One
      PROVE  FALSE
    <2> DEFINE step == Step(n, d)
               m == Steps(n, d)
    <2>1. /\ step \in Nat \ {0} /\ m \in Nat
          /\ NearestNat(n, d) = step * m
          /\ 2 * (n - (d * step) * m) <= d * step
          /\ step = 1 \/ 2 * n >= d * (Power[Bits] * step)
        BY <1>1, RoundsToNearest
    <2> HIDE DEF step, m
    <2>2. (d * step) * m <= (k * q) * square
        <3>1. d * (step * m) <= d * (k * One)
            BY <1>1, <1>7, <2>1, TimesKeepsOrder
        <3>2. d * (step * m) = (d * step) * m
            BY <1>1, <2>1
        <3> QED BY <1>3, <3>1, <3>2
    <2>3. (k * q) * square + square <= n
        BY <1>1, <1>3, <1>7, TimesKeepsOrder
    <2>4. 2 * square <= d * step
        <3>1. (d * step) * m \in Int /\ (k * q) * square \in Int /\ d * step \in Int
            BY <1>1, <1>3, <2>1
        <3> QED BY <1>1, <2>1, <2>2, <2>3, <3>1
    <2>5. 2 * One <= q * step
        <3>1. d * step = (q * step) * One /\ 2 * square = (2 * One) * One
              /\ q * step \in Int /\ 2 * One \in Int
            BY <2>1 DEF d, square
        <3> QED BY <2>4, <3>1, TimesKeepsOrder
    <2>6. step # 1
        BY <2>5
    <2>7. p >= Power[Bits]
        <3> DEFINE P == Power[Bits]
        <3>1. P \in Nat \ {0}
            BY PowerStep, NumbersAssumption
        <3>2. 2 * n >= d * (P * step)
            BY <2>1, <2>6
        <3> HIDE DEF P
        <3>3. d * (P * step) = (P * (q * step)) * One /\ 2 * n = (2 * (p * One)) * One
              /\ P * (q * step) \in Int /\ 2 * (p * One) \in Int
            BY <2>1, <3>1 DEF d, n
        <3>4. P * (q * step) <= 2 * (p * One)
            BY <3>2, <3>3, TimesKeepsOrder
        <3>5. P * (2 * One) <= P * (q * step)
            <4>1. 2 * One \in Int /\ q * step \in Int
                BY <2>1
            <4> QED BY <2>5, <3>1, <4>1, TimesKeepsOrder
        <3>6. P * (2 * One) = P * (2 * One) /\ 2 * (p * One) = p * (2 * One)
              /\ P * (2 * One) \in Int /\ 2 * One \in Nat \ {0}
            BY <3>1
        <3>7. P * (2 * One) <= p * (2 * One)
            BY <3>3, <3>4, <3>5, <3>6
        <3>8. P <= p
            BY <3>1, <3>6, <3>7, TimesKeepsOrder
        <3> QED BY <3>8 DEF P
    <2>8. Power[Bits] - 1 \in Int /\ Power[Bits] \in Nat
        BY PowerStep, NumbersAssumption
    <2>9. p * One > (Power[Bits] - 1) * One
        BY <2>7, <2>8, TimesKeepsOrder
    <2> QED BY <2>8, <2>9 DEF MaxSafe
<1>8. ASSUME NEW k \in Nat, k * q < p PROVE NearestNat(n, d) > k * One
    <2> SUFFICES ASSUME NearestNat(n, d) <= k * One PROVE FALSE
        <3>1. k * One \in Int
            OBVIOUS
        <3> QED BY <1>5, <3>1
    <2> QED BY <1>7, <1>8
<1> QED BY <1>2, <1>5, <1>6, <1>8 DEF n, d

\* The least whole number of hours that covers the payment.
LEMMA CeilingCovers ==
    ASSUME NEW p \in Nat, p * One <= MaxSafe, NEW q \in Nat \ {0}, q < 2 * One
    PROVE  \E h \in Nat : /\ Ceil(Over(p * One, q * One)) = h * One
                          /\ h * q >= p /\ (h > 0 => (h - 1) * q < p) /\ h <= p
<1> USE Grid
<1> DEFINE x == Over(p * One, q * One)
           h == -((-x) \div One)
<1>1. x \in Nat
    BY QuotientKeepsSide
<1>2. \A k \in Nat : /\ k * q < p => x > k * One
                     /\ p <= k * q => x <= k * One
    BY QuotientKeepsSide
<1>3. Ceil(x) = -(One * ((-x) \div One))
    BY DEF Ceil, Floor
<1> HIDE DEF x
<1>4. h \in Int /\ x <= h * One /\ (h - 1) * One < x
    <2> DEFINE j == (-x) \div One
               rest == (-x) % One
    <2>1. -x \in Int
        BY <1>1
    <2>2. j \in Int /\ rest \in 0..(One - 1) /\ -x = One * j + rest
        BY <2>1, Division
    <2> HIDE DEF j, rest
    <2>3. One * j \in Int /\ (-j) * One = -(One * j) /\ ((-j) - 1) * One = -(One * j) - One
        BY <2>2
    <2>4. -j \in Int /\ x <= (-j) * One /\ ((-j) - 1) * One < x
        BY <1>1, <2>2, <2>3
    <2> QED BY <2>4 DEF j
<1>5. Ceil(x) = h * One
    <2> DEFINE j == (-x) \div One
    <2>1. j \in Int
        BY <1>1
    <2> HIDE DEF j
    <2>2. -(One * j) = (-j) * One
        BY <2>1
    <2> QED BY <1>3, <2>2 DEF j
<1> HIDE DEF h
<1>6. h \in Nat
    <2>1. ~(h <= -1)
        <3>1. h <= -1 <=> h * One <= (-1) * One
            BY <1>4, TimesKeepsOrder
        <3>2. (-1) * One = -One /\ h * One \in Int
            BY <1>4
        <3> QED BY <1>1, <1>4, <3>1, <3>2
    <2> QED BY <1>4, <2>1
<1>7. h * q >= p
    <2>1. ~(x > h * One)
        <3>1. h * One \in Int
            BY <1>6
        <3> QED BY <1>1, <1>4, <3>1
    <2>2. ~(h * q < p)
        BY <1>2, <1>6, <2>1
    <2>3. h * q \in Int
        BY <1>6
    <2> QED BY <2>2, <2>3
<1>8. ASSUME h > 0 PROVE (h - 1) * q < p /\ h <= p
    <2>1. h - 1 \in Nat
        BY <1>6, <1>8
    <2>2. ~(x <= (h - 1) * One)
        <3>1. (h - 1) * One \in Int
            BY <2>1
        <3> QED BY <1>1, <1>4, <3>1
    <2>3. ~(p <= (h - 1) * q)
        BY <1>2, <2>1, <2>2
    <2>4. (h - 1) * q \in Int
        BY <2>1
    <2>5. h - 1 <= (h - 1) * q
        <3> DEFINE g == h - 1
        <3>1. g \in Nat
            BY <2>1
        <3> HIDE DEF g
        <3>2. g * 1 <= g * q
            BY <3>1
        <3> QED BY <3>1, <3>2 DEF g
    <2> QED BY <1>6, <2>3, <2>4, <2>5
<1>9. h <= p
    BY <1>6, <1>8
<1> QED BY <1>5, <1>6, <1>7, <1>8, <1>9 DEF x

\* The cents of what was typed are a whole number of them, and no more than it allows.
LEMMA CentsAreWhole ==
    ASSUME NEW d \in Int \cup {NaN}
    PROVE  /\ \E c \in Nat : TypedCents(d) = c * One
           /\ d \in Int /\ 100 * d <= MaxSafe => TypedCents(d) <= MaxSafe
<1> USE Grid, NumbersAssumption
<1>1. CASE d = NaN \/ d < 0
    <2>1. TypedCents(d) = 0 * One /\ 0 \in Nat /\ 0 * One <= MaxSafe
        BY <1>1 DEF TypedCents
    <2> QED BY <2>1
<1>2. CASE ~(d = NaN \/ d < 0)
    <2> DEFINE r == NearestNat(d * (100 * One), One)
    <2>1. d \in Nat /\ d * (100 * One) \in Nat /\ d * (100 * One) = One * (100 * d)
        BY <1>2
    <2>2. TypedCents(d) = Round(r)
        BY <1>2, <2>1 DEF TypedCents, Times, Nearest
    <2>3. r \in Nat
        BY <2>1, NearestIsNat
    <2> HIDE DEF r
    <2>4. \E c \in Nat : TypedCents(d) = c * One
        <3> DEFINE c == Units(r)
        <3>1. c \in Int /\ Round(r) = c * One
            <4>1. r \in Int
                BY <2>3
            <4> QED BY <4>1, Rounding
        <3> HIDE DEF c
        <3>2. Round(r) >= 0 * One
            <4>1. r \in Int /\ r >= 0 * One /\ 0 \in Int
                BY <2>3
            <4> QED BY <4>1, Rounding
        <3>3. c >= 0
            <4>1. 0 <= c <=> 0 * One <= c * One
                BY <3>1, TimesKeepsOrder
            <4> QED BY <3>1, <3>2, <4>1
        <3> QED BY <2>2, <3>1, <3>3
    <2>5. ASSUME 100 * d <= MaxSafe PROVE TypedCents(d) <= MaxSafe
        <3> DEFINE K == Power[Bits] - 1
                   n == d * (100 * One)
        <3>1. K \in Nat /\ K * One = MaxSafe
            BY PowerStep DEF MaxSafe
        <3> HIDE DEF K
        <3>2. n \in Nat /\ n <= One * (K * One) /\ n < One * (MaxSafe + One)
            <4>1. 100 * d \in Int /\ MaxSafe \in Int /\ MaxSafe + One \in Int /\ 100 * d < MaxSafe + One
                BY <2>1, <2>5
            <4>2. One * (100 * d) <= One * MaxSafe
                BY <2>5, <4>1, TimesKeepsOrder
            <4>3. One * (100 * d) < One * (MaxSafe + One)
                BY <4>1, TimesKeepsOrder
            <4> QED BY <2>1, <3>1, <4>2, <4>3
        <3> HIDE DEF n
        <3>3. NearestNat(n, One) <= K * One
            BY <3>1, <3>2, NearestKeepsWholes
        <3>4. r <= K * One /\ K \in Int
            BY <3>1, <3>3 DEF r, n
        <3>5. Round(r) <= K * One
            BY <2>3, <3>4, Rounding
        <3> QED BY <2>2, <3>1, <3>5
    <2> QED BY <2>4, <2>5
<1> QED BY <1>1, <1>2

\* Two roundings, one of the dollars and one of the cents, are together less than half a
\* cent: what is typed to the cent is the payment.
LEMMA CentsAreAsTyped ==
    ASSUME NEW d \in Nat, ToTheCent(d), 4 * TypedCents(d) <= MaxSafe
    PROVE  2 * (TypedCents(d) - 100 * d) \in (-One)..One
<1> USE Grid, NumbersAssumption
<1> DEFINE P == Power[Bits]
           n == d * (100 * One)
           r == NearestNat(n, One)
           s1 == Step(n, One)
           m1 == Steps(n, One)
<1>1. P \in Nat \ {0} /\ MaxSafe = (P - 1) * One
    BY PowerStep DEF MaxSafe
<1>2. \E b \in Nat : P = 4 * b
    <2>1. Bits - 2 \in Nat /\ (Bits - 2) + 1 \in Nat /\ ((Bits - 2) + 1) + 1 = Bits
        BY GridAssumption
    <2>2. P = 4 * Power[Bits - 2] /\ Power[Bits - 2] \in Nat
        BY <2>1, PowerStep
    <2> QED BY <2>2
<1>3. n \in Nat /\ n = One * (100 * d)
    OBVIOUS
<1> HIDE DEF P, n
<1>4. r \in Nat /\ TypedCents(d) = Round(r)
    <2>1. r \in Nat
        BY <1>3, NearestIsNat
    <2> QED BY <2>1, <1>3 DEF TypedCents, Times, Nearest, n
<1>5. /\ s1 \in Nat \ {0} /\ m1 \in Nat
      /\ r = s1 * m1
      /\ 2 * (n - (One * s1) * m1) <= One * s1
      /\ 2 * ((One * s1) * m1 - n) <= One * s1
      /\ s1 = 1 \/ 2 * n >= One * (P * s1)
    <2>1. One \in Nat \ {0}
        OBVIOUS
    <2>2. ASSUME NEW o \in Nat \ {0}
          PROVE  /\ Step(n, o) \in Nat \ {0} /\ Steps(n, o) \in Nat
                 /\ NearestNat(n, o) = Step(n, o) * Steps(n, o)
                 /\ 2 * (n - (o * Step(n, o)) * Steps(n, o)) <= o * Step(n, o)
                 /\ 2 * ((o * Step(n, o)) * Steps(n, o) - n) <= o * Step(n, o)
                 /\ Step(n, o) = 1 \/ 2 * n >= o * (P * Step(n, o))
        <3>1. n \in Nat
            BY <1>3
        <3> HIDE DEF s1, m1, r
        <3> QED BY <3>1, RoundsToNearest DEF P
    <2> QED BY <2>1, <2>2
<1> HIDE DEF r, s1, m1
\* The cents, rounded.
<1>6. /\ 2 * (100 * d - r) <= s1
      /\ 2 * (r - 100 * d) <= s1
      /\ s1 = 1 \/ 200 * d >= P * s1
    <2>1. (One * s1) * m1 = One * r
        BY <1>5
    <2>2. One * (2 * (100 * d - r)) <= One * s1 /\ One * (2 * (r - 100 * d)) <= One * s1
        BY <1>3, <1>4, <1>5, <2>1
    <2>3. s1 = 1 \/ One * (P * s1) <= One * (200 * d)
        BY <1>3, <1>5
    <2>4. 2 * (100 * d - r) \in Int /\ 2 * (r - 100 * d) \in Int /\ s1 \in Int /\ P * s1 \in Int
          /\ 200 * d \in Int
        BY <1>1, <1>4, <1>5
    <2>5. 2 * (100 * d - r) <= s1 /\ 2 * (r - 100 * d) <= s1
        BY <2>2, <2>4, TimesKeepsOrder
    <2>6. One * (P * s1) <= One * (200 * d) => P * s1 <= 200 * d
        BY <2>4, TimesKeepsOrder
    <2> QED BY <2>3, <2>5, <2>6
<1> DEFINE b == Units(r)
<1>7. b \in Int /\ Round(r) = b * One
    <2>1. r \in Int
        BY <1>4
    <2> QED BY <2>1, Rounding
<1> HIDE DEF b
<1>8. 2 * (b * One - r) <= One /\ 2 * (b * One - r) > -One
    <2>1. r \in Int
        BY <1>4
    <2>2. 2 * (Round(r) - r) <= One /\ 2 * (Round(r) - r) > -One
        BY <2>1, Rounding
    <2> QED BY <1>7, <2>2
<1>9. b \in Nat /\ 4 * b + 4 <= P
    <2>1. b >= 0
        <3>1. r \in Int /\ r >= 0 * One /\ 0 \in Int
            BY <1>4
        <3>2. Round(r) >= 0 * One
            BY <3>1, Rounding
        <3>3. 0 <= b <=> 0 * One <= b * One
            BY <1>7, TimesKeepsOrder
        <3> QED BY <1>7, <3>2, <3>3
    <2>2. 4 * b <= P - 1
        <3>1. (4 * b) * One <= (P - 1) * One
            BY <1>1, <1>4, <1>7
        <3>2. 4 * b \in Int /\ P - 1 \in Int
            BY <1>1, <1>7
        <3> QED BY <3>1, <3>2, TimesKeepsOrder
    <2> QED BY <1>1, <1>2, <1>7, <2>1, <2>2
<1>10. 2 * s1 < One /\ 400 * d < (P - 1) * One
    <2>1. b * One \in Int /\ P * s1 \in Int /\ (2 * b + 1) * One = 2 * (b * One) + One
        BY <1>1, <1>5, <1>9
    <2>2. 200 * d < (2 * b + 1) * One + s1
        BY <1>4, <1>5, <1>6, <1>8, <2>1
    <2>3. P - 1 \in Nat \ {0} /\ 2 * (2 * b + 1) <= P - 2
        BY <1>1, <1>9
    <2>4. (2 * (2 * b + 1)) * One <= (P - 2) * One
        <3>1. 2 * (2 * b + 1) \in Int /\ P - 2 \in Int
            BY <1>1, <1>9
        <3> QED BY <2>3, <3>1, TimesKeepsOrder
    <2>5. (2 * (2 * b + 1)) * One = 2 * ((2 * b + 1) * One) /\ (P - 2) * One = (P - 1) * One - One
          /\ (P - 1) * One \in Int /\ (2 * b + 1) * One \in Int
        BY <1>1, <1>9
    <2>6. 2 * s1 < One
        <3>1. CASE s1 = 1
            BY <3>1, GridAssumption
        <3>2. CASE P * s1 <= 200 * d
            <4>1. (P - 1) * (2 * s1) = 2 * (P * s1) - 2 * s1 /\ 2 * s1 \in Int
                BY <1>1, <1>5
            <4>2. (P - 1) * (2 * s1) < (P - 1) * One
                BY <1>5, <2>1, <2>2, <2>4, <2>5, <3>2, <4>1
            <4> QED BY <2>3, <4>1, <4>2, TimesKeepsOrder
        <3> QED BY <1>6, <3>1, <3>2
    <2> QED BY <1>5, <2>2, <2>4, <2>5, <2>6
\* The dollars, rounded.
<1> DEFINE c == Units(100 * d)
<1>11. c \in Nat /\ Round(100 * d) = c * One
    <2>1. 100 * d \in Int /\ 100 * d >= 0 * One /\ 0 \in Int
        OBVIOUS
    <2>2. c \in Int /\ Round(100 * d) = c * One
        BY <2>1, Rounding
    <2> HIDE DEF c
    <2>3. 0 * One <= c * One
        BY <2>1, <2>2, Rounding
    <2>4. 0 <= c
        BY <2>1, <2>2, <2>3, TimesKeepsOrder
    <2> QED BY <2>2, <2>4
<1> HIDE DEF c
<1> DEFINE whole == c * One
           s2 == Step(whole, 100)
           m2 == Steps(whole, 100)
<1>12. whole \in Nat
    BY <1>11
<1>13. d = NearestNat(whole, 100)
    <2>1. Nearest(whole, 100) = NearestNat(whole, 100)
        BY <1>12 DEF Nearest
    <2> HIDE DEF whole
    <2> QED BY <1>11, <2>1 DEF ToTheCent, whole
<1> HIDE DEF whole
<1>14. /\ s2 \in Nat \ {0} /\ m2 \in Nat
       /\ d = s2 * m2
       /\ 2 * (whole - (100 * s2) * m2) <= 100 * s2
       /\ 2 * ((100 * s2) * m2 - whole) <= 100 * s2
       /\ s2 = 1 \/ 2 * whole >= 100 * (P * s2)
    BY <1>12, <1>13, RoundsToNearest DEF P
<1> HIDE DEF s2, m2
<1>15. ASSUME NEW e \in Int, 2 * e <= 100 * s2, whole <= 100 * d + e \/ whole <= 100 * d - e
       PROVE  4 * e <= One
    <2>1. CASE s2 = 1
        BY <1>15, <2>1, GridAssumption
    <2>2. CASE 2 * whole >= 100 * (P * s2) /\ e >= 0
        <3>1. P * (2 * e) <= P * (100 * s2)
            <4>1. 2 * e \in Int /\ 100 * s2 \in Int
                BY <1>14
            <4> QED BY <1>1, <1>15, <4>1, TimesKeepsOrder
        <3>2. P * (2 * e) = 2 * (P * e) /\ P * (100 * s2) = 100 * (P * s2) /\ P * e \in Int
              /\ P * s2 \in Int
            BY <1>1, <1>14
        <3>3. P * e <= 100 * d + e
            BY <1>12, <1>15, <2>2, <3>1, <3>2
        <3>4. (P - 1) * (4 * e) = 4 * (P * e) - 4 * e /\ 4 * e \in Int /\ (P - 1) * One \in Int
            BY <1>1
        <3>5. (P - 1) * (4 * e) < (P - 1) * One
            BY <1>10, <3>2, <3>3, <3>4
        <3>6. P - 1 \in Nat \ {0}
            BY <1>1, <1>9
        <3> QED BY <3>4, <3>5, <3>6, TimesKeepsOrder
    <2> QED BY <1>14, <2>1, <2>2
<1>16. 4 * (whole - 100 * d) <= One /\ 4 * (100 * d - whole) <= One
    <2>1. (100 * s2) * m2 = 100 * d
        BY <1>14
    <2>2. whole - 100 * d \in Int /\ 100 * d - whole \in Int
        BY <1>12
    <2> QED BY <1>12, <1>14, <1>15, <2>1, <2>2
<1>17. c = b
    <2>1. 4 * (whole - b * One) < 4 * One /\ 4 * (b * One - whole) < 4 * One
        <3>1. b * One \in Int
            BY <1>9
        <3> QED BY <1>4, <1>5, <1>6, <1>8, <1>10, <1>12, <1>16, <3>1
    <2>2. whole < (b + 1) * One /\ b * One < (c + 1) * One
        <3>1. (b + 1) * One = b * One + One /\ (c + 1) * One = whole + One /\ b * One \in Int
            BY <1>9, <1>11 DEF whole
        <3> QED BY <1>12, <2>1, <3>1
    <2>3. c < b + 1
        <3>1. b + 1 \in Int /\ c \in Int
            BY <1>9, <1>11
        <3> QED BY <2>2, <3>1, TimesKeepsOrder DEF whole
    <2>4. b < c + 1
        <3>1. b \in Int /\ c + 1 \in Int
            BY <1>9, <1>11
        <3> QED BY <2>2, <3>1, TimesKeepsOrder
    <2> QED BY <1>9, <1>11, <2>3, <2>4
<1> QED BY <1>4, <1>7, <1>12, <1>16, <1>17 DEF whole

-----------------------------------------------------------------------------
(* Sums.                                                                   *)

\* Adding up, from the left: what every sum so far is.
LEMMA FoldsUp ==
    \A s \in Seq(Int) : \A next \in [Int \X Int -> Int] :
        \E f \in [0..Len(s) -> Int] :
            f = [k \in 0..Len(s) |-> IF k = 0 THEN 0 ELSE next[<<f[k - 1], s[k]>>]]
<1> TAKE s \in Seq(Int)
<1> TAKE next \in [Int \X Int -> Int]
<1> DEFINE n == Len(s)
           step == [kv \in Nat \X Int |-> IF kv[1] + 1 \in 1..n THEN next[<<kv[2], s[kv[1] + 1]>>] ELSE 0]
           zero == 0
<1>1. n \in Nat /\ s \in [1..n -> Int]
    OBVIOUS
<1>2. step \in [Nat \X Int -> Int] /\ zero \in Int /\ zero = 0
    <2> HIDE DEF n
    <2> QED BY <1>1
<1>3. \A k \in Nat : \A x \in Int : k + 1 \in 1..n => step[<<k, x>>] = next[<<x, s[k + 1]>>]
    <2> HIDE DEF n
    <2> QED OBVIOUS
<1> HIDE DEF n, step, zero
<1>4. PICK f \in [Nat -> Int] : f[0] = zero /\ \A k \in Nat : f[k + 1] = step[<<k, f[k]>>]
    BY <1>2, Recursion, Zenon
<1> DEFINE g == [k \in 0..n |-> f[k]]
<1>5. ASSUME NEW k \in 0..n, k # 0 PROVE g[k] = next[<<g[k - 1], s[k]>>]
    <2>1. k - 1 \in Nat /\ (k - 1) + 1 = k /\ k \in 1..n /\ k - 1 \in 0..n /\ k \in Nat
        BY <1>1, <1>5
    <2>2. f[k] = step[<<k - 1, f[k - 1]>>]
        BY <1>4, <2>1
    <2>3. f[k] = next[<<f[k - 1], s[k]>>]
        <3>1. f[k - 1] \in Int
            BY <2>1
        <3> QED BY <1>3, <2>1, <2>2, <3>1
    <2> QED BY <2>1, <2>3
<1>6. g \in [0..n -> Int] /\ g[0] = 0
    BY <1>1, <1>2, <1>4
<1>7. g = [k \in 0..n |-> IF k = 0 THEN 0 ELSE next[<<g[k - 1], s[k]>>]]
    <2> HIDE DEF g
    <2> QED BY <1>5, <1>6
<1> QED BY <1>6, <1>7 DEF n

\* The sums of exact arithmetic.
LEMMA SumsAreSums ==
    ASSUME NEW s \in Seq(Int)
    PROVE  /\ Sums(s) \in [0..Len(s) -> Int] /\ Sums(s)[0] = 0
           /\ \A k \in 1..Len(s) : Sums(s)[k] = Sums(s)[k - 1] + s[k]
<1> DEFINE plus == [xy \in Int \X Int |-> xy[1] + xy[2]]
           n == Len(s)
<1>1. plus \in [Int \X Int -> Int] /\ \A x, y \in Int : plus[<<x, y>>] = x + y
    OBVIOUS
<1>2. n \in Nat /\ \A k \in 1..n : s[k] \in Int
    OBVIOUS
<1> HIDE DEF plus
<1>3. PICK f \in [0..Len(s) -> Int] :
          f = [k \in 0..Len(s) |-> IF k = 0 THEN 0 ELSE plus[<<f[k - 1], s[k]>>]]
    BY <1>1, FoldsUp, Zenon
<1>4. f = [k \in 0..Len(s) |-> IF k = 0 THEN 0 ELSE f[k - 1] + s[k]]
    <2>1. ASSUME NEW k \in 0..n, k # 0 PROVE plus[<<f[k - 1], s[k]>>] = f[k - 1] + s[k]
        <3>1. k - 1 \in 0..n /\ k \in 1..n
            BY <1>2, <2>1
        <3>2. f[k - 1] \in Int /\ s[k] \in Int
            BY <1>2, <1>3, <3>1
        <3> QED BY <1>1, <3>2
    <2> QED BY <1>3, <2>1
<1> DEFINE g == Sums(s)
<1>5. g = [k \in 0..n |-> IF k = 0 THEN 0 ELSE g[k - 1] + s[k]]
    BY <1>4 DEF Sums
<1>6. g = f
    <2> DEFINE S == {k \in Nat : k \in 0..n => g[k] = f[k]}
    <2> HIDE DEF g
    <2>1. 0 \in S
        BY <1>2, <1>4, <1>5
    <2>2. ASSUME NEW k \in Nat, k \in S PROVE k + 1 \in S
        <3> SUFFICES ASSUME k + 1 \in 0..n PROVE g[k + 1] = f[k + 1]
            OBVIOUS
        <3>1. k \in 0..n /\ k + 1 # 0 /\ (k + 1) - 1 = k
            BY <1>2
        <3>2. g[k + 1] = g[(k + 1) - 1] + s[k + 1] /\ f[k + 1] = f[(k + 1) - 1] + s[k + 1]
            BY <1>4, <1>5, <3>1
        <3> QED BY <2>2, <3>1, <3>2
    <2>3. Nat \subseteq S
        <3> HIDE DEF S
        <3> QED BY <2>1, <2>2, SetInduction
    <2>4. \A k \in 0..n : g[k] = f[k]
        BY <1>2, <2>3
    <2>5. DOMAIN g = 0..n /\ DOMAIN f = 0..n /\ g = [k \in DOMAIN g |-> g[k]]
        BY <1>3, <1>5
    <2> QED BY <1>3, <2>4, <2>5
<1> HIDE DEF g
<1>7. \A k \in 1..n : f[k] = f[k - 1] + s[k]
    <2>1. \A k \in 1..n : k \in 0..n /\ k # 0
        BY <1>2
    <2> QED BY <1>4, <2>1
<1>8. f[0] = 0
    BY <1>2, <1>4
<1> QED BY <1>3, <1>6, <1>7, <1>8 DEF g

\* What JavaScript's sums so far are.
LEMMA TotalsAreSums ==
    ASSUME NEW s \in Seq(Int)
    PROVE  /\ Accumulated(s) \in [0..Len(s) -> Int] /\ Accumulated(s)[0] = 0
           /\ \A k \in 1..Len(s) : Accumulated(s)[k] = Plus(Accumulated(s)[k - 1], s[k])
<1> DEFINE plus == [xy \in Int \X Int |-> Plus(xy[1], xy[2])]
           n == Len(s)
<1>1. ASSUME NEW x \in Int, NEW y \in Int PROVE Plus(x, y) \in Int
    <2>1. 1 \in Nat \ {0} /\ x + y \in Int /\ (x + y < 0 => -(x + y) \in Nat)
          /\ (~(x + y < 0) => x + y \in Nat)
        OBVIOUS
    <2>2. \A m \in Nat : NearestNat(m, 1) \in Nat
        BY <2>1, NearestIsNat
    <2> QED BY <2>1, <2>2 DEF Plus, Nearest
<1>2. plus \in [Int \X Int -> Int] /\ \A x, y \in Int : plus[<<x, y>>] = Plus(x, y)
    BY <1>1
<1>3. n \in Nat /\ \A k \in 1..n : s[k] \in Int
    OBVIOUS
<1> HIDE DEF plus
<1>4. PICK f \in [0..Len(s) -> Int] :
          f = [k \in 0..Len(s) |-> IF k = 0 THEN 0 ELSE plus[<<f[k - 1], s[k]>>]]
    BY <1>2, FoldsUp, Zenon
<1>5. f = [k \in 0..Len(s) |-> IF k = 0 THEN 0 ELSE Plus(f[k - 1], s[k])]
    <2>1. ASSUME NEW k \in 0..n, k # 0 PROVE plus[<<f[k - 1], s[k]>>] = Plus(f[k - 1], s[k])
        <3>1. k - 1 \in 0..n /\ k \in 1..n
            BY <1>3, <2>1
        <3>2. f[k - 1] \in Int /\ s[k] \in Int
            BY <1>3, <1>4, <3>1
        <3> QED BY <1>2, <3>2
    <2> QED BY <1>4, <2>1
<1> DEFINE g == Accumulated(s)
<1>6. g = [k \in 0..n |-> IF k = 0 THEN 0 ELSE Plus(g[k - 1], s[k])]
    BY <1>5 DEF Accumulated
<1> HIDE DEF g
<1>7. g[0] = 0 /\ \A k \in 1..n : g[k] = Plus(g[k - 1], s[k])
    <2>1. 0 \in 0..n /\ \A k \in 1..n : k \in 0..n /\ k # 0
        BY <1>3
    <2> QED BY <1>6, <2>1
<1>8. \A k \in 0..n : g[k] \in Int
    <2> DEFINE S == {k \in Nat : k \in 0..n => g[k] \in Int}
    <2>1. 0 \in S
        BY <1>7
    <2>2. ASSUME NEW k \in Nat, k \in S PROVE k + 1 \in S
        <3> SUFFICES ASSUME k + 1 \in 0..n PROVE g[k + 1] \in Int
            OBVIOUS
        <3>1. k \in 0..n /\ k + 1 \in 1..n /\ (k + 1) - 1 = k
            BY <1>3
        <3> QED BY <1>1, <1>3, <1>7, <2>2, <3>1
    <2>3. Nat \subseteq S
        <3> HIDE DEF S
        <3> QED BY <2>1, <2>2, SetInduction
    <2> QED BY <1>3, <2>3
<1>9. g \in [0..n -> Int]
    BY <1>6, <1>8
<1> QED BY <1>7, <1>9 DEF g

\* How many units each number is.
InUnits(s) == [i \in DOMAIN s |-> s[i] \div One]

\* The total of whole numbers is exact, up to the largest safe integer and not below it after.
LEMMA TotalOfWholes ==
    ASSUME NEW s \in Seq(Nat), \A i \in DOMAIN s : IsInteger(s[i])
    PROVE  /\ InUnits(s) \in Seq(Nat) /\ Len(InUnits(s)) = Len(s)
           /\ \A i \in 1..Len(s) : InUnits(s)[i] \in Nat /\ s[i] = InUnits(s)[i] * One
           /\ SumOf(InUnits(s)) \in Nat /\ SumOf(s) = SumOf(InUnits(s)) * One
           /\ \A i \in 1..Len(s) : InUnits(s)[i] <= SumOf(InUnits(s))
           /\ Total(s) \in Nat
           /\ SumOf(InUnits(s)) < Power[Bits] => Total(s) = SumOf(InUnits(s)) * One
           /\ SumOf(InUnits(s)) >= Power[Bits] => Total(s) >= Power[Bits] * One
<1> USE Grid, NumbersAssumption
<1> DEFINE n == Len(s)
           t == InUnits(s)
           P == Power[Bits]
<1>1. n \in Nat /\ s \in [1..n -> Nat] /\ DOMAIN s = 1..n
    OBVIOUS
<1>2. ASSUME NEW i \in 1..n PROVE s[i] \div One \in Nat /\ s[i] = (s[i] \div One) * One
    <2> DEFINE x == s[i]
    <2>1. x \in Nat /\ IsInteger(x)
        BY <1>1
    <2> HIDE DEF x
    <2>2. x \div One \in Nat /\ x = (x \div One) * One
        BY <2>1 DEF IsInteger
    <2> QED BY <2>2 DEF x
<1>3. t \in Seq(Nat) /\ Len(t) = n
    <2>1. t = [i \in 1..n |-> s[i] \div One]
        BY <1>1 DEF InUnits
    <2> HIDE DEF n, t
    <2> QED BY <1>1, <1>2, <2>1
<1>4. \A i \in 1..n : t[i] \in Nat /\ s[i] = t[i] * One
    BY <1>1, <1>2 DEF InUnits
<1> DEFINE u == Sums(t)
           v == Sums(s)
           a == Accumulated(s)
<1>5. /\ u \in [0..n -> Int] /\ u[0] = 0 /\ \A k \in 1..n : u[k] = u[k - 1] + t[k]
      /\ v \in [0..n -> Int] /\ v[0] = 0 /\ \A k \in 1..n : v[k] = v[k - 1] + s[k]
      /\ a \in [0..n -> Int] /\ a[0] = 0 /\ \A k \in 1..n : a[k] = Plus(a[k - 1], s[k])
    <2>1. t \in Seq(Int) /\ s \in Seq(Int)
        BY <1>3
    <2> HIDE DEF t
    <2> QED BY <1>3, <2>1, SumsAreSums, TotalsAreSums
<1>6. P \in Nat \ {0} /\ MaxSafe = (P - 1) * One /\ MaxSafe + One = P * One
    <2>1. P \in Nat \ {0}
        BY PowerStep
    <2> QED BY <2>1 DEF MaxSafe
<1> HIDE DEF n, t, u, v, a, P
<1> DEFINE Good(k) ==
               /\ u[k] \in Nat /\ v[k] = u[k] * One /\ a[k] \in Nat
               /\ u[k] < P => a[k] = u[k] * One
               /\ u[k] >= P => a[k] >= P * One
               /\ \A i \in 1..k : t[i] <= u[k]
<1>7. \A k \in 0..n : Good(k)
    <2> DEFINE S == {k \in Nat : k \in 0..n => Good(k)}
    <2>1. 0 \in S
        BY <1>1, <1>5, <1>6
    <2>2. ASSUME NEW k \in Nat, k \in S PROVE k + 1 \in S
        <3> SUFFICES ASSUME k + 1 \in 0..n PROVE Good(k + 1)
            OBVIOUS
        <3>1. k \in 0..n /\ k + 1 \in 1..n /\ (k + 1) - 1 = k
            BY <1>1
        <3>2. Good(k)
            BY <2>2, <3>1
        <3> DEFINE x == u[k]
                   y == t[k + 1]
                   z == a[k]
        <3>3. /\ x \in Nat /\ y \in Nat /\ z \in Nat
              /\ u[k + 1] = x + y /\ v[k + 1] = v[k] + y * One /\ v[k] = x * One
              /\ a[k + 1] = Plus(z, y * One)
              /\ x < P => z = x * One
              /\ x >= P => z >= P * One
            BY <1>4, <1>5, <3>1, <3>2
        <3>4. \A i \in 1..(k + 1) : t[i] <= u[k + 1]
            <4>1. \A i \in 1..(k + 1) : i \in 1..k \/ i = k + 1
                OBVIOUS
            <4>2. \A i \in 1..k : t[i] <= x /\ t[i] \in Nat
                BY <1>1, <1>4, <3>1, <3>2
            <4> HIDE DEF Good
            <4> QED BY <3>3, <4>1, <4>2
        <3> HIDE DEF x, y, z
        <3>5. (x + y) * One = x * One + y * One
            BY <3>3
        <3>6. ASSUME NEW m \in Nat, NEW K \in Nat
              PROVE  /\ m = K * One /\ K < P => NearestNat(m, 1) = m
                     /\ m >= P * One => NearestNat(m, 1) >= P * One
                     /\ NearestNat(m, 1) \in Nat
            <4>1. 1 \in Nat \ {0} /\ 1 * (P * One) = P * One
                BY <1>6
            <4>2. NearestNat(m, 1) \in Nat
                BY <4>1, NearestIsNat
            <4>3. ASSUME m >= P * One PROVE NearestNat(m, 1) >= P * One
                BY <1>6, <4>1, <4>3, NearestKeepsTooLarge
            <4>4. ASSUME m = K * One, K < P PROVE NearestNat(m, 1) = m
                <5>1. K \in Int /\ P \in Int
                    BY <1>6
                <5>2. K * One < P * One
                    BY <4>4, <5>1, TimesKeepsOrder
                <5>3. m < 1 * (MaxSafe + One) /\ 1 * (K * One) = m
                    BY <1>6, <4>4, <5>2
                <5>4. NearestNat(m, 1) <= K * One /\ NearestNat(m, 1) >= K * One
                    BY <4>1, <5>3, NearestKeepsWholes
                <5>5. NearestNat(m, 1) <= m /\ NearestNat(m, 1) >= m
                    BY <4>4, <5>4
                <5> HIDE DEF P
                <5> QED BY <4>2, <5>5
            <4> QED BY <4>2, <4>3, <4>4
        <3>7. a[k + 1] = NearestNat(z + y * One, 1) /\ z + y * One \in Nat
            <4>1. z + y * One \in Nat /\ ~(z + y * One < 0)
                BY <3>3
            <4> QED BY <3>3, <4>1 DEF Plus, Nearest
        <3>8. CASE x + y < P
            <4>1. x < P /\ ~(x + y >= P)
                BY <1>6, <3>3, <3>8
            <4>2. z + y * One = (x + y) * One
                BY <3>3, <3>5, <4>1
            <4>3. a[k + 1] = (x + y) * One /\ a[k + 1] \in Nat
                <5>1. x + y \in Nat
                    BY <3>3
                <5> QED BY <3>6, <3>7, <3>8, <4>2, <5>1
            <4> QED BY <3>3, <3>4, <3>5, <3>8, <4>1, <4>3
        <3>9. CASE x + y >= P
            <4>1. z + y * One >= P * One
                <5>1. CASE x < P
                    <6>1. z + y * One = (x + y) * One
                        BY <3>3, <3>5, <5>1
                    <6>2. P * One <= (x + y) * One
                        <7>1. P \in Int /\ x + y \in Int
                            BY <1>6, <3>3
                        <7> QED BY <3>9, <7>1, TimesKeepsOrder
                    <6> QED BY <6>1, <6>2
                <5>2. CASE x >= P
                    <6> DEFINE yo == y * One
                               po == P * One
                    <6>1. yo \in Nat /\ z >= po /\ po \in Int /\ z \in Nat
                        BY <1>6, <3>3, <5>2
                    <6> HIDE DEF yo, po
                    <6>2. z + yo >= po
                        BY <6>1
                    <6> QED BY <6>2 DEF yo, po
                <5> QED BY <1>6, <3>3, <5>1, <5>2
            <4>2. a[k + 1] >= P * One /\ a[k + 1] \in Nat
                BY <3>6, <3>7, <4>1
            <4>3. ~(x + y < P) /\ x + y \in Nat
                BY <1>6, <3>3, <3>9
            <4> QED BY <3>3, <3>4, <3>5, <4>2, <4>3
        <3> QED BY <1>6, <3>3, <3>8, <3>9
    <2>3. Nat \subseteq S
        <3> HIDE DEF S
        <3> QED BY <2>1, <2>2, SetInduction
    <2> QED BY <1>1, <2>3
<1>8. Good(n) /\ n \in Nat
    BY <1>1, <1>7
<1> QED BY <1>1, <1>3, <1>4, <1>8 DEF SumOf, Total, u, v, a, t, n, P

\* Many shares of little: no more of them than there are buckets.
LEMMA SumIsBounded ==
    ASSUME NEW W \in Seq(Nat), NEW T \in Nat, NEW c \in Nat, \A i \in 1..Len(W) : T * W[i] <= c
    PROVE  SumOf(W) \in Nat /\ T * SumOf(W) <= c * Len(W)
<1> DEFINE n == Len(W)
           w == Sums(W)
<1>1. n \in Nat /\ \A i \in 1..n : W[i] \in Nat
    OBVIOUS
<1>2. w \in [0..n -> Int] /\ w[0] = 0 /\ \A k \in 1..n : w[k] = w[k - 1] + W[k]
    <2>1. W \in Seq(Int)
        OBVIOUS
    <2> QED BY <2>1, SumsAreSums
<1>3. \A i \in 1..n : T * W[i] <= c
    OBVIOUS
<1>4. SumOf(W) = w[n]
    BY DEF SumOf
<1> HIDE DEF n, w
<1>5. \A k \in 0..n : w[k] \in Nat /\ T * w[k] <= c * k
    <2> DEFINE Q == {k \in Nat : k \in 0..n => w[k] \in Nat /\ T * w[k] <= c * k}
    <2>1. 0 \in Q
        BY <1>2
    <2>2. ASSUME NEW k \in Nat, k \in Q PROVE k + 1 \in Q
        <3> SUFFICES ASSUME k + 1 \in 0..n PROVE w[k + 1] \in Nat /\ T * w[k + 1] <= c * (k + 1)
            OBVIOUS
        <3>1. k \in 0..n /\ k + 1 \in 1..n /\ (k + 1) - 1 = k
            BY <1>1
        <3> DEFINE x == w[k]
                   y == W[k + 1]
        <3>2. x \in Nat /\ T * x <= c * k
            BY <2>2, <3>1
        <3>3. y \in Nat /\ T * y <= c
            BY <1>1, <1>3, <3>1
        <3>4. w[k + 1] = x + y
            BY <1>2, <3>1
        <3> HIDE DEF x, y
        <3>5. T * (x + y) = T * x + T * y /\ c * (k + 1) = c * k + c
            BY <3>2, <3>3
        <3>6. T * x \in Int /\ T * y \in Int /\ c * k \in Int
            BY <3>2, <3>3
        <3>7. T * (x + y) <= c * (k + 1)
            <4> DEFINE tx == T * x
                       ty == T * y
                       ck == c * k
            <4>1. tx <= ck /\ ty <= c /\ tx \in Int /\ ty \in Int /\ ck \in Int
                BY <3>2, <3>3, <3>6
            <4> HIDE DEF tx, ty, ck
            <4>2. tx + ty <= ck + c
                BY <4>1
            <4> QED BY <3>5, <4>2 DEF tx, ty, ck
        <3> QED BY <3>2, <3>3, <3>4, <3>7
    <2>3. Nat \subseteq Q
        <3> HIDE DEF Q
        <3> QED BY <2>1, <2>2, SetInduction
    <2> QED BY <1>1, <2>3
<1>6. w[n] \in Nat /\ T * w[n] <= c * n
    <2>1. n \in 0..n
        BY <1>1
    <2> QED BY <1>5, <2>1
<1> QED BY <1>4, <1>6 DEF n

-----------------------------------------------------------------------------
(* Quotients, and their floors.                                            *)

\* How far rounding to the nearest takes a fraction, against a gap.
LEMMA ErrorIsBelow ==
    ASSUME NEW n \in Nat, NEW d \in Nat \ {0}, NEW gap \in Nat,
           d < gap, 2 * n < Power[Bits] * gap
    PROVE  /\ NearestNat(n, d) \in Nat
           /\ 2 * (d * NearestNat(n, d) - n) < gap
           /\ 2 * (n - d * NearestNat(n, d)) < gap
<1> USE NumbersAssumption
<1> DEFINE step == Step(n, d)
           m == Steps(n, d)
           P == Power[Bits]
<1>1. /\ step \in Nat \ {0} /\ m \in Nat
      /\ NearestNat(n, d) = step * m
      /\ 2 * (n - (d * step) * m) <= d * step
      /\ 2 * ((d * step) * m - n) <= d * step
      /\ step = 1 \/ 2 * n >= d * (P * step)
    BY RoundsToNearest
<1>2. P \in Nat \ {0} /\ 2 * n < P * gap
    BY PowerStep
<1> HIDE DEF step, m, P
<1>3. d * step < gap
    <2>1. CASE step = 1
        BY <2>1
    <2>2. CASE 2 * n >= d * (P * step)
        <3>1. d * (P * step) = P * (d * step) /\ d * step \in Int /\ gap \in Int
              /\ P * (d * step) \in Int /\ P * gap \in Int
            BY <1>1, <1>2
        <3>2. P * (d * step) < P * gap
            BY <1>2, <2>2, <3>1
        <3> QED BY <1>2, <3>1, <3>2, TimesKeepsOrder
    <2> QED BY <1>1, <2>1, <2>2
<1>4. d * (step * m) = (d * step) * m /\ (d * step) * m \in Int /\ d * step \in Int /\ step * m \in Nat
    BY <1>1
<1> QED BY <1>1, <1>3, <1>4

\* The largest safe integer, in units.
LEMMA Widths ==
    /\ Power[Bits] \in Nat \ {0} /\ Power[Bits] <= One
    /\ MaxSafe = (Power[Bits] - 1) * One /\ MaxSafe + One = Power[Bits] * One
<1>1. Power[Bits] \in Nat \ {0} /\ One \in Nat
    BY PowerStep, NumbersAssumption, Grid
<1>2. Power[Bits] <= One
    BY PowerOrder, NumbersAssumption, GridAssumption DEF One
<1> QED BY <1>1, <1>2 DEF MaxSafe

\* A whole number between two that bound it.
LEMMA FloorIs ==
    ASSUME NEW x \in Nat, NEW k \in Nat, k * One <= x, x < (k + 1) * One
    PROVE  Floor(x) = k * One /\ Fraction(x) = x - k * One
<1> USE Grid
<1> DEFINE j == x \div One
           rest == x % One
<1>1. j \in Int /\ rest \in 0..(One - 1) /\ x = One * j + rest
    BY Division
<1>2. Floor(x) = One * j
    BY DEF Floor
<1> HIDE DEF j, rest
<1>3. One * j = j * One /\ j * One \in Int /\ k * One \in Int /\ (k + 1) * One = k * One + One
    BY <1>1
<1>4. j < k => j * One + One <= k * One
    BY <1>1, TimesKeepsOrder
<1>5. k < j => k * One + One <= j * One
    BY <1>1, TimesKeepsOrder
<1>6. j = k
    BY <1>1, <1>3, <1>4, <1>5
<1> QED BY <1>2, <1>3, <1>6 DEF Fraction

\* A product of whole numbers, while it is safe.
LEMMA ProductIsExact ==
    ASSUME NEW T \in Nat, NEW W \in Nat, T * W < Power[Bits]
    PROVE  Times(T * One, W * One) = (T * W) * One
<1> USE Grid
<1> DEFINE p == T * W
           n == (T * One) * (W * One)
<1>1. p \in Nat /\ n = One * (p * One) /\ n \in Nat
    OBVIOUS
<1>2. Times(T * One, W * One) = NearestNat(n, One)
    BY <1>1 DEF Times, Nearest
<1> HIDE DEF n
<1>3. p < Power[Bits]
    OBVIOUS
<1> HIDE DEF p
<1>4. n < One * (MaxSafe + One)
    <2>1. p \in Int /\ Power[Bits] \in Int /\ MaxSafe + One = Power[Bits] * One
        BY <1>1, Widths
    <2>2. p * One < Power[Bits] * One
        BY <1>3, <2>1, TimesKeepsOrder
    <2>3. p * One \in Int /\ MaxSafe + One \in Int /\ p * One < MaxSafe + One
        BY <2>1, <2>2
    <2>4. One * (p * One) < One * (MaxSafe + One)
        BY <2>3, TimesKeepsOrder
    <2> QED BY <1>1, <2>4
<1>5. NearestNat(n, One) <= p * One /\ NearestNat(n, One) >= p * One
    BY <1>1, <1>4, NearestKeepsWholes
<1>6. NearestNat(n, One) \in Nat /\ p * One \in Nat
    BY <1>1, NearestIsNat
<1> QED BY <1>2, <1>5, <1>6 DEF p

\* What a bucket is due, out of a sum that is safe: its floor is the whole number of times
\* the sum goes into the product, and its fraction is near the remainder.
LEMMA DueIs ==
    ASSUME NEW p \in Nat, p < Power[Bits], NEW S \in Nat \ {0}, S < Power[Bits],
           NEW k \in Nat, S * k <= p, p < S * (k + 1)
    PROVE  LET x == Over(p * One, S * One)
               e == (S * One) * Fraction(x) - (p - S * k) * (One * One)
           IN  /\ x \in Nat /\ Floor(x) = k * One /\ Fraction(x) \in Int
               /\ 2 * p < Power[Bits] => 2 * e < One * One /\ -(One * One) < 2 * e
<1> USE Grid
<1> DEFINE n == (p * One) * One
           d == S * One
           square == One * One
           P == Power[Bits]
           x == NearestNat(n, d)
<1>1. n \in Nat /\ d \in Nat \ {0} /\ n = p * square /\ square \in Nat \ {0}
    BY TimesKeepsOrder
<1>2. Over(p * One, S * One) = x
    BY <1>1 DEF Over, Nearest
<1>3. P \in Nat \ {0} /\ P <= One /\ p < P /\ S < P
    BY Widths
<1>4. d * (k * One) = (S * k) * square /\ d * ((k + 1) * One) = (S * (k + 1)) * square
      /\ S * k \in Nat /\ S * (k + 1) \in Nat
    OBVIOUS
<1>5. d < square
    <2>1. S < One /\ S \in Int /\ One \in Int
        BY <1>3
    <2> QED BY <2>1, TimesKeepsOrder
<1> HIDE DEF n, d, P, x
<1>6. n < P * square
    <2>1. p \in Int /\ P \in Int
        BY <1>3
    <2> HIDE DEF square
    <2> QED BY <1>1, <1>3, <2>1, TimesKeepsOrder
<1> HIDE DEF square
<1>7. x \in Nat /\ 2 * (d * x - n) < 2 * square /\ 2 * (n - d * x) < 2 * square
    <2>1. P * (2 * square) = 2 * (P * square) /\ P * square \in Int /\ 2 * square \in Nat
        BY <1>1, <1>3
    <2>2. d < 2 * square /\ 2 * n < P * (2 * square)
        BY <1>1, <1>5, <1>6, <2>1
    <2> QED BY <1>1, <2>1, <2>2, ErrorIsBelow DEF x, P
<1>8. k * One <= x
    <2>1. (S * k) * square <= n
        BY <1>1, <1>4, TimesKeepsOrder
    <2>2. n < d * (MaxSafe + One)
        <3>1. p < P * S
            <4>1. P * 1 <= P * S
                BY <1>3, TimesKeepsOrder
            <4> QED BY <1>3, <4>1
        <3>2. p * square < (P * S) * square
            <4>1. P * S \in Int
                BY <1>3
            <4> QED BY <1>1, <3>1, <4>1, TimesKeepsOrder
        <3>3. d * (P * One) = (P * S) * square
            BY <1>3 DEF d, square
        <3> QED BY <1>1, <3>2, <3>3, Widths DEF P
    <2> QED BY <1>1, <1>4, <2>1, <2>2, NearestKeepsWholes DEF x
<1>9. x < (k + 1) * One
    <2>1. p + 1 <= S * (k + 1) /\ p + 1 \in Int
        BY <1>4
    <2>2. (p + 1) * square <= (S * (k + 1)) * square /\ (p + 1) * square = n + square
        BY <1>1, <1>4, <2>1, TimesKeepsOrder
    <2>3. d * x \in Int
        BY <1>1, <1>7
    <2>4. d * x < d * ((k + 1) * One)
        BY <1>1, <1>4, <1>7, <2>2, <2>3
    <2>5. x \in Int /\ (k + 1) * One \in Int
        BY <1>7
    <2> QED BY <1>1, <2>4, <2>5, TimesKeepsOrder
<1>10. Floor(x) = k * One /\ Fraction(x) = x - k * One
    BY <1>7, <1>8, <1>9, FloorIs
<1>11. ASSUME 2 * p < P
       PROVE  2 * (d * x - n) < square /\ 2 * (n - d * x) < square
    <2>1. 2 * n < P * square
        <3>1. 2 * p \in Int /\ P \in Int /\ (2 * p) * square = 2 * n
            BY <1>1, <1>3
        <3>2. (2 * p) * square < P * square
            BY <1>1, <1>11, <3>1, TimesKeepsOrder
        <3> QED BY <3>1, <3>2
    <2> QED BY <1>1, <1>5, <2>1, ErrorIsBelow DEF x, P
<1>12. d * (x - k * One) - (p - S * k) * square = d * x - n
    <2>1. d * (x - k * One) = d * x - d * (k * One)
        BY <1>1, <1>7
    <2>2. (p - S * k) * square = p * square - (S * k) * square
        BY <1>1, <1>4
    <2>3. d * x \in Int /\ (S * k) * square \in Int
        BY <1>1, <1>4, <1>7
    <2> QED BY <1>1, <1>4, <2>1, <2>2, <2>3
<1>13. d * x \in Int /\ x - k * One \in Int
    BY <1>1, <1>7
<1> DEFINE e == d * Fraction(x) - (p - S * k) * square
<1>14. e = d * x - n
    BY <1>10, <1>12
<1> HIDE DEF e
<1>15. 2 * p < P => 2 * e < square /\ -square < 2 * e
    BY <1>1, <1>11, <1>13, <1>14
<1> QED BY <1>2, <1>7, <1>10, <1>13, <1>15 DEF e, d, square, P

\* Out of a sum that is not safe, no bucket is due a whole unit.
LEMMA DueIsNothing ==
    ASSUME NEW p \in Nat, p < Power[Bits], NEW s \in Nat, s >= Power[Bits] * One
    PROVE  Over(p * One, s) \in Nat /\ Floor(Over(p * One, s)) = 0
<1> USE Grid
<1> DEFINE n == (p * One) * One
           P == Power[Bits]
           square == One * One
           x == NearestNat(n, s)
           full == s * One
<1>1. P \in Nat \ {0} /\ P <= One /\ p <= P - 1 /\ s >= P * One
    BY Widths
<1> HIDE DEF P
<1>2. n \in Nat /\ n = p * square /\ square \in Nat \ {0}
    BY TimesKeepsOrder
<1>3. s \in Nat \ {0}
    <2>1. P * One >= 1
        BY <1>1
    <2> QED BY <1>1, <2>1
<1>4. Over(p * One, s) = x
    BY <1>2, <1>3 DEF Over, Nearest
<1>5. full \in Nat /\ full >= P * square
    <2>1. P * One \in Int /\ s \in Int /\ (P * One) * One = P * square
        BY <1>1
    <2>2. (P * One) * One <= s * One
        BY <1>1, <2>1, TimesKeepsOrder
    <2> QED BY <2>1, <2>2
<1>6. n + square <= P * square
    <2>1. p + 1 \in Int /\ P \in Int /\ (p + 1) * square = n + square
        BY <1>1, <1>2
    <2> HIDE DEF square
    <2> QED BY <1>1, <1>2, <2>1, TimesKeepsOrder
<1> DEFINE gap == 2 * (full - n)
<1>7. 2 * n < 2 * full - s /\ full > n
    <2> DEFINE w == 2 * One - 1
    <2>1. w \in Nat \ {0} /\ s * w = 2 * full - s /\ (P * One) * w = 2 * (P * square) - P * One
        BY <1>1
    <2>2. (P * One) * w <= s * w
        <3>1. P * One \in Int /\ s \in Int
            BY <1>1
        <3> HIDE DEF w
        <3> QED BY <1>1, <2>1, <3>1, TimesKeepsOrder
    <2>3. P * One <= square /\ P * One \in Int /\ P * square \in Int
        <3>1. P \in Int /\ One \in Int
            BY <1>1
        <3>2. P * One <= One * One
            BY <1>1, <3>1, TimesKeepsOrder
        <3> QED BY <3>1, <3>2
    <2> HIDE DEF w, full, square
    <2> QED BY <1>2, <1>5, <1>6, <2>1, <2>2, <2>3
<1> HIDE DEF full
<1>8. 2 * n < P * gap
    <2>1. P * n <= P * (P * square - square) /\ P * (P * square) <= P * full
        <3>1. n \in Int /\ P * square \in Int /\ P * square - square \in Int /\ full \in Int
              /\ n <= P * square - square
            BY <1>1, <1>2, <1>5, <1>6
        <3> HIDE DEF n, square
        <3> QED BY <1>1, <1>5, <3>1, TimesKeepsOrder
    <2>2. P * (P * square - square) = P * (P * square) - P * square
          /\ P * gap = 2 * (P * full - P * n)
          /\ P * n \in Int /\ P * full \in Int /\ P * (P * square) \in Int /\ P * square \in Int
        <3> HIDE DEF n, square
        <3> QED BY <1>1, <1>2, <1>5
    <2> HIDE DEF n, square, gap
    <2> QED BY <1>1, <1>2, <1>6, <2>1, <2>2
<1>9. gap \in Nat /\ s < gap
    <2> HIDE DEF n, square
    <2> QED BY <1>2, <1>5, <1>7
<1>10. x \in Nat /\ 2 * (s * x - n) < gap
    <2> HIDE DEF n, gap
    <2> QED BY <1>2, <1>3, <1>8, <1>9, ErrorIsBelow DEF P
<1> HIDE DEF x, n, square
<1>11. x < One
    <2>1. s * x \in Int /\ s * One \in Int /\ x \in Int /\ s * One = full
        BY <1>10 DEF full
    <2>2. s * x < s * One
        BY <1>2, <1>5, <1>10, <2>1
    <2> QED BY <1>3, <2>1, <2>2, TimesKeepsOrder
<1>12. Floor(x) = 0 * One
    <2>1. 0 * One <= x /\ x < (0 + 1) * One /\ 0 \in Nat
        BY <1>10, <1>11
    <2> QED BY <1>10, <2>1, FloorIs
<1> QED BY <1>4, <1>10, <1>12

-----------------------------------------------------------------------------
(* Places.                                                                 *)

\* Counting, one index at a time.
Count(R, k) == Cardinality(R \cap (1..k))

\* From none to all of them.
LEMMA CountUp ==
    ASSUME NEW n \in Nat, NEW R \in SUBSET (1..n)
    PROVE  /\ Cardinality(R) \in 0..n /\ Count(R, n) = Cardinality(R)
           /\ Count(R, 0) = 0
           /\ \A k \in Nat : Count(R, k) \in Nat
           /\ \A k \in Nat : Count(R, k + 1) = Count(R, k) + (IF k + 1 \in R THEN 1 ELSE 0)
<1>1. IsFiniteSet(1..n) /\ Cardinality(1..n) = n
    BY FS_Interval
<1>2. IsFiniteSet(R) /\ Cardinality(R) <= n /\ Cardinality(R) \in Nat
    BY <1>1, FS_Subset, FS_CardinalityType
<1>3. R \cap (1..0) = {} /\ R \cap (1..n) = R
    <2>1. 1..0 = {}
        OBVIOUS
    <2> QED BY <2>1
<1>4. Count(R, 0) = 0 /\ Count(R, n) = Cardinality(R)
    BY <1>3, FS_EmptySet DEF Count
<1>5. ASSUME NEW k \in Nat PROVE IsFiniteSet(R \cap (1..k)) /\ Count(R, k) \in Nat
    <2>1. IsFiniteSet(R \cap (1..k))
        BY <1>2, FS_Subset
    <2> QED BY <2>1, FS_CardinalityType DEF Count
<1>6. ASSUME NEW k \in Nat PROVE Count(R, k + 1) = Count(R, k) + (IF k + 1 \in R THEN 1 ELSE 0)
    <2>1. CASE k + 1 \in R
        <3>1. R \cap (1..(k + 1)) = (R \cap (1..k)) \cup {k + 1} /\ k + 1 \notin R \cap (1..k)
            BY <2>1
        <3>2. Cardinality((R \cap (1..k)) \cup {k + 1}) = Cardinality(R \cap (1..k)) + 1
            BY <1>5, <3>1, FS_AddElement
        <3>3. Count(R, k + 1) = Count(R, k) + 1
            BY <3>1, <3>2 DEF Count
        <3> QED BY <2>1, <3>3
    <2>2. CASE k + 1 \notin R
        <3>1. R \cap (1..(k + 1)) = R \cap (1..k)
            BY <2>2
        <3>2. Count(R, k + 1) = Count(R, k) /\ Count(R, k) \in Nat
            BY <1>5, <3>1 DEF Count
        <3> QED BY <2>2, <3>2
    <2> QED BY <2>1, <2>2
<1>7. Cardinality(R) \in 0..n
    BY <1>2
<1> QED BY <1>4, <1>5, <1>6, <1>7

\* The first L buckets.
First(dues, L) == {i \in DOMAIN dues : PlaceOf(dues, i) < L}

\* The places number the buckets, a larger remainder comes first, and behind every bucket
\* come at least as many as have a larger one.
LEMMA Places ==
    ASSUME NEW n \in Nat, NEW dues, DOMAIN dues = 1..n,
           \A i \in 1..n : Fraction(dues[i]) \in Int
    PROVE  /\ \A i \in 1..n : PlaceOf(dues, i) \in 0..(n - 1)
           /\ \A i, j \in 1..n :
                Fraction(dues[j]) > Fraction(dues[i]) => PlaceOf(dues, j) < PlaceOf(dues, i)
           /\ \A L \in 0..n : Cardinality(First(dues, L)) = L
           /\ \A i \in 1..n : \A R \in SUBSET (1..n) :
                (\A j \in R : Fraction(dues[j]) > Fraction(dues[i]))
                  => Cardinality(R) <= PlaceOf(dues, i)
<1> DEFINE fr == [i \in 1..n |-> Fraction(dues[i])]
           Ahead(i, j) == fr[i] > fr[j] \/ (fr[i] = fr[j] /\ i < j)
           Before(i) == {j \in 1..n : Ahead(j, i)}
           place == [i \in 1..n |-> Cardinality(Before(i))]
<1>1. \A i \in 1..n : fr[i] \in Int /\ fr[i] = Fraction(dues[i])
    OBVIOUS
<1>2. ASSUME NEW i \in 1..n PROVE PlaceOf(dues, i) = place[i]
    <2>1. {j \in DOMAIN dues : \/ Fraction(dues[j]) > Fraction(dues[i])
                               \/ Fraction(dues[j]) = Fraction(dues[i]) /\ j < i} = Before(i)
        OBVIOUS
    <2> HIDE DEF Before
    <2> QED BY <2>1 DEF PlaceOf
<1> HIDE DEF fr
<1>3. /\ \A i \in 1..n : ~Ahead(i, i)
      /\ \A i, j \in 1..n : i = j \/ Ahead(i, j) \/ Ahead(j, i)
      /\ \A i, j, k \in 1..n : Ahead(i, j) /\ Ahead(j, k) => Ahead(i, k)
    <2>1. \A i \in 1..n : i \in Int
        OBVIOUS
    <2> QED BY <1>1, <2>1
<1> HIDE DEF Ahead
<1>4. IsFiniteSet(1..n) /\ Cardinality(1..n) = n
    BY FS_Interval
<1>5. ASSUME NEW i \in 1..n
      PROVE  IsFiniteSet(Before(i)) /\ place[i] = Cardinality(Before(i)) /\ place[i] \in 0..(n - 1)
    <2>1. Before(i) \subseteq (1..n) \ {i}
        BY <1>3
    <2>2. IsFiniteSet((1..n) \ {i}) /\ Cardinality((1..n) \ {i}) = n - 1
        BY <1>4, FS_RemoveElement
    <2>3. IsFiniteSet(Before(i)) /\ Cardinality(Before(i)) <= n - 1
        BY <2>1, <2>2, FS_Subset
    <2>4. Cardinality(Before(i)) \in Nat
        BY <2>3, FS_CardinalityType
    <2> HIDE DEF Before
    <2> QED BY <2>3, <2>4
<1>6. ASSUME NEW i \in 1..n, NEW j \in 1..n, Ahead(j, i)
      PROVE  place[j] < place[i]
    <2>1. Before(j) \subseteq Before(i) \ {j} /\ j \in Before(i)
        BY <1>3, <1>6
    <2>2. IsFiniteSet(Before(i) \ {j}) /\ Cardinality(Before(i) \ {j}) = Cardinality(Before(i)) - 1
        BY <1>5, <2>1, FS_RemoveElement
    <2>3. Cardinality(Before(j)) <= Cardinality(Before(i)) - 1
        BY <2>1, <2>2, FS_Subset
    <2> HIDE DEF Before, place
    <2> QED BY <1>5, <2>3
<1>7. \A i, j \in 1..n : Fraction(dues[j]) > Fraction(dues[i]) => place[j] < place[i]
    <2>1. \A i, j \in 1..n : Fraction(dues[j]) > Fraction(dues[i]) => Ahead(j, i)
        BY <1>1 DEF Ahead
    <2> HIDE DEF place
    <2> QED BY <1>6, <2>1
<1>8. ASSUME NEW i \in 1..n, NEW R \in SUBSET (1..n),
             \A j \in R : Fraction(dues[j]) > Fraction(dues[i])
      PROVE  Cardinality(R) <= place[i]
    <2>1. R \subseteq Before(i)
        BY <1>1, <1>8 DEF Ahead
    <2> HIDE DEF Before, place
    <2> QED BY <1>5, <2>1, FS_Subset
<1>9. place \in [1..n -> 0..(n - 1)]
    BY <1>5
<1> HIDE DEF place, Before
<1>10. place \in Bijection(1..n, 0..(n - 1))
    <2>1. place \in Injection(1..n, 0..(n - 1))
        <3>1. ASSUME NEW i \in 1..n, NEW j \in 1..n, place[i] = place[j] PROVE i = j
            <4>1. place[i] \in Int /\ place[j] \in Int
                BY <1>9
            <4> QED BY <1>3, <1>6, <3>1, <4>1
        <3> QED BY <1>9, <3>1 DEF Injection, IsInjective
    <2>2. IsFiniteSet(0..(n - 1)) /\ Cardinality(0..(n - 1)) = n
        BY FS_Interval
    <2>3. place \in Surjection(1..n, 0..(n - 1))
        BY <1>4, <2>1, <2>2, FS_Injection
    <2> QED BY <2>1, <2>3 DEF Bijection
<1>11. ASSUME NEW L \in 0..n PROVE Cardinality(First(dues, L)) = L
    <2> DEFINE R == {i \in 1..n : place[i] < L}
               to == [i \in R |-> place[i]]
    <2>1. First(dues, L) = R
        BY <1>2 DEF First
    <2>2. IsFiniteSet(R)
        BY <1>4, FS_Subset
    <2>3. to \in Bijection(R, 0..(L - 1))
        <3>1. to \in [R -> 0..(L - 1)]
            BY <1>9
        <3>2. \A i, j \in R : to[i] = to[j] => i = j
            BY <1>10 DEF Bijection, Injection, IsInjective
        <3>3. ASSUME NEW p \in 0..(L - 1) PROVE \E i \in R : to[i] = p
            <4>1. p \in 0..(n - 1) /\ p < L
                OBVIOUS
            <4>2. PICK i \in 1..n : place[i] = p
                BY <1>10, <4>1 DEF Bijection, Surjection
            <4> QED BY <4>1, <4>2
        <3> HIDE DEF to, R
        <3> QED BY <3>1, <3>2, <3>3 DEF Bijection, Injection, Surjection, IsInjective
    <2>4. ExistsBijection(R, 0..(L - 1))
        BY <2>3 DEF ExistsBijection
    <2>5. Cardinality(0..(L - 1)) = Cardinality(R)
        <3> HIDE DEF R
        <3> QED BY <2>2, <2>4, FS_Bijection
    <2>6. Cardinality(0..(L - 1)) = L
        BY FS_Interval
    <2> HIDE DEF R
    <2> QED BY <2>1, <2>5, <2>6
<1> QED BY <1>2, <1>5, <1>7, <1>8, <1>11

\* F is what of T is due to each of the weights W, out of S, cut to whole units.
CutShares(T, W, S, F) ==
    \A i \in 1..Len(W) : S * F[i] <= T * W[i] /\ T * W[i] < S * (F[i] + 1)

\* The buckets whose share is not a whole number of units.
Shortened(T, W, S, F) == {i \in 1..Len(W) : S * F[i] < T * W[i]}

\* Of shares that are cut to whole units, fewer units are left than were cut.
LEMMA FewAreLeft ==
    ASSUME NEW W \in Seq(Nat), NEW F \in Seq(Nat), Len(F) = Len(W),
           NEW T \in Nat, NEW S \in Nat \ {0}, S = SumOf(W),
           CutShares(T, W, S, F)
    PROVE  /\ SumOf(F) \in Nat /\ T - SumOf(F) \in Nat
           /\ T - SumOf(F) = 0 \/ T - SumOf(F) < Cardinality(Shortened(T, W, S, F))
<1> DEFINE n == Len(W)
           w == Sums(W)
           f == Sums(F)
           cut == {i \in 1..n : S * F[i] < T * W[i]}
           count(k) == Count(cut, k)
<1>1. /\ n \in Nat /\ Len(F) = n
      /\ \A i \in 1..n : W[i] \in Nat /\ F[i] \in Nat
    OBVIOUS
<1>2. /\ w \in [0..n -> Int] /\ w[0] = 0 /\ \A k \in 1..n : w[k] = w[k - 1] + W[k]
      /\ f \in [0..n -> Int] /\ f[0] = 0 /\ \A k \in 1..n : f[k] = f[k - 1] + F[k]
    <2>1. W \in Seq(Int) /\ F \in Seq(Int)
        OBVIOUS
    <2> QED BY <2>1, SumsAreSums
<1>3. w[n] = S /\ SumOf(F) = f[n]
    BY DEF SumOf
<1> HIDE DEF n, w, f
<1>4. /\ count(0) = 0 /\ count(n) = Cardinality(cut)
      /\ \A k \in Nat : count(k) \in Nat
      /\ \A k \in Nat : count(k + 1) = count(k) + (IF k + 1 \in cut THEN 1 ELSE 0)
    <2>1. cut \in SUBSET (1..n)
        OBVIOUS
    <2> HIDE DEF cut
    <2> QED BY <1>1, <2>1, CountUp
<1>5. \A i \in 1..n : /\ i \in cut => S * F[i] < T * W[i] /\ T * W[i] < S * (F[i] + 1)
                      /\ i \notin cut => S * F[i] = T * W[i]
    <2>1. ASSUME NEW i \in 1..n PROVE S * F[i] \in Int /\ T * W[i] \in Int
        <3>1. F[i] \in Int /\ W[i] \in Int
            BY <1>1
        <3> QED BY <3>1
    <2> QED BY <2>1 DEF n, CutShares
<1> HIDE DEF cut, count
<1> DEFINE Good(k) == /\ f[k] \in Nat
                      /\ S * f[k] <= T * w[k]
                      /\ T * w[k] - S * f[k] <= (S - 1) * count(k)
<1>6. \A k \in 0..n : Good(k)
    <2> DEFINE Q == {k \in Nat : k \in 0..n => Good(k)}
    <2>1. 0 \in Q
        <3>1. f[0] = 0 /\ w[0] = 0 /\ count(0) = 0
            BY <1>2, <1>4
        <3>2. S * 0 = 0 /\ T * 0 = 0 /\ (S - 1) * 0 = 0
            OBVIOUS
        <3>3. Good(0)
            BY <3>1, <3>2
        <3> QED BY <3>3
    <2>2. ASSUME NEW k \in Nat, k \in Q PROVE k + 1 \in Q
        <3> SUFFICES ASSUME k + 1 \in 0..n PROVE Good(k + 1)
            OBVIOUS
        <3>1. k \in 0..n /\ k + 1 \in 1..n /\ (k + 1) - 1 = k
            BY <1>1
        <3> DEFINE i == k + 1
                   a == T * w[k]
                   b == S * f[k]
                   da == T * W[i]
                   db == S * F[i]
                   c == (S - 1) * count(k)
        <3>2. f[k] \in Nat /\ b <= a /\ a - b <= c
            BY <2>2, <3>1
        <3>3. /\ f[k] \in Int /\ w[k] \in Int /\ W[i] \in Int /\ F[i] \in Int /\ count(k) \in Int
              /\ S \in Int /\ T \in Int /\ S - 1 \in Int
            <4> HIDE DEF a, b, c
            <4>1. f[k] \in Int
                BY <3>2
            <4>2. w[k] \in Int /\ W[i] \in Int /\ F[i] \in Int /\ count(k) \in Int
                <5>1. w[k] \in Int
                    BY <1>2, <3>1
                <5>2. W[i] \in Int /\ F[i] \in Int
                    BY <1>1, <3>1
                <5>3. count(k) \in Int
                    BY <1>4
                <5> QED BY <5>1, <5>2, <5>3
            <4> QED BY <4>1, <4>2
        <3> DEFINE fk == f[k]
                   wk == w[k]
                   ck == count(k)
                   Fi == F[i]
                   Wi == W[i]
        <3>4. a \in Int /\ b \in Int /\ da \in Int /\ db \in Int /\ c \in Int
            <4>1. fk \in Int /\ wk \in Int /\ ck \in Int /\ Fi \in Int /\ Wi \in Int
                BY <3>3
            <4> HIDE DEF fk, wk, ck, Fi, Wi
            <4>2. T * wk \in Int /\ S * fk \in Int /\ T * Wi \in Int /\ S * Fi \in Int
                  /\ (S - 1) * ck \in Int
                BY <4>1
            <4> QED BY <4>2 DEF fk, wk, ck, Fi, Wi
        <3>9. S * (F[i] + 1) = db + S
            <4>1. Fi \in Int
                BY <3>3
            <4> HIDE DEF Fi
            <4>2. S * (Fi + 1) = S * Fi + S
                BY <4>1
            <4> QED BY <4>2 DEF Fi
        <3>5. w[i] = w[k] + W[i] /\ f[i] = f[k] + F[i]
            BY <1>2, <3>1
        <3>6. T * w[i] = a + da /\ S * f[i] = b + db /\ f[i] \in Nat
            <4>1. f[k] \in Nat /\ F[i] \in Nat
                <5> HIDE DEF a, b, c
                <5> QED BY <1>1, <3>1, <3>2
            <4>2. f[i] \in Nat
                BY <3>5, <4>1
            <4> HIDE DEF i
            <4>3. fk \in Int /\ wk \in Int /\ Fi \in Int /\ Wi \in Int
                BY <3>3
            <4>4. T * (wk + Wi) = T * wk + T * Wi /\ S * (fk + Fi) = S * fk + S * Fi
                <5> HIDE DEF fk, wk, Fi, Wi
                <5> QED BY <4>3
            <4> QED BY <3>5, <4>2, <4>4
        <3>7. CASE i \in cut
            <4>1. count(i) = count(k) + 1
                BY <1>4, <3>7
            <4>2. (S - 1) * count(i) = c + (S - 1)
                <5>1. (S - 1) * (count(k) + 1) = (S - 1) * count(k) + (S - 1)
                    BY <3>3
                <5> QED BY <4>1, <5>1
            <4>3. db < da /\ da < db + S
                BY <1>5, <3>1, <3>4, <3>7, <3>9
            <4> HIDE DEF a, b, c, da, db
            <4>4. S * f[i] <= T * w[i] /\ T * w[i] - S * f[i] <= (S - 1) * count(i)
                <5> DEFINE x == T * w[i]
                           y == S * f[i]
                           z == (S - 1) * count(i)
                <5>1. x = a + da /\ y = b + db
                    BY <3>6
                <5>2. z = c + (S - 1)
                    BY <4>2
                <5> HIDE DEF x, y, z, i
                <5>3. y <= x /\ x - y <= z
                    BY <3>2, <3>4, <4>3, <5>1, <5>2
                <5> QED BY <5>3 DEF x, y, z
            <4> QED BY <3>6, <4>4
        <3>8. CASE i \notin cut
            <4>1. count(i) = count(k)
                BY <1>4, <3>3, <3>8
            <4>2. (S - 1) * count(i) = c
                BY <4>1
            <4>3. db = da
                BY <1>5, <3>1, <3>8
            <4> HIDE DEF a, b, c, da, db
            <4>4. S * f[i] <= T * w[i] /\ T * w[i] - S * f[i] <= (S - 1) * count(i)
                <5> DEFINE x == T * w[i]
                           y == S * f[i]
                           z == (S - 1) * count(i)
                <5>1. x = a + da /\ y = b + db
                    BY <3>6
                <5>2. z = c
                    BY <4>2
                <5> HIDE DEF x, y, z, i
                <5>3. y <= x /\ x - y <= z
                    BY <3>2, <3>4, <4>3, <5>1, <5>2
                <5> QED BY <5>3 DEF x, y, z
            <4> QED BY <3>6, <4>4
        <3> QED BY <3>7, <3>8
    <2>3. Nat \subseteq Q
        <3> HIDE DEF Q
        <3> QED BY <2>1, <2>2, SetInduction
    <2> QED BY <1>1, <2>3
<1> DEFINE left == T - f[n]
           c == count(n)
<1>7. f[n] \in Nat /\ S * f[n] <= T * S /\ T * S - S * f[n] <= (S - 1) * c /\ c \in Nat
    <2>1. n \in 0..n
        BY <1>1
    <2>2. Good(n)
        BY <1>6, <2>1
    <2>3. count(n) \in Nat
        BY <1>1, <1>4
    <2> QED BY <1>3, <2>2, <2>3
<1>8. left \in Nat
    <2>1. f[n] * S <= T * S /\ f[n] \in Int /\ T \in Int
        BY <1>7
    <2>2. f[n] <= T
        BY <2>1, TimesKeepsOrder
    <2> QED BY <1>7, <2>2
<1>9. left = 0 \/ left < c
    <2>1. S * left = T * S - S * f[n]
        BY <1>7
    <2> HIDE DEF left, c
    <2>2. S * left <= (S - 1) * c
        BY <1>7, <2>1
    <2>3. CASE left > 0 /\ c <= left
        <3>1. S * c <= S * left
            <4>1. c \in Int /\ left \in Int
                BY <1>7, <1>8
            <4> QED BY <2>3, <4>1, TimesKeepsOrder
        <3>2. S * c = (S - 1) * c + c /\ (S - 1) * c \in Int /\ S * left \in Int
            BY <1>7, <1>8
        <3>3. c = 0
            BY <1>7, <2>2, <3>1, <3>2
        <3>4. S * left >= left
            <4>1. 1 * left <= S * left
                <5>1. left \in Nat \ {0} /\ 1 \in Int /\ S \in Int /\ 1 <= S
                    BY <1>8, <2>3
                <5> QED BY <5>1, TimesKeepsOrder
            <4> QED BY <1>8, <4>1
        <3>5. (S - 1) * c = 0
            BY <3>3
        <3> QED BY <1>8, <2>2, <2>3, <3>2, <3>4, <3>5
    <2> QED BY <1>7, <1>8, <2>3
<1>10. cut = Shortened(T, W, S, F)
    BY DEF cut, n, Shortened
<1>11. SumOf(F) = f[n]
    BY <1>3
<1>12. c = Cardinality(cut)
    BY <1>4
<1> HIDE DEF left, c
<1> QED BY <1>7, <1>8, <1>9, <1>10, <1>11, <1>12 DEF left

\* v is F in amounts, a unit more for those in R.
MoreFor(R, F, v) == \A i \in 1..Len(F) : v[i] = (F[i] + (IF i \in R THEN 1 ELSE 0)) * One

\* A unit more for some: the sum is that many units more.
LEMMA UnitsMore ==
    ASSUME NEW F \in Seq(Nat), NEW v \in Seq(Int), Len(v) = Len(F), NEW R \in SUBSET (1..Len(F)),
           MoreFor(R, F, v)
    PROVE  SumOf(v) = (SumOf(F) + Cardinality(R)) * One
<1> USE Grid
<1> DEFINE n == Len(F)
           f == Sums(F)
           g == Sums(v)
           count(k) == Count(R, k)
<1>1. n \in Nat /\ Len(v) = n /\ \A i \in 1..n : F[i] \in Nat
    OBVIOUS
<1>2. /\ g \in [0..n -> Int] /\ g[0] = 0 /\ \A k \in 1..n : g[k] = g[k - 1] + v[k]
      /\ f \in [0..n -> Int] /\ f[0] = 0 /\ \A k \in 1..n : f[k] = f[k - 1] + F[k]
    <2>1. F \in Seq(Int)
        OBVIOUS
    <2> QED BY <2>1, SumsAreSums
<1>3. /\ count(0) = 0 /\ count(n) = Cardinality(R)
      /\ \A k \in Nat : count(k) \in Nat
      /\ \A k \in Nat : count(k + 1) = count(k) + (IF k + 1 \in R THEN 1 ELSE 0)
    BY <1>1, CountUp
<1>4. SumOf(v) = g[n] /\ SumOf(F) = f[n]
    BY DEF SumOf
<1>5. \A i \in 1..n : v[i] = (F[i] + (IF i \in R THEN 1 ELSE 0)) * One
    BY DEF MoreFor
<1> HIDE DEF n, f, g, count
<1>6. \A k \in 0..n : g[k] = (f[k] + count(k)) * One
    <2> DEFINE Q == {k \in Nat : k \in 0..n => g[k] = (f[k] + count(k)) * One}
    <2>1. 0 \in Q
        BY <1>2, <1>3
    <2>2. ASSUME NEW k \in Nat, k \in Q PROVE k + 1 \in Q
        <3> SUFFICES ASSUME k + 1 \in 0..n
                     PROVE  g[k + 1] = (f[k + 1] + count(k + 1)) * One
            OBVIOUS
        <3>1. k \in 0..n /\ k + 1 \in 1..n /\ (k + 1) - 1 = k
            BY <1>1
        <3> DEFINE more == IF k + 1 \in R THEN 1 ELSE 0
        <3>2. /\ g[k + 1] = g[k] + (F[k + 1] + more) * One
              /\ f[k + 1] = f[k] + F[k + 1] /\ count(k + 1) = count(k) + more
              /\ g[k] = (f[k] + count(k)) * One
            BY <1>2, <1>3, <1>5, <2>2, <3>1
        <3>3. f[k] \in Int /\ F[k + 1] \in Int /\ count(k) \in Int /\ more \in Int
            <4>1. f[k] \in Int
                BY <1>2, <3>1
            <4>2. F[k + 1] \in Int
                BY <1>1, <3>1
            <4>3. count(k) \in Int
                BY <1>3
            <4> QED BY <4>1, <4>2, <4>3
        <3> HIDE DEF more
        <3> QED BY <3>2, <3>3
    <2>3. Nat \subseteq Q
        <3> HIDE DEF Q
        <3> QED BY <2>1, <2>2, SetInduction
    <2> QED BY <1>1, <2>3
<1>7. g[n] = (f[n] + count(n)) * One
    <2>1. n \in 0..n
        BY <1>1
    <2> QED BY <1>6, <2>1
<1> QED BY <1>3, <1>4, <1>7

-----------------------------------------------------------------------------
(* The split.                                                              *)

\* F is what dues are in whole units.
FloorsAre(dues, F) ==
    \A i \in 1..Len(F) : Floor(dues[i]) = F[i] * One /\ Fraction(dues[i]) \in Int

\* The units that are left, one each for the first, make up the total.
LEMMA PartsMakeUp ==
    ASSUME NEW T \in Nat, T < Power[Bits], NEW F \in Seq(Nat),
           NEW dues, DOMAIN dues = 1..Len(F), FloorsAre(dues, F),
           SumOf(F) \in Nat, T - SumOf(F) \in 0..Len(F)
    PROVE  LET parts == Distribute(T * One, dues)
               R == First(dues, T - SumOf(F))
           IN  /\ parts \in Seq(Int) /\ Len(parts) = Len(F) /\ MoreFor(R, F, parts)
               /\ SumOf(parts) = T * One
<1> USE Grid, NumbersAssumption
<1> DEFINE n == Len(F)
           f == SumOf(F)
           left == T - f
           R == First(dues, left)
           floors == [i \in DOMAIN dues |-> Floor(dues[i])]
           parts == Distribute(T * One, dues)
           P == Power[Bits]
<1>1. n \in Nat /\ F \in [1..n -> Nat] /\ \A i \in 1..n : F[i] \in Nat
    OBVIOUS
<1>2. f \in Nat /\ left \in 0..n /\ left \in Nat /\ f <= T /\ T = f + left
    <2> HIDE DEF n, f
    <2>1. f \in Nat /\ T - f \in 0..n
        BY DEF f, n
    <2> QED BY <1>1, <2>1
<1>3. P \in Nat \ {0} /\ P <= One /\ MaxSafe = (P - 1) * One /\ T < P
    BY Widths
<1>4. \A i \in 1..n : Floor(dues[i]) = F[i] * One /\ Fraction(dues[i]) \in Int
    BY DEF FloorsAre
<1>5. DOMAIN dues = 1..n
    OBVIOUS
<1> HIDE DEF n, f, P
<1>6. /\ floors \in Seq(Nat) /\ Len(floors) = n /\ DOMAIN floors = 1..n
      /\ \A i \in 1..n : floors[i] = F[i] * One /\ IsInteger(floors[i])
    <2>1. ASSUME NEW i \in 1..n
          PROVE  Floor(dues[i]) \in Nat /\ Floor(dues[i]) = F[i] * One /\ IsInteger(F[i] * One)
        <3> DEFINE K == F[i]
        <3>1. K \in Nat
            BY <1>1
        <3> HIDE DEF K
        <3>2. K * One \in Nat /\ IsInteger(K * One)
            BY <3>1, Wholes
        <3> QED BY <1>4, <3>2 DEF K
    <2>2. floors = [i \in 1..n |-> Floor(dues[i])]
        BY <1>5
    <2> HIDE DEF floors
    <2>3. floors \in Seq(Nat) /\ Len(floors) = n /\ DOMAIN floors = 1..n
        BY <1>1, <2>1, <2>2
    <2> QED BY <2>1, <2>2, <2>3
<1> HIDE DEF floors
<1>7. Total(floors) = f * One /\ InUnits(floors) = F
    <2>1. InUnits(floors) \in Seq(Nat) /\ Len(InUnits(floors)) = n
          /\ (\A i \in 1..n : InUnits(floors)[i] \in Nat /\ floors[i] = InUnits(floors)[i] * One)
          /\ (SumOf(InUnits(floors)) < P => Total(floors) = SumOf(InUnits(floors)) * One)
        <3>1. \A i \in DOMAIN floors : IsInteger(floors[i])
            BY <1>6
        <3>2. InUnits(floors) \in Seq(Nat) /\ Len(InUnits(floors)) = Len(floors)
              /\ (\A i \in 1..Len(floors) : /\ InUnits(floors)[i] \in Nat
                                             /\ floors[i] = InUnits(floors)[i] * One)
            BY <1>6, <3>1, TotalOfWholes
        <3>3. SumOf(InUnits(floors)) < Power[Bits] => Total(floors) = SumOf(InUnits(floors)) * One
            BY <1>6, <3>1, TotalOfWholes
        <3> QED BY <1>6, <3>2, <3>3 DEF P
    <2>2. ASSUME NEW i \in 1..n PROVE InUnits(floors)[i] = F[i]
        <3> DEFINE a == InUnits(floors)[i]
                   b == F[i]
        <3>1. a \in Int /\ b \in Int /\ a * One = b * One
            <4>1. a \in Int /\ floors[i] = a * One
                BY <2>1
            <4>2. b \in Int /\ floors[i] = b * One
                BY <1>1, <1>6
            <4> QED BY <4>1, <4>2
        <3> HIDE DEF a, b
        <3>2. a <= b /\ b <= a
            <4>1. (a <= b <=> a * One <= b * One) /\ (b <= a <=> b * One <= a * One)
                BY <3>1, TimesKeepsOrder
            <4>2. a * One \in Int
                BY <3>1
            <4> QED BY <3>1, <4>1, <4>2
        <3>3. a = b
            BY <3>1, <3>2
        <3> QED BY <3>3 DEF a, b
    <2>3. InUnits(floors) \in [1..n -> Nat]
        BY <2>1
    <2>4. InUnits(floors) = F
        BY <1>1, <2>2, <2>3
    <2>5. f < P
        BY <1>2, <1>3
    <2> QED BY <2>1, <2>4, <2>5 DEF f
<1>8. ASSUME NEW K \in Nat, K < P PROVE Nearest(K * One, 1) = K * One
    <2>1. K * One \in Int /\ IsInteger(K * One) /\ K * One >= 0
        BY Wholes
    <2>2. K * One <= (P - 1) * One
        <3>1. K <= P - 1 /\ K \in Int /\ P - 1 \in Int
            BY <1>3, <1>8
        <3> QED BY <3>1, TimesKeepsOrder
    <2>3. K * One \in (-MaxSafe)..MaxSafe
        BY <1>3, <2>1, <2>2
    <2> QED BY <2>1, <2>3, NearestWhole
<1>9. Minus(T * One, Total(floors)) = left * One
    <2>1. T * One - f * One = left * One
        BY <1>2
    <2>2. left < P
        BY <1>2, <1>3
    <2> QED BY <1>2, <1>7, <1>8, <2>1, <2>2 DEF Minus
<1>10. parts = [i \in 1..n |-> IF PlaceOf(dues, i) * One < left * One
                               THEN Plus(floors[i], One) ELSE floors[i]]
    <2> HIDE DEF left
    <2> QED BY <1>5, <1>9 DEF Distribute, floors
<1> HIDE DEF left
<1>11. /\ \A i \in 1..n : PlaceOf(dues, i) \in 0..(n - 1)
       /\ Cardinality(R) = left
    <2>1. /\ \A i \in 1..n : PlaceOf(dues, i) \in 0..(n - 1)
          /\ \A L \in 0..n : Cardinality(First(dues, L)) = L
        <3>1. \A i \in 1..n : Fraction(dues[i]) \in Int
            BY <1>4
        <3> QED BY <1>1, <1>5, <3>1, Places
    <2> QED BY <1>2, <2>1
<1>12. ASSUME NEW i \in 1..n
       PROVE  parts[i] = (F[i] + (IF i \in R THEN 1 ELSE 0)) * One /\ parts[i] \in Int
    <2> DEFINE K == F[i]
               p == PlaceOf(dues, i)
    <2>1. K \in Nat /\ p \in Nat /\ floors[i] = K * One
        <3>1. K \in Nat /\ floors[i] = K * One
            BY <1>1, <1>6
        <3>2. p \in 0..(n - 1)
            BY <1>11
        <3>3. p \in Nat
            <4> HIDE DEF p
            <4> QED BY <1>1, <3>2
        <3> QED BY <3>1, <3>3
    <2>2. parts[i] = IF p * One < left * One THEN Plus(K * One, One) ELSE K * One
        BY <1>10, <2>1
    <2>3. p * One < left * One <=> p < left
        <3>1. p \in Int /\ left \in Int
            BY <1>2, <2>1
        <3> HIDE DEF p
        <3> QED BY <3>1, TimesKeepsOrder
    <2>4. i \in R <=> p < left
        BY <1>5 DEF First
    <2>5. K <= f
        <3>1. InUnits(floors)[i] <= SumOf(InUnits(floors)) /\ InUnits(floors) = F
            <4>1. \A j \in 1..n : InUnits(floors)[j] <= SumOf(InUnits(floors))
                BY <1>6, TotalOfWholes
            <4> QED BY <1>7, <4>1
        <3> QED BY <3>1 DEF f
    <2> HIDE DEF K, p, R, parts
    <2>6. CASE p < left
        <3>1. K + 1 \in Nat /\ K + 1 < P
            BY <1>2, <1>3, <2>1, <2>5, <2>6
        <3>2. K * One + One = (K + 1) * One /\ (K + 1) * One \in Int
            BY <2>1
        <3>3. Plus(K * One, One) = (K + 1) * One
            BY <1>8, <3>1, <3>2 DEF Plus
        <3> QED BY <2>2, <2>3, <2>4, <2>6, <3>2, <3>3 DEF K
    <2>7. CASE ~(p < left)
        <3>1. K + 0 = K /\ K * One \in Int
            BY <2>1
        <3> QED BY <2>2, <2>3, <2>4, <2>7, <3>1 DEF K
    <2> QED BY <2>6, <2>7
<1>13. parts \in Seq(Int) /\ Len(parts) = n
    <2> HIDE DEF parts
    <2> QED BY <1>1, <1>10, <1>12
<1>14. MoreFor(R, F, parts)
    BY <1>12 DEF MoreFor, n
<1>15. SumOf(parts) = (f + left) * One
    <2>1. R \in SUBSET (1..n)
        BY <1>5 DEF First
    <2> HIDE DEF R, parts
    <2> QED BY <1>11, <1>13, <1>14, <2>1, UnitsMore DEF n, f
<1> QED BY <1>2, <1>13, <1>14, <1>15 DEF left, n, f

\* What the split takes for granted: whole weights, and products that are safe.
SafeProducts(T, W) == \A i \in 1..Len(W) : W[i] \in Nat /\ T * W[i] \in Nat /\ T * W[i] < Power[Bits]

\* The shares in whole units: what floating point makes of them.
Cuts(T, W) ==
    [i \in 1..Len(W) |-> IF SumOf(W) < Power[Bits] THEN (T * W[i]) \div SumOf(W) ELSE 0]

\* The larger the remainder, the larger the fraction.
KeepOrder(T, W, S, F, dues) ==
    \A i, j \in 1..Len(W) :
        T * W[i] - S * F[i] < T * W[j] - S * F[j] => Fraction(dues[i]) < Fraction(dues[j])

\* Twice every product is safe.
VerySafe(T, W) == \A i \in 1..Len(W) : 2 * (T * W[i]) < Power[Bits]

\* The dues of a split are its shares cut to whole units, and fewer units are left than
\* there are buckets.
LEMMA SharesAreCut ==
    ASSUME NEW T \in Nat, NEW weights \in Seq(Nat), Whole(weights),
           SafeProducts(T, InUnits(weights)), SumOf(InUnits(weights)) \in Nat \ {0}
    PROVE  LET W == InUnits(weights)
               S == SumOf(W)
               F == Cuts(T, W)
               dues == Dues(T * One, weights)
           IN  /\ F \in Seq(Nat) /\ Len(F) = Len(weights) /\ DOMAIN dues = 1..Len(F)
               /\ FloorsAre(dues, F)
               /\ SumOf(F) \in Nat /\ T - SumOf(F) \in 0..Len(F)
               /\ S < Power[Bits] => /\ CutShares(T, W, S, F)
                                     /\ VerySafe(T, W) => KeepOrder(T, W, S, F, dues)
<1> USE Grid, NumbersAssumption
<1> DEFINE n == Len(weights)
           W == InUnits(weights)
           S == SumOf(W)
           F == Cuts(T, W)
           dues == Dues(T * One, weights)
           P == Power[Bits]
           s == Total(weights)
<1>1. /\ n \in Nat /\ DOMAIN weights = 1..n
      /\ W \in Seq(Nat) /\ Len(W) = n /\ S \in Nat \ {0}
      /\ \A i \in 1..n : W[i] \in Nat /\ weights[i] = W[i] * One
      /\ s \in Nat /\ (S < P => s = S * One) /\ (S >= P => s >= P * One)
    <2>1. \A i \in DOMAIN weights : IsInteger(weights[i])
        BY DEF Whole
    <2> QED BY <2>1, TotalOfWholes
<1>2. \A i \in 1..n : T * W[i] \in Nat /\ T * W[i] < P /\ W[i] \in Nat
    BY <1>1 DEF SafeProducts
<1>3. P \in Nat \ {0}
    BY Widths
<1>4. dues = [i \in 1..n |-> Over(Times(T * One, weights[i]), s)]
    BY <1>1 DEF Dues
<1>5. F = [i \in 1..n |-> IF S < P THEN (T * W[i]) \div S ELSE 0]
    BY <1>1 DEF Cuts
<1> HIDE DEF n, W, S, F, dues, P, s
<1>6. ASSUME NEW i \in 1..n PROVE dues[i] = Over((T * W[i]) * One, s)
    <2> DEFINE Wi == W[i]
    <2>1. Wi \in Nat /\ T * Wi < Power[Bits] /\ weights[i] = Wi * One
        BY <1>1, <1>2 DEF P
    <2> HIDE DEF Wi
    <2>2. Times(T * One, Wi * One) = (T * Wi) * One
        BY <2>1, ProductIsExact
    <2>3. dues[i] = Over(Times(T * One, Wi * One), s)
        BY <1>4, <2>1
    <2> QED BY <2>2, <2>3 DEF Wi
<1>7. CASE S < P
    <2>1. ASSUME NEW i \in 1..n
          PROVE  LET e == (S * One) * Fraction(dues[i]) - (T * W[i] - S * F[i]) * (One * One)
                 IN  /\ F[i] \in Nat /\ S * F[i] <= T * W[i] /\ T * W[i] < S * (F[i] + 1)
                     /\ Floor(dues[i]) = F[i] * One /\ Fraction(dues[i]) \in Int
                     /\ 2 * (T * W[i]) < P => 2 * e < One * One /\ -(One * One) < 2 * e
        <3> DEFINE p == T * W[i]
                   k == p \div S
        <3>1. p \in Nat /\ p < P
            BY <1>2
        <3>2. F[i] = k
            BY <1>5, <1>7
        <3>3. dues[i] = Over(p * One, S * One)
            BY <1>1, <1>6, <1>7
        <3> HIDE DEF p
        <3>4. k \in Nat /\ S * k <= p /\ p < S * (k + 1)
            <4> DEFINE rest == p % S
            <4>1. p \in Int /\ S \in Nat \ {0}
                BY <1>1, <3>1
            <4>2. k \in Int /\ rest \in 0..(S - 1) /\ p = S * k + rest /\ (p \in Nat => k \in Nat)
                BY <4>1, Division
            <4> HIDE DEF k, rest
            <4>3. k \in Nat
                BY <3>1, <4>2
            <4>4. S * k \in Int /\ S * (k + 1) = S * k + S
                BY <4>1, <4>2
            <4> QED BY <4>1, <4>2, <4>3, <4>4
        <3> HIDE DEF k
        <3>5. LET x == Over(p * One, S * One)
                  e == (S * One) * Fraction(x) - (p - S * k) * (One * One)
              IN  /\ x \in Nat /\ Floor(x) = k * One /\ Fraction(x) \in Int
                  /\ 2 * p < P => 2 * e < One * One /\ -(One * One) < 2 * e
            BY <1>1, <1>7, <3>1, <3>4, DueIs DEF P
        <3> QED BY <3>2, <3>3, <3>4, <3>5 DEF p
    <2>2. F \in Seq(Nat) /\ Len(F) = n
        <3>1. \A i \in 1..n : F[i] \in Nat
            BY <2>1
        <3>2. DOMAIN F = 1..n /\ F = [i \in 1..n |-> F[i]]
            BY <1>5
        <3>3. F \in [1..n -> Nat]
            BY <3>1, <3>2
        <3> QED BY <1>1, <3>3
    <2>3. DOMAIN dues = 1..n /\ FloorsAre(dues, F)
        BY <1>4, <2>1, <2>2 DEF FloorsAre
    <2>4. CutShares(T, W, S, F)
        BY <1>1, <2>1 DEF CutShares
    <2>5. SumOf(F) \in Nat /\ T - SumOf(F) \in 0..n
        <3> DEFINE cut == Shortened(T, W, S, F)
        <3>1. SumOf(F) \in Nat /\ T - SumOf(F) \in Nat
              /\ (T - SumOf(F) = 0 \/ T - SumOf(F) < Cardinality(cut))
            <4>1. /\ W \in Seq(Nat) /\ F \in Seq(Nat) /\ Len(F) = Len(W)
                  /\ S = SumOf(W) /\ S \in Nat \ {0} /\ T \in Nat
                BY <1>1, <2>2 DEF S
            <4> QED BY <2>4, <4>1, FewAreLeft
        <3>2. cut \in SUBSET (1..n)
            BY <1>1 DEF Shortened
        <3> HIDE DEF cut
        <3>3. Cardinality(cut) \in 0..n
            BY <1>1, <3>2, CountUp
        <3> QED BY <1>1, <3>1, <3>3
    <2>6. ASSUME VerySafe(T, W) PROVE KeepOrder(T, W, S, F, dues)
        <3> SUFFICES ASSUME NEW i \in 1..n, NEW j \in 1..n,
                            T * W[i] - S * F[i] < T * W[j] - S * F[j]
                     PROVE  Fraction(dues[i]) < Fraction(dues[j])
            BY <1>1 DEF KeepOrder
        <3> DEFINE d == S * One
                   square == One * One
                   ri == T * W[i] - S * F[i]
                   rj == T * W[j] - S * F[j]
                   fi == Fraction(dues[i])
                   fj == Fraction(dues[j])
        <3>1. 2 * (T * W[i]) < P /\ 2 * (T * W[j]) < P
            BY <1>1, <2>6 DEF VerySafe, P
        <3>2. /\ fi \in Int /\ fj \in Int
              /\ 2 * (d * fi - ri * square) < square
              /\ -square < 2 * (d * fj - rj * square)
            BY <2>1, <3>1
        <3>3. ri \in Int /\ rj \in Int
            <4> DEFINE Fi == F[i]
                       Fj == F[j]
                       pi == T * W[i]
                       pj == T * W[j]
            <4>1. pi \in Int /\ pj \in Int
                BY <1>2
            <4>3. Fi \in Int /\ Fj \in Int
                BY <2>1
            <4> HIDE DEF Fi, Fj, pi, pj
            <4>2. pi - S * Fi \in Int /\ pj - S * Fj \in Int
                BY <1>1, <4>1, <4>3
            <4> QED BY <4>2 DEF Fi, Fj, pi, pj
        <3>4. ri + 1 <= rj
            <4>1. ri < rj
                OBVIOUS
            <4> HIDE DEF ri, rj
            <4> QED BY <3>3, <4>1
        <3>5. square \in Nat \ {0} /\ d \in Nat \ {0}
            BY <1>1, TimesKeepsOrder
        <3> HIDE DEF d, square, ri, rj, fi, fj
        <3>51. ri + 1 \in Int /\ rj \in Int
            BY <3>3
        <3>6. (ri + 1) * square <= rj * square
            BY <3>4, <3>5, <3>51, TimesKeepsOrder
        <3>7. (ri + 1) * square = ri * square + square
              /\ d * fi \in Int /\ d * fj \in Int /\ ri * square \in Int /\ rj * square \in Int
            BY <3>2, <3>3, <3>5
        <3>8. d * fi < d * fj
            <4> DEFINE di == d * fi
                       dj == d * fj
                       wi == ri * square
                       wj == rj * square
            <4>1. di \in Int /\ dj \in Int /\ wi \in Int /\ wj \in Int /\ square \in Int
                BY <3>5, <3>7
            <4>2. wi + square <= wj
                BY <3>6, <3>7
            <4>3. 2 * (di - wi) < square /\ -square < 2 * (dj - wj)
                BY <3>2
            <4> HIDE DEF di, dj, wi, wj
            <4>4. di < dj
                BY <4>1, <4>2, <4>3
            <4> QED BY <4>4 DEF di, dj
        <3>9. fi < fj
            BY <3>2, <3>5, <3>8, TimesKeepsOrder
        <3> QED BY <3>9 DEF fi, fj
    <2> QED BY <2>2, <2>3, <2>4, <2>5, <2>6 DEF n, W, S, F, dues
<1>8. CASE ~(S < P)
    <2>1. ASSUME NEW i \in 1..n
          PROVE  F[i] = 0 /\ Floor(dues[i]) = 0 /\ Fraction(dues[i]) \in Int
        <3> DEFINE p == T * W[i]
        <3>1. p \in Nat /\ p < P /\ dues[i] = Over(p * One, s)
            <4>1. p \in Nat /\ p < P
                BY <1>2
            <4>2. dues[i] = Over(p * One, s)
                BY <1>6
            <4> QED BY <4>1, <4>2
        <3> HIDE DEF p
        <3>2. Over(p * One, s) \in Nat /\ Floor(Over(p * One, s)) = 0
            <4>1. S >= P
                BY <1>1, <1>3, <1>8
            <4>2. s \in Nat /\ s >= Power[Bits] * One
                BY <1>1, <4>1 DEF P
            <4>3. p < Power[Bits]
                BY <3>1 DEF P
            <4> QED BY <3>1, <4>2, <4>3, DueIsNothing
        <3>3. F[i] = 0
            BY <1>5, <1>8
        <3> QED BY <3>1, <3>2, <3>3 DEF Fraction
    <2>2. F \in Seq(Nat) /\ Len(F) = n
        BY <1>1, <1>5, <1>8
    <2>3. DOMAIN dues = 1..n /\ FloorsAre(dues, F)
        BY <1>4, <2>1, <2>2 DEF FloorsAre
    <2>4. SumOf(F) = 0
        <3>1. \A i \in 1..Len(F) : 1 * F[i] <= 0
            BY <2>1, <2>2
        <3>2. SumOf(F) \in Nat /\ 1 * SumOf(F) <= 0 * Len(F) /\ Len(F) \in Nat
            BY <1>1, <2>2, <3>1, SumIsBounded
        <3> QED BY <3>2
    <2>5. T <= n
        <3>1. \A i \in 1..Len(W) : T * W[i] <= P - 1
            BY <1>1, <1>2, <1>3
        <3>2. T * S <= (P - 1) * n /\ P - 1 \in Nat
            <4>1. P - 1 \in Nat
                BY <1>3
            <4> QED BY <1>1, <3>1, <4>1, SumIsBounded DEF S
        <3>3. T * P <= T * S
            <4>1. CASE T = 0
                BY <1>1, <1>3, <4>1
            <4>2. CASE T # 0
                BY <1>1, <1>3, <1>8, <4>2, TimesKeepsOrder
            <4> QED BY <4>1, <4>2
        <3>4. (P - 1) * n = P * n - n /\ P * n \in Int /\ T * P \in Int /\ T * S \in Int /\ n * P = P * n
            BY <1>1, <1>3
        <3>5. T * P <= n * P
            BY <1>1, <3>2, <3>3, <3>4
        <3> QED BY <1>1, <1>3, <3>5, TimesKeepsOrder
    <2>6. SumOf(F) \in Nat /\ T - SumOf(F) \in 0..n
        BY <1>1, <2>4, <2>5
    <2> QED BY <1>8, <2>2, <2>3, <2>6 DEF n, W, S, F, dues, P
<1> QED BY <1>7, <1>8

\* No weight anywhere: all of it is in the first part.
LEMMA FirstHasAll ==
    ASSUME NEW n \in Nat \ {0}, NEW total \in Int
    PROVE  SumOf([i \in 1..n |-> IF i = 1 THEN total ELSE 0]) = total
<1> DEFINE s == [i \in 1..n |-> IF i = 1 THEN total ELSE 0]
           f == Sums(s)
<1>1. s \in Seq(Int) /\ Len(s) = n /\ \A i \in 1..n : s[i] = IF i = 1 THEN total ELSE 0
    OBVIOUS
<1> HIDE DEF s
<1>2. f \in [0..n -> Int] /\ f[0] = 0 /\ \A k \in 1..n : f[k] = f[k - 1] + s[k]
    BY <1>1, SumsAreSums
<1> HIDE DEF f
<1> DEFINE Q == {k \in Nat : k + 1 \in 1..n => f[k + 1] = total}
<1>3. 0 \in Q
    <2>1. 0 + 1 \in 1..n /\ s[1] = total /\ (0 + 1) - 1 = 0
        BY <1>1
    <2> QED BY <1>2, <2>1
<1>4. ASSUME NEW k \in Nat, k \in Q PROVE k + 1 \in Q
    <2> SUFFICES ASSUME (k + 1) + 1 \in 1..n PROVE f[(k + 1) + 1] = total
        OBVIOUS
    <2>1. k + 1 \in 1..n /\ ((k + 1) + 1) - 1 = k + 1 /\ (k + 1) + 1 # 1
        OBVIOUS
    <2>2. f[k + 1] = total
        BY <1>4, <2>1
    <2>3. s[(k + 1) + 1] = 0
        BY <1>1, <2>1
    <2>4. f[(k + 1) + 1] = f[k + 1] + s[(k + 1) + 1]
        BY <1>2, <2>1
    <2> QED BY <2>2, <2>3, <2>4
<1>5. Nat \subseteq Q
    <2> HIDE DEF Q
    <2> QED BY <1>3, <1>4, SetInduction
<1>6. f[n] = total
    <2>1. n - 1 \in Nat /\ (n - 1) + 1 = n /\ n \in 1..n
        OBVIOUS
    <2> QED BY <1>5, <2>1
<1> QED BY <1>1, <1>6 DEF SumOf, f, s

\* What a split that is not refused was called with, and what it returns.
LEMMA SplitTakes ==
    ASSUME NEW total \in Int \cup {NaN}, NEW weights \in Seq(Int \cup {NaN}),
           NEW result, result = SplitMinorUnits(total, weights), result.kind = "value"
    PROVE  /\ weights \in Seq(Nat) /\ Len(weights) \in Nat \ {0}
           /\ total \in Nat /\ total <= MaxSafe /\ IsInteger(total)
           /\ result.value = IF Total(weights) = 0
                             THEN [i \in 1..Len(weights) |-> IF i = 1 THEN total ELSE 0]
                             ELSE Distribute(total, Dues(total, weights))
<1>1. /\ IsMinorUnits(total) /\ ~(total < 0) /\ weights # <<>>
      /\ ~\E i \in DOMAIN weights : weights[i] = NaN \/ weights[i] < 0
      /\ result = IF Total(weights) = 0
                  THEN Value([i \in DOMAIN weights |-> IF i = 1 THEN total ELSE 0])
                  ELSE Value(Distribute(total, Dues(total, weights)))
    BY DEF SplitMinorUnits, MoneyError
<1>2. total \in Nat /\ total <= MaxSafe /\ IsInteger(total)
    BY <1>1 DEF IsMinorUnits
<1>3. DOMAIN weights = 1..Len(weights) /\ Len(weights) \in Nat \ {0}
    BY <1>1
<1>4. \A i \in 1..Len(weights) : weights[i] \in Nat
    BY <1>1, <1>3
<1>5. weights \in Seq(Nat)
    BY <1>3, <1>4
<1>6. result.value = IF Total(weights) = 0
                     THEN [i \in 1..Len(weights) |-> IF i = 1 THEN total ELSE 0]
                     ELSE Distribute(total, Dues(total, weights))
    BY <1>1, <1>3 DEF Value
<1> QED BY <1>2, <1>3, <1>5, <1>6

\* The parts of a total of T units, over weights of which not all are nothing.
LEMMA PartsOfUnits ==
    ASSUME NEW T \in Nat, T < Power[Bits], NEW weights \in Seq(Nat), Whole(weights),
           SafeProducts(T, InUnits(weights)), SumOf(InUnits(weights)) \in Nat \ {0}
    PROVE  LET F == Cuts(T, InUnits(weights))
               dues == Dues(T * One, weights)
               parts == Distribute(T * One, dues)
           IN  /\ SumOf(parts) = T * One
               /\ MoreFor(First(dues, T - SumOf(F)), F, parts)
<1> DEFINE W == InUnits(weights)
           F == Cuts(T, W)
           dues == Dues(T * One, weights)
<1>1. /\ F \in Seq(Nat) /\ Len(F) = Len(weights) /\ DOMAIN dues = 1..Len(F)
      /\ FloorsAre(dues, F)
      /\ SumOf(F) \in Nat /\ T - SumOf(F) \in 0..Len(F)
    BY SharesAreCut
<1> HIDE DEF F, dues
<1>2. LET parts == Distribute(T * One, dues)
      IN  MoreFor(First(dues, T - SumOf(F)), F, parts) /\ SumOf(parts) = T * One
    BY <1>1, PartsMakeUp
<1> QED BY <1>2 DEF F, dues

\* A split that is not refused conserves its total, while the products are safe.
LEMMA SplitsConserve ==
    ASSUME NEW total \in Int \cup {NaN}, NEW weights \in Seq(Int \cup {NaN}),
           NEW result, result = SplitMinorUnits(total, weights), result.kind = "value",
           Whole(weights), \A i \in DOMAIN weights : total * (weights[i] \div One) <= MaxSafe
    PROVE  SumOf(result.value) = total
<1> USE Grid
<1> DEFINE W == InUnits(weights)
           S == SumOf(W)
<1>1. /\ weights \in Seq(Nat) /\ Len(weights) \in Nat \ {0}
      /\ total \in Nat /\ total <= MaxSafe /\ IsInteger(total)
      /\ result.value = IF Total(weights) = 0
                        THEN [i \in 1..Len(weights) |-> IF i = 1 THEN total ELSE 0]
                        ELSE Distribute(total, Dues(total, weights))
    BY SplitTakes
<1>2. PICK T \in Nat : total = T * One
    BY <1>1, Wholes
<1>3. Power[Bits] \in Nat \ {0} /\ MaxSafe = (Power[Bits] - 1) * One
    BY Widths
<1>4. T < Power[Bits]
    <2>1. Power[Bits] - 1 \in Int /\ T * One <= (Power[Bits] - 1) * One
        BY <1>1, <1>2, <1>3
    <2> QED BY <1>3, <2>1, TimesKeepsOrder
<1>5. \A i \in DOMAIN weights : IsInteger(weights[i])
    BY DEF Whole
<1>6. /\ W \in Seq(Nat) /\ Len(W) = Len(weights) /\ S \in Nat /\ Total(weights) \in Nat
      /\ \A i \in 1..Len(weights) : W[i] \in Nat /\ W[i] = weights[i] \div One
      /\ S < Power[Bits] => Total(weights) = S * One
      /\ S >= Power[Bits] => Total(weights) >= Power[Bits] * One
    <2>1. \A i \in 1..Len(weights) : W[i] = weights[i] \div One
        BY <1>1 DEF InUnits
    <2> QED BY <1>1, <1>5, <2>1, TotalOfWholes
<1> HIDE DEF W, S
<1>7. CASE S = 0
    <2>1. Total(weights) = 0
        BY <1>3, <1>6, <1>7
    <2>2. SumOf([i \in 1..Len(weights) |-> IF i = 1 THEN total ELSE 0]) = total
        <3>1. total \in Int
            BY <1>1
        <3> QED BY <1>1, <3>1, FirstHasAll
    <2> QED BY <1>1, <2>1, <2>2
<1>8. CASE S # 0
    <2>1. Total(weights) # 0
        <3>1. CASE S < Power[Bits]
            BY <1>6, <1>8, <3>1
        <3>2. CASE S >= Power[Bits]
            <4>1. Power[Bits] * One \in Nat \ {0}
                BY <1>3, TimesKeepsOrder
            <4> QED BY <1>6, <3>2, <4>1
        <3> QED BY <1>3, <1>6, <3>1, <3>2
    <2>2. ASSUME NEW i \in 1..Len(W) PROVE W[i] \in Nat /\ T * W[i] \in Nat /\ T * W[i] < Power[Bits]
        <3> DEFINE w == W[i]
        <3>1. w \in Nat /\ w = weights[i] \div One /\ i \in DOMAIN weights
            BY <1>1, <1>6
        <3>2. (T * One) * w <= MaxSafe
            BY <1>2, <3>1
        <3> HIDE DEF w
        <3>3. (T * w) * One <= (Power[Bits] - 1) * One /\ T * w \in Nat /\ Power[Bits] - 1 \in Int
            <4>1. (T * One) * w = (T * w) * One /\ T * w \in Nat
                BY <3>1
            <4>2. (T * w) * One <= MaxSafe
                BY <3>2, <4>1
            <4> QED BY <1>3, <4>1, <4>2
        <3>4. T * w <= Power[Bits] - 1
            <4> DEFINE p == T * w
            <4>1. p \in Int /\ p * One <= (Power[Bits] - 1) * One
                BY <3>3
            <4> HIDE DEF p
            <4> QED BY <3>3, <4>1, TimesKeepsOrder DEF p
        <3> QED BY <1>3, <3>1, <3>3, <3>4 DEF w
    <2>3. SafeProducts(T, W)
        BY <2>2 DEF SafeProducts
    <2>4. SumOf(Distribute(T * One, Dues(T * One, weights))) = T * One
        <3>1. SumOf(InUnits(weights)) \in Nat \ {0} /\ SafeProducts(T, InUnits(weights))
            BY <1>6, <1>8, <2>3 DEF S, W
        <3> QED BY <1>1, <1>4, <3>1, PartsOfUnits
    <2> QED BY <1>1, <1>2, <2>1, <2>4
<1> QED BY <1>7, <1>8

\* The remainder of a division, from any way to write it.
LEMMA RemainderIs ==
    ASSUME NEW d \in Nat \ {0}, NEW k \in Int, NEW m \in 0..(d - 1)
    PROVE  (d * k + m) % d = m
<1> DEFINE n == d * k + m
           q == n \div d
           rest == n % d
<1>1. n \in Int /\ n = d * k + m
    OBVIOUS
<1> HIDE DEF n
<1>2. q \in Int /\ rest \in 0..(d - 1) /\ n = d * q + rest
    BY <1>1, Division
<1> HIDE DEF q, rest
<1>3. d * q \in Int /\ d * k \in Int /\ q * d = d * q /\ k * d = d * k
    BY <1>2
<1>4. q < k => q * d + d <= k * d
    BY <1>2, TimesKeepsOrder
<1>5. k < q => k * d + d <= q * d
    BY <1>2, TimesKeepsOrder
<1>6. q = k
    BY <1>1, <1>2, <1>3, <1>4, <1>5
<1> QED BY <1>1, <1>2, <1>6 DEF rest, n

\* A part against what is due, in exact arithmetic, if b is a unit more than the floor and
\* r is what the floor leaves.
Against(sum, due, part, r, b) ==
    /\ part - due \in (1 - sum)..(sum - 1)
    /\ part > due => b = 1
    /\ part < due => b = 0
    /\ due % sum = r * One

\* What the part is against what is due, whether the unit is given or not.
LEMMA PartAgainstDue ==
    ASSUME NEW p \in Nat, NEW S \in Nat \ {0}, NEW f \in Nat, NEW b \in {0, 1},
           S * f <= p, p < S * (f + 1), b = 1 => p - S * f > 0
    PROVE  Against(S * One, p * One, (f + b) * (S * One), p - S * f, b)
<1> USE Grid
<1> DEFINE sum == S * One
           u == S * f
           r == p - u
<1>1. u \in Nat /\ S * (f + 1) = u + S
    OBVIOUS
<1>2. r \in 0..(S - 1) /\ (b = 1 => r >= 1) /\ p = u + r
    BY <1>1
<1>3. p * One = u * One + r * One /\ u * One \in Int /\ r * One \in Int /\ u * One = sum * f /\ sum \in Nat \ {0}
    <2>1. u * One = sum * f /\ sum \in Nat \ {0}
        BY TimesKeepsOrder
    <2> HIDE DEF u, r, sum
    <2> QED BY <1>1, <1>2, <2>1
<1>4. (f + b) * sum = sum * f + b * sum /\ b * sum = (IF b = 1 THEN sum ELSE 0)
    <2>1. b = 1 \/ b = 0
        OBVIOUS
    <2> HIDE DEF sum
    <2> QED BY <1>3, <2>1
<1> HIDE DEF u, r
<1>5. 0 <= r * One /\ r * One <= sum - One /\ (b = 1 => r * One >= One)
    <2>1. r * One + One <= S * One
        BY <1>2, TimesKeepsOrder
    <2>2. b = 1 => 1 * One <= r * One
        BY <1>2, TimesKeepsOrder
    <2>3. 0 * One <= r * One
        BY <1>2, TimesKeepsOrder
    <2> QED BY <1>3, <2>1, <2>2, <2>3
<1>6. (sum * f + r * One) % sum = r * One
    <2> DEFINE m == r * One
    <2>1. m \in 0..(sum - 1)
        BY <1>3, <1>5
    <2>2. sum \in Nat \ {0} /\ f \in Int
        BY <1>3
    <2> HIDE DEF m, sum
    <2>3. (sum * f + m) % sum = m
        BY <2>1, <2>2, RemainderIs
    <2> QED BY <2>3 DEF m
<1>7. (p * One) % sum = r * One
    BY <1>3, <1>6
<1> DEFINE due == p * One
           part == (f + b) * sum
           bs == b * sum
           ro == r * One
           us == sum * f
<1>8. /\ due = us + ro /\ part = us + bs /\ bs = (IF b = 1 THEN sum ELSE 0)
      /\ us \in Int /\ ro \in Int /\ sum \in Nat \ {0} /\ 0 <= ro /\ ro <= sum - One
      /\ b = 1 => ro >= One
    BY <1>3, <1>4, <1>5
<1> HIDE DEF due, part, bs, ro, us, sum
<1>9. part - due \in (1 - sum)..(sum - 1) /\ (part > due => b = 1) /\ (part < due => b = 0)
    BY <1>8
<1> QED BY <1>7, <1>9 DEF Against, part, due, sum, r, u

\* What every part of a split is, and when a unit more of it than the floor.
FairParts(T, W, S, F, R, parts) ==
    \A i \in 1..Len(W) :
        /\ parts[i] = (F[i] + (IF i \in R THEN 1 ELSE 0)) * One
        /\ i \in R => T * W[i] - S * F[i] > 0
        /\ \A j \in 1..Len(W) : i \in R /\ j \notin R => T * W[j] - S * F[j] <= T * W[i] - S * F[i]

\* Nothing, divided.
LEMMA NothingDivided == ASSUME NEW d \in Nat \ {0} PROVE 0 \div d = 0
<1> DEFINE q == 0 \div d
           rest == 0 % d
<1>1. q \in Nat /\ 0 = d * q + rest /\ rest \in 0..(d - 1)
    <2>1. 0 \in Int
        OBVIOUS
    <2> QED BY <2>1, Division
<1> HIDE DEF q, rest
<1>2. q >= 1 => d * q >= 1
    BY <1>1
<1>3. d * q \in Int
    BY <1>1
<1> QED BY <1>1, <1>2, <1>3 DEF q

\* They are what a split makes of its total, while twice total times sum is safe.
LEMMA PartsAreFair ==
    ASSUME NEW T \in Nat, T < Power[Bits], NEW weights \in Seq(Nat), Whole(weights),
           NEW S, S = SumOf(InUnits(weights)), S \in Nat \ {0}, 2 * (T * S) < Power[Bits]
    PROVE  LET W == InUnits(weights)
               F == Cuts(T, W)
               dues == Dues(T * One, weights)
               R == First(dues, T - SumOf(F))
           IN  /\ W \in Seq(Nat) /\ F \in Seq(Nat) /\ Len(F) = Len(weights)
               /\ CutShares(T, W, S, F)
               /\ FairParts(T, W, S, F, R, Distribute(T * One, dues))
<1> USE Grid
<1> DEFINE n == Len(weights)
           W == InUnits(weights)
           F == Cuts(T, W)
           dues == Dues(T * One, weights)
           L == T - SumOf(F)
           R == First(dues, L)
           parts == Distribute(T * One, dues)
<1>1. /\ n \in Nat /\ W \in Seq(Nat) /\ Len(W) = n
      /\ \A i \in 1..n : W[i] \in Nat /\ W[i] <= S
    <2>1. \A i \in DOMAIN weights : IsInteger(weights[i])
        BY DEF Whole
    <2> QED BY <2>1, TotalOfWholes
<1> HIDE DEF n, W
<1>2. \A i \in 1..n : T * W[i] \in Nat /\ 2 * (T * W[i]) < Power[Bits]
    <2>1. ASSUME NEW i \in 1..n PROVE T * W[i] \in Nat /\ 2 * (T * W[i]) < Power[Bits]
        <3> DEFINE w == W[i]
        <3>1. w \in Nat /\ w <= S
            BY <1>1
        <3> HIDE DEF w
        <3>2. T * w \in Nat /\ T * S \in Nat /\ T * w <= T * S
            <4>1. T = 0 \/ T \in Nat \ {0}
                OBVIOUS
            <4>2. T = 0 => T * w = 0 /\ T * S = 0
                BY <3>1
            <4>3. T \in Nat \ {0} => T * w <= T * S
                BY <3>1, TimesKeepsOrder
            <4> QED BY <3>1, <4>1, <4>2, <4>3
        <3>3. 2 * (T * w) < Power[Bits]
            <4> DEFINE x == T * w
                       y == T * S
            <4>1. x \in Nat /\ y \in Nat /\ x <= y /\ 2 * y < Power[Bits] /\ Power[Bits] \in Nat
                BY <3>2, Widths
            <4> HIDE DEF x, y
            <4>2. 2 * x < Power[Bits]
                BY <4>1
            <4> QED BY <4>2 DEF x
        <3> QED BY <3>2, <3>3 DEF w
    <2> QED BY <2>1
<1>3. SafeProducts(T, W) /\ VerySafe(T, W)
    <2>1. ASSUME NEW i \in 1..n PROVE T * W[i] < Power[Bits]
        <3> DEFINE x == T * W[i]
        <3>1. x \in Nat /\ 2 * x < Power[Bits] /\ Power[Bits] \in Nat
            BY <1>2, Widths
        <3> HIDE DEF x
        <3>2. x < Power[Bits]
            BY <3>1
        <3> QED BY <3>2 DEF x
    <2> QED BY <1>1, <1>2, <2>1 DEF SafeProducts, VerySafe
<1>4. /\ F \in Seq(Nat) /\ Len(F) = n /\ DOMAIN dues = 1..n
      /\ FloorsAre(dues, F)
      /\ SumOf(F) \in Nat /\ L \in 0..n
      /\ S < Power[Bits] => CutShares(T, W, S, F) /\ KeepOrder(T, W, S, F, dues)
    <2>1. SafeProducts(T, InUnits(weights)) /\ SumOf(InUnits(weights)) \in Nat \ {0}
        BY <1>3 DEF W
    <2> QED BY <1>3, <2>1, SharesAreCut DEF n, W
<1>5. MoreFor(R, F, parts)
    <2>1. SafeProducts(T, InUnits(weights)) /\ SumOf(InUnits(weights)) \in Nat \ {0}
        BY <1>3 DEF W
    <2> QED BY <2>1, PartsOfUnits DEF W
<1>6. F = [i \in 1..n |-> IF S < Power[Bits] THEN (T * W[i]) \div S ELSE 0]
    BY <1>1 DEF Cuts, W
<1>7. \A i \in 1..n : i \in R <=> PlaceOf(dues, i) < L
    BY <1>4 DEF First
<1>8. \A i \in 1..n : Fraction(dues[i]) \in Int
    BY <1>4 DEF FloorsAre
<1> HIDE DEF F, dues, L, R, parts
<1>9. \A i \in 1..n : parts[i] = (F[i] + (IF i \in R THEN 1 ELSE 0)) * One
    BY <1>4, <1>5 DEF MoreFor
<1>10. /\ \A i \in 1..n : PlaceOf(dues, i) \in 0..(n - 1)
       /\ \A i, j \in 1..n :
            Fraction(dues[j]) > Fraction(dues[i]) => PlaceOf(dues, j) < PlaceOf(dues, i)
       /\ \A i \in 1..n : \A B \in SUBSET (1..n) :
            (\A j \in B : Fraction(dues[j]) > Fraction(dues[i]))
              => Cardinality(B) <= PlaceOf(dues, i)
    BY <1>1, <1>4, <1>8, Places
<1>11. CASE T = 0
    <2>1. ASSUME NEW i \in 1..n PROVE F[i] = 0 /\ W[i] \in Nat
        <3>1. W[i] \in Nat /\ T * W[i] = 0
            BY <1>1, <1>11
        <3>2. F[i] = 0
            <4>1. 0 \div S = 0
                BY NothingDivided
            <4> QED BY <1>6, <3>1, <4>1
        <3> QED BY <3>1, <3>2
    <2>2. L = 0
        BY <1>4, <1>11 DEF L
    <2>3. \A i \in 1..n : i \notin R
        BY <1>7, <1>10, <2>2
    <2>4. CutShares(T, W, S, F)
        <3>1. ASSUME NEW i \in 1..n PROVE S * F[i] <= T * W[i] /\ T * W[i] < S * (F[i] + 1)
            <4>1. S * 0 = 0 /\ S * (0 + 1) = S /\ 0 * W[i] = 0 /\ 0 < S
                BY <2>1
            <4> QED BY <1>11, <2>1, <4>1
        <3> QED BY <1>1, <3>1 DEF CutShares
    <2>5. FairParts(T, W, S, F, R, parts)
        BY <1>1, <1>9, <2>3 DEF FairParts
    <2> QED BY <1>1, <1>4, <2>4, <2>5 DEF n, W, F, dues, L, R, parts
<1>12. CASE T # 0
    <2>1. S < Power[Bits]
        <3> DEFINE x == T * S
        <3>1. 1 * S <= x /\ x \in Int
            BY <1>12, TimesKeepsOrder
        <3>2. 2 * x < Power[Bits] /\ Power[Bits] \in Nat
            BY Widths
        <3> HIDE DEF x
        <3> QED BY <3>1, <3>2
    <2>2. CutShares(T, W, S, F) /\ KeepOrder(T, W, S, F, dues)
        BY <1>4, <2>1
    <2> DEFINE B == Shortened(T, W, S, F)
               r == [i \in 1..n |-> T * W[i] - S * F[i]]
    <2>3. L = 0 \/ L < Cardinality(B)
        <3>1. W \in Seq(Nat) /\ F \in Seq(Nat) /\ Len(F) = Len(W) /\ S = SumOf(W)
            BY <1>1, <1>4 DEF W
        <3> QED BY <2>2, <3>1, FewAreLeft DEF L
    <2>4. B \in SUBSET (1..n) /\ \A i \in B : S * F[i] < T * W[i]
        BY <1>1 DEF Shortened
    <2>5. ASSUME NEW i \in 1..n PROVE r[i] \in Nat /\ (i \in B <=> r[i] > 0)
        <3> DEFINE a == T * W[i]
                   b == S * F[i]
        <3>1. a \in Int
            BY <1>2
        <3>2. b \in Int
            <4>1. F[i] \in Int
                BY <1>4
            <4> QED BY <4>1
        <3>3. b <= a
            BY <1>1, <2>2 DEF CutShares
        <3>4. i \in B <=> b < a
            BY <1>1 DEF Shortened
        <3>5. r[i] = a - b
            OBVIOUS
        <3> HIDE DEF a, b, r, B
        <3> QED BY <3>1, <3>2, <3>3, <3>4, <3>5
    <2>6. \A i, j \in 1..n : r[i] < r[j] => Fraction(dues[j]) > Fraction(dues[i])
        <3>1. \A i, j \in 1..n : r[i] < r[j] => Fraction(dues[i]) < Fraction(dues[j])
            BY <1>1, <2>2 DEF KeepOrder
        <3> HIDE DEF r
        <3> QED BY <1>8, <3>1
    <2>7. \A i \in 1..n : r[i] = T * W[i] - S * F[i]
        OBVIOUS
    <2> HIDE DEF B, r
    <2>8. ASSUME NEW i \in 1..n, i \in R PROVE r[i] > 0
        <3> SUFFICES ASSUME r[i] = 0 PROVE FALSE
            BY <2>5
        <3>1. \A j \in B : Fraction(dues[j]) > Fraction(dues[i])
            BY <2>4, <2>5, <2>6
        <3>2. Cardinality(B) <= PlaceOf(dues, i)
            BY <1>10, <2>4, <3>1
        <3>3. PlaceOf(dues, i) < L /\ PlaceOf(dues, i) \in Nat /\ L \in Nat
            BY <1>4, <1>7, <1>10, <2>8
        <3>4. Cardinality(B) \in Nat
            BY <1>1, <2>4, CountUp
        <3> QED BY <2>3, <3>2, <3>3, <3>4
    <2>9. ASSUME NEW i \in 1..n, NEW j \in 1..n, i \in R, j \notin R PROVE r[j] <= r[i]
        <3> SUFFICES ASSUME r[i] < r[j] PROVE FALSE
            BY <2>5
        <3>1. PlaceOf(dues, j) < PlaceOf(dues, i)
            BY <1>10, <2>6
        <3>2. PlaceOf(dues, i) < L /\ ~(PlaceOf(dues, j) < L)
            BY <1>7, <2>9
        <3>3. PlaceOf(dues, i) \in Int /\ PlaceOf(dues, j) \in Int /\ L \in Int
            BY <1>4, <1>10
        <3> QED BY <3>1, <3>2, <3>3
    <2>10. FairParts(T, W, S, F, R, parts)
        BY <1>1, <1>9, <2>7, <2>8, <2>9 DEF FairParts
    <2> QED BY <1>1, <1>4, <2>2, <2>10 DEF n, W, F, dues, L, R, parts
<1> QED BY <1>11, <1>12

\* A split that is not refused is fair, while twice the total times the sum is safe.
LEMMA SplitsAreFair ==
    ASSUME NEW total \in Int \cup {NaN}, NEW weights \in Seq(Int \cup {NaN}),
           NEW result, result = SplitMinorUnits(total, weights), result.kind = "value",
           Whole(weights), SumOf(weights) > 0,
           2 * (total \div One) * SumOf(weights) <= MaxSafe
    PROVE  LET T == total \div One
               sum == SumOf(weights)
               Due(i) == T * weights[i]
               Part(i) == (result.value[i] \div One) * sum
           IN  \A i \in DOMAIN weights :
                 /\ Part(i) - Due(i) \in (1 - sum)..(sum - 1)
                 /\ \A j \in DOMAIN weights :
                       Part(i) > Due(i) /\ Part(j) < Due(j) => Due(i) % sum >= Due(j) % sum
<1> USE Grid
<1> DEFINE n == Len(weights)
           W == InUnits(weights)
           S == SumOf(W)
           sum == SumOf(weights)
           parts == result.value
<1>1. /\ weights \in Seq(Nat) /\ n \in Nat \ {0} /\ DOMAIN weights = 1..n
      /\ total \in Nat /\ total <= MaxSafe /\ IsInteger(total)
      /\ parts = IF Total(weights) = 0
                 THEN [i \in 1..n |-> IF i = 1 THEN total ELSE 0]
                 ELSE Distribute(total, Dues(total, weights))
    <2>1. /\ weights \in Seq(Nat) /\ n \in Nat \ {0}
          /\ total \in Nat /\ total <= MaxSafe /\ IsInteger(total)
          /\ parts = IF Total(weights) = 0
                     THEN [i \in 1..n |-> IF i = 1 THEN total ELSE 0]
                     ELSE Distribute(total, Dues(total, weights))
        BY SplitTakes
    <2>2. DOMAIN weights = 1..n
        BY <2>1
    <2> HIDE DEF n, parts
    <2> QED BY <2>1, <2>2
<1> DEFINE T == total \div One
<1>2. T \in Nat /\ total = T * One
    <2>1. total \in Nat /\ total % One = 0
        BY <1>1 DEF IsInteger
    <2> QED BY <2>1, Z3
<1>3. Power[Bits] \in Nat \ {0} /\ MaxSafe = (Power[Bits] - 1) * One
    BY Widths
<1> HIDE DEF T
<1>4. T < Power[Bits]
    <2>1. Power[Bits] - 1 \in Int /\ T * One <= (Power[Bits] - 1) * One
        BY <1>1, <1>2, <1>3
    <2> QED BY <1>2, <1>3, <2>1, TimesKeepsOrder
<1>5. /\ W \in Seq(Nat) /\ Len(W) = n /\ S \in Nat /\ Total(weights) \in Nat
      /\ \A i \in 1..n : W[i] \in Nat /\ weights[i] = W[i] * One
      /\ sum = S * One
      /\ S < Power[Bits] => Total(weights) = S * One
      /\ S >= Power[Bits] => Total(weights) >= Power[Bits] * One
    <2>1. \A i \in DOMAIN weights : IsInteger(weights[i])
        BY DEF Whole
    <2> QED BY <1>1, <2>1, TotalOfWholes
<1>6. sum > 0 /\ 2 * T * sum <= MaxSafe
    BY DEF T
<1> HIDE DEF n, W, S, sum, parts
<1>7. S \in Nat \ {0}
    BY <1>5, <1>6
<1>8. 2 * (T * S) < Power[Bits]
    <2> DEFINE x == 2 * (T * S)
    <2>1. x \in Int /\ 2 * T * sum = x * One
        BY <1>2, <1>5
    <2> HIDE DEF x
    <2>2. x * One <= (Power[Bits] - 1) * One /\ Power[Bits] - 1 \in Int
        BY <1>3, <1>6, <2>1
    <2>3. x <= Power[Bits] - 1
        BY <2>1, <2>2, TimesKeepsOrder
    <2> QED BY <1>3, <2>1, <2>3 DEF x
<1>9. parts = Distribute(T * One, Dues(T * One, weights))
    <2>1. Power[Bits] * One \in Nat \ {0} /\ S * One \in Nat \ {0}
        BY <1>3, <1>7, TimesKeepsOrder
    <2>2. Total(weights) # 0
        BY <1>3, <1>5, <2>1
    <2> QED BY <1>1, <1>2, <2>2
<1> DEFINE F == Cuts(T, W)
           R == First(Dues(T * One, weights), T - SumOf(F))
<1>10. /\ F \in Seq(Nat) /\ Len(F) = n /\ CutShares(T, W, S, F)
       /\ FairParts(T, W, S, F, R, parts)
    <2>1. S = SumOf(InUnits(weights))
        BY DEF S, W
    <2> QED BY <1>1, <1>2, <1>4, <1>7, <1>8, <1>9, <2>1, PartsAreFair DEF n, W
<1> HIDE DEF F, R
<1> DEFINE b(i) == IF i \in R THEN 1 ELSE 0
           r(i) == T * W[i] - S * F[i]
           due(i) == T * weights[i]
           part(i) == (parts[i] \div One) * sum
<1>11. ASSUME NEW i \in 1..n
       PROVE  /\ part(i) - due(i) \in (1 - sum)..(sum - 1)
              /\ part(i) > due(i) => b(i) = 1
              /\ part(i) < due(i) => b(i) = 0
              /\ due(i) % sum = r(i) * One
    <2> DEFINE p == T * W[i]
               f == F[i]
               bi == b(i)
    <2>1. p \in Nat
        <3>1. W[i] \in Nat
            BY <1>5
        <3> QED BY <1>2, <3>1
    <2>2. f \in Nat
        BY <1>10
    <2>3. bi \in {0, 1}
        OBVIOUS
    <2>4. S * f <= p /\ p < S * (f + 1)
        BY <1>5, <1>10 DEF CutShares
    <2>5. bi = 1 => p - S * f > 0
        BY <1>5, <1>10 DEF FairParts
    <2>6. due(i) = p * One
        <3> DEFINE w == W[i]
        <3>1. w \in Nat /\ weights[i] = w * One
            BY <1>5
        <3> HIDE DEF w
        <3>2. T * (w * One) = (T * w) * One
            BY <1>2, <3>1
        <3> QED BY <3>1, <3>2 DEF w
    <2>7. part(i) = (f + bi) * sum
        <3>1. parts[i] = (f + bi) * One
            BY <1>5, <1>10 DEF FairParts
        <3> DEFINE k == f + bi
        <3>2. k \in Nat
            BY <2>2, <2>3
        <3> HIDE DEF k, bi
        <3>3. (k * One) \div One = k
            BY <3>2, Z3
        <3>4. parts[i] = k * One
            BY <3>1 DEF k
        <3> QED BY <3>3, <3>4 DEF k
    <2>8. r(i) = p - S * f
        OBVIOUS
    <2> HIDE DEF p, f, bi, due, part, r
    <2>9. Against(S * One, p * One, (f + bi) * (S * One), p - S * f, bi)
        BY <1>7, <2>1, <2>2, <2>3, <2>4, <2>5, PartAgainstDue
    <2>10. bi = b(i)
        BY DEF bi
    <2>11. sum = S * One
        BY <1>5
    <2> HIDE DEF b
    <2>12. /\ part(i) - due(i) \in (1 - sum)..(sum - 1)
           /\ part(i) > due(i) => bi = 1
           /\ part(i) < due(i) => bi = 0
        BY <2>6, <2>7, <2>9, <2>11 DEF Against
    <2>13. due(i) % sum = r(i) * One
        BY <2>6, <2>8, <2>9, <2>11 DEF Against
    <2> QED BY <2>10, <2>12, <2>13
<1>12. ASSUME NEW i \in 1..n, NEW j \in 1..n, b(i) = 1, b(j) = 0
       PROVE  r(j) * One <= r(i) * One
    <2>1. r(j) <= r(i)
        BY <1>5, <1>10, <1>12 DEF FairParts
    <2>2. \A k \in 1..n : r(k) \in Int
        <3>1. ASSUME NEW k \in 1..n PROVE r(k) \in Int
            <4>1. W[k] \in Int
                BY <1>5
            <4>2. F[k] \in Int
                BY <1>10
            <4>3. T * W[k] \in Int
                BY <1>2, <4>1
            <4>4. S * F[k] \in Int
                BY <1>7, <4>2
            <4> QED BY <4>3, <4>4
        <3> HIDE DEF r
        <3> QED BY <3>1
    <2> HIDE DEF r
    <2>3. r(i) \in Int /\ r(j) \in Int
        BY <2>2
    <2> QED BY <2>1, <2>3, TimesKeepsOrder
<1> HIDE DEF b, r, due, part
<1>13. ASSUME NEW i \in 1..n, NEW j \in 1..n, part(i) > due(i), part(j) < due(j)
       PROVE  due(i) % sum >= due(j) % sum
    <2>1. b(i) = 1 /\ b(j) = 0
        BY <1>11, <1>13
    <2>2. r(j) * One <= r(i) * One
        BY <1>12, <2>1
    <2>3. due(i) % sum = r(i) * One /\ due(j) % sum = r(j) * One
        BY <1>11
    <2> QED BY <2>2, <2>3
<1>14. \A i \in DOMAIN weights :
         /\ part(i) - due(i) \in (1 - sum)..(sum - 1)
         /\ \A j \in DOMAIN weights :
               part(i) > due(i) /\ part(j) < due(j) => due(i) % sum >= due(j) % sum
    BY <1>1, <1>11, <1>13
<1> QED BY <1>14 DEF part, due, parts, sum, T

-----------------------------------------------------------------------------
(* The split of little, over any weights: how far each rounding is off.    *)

\* What rounding to the nearest costs: half a unit of the grid, or its part of the whole.
LEMMA RoundingCosts ==
    ASSUME NEW n \in Nat, NEW d \in Nat \ {0}
    PROVE  LET x == NearestNat(n, d)
               P == Power[Bits]
           IN  /\ x \in Nat
               /\ 2 * (d * x - n) <= d \/ P * (d * x - n) <= n
               /\ 2 * (n - d * x) <= d \/ P * (n - d * x) <= n
<1> USE NumbersAssumption
<1> DEFINE step == Step(n, d)
           m == Steps(n, d)
           P == Power[Bits]
           x == NearestNat(n, d)
<1>1. /\ step \in Nat \ {0} /\ m \in Nat
      /\ x = step * m
      /\ 2 * (n - (d * step) * m) <= d * step
      /\ 2 * ((d * step) * m - n) <= d * step
      /\ step = 1 \/ 2 * n >= d * (P * step)
    BY RoundsToNearest
<1>2. P \in Nat \ {0}
    BY PowerStep
<1>3. x \in Nat
    BY NearestIsNat
<1> HIDE DEF step, m, P, x
<1>4. d * x = (d * step) * m /\ d * x \in Int /\ d * step \in Int
    BY <1>1
<1>5. step = 1 => /\ 2 * (d * x - n) <= d
                  /\ 2 * (n - d * x) <= d
    BY <1>1, <1>3, <1>4
<1>6. ASSUME 2 * n >= d * (P * step)
      PROVE  P * (d * x - n) <= n /\ P * (n - d * x) <= n
    <2>1. d * (P * step) = P * (d * step) /\ P * (d * step) \in Int
        BY <1>1, <1>2
    <2>2. ASSUME NEW e \in Int, 2 * e <= d * step PROVE P * e <= n
        <3>1. 2 * e \in Int /\ P * (2 * e) <= P * (d * step)
            BY <1>2, <1>4, <2>2, TimesKeepsOrder
        <3>2. P * (2 * e) = 2 * (P * e) /\ P * e \in Int
            BY <1>2
        <3> QED BY <1>6, <2>1, <3>1, <3>2
    <2>3. /\ d * x - n \in Int /\ 2 * (d * x - n) <= d * step
          /\ n - d * x \in Int /\ 2 * (n - d * x) <= d * step
        BY <1>1, <1>4
    <2> QED BY <2>2, <2>3
<1> QED BY <1>1, <1>3, <1>5, <1>6 DEF P, x

\* A sum of two is off by its part at most.
LEMMA PlusCosts ==
    ASSUME NEW x \in Nat, NEW y \in Nat
    PROVE  LET P == Power[Bits]
           IN  /\ Plus(x, y) \in Nat
               /\ P * Plus(x, y) <= (P + 1) * (x + y)
               /\ P * Plus(x, y) >= (P - 1) * (x + y)
<1> DEFINE P == Power[Bits]
           n == x + y
           z == NearestNat(n, 1)
<1>1. n \in Nat /\ Plus(x, y) = z /\ 1 \in Nat \ {0}
    BY DEF Plus, Nearest
<1>2. P \in Nat \ {0}
    BY PowerStep, NumbersAssumption
<1>3. /\ z \in Nat
      /\ 2 * (1 * z - n) <= 1 \/ P * (1 * z - n) <= n
      /\ 2 * (n - 1 * z) <= 1 \/ P * (n - 1 * z) <= n
    BY <1>1, RoundingCosts
<1> HIDE DEF n, z, P
<1>4. z <= n \/ P * (z - n) <= n
    BY <1>1, <1>3
<1>5. n <= z \/ P * (n - z) <= n
    BY <1>1, <1>3
<1>6. P * (z - n) = P * z - P * n /\ P * (n - z) = P * n - P * z
      /\ (P + 1) * n = P * n + n /\ (P - 1) * n = P * n - n
      /\ P * n \in Int /\ P * z \in Int
    BY <1>1, <1>2, <1>3
<1>7. (z <= n => P * z <= P * n) /\ (n <= z => P * n <= P * z)
    BY <1>1, <1>2, <1>3
<1>8. P * z <= (P + 1) * n /\ P * z >= (P - 1) * n
    BY <1>1, <1>3, <1>4, <1>5, <1>6, <1>7
<1> QED BY <1>1, <1>3, <1>8 DEF P, n

\* A whole number of units times a weight is off by its part at most.
LEMMA TimesCosts ==
    ASSUME NEW T \in Nat, NEW w \in Nat
    PROVE  LET P == Power[Bits]
               p == Times(T * One, w)
           IN  /\ p \in Nat
               /\ P * p <= (P + 1) * (T * w)
               /\ P * p >= (P - 1) * (T * w)
<1> USE Grid
<1> DEFINE P == Power[Bits]
           q == T * w
           n == (T * One) * w
           p == NearestNat(n, One)
<1>1. n \in Nat /\ n = One * q /\ q \in Nat /\ Times(T * One, w) = p
    BY DEF Times, Nearest
<1>2. P \in Nat \ {0}
    BY PowerStep, NumbersAssumption
<1>3. /\ p \in Nat
      /\ 2 * (One * p - n) <= One \/ P * (One * p - n) <= n
      /\ 2 * (n - One * p) <= One \/ P * (n - One * p) <= n
    BY <1>1, RoundingCosts
<1> HIDE DEF n, p, P, q
<1>4. /\ 2 * (One * p - n) = One * (2 * (p - q)) /\ P * (One * p - n) = One * (P * (p - q))
      /\ 2 * (n - One * p) = One * (2 * (q - p)) /\ P * (n - One * p) = One * (P * (q - p))
      /\ One = One * 1
      /\ P * (p - q) \in Int /\ P * (q - p) \in Int /\ 2 * (p - q) \in Int /\ 2 * (q - p) \in Int
    BY <1>1, <1>2, <1>3
<1>5. ASSUME NEW a \in Int, NEW b \in Int, One * a <= One * b PROVE a <= b
    BY <1>5, TimesKeepsOrder
<1>6. 2 * (p - q) <= 1 \/ P * (p - q) <= q
    BY <1>1, <1>3, <1>4, <1>5
<1>7. 2 * (q - p) <= 1 \/ P * (q - p) <= q
    BY <1>1, <1>3, <1>4, <1>5
<1>8. p <= q \/ P * (p - q) <= q
    BY <1>1, <1>3, <1>6
<1>9. q <= p \/ P * (q - p) <= q
    BY <1>1, <1>3, <1>7
<1>10. P * (p - q) = P * p - P * q /\ P * (q - p) = P * q - P * p
       /\ (P + 1) * q = P * q + q /\ (P - 1) * q = P * q - q
       /\ P * q \in Int /\ P * p \in Int
    BY <1>1, <1>2, <1>3
<1>11. (p <= q => P * p <= P * q) /\ (q <= p => P * q <= P * p)
    BY <1>1, <1>2, <1>3
<1>12. P * p <= (P + 1) * q /\ P * p >= (P - 1) * q
    BY <1>1, <1>3, <1>8, <1>9, <1>10, <1>11
<1> QED BY <1>1, <1>3, <1>12 DEF P, q

\* A quotient is off by its part, or half a unit of the grid.
LEMMA OverCosts ==
    ASSUME NEW p \in Nat, NEW s \in Nat \ {0}
    PROVE  LET P == Power[Bits]
               x == Over(p, s)
           IN  /\ x \in Nat
               /\ (2 * P) * (s * x) <= (2 * (P + 1)) * (p * One) + P * s
               /\ (2 * P) * (s * x) >= (2 * (P - 1)) * (p * One) - P * s
<1> USE Grid
<1> DEFINE P == Power[Bits]
           n == p * One
           x == NearestNat(n, s)
           v == s * x
<1>1. n \in Nat /\ Over(p, s) = x
    BY DEF Over, Nearest
<1>2. P \in Nat \ {0}
    BY PowerStep, NumbersAssumption
<1>3. /\ x \in Nat
      /\ 2 * (v - n) <= s \/ P * (v - n) <= n
      /\ 2 * (n - v) <= s \/ P * (n - v) <= n
    BY <1>1, RoundingCosts
<1>4. v \in Nat
    BY <1>3
<1> HIDE DEF n, x, P, v
<1>5. /\ (2 * P) * v = 2 * (P * v) /\ (2 * (P + 1)) * n = 2 * (P * n) + 2 * n
      /\ (2 * (P - 1)) * n = 2 * (P * n) - 2 * n
      /\ P * (v - n) = P * v - P * n /\ P * (n - v) = P * n - P * v
      /\ P * (2 * (v - n)) = 2 * (P * v) - 2 * (P * n)
      /\ P * (2 * (n - v)) = 2 * (P * n) - 2 * (P * v)
      /\ P * v \in Nat /\ P * n \in Nat /\ P * s \in Nat
    BY <1>1, <1>2, <1>4
<1>6. 2 * (v - n) <= s => P * (2 * (v - n)) <= P * s
    BY <1>1, <1>2, <1>4, TimesKeepsOrder
<1>7. 2 * (n - v) <= s => P * (2 * (n - v)) <= P * s
    BY <1>1, <1>2, <1>4, TimesKeepsOrder
<1>8. /\ (2 * P) * v <= (2 * (P + 1)) * n + P * s
      /\ (2 * P) * v >= (2 * (P - 1)) * n - P * s
    BY <1>1, <1>3, <1>5, <1>6, <1>7
<1> QED BY <1>1, <1>3, <1>8 DEF P, n, v

\* What holds of every term holds of the sum, with the slack once for each.
LEMMA SumsKeepBounds ==
    ASSUME NEW s \in Seq(Int), NEW t \in Seq(Int), Len(s) = Len(t),
           NEW a \in Int, NEW b \in Int, NEW c \in Int,
           \A i \in 1..Len(s) : a * s[i] <= b * t[i] + c
    PROVE  /\ SumOf(s) \in Int /\ SumOf(t) \in Int
           /\ a * SumOf(s) <= b * SumOf(t) + c * Len(s)
<1> DEFINE n == Len(s)
           f == Sums(s)
           g == Sums(t)
<1>1. n \in Nat /\ Len(t) = n /\ \A i \in 1..n : s[i] \in Int /\ t[i] \in Int
    OBVIOUS
<1>2. /\ f \in [0..n -> Int] /\ f[0] = 0 /\ \A k \in 1..n : f[k] = f[k - 1] + s[k]
      /\ g \in [0..n -> Int] /\ g[0] = 0 /\ \A k \in 1..n : g[k] = g[k - 1] + t[k]
    BY SumsAreSums
<1>3. SumOf(s) = f[n] /\ SumOf(t) = g[n]
    BY DEF SumOf
<1>4. \A i \in 1..n : a * s[i] <= b * t[i] + c
    OBVIOUS
<1> HIDE DEF n, f, g
<1> DEFINE Q == {k \in Nat : k \in 0..n => a * f[k] <= b * g[k] + c * k}
<1>5. 0 \in Q
    BY <1>1, <1>2
<1>6. ASSUME NEW k \in Nat, k \in Q PROVE k + 1 \in Q
    <2> SUFFICES ASSUME k + 1 \in 0..n
                 PROVE  a * f[k + 1] <= b * g[k + 1] + c * (k + 1)
        OBVIOUS
    <2>1. k \in 0..n /\ k + 1 \in 1..n /\ (k + 1) - 1 = k
        BY <1>1
    <2> DEFINE x == f[k]
               y == g[k]
               u == s[k + 1]
               v == t[k + 1]
    <2>2. /\ f[k + 1] = x + u /\ g[k + 1] = y + v
          /\ a * x <= b * y + c * k /\ a * u <= b * v + c
          /\ x \in Int /\ y \in Int /\ u \in Int /\ v \in Int
        BY <1>1, <1>2, <1>4, <1>6, <2>1
    <2> HIDE DEF x, y, u, v
    <2>3. /\ a * (x + u) = a * x + a * u /\ b * (y + v) = b * y + b * v /\ c * (k + 1) = c * k + c
          /\ a * x \in Int /\ a * u \in Int /\ b * y \in Int /\ b * v \in Int /\ c * k \in Int
        BY <2>2
    <2> QED BY <2>2, <2>3
<1>7. Nat \subseteq Q
    <2> HIDE DEF Q
    <2> QED BY <1>5, <1>6, SetInduction
<1>8. n \in 0..n
    BY <1>1
<1>9. a * f[n] <= b * g[n] + c * n
    BY <1>1, <1>7, <1>8
<1> QED BY <1>1, <1>2, <1>3, <1>8, <1>9 DEF n

\* x is off from y by what k additions cost.
NearSum(k, x, y) ==
    /\ x \in Nat /\ y \in Nat
    /\ Power[Bits] * x <= (Power[Bits] + 2 * k) * y
    /\ Power[Bits] * x >= (Power[Bits] - k) * y

\* One more term: what the sum so far is off by, and what adding the term costs.
LEMMA TotalCosts ==
    ASSUME NEW k \in Nat, 2 * (k + 1) <= Power[Bits],
           NEW x, NEW y, NEW w \in Nat, NearSum(k, x, y)
    PROVE  NearSum(k + 1, Plus(x, w), y + w)
<1> DEFINE P == Power[Bits]
           A == y + w
           z == Plus(x, w)
<1>0. /\ P \in Nat \ {0} /\ 2 * (k + 1) <= P
      /\ x \in Nat /\ y \in Nat /\ z \in Nat
      /\ P * x <= (P + 2 * k) * y /\ P * x >= (P - k) * y
      /\ P * z <= (P + 1) * (x + w) /\ P * z >= (P - 1) * (x + w)
    BY PowerStep, NumbersAssumption, PlusCosts DEF NearSum
<1> HIDE DEF P, z
<1> USE <1>0
<1>1. A \in Nat /\ P - k \in Nat /\ P - 1 \in Nat
    OBVIOUS
<1>2. P * (x + w) <= (P + 2 * k) * A
    <2>1. P * (x + w) = P * x + P * w /\ (P + 2 * k) * A = (P + 2 * k) * y + (P + 2 * k) * w
          /\ (P + 2 * k) * w = P * w + 2 * (k * w) /\ k * w \in Nat
          /\ P * x \in Int /\ P * w \in Int /\ (P + 2 * k) * y \in Int
        OBVIOUS
    <2> QED BY <2>1
<1>3. P * (x + w) >= (P - k) * A
    <2>1. P * (x + w) = P * x + P * w /\ (P - k) * A = (P - k) * y + (P - k) * w
          /\ (P - k) * w = P * w - k * w /\ k * w \in Nat
          /\ P * x \in Int /\ P * w \in Int /\ (P - k) * y \in Int
        OBVIOUS
    <2> QED BY <2>1
<1> HIDE DEF A
<1>4. P * (P * z) <= P * ((P + 2 * (k + 1)) * A)
    <2> DEFINE h == x + w
    <2>1. h \in Nat
        OBVIOUS
    <2>2. P * (P * z) <= P * ((P + 1) * h)
        BY <2>1, TimesKeepsOrder
    <2>3. P * h <= (P + 2 * k) * A
        BY <1>2
    <2> HIDE DEF h
    <2>4. P * ((P + 1) * h) = (P + 1) * (P * h)
        BY <2>1
    <2>5. (P + 1) * (P * h) <= (P + 1) * ((P + 2 * k) * A)
        <3>1. P + 1 \in Nat \ {0} /\ P * h \in Int /\ (P + 2 * k) * A \in Int
            BY <1>1, <2>1
        <3> QED BY <2>3, <3>1, TimesKeepsOrder
    <2>6. (P + 1) * ((P + 2 * k) * A) <= P * ((P + 2 * (k + 1)) * A)
        <3>1. (P + 1) * ((P + 2 * k) * A) = ((P + 1) * (P + 2 * k)) * A
              /\ P * ((P + 2 * (k + 1)) * A) = (P * (P + 2 * (k + 1))) * A
            BY <1>1
        <3>2. (P + 1) * (P + 2 * k) = P * P + P + 2 * (k * P) + 2 * k
              /\ P * (P + 2 * (k + 1)) = P * P + 2 * P + 2 * (k * P)
            OBVIOUS
        <3>3. /\ P * P \in Int /\ k * P \in Int
              /\ (P + 1) * (P + 2 * k) <= P * (P + 2 * (k + 1))
              /\ (P + 1) * (P + 2 * k) \in Int /\ P * (P + 2 * (k + 1)) \in Int
            BY <3>2
        <3>4. ((P + 1) * (P + 2 * k)) * A <= (P * (P + 2 * (k + 1))) * A
            <4> DEFINE l == (P + 1) * (P + 2 * k)
                       r == P * (P + 2 * (k + 1))
            <4>1. l \in Int /\ r \in Int /\ l <= r
                BY <3>3
            <4> HIDE DEF l, r
            <4>2. l * A <= r * A
                BY <1>1, <4>1
            <4> QED BY <4>2 DEF l, r
        <3> QED BY <3>1, <3>4
    <2>7. /\ P * (P * z) \in Int /\ P * ((P + 1) * h) \in Int /\ (P + 1) * ((P + 2 * k) * A) \in Int
          /\ P * ((P + 2 * (k + 1)) * A) \in Int
        BY <1>1, <2>1
    <2> QED BY <2>2, <2>4, <2>5, <2>6, <2>7
<1>5. P * (P * z) >= P * ((P - (k + 1)) * A)
    <2> DEFINE h == x + w
    <2>1. h \in Nat
        OBVIOUS
    <2>2. P * (P * z) >= P * ((P - 1) * h)
        BY <2>1, TimesKeepsOrder
    <2>3. P * h >= (P - k) * A
        BY <1>3
    <2> HIDE DEF h
    <2>4. P * ((P - 1) * h) = (P - 1) * (P * h)
        BY <2>1
    <2>5. (P - 1) * (P * h) >= (P - 1) * ((P - k) * A)
        <3>1. P - 1 \in Nat /\ P * h \in Int /\ (P - k) * A \in Int
            BY <1>1, <2>1
        <3> QED BY <2>3, <3>1
    <2>6. (P - 1) * ((P - k) * A) >= P * ((P - (k + 1)) * A)
        <3>1. (P - 1) * ((P - k) * A) = ((P - 1) * (P - k)) * A
              /\ P * ((P - (k + 1)) * A) = (P * (P - (k + 1))) * A
            BY <1>1
        <3>2. (P - 1) * (P - k) = P * P - P - k * P + k
              /\ P * (P - (k + 1)) = P * P - P - k * P
            OBVIOUS
        <3>3. /\ P * P \in Int /\ k * P \in Int
              /\ (P - 1) * (P - k) >= P * (P - (k + 1))
              /\ (P - 1) * (P - k) \in Int /\ P * (P - (k + 1)) \in Int
            BY <3>2
        <3>4. ((P - 1) * (P - k)) * A >= (P * (P - (k + 1))) * A
            <4> DEFINE l == (P - 1) * (P - k)
                       r == P * (P - (k + 1))
            <4>1. l \in Int /\ r \in Int /\ l >= r
                BY <3>3
            <4> HIDE DEF l, r
            <4>2. l * A >= r * A
                BY <1>1, <4>1
            <4> QED BY <4>2 DEF l, r
        <3> QED BY <3>1, <3>4
    <2>7. /\ P * (P * z) \in Int /\ P * ((P - 1) * h) \in Int /\ (P - 1) * ((P - k) * A) \in Int
          /\ P * ((P - (k + 1)) * A) \in Int
        BY <1>1, <2>1
    <2> QED BY <2>2, <2>4, <2>5, <2>6, <2>7
<1>6. P * z \in Int /\ (P + 2 * (k + 1)) * A \in Int /\ (P - (k + 1)) * A \in Int
    BY <1>1
<1>7. P * z <= (P + 2 * (k + 1)) * A /\ P * z >= (P - (k + 1)) * A
    BY <1>4, <1>5, <1>6, TimesKeepsOrder
<1> QED BY <1>1, <1>7 DEF A, P, z, NearSum

\* How far a total is from the sum.
LEMMA TotalIsNear ==
    ASSUME NEW s \in Seq(Nat), 2 * Len(s) <= Power[Bits]
    PROVE  NearSum(Len(s), Total(s), SumOf(s))
<1> DEFINE n == Len(s)
           f == Sums(s)
           a == Accumulated(s)
<1>1. n \in Nat /\ \A i \in 1..n : s[i] \in Nat
    OBVIOUS
<1>2. Power[Bits] \in Nat \ {0} /\ 2 * n <= Power[Bits]
    BY PowerStep, NumbersAssumption
<1>3. /\ f \in [0..n -> Int] /\ f[0] = 0 /\ \A k \in 1..n : f[k] = f[k - 1] + s[k]
      /\ a \in [0..n -> Int] /\ a[0] = 0 /\ \A k \in 1..n : a[k] = Plus(a[k - 1], s[k])
    <2>1. s \in Seq(Int)
        OBVIOUS
    <2> QED BY <2>1, SumsAreSums, TotalsAreSums
<1>4. SumOf(s) = f[n] /\ Total(s) = a[n]
    BY DEF SumOf, Total
<1> HIDE DEF n, f, a
<1> DEFINE Q == {k \in Nat : k \in 0..n => NearSum(k, a[k], f[k])}
<1>5. 0 \in Q
    BY <1>1, <1>2, <1>3 DEF NearSum
<1>6. ASSUME NEW k \in Nat, k \in Q PROVE k + 1 \in Q
    <2> SUFFICES ASSUME k + 1 \in 0..n PROVE NearSum(k + 1, a[k + 1], f[k + 1])
        OBVIOUS
    <2>1. k \in 0..n /\ k + 1 \in 1..n /\ (k + 1) - 1 = k /\ 2 * (k + 1) <= Power[Bits]
        BY <1>1, <1>2
    <2>2. /\ a[k + 1] = Plus(a[k], s[k + 1]) /\ f[k + 1] = f[k] + s[k + 1]
          /\ s[k + 1] \in Nat /\ NearSum(k, a[k], f[k])
        BY <1>1, <1>3, <1>6, <2>1
    <2>3. NearSum(k + 1, Plus(a[k], s[k + 1]), f[k] + s[k + 1])
        BY <2>1, <2>2, TotalCosts
    <2> QED BY <2>2, <2>3
<1>7. Nat \subseteq Q
    <2> HIDE DEF Q
    <2> QED BY <1>5, <1>6, SetInduction
<1> QED BY <1>1, <1>4, <1>7 DEF n

\* The whole units k of what weight w is due of T units, against exact arithmetic, where
\* the weights make up S.
UnitsAreNear(T, S, w, k) ==
    LET P == Power[Bits]
        Q == P * P * S
    IN  /\ k \in Nat
        /\ (Q * (2 * One - 1)) * k <= (2 * One * (P + 1) * (P + 1) * T) * w
        /\ (2 * One * (P - 1) * (P - 1) * T) * w <= (2 * One * Q) * k + Q * (2 * One - 1)

\* What the product and the quotient cost, in the units that a bucket is due.
LEMMA DuesCost ==
    ASSUME NEW T \in Nat, NEW S \in Nat \ {0}, NEW w \in Nat
    PROVE  LET due == Over(Times(T * One, w), S)
           IN  /\ Floor(due) = (due \div One) * One /\ Fraction(due) \in Int
               /\ UnitsAreNear(T, S, w, due \div One)
<1> USE Grid
<1> DEFINE P == Power[Bits]
           Q == P * P * S
           p == Times(T * One, w)
           due == Over(p, S)
           k == due \div One
           rest == due % One
           q == T * w
<1>1. P \in Nat \ {0} /\ q \in Nat
    BY PowerStep, NumbersAssumption
<1>2. p \in Nat /\ P * p <= (P + 1) * q /\ P * p >= (P - 1) * q
    BY TimesCosts
<1> HIDE DEF p
<1>3. /\ due \in Nat
      /\ (2 * P) * (S * due) <= (2 * (P + 1)) * (p * One) + P * S
      /\ (2 * P) * (S * due) >= (2 * (P - 1)) * (p * One) - P * S
    BY <1>2, OverCosts
<1> HIDE DEF due
<1>4. k \in Nat /\ rest \in 0..(One - 1) /\ due = One * k + rest
    <2>1. due \in Nat /\ due \in Int /\ One \in Nat \ {0}
        BY <1>3
    <2> HIDE DEF P, Q, q
    <2>2. /\ due \div One \in Int /\ due % One \in 0..(One - 1)
          /\ due = One * (due \div One) + (due % One) /\ due \div One \in Nat
        BY <2>1, Division
    <2> QED BY <2>2
<1>5. Floor(due) = k * One /\ Fraction(due) \in Int
    BY <1>3, <1>4 DEF Floor, Fraction
<1> HIDE DEF P, k, rest, q
<1> DEFINE U == One * ((P + 1) * ((P + 1) * q))
           L == One * ((P - 1) * ((P - 1) * q))
<1>6. Q \in Nat \ {0} /\ P - 1 \in Nat /\ U \in Nat /\ L \in Int
    <2>1. P * P \in Nat \ {0}
        BY <1>1
    <2>2. (P * P) * S \in Nat \ {0}
        BY <2>1
    <2>3. (P - 1) * ((P - 1) * q) \in Int /\ (P + 1) * ((P + 1) * q) \in Nat
        BY <1>1
    <2> QED BY <1>1, <2>2, <2>3
<1>7. P * ((2 * P) * (S * due)) = 2 * (Q * due) /\ Q * due \in Nat
    <2>1. P * ((2 * P) * (S * due)) = 2 * ((P * P * S) * due)
        BY <1>1, <1>3
    <2> QED BY <1>3, <1>6, <2>1
<1>8. 2 * (Q * due) <= 2 * U + Q
    <2>1. P * ((2 * P) * (S * due)) <= P * ((2 * (P + 1)) * (p * One) + P * S)
        BY <1>1, <1>2, <1>3, TimesKeepsOrder
    <2>2. P * ((2 * (P + 1)) * (p * One) + P * S) = 2 * (One * ((P + 1) * (P * p))) + Q
        BY <1>1, <1>2
    <2>3. One * ((P + 1) * (P * p)) <= U
        <3>1. (P + 1) * (P * p) <= (P + 1) * ((P + 1) * q)
            BY <1>1, <1>2
        <3>2. (P + 1) * (P * p) \in Int /\ (P + 1) * ((P + 1) * q) \in Int
            BY <1>1, <1>2
        <3> QED BY <3>1, <3>2, TimesKeepsOrder
    <2>4. One * ((P + 1) * (P * p)) \in Int
        BY <1>1, <1>2
    <2> QED BY <1>6, <1>7, <2>1, <2>2, <2>3, <2>4
<1>9. 2 * (Q * due) >= 2 * L - Q
    <2>1. P * ((2 * P) * (S * due)) >= P * ((2 * (P - 1)) * (p * One) - P * S)
        BY <1>1, <1>2, <1>3, TimesKeepsOrder
    <2>2. P * ((2 * (P - 1)) * (p * One) - P * S) = 2 * (One * ((P - 1) * (P * p))) - Q
        BY <1>1, <1>2
    <2>3. One * ((P - 1) * (P * p)) >= L
        <3>1. (P - 1) * (P * p) >= (P - 1) * ((P - 1) * q)
            BY <1>1, <1>2, <1>6
        <3>2. (P - 1) * (P * p) \in Int /\ (P - 1) * ((P - 1) * q) \in Int
            BY <1>1, <1>2
        <3> QED BY <3>1, <3>2, TimesKeepsOrder
    <2>4. One * ((P - 1) * (P * p)) \in Int
        BY <1>1, <1>2
    <2> QED BY <1>6, <1>7, <2>1, <2>2, <2>3, <2>4
<1> DEFINE v == Q * One
<1>10. /\ Q * due = v * k + Q * rest
       /\ Q * rest <= v - Q /\ 0 <= Q * rest /\ Q * rest \in Int
       /\ v \in Nat /\ v * k \in Nat
       /\ k >= 1 => Q * k >= Q
       /\ Q * k \in Nat
       /\ k = 0 => v * k = 0 /\ Q * k = 0
    <2> HIDE DEF Q
    <2>1. Q * due = Q * (One * k) + Q * rest /\ Q * (One * k) = (Q * One) * k /\ Q * rest \in Int
        BY <1>4, <1>6
    <2>2. Q * rest <= Q * (One - 1) /\ 0 <= Q * rest
        BY <1>4, <1>6
    <2>3. Q * (One - 1) = Q * One - Q /\ Q * One \in Nat
        BY <1>6
    <2>4. (Q * One) * k \in Nat /\ Q * k \in Nat /\ (k >= 1 => Q * k >= Q * 1) /\ Q * 1 = Q
        BY <1>4, <1>6, <2>3
    <2> QED BY <2>1, <2>2, <2>3, <2>4
<1>11. (Q * (2 * One - 1)) * k = 2 * (v * k) - Q * k
       /\ (2 * One * Q) * k = 2 * (v * k) /\ Q * (2 * One - 1) = 2 * v - Q
    <2> HIDE DEF Q
    <2> QED BY <1>4, <1>6
<1>12. (2 * One * (P + 1) * (P + 1) * T) * w = 2 * U /\ (2 * One * (P - 1) * (P - 1) * T) * w = 2 * L
    BY <1>1 DEF q
<1> HIDE DEF Q, v, U, L
<1>13. 2 * (v * k) - Q * k <= 2 * U
    BY <1>4, <1>6, <1>8, <1>10
<1>14. 2 * L <= 2 * (v * k) + (2 * v - Q)
    BY <1>6, <1>9, <1>10
<1>15. /\ (Q * (2 * One - 1)) * k <= (2 * One * (P + 1) * (P + 1) * T) * w
       /\ (2 * One * (P - 1) * (P - 1) * T) * w <= (2 * One * Q) * k + Q * (2 * One - 1)
    BY <1>11, <1>12, <1>13, <1>14
<1> QED BY <1>4, <1>5, <1>15 DEF UnitsAreNear, P, Q, k, due, p

\* No more units than there are: all floors together, against exact arithmetic.
LEMMA NoMoreThanAll ==
    ASSUME NEW T \in Nat \ {0}, NEW n \in Nat \ {0}, (2 * n + 2) * T <= Power[Bits] - 1,
           NEW S \in Nat \ {0}, NEW A \in Nat, Power[Bits] * S >= (Power[Bits] - n) * A,
           NEW f \in Nat,
           (Power[Bits] * Power[Bits] * S * (2 * One - 1)) * f
             <= (2 * One * (Power[Bits] + 1) * (Power[Bits] + 1) * T) * A
    PROVE  f <= T
<1> USE Grid
<1> DEFINE P == Power[Bits]
           h == Power[Bits - 1]
<1>1. P = 2 * h /\ h \in Nat \ {0} /\ P \in Nat \ {0} /\ P <= One
    <2>1. Bits - 1 \in Nat /\ (Bits - 1) + 1 = Bits
        BY NumbersAssumption
    <2> QED BY <2>1, PowerStep, Widths
<1>2. /\ (2 * n + 2) * T <= P - 1
      /\ P * S >= (P - n) * A
      /\ (P * P * S * (2 * One - 1)) * f <= (2 * One * (P + 1) * (P + 1) * T) * A
    OBVIOUS
<1> HIDE DEF P, h
<1> DEFINE m == n * T
<1>3. m \in Nat /\ m >= T /\ m >= n /\ m + T + 1 <= h
    <2>1. (2 * n + 2) * T = 2 * (n * T) + 2 * T /\ n * T >= T /\ n * T >= n /\ n * T \in Nat
        OBVIOUS
    <2> QED BY <1>1, <1>2, <2>1
<1> HIDE DEF m
<1>4. P - n \in Nat \ {0}
    BY <1>1, <1>3
<1> SUFFICES ASSUME f >= T + 1 PROVE FALSE
    OBVIOUS
<1> DEFINE O2 == 2 * One
           X == P * (P - m - n - 2 * T) - T
           Y == P * ((T + 1) * (P - n))
\* One more, against the bound.
<1>5. (P * ((O2 - 1) * (T + 1))) * (P - n) <= O2 * ((P + 1) * ((P + 1) * T))
    <2> DEFINE c == P * S
               l == P * ((O2 - 1) * (T + 1))
               r == O2 * ((P + 1) * ((P + 1) * T))
    <2>1. c \in Nat \ {0} /\ l \in Int /\ r \in Nat /\ O2 - 1 \in Nat
        BY <1>1
    <2>2. c * l <= r * A
        <3>1. (P * P * S * (O2 - 1)) * (T + 1) <= (P * P * S * (O2 - 1)) * f
            <4>1. P * P * S * (O2 - 1) \in Nat
                BY <1>1, <2>1
            <4> DEFINE g == P * P * S * (O2 - 1)
            <4> HIDE DEF g
            <4>2. g \in Nat => g * (T + 1) <= g * f
                OBVIOUS
            <4> QED BY <4>1, <4>2 DEF g
        <3>2. (P * P * S * (O2 - 1)) * (T + 1) = c * l /\ (O2 * (P + 1) * (P + 1) * T) * A = r * A
            BY <1>1
        <3>3. c * l \in Int /\ r * A \in Int /\ (P * P * S * (O2 - 1)) * f \in Int
            BY <1>1, <2>1
        <3> QED BY <1>2, <3>1, <3>2, <3>3
    <2> HIDE DEF l, r, O2
    <2>3. (P - n) * A <= c
        BY <1>2
    <2> HIDE DEF c
    <2>4. (c * l) * (P - n) <= (r * A) * (P - n)
        <3>1. c * l \in Int /\ r * A \in Int
            BY <2>1
        <3> QED BY <1>4, <2>2, <3>1, TimesKeepsOrder
    <2>5. r * ((P - n) * A) <= r * c
        <3>1. (P - n) * A \in Int
            BY <1>4
        <3> DEFINE a == (P - n) * A
        <3> HIDE DEF a
        <3>2. a \in Int /\ a <= c => r * a <= r * c
            BY <2>1
        <3> QED BY <2>3, <3>1, <3>2 DEF a
    <2>6. (c * l) * (P - n) = c * (l * (P - n)) /\ (r * A) * (P - n) = r * ((P - n) * A) /\ r * c = c * r
          /\ l * (P - n) \in Int /\ c * (l * (P - n)) \in Int /\ r * ((P - n) * A) \in Int /\ c * r \in Int
        BY <1>4, <2>1
    <2>7. c * (l * (P - n)) <= c * r
        BY <2>4, <2>5, <2>6
    <2>8. l * (P - n) <= r
        BY <2>1, <2>6, <2>7, TimesKeepsOrder
    <2> QED BY <2>8 DEF l, r
<1>6. /\ (P * ((O2 - 1) * (T + 1))) * (P - n) = O2 * Y - Y
      /\ O2 * ((P + 1) * ((P + 1) * T)) = O2 * (Y - X)
      /\ X \in Int /\ Y \in Int
    <2> HIDE DEF O2
    <2>1. O2 \in Int
        BY DEF O2
    <2>2. (P * ((O2 - 1) * (T + 1))) * (P - n) = O2 * Y - Y /\ X \in Int /\ Y \in Int
        BY <1>1, <1>3, <2>1
    <2>3. Y - X = (P + 1) * ((P + 1) * T)
        <3>1. Y = P * P * T + P * P - P * m - P * n
            BY <1>1 DEF m
        <3>2. X = P * P - P * m - P * n - 2 * (P * T) - T
            BY <1>1, <1>3
        <3>3. (P + 1) * ((P + 1) * T) = P * P * T + 2 * (P * T) + T
            BY <1>1
        <3>4. P * P * T \in Int /\ P * P \in Int /\ P * m \in Int /\ P * n \in Int /\ P * T \in Int
            BY <1>1, <1>3
        <3> HIDE DEF X, Y
        <3> QED BY <3>1, <3>2, <3>3, <3>4
    <2> QED BY <2>2, <2>3
<1>7. O2 * X <= Y
    <2> HIDE DEF X, Y, O2
    <2>1. O2 \in Int /\ O2 * (Y - X) = O2 * Y - O2 * X /\ O2 * Y \in Int /\ O2 * X \in Int
        BY <1>6 DEF O2
    <2> QED BY <1>5, <1>6, <2>1
<1>8. X >= 0 /\ (2 * P) * X <= O2 * X
    <2>1. P - m - n - 2 * T >= 1
        BY <1>1, <1>3
    <2>2. P * (P - m - n - 2 * T) >= P
        <3> DEFINE u == P - m - n - 2 * T
        <3>1. u \in Int
            BY <1>1, <1>3
        <3> HIDE DEF u
        <3>2. u >= 1 => P * u >= P * 1
            BY <1>1, <3>1
        <3> QED BY <1>1, <2>1, <3>2 DEF u
    <2>3. P * (P - m - n - 2 * T) \in Int
        BY <1>1, <1>3
    <2>4. X >= 0
        BY <1>1, <1>3, <2>2, <2>3
    <2> HIDE DEF X
    <2> QED BY <1>1, <1>6, <2>4
<1>9. 2 * X > (T + 1) * (P - n)
    <2> DEFINE u == 2 * P - 5 * T - 1 - 2 * m - 2 * n
    <2>1. (T + 1) * (P - n) = P * T + P - m - n
        BY <1>1 DEF m
    <2>2. 2 * X = 2 * (P * (P - m - n - 2 * T)) - 2 * T
        BY <1>1, <1>3
    <2>3. P * u = 2 * (P * (P - m - n - 2 * T)) - P * T - P
        BY <1>1, <1>3
    <2>4. u \in Int /\ u >= 1
        \* (2n - 1)(T - 1) >= 0
        <3>1. (2 * n - 1) * (T - 1) >= 0 /\ (2 * n - 1) * (T - 1) = 2 * m - 2 * n - T + 1
            BY DEF m
        <3>2. 2 * m - 2 * n - T + 1 >= 0
            BY <3>1
        <3> QED BY <1>1, <1>3, <3>2
    <2> HIDE DEF u
    <2>5. P * u >= P
        <3>1. u >= 1 => P * u >= P * 1
            BY <1>1, <2>4
        <3> QED BY <1>1, <2>4, <3>1
    <2>6. P * (P - m - n - 2 * T) \in Int /\ P * u \in Int /\ P * T \in Int
        BY <1>1, <1>3, <2>4
    <2> HIDE DEF X
    <2> QED BY <1>1, <1>3, <2>1, <2>2, <2>3, <2>5, <2>6
<1>10. P * (2 * X) > Y
    <2> DEFINE g == (T + 1) * (P - n)
    <2>1. g \in Int /\ 2 * X \in Int /\ g < 2 * X
        BY <1>4, <1>6, <1>9
    <2> HIDE DEF X, g
    <2>2. P * g < P * (2 * X)
        BY <1>1, <2>1, TimesKeepsOrder
    <2> QED BY <2>2 DEF g
<1>11. P * (2 * X) = (2 * P) * X /\ (2 * P) * X \in Int /\ O2 * X \in Int
    <2> HIDE DEF X
    <2> QED BY <1>1, <1>6
<1> HIDE DEF X, Y, O2
<1> QED BY <1>6, <1>7, <1>8, <1>10, <1>11

\* And no more left than there are buckets.
LEMMA NoMoreLeft ==
    ASSUME NEW T \in Nat \ {0}, NEW n \in Nat \ {0}, (2 * n + 2) * T <= Power[Bits] - 1,
           NEW S \in Nat \ {0}, NEW A \in Nat, Power[Bits] * S <= (Power[Bits] + 2 * n) * A,
           NEW f \in Nat,
           (2 * One * (Power[Bits] - 1) * (Power[Bits] - 1) * T) * A
             <= (2 * One * (Power[Bits] * Power[Bits] * S)) * f
                + (Power[Bits] * Power[Bits] * S * (2 * One - 1)) * n
    PROVE  T - f <= n
<1> USE Grid
<1> DEFINE P == Power[Bits]
           m == n * T
           O2 == 2 * One
<1>1. P \in Nat \ {0} /\ P - 1 \in Nat /\ O2 \in Nat \ {0}
    BY PowerStep, NumbersAssumption
<1>2. /\ (2 * n + 2) * T <= P - 1
      /\ P * S <= (P + 2 * n) * A
      /\ (O2 * (P - 1) * (P - 1) * T) * A <= (O2 * (P * P * S)) * f + (P * P * S * (O2 - 1)) * n
    OBVIOUS
<1> HIDE DEF P, O2
<1>3. m \in Nat /\ 2 * m + 2 * T + 1 <= P
    <2>1. (2 * n + 2) * T = 2 * (n * T) + 2 * T /\ n * T \in Nat
        OBVIOUS
    <2> QED BY <1>1, <1>2, <2>1
<1> HIDE DEF m
<1> SUFFICES ASSUME f <= T - n - 1 PROVE FALSE
    OBVIOUS
<1> DEFINE X == P * (P - 2 * T - 2 * m + 2 * n) + T
           l == O2 * ((P - 1) * ((P - 1) * T))
           r == P * (O2 * (T - 1))
           c == P * S
<1>4. c \in Nat \ {0} /\ l \in Nat /\ r \in Int
    <2>1. (P - 1) * ((P - 1) * T) \in Nat
        BY <1>1
    <2>2. O2 * ((P - 1) * ((P - 1) * T)) \in Nat
        BY <1>1, <2>1
    <2> QED BY <1>1, <2>2
<1>5. l * A <= c * r
    <2> DEFINE g == P * P * S
    <2>1. g \in Nat \ {0}
        BY <1>1
    <2>2. (O2 * (P - 1) * (P - 1) * T) * A = l * A
        BY <1>1
    <2>3. c * r = g * (O2 * (T - 1))
        BY <1>1
    <2> HIDE DEF g, l, r, c
    <2>4. (O2 * g) * f + (g * (O2 - 1)) * n = g * (O2 * (f + n) - n)
        BY <1>1, <2>1
    <2>5. O2 * (f + n) - n <= O2 * (T - 1)
        <3>1. O2 * (f + n) <= O2 * (T - 1)
            BY <1>1
        <3> QED BY <1>1, <3>1
    <2>6. g * (O2 * (f + n) - n) <= g * (O2 * (T - 1))
        <3>1. O2 * (f + n) - n \in Int /\ O2 * (T - 1) \in Int
            BY <1>1
        <3> QED BY <2>1, <2>5, <3>1, TimesKeepsOrder
    <2>7. (O2 * g) * f + (g * (O2 - 1)) * n \in Int /\ g * (O2 * (T - 1)) \in Int /\ l * A \in Int
        BY <1>1, <1>4, <2>1
    <2>8. l * A <= (O2 * g) * f + (g * (O2 - 1)) * n
        BY <1>2, <2>2 DEF g
    <2> QED BY <2>3, <2>4, <2>6, <2>7, <2>8
<1> HIDE DEF l, r
<1>6. c * l <= c * ((P + 2 * n) * r)
    <2> DEFINE a == (P + 2 * n) * A
               d == P + 2 * n
    <2>1. a \in Int /\ d \in Nat \ {0} /\ c <= a
        BY <1>1, <1>2
    <2>2. a = d * A
        OBVIOUS
    <2> HIDE DEF a, d, c
    <2>3. l * c <= l * a
        BY <1>4, <2>1
    <2>4. d * (l * A) <= d * (c * r)
        <3>1. l * A \in Int /\ c * r \in Int
            BY <1>4
        <3> QED BY <1>5, <2>1, <3>1, TimesKeepsOrder
    <2>5. l * a = d * (l * A) /\ d * (c * r) = c * (d * r) /\ l * c = c * l
          /\ c * l \in Int /\ d * (l * A) \in Int /\ c * (d * r) \in Int
        BY <1>4, <2>1, <2>2
    <2>6. c * l <= c * (d * r)
        BY <2>3, <2>4, <2>5
    <2> QED BY <2>6 DEF d
<1>7. l <= (P + 2 * n) * r
    <2>1. (P + 2 * n) * r \in Int
        BY <1>1, <1>4
    <2> HIDE DEF c
    <2> QED BY <1>4, <1>6, <2>1, TimesKeepsOrder
<1>8. (P + 2 * n) * r = O2 * ((P + 2 * n) * (P * (T - 1))) /\ l = O2 * ((P - 1) * ((P - 1) * T))
    BY <1>1 DEF l, r
<1>9. (P - 1) * ((P - 1) * T) <= (P + 2 * n) * (P * (T - 1))
    <2>1. (P - 1) * ((P - 1) * T) \in Int /\ (P + 2 * n) * (P * (T - 1)) \in Int
        BY <1>1
    <2> QED BY <1>1, <1>7, <1>8, <2>1, TimesKeepsOrder
<1>10. (P - 1) * ((P - 1) * T) - (P + 2 * n) * (P * (T - 1)) = X
    <2>1. (P - 1) * ((P - 1) * T) = P * P * T - 2 * (P * T) + T
        BY <1>1
    <2>2. (P + 2 * n) * (P * (T - 1)) = P * P * T - P * P + 2 * (P * m) - 2 * (P * n)
        BY <1>1 DEF m
    <2>3. X = P * P - 2 * (P * T) - 2 * (P * m) + 2 * (P * n) + T
        BY <1>1, <1>3
    <2>4. P * P * T \in Int /\ P * P \in Int /\ P * m \in Int /\ P * n \in Int /\ P * T \in Int
        BY <1>1, <1>3
    <2> HIDE DEF X
    <2> QED BY <2>1, <2>2, <2>3, <2>4
<1>11. X > 0
    <2> DEFINE u == P - 2 * T - 2 * m + 2 * n
    <2>1. u \in Nat
        BY <1>1, <1>3
    <2> HIDE DEF u
    <2>2. P * u >= 0 /\ P * u \in Int
        BY <1>1, <2>1
    <2>3. X = P * u + T
        BY DEF u
    <2> QED BY <2>2, <2>3
<1>12. (P - 1) * ((P - 1) * T) \in Int /\ (P + 2 * n) * (P * (T - 1)) \in Int
    BY <1>1
<1> HIDE DEF X
<1> QED BY <1>9, <1>10, <1>11, <1>12

\* What buckets are due of T units, in whole units.
UnitsDue(T, weights) ==
    [i \in 1..Len(weights) |-> Over(Times(T * One, weights[i]), Total(weights)) \div One]

\* The floors of little leave a unit for each bucket at most, and owe none.
LEMMA LittleIsLeft ==
    ASSUME NEW weights \in Seq(Nat), Len(weights) \in Nat \ {0}, Total(weights) \in Nat \ {0},
           NEW T \in Nat, (2 * Len(weights) + 2) * T <= Power[Bits] - 1
    PROVE  LET F    == UnitsDue(T, weights)
               dues == Dues(T * One, weights)
           IN  /\ F \in Seq(Nat) /\ Len(F) = Len(weights)
               /\ DOMAIN dues = 1..Len(F) /\ FloorsAre(dues, F)
               /\ SumOf(F) \in Nat /\ T - SumOf(F) \in 0..Len(F)
<1> USE Grid
<1> DEFINE n == Len(weights)
           S == Total(weights)
           A == SumOf(weights)
           F == UnitsDue(T, weights)
           dues == Dues(T * One, weights)
           P == Power[Bits]
           Q == P * P * S
           below == Q * (2 * One - 1)
           most == 2 * One * (P + 1) * (P + 1) * T
           least == 2 * One * (P - 1) * (P - 1) * T
           each == 2 * One * Q
<1>1. /\ n \in Nat \ {0} /\ S \in Nat \ {0} /\ DOMAIN weights = 1..n
      /\ \A i \in 1..n : weights[i] \in Nat
      /\ (2 * n + 2) * T <= P - 1
    OBVIOUS
<1> HIDE DEF S
<1>2. ASSUME NEW i \in 1..n
      PROVE  LET due == Over(Times(T * One, weights[i]), S)
             IN  /\ Floor(due) = (due \div One) * One /\ Fraction(due) \in Int
                 /\ UnitsAreNear(T, S, weights[i], due \div One)
    BY <1>1, DuesCost
<1>3. \A i \in 1..n : dues[i] = Over(Times(T * One, weights[i]), S) /\ F[i] = dues[i] \div One
    BY <1>1 DEF Dues, UnitsDue, S
<1>4. DOMAIN dues = 1..n /\ DOMAIN F = 1..n
    BY <1>1 DEF Dues, UnitsDue
<1>5. \A i \in 1..n : /\ Floor(dues[i]) = F[i] * One /\ Fraction(dues[i]) \in Int
                      /\ UnitsAreNear(T, S, weights[i], F[i])
    <2> HIDE DEF dues, F
    <2> QED BY <1>2, <1>3
<1>6. F \in Seq(Nat) /\ Len(F) = n
    <2>1. F = [i \in 1..n |-> F[i]]
        BY DEF UnitsDue
    <2> HIDE DEF F
    <2>2. \A i \in 1..n : F[i] \in Nat
        BY <1>5 DEF UnitsAreNear
    <2> HIDE DEF n
    <2>3. [i \in 1..n |-> F[i]] \in Seq(Nat) /\ Len([i \in 1..n |-> F[i]]) = n
        BY <1>1, <2>2
    <2> QED BY <2>1, <2>3
<1>7. FloorsAre(dues, F)
    <2> HIDE DEF dues, F
    <2> QED BY <1>5, <1>6 DEF FloorsAre
<1> HIDE DEF F, dues
<1>8. \A i \in 1..n : /\ F[i] \in Nat
                      /\ below * F[i] <= most * weights[i]
                      /\ least * weights[i] <= each * F[i] + below
    BY <1>5 DEF UnitsAreNear
<1>9. /\ P \in Nat \ {0} /\ Q \in Nat \ {0} /\ below \in Nat \ {0} /\ most \in Int /\ least \in Int
      /\ each \in Int
    <2>1. P \in Nat \ {0}
        BY PowerStep, NumbersAssumption
    <2> HIDE DEF P
    <2>2. (P * P) * S \in Nat \ {0}
        <3>1. P * P \in Nat \ {0}
            BY <2>1
        <3> QED BY <1>1, <3>1
    <2>3. Q \in Nat \ {0}
        BY <2>2
    <2> HIDE DEF Q
    <2> QED BY <2>1, <2>3
<1> DEFINE f == SumOf(F)
<1>10. F \in Seq(Int) /\ weights \in Seq(Int) /\ Len(weights) = n
    BY <1>6
<1>11. /\ below * f <= most * A /\ f \in Int /\ A \in Int
       /\ least * A <= each * f + below * n
    <2> HIDE DEF P, Q, below, most, least, each
    <2>1. /\ 0 \in Int /\ below \in Int /\ most \in Int /\ least \in Int /\ each \in Int
          /\ Len(F) = Len(weights)
          /\ \A i \in 1..Len(F) : below * F[i] <= most * weights[i] + 0
        <3>1. \A i \in 1..n : most * weights[i] \in Int
            BY <1>1, <1>9
        <3> QED BY <1>6, <1>8, <1>9, <3>1
    <2>2. f \in Int /\ A \in Int /\ below * f <= most * A + 0 * Len(F)
        BY <1>10, <2>1, SumsKeepBounds
    <2>3. \A i \in 1..Len(weights) : least * weights[i] <= each * F[i] + below
        BY <1>8
    <2>4. least * A <= each * f + below * Len(weights)
        BY <1>10, <2>1, <2>3, SumsKeepBounds
    <2>5. most * A + 0 * Len(F) = most * A
        <3> HIDE DEF A
        <3> QED BY <1>6, <1>9, <2>2
    <2> HIDE DEF A, f
    <2> QED BY <2>2, <2>4, <2>5
<1>12. f >= 0 /\ A >= 0
    <2>1. -1 \in Int /\ 0 \in Int
        OBVIOUS
    <2>2. ASSUME NEW s \in Seq(Nat) PROVE SumOf(s) >= 0
        <3>1. s \in Seq(Int) /\ \A i \in 1..Len(s) : (-1) * s[i] <= 0 * s[i] + 0
            OBVIOUS
        <3>2. SumOf(s) \in Int /\ (-1) * SumOf(s) <= 0 * SumOf(s) + 0 * Len(s)
            BY <2>1, <3>1, SumsKeepBounds
        <3> QED BY <3>2
    <2> QED BY <1>6, <2>2
<1> HIDE DEF f, A, below, most, least, each, Q, P
<1>13. T - f \in 0..n
    <2>1. CASE T = 0
        <3>1. most = 0
            BY <1>9, <2>1 DEF most
        <3>2. below * f <= below * 0
            BY <1>9, <1>11, <3>1
        <3>3. f <= 0
            BY <1>9, <1>11, <3>2, TimesKeepsOrder
        <3> QED BY <1>1, <1>11, <1>12, <2>1, <3>3
    <2>2. CASE T # 0
        <3>1. T \in Nat \ {0} /\ A \in Nat /\ f \in Nat
            BY <1>11, <1>12, <2>2
        <3>2. 2 * n <= P
            <4>1. (2 * n + 2) * T >= 2 * n + 2
                BY <1>1, <3>1
            <4> QED BY <1>1, <1>9, <4>1
        <3>3. P * S <= (P + 2 * n) * A /\ P * S >= (P - n) * A
            BY <3>2, TotalIsNear DEF NearSum, P, S, A
        <3>4. f <= T
            BY <1>1, <1>11, <3>1, <3>3, NoMoreThanAll DEF P, below, most, Q
        <3>5. T - f <= n
            BY <1>1, <1>11, <3>1, <3>3, NoMoreLeft DEF P, below, least, each, Q
        <3> QED BY <1>1, <3>1, <3>4, <3>5
    <2> QED BY <2>1, <2>2
<1> QED BY <1>4, <1>6, <1>7, <1>11, <1>12, <1>13 DEF F, dues, f

\* JavaScript's sum of numbers that are not negative is not either.
LEMMA TotalIsNat ==
    ASSUME NEW s \in Seq(Nat)
    PROVE  Total(s) \in Nat
<1> DEFINE n == Len(s)
           a == Accumulated(s)
<1>1. n \in Nat /\ s \in Seq(Int) /\ \A k \in 1..n : s[k] \in Nat
    OBVIOUS
<1>2. a[0] = 0 /\ \A k \in 1..n : a[k] = Plus(a[k - 1], s[k])
    BY <1>1, TotalsAreSums
<1>3. Total(s) = a[n]
    BY DEF Total
<1> HIDE DEF n, a
<1> DEFINE Q == {k \in Nat : k \in 0..n => a[k] \in Nat}
<1>4. 0 \in Q
    BY <1>2
<1>5. ASSUME NEW k \in Nat, k \in Q PROVE k + 1 \in Q
    <2> SUFFICES ASSUME k + 1 \in 0..n PROVE a[k + 1] \in Nat
        OBVIOUS
    <2>1. k \in 0..n /\ k + 1 \in 1..n /\ (k + 1) - 1 = k
        BY <1>1
    <2>2. a[k + 1] = Plus(a[k], s[k + 1]) /\ a[k] \in Nat /\ s[k + 1] \in Nat
        BY <1>1, <1>2, <1>5, <2>1
    <2> QED BY <2>2, PlusCosts
<1>6. Nat \subseteq Q
    <2> HIDE DEF Q
    <2> QED BY <1>4, <1>5, SetInduction
<1> QED BY <1>1, <1>3, <1>6

\* A split of little conserves it.
LEMMA SplitsOfLittle ==
    ASSUME NEW total \in Int \cup {NaN}, NEW weights \in Seq(Int \cup {NaN}),
           NEW result, result = SplitMinorUnits(total, weights), result.kind = "value",
           (2 * Len(weights) + 2) * total <= MaxSafe
    PROVE  SumOf(result.value) = total
<1> USE Grid
<1>1. /\ weights \in Seq(Nat) /\ Len(weights) \in Nat \ {0}
      /\ total \in Nat /\ total <= MaxSafe /\ IsInteger(total)
      /\ result.value = IF Total(weights) = 0
                        THEN [i \in 1..Len(weights) |-> IF i = 1 THEN total ELSE 0]
                        ELSE Distribute(total, Dues(total, weights))
    BY SplitTakes
<1>2. PICK T \in Nat : total = T * One
    BY <1>1, Wholes
<1>3. Power[Bits] \in Nat \ {0} /\ MaxSafe = (Power[Bits] - 1) * One
    BY Widths
<1>4. CASE Total(weights) = 0
    <2>1. SumOf([i \in 1..Len(weights) |-> IF i = 1 THEN total ELSE 0]) = total
        <3>1. total \in Int
            BY <1>1
        <3> QED BY <1>1, <3>1, FirstHasAll
    <2> QED BY <1>1, <1>4, <2>1
<1>5. CASE Total(weights) # 0
    <2> DEFINE n == Len(weights)
               k == (2 * n + 2) * T
               F == UnitsDue(T, weights)
               dues == Dues(T * One, weights)
    <2>1. k <= Power[Bits] - 1 /\ k >= T /\ k \in Nat
        <3>0. k = T + (2 * n + 1) * T /\ (2 * n + 1) * T \in Nat
            <4>1. ASSUME NEW a \in Nat PROVE (2 * a + 2) * T = T + (2 * a + 1) * T /\ (2 * a + 1) * T \in Nat
                BY <1>2
            <4>2. n \in Nat
                BY <1>1
            <4> QED BY <4>1, <4>2
        <3>1. (2 * n + 2) * total = k * One /\ k \in Nat /\ k >= T
            <4>1. (2 * n + 2) * (T * One) = k * One
                BY <1>1, <1>2
            <4> HIDE DEF k
            <4> QED BY <1>1, <1>2, <3>0, <4>1
        <3>2. k * One <= (Power[Bits] - 1) * One
            BY <1>3, <3>1
        <3> HIDE DEF k
        <3> QED BY <1>3, <3>1, <3>2, TimesKeepsOrder
    <2>2. Total(weights) \in Nat \ {0}
        <3>1. weights \in Seq(Int)
            BY <1>1
        <3> QED BY <1>1, <1>5, TotalIsNat
    <2>3. /\ F \in Seq(Nat) /\ Len(F) = n
          /\ DOMAIN dues = 1..Len(F) /\ FloorsAre(dues, F)
          /\ SumOf(F) \in Nat /\ T - SumOf(F) \in 0..Len(F)
        BY <1>1, <2>1, <2>2, LittleIsLeft
    <2> HIDE DEF F, dues, k
    <2>4. T < Power[Bits]
        <3> DEFINE p == Power[Bits]
        <3>1. p \in Nat \ {0} /\ T \in Nat /\ k \in Nat /\ k <= p - 1 /\ k >= T
            BY <1>2, <1>3, <2>1 DEF k
        <3> HIDE DEF p
        <3>2. T < p
            BY <3>1
        <3> QED BY <3>2 DEF p
    <2>5. SumOf(Distribute(T * One, dues)) = T * One
        BY <2>3, <2>4, PartsMakeUp
    <2> QED BY <1>1, <1>2, <1>5, <2>5 DEF dues
<1> QED BY <1>4, <1>5

-----------------------------------------------------------------------------
(* The calls.                                                              *)

\* What is answered is what the function called returns.
Computed ==
    /\ call \in Calls
    /\ answer # Pending =>
        /\ call.op = "add" => answer = AddMoney(Left, Right)
        /\ call.op = "subtract" => answer = SubtractMoney(Left, Right)
        /\ call.op = "rate" => answer = ApplyRate(call.with[1], call.with[2])
        /\ call.op = "split" => answer = SplitMinorUnits(call.with[1], call.with[2])
        /\ call.op = "serve" => answer = ServeCarNote(call.with[1], call.with[2], call.with[3])
        /\ call.op = "render" => answer = RenderCarNote(call.with)

\* The inductive invariant.
LEMMA StaysComputed == Spec => []Computed
<1>1. Init => Computed
    BY DEF Init, Computed
<1>2. Computed /\ [Next]_vars => Computed'
    <2> SUFFICES ASSUME Computed, [Next]_vars PROVE Computed'
        OBVIOUS
    <2>1. CASE Add
        BY <2>1 DEF Add, Called, Computed, Left, Right
    <2>2. CASE Subtract
        BY <2>2 DEF Subtract, Called, Computed, Left, Right
    <2>3. CASE Rate
        BY <2>3 DEF Rate, Called, Computed, Left, Right
    <2>4. CASE Split
        BY <2>4 DEF Split, Called, Computed, Left, Right
    <2>5. CASE Serve
        BY <2>5 DEF Serve, Called, Computed, Left, Right
    <2>6. CASE Render
        BY <2>6 DEF Render, Called, Computed, Left, Right
    <2>7. CASE UNCHANGED vars
        BY <2>7 DEF vars, Computed, Left, Right
    <2> QED BY <2>1, <2>2, <2>3, <2>4, <2>5, <2>6, <2>7 DEF Next
<1> QED BY <1>1, <1>2, PTL DEF Spec

\* What each function is called with.
LEMMA Arguments ==
    ASSUME call \in Calls
    PROVE  /\ call.op \in {"add", "subtract"} =>
                /\ call.with.a \in Int /\ call.with.b \in Int
                /\ IsMinorUnits(call.with.a) /\ IsMinorUnits(call.with.b)
           /\ call.op = "rate" => call.with[1] \in Int \cup {NaN} /\ call.with[2] \in Int \cup {NaN}
           /\ call.op = "split" => /\ call.with[1] \in Int \cup {NaN}
                                   /\ call.with[2] \in Seq(Int \cup {NaN})
           /\ call.op = "serve" =>
                /\ call.with[1] \in Int \cup {NaN}
                /\ call.with[2] \in Payments \cup {Undefined}
                /\ call.with[3] \in Region \cup {Undefined}
           /\ call.op = "render" => call.with \in Int \cup {NaN}
<1>1. CASE call \in [op: {"add", "subtract"}, with: Sum]
    BY <1>1, NumbersPassedAssumption DEF Sum, IsMinorUnits
<1>2. CASE call \in [op: {"rate"}, with: Amounts \X Rates]
    BY <1>2, NumbersPassedAssumption
<1>3. CASE call \in [op: {"split"}, with: Amounts \X Weightings]
    BY <1>3, NumbersPassedAssumption
<1>4. CASE call \in [op: {"serve"},
                     with: Payments \X (Payments \cup {Undefined}) \X (Region \cup {Undefined})]
    BY <1>4, NumbersPassedAssumption
<1>5. CASE call \in [op: {"render"}, with: Dollars]
    BY <1>5, NumbersPassedAssumption
<1> QED BY <1>1, <1>2, <1>3, <1>4, <1>5 DEF Calls

\* addMoney and subtractMoney.
LEMMA ExactSums == Computed => SumsAreExact
<1> SUFFICES ASSUME Computed, Answered({"add", "subtract"}) PROVE SumsAreExact
    BY DEF SumsAreExact
<1> DEFINE a == call.with.a
           b == call.with.b
           same == call.with.currencies[1] = call.with.currencies[2]
<1>1. /\ a \in Int /\ b \in Int /\ IsInteger(a) /\ IsInteger(b)
      /\ call.op \in {"add", "subtract"} /\ answer # Pending
    BY Arguments DEF Computed, Answered, IsMinorUnits
<1>2. ASSUME NEW x \in Int, IsInteger(x), NEW c
      PROVE  MoneyOf(Nearest(x, 1), c) = IF x \in (-MaxSafe)..MaxSafe
                                         THEN Value([amount |-> x, currency |-> c])
                                         ELSE MoneyError
    <2>1. x \in (-MaxSafe)..MaxSafe => IsMinorUnits(x)
        BY <1>2, NumbersAssumption DEF IsMinorUnits
    <2>2. CASE x \in (-MaxSafe)..MaxSafe
        BY <1>2, <2>1, <2>2, NearestWhole DEF MoneyOf
    <2>3. CASE ~(x \in (-MaxSafe)..MaxSafe)
        BY <1>2, <2>3, NearestWhole DEF MoneyOf
    <2> QED BY <2>2, <2>3
<1>3. IsInteger(a + b) /\ IsInteger(a - b) /\ a + b \in Int /\ a - b \in Int
    <2> HIDE DEF a, b
    <2> QED BY <1>1, Wholes
<1>4. CASE call.op = "add"
    <2>1. answer = IF same THEN MoneyOf(Nearest(a + b, 1), call.with.currencies[1]) ELSE MoneyError
        BY <1>1, <1>4 DEF Computed, AddMoney, Left, Right, Plus
    <2> DEFINE sum == a + b
    <2>2. sum = call.with.a + call.with.b
        OBVIOUS
    <2> HIDE DEF sum
    <2> QED BY <1>2, <1>3, <1>4, <2>1, <2>2 DEF SumsAreExact
<1>5. CASE call.op = "subtract"
    <2>1. answer = IF same THEN MoneyOf(Nearest(a - b, 1), call.with.currencies[1]) ELSE MoneyError
        BY <1>1, <1>5 DEF Computed, SubtractMoney, Left, Right, Minus
    <2> DEFINE rest == a - b
    <2>2. rest = call.with.a - call.with.b
        OBVIOUS
    <2> HIDE DEF rest
    <2> QED BY <1>2, <1>3, <1>5, <2>1, <2>2 DEF SumsAreExact
<1> QED BY <1>1, <1>4, <1>5

\* applyRate.
LEMMA RatesWithin == Computed => RatesStayWithin
<1> SUFFICES ASSUME Computed, Answered({"rate"}), answer.kind = "value" PROVE RatesStayWithin
    BY DEF RatesStayWithin
<1> USE Grid
<1> DEFINE amount == call.with[1]
           rate == call.with[2]
           t == Times(amount, rate)
<1>1. answer = ApplyRate(amount, rate) /\ amount \in Int \cup {NaN} /\ rate \in Int \cup {NaN}
    BY Arguments DEF Computed, Answered
<1> HIDE DEF amount, rate
<1>2. /\ amount \in Int /\ IsMinorUnits(amount) /\ rate \in 0..One
      /\ answer = Value(Round(t))
    BY <1>1 DEF ApplyRate, MoneyError, IsMinorUnits
<1>3. /\ t \in Int
      /\ amount >= 0 => 0 <= t /\ t <= amount
      /\ amount < 0 => amount <= t /\ t <= 0
    BY <1>2, ProductWithin
<1>4. PICK K \in Int : amount = K * One
    BY <1>2, Wholes DEF IsMinorUnits
<1>5. answer.value = Round(t)
    BY <1>2 DEF Value
<1> HIDE DEF t
<1> DEFINE r == Round(t)
<1>6. /\ r \in Int
      /\ 2 * (r - t) <= One /\ 2 * (r - t) > -One
      /\ t <= K * One => r <= K * One
      /\ t >= K * One => r >= K * One
      /\ t <= 0 * One => r <= 0 * One
      /\ t >= 0 * One => r >= 0 * One
    <2>1. 0 \in Int
        OBVIOUS
    <2> QED BY <1>3, <1>4, <2>1, Rounding
<1> HIDE DEF r
<1>7. r \in IF amount < 0 THEN amount..0 ELSE 0..amount
    <2>1. 0 * One = 0
        OBVIOUS
    <2> QED BY <1>2, <1>3, <1>4, <1>6, <2>1
<1>8. ASSUME t * One = amount * rate
      PROVE  /\ 2 * (r * One - amount * rate) \in -(One * One)..(One * One)
             /\ 2 * (r * One - amount * rate) # -(One * One)
    <2> DEFINE e == 2 * (r - t)
    <2>1. e \in Int /\ -One \in Int /\ One \in Int /\ (-One) * One = -(One * One)
          /\ e * One = 2 * (r * One - t * One)
        BY <1>3, <1>6
    <2>2. e <= One /\ -One < e
        BY <1>6
    <2> HIDE DEF e
    <2>3. e * One <= One * One
        BY <2>1, <2>2, TimesKeepsOrder
    <2>4. (-One) * One < e * One
        BY <2>1, <2>2, TimesKeepsOrder
    <2>5. One * One \in Int /\ e * One \in Int
        BY <2>1
    <2> QED BY <1>8, <2>1, <2>3, <2>4, <2>5
<1> QED BY <1>5, <1>7, <1>8 DEF RatesStayWithin, RateIsExact, TwiceTooMuch, ExactProduct,
           r, t, amount, rate

\* Adding and subtracting amounts is exact or refused, and a rate takes no more of an
\* amount than there is, to the nearest unit: addMoney, subtractMoney and applyRate.
THEOREM AmountsExact == Spec => []AmountsAreExact
<1>1. Computed => AmountsAreExact
    BY ExactSums, RatesWithin DEF AmountsAreExact
<1> QED BY <1>1, StaysComputed, PTL

\* Hours and days, in whole numbers: enough, and not one too many.
LEMMA NoteCovers ==
    ASSUME NEW k \in Nat, k * One <= MaxSafe, NEW q \in Nat \ {0}, q < 2 * One
    PROVE  LET hours == Ceil(Over(k * One, q * One))
               days  == Ceil(Over(hours, 4 * One))
               h     == hours \div One
               d     == days \div One
           IN  /\ h * (q * One) >= k * One
               /\ h > 0 => (h - 1) * (q * One) < k * One
               /\ 4 * d >= h /\ 4 * (d - 1) < h
<1> USE Grid
<1> DEFINE hours == Ceil(Over(k * One, q * One))
           days == Ceil(Over(hours, 4 * One))
<1>1. ASSUME NEW n \in Nat PROVE (n * One) \div One = n
    BY Z3
<1>2. PICK h \in Nat : /\ hours = h * One
                       /\ h * q >= k /\ (h > 0 => (h - 1) * q < k) /\ h <= k
    BY CeilingCovers
<1>3. h * One <= MaxSafe
    <2>1. h * One <= k * One
        BY <1>2, TimesKeepsOrder
    <2>2. h * One \in Int /\ k * One \in Int
        OBVIOUS
    <2> QED BY <2>1, <2>2
<1>4. PICK d \in Nat : /\ Ceil(Over(h * One, 4 * One)) = d * One
                       /\ d * 4 >= h /\ (d > 0 => (d - 1) * 4 < h)
    <2>1. 4 \in Nat \ {0} /\ 4 < 2 * One
        BY GridAssumption
    <2> QED BY <1>3, <2>1, CeilingCovers
<1>5. hours \div One = h /\ days \div One = d
    BY <1>1, <1>2, <1>4
<1> HIDE DEF hours, days
<1>6. h * (q * One) >= k * One
    <2>1. k * One <= (h * q) * One
        <3>1. h * q \in Int
            OBVIOUS
        <3> QED BY <1>2, <3>1, TimesKeepsOrder
    <2> QED BY <2>1
<1>7. ASSUME h > 0 PROVE (h - 1) * (q * One) < k * One
    <2>1. ((h - 1) * q) * One < k * One
        <3>1. (h - 1) * q \in Int
            OBVIOUS
        <3> QED BY <1>2, <1>7, <3>1, TimesKeepsOrder
    <2> QED BY <2>1
<1>8. 4 * d >= h /\ 4 * (d - 1) < h
    BY <1>4
<1> QED BY <1>5, <1>6, <1>7, <1>8 DEF hours, days

\* The rate that a note is computed at.
LEMMA RatesAreWhole ==
    ASSUME NEW hourly \in Payments \cup {Undefined}, NEW region \in Region \cup {Undefined},
           hourly # Undefined => hourly # NaN /\ IsInteger(hourly) /\ hourly >= One
    PROVE  \E q \in Nat \ {0} : HourlyRate(hourly, region) = q * One /\ q < 2 * One
<1> USE Grid
<1>1. CASE hourly = Undefined
    <2> DEFINE q == RegionalAverage[IF region = Undefined THEN "US" ELSE region]
    <2>1. (IF region = Undefined THEN "US" ELSE region) \in Region
        BY DEF Region
    <2>2. q \in Nat \ {0} /\ q < 2 * One
        BY <2>1, RegionalAverageAssumption, GridAssumption
    <2>3. HourlyRate(hourly, region) = One * q
        BY <1>1 DEF HourlyRate
    <2> HIDE DEF q
    <2> QED BY <2>2, <2>3
<1>2. CASE hourly # Undefined
    <2>1. /\ hourly \in Int /\ IsInteger(hourly) /\ hourly >= One
          /\ hourly < One * (2 * One) /\ HourlyRate(hourly, region) = hourly
        BY <1>2, NumbersPassedAssumption, GridAssumption DEF HourlyRate
    <2>2. PICK q \in Nat : hourly = q * One
        <3>1. hourly \in Nat
            BY <2>1
        <3> QED BY <2>1, <3>1, Wholes
    <2>3. 2 * One \in Int /\ 0 \in Int /\ q * One > 0 * One /\ q * One < (2 * One) * One
        BY <2>1, <2>2
    <2>4. q > 0
        BY <2>3, TimesKeepsOrder
    <2>5. q < 2 * One
        BY <2>3, TimesKeepsOrder
    <2> QED BY <2>1, <2>2, <2>4, <2>5
<1> QED BY <1>1, <1>2

\* A note that is computed covers its payment.
LEMMA ComputedNoteCovers ==
    ASSUME NEW payment \in Int, NEW hourly, NEW region, NEW q \in Nat \ {0},
           HourlyRate(hourly, region) = q * One, q < 2 * One,
           NEW result, result = ComputeCarNote(payment, hourly, region), result.kind = "value"
    PROVE  LET note  == result.value
               hours == note.hours \div One
               days  == note.days \div One
           IN  /\ hours * note.rate >= note.payment
               /\ hours > 0 => (hours - 1) * note.rate < note.payment
               /\ 4 * days >= hours /\ 4 * (days - 1) < hours
               /\ note.payment = payment
<1> USE Grid
<1>1. IsMinorUnits(payment) /\ payment >= 0
    BY DEF ComputeCarNote, MoneyError
<1>2. PICK k \in Nat : payment = k * One
    BY <1>1, Wholes DEF IsMinorUnits
<1>3. k * One <= MaxSafe
    BY <1>1, <1>2 DEF IsMinorUnits
<1> DEFINE hours == Ceil(Over(k * One, q * One))
           days == Ceil(Over(hours, 4 * One))
<1>4. result.value = [payment |-> k * One, rate |-> q * One, hours |-> hours, days |-> days]
    BY <1>1, <1>2 DEF ComputeCarNote, Value, MoneyError
<1>5. LET h == hours \div One
          d == days \div One
      IN  /\ h * (q * One) >= k * One
          /\ h > 0 => (h - 1) * (q * One) < k * One
          /\ 4 * d >= h /\ 4 * (d - 1) < h
    BY <1>3, NoteCovers
<1> HIDE DEF hours, days
<1> QED BY <1>2, <1>4, <1>5

\* computeCarNote, as the route and the dashboard call it.
LEMMA NotesCover == Computed => NoteCoversPayment
<1> SUFFICES ASSUME Computed, Answered({"serve", "render"}), answer.kind = "value"
             PROVE  NoteCoversPayment
    BY DEF NoteCoversPayment
<1> USE Grid
<1>1. CASE call.op = "serve"
    <2> DEFINE p == call.with[1]
               hourly == call.with[2]
               region == call.with[3]
    <2>1. /\ answer = ServeCarNote(p, hourly, region)
          /\ p \in Int \cup {NaN}
          /\ hourly \in Payments \cup {Undefined} /\ region \in Region \cup {Undefined}
        BY <1>1, Arguments DEF Computed, Answered
    <2> HIDE DEF p, hourly, region
    <2>2. CarNoteDto(p, hourly, region) /\ answer = ComputeCarNote(p, hourly, region)
        BY <2>1 DEF ServeCarNote, BadRequest
    <2>3. p \in Int
        BY <2>1, <2>2 DEF CarNoteDto
    <2>4. PICK q \in Nat \ {0} : HourlyRate(hourly, region) = q * One /\ q < 2 * One
        BY <2>1, <2>2, RatesAreWhole DEF CarNoteDto
    <2>5. LET note  == answer.value
              hours == note.hours \div One
              days  == note.days \div One
          IN  /\ hours * note.rate >= note.payment
              /\ hours > 0 => (hours - 1) * note.rate < note.payment
              /\ 4 * days >= hours /\ 4 * (days - 1) < hours
              /\ note.payment = p
        BY <2>2, <2>3, <2>4, ComputedNoteCovers
    <2> QED BY <1>1, <2>5 DEF NoteCoversPayment, p
<1>2. CASE call.op = "render"
    <2> DEFINE d == call.with
               p == TypedCents(d)
    <2>1. answer = ComputeCarNote(p, Undefined, Undefined) /\ d \in Int \cup {NaN}
        BY <1>2, Arguments DEF Computed, Answered, RenderCarNote
    <2>2. p \in Int
        <3>1. PICK c \in Nat : p = c * One
            BY <2>1, CentsAreWhole
        <3>2. c * One \in Int
            OBVIOUS
        <3> HIDE DEF p
        <3> QED BY <3>1, <3>2
    <2>3. PICK q \in Nat \ {0} : HourlyRate(Undefined, Undefined) = q * One /\ q < 2 * One
        BY RatesAreWhole
    <2>4. ASSUME d # NaN, d >= 0, ToTheCent(d), 4 * p <= MaxSafe
          PROVE  2 * (p - 100 * d) \in (-One)..One
        <3>1. d \in Nat
            BY <2>1, <2>4
        <3> HIDE DEF d
        <3> QED BY <2>4, <3>1, CentsAreAsTyped
    <2> HIDE DEF p
    <2>5. LET note  == answer.value
              hours == note.hours \div One
              days  == note.days \div One
          IN  /\ hours * note.rate >= note.payment
              /\ hours > 0 => (hours - 1) * note.rate < note.payment
              /\ 4 * days >= hours /\ 4 * (days - 1) < hours
              /\ note.payment = p
        BY <2>1, <2>2, <2>3, ComputedNoteCovers
    <2> HIDE DEF d
    <2>6. call.op # "serve"
        BY <1>2
    <2> QED BY <2>4, <2>5, <2>6 DEF NoteCoversPayment, d
<1> QED BY <1>1, <1>2 DEF Answered

\* When it throws.
LEMMA UnsafeFails == Computed => OnlyUnsafeNoteFails
<1> SUFFICES ASSUME Computed PROVE OnlyUnsafeNoteFails
    OBVIOUS
<1> USE Grid
<1>1. ASSUME Answered({"render"}), answer = MoneyError PROVE 100 * call.with > MaxSafe
    <2> DEFINE d == call.with
               p == TypedCents(d)
    <2>1. answer = ComputeCarNote(p, Undefined, Undefined) /\ d \in Int \cup {NaN}
        BY <1>1, Arguments DEF Computed, Answered, RenderCarNote
    <2>2. PICK q \in Nat \ {0} : HourlyRate(Undefined, Undefined) = q * One
        BY RatesAreWhole
    <2>3. ~(HourlyRate(Undefined, Undefined) <= 0)
        BY <2>2
    <2>4. PICK c \in Nat : p = c * One
        BY <2>1, CentsAreWhole
    <2>5. p \in Int /\ p >= 0 /\ IsInteger(p)
        <3>1. c \in Int /\ c * One \in Int /\ c * One >= 0
            OBVIOUS
        <3>2. IsInteger(c * One)
            BY <3>1, Wholes
        <3> HIDE DEF p
        <3> QED BY <2>4, <3>1, <3>2
    <2>6. ~IsMinorUnits(p)
        BY <1>1, <2>1, <2>3, <2>5 DEF ComputeCarNote, MoneyError, Value
    <2>7. p > MaxSafe
        BY <2>5, <2>6, NumbersAssumption DEF IsMinorUnits
    <2>8. d # NaN
        <3>1. ASSUME d = NaN PROVE FALSE
            BY <2>7, <3>1 DEF TypedCents
        <3> QED BY <3>1
    <2>9. d \in Int /\ ~(100 * d <= MaxSafe)
        BY <2>1, <2>5, <2>7, <2>8, CentsAreWhole
    <2> QED BY <2>9
<1>2. ASSUME Answered({"serve"}), answer = MoneyError PROVE call.with[1] > MaxSafe
    <2> DEFINE p == call.with[1]
               hourly == call.with[2]
               region == call.with[3]
    <2>1. /\ answer = ServeCarNote(p, hourly, region)
          /\ p \in Int \cup {NaN}
          /\ hourly \in Payments \cup {Undefined} /\ region \in Region \cup {Undefined}
        BY <1>2, Arguments DEF Computed, Answered
    <2> HIDE DEF p, hourly, region
    <2>2. CarNoteDto(p, hourly, region) /\ answer = ComputeCarNote(p, hourly, region)
        <3>1. MoneyError # BadRequest
            BY DEF MoneyError, BadRequest
        <3> QED BY <1>2, <2>1, <3>1 DEF ServeCarNote
    <2>3. p \in Int /\ p >= 0 /\ IsInteger(p)
        BY <2>1, <2>2 DEF CarNoteDto
    <2>4. PICK q \in Nat \ {0} : HourlyRate(hourly, region) = q * One
        BY <2>1, <2>2, RatesAreWhole DEF CarNoteDto
    <2>5. ~(HourlyRate(hourly, region) <= 0)
        BY <2>4
    <2>6. ~IsMinorUnits(p)
        BY <1>2, <2>2, <2>3, <2>5 DEF ComputeCarNote, MoneyError, Value
    <2> QED BY <2>3, <2>6, NumbersAssumption DEF IsMinorUnits, p
<1> QED BY <1>1, <1>2 DEF OnlyUnsafeNoteFails

\* The hours of a note cover its payment, an hour less would not, and so the days:
\* computeCarNote, called by the route and by the dashboard.
THEOREM CarNoteCovers == Spec => []NoteCoversPayment
    BY NotesCover, StaysComputed, PTL

\* The dashboard survives whatever is typed, and the route whatever its DTO lets by,
\* short of a payment above the largest safe integer.
THEOREM CarNoteFailsWhenUnsafe == Spec => []OnlyUnsafeNoteFails
    BY UnsafeFails, StaysComputed, PTL

\* The parts of a split make up its total, over whole weights while every product is
\* exact, however many there are: splitMinorUnits.
THEOREM SplitsConserveTotal == Spec => []SplitConserves
<1>1. Computed => SplitConserves
    <2> SUFFICES ASSUME Computed, Answered({"split"}), answer.kind = "value" PROVE SplitConserves
        BY DEF SplitConserves
    <2> DEFINE total == call.with[1]
               weights == call.with[2]
    <2>1. /\ answer = SplitMinorUnits(total, weights)
          /\ total \in Int \cup {NaN} /\ weights \in Seq(Int \cup {NaN})
        BY Arguments DEF Computed, Answered
    <2> HIDE DEF total, weights
    <2>2. Whole(weights) /\ (\A i \in DOMAIN weights : total * (weights[i] \div One) <= MaxSafe)
              => SumOf(answer.value) = total
        BY <2>1, SplitsConserve
    <2> QED BY <2>2 DEF SplitConserves, total, weights
<1> QED BY <1>1, StaysComputed, PTL

\* The parts of a split of little make up its total, over any weights: splitMinorUnits.
THEOREM LittleSplitsConserve == Spec => []SplitOfLittleConserves
<1>1. Computed => SplitOfLittleConserves
    <2> SUFFICES ASSUME Computed, Answered({"split"}), answer.kind = "value",
                        (2 * Len(call.with[2]) + 2) * call.with[1] <= MaxSafe
                 PROVE  SumOf(answer.value) = call.with[1]
        BY DEF SplitOfLittleConserves
    <2> DEFINE total == call.with[1]
               weights == call.with[2]
    <2>1. /\ answer = SplitMinorUnits(total, weights)
          /\ total \in Int \cup {NaN} /\ weights \in Seq(Int \cup {NaN})
        BY Arguments DEF Computed, Answered
    <2> HIDE DEF total, weights
    <2>2. (2 * Len(weights) + 2) * total <= MaxSafe
        BY DEF total, weights
    <2> QED BY <2>1, <2>2, SplitsOfLittle DEF total, weights
<1> QED BY <1>1, StaysComputed, PTL

\* No part is a unit off what is due, and the units left over go to the largest
\* remainders, over whole weights while twice the total times their sum is safe.
THEOREM SplitsFairly == Spec => []SplitIsFair
<1>1. Computed => SplitIsFair
    <2> SUFFICES ASSUME Computed, Answered({"split"}), answer.kind = "value" PROVE SplitIsFair
        BY DEF SplitIsFair
    <2> DEFINE total == call.with[1]
               weights == call.with[2]
    <2>1. /\ answer = SplitMinorUnits(total, weights)
          /\ total \in Int \cup {NaN} /\ weights \in Seq(Int \cup {NaN})
        BY Arguments DEF Computed, Answered
    <2> HIDE DEF total, weights
    <2> QED BY <2>1, SplitsAreFair DEF SplitIsFair, total, weights
<1> QED BY <1>1, StaysComputed, PTL

=============================================================================
