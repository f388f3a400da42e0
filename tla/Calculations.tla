---------------------------- MODULE Calculations ----------------------------
(***************************************************************************)
(* One call to the shared calculations, from anything a caller may pass:   *)
(* the money helpers, which any part of the system may use, and the two    *)
(* surfaces of Car Note Mode.  The calls share nothing, so one is enough.  *)
(***************************************************************************)
EXTENDS CarNote

CONSTANTS   \* the numbers passed (bounds on the inputs)
    Terms, Amounts, Rates, Weightings, Payments, Dollars

\* A Money's amount has been asserted; anything else is any number.
ASSUME NumbersPassedAssumption ==
    /\ \A t \in Terms : IsMinorUnits(t)
    /\ Amounts \cup Rates \cup Payments \cup Dollars \subseteq Int \cup {NaN}
    /\ \A weights \in Weightings : weights \in Seq(Int \cup {NaN})

\* The grid tells a hundredth, and every quotient from a whole number (a bound of the
\* model: the code's numbers have 53 bits, and 1074 of them behind the point).
ASSUME GridAssumption ==
    /\ Bits >= 2 /\ Bits <= FractionBits /\ One >= 200
    /\ \A region \in Region : RegionalAverage[region] < 2 * One
    /\ \A p \in Payments \ {NaN} : p < One * (2 * One)

VARIABLES
    call,     \* the function called and its arguments
    answer    \* what it returned or threw

vars == <<call, answer>>

Pending == [kind |-> "pending"]

Sum == [a: Terms, b: Terms, currencies: Currency \X Currency]

Calls ==
    [op: {"add", "subtract"}, with: Sum]
    \cup [op: {"rate"}, with: Amounts \X Rates]
    \cup [op: {"split"}, with: Amounts \X Weightings]
    \cup [op: {"serve"}, with: Payments \X (Payments \cup {Undefined}) \X (Region \cup {Undefined})]
    \cup [op: {"render"}, with: Dollars]

Init == call \in Calls /\ answer = Pending

Called(op, result) ==
    /\ answer = Pending
    /\ call.op = op
    /\ answer' = result
    /\ UNCHANGED call

Left == [amount |-> call.with.a, currency |-> call.with.currencies[1]]
Right == [amount |-> call.with.b, currency |-> call.with.currencies[2]]

Add == Called("add", AddMoney(Left, Right))
Subtract == Called("subtract", SubtractMoney(Left, Right))
Rate == Called("rate", ApplyRate(call.with[1], call.with[2]))
Split == Called("split", SplitMinorUnits(call.with[1], call.with[2]))
Serve == Called("serve", ServeCarNote(call.with[1], call.with[2], call.with[3]))
Render == Called("render", RenderCarNote(call.with))

Next == Add \/ Subtract \/ Rate \/ Split \/ Serve \/ Render

Spec == Init /\ [][Next]_vars

-----------------------------------------------------------------------------
(* Properties.  Exact arithmetic on the numbers as written is the reference*)
(* the code's floating point is held against.                              *)

Answered(ops) == answer # Pending /\ call.op \in ops

Sums(numbers) ==
    LET sum[k \in 0..Len(numbers)] == IF k = 0 THEN 0 ELSE sum[k - 1] + numbers[k]
    IN  sum

SumOf(numbers) == Sums(numbers)[Len(numbers)]

Whole(weights) == \A i \in DOMAIN weights : IsInteger(weights[i])

\* Adding and subtracting amounts is exact or refused, up to the largest safe
\* integer and past it: a sum that floating point had to round is never returned.
SumsAreExact ==
    Answered({"add", "subtract"}) =>
        LET exact == IF call.op = "add" THEN call.with.a + call.with.b
                                        ELSE call.with.a - call.with.b
            fits  == exact \in (-MaxSafe)..MaxSafe
        IN  IF call.with.currencies[1] = call.with.currencies[2] /\ fits
            THEN answer = Value([amount |-> exact, currency |-> call.with.currencies[1]])
            ELSE answer = MoneyError

\* The exact product of amount and rate, in units of One * One, which is a unit of money;
\* whether floating point has it; and twice what the answer is above it.
ExactProduct == call.with[1] * call.with[2]
RateIsExact == Times(call.with[1], call.with[2]) * One = ExactProduct
TwiceTooMuch == 2 * (answer.value * One - ExactProduct)

\* A rate takes no more than there is, and, where the product is exact, a whole amount
\* nearest to it: of two as near, the larger when there is something to take.
RatesStayWithin ==
    Answered({"rate"}) /\ answer.kind = "value" =>
        LET amount == call.with[1]
        IN  /\ answer.value \in IF amount < 0 THEN amount..0 ELSE 0..amount
            /\ RateIsExact =>
                  /\ TwiceTooMuch \in -(One * One)..(One * One)
                  /\ amount >= 0 => TwiceTooMuch # -(One * One)

\* "rounding to the nearest minor unit (half away from zero)" (money.ts:52-53), of an exact
\* product of either sign: no half is rounded towards zero.
RatesRoundHalfAway ==
    Answered({"rate"}) /\ answer.kind = "value" /\ RateIsExact =>
        /\ TwiceTooMuch \in -(One * One)..(One * One)
        /\ TwiceTooMuch # IF call.with[1] < 0 THEN One * One ELSE -(One * One)

\* The two together: no single amount is ever off by what floating point lost.
AmountsAreExact == SumsAreExact /\ RatesStayWithin

\* "the parts sum exactly to the total" (money.ts:64-65), as far as it holds: over whole
\* weights, however many, while every product of total and weight is exact.
SplitConserves ==
    Answered({"split"}) /\ answer.kind = "value" =>
        LET total   == call.with[1]
            weights == call.with[2]
        IN  Whole(weights) /\ (\A i \in DOMAIN weights :
                                   total * (weights[i] \div One) <= MaxSafe)
              => SumOf(answer.value) = total

\* And over any weights, fractions too, while the total times twice the number of
\* buckets and two is safe.  Above that both halves of an odd total can round up, and a
\* unit is invented: 89 of at most 127, for one.
SplitOfLittleConserves ==
    /\ Answered({"split"}) /\ answer.kind = "value"
    /\ (2 * Len(call.with[2]) + 2) * call.with[1] <= MaxSafe
    => SumOf(answer.value) = call.with[1]

\* Every part is within a unit of what exact arithmetic would give it, and the
\* units left over went to the largest remainders: for whole weights, where floating
\* point cannot confuse two of them, none was rounded up before one due more.
SplitIsFair ==
    Answered({"split"}) /\ answer.kind = "value" =>
        LET total   == call.with[1] \div One
            weights == call.with[2]
            sum     == SumOf(weights)
            Due(i)  == total * weights[i]             \* over sum
            Part(i) == (answer.value[i] \div One) * sum
        IN  Whole(weights) /\ sum > 0 /\ 2 * total * sum <= MaxSafe =>
              \A i \in DOMAIN weights :
                  /\ Part(i) - Due(i) \in (1 - sum)..(sum - 1)
                  /\ \A j \in DOMAIN weights :
                        Part(i) > Due(i) /\ Part(j) < Due(j) =>
                            Due(i) % sum >= Due(j) % sum

\* The dollars are a whole number of cents, as near to it as a number gets.
ToTheCent(dollars) == dollars = Nearest(Round(100 * dollars), 100)

\* The hours shown cover the payment, an hour less would not, and the same for
\* the days, for every payment up to the largest safe integer, although the
\* division is rounded before its ceiling is taken.  On the dashboard the payment
\* is the one typed, when that is to the cent.
NoteCoversPayment ==
    Answered({"serve", "render"}) /\ answer.kind = "value" =>
        LET note  == answer.value
            hours == note.hours \div One
            days  == note.days \div One
        IN  /\ hours * note.rate >= note.payment
            /\ hours > 0 => (hours - 1) * note.rate < note.payment
            /\ 4 * days >= hours /\ 4 * (days - 1) < hours
            /\ call.op = "serve" => note.payment = call.with[1]
            /\ (/\ call.op = "render" /\ call.with # NaN /\ call.with >= 0
                /\ ToTheCent(call.with) /\ 4 * note.payment <= MaxSafe)
                  => 2 * (note.payment - 100 * call.with) \in (-One)..One

\* Whatever is typed, the dashboard survives it, unless it is more cents than the
\* largest safe integer; and the API fails on the same payments, no others.
OnlyUnsafeNoteFails ==
    /\ Answered({"render"}) /\ answer = MoneyError => 100 * call.with > MaxSafe
    /\ Answered({"serve"}) /\ answer = MoneyError => call.with[1] > MaxSafe

=============================================================================
