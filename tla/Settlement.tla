----------------------------- MODULE Settlement -----------------------------
(***************************************************************************)
(* The money of one completed trip: its insurance cost is prorated, the    *)
(* payout is computed (PayoutService.preview) and disbursed                *)
(* (PayoutService.disburse): two transfers started together, awaited with  *)
(* Promise.all.  A transfer is a remote call: it may move the money and    *)
(* answer, fail, or move the money and lose the answer.                    *)
(*                                                                         *)
(* No caller of disburse exists yet.  The caller here calls it again only  *)
(* after a call was rejected, MaxAttempts times in all.                    *)
(***************************************************************************)
EXTENDS Payout, Sequences, Functions

CONSTANTS
    MaxAttempts, \* how often disburse is called for the trip (a bound)
    Grosses,     \* trip earnings to settle (a bound on the inputs)
    Durations,   \* trip lengths in hours (a bound on the inputs)
    NoBreakdown  \* nothing has been computed

ASSUME SettlementInputsAssumption ==
    /\ MaxAttempts \in Nat
    /\ Grosses \subseteq Int
    /\ Durations \subseteq Int

Attempts == 1..MaxAttempts

PayoutBreakdown ==
    [driverShare: Int, ownerShare: Int, platformGross: Int, platformNet: Int,
     flagged: BOOLEAN]

ASSUME NoBreakdownAssumption == NoBreakdown \notin PayoutBreakdown

Payee == {"driver", "owner"}

VARIABLES
    trip,        \* gross, the three tiers and the duration
    breakdown,   \* the computed payout
    refused,     \* computePayout threw a MoneyError
    callPc,      \* per attempt: idle, waiting, fulfilled, rejected
    transfers,   \* per attempt and payee: none, sent, answered, failed
    ids,         \* per attempt: what disburse returned
    ledger       \* external: the transfers whose money has moved

vars == <<trip, breakdown, refused, callPc, transfers, ids, ledger>>

Trips ==
    [gross: Grosses, duration: Durations, driverTier: TrustTier, ownerTier: OwnerTier,
     vehicleTier: VehicleTier]

InputOf(t) ==
    [gross |-> t.gross, driverTier |-> t.driverTier, ownerTier |-> t.ownerTier,
     vehicleTier |-> t.vehicleTier,
     insuranceCost |-> Prorate(WeeklyCostByTier[t.vehicleTier], t.duration)]

Init ==
    /\ trip \in Trips
    /\ breakdown = NoBreakdown
    /\ refused = FALSE
    /\ callPc = [a \in Attempts |-> "idle"]
    /\ transfers = [a \in Attempts |-> [p \in Payee |-> "none"]]
    /\ ids = [a \in Attempts |-> <<>>]
    /\ ledger = {}

Share(payee) == IF payee = "driver" THEN breakdown.driverShare ELSE breakdown.ownerShare

-----------------------------------------------------------------------------
\* PayoutService.preview.
Preview ==
    /\ breakdown = NoBreakdown
    /\ ~refused
    /\ IF Payable(InputOf(trip))
       THEN breakdown' = ComputePayout(InputOf(trip)) /\ UNCHANGED refused
       ELSE refused' = TRUE /\ UNCHANGED breakdown
    /\ UNCHANGED <<trip, callPc, transfers, ids, ledger>>

\* PayoutService.disburse: both transfers are requested before either is
\* awaited.  A flag does not hold it up.
Disburse(a) ==
    /\ breakdown # NoBreakdown
    /\ callPc[a] = "idle"
    /\ \A b \in Attempts : b < a => callPc[b] = "rejected"
    /\ callPc' = [callPc EXCEPT ![a] = "waiting"]
    /\ transfers' = [transfers EXCEPT ![a] = [p \in Payee |-> "sent"]]
    /\ UNCHANGED <<trip, breakdown, refused, ids, ledger>>

\* A transfer's id is named for its attempt and its payee.
TransferOf(a, p) == [attempt |-> a, payee |-> p, amount |-> Share(p)]

\* External: the payments provider moves the money, perhaps only after the API
\* has given up on the request.
MoveMoney(a, p) ==
    /\ transfers[a][p] \in {"sent", "failed"}
    /\ ledger' = ledger \cup {TransferOf(a, p)}
    /\ UNCHANGED <<trip, breakdown, refused, callPc, transfers, ids>>

\* Mutation of TransferAnswered: Promise.race where Promise.all was meant.
TransferAnsweredFirst(a, p) ==
    /\ transfers[a][p] = "sent" /\ TransferOf(a, p) \in ledger
    /\ transfers' = [transfers EXCEPT ![a][p] = "answered"]
    /\ IF callPc[a] = "waiting"
       THEN /\ callPc' = [callPc EXCEPT ![a] = "fulfilled"]
            /\ ids' = [ids EXCEPT ![a] = <<TransferOf(a, p)>>]
       ELSE UNCHANGED <<callPc, ids>>
    /\ UNCHANGED <<trip, breakdown, refused, ledger>>

\* A createTransfer promise fulfils.  Promise.all fulfils with the last one, its
\* results in the order the promises were given, not the order they came in.
TransferAnswered(a, p) ==
    /\ transfers[a][p] = "sent" /\ TransferOf(a, p) \in ledger
    /\ transfers' = [transfers EXCEPT ![a][p] = "answered"]
    /\ IF callPc[a] = "waiting" /\ \A q \in Payee \ {p} : transfers[a][q] = "answered"
       THEN /\ callPc' = [callPc EXCEPT ![a] = "fulfilled"]
            /\ ids' = [ids EXCEPT ![a] = <<TransferOf(a, "driver"), TransferOf(a, "owner")>>]
       ELSE UNCHANGED <<callPc, ids>>
    /\ UNCHANGED <<trip, breakdown, refused, ledger>>

\* A createTransfer promise rejects, whether the money has moved or not.  The
\* first rejection rejects disburse; the other transfer goes on unobserved.
TransferFailed(a, p) ==
    /\ transfers[a][p] = "sent"
    /\ transfers' = [transfers EXCEPT ![a][p] = "failed"]
    /\ callPc' = IF callPc[a] = "waiting" THEN [callPc EXCEPT ![a] = "rejected"] ELSE callPc
    /\ UNCHANGED <<trip, breakdown, refused, ids, ledger>>

Next ==
    \/ Preview
    \/ \E a \in Attempts :
          \/ Disburse(a)
          \/ \E p \in Payee : MoveMoney(a, p) \/ TransferAnswered(a, p) \/ TransferFailed(a, p)

Spec == Init /\ [][Next]_vars

-----------------------------------------------------------------------------
(* Properties.                                                             *)

Computed == breakdown # NoBreakdown

Transfer == [attempt: Attempts, payee: Payee, amount: Int]

\* Types.
TypeOK ==
    /\ trip \in Trips
    /\ breakdown = NoBreakdown \/ breakdown \in PayoutBreakdown
    /\ refused \in BOOLEAN
    /\ callPc \in [Attempts -> {"idle", "waiting", "fulfilled", "rejected"}]
    /\ transfers \in [Attempts -> [Payee -> {"none", "sent", "answered", "failed"}]]
    /\ \A a \in Attempts : Len(ids[a]) <= 2 /\ Range(ids[a]) \subseteq Transfer
    /\ ledger \subseteq Transfer

\* Rounding neither makes nor loses a cent, nor makes anyone owe: the shares are
\* amounts, and with the platform's gross, or its net and the insurance cost,
\* they are the trip's gross.
SharesConserve ==
    Computed =>
        LET cost == InputOf(trip).insuranceCost
            b    == breakdown
        IN  /\ b.driverShare \in 0..trip.gross
            /\ b.ownerShare \in 0..trip.gross
            /\ b.driverShare + b.ownerShare + b.platformGross = trip.gross
            /\ b.driverShare + b.ownerShare + b.platformNet + cost = trip.gross

\* A payout is flagged exactly when it promises more than the trip grossed, and
\* rounding alone never brings that about: before insurance the platform is short
\* only where the owner's rate exceeds its own take.
LossIsFlagged ==
    Computed =>
        /\ PayoutStatusFor(breakdown) = "FLAGGED_REVIEW"
             <=> breakdown.driverShare + breakdown.ownerShare
                    + InputOf(trip).insuranceCost > trip.gross
        /\ breakdown.platformGross < 0
             => OwnerAccessShareRate(trip.ownerTier, trip.vehicleTier)
                    > PlatformDriverTakeRate(trip.driverTier)

\* Standing pays: on the same trip a driver of a higher trust tier keeps no less,
\* an owner of a higher tier earns no less, and neither at the other's expense.
StandingPays ==
    Computed =>
        /\ \A better \in TrustTier :
              TrustTierRank[better] > TrustTierRank[trip.driverTier] =>
                LET b == ComputePayout([InputOf(trip) EXCEPT !.driverTier = better])
                IN  /\ b.driverShare >= breakdown.driverShare
                    /\ b.ownerShare = breakdown.ownerShare
        /\ \A better \in OwnerTier :
              OwnerTierRank[better] > OwnerTierRank[trip.ownerTier] =>
                LET b == ComputePayout([InputOf(trip) EXCEPT !.ownerTier = better])
                IN  /\ b.ownerShare >= breakdown.ownerShare
                    /\ b.driverShare = breakdown.driverShare

\* A fulfilled disburse has paid both parties their shares and names the two
\* transfers, driver first; whatever else was moved for the trip, late transfers
\* included, was moved by a call that was rejected.
FulfilledPaysBoth ==
    \A a \in Attempts : callPc[a] = "fulfilled" =>
        /\ ids[a] = <<TransferOf(a, "driver"), TransferOf(a, "owner")>>
        /\ Range(ids[a]) \subseteq ledger
        /\ \A t \in ledger \ Range(ids[a]) : callPc[t.attempt] = "rejected"

Decision == IF Computed THEN "made" ELSE IF refused THEN "refused" ELSE "open"

Due == [p \in Payee |-> IF Computed THEN Share(p) ELSE 0]

\* The parties' view (PayoutPromise): one decision, paid once by a call that is
\* confirmed and at most once by one that gave up, whatever the two concurrent
\* transfers of this call and the late ones of earlier calls do.
Promise ==
    INSTANCE PayoutPromise WITH
        Calls <- Attempts,
        Party <- Payee,
        earned <- trip.gross,
        decision <- Decision,
        due <- Due,
        call <- callPc,
        paid <- ledger,
        receipt <- ids

ImplementsPromise == Promise!Spec

=============================================================================
