----------------------------- MODULE TripPromise -----------------------------
(***************************************************************************)
(* What a booking promises its driver and its owner, without the states in *)
(* which the code gets there: nothing is secured before it is insured, the *)
(* car changes hands once, and after that nobody can call the trip off.    *)
(***************************************************************************)

VARIABLES
    phase,     \* none, open, secured, out, back, closed, off
    insured    \* there is a policy for the trip

vars == <<phase, insured>>

Init == phase = "none" /\ insured = FALSE

Step(from, to) ==
    /\ phase = from
    /\ phase' = to
    /\ UNCHANGED insured

Propose == Step("none", "open")

Insure ==
    /\ phase # "none"
    /\ insured' = TRUE
    /\ UNCHANGED phase

Secure == insured /\ Step("open", "secured")

HandOver == Step("secured", "out")

Return == Step("out", "back")

Close == Step("back", "closed")

CallOff == Step("open", "off") \/ Step("secured", "off")

Next == Propose \/ Insure \/ Secure \/ HandOver \/ Return \/ Close \/ CallOff

Spec == Init /\ [][Next]_vars

=============================================================================
