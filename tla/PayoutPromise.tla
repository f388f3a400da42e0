---------------------------- MODULE PayoutPromise ----------------------------
(***************************************************************************)
(* What a trip's settlement promises its driver and its owner, without the *)
(* transfers by which the code gets there: what each is due is decided     *)
(* once; a call pays each of them once at most, and no more nor less than  *)
(* that; it is confirmed when both have been paid by it, with a receipt,   *)
(* driver first; and it is made only when every earlier one has given up.  *)
(* A call that has given up may still pay: nothing takes money back.       *)
(***************************************************************************)
EXTENDS Integers

CONSTANTS Calls, Party

VARIABLES
    earned,     \* what the trip grossed
    decision,   \* open, refused, made
    due,        \* what each party is due, once that is decided
    call,       \* per call: idle, waiting, fulfilled, rejected
    paid,       \* the payments made
    receipt     \* per call: what it was answered

vars == <<earned, decision, due, call, paid, receipt>>

Init ==
    /\ earned \in Int
    /\ decision = "open"
    /\ due = [p \in Party |-> 0]
    /\ call = [c \in Calls |-> "idle"]
    /\ paid = {}
    /\ receipt = [c \in Calls |-> <<>>]

\* Nobody owes anything, nor is due more than the trip grossed.
Decide ==
    /\ decision = "open"
    /\ decision' = "made"
    /\ due' \in [Party -> 0..earned]
    /\ UNCHANGED <<earned, call, paid, receipt>>

Refuse ==
    /\ decision = "open"
    /\ decision' = "refused"
    /\ UNCHANGED <<earned, due, call, paid, receipt>>

Becomes(c, from, to) ==
    /\ call[c] = from
    /\ call' = [call EXCEPT ![c] = to]
    /\ UNCHANGED <<earned, decision, due, paid>>

Ask(c) ==
    /\ decision = "made"
    /\ \A b \in Calls : b < c => call[b] = "rejected"
    /\ Becomes(c, "idle", "waiting")
    /\ UNCHANGED receipt

Payment(c, p) == [attempt |-> c, payee |-> p, amount |-> due[p]]

Pay(c, p) ==
    /\ call[c] \in {"waiting", "rejected"}
    /\ Payment(c, p) \notin paid
    /\ paid' = paid \cup {Payment(c, p)}
    /\ UNCHANGED <<earned, decision, due, call, receipt>>

Confirm(c) ==
    /\ \A p \in Party : Payment(c, p) \in paid
    /\ Becomes(c, "waiting", "fulfilled")
    /\ receipt' = [receipt EXCEPT ![c] = <<Payment(c, "driver"), Payment(c, "owner")>>]

GiveUp(c) == Becomes(c, "waiting", "rejected") /\ UNCHANGED receipt

Next ==
    \/ Decide
    \/ Refuse
    \/ \E c \in Calls : \/ Ask(c) \/ Confirm(c) \/ GiveUp(c)
                        \/ \E p \in Party : Pay(c, p)

Spec == Init /\ [][Next]_vars

=============================================================================
