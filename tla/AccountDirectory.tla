-------------------------- MODULE AccountDirectory --------------------------
(***************************************************************************)
(* What registration promises its callers, without handlers, awaits or     *)
(* crashes: a directory of accounts that only grows, in which every request*)
(* is decided once, in one atomic step.                                    *)
(***************************************************************************)
EXTENDS Http

CONSTANT Requests

VARIABLES
    accounts,   \* the accounts opened so far
    asked,      \* the requests sent so far
    caller,     \* the login each of them comes from; Null when it has none
    known,      \* whether that login had an account when it asked
    outcome     \* the decision; Null while there is none

vars == <<accounts, asked, caller, known, outcome>>

Init ==
    /\ accounts = {}
    /\ asked = {}
    /\ caller = [r \in Requests |-> Null]
    /\ known = [r \in Requests |-> FALSE]
    /\ outcome = [r \in Requests |-> Null]

Ask(r, login) ==
    /\ r \notin asked
    /\ asked' = asked \cup {r}
    /\ caller' = [caller EXCEPT ![r] = login]
    /\ known' = [known EXCEPT ![r] = login # Null /\ \E a \in accounts : a.login = login]
    /\ UNCHANGED <<accounts, outcome>>

Decide(r, decision) ==
    /\ r \in asked
    /\ outcome[r] = Null
    /\ outcome' = [outcome EXCEPT ![r] = decision]
    /\ UNCHANGED <<asked, caller, known>>

\* An active owner account under keys nobody holds.  The caller may not hear of it.
Open(r) ==
    \E id \in FreshUserIds(accounts) :
        /\ Decide(r, Ok(id)) \/ Decide(r, ServerError)
        /\ \E account \in OwnerAccounts(id, caller[r]) :
              /\ UserKeysFree(accounts, account)
              /\ accounts' = accounts \cup {account}

\* The caller's own account.
Recognise(r) ==
    \E account \in accounts :
        /\ caller[r] # Null
        /\ account.login = caller[r]
        /\ Decide(r, Ok(account.id))
        /\ UNCHANGED accounts

\* Never said to a caller that already had its account when it asked.
Refuse(r) ==
    /\ ~known[r]
    /\ accounts # {}
    /\ Decide(r, Conflict)
    /\ UNCHANGED accounts

Fail(r) ==
    /\ Decide(r, Unauthorized) \/ Decide(r, ServerError)
    /\ UNCHANGED accounts

Next ==
    \E r \in Requests :
        \/ \E login \in Logins \cup {Null} : Ask(r, login)
        \/ Open(r) \/ Recognise(r) \/ Refuse(r) \/ Fail(r)

Spec == Init /\ [][Next]_vars

=============================================================================
