------------------------------ MODULE OwnerApi ------------------------------
(***************************************************************************)
(* The owner side of the API as one process over one database: the public  *)
(* registration route (Identity) and the authenticated routes              *)
(* (OwnerSession) interleave at their awaits and share the User table.  A  *)
(* crash takes every request in flight with it.                            *)
(***************************************************************************)
EXTENDS Auth

CONSTANTS Registrations, Calls, MaxInt, OfferedListings

VARIABLES
    users, ownerProfiles, vehicles,
    regPc, regForm, regLogin, regAnswer, regKnown,
    callPc, callRequest, callClaims, callRow, callAnswer, callBefore

Registration == INSTANCE Identity
Session == INSTANCE OwnerSession

ASSUME MaxIntAssumption == MaxInt \in Nat
ASSUME OfferedListingsAssumption == OfferedListings \subseteq Session!ListingForm

registrationVars == <<ownerProfiles, regPc, regForm, regLogin, regAnswer, regKnown>>
sessionVars == <<vehicles, callPc, callRequest, callClaims, callRow, callAnswer, callBefore>>
vars == <<users, registrationVars, sessionVars>>

Init == Registration!Init /\ Session!Init

Register == Registration!RegistrationStep /\ UNCHANGED sessionVars

Serve == Session!SessionStep /\ UNCHANGED registrationVars

Crash ==
    /\ \/ \E r \in Registrations : regPc[r] \in Registration!InFlight
       \/ \E c \in Calls : callPc[c] \in Session!InFlight
    /\ Registration!CrashRegistrations
    /\ Session!CrashCalls
    /\ UNCHANGED <<users, ownerProfiles, vehicles,
                   regForm, regLogin, regAnswer, regKnown,
                   callRequest, callClaims, callRow, callAnswer, callBefore>>

Next == Register \/ Serve \/ Crash

Fairness ==
    /\ \A r \in Registrations :
          WF_vars(Registration!Handle(r) /\ UNCHANGED sessionVars)
    /\ \A c \in Calls :
          WF_vars(Session!Handle(c) /\ UNCHANGED registrationVars)

Safety == Init /\ [][Next]_vars

Spec == Safety /\ Fairness

-----------------------------------------------------------------------------
(* Properties.                                                             *)

\* Every vehicle leads back to a person: its owner is an account that some
\* registration asked for, with that login and that email.
VehiclesTraceToRegistrations ==
    \A v \in vehicles :
        \E u \in users, r \in Registrations :
            /\ u.id = v.ownerId
            /\ regForm[r].email = u.email
            /\ u.login = regLogin[r]

\* What a login creates is owned by the account its registration opened, even if
\* that account was committed while the call was already waiting at the guard.
CreatedUnderCallersAccount ==
    \A c \in Calls :
        /\ HasExternalIdentity
        /\ callAnswer[c] # Null /\ callAnswer[c].kind = "ok"
        /\ callRequest[c].route = "create"
        => \A v \in callAnswer[c].value :
              \E u \in users, r \in Registrations :
                  /\ u.id = v.ownerId
                  /\ u.login = callRequest[c].token
                  /\ regForm[r].token = u.login /\ regForm[r].email = u.email

\* Once a registration was answered with an account, a call made later with the
\* same login is served as that account, whatever runs in between.
RegistrationCarriesOver ==
    [][\A r \in Registrations, c \in Calls :
          /\ HasExternalIdentity
          /\ regPc[r] = "answered" /\ regAnswer[r].kind = "ok"
          /\ callPc[c] = "guard" /\ callRequest[c].token = regForm[r].token
          /\ callPc'[c] = "handle"
          => callClaims'[c] = [userId |-> regAnswer[r].value, role |-> "OWNER"]]_vars

\* Every request to either part is eventually answered or lost.
EveryRequestEnds == Registration!EveryRegistrationEnds /\ Session!EveryCallEnds

\* Composed, the session is still its own specification: all that a registration does to
\* the User table is to open accounts under free keys, which is what the session expects
\* of its environment.
ImplementsSession == Session!Safety

=============================================================================
