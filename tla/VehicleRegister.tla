--------------------------- MODULE VehicleRegister ---------------------------
(***************************************************************************)
(* What the owner routes promise their callers, without handlers, awaits   *)
(* or crashes: a register of vehicles in which every call is authenticated,*)
(* authorised, carried out and answered in one instant, by what is true of *)
(* the accounts and the vehicles at that instant.                          *)
(***************************************************************************)
EXTENDS Auth

CONSTANTS
    Calls,
    Request,   \* route, token and parameters of a call
    MaxInt     \* the largest value that can be documented

VARIABLES
    accounts,   \* the owners' accounts
    vehicles,   \* the vehicles listed so far
    asked,      \* the calls made so far
    request,    \* what each of them asks for
    outcome     \* the decision; Null while there is none

vars == <<accounts, vehicles, asked, request, outcome>>

Init ==
    /\ accounts = {}
    /\ vehicles = {}
    /\ asked = {}
    /\ request = [c \in Calls |-> Null]
    /\ outcome = [c \in Calls |-> Null]

\* The directory opens an account.
Open ==
    /\ \E id \in FreshUserIds(accounts), login \in Logins \cup {Null} :
          \E account \in OwnerAccounts(id, login) :
              /\ UserKeysFree(accounts, account)
              /\ accounts' = accounts \cup {account}
    /\ UNCHANGED <<vehicles, asked, request, outcome>>

Ask(c) ==
    /\ c \notin asked
    /\ asked' = asked \cup {c}
    /\ \E r \in Request : request' = [request EXCEPT ![c] = r]
    /\ UNCHANGED <<accounts, vehicles, outcome>>

Pending(c) == c \in asked /\ outcome[c] = Null

Decide(c, decision) ==
    /\ outcome' = [outcome EXCEPT ![c] = decision]
    /\ UNCHANGED <<accounts, asked, request>>

-----------------------------------------------------------------------------
\* What a call's token stands for, and whom it may act for: every route but
\* GET /vehicles/:id is for owners.
Claiming(c) == VerifiedClaims(accounts, request[c].token)

Permitted(claims, c) ==
    RoleSatisfies(claims.role, IF request[c].route = "get" THEN {} ELSE {"OWNER"})

Acting(c) == {claims.userId : claims \in {k \in Claiming(c) : Permitted(k, c)}}

\* A vehicle may go live: the high-value ones with a value somebody stands for.
Documented(v) ==
    v.tier \in {"LUXURY", "EXOTIC"} =>
        v.agreedValue \in 1..MaxInt /\ v.valuationSource \in ValuationSource

Asked(c) == {v \in vehicles : v.id = request[c].vehicle}

\* The three routes that only look.
Look(c) ==
    /\ \E id \in Acting(c) :
          \/ /\ request[c].route = "me"
             /\ LET own == {a \in accounts : a.id = id}
                IN  Decide(c, IF own = {} THEN NotFound ELSE Ok(own))
          \/ /\ request[c].route = "mine"
             /\ Decide(c, Ok({v \in vehicles : v.ownerId = id}))
          \/ /\ request[c].route = "get"
             /\ Decide(c, IF Asked(c) = {} THEN NotFound ELSE Ok(Asked(c)))
    /\ UNCHANGED vehicles

\* A draft under an id and a VIN nobody has.  The caller may not hear of it.
List(c) ==
    /\ request[c].route = "create"
    /\ \E owner \in Acting(c), id \in FreshVehicleIds(vehicles) :
          LET listing == request[c].listing
              draft == [id |-> id, ownerId |-> owner, vin |-> listing.vin,
                        tier |-> listing.tier, status |-> "DRAFT",
                        agreedValue |-> listing.agreedValue,
                        valuationSource |-> listing.valuationSource]
          IN  /\ OwnerExists(accounts, owner)
              /\ VinFree(vehicles, draft.vin)
              /\ vehicles' = vehicles \cup {draft}
              /\ Decide(c, Ok({draft})) \/ Decide(c, ServerError)

\* One's own documented vehicle goes live, as it is at this instant.
GoLive(c) ==
    /\ request[c].route = "activate"
    /\ \E v \in Asked(c) :
          LET live == [v EXCEPT !.status = "ACTIVE"]
          IN  /\ v.ownerId \in Acting(c)
              /\ Documented(v)
              /\ vehicles' = (vehicles \ {v}) \cup {live}
              /\ Decide(c, Ok({live})) \/ Decide(c, ServerError)

\* A refusal is true when it is decided.
Refuse(c) ==
    /\ \/ /\ HasExternalIdentity \/ Claiming(c) = {}
          /\ Decide(c, Unauthorized)
       \/ /\ HasExternalIdentity /\ Claiming(c) = {}
          /\ Decide(c, Exception("unlinked"))
       \/ /\ \/ \E claims \in Claiming(c) : ~Permitted(claims, c)
             \/ request[c].route = "activate" /\ \E v \in Asked(c) : v.ownerId \notin Acting(c)
          /\ Decide(c, Forbidden)
       \/ /\ request[c].route = "activate" /\ Asked(c) = {}
          /\ Decide(c, NotFound)
       \/ /\ request[c].route = "activate"
          /\ \E v \in Asked(c) : v.ownerId \in Acting(c) /\ ~Documented(v)
          /\ Decide(c, BadRequest)
       \/ /\ request[c].route = "create" /\ ~VinFree(vehicles, request[c].listing.vin)
          /\ Decide(c, Conflict)
       \/ Decide(c, ServerError)
    /\ UNCHANGED vehicles

-----------------------------------------------------------------------------
Next ==
    \/ Open
    \/ \E c \in Calls : \/ Ask(c)
                        \/ Pending(c) /\ (Look(c) \/ List(c) \/ GoLive(c) \/ Refuse(c))

Spec == Init /\ [][Next]_vars

=============================================================================
