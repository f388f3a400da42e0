---------------------------- MODULE OwnerSession ----------------------------
(***************************************************************************)
(* The authenticated routes of a car owner: GET /owners/me and the routes  *)
(* of VehicleController, behind the global AuthGuard and RolesGuard.  A    *)
(* call runs through up to three awaits - the guard's, the read and the    *)
(* write - and other calls run between them.                               *)
(*                                                                         *)
(*   idle -> guard -> handle (-> update) -> reply -> answered              *)
(*                                                                         *)
(* The User table is written by registration: here, an environment that    *)
(* may open an account at any time.                                        *)
(***************************************************************************)
EXTENDS Auth

CONSTANTS
    Calls,            \* the authenticated calls that are ever made (a bound)
    MaxInt,           \* the largest value of an Int column
    OfferedListings   \* the vehicles the forms describe (a bound on the inputs)

ASSUME MaxIntAssumption == MaxInt \in Nat

\* CreateVehicleDto: the value is optional and @Min(0), so 0 passes, and so does one
\* the column cannot hold.
ListingForm ==
    [vin: Vins, tier: VehicleTier, agreedValue: Nat \cup {Null},
     valuationSource: ValuationSource \cup {Null}]

ASSUME OfferedListingsAssumption == OfferedListings \subseteq ListingForm

VARIABLES
    users,         \* the User table
    vehicles,      \* the Vehicle table
    callPc,        \* where each call's handler stands
    callRequest,   \* its route, token and parameters
    callClaims,    \* request.user, set by the guard
    callRow,       \* the vehicle row activate() has read and checked
    callAnswer,    \* the answer the handler has computed
    callBefore     \* history: what was true of the caller when it called

callVars == <<callPc, callRequest, callClaims, callRow, callAnswer, callBefore>>
vars == <<users, vehicles, callPc, callRequest, callClaims, callRow, callAnswer, callBefore>>

Route == {"me", "mine", "get", "create", "activate"}

\* The parameters a route takes: a listing in the body, a vehicle in the path.
Request ==
    [route: {"me", "mine"}, token: Token, listing: {Null}, vehicle: {Null}]
    \cup [route: {"get", "activate"}, token: Token, listing: {Null}, vehicle: VehicleIds]
    \cup [route: {"create"}, token: Token, listing: OfferedListings, vehicle: {Null}]

\* The @Roles of the route's handler.
RequiredRoles(route) == IF route = "get" THEN {} ELSE {"OWNER"}

Stage == {"idle", "guard", "handle", "update", "reply", "answered", "lost"}

InFlight == {"guard", "handle", "update", "reply"}

\* The first 401 is a token that does not verify, the second a verified login
\* without an account.
Unlinked == Exception("unlinked")
Refusals ==
    {Unauthorized, Unlinked, Forbidden, NotFound, BadRequest, Conflict, ServerError}

\* What a call may be answered with: rows, or an exception.
Answer == [kind: {"ok"}, value: SUBSET (VehicleRow \cup UserRow)] \cup Refusals

Before == [linked: BOOLEAN, owned: SUBSET VehicleIds]

-----------------------------------------------------------------------------
Finish(c, answer) ==
    /\ callPc' = [callPc EXCEPT ![c] = "reply"]
    /\ callAnswer' = [callAnswer EXCEPT ![c] = answer]

\* The accounts a token may act as.
CallerIds(token) == {claims.userId : claims \in VerifiedClaims(users, token)}

Call(c, request) ==
    /\ callPc[c] = "idle"
    /\ callPc' = [callPc EXCEPT ![c] = "guard"]
    /\ callRequest' = [callRequest EXCEPT ![c] = request]
    /\ callBefore' = [callBefore EXCEPT ![c] =
          [linked |-> CallerIds(request.token) # {},
           owned |-> {v.id : v \in {w \in vehicles : w.ownerId \in CallerIds(request.token)}}]]
    /\ UNCHANGED <<users, vehicles, callClaims, callRow, callAnswer>>

-----------------------------------------------------------------------------
(* AuthGuard, then RolesGuard.                                             *)

\* The token verifies; then the role decides.
Admit(c) ==
    /\ callPc[c] = "guard"
    /\ \E claims \in VerifiedClaims(users, callRequest[c].token) :
          IF RoleSatisfies(claims.role, RequiredRoles(callRequest[c].route))
          THEN /\ callClaims' = [callClaims EXCEPT ![c] = claims]
               /\ callPc' = [callPc EXCEPT ![c] = "handle"]
               /\ UNCHANGED callAnswer
          ELSE Finish(c, Forbidden) /\ UNCHANGED callClaims
    /\ UNCHANGED <<users, vehicles, callRequest, callRow, callBefore>>

\* With an identity provider any failure to verify is a 401, so a good token
\* may be refused too (its keys could not be fetched).
RefuseToken(c) ==
    /\ callPc[c] = "guard"
    /\ HasExternalIdentity \/ callRequest[c].token \in {Null, BadToken}
    /\ Finish(c, Unauthorized)
    /\ UNCHANGED <<users, vehicles, callRequest, callClaims, callRow, callBefore>>

\* Mutation of RefuseUnlinked: a lookup that fails counts as a missing account.
RefuseUnlinkedOrLost(c) ==
    /\ callPc[c] = "guard"
    /\ HasExternalIdentity
    /\ callRequest[c].token \in Logins
    /\ Finish(c, Unlinked)
    /\ UNCHANGED <<users, vehicles, callRequest, callClaims, callRow, callBefore>>

RefuseUnlinked(c) ==
    /\ callPc[c] = "guard"
    /\ HasExternalIdentity
    /\ callRequest[c].token \in Logins
    /\ LinkedTo(users, callRequest[c].token) = {}
    /\ Finish(c, Unlinked)
    /\ UNCHANGED <<users, vehicles, callRequest, callClaims, callRow, callBefore>>

-----------------------------------------------------------------------------
(* The handlers.                                                           *)

Handling(c, route) == callPc[c] = "handle" /\ callRequest[c].route = route

\* GET /owners/me.  A dev token may name an account that does not exist.
Me(c) ==
    /\ Handling(c, "me")
    /\ LET owners == {u \in users : u.id = callClaims[c].userId}
       IN  Finish(c, IF owners = {} THEN NotFound ELSE Ok(owners))
    /\ UNCHANGED <<users, vehicles, callRequest, callClaims, callRow, callBefore>>

\* Mutation of Mine: drafts are left out of the owner's own list.
MineWithoutDrafts(c) ==
    /\ Handling(c, "mine")
    /\ Finish(c, Ok({v \in vehicles : v.ownerId = callClaims[c].userId /\ v.status # "DRAFT"}))
    /\ UNCHANGED <<users, vehicles, callRequest, callClaims, callRow, callBefore>>

\* GET /vehicles/mine: listForOwner, newest first (the order is left out).
Mine(c) ==
    /\ Handling(c, "mine")
    /\ Finish(c, Ok({v \in vehicles : v.ownerId = callClaims[c].userId}))
    /\ UNCHANGED <<users, vehicles, callRequest, callClaims, callRow, callBefore>>

\* GET /vehicles/:id.
Get(c) ==
    /\ Handling(c, "get")
    /\ LET found == {v \in vehicles : v.id = callRequest[c].vehicle}
       IN  Finish(c, IF found = {} THEN NotFound ELSE Ok(found))
    /\ UNCHANGED <<users, vehicles, callRequest, callClaims, callRow, callBefore>>

\* The row create() inserts; status and region are left to the defaults.
NewVehicle(c, id) ==
    LET listing == callRequest[c].listing
    IN  [id |-> id, ownerId |-> callClaims[c].userId, vin |-> listing.vin,
         tier |-> listing.tier, status |-> "DRAFT", agreedValue |-> listing.agreedValue,
         valuationSource |-> listing.valuationSource]

\* The value fits its column; one that does not is rejected before the INSERT.
Fits(listing) == listing.agreedValue # Null => listing.agreedValue <= MaxInt

\* Mutations of CommitVehicle: vin loses its @unique; ownerId its foreign key.
CommitVehicleAnyVin(c, id) ==
    /\ Fits(callRequest[c].listing)
    /\ OwnerExists(users, callClaims[c].userId)
    /\ vehicles' = vehicles \cup {NewVehicle(c, id)}

CommitVehicleAnyOwner(c, id) ==
    /\ Fits(callRequest[c].listing)
    /\ VinFree(vehicles, callRequest[c].listing.vin)
    /\ vehicles' = vehicles \cup {NewVehicle(c, id)}

CommitVehicle(c, id) ==
    /\ Fits(callRequest[c].listing)
    /\ VinFree(vehicles, callRequest[c].listing.vin)
    /\ OwnerExists(users, callClaims[c].userId)
    /\ vehicles' = vehicles \cup {NewVehicle(c, id)}

Create(c) ==
    /\ Handling(c, "create")
    /\ \E id \in FreshVehicleIds(vehicles) :
          CommitVehicle(c, id) /\ Finish(c, Ok({NewVehicle(c, id)}))
    /\ UNCHANGED <<users, callRequest, callClaims, callRow, callBefore>>

\* P2002: the VIN is listed already.
Listed(c) == Fits(callRequest[c].listing) /\ ~VinFree(vehicles, callRequest[c].listing.vin)

\* Any other error: the value is too large, or (P2003) there is no such owner.
Unlistable(c) ==
    \/ ~Fits(callRequest[c].listing)
    \/ ~Listed(c) /\ ~OwnerExists(users, callClaims[c].userId)

\* Mutation of RefuseListing: an error nobody mapped sends the call round again.
RefuseListingOrRetry(c) ==
    /\ Handling(c, "create")
    /\ \/ Listed(c) /\ Finish(c, Conflict)
       \/ /\ Unlistable(c)
          /\ callPc' = [callPc EXCEPT ![c] = "guard"]
          /\ UNCHANGED callAnswer
    /\ UNCHANGED <<users, vehicles, callRequest, callClaims, callRow, callBefore>>

\* Mutation of RefuseListing: every error of the insert is taken for P2002.
RefuseListingAsConflict(c) ==
    /\ Handling(c, "create")
    /\ Listed(c) \/ Unlistable(c)
    /\ Finish(c, Conflict)
    /\ UNCHANGED <<users, vehicles, callRequest, callClaims, callRow, callBefore>>

\* The first is a 409, the rest is rethrown and leaves as a 500.
RefuseListing(c) ==
    /\ Handling(c, "create")
    /\ \/ Listed(c) /\ Finish(c, Conflict)
       \/ Unlistable(c) /\ Finish(c, ServerError)
    /\ UNCHANGED <<users, vehicles, callRequest, callClaims, callRow, callBefore>>

\* requiresAgreedValue, and canActivate over it: an agreed value of 0 is falsy
\* and counts as none.
RequiresAgreedValue(tier) == tier \in {"LUXURY", "EXOTIC"}

\* Mutation of CanActivate: either document is enough.
CanActivateEither(v) ==
    RequiresAgreedValue(v.tier) => v.agreedValue \notin {Null, 0} \/ v.valuationSource # Null

CanActivate(v) ==
    RequiresAgreedValue(v.tier) => v.agreedValue \notin {Null, 0} /\ v.valuationSource # Null

\* Mutation of CheckActivation: nobody asks whose vehicle it is.
CheckActivationOfAnyone(c) ==
    /\ Handling(c, "activate")
    /\ \E v \in vehicles :
          /\ v.id = callRequest[c].vehicle
          /\ CanActivate(v)
          /\ callRow' = [callRow EXCEPT ![c] = v]
    /\ callPc' = [callPc EXCEPT ![c] = "update"]
    /\ UNCHANGED <<users, vehicles, callRequest, callClaims, callAnswer, callBefore>>

\* POST /vehicles/:id/activate, up to its write.
CheckActivation(c) ==
    /\ Handling(c, "activate")
    /\ \E v \in vehicles :
          /\ v.id = callRequest[c].vehicle
          /\ v.ownerId = callClaims[c].userId
          /\ CanActivate(v)
          /\ callRow' = [callRow EXCEPT ![c] = v]
    /\ callPc' = [callPc EXCEPT ![c] = "update"]
    /\ UNCHANGED <<users, vehicles, callRequest, callClaims, callAnswer, callBefore>>

RefuseActivation(c) ==
    /\ Handling(c, "activate")
    /\ \/ /\ \A v \in vehicles : v.id # callRequest[c].vehicle
          /\ Finish(c, NotFound)
       \/ \E v \in vehicles :
             /\ v.id = callRequest[c].vehicle
             /\ \/ v.ownerId # callClaims[c].userId /\ Finish(c, Forbidden)
                \/ /\ v.ownerId = callClaims[c].userId
                   /\ ~CanActivate(v)
                   /\ Finish(c, BadRequest)
    /\ UNCHANGED <<users, vehicles, callRequest, callClaims, callRow, callBefore>>

\* The UPDATE by id: it looks at nothing but the id, whatever the row is now.
Activated(v) == [v EXCEPT !.status = "ACTIVE"]

CommitActivation(v) == vehicles' = (vehicles \ {v}) \cup {Activated(v)}

\* Mutation of Activate: the answer does not wait for the write.
ActivateWithoutAwait(c) ==
    /\ callPc[c] = "update"
    /\ \E v \in vehicles :
          v.id = callRequest[c].vehicle /\ Finish(c, Ok({Activated(v)}))
    /\ UNCHANGED <<users, vehicles, callRequest, callClaims, callRow, callBefore>>

Activate(c) ==
    /\ callPc[c] = "update"
    /\ \E v \in vehicles :
          /\ v.id = callRequest[c].vehicle
          /\ CommitActivation(v)
          /\ Finish(c, Ok({Activated(v)}))
    /\ UNCHANGED <<users, callRequest, callClaims, callRow, callBefore>>

\* A database error that is not mapped: a 500, and a write may have been
\* committed before it.  The mock guard does not use the database.
LoseDatabase(c) ==
    /\ \/ callPc[c] = "guard" /\ HasExternalIdentity
       \/ callPc[c] \in {"handle", "update"}
    /\ Finish(c, ServerError)
    /\ \/ UNCHANGED vehicles
       \/ /\ Handling(c, "create")
          /\ \E id \in FreshVehicleIds(vehicles) : CommitVehicle(c, id)
       \/ /\ callPc[c] = "update"
          /\ \E v \in vehicles : v.id = callRequest[c].vehicle /\ CommitActivation(v)
    /\ UNCHANGED <<users, callRequest, callClaims, callRow, callBefore>>

Deliver(c) ==
    /\ callPc[c] = "reply"
    /\ callPc' = [callPc EXCEPT ![c] = "answered"]
    /\ UNCHANGED <<users, vehicles, callRequest, callClaims, callRow, callAnswer, callBefore>>

LoseReply(c) ==
    /\ callPc[c] = "reply"
    /\ callPc' = [callPc EXCEPT ![c] = "lost"]
    /\ UNCHANGED <<users, vehicles, callRequest, callClaims, callRow, callAnswer, callBefore>>

CrashCalls ==
    callPc' = [c \in Calls |-> IF callPc[c] \in InFlight THEN "lost" ELSE callPc[c]]

Crash ==
    /\ \E c \in Calls : callPc[c] \in InFlight
    /\ CrashCalls
    /\ UNCHANGED <<users, vehicles, callRequest, callClaims, callRow, callAnswer, callBefore>>

-----------------------------------------------------------------------------
Init ==
    /\ users = {}
    /\ vehicles = {}
    /\ callPc = [c \in Calls |-> "idle"]
    /\ callRequest = [c \in Calls |-> Null]
    /\ callClaims = [c \in Calls |-> Null]
    /\ callRow = [c \in Calls |-> Null]
    /\ callAnswer = [c \in Calls |-> Null]
    /\ callBefore = [c \in Calls |-> Null]

\* The environment: a registration commits an account.
OpenAccount ==
    /\ \E id \in FreshUserIds(users), login \in IF HasExternalIdentity THEN Logins ELSE {Null} :
          \E account \in OwnerAccounts(id, login) :
              /\ UserKeysFree(users, account)
              /\ users' = users \cup {account}
    /\ UNCHANGED <<vehicles, callVars>>

\* One step of the handler that runs call c.
Handle(c) ==
    \/ Admit(c) \/ RefuseToken(c) \/ RefuseUnlinked(c)
    \/ Me(c) \/ Mine(c) \/ Get(c)
    \/ Create(c) \/ RefuseListing(c)
    \/ CheckActivation(c) \/ RefuseActivation(c) \/ Activate(c)
    \/ LoseDatabase(c) \/ Deliver(c) \/ LoseReply(c)

SessionStep == \E c \in Calls : (\E request \in Request : Call(c, request)) \/ Handle(c)

Next == OpenAccount \/ SessionStep \/ Crash

\* As for registrations: every await settles, with a result or an error.
Fairness == \A c \in Calls : WF_vars(Handle(c))

Safety == Init /\ [][Next]_vars

Spec == Safety /\ Fairness

-----------------------------------------------------------------------------
(* Properties.                                                             *)

\* Types of the tables, the calls and their answers.
TypeOK ==
    /\ users \subseteq UserRow
    /\ vehicles \subseteq VehicleRow
    /\ callPc \in [Calls -> Stage]
    /\ callRequest \in [Calls -> Request \cup {Null}]
    /\ callClaims \in [Calls -> Claims \cup {Null}]
    /\ callRow \in [Calls -> VehicleRow \cup {Null}]
    /\ callAnswer \in [Calls -> Answer \cup {Null}]
    /\ callBefore \in [Calls -> Before \cup {Null}]

\* A high-value vehicle is never live without a documented, positive agreed
\* value, although activate() checks one read of the row and updates it after
\* another await.
ActiveVehiclesValued ==
    \A v \in vehicles :
        v.status = "ACTIVE" /\ v.tier \in {"LUXURY", "EXOTIC"} =>
            v.agreedValue \in 1..MaxInt /\ v.valuationSource \in ValuationSource

\* A vehicle changes only by the activate call of its own owner.
OnlyOwnerChangesVehicle ==
    [][\A v \in vehicles :
          v \notin vehicles' =>
              \E c \in Calls : /\ callPc[c] = "update" /\ callPc'[c] # "update"
                               /\ callRequest[c].vehicle = v.id
                               /\ callClaims[c].userId = v.ownerId]_vars

\* One listing per VIN, and every listing belongs to an account that exists.
ListingsConsistent ==
    /\ \A v, w \in vehicles : v # w => v.id # w.id /\ v.vin # w.vin
    /\ \A v \in vehicles : OwnerExists(users, v.ownerId)

\* Read your writes: GET /vehicles/mine answers with the caller's vehicles
\* only, and with every one that was committed when the call was made, those
\* whose own create call failed to answer included.
MineIsComplete ==
    \A c \in Calls :
        callAnswer[c] # Null /\ callAnswer[c].kind = "ok" /\ callRequest[c].route = "mine" =>
            /\ \A v \in callAnswer[c].value : v.ownerId = callClaims[c].userId
            /\ callBefore[c].owned \subseteq {v.id : v \in callAnswer[c].value}

\* A login that had its account when it called is never told to register.
LinkedLoginRecognised ==
    \A c \in Calls : callBefore[c] # Null /\ callBefore[c].linked => callAnswer[c] # Unlinked

\* What a call was told stays true: the vehicle it was told is live is live,
\* and a VIN it was told is taken is taken.
AnswersStayTrue ==
    \A c \in Calls :
        callAnswer[c] # Null =>
            /\ callAnswer[c].kind = "ok" /\ callRequest[c].route = "activate" =>
                  callAnswer[c].value \subseteq vehicles
            /\ callAnswer[c] = Conflict => ~VinFree(vehicles, callRequest[c].listing.vin)

\* Every call that was made is eventually answered or lost.
EveryCallEnds == \A c \in Calls : callPc[c] = "guard" ~> callPc[c] \in {"answered", "lost"}

\* The callers' view (VehicleRegister): each call is authenticated, authorised, carried
\* out and answered in one instant, although its handler awaits up to three times
\* while other calls run; nothing it was told is revised.
Register ==
    INSTANCE VehicleRegister WITH
        accounts <- users,
        asked <- {c \in Calls : callPc[c] # "idle"},
        request <- callRequest,
        outcome <- callAnswer

ImplementsRegister == Register!Spec

=============================================================================
