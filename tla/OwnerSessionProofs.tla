------------------------- MODULE OwnerSessionProofs -------------------------
(***************************************************************************)
(* Proofs about OwnerSession, for any number of calls, accounts and        *)
(* vehicles, any listings, any width of the value column, and for either   *)
(* provider.                                                               *)
(***************************************************************************)
EXTENDS OwnerSession, TLAPS

\* The accounts keep their keys: no two share an id or a login.
AccountsDistinct ==
    \A u, w \in users : u # w => u.id # w.id /\ (u.login # Null => u.login # w.login)

\* Every value stored fits its column, and a high-value vehicle that is live was
\* let through by canActivate.
VehiclesValued ==
    \A v \in vehicles :
        /\ v.agreedValue # Null => v.agreedValue <= MaxInt
        /\ v.status = "ACTIVE" => CanActivate(v)

\* The claims of a call past its guard are those of its token, still.
ClaimsHold(c) ==
    /\ callClaims[c] \in Claims
    /\ IF HasExternalIdentity
       THEN \E u \in users : u.login = callRequest[c].token /\ u.id = callClaims[c].userId
       ELSE callRequest[c].token = callClaims[c]
    /\ callRequest[c].token \notin {Null, BadToken}

\* What was true of the caller when it called is true still.
BeforeHolds(c) ==
    /\ callBefore[c].linked => CallerIds(callRequest[c].token) # {}
    /\ \A id \in callBefore[c].owned :
          \E v \in vehicles : v.id = id /\ v.ownerId \in CallerIds(callRequest[c].token)

\* The row activate() checked is still there and would pass the check again.
CheckHolds(c) ==
    /\ callRequest[c].route = "activate"
    /\ \E v \in vehicles : /\ v.id = callRequest[c].vehicle
                           /\ v.ownerId = callClaims[c].userId
                           /\ CanActivate(v)

\* What holds of a handler at each of its awaits.
HandlersInv ==
    \A c \in Calls :
        /\ callPc[c] # "idle" =>
              callRequest[c] \in Request /\ callBefore[c] \in Before /\ BeforeHolds(c)
        /\ callPc[c] \in {"idle", "guard", "handle", "update"} => callAnswer[c] = Null
        /\ callPc[c] \in {"handle", "update"} => ClaimsHold(c)
        /\ callPc[c] = "update" => CheckHolds(c)

\* A vehicle a call was told is live is in the table, and live.
LiveAnswersLive ==
    \A c \in Calls :
        /\ callAnswer[c] # Null /\ callAnswer[c].kind = "ok"
        /\ callPc[c] # "idle" /\ callRequest[c].route = "activate"
        => \A v \in callAnswer[c].value : v \in vehicles /\ v.status = "ACTIVE"

\* What a login's create call was answered with belongs to the account of that login.
CreatedForCaller ==
    \A c \in Calls :
        /\ HasExternalIdentity
        /\ callAnswer[c] # Null /\ callAnswer[c].kind = "ok"
        /\ callRequest[c].route = "create"
        => \A v \in callAnswer[c].value :
              \E u \in users : u.id = v.ownerId /\ u.login = callRequest[c].token

\* The inductive invariant.
IInv ==
    /\ TypeOK
    /\ AccountsDistinct
    /\ ListingsConsistent
    /\ VehiclesValued
    /\ HandlersInv
    /\ LiveAnswersLive
    /\ MineIsComplete
    /\ CreatedForCaller
    /\ LinkedLoginRecognised
    /\ AnswersStayTrue

-----------------------------------------------------------------------------
(* The vocabulary.                                                         *)

LEMMA RequestFields ==
    ASSUME NEW request \in Request
    PROVE  /\ request.route \in Route
           /\ request.token \in Token
           /\ request.route = "create" => request.listing \in ListingForm
           /\ request.route \in {"get", "activate"} => request.vehicle \in VehicleIds
BY OfferedListingsAssumption DEF Request, Route

\* The refusals are told apart from each other, from an answer and from none.
LEMMA AnswersDistinct ==
    /\ \A answer \in Refusals : answer # Null /\ answer.kind # "ok"
    /\ \A value : Ok(value).kind = "ok" /\ Ok(value).value = value
    /\ \A value : Ok(value) # Unlinked /\ Ok(value) # Conflict
    /\ \A answer \in {Unauthorized, Forbidden, NotFound, BadRequest, Conflict, ServerError} :
          answer # Unlinked
    /\ \A answer \in {Unauthorized, Unlinked, Forbidden, NotFound, BadRequest, ServerError} :
          answer # Conflict
<1>1. /\ Unauthorized.kind = "unauthorized" /\ Unlinked.kind = "unlinked"
      /\ Forbidden.kind = "forbidden" /\ NotFound.kind = "not found"
      /\ BadRequest.kind = "bad request" /\ Conflict.kind = "conflict"
      /\ ServerError.kind = "server error"
  BY DEF Unauthorized, Unlinked, Forbidden, NotFound, BadRequest, Conflict, ServerError,
         Exception
<1>2. \A answer \in Refusals : answer # Null
  BY NoAnswerAssumption
     DEF Refusals, ExceptionKind, Unauthorized, Unlinked, Forbidden, NotFound, BadRequest,
         Conflict, ServerError
<1>3. \A answer \in Refusals : answer.kind # "ok"
  BY <1>1 DEF Refusals
<1>4. \A value : Ok(value).kind = "ok" /\ Ok(value).value = value
  BY DEF Ok
<1>5. \A value : Ok(value) # Unlinked /\ Ok(value) # Conflict
  BY <1>1, <1>4
<1>6. \A answer \in {Unauthorized, Unlinked, Forbidden, NotFound, BadRequest, ServerError} :
          answer # Conflict
  BY <1>1
<1>7. \A answer \in {Unauthorized, Forbidden, NotFound, BadRequest, Conflict, ServerError} :
          answer # Unlinked
  BY <1>1
<1>8. QED
  BY <1>2, <1>3, <1>4, <1>5, <1>6, <1>7

\* The claims of a token are well typed.
LEMMA ClaimsTyped ==
    ASSUME users \subseteq UserRow, NEW token \in Token, NEW claims \in VerifiedClaims(users, token)
    PROVE  claims \in Claims
BY DEF VerifiedClaims, Token, Claims, DevToken, LinkedTo, UserRow

\* The row create() inserts is well typed.
LEMMA NewVehicleTyped ==
    ASSUME TypeOK, HandlersInv, NEW c \in Calls, Handling(c, "create"),
           NEW id \in FreshVehicleIds(vehicles)
    PROVE  /\ NewVehicle(c, id) \in VehicleRow
           /\ id \in VehicleIds /\ \A v \in vehicles : v.id # id
<1>1. callRequest[c].listing \in ListingForm
  BY RequestFields DEF HandlersInv, Handling
<1>2. callClaims[c].userId \in UserIds
  BY DEF HandlersInv, Handling, ClaimsHold, Claims
<1>3. id \in VehicleIds /\ \A v \in vehicles : v.id # id
  BY DEF FreshVehicleIds
<1>4. QED
  BY <1>1, <1>2, <1>3 DEF NewVehicle, VehicleRow, ListingForm, VehicleStatus

\* Activation changes a row's status and nothing else.
LEMMA ActivatedRow ==
    ASSUME NEW v \in VehicleRow
    PROVE  /\ Activated(v) \in VehicleRow
           /\ Activated(v).id = v.id /\ Activated(v).ownerId = v.ownerId
           /\ Activated(v).vin = v.vin /\ Activated(v).tier = v.tier
           /\ Activated(v).agreedValue = v.agreedValue
           /\ Activated(v).valuationSource = v.valuationSource
           /\ Activated(v).status = "ACTIVE"
           /\ v.status = "ACTIVE" => Activated(v) = v
BY DEF Activated, VehicleRow, VehicleStatus

-----------------------------------------------------------------------------
(* What a step may do to the tables.                                       *)

\* Only three kinds of step touch the vehicles at all.
LEMMA VehiclesStep ==
    ASSUME TypeOK, HandlersInv, [Next]_vars
    PROVE  \/ vehicles' = vehicles
           \/ \E c \in Calls : \E id \in FreshVehicleIds(vehicles) :
                 Handling(c, "create") /\ CommitVehicle(c, id)
           \/ \E c \in Calls : \E v \in vehicles :
                 /\ callPc[c] = "update" /\ callPc'[c] = "reply"
                 /\ v.id = callRequest[c].vehicle
                 /\ CommitActivation(v)
<1>1. ASSUME NEW c \in Calls, Create(c)
      PROVE  \E id \in FreshVehicleIds(vehicles) : Handling(c, "create") /\ CommitVehicle(c, id)
  BY <1>1 DEF Create
<1>2. ASSUME NEW c \in Calls, Activate(c)
      PROVE  \E v \in vehicles : /\ callPc[c] = "update" /\ callPc'[c] = "reply"
                                 /\ v.id = callRequest[c].vehicle
                                 /\ CommitActivation(v)
  BY <1>2 DEF Activate, Finish, TypeOK
<1>3. ASSUME NEW c \in Calls, LoseDatabase(c)
      PROVE  \/ vehicles' = vehicles
             \/ \E id \in FreshVehicleIds(vehicles) :
                   Handling(c, "create") /\ CommitVehicle(c, id)
             \/ \E v \in vehicles : /\ callPc[c] = "update" /\ callPc'[c] = "reply"
                                    /\ v.id = callRequest[c].vehicle
                                    /\ CommitActivation(v)
  BY <1>3 DEF LoseDatabase, Finish, TypeOK
<1>4. ASSUME NEW c \in Calls,
             \/ \E request \in Request : Call(c, request)
             \/ Admit(c) \/ RefuseToken(c) \/ RefuseUnlinked(c) \/ Me(c) \/ Mine(c) \/ Get(c)
             \/ RefuseListing(c) \/ CheckActivation(c) \/ RefuseActivation(c)
             \/ Deliver(c) \/ LoseReply(c)
      PROVE  vehicles' = vehicles
  BY <1>4 DEF Call, Admit, RefuseToken, RefuseUnlinked, Me, Mine, Get, RefuseListing,
              CheckActivation, RefuseActivation, Deliver, LoseReply
<1>5. OpenAccount \/ Crash \/ UNCHANGED vars => vehicles' = vehicles
  BY DEF OpenAccount, Crash, vars
<1>6. QED
  BY <1>1, <1>2, <1>3, <1>4, <1>5 DEF Next, SessionStep, Handle

\* Accounts are only ever added, by the environment.
LEMMA UsersStep ==
    ASSUME [Next]_vars
    PROVE  \/ users' = users
           \/ OpenAccount
BY DEF Next, SessionStep, Handle, Call, Admit, RefuseToken, RefuseUnlinked, Me, Mine, Get,
       Create, RefuseListing, CheckActivation, RefuseActivation, Activate, LoseDatabase,
       Deliver, LoseReply, Crash, vars

LEMMA AccountOpened ==
    ASSUME OpenAccount
    PROVE  \E account \in UserRow :
              /\ account.login \in IF HasExternalIdentity THEN Logins ELSE {Null}
              /\ account.id \in FreshUserIds(users)
              /\ UserKeysFree(users, account)
              /\ users' = users \cup {account}
<1> PICK id \in FreshUserIds(users), login \in IF HasExternalIdentity THEN Logins ELSE {Null} :
        \E account \in OwnerAccounts(id, login) :
            UserKeysFree(users, account) /\ users' = users \cup {account}
  BY DEF OpenAccount
<1>1. PICK account \in OwnerAccounts(id, login) :
         UserKeysFree(users, account) /\ users' = users \cup {account}
  OBVIOUS
<1>2. account \in UserRow /\ account.id = id /\ account.login = login
  BY OfferedRegionsAssumption
     DEF OwnerAccounts, UserRow, UserRole, UserStatus, Region, FreshUserIds
<1>3. QED
  BY <1>1, <1>2

-----------------------------------------------------------------------------
(* Type correctness, action by action.                                     *)

\* The tables keep their types whatever step writes them.
LEMMA TablesTyped ==
    ASSUME TypeOK, HandlersInv, [Next]_vars
    PROVE  users' \subseteq UserRow /\ vehicles' \subseteq VehicleRow
<1>1. users' \subseteq UserRow
  BY UsersStep, AccountOpened DEF TypeOK
<1>2. ASSUME NEW c \in Calls, NEW id \in FreshVehicleIds(vehicles),
             Handling(c, "create"), CommitVehicle(c, id)
      PROVE  vehicles' \subseteq VehicleRow
  BY <1>2, NewVehicleTyped DEF TypeOK, CommitVehicle
<1>3. ASSUME NEW v \in vehicles, CommitActivation(v)
      PROVE  vehicles' \subseteq VehicleRow
  BY <1>3, ActivatedRow DEF TypeOK, CommitActivation
<1>4. QED
  BY <1>1, <1>2, <1>3, VehiclesStep DEF TypeOK

\* Whatever a handler finishes with, the call's state keeps its types.
LEMMA FinishTyped ==
    ASSUME TypeOK, NEW c \in Calls, NEW answer \in Answer, Finish(c, answer)
    PROVE  callPc' \in [Calls -> Stage] /\ callAnswer' \in [Calls -> Answer \cup {Null}]
BY DEF TypeOK, Finish, Stage

\* Every handler finishes with an answer.
LEMMA AnswersTyped ==
    /\ Refusals \subseteq Answer
    /\ \A rows \in SUBSET (VehicleRow \cup UserRow) : Ok(rows) \in Answer
    /\ {Unauthorized, Unlinked, Forbidden, NotFound, BadRequest, Conflict, ServerError}
          \subseteq Answer
BY DEF Answer, Refusals, Ok

LEMMA NextTypeOK ==
    ASSUME TypeOK, HandlersInv, [Next]_vars
    PROVE  TypeOK'
<1> USE TablesTyped
<1>1. ASSUME NEW c \in Calls, NEW request \in Request, Call(c, request)
      PROVE  TypeOK'
  <2>1. [linked |-> CallerIds(request.token) # {},
         owned |-> {v.id : v \in {w \in vehicles : w.ownerId \in CallerIds(request.token)}}]
           \in Before
    BY DEF TypeOK, Before, VehicleRow
  <2>2. callBefore' \in [Calls -> Before \cup {Null}]
    BY <1>1, <2>1 DEF TypeOK, Call
  <2>3. callPc' \in [Calls -> Stage] /\ callRequest' \in [Calls -> Request \cup {Null}]
    BY <1>1 DEF TypeOK, Call, Stage
  <2>4. QED
    BY <1>1, <2>2, <2>3 DEF TypeOK, Call
<1>2. ASSUME NEW c \in Calls, Admit(c)
      PROVE  TypeOK'
  <2>1. callRequest[c].token \in Token
    BY <1>2, RequestFields DEF Admit, HandlersInv
  <2>2. PICK claims \in VerifiedClaims(users, callRequest[c].token) :
           \/ /\ callClaims' = [callClaims EXCEPT ![c] = claims]
              /\ callPc' = [callPc EXCEPT ![c] = "handle"]
              /\ UNCHANGED callAnswer
           \/ Finish(c, Forbidden) /\ UNCHANGED callClaims
    BY <1>2 DEF Admit
  <2>3. claims \in Claims
    BY <2>1, ClaimsTyped DEF TypeOK
  <2>4. callPc' \in [Calls -> Stage] /\ callAnswer' \in [Calls -> Answer \cup {Null}]
    BY <2>2, FinishTyped, AnswersTyped DEF TypeOK, Stage
  <2>5. callClaims' \in [Calls -> Claims \cup {Null}]
    BY <2>2, <2>3 DEF TypeOK
  <2>6. QED
    BY <1>2, <2>4, <2>5 DEF TypeOK, Admit
<1>3. ASSUME NEW c \in Calls, RefuseToken(c) \/ RefuseUnlinked(c)
      PROVE  TypeOK'
  BY <1>3, FinishTyped, AnswersTyped DEF TypeOK, RefuseToken, RefuseUnlinked
<1>4. ASSUME NEW c \in Calls, Me(c)
      PROVE  TypeOK'
  <2>1. PICK rows \in SUBSET (VehicleRow \cup UserRow) : Finish(c, NotFound) \/ Finish(c, Ok(rows))
    BY <1>4 DEF Me, TypeOK
  <2>2. QED
    BY <1>4, <2>1, FinishTyped, AnswersTyped DEF TypeOK, Me
<1>5. ASSUME NEW c \in Calls, Mine(c)
      PROVE  TypeOK'
  <2>1. PICK rows \in SUBSET (VehicleRow \cup UserRow) : Finish(c, Ok(rows))
    BY <1>5 DEF Mine, TypeOK
  <2>2. QED
    BY <1>5, <2>1, FinishTyped, AnswersTyped DEF TypeOK, Mine
<1>6. ASSUME NEW c \in Calls, Get(c)
      PROVE  TypeOK'
  <2>1. PICK rows \in SUBSET (VehicleRow \cup UserRow) : Finish(c, NotFound) \/ Finish(c, Ok(rows))
    BY <1>6 DEF Get, TypeOK
  <2>2. QED
    BY <1>6, <2>1, FinishTyped, AnswersTyped DEF TypeOK, Get
<1>7. ASSUME NEW c \in Calls, Create(c)
      PROVE  TypeOK'
  <2>1. PICK id \in FreshVehicleIds(vehicles) : Finish(c, Ok({NewVehicle(c, id)}))
    BY <1>7 DEF Create
  <2>2. {NewVehicle(c, id)} \in SUBSET (VehicleRow \cup UserRow)
    BY <1>7, NewVehicleTyped DEF Create
  <2>3. QED
    BY <1>7, <2>1, <2>2, FinishTyped, AnswersTyped DEF TypeOK, Create
<1>8. ASSUME NEW c \in Calls, RefuseListing(c) \/ RefuseActivation(c)
      PROVE  TypeOK'
  <2>1. Finish(c, Conflict) \/ Finish(c, ServerError) \/ Finish(c, NotFound)
        \/ Finish(c, Forbidden) \/ Finish(c, BadRequest)
    BY <1>8 DEF RefuseListing, RefuseActivation
  <2>2. QED
    BY <1>8, <2>1, FinishTyped, AnswersTyped DEF TypeOK, RefuseListing, RefuseActivation
<1>9. ASSUME NEW c \in Calls, CheckActivation(c)
      PROVE  TypeOK'
  <2>1. PICK v \in vehicles : callRow' = [callRow EXCEPT ![c] = v]
    BY <1>9 DEF CheckActivation
  <2>2. callRow' \in [Calls -> VehicleRow \cup {Null}]
    BY <2>1 DEF TypeOK
  <2>3. callPc' \in [Calls -> Stage]
    BY <1>9 DEF TypeOK, CheckActivation, Stage
  <2>4. QED
    BY <1>9, <2>2, <2>3 DEF TypeOK, CheckActivation
<1>10. ASSUME NEW c \in Calls, Activate(c)
       PROVE  TypeOK'
  <2>1. PICK v \in vehicles : Finish(c, Ok({Activated(v)}))
    BY <1>10 DEF Activate
  <2>2. {Activated(v)} \in SUBSET (VehicleRow \cup UserRow)
    BY ActivatedRow DEF TypeOK
  <2>3. QED
    BY <1>10, <2>1, <2>2, FinishTyped, AnswersTyped DEF TypeOK, Activate
<1>11. ASSUME NEW c \in Calls, LoseDatabase(c)
       PROVE  TypeOK'
  BY <1>11, FinishTyped, AnswersTyped DEF TypeOK, LoseDatabase
<1>12. ASSUME NEW c \in Calls, Deliver(c) \/ LoseReply(c)
       PROVE  TypeOK'
  BY <1>12 DEF TypeOK, Deliver, LoseReply, Stage
<1>13. ASSUME Crash
       PROVE  TypeOK'
  BY <1>13 DEF TypeOK, Crash, CrashCalls, Stage
<1>14. ASSUME OpenAccount \/ UNCHANGED vars
       PROVE  TypeOK'
  BY <1>14 DEF TypeOK, OpenAccount, callVars, vars
<1>15. QED
  BY <1>1, <1>2, <1>3, <1>4, <1>5, <1>6, <1>7, <1>8, <1>9, <1>10, <1>11, <1>12, <1>13, <1>14
     DEF Next, SessionStep, Handle

-----------------------------------------------------------------------------
(* What is true stays true: rows are added or activated, never taken away. *)

LEMMA UsersGrow ==
    ASSUME [Next]_vars
    PROVE  users \subseteq users'
BY UsersStep, AccountOpened

LEMMA VehiclesKept ==
    ASSUME TypeOK, HandlersInv, [Next]_vars, NEW v \in vehicles
    PROVE  v \in vehicles' \/ Activated(v) \in vehicles'
BY VehiclesStep DEF CommitVehicle, CommitActivation

\* What a row keeps whatever happens to it.
LEMMA RowKept ==
    ASSUME TypeOK, HandlersInv, [Next]_vars, NEW v \in vehicles
    PROVE  \E w \in vehicles' : /\ w.id = v.id /\ w.ownerId = v.ownerId /\ w.vin = v.vin
                                /\ CanActivate(v) => CanActivate(w)
                                /\ v.status = "ACTIVE" => w = v
<1>1. v \in VehicleRow
  BY DEF TypeOK
<1>2. CanActivate(v) => CanActivate(Activated(v))
  BY <1>1, ActivatedRow DEF CanActivate
<1>3. QED
  BY <1>1, <1>2, VehiclesKept, ActivatedRow

\* The accounts a token may act as, in a given table.
CallersIn(table, token) == {claims.userId : claims \in VerifiedClaims(table, token)}

LEMMA CallersGrow ==
    ASSUME NEW before, NEW after, before \subseteq after, NEW token
    PROVE  CallersIn(before, token) \subseteq CallersIn(after, token)
BY DEF CallersIn, VerifiedClaims, LinkedTo

\* A call past its guard acts as one account: the only one its token may act as.
LEMMA OneCaller ==
    ASSUME AccountsDistinct, NEW c \in Calls, callRequest[c] \in Request, ClaimsHold(c)
    PROVE  CallerIds(callRequest[c].token) = {callClaims[c].userId}
<1>1. callRequest[c].token \in Token
  BY RequestFields
<1>2. CASE HasExternalIdentity
  <2>1. callRequest[c].token \in Logins /\ callRequest[c].token # Null
    BY <1>1, <1>2, NullAssumption DEF ClaimsHold, Token
  <2>2. PICK u \in users : u.login = callRequest[c].token /\ u.id = callClaims[c].userId
    BY <1>2 DEF ClaimsHold
  <2>3. LinkedTo(users, callRequest[c].token) = {u}
    BY <2>1, <2>2 DEF LinkedTo, AccountsDistinct
  <2>4. VerifiedClaims(users, callRequest[c].token) = {[userId |-> u.id, role |-> u.role]}
    BY <1>2, <2>3 DEF VerifiedClaims, ClaimsHold
  <2>5. QED
    BY <2>2, <2>4 DEF CallerIds
<1>3. CASE ~HasExternalIdentity
  <2>1. VerifiedClaims(users, callRequest[c].token) = {callClaims[c]}
    BY <1>3 DEF VerifiedClaims, ClaimsHold
  <2>2. QED
    BY <2>1 DEF CallerIds
<1>4. QED
  BY <1>2, <1>3

LEMMA BeforeKept ==
    ASSUME TypeOK, HandlersInv, [Next]_vars, NEW c \in Calls, BeforeHolds(c),
           callRequest'[c] = callRequest[c], callBefore'[c] = callBefore[c]
    PROVE  BeforeHolds(c)'
<1> DEFINE token == callRequest[c].token
<1>1. CallerIds(token) = CallersIn(users, token)
  BY DEF CallerIds, CallersIn
<1>2. CallerIds(callRequest[c].token)' = CallersIn(users', token)
  BY DEF CallerIds, CallersIn
<1>3. CallersIn(users, token) \subseteq CallersIn(users', token)
  BY UsersGrow, CallersGrow
<1>4. ASSUME NEW id \in callBefore[c].owned
      PROVE  \E w \in vehicles' : w.id = id /\ w.ownerId \in CallersIn(users', token)
  <2>1. PICK v \in vehicles : v.id = id /\ v.ownerId \in CallersIn(users, token)
    BY <1>1 DEF BeforeHolds
  <2>2. QED
    BY <1>3, <2>1, RowKept
<1>5. QED
  BY <1>1, <1>2, <1>3, <1>4 DEF BeforeHolds

LEMMA ClaimsKept ==
    ASSUME [Next]_vars, NEW c \in Calls, ClaimsHold(c),
           callRequest'[c] = callRequest[c], callClaims'[c] = callClaims[c]
    PROVE  ClaimsHold(c)'
BY UsersGrow DEF ClaimsHold, HasExternalIdentity

LEMMA CheckKept ==
    ASSUME TypeOK, HandlersInv, [Next]_vars, NEW c \in Calls, CheckHolds(c),
           callRequest'[c] = callRequest[c], callClaims'[c] = callClaims[c]
    PROVE  CheckHolds(c)'
<1>1. PICK v \in vehicles : /\ v.id = callRequest[c].vehicle
                            /\ v.ownerId = callClaims[c].userId
                            /\ CanActivate(v)
  BY DEF CheckHolds
<1>2. QED
  BY <1>1, RowKept DEF CheckHolds
-----------------------------------------------------------------------------
(* The tables keep their constraints.                                      *)

LEMMA KeepsAccountsDistinct ==
    ASSUME AccountsDistinct, [Next]_vars
    PROVE  AccountsDistinct'
<1>1. CASE users' = users
  BY <1>1 DEF AccountsDistinct
<1>2. CASE OpenAccount
  BY <1>2, AccountOpened DEF AccountsDistinct, FreshUserIds, UserKeysFree
<1>3. QED
  BY <1>1, <1>2, UsersStep

\* The update by id writes the row that was checked: ids are never given twice.
LEMMA CheckedRow ==
    ASSUME HandlersInv, ListingsConsistent, NEW c \in Calls, callPc[c] = "update",
           NEW v \in vehicles, v.id = callRequest[c].vehicle
    PROVE  v.ownerId = callClaims[c].userId /\ CanActivate(v)
BY DEF HandlersInv, CheckHolds, ListingsConsistent

LEMMA KeepsListings ==
    ASSUME TypeOK, HandlersInv, ListingsConsistent, [Next]_vars
    PROVE  ListingsConsistent'
<1>1. \A owner : OwnerExists(users, owner) => OwnerExists(users', owner)
  BY UsersGrow DEF OwnerExists
<1>2. CASE vehicles' = vehicles
  BY <1>1, <1>2 DEF ListingsConsistent
<1>3. ASSUME NEW c \in Calls, NEW id \in FreshVehicleIds(vehicles),
             Handling(c, "create"), CommitVehicle(c, id)
      PROVE  ListingsConsistent'
  <2> DEFINE row == NewVehicle(c, id)
  <2>1. row.id = id /\ row.ownerId = callClaims[c].userId /\ row.vin = callRequest[c].listing.vin
    BY DEF NewVehicle
  <2>2. \A v \in vehicles : v.id # row.id /\ v.vin # row.vin
    BY <1>3, <2>1, NewVehicleTyped DEF CommitVehicle, VinFree
  <2>3. OwnerExists(users, row.ownerId) /\ vehicles' = vehicles \cup {row}
    BY <1>3, <2>1 DEF CommitVehicle
  <2>4. QED
    BY <1>1, <2>2, <2>3 DEF ListingsConsistent
<1>4. ASSUME NEW v \in vehicles, CommitActivation(v)
      PROVE  ListingsConsistent'
  <2>1. /\ Activated(v).id = v.id /\ Activated(v).vin = v.vin
        /\ Activated(v).ownerId = v.ownerId
    BY ActivatedRow DEF TypeOK
  <2>2. QED
    BY <1>1, <1>4, <2>1 DEF ListingsConsistent, CommitActivation
<1>5. QED
  BY <1>2, <1>3, <1>4, VehiclesStep

LEMMA KeepsValues ==
    ASSUME TypeOK, HandlersInv, ListingsConsistent, VehiclesValued, [Next]_vars
    PROVE  VehiclesValued'
<1>1. CASE vehicles' = vehicles
  BY <1>1 DEF VehiclesValued, CanActivate
<1>2. ASSUME NEW c \in Calls, NEW id \in FreshVehicleIds(vehicles),
             Handling(c, "create"), CommitVehicle(c, id)
      PROVE  VehiclesValued'
  <2> DEFINE row == NewVehicle(c, id)
  <2>1. row.status = "DRAFT" /\ row.agreedValue = callRequest[c].listing.agreedValue
    BY DEF NewVehicle
  <2>2. row.agreedValue # Null => row.agreedValue <= MaxInt
    BY <1>2, <2>1 DEF CommitVehicle, Fits
  <2>3. QED
    BY <1>2, <2>1, <2>2 DEF VehiclesValued, CommitVehicle
<1>3. ASSUME NEW c \in Calls, NEW v \in vehicles, callPc[c] = "update",
             v.id = callRequest[c].vehicle, CommitActivation(v)
      PROVE  VehiclesValued'
  <2>1. CanActivate(v) /\ v \in VehicleRow
    BY <1>3, CheckedRow DEF TypeOK
  <2>2. CanActivate(Activated(v)) /\ Activated(v).agreedValue = v.agreedValue
    BY <2>1, ActivatedRow DEF CanActivate
  <2>3. QED
    BY <1>3, <2>2 DEF VehiclesValued, CommitActivation
<1>4. QED
  BY <1>1, <1>2, <1>3, VehiclesStep

-----------------------------------------------------------------------------
(* The handlers, seen from one call.                                       *)

\* A step leaves a call where it stands, makes it, lets it past its guard, has it
\* check an activation, or brings it to its reply or past it.
LEMMA OneCallStep ==
    ASSUME TypeOK, [Next]_vars, NEW c \in Calls
    PROVE  \/ /\ callPc'[c] = callPc[c] /\ callRequest'[c] = callRequest[c]
              /\ callClaims'[c] = callClaims[c] /\ callBefore'[c] = callBefore[c]
              /\ callAnswer'[c] = callAnswer[c]
           \/ \E request \in Request : Call(c, request)
           \/ Admit(c) /\ callPc'[c] = "handle" /\ callAnswer'[c] = callAnswer[c]
           \/ CheckActivation(c)
           \/ /\ callPc'[c] \in {"reply", "answered", "lost"} /\ callPc[c] # "idle"
              /\ callRequest'[c] = callRequest[c] /\ callClaims'[c] = callClaims[c]
              /\ callBefore'[c] = callBefore[c]
<1> DEFINE Same(d) == /\ callPc'[d] = callPc[d] /\ callRequest'[d] = callRequest[d]
                      /\ callClaims'[d] = callClaims[d] /\ callBefore'[d] = callBefore[d]
                      /\ callAnswer'[d] = callAnswer[d]
           Ended(d) == /\ callPc'[d] \in {"reply", "answered", "lost"} /\ callPc[d] # "idle"
                       /\ callRequest'[d] = callRequest[d] /\ callClaims'[d] = callClaims[d]
                       /\ callBefore'[d] = callBefore[d]
<1>1. ASSUME NEW d \in Calls \ {c}, (\E request \in Request : Call(d, request)) \/ Handle(d)
      PROVE  Same(c)
  BY <1>1 DEF TypeOK, Handle, Call, Admit, RefuseToken, RefuseUnlinked, Me, Mine, Get, Create,
              RefuseListing, CheckActivation, RefuseActivation, Activate, LoseDatabase,
              Deliver, LoseReply, Finish
<1>2. ASSUME Admit(c)
      PROVE  (callPc'[c] = "handle" /\ callAnswer'[c] = callAnswer[c]) \/ Ended(c)
  BY <1>2 DEF TypeOK, Admit, Finish
<1>3. ASSUME \/ RefuseToken(c) \/ RefuseUnlinked(c) \/ Me(c) \/ Mine(c) \/ Get(c) \/ Create(c)
             \/ RefuseListing(c) \/ RefuseActivation(c) \/ Activate(c) \/ LoseDatabase(c)
             \/ Deliver(c) \/ LoseReply(c)
      PROVE  Ended(c)
  BY <1>3 DEF TypeOK, RefuseToken, RefuseUnlinked, Me, Mine, Get, Create, RefuseListing,
              RefuseActivation, Activate, LoseDatabase, Deliver, LoseReply, Finish, Handling
<1>4. ASSUME OpenAccount \/ UNCHANGED vars
      PROVE  Same(c)
  BY <1>4 DEF OpenAccount, callVars, vars
<1>5. ASSUME Crash
      PROVE  Same(c) \/ Ended(c)
  BY <1>5 DEF TypeOK, Crash, CrashCalls, InFlight
<1>6. QED
  <2>1. CASE \E d \in Calls \ {c} : (\E request \in Request : Call(d, request)) \/ Handle(d)
    BY <1>1, <2>1
  <2>2. CASE (\E request \in Request : Call(c, request)) \/ Handle(c)
    BY <1>2, <1>3, <2>2 DEF Handle
  <2>3. QED
    BY <1>4, <1>5, <2>1, <2>2 DEF Next, SessionStep
LEMMA CallHolds ==
    ASSUME TypeOK, NEW c \in Calls, NEW request \in Request, Call(c, request)
    PROVE  /\ callRequest'[c] = request /\ callBefore'[c] \in Before /\ BeforeHolds(c)'
           /\ callPc'[c] = "guard" /\ callAnswer'[c] = callAnswer[c]
<1> DEFINE token == request.token
           owned == {v.id : v \in {w \in vehicles : w.ownerId \in CallerIds(token)}}
           linked == CallerIds(token) # {}
<1>1. callRequest'[c] = request /\ vehicles' = vehicles /\ users' = users
      /\ callPc'[c] = "guard" /\ callAnswer'[c] = callAnswer[c]
  BY DEF Call, TypeOK
<1>2. callBefore'[c] = [linked |-> linked, owned |-> owned]
  BY DEF Call, TypeOK
<1>3. CallerIds(callRequest[c].token)' = CallerIds(token)
  BY <1>1 DEF CallerIds, VerifiedClaims, LinkedTo, HasExternalIdentity
<1>4. callBefore'[c] \in Before
  BY <1>2 DEF TypeOK, Before, VehicleRow
<1>5. callBefore'[c].owned = owned /\ callBefore'[c].linked = linked
  <2> HIDE DEF owned, linked
  <2>1. QED
    BY <1>2
<1>6. QED
  BY <1>1, <1>3, <1>4, <1>5 DEF BeforeHolds

LEMMA AdmitHolds ==
    ASSUME TypeOK, HandlersInv, NEW c \in Calls, Admit(c), callPc'[c] = "handle"
    PROVE  /\ ClaimsHold(c)'
           /\ callRequest'[c] = callRequest[c] /\ callBefore'[c] = callBefore[c]
<1> DEFINE token == callRequest[c].token
<1>1. token \in Token
  BY RequestFields DEF HandlersInv, Admit
<1>2. callRequest' = callRequest /\ callBefore' = callBefore /\ users' = users
  BY DEF Admit
<1>3. PICK claims \in VerifiedClaims(users, token) : callClaims'[c] = claims
  BY DEF Admit, TypeOK, Finish
<1>4. claims \in Claims
  BY <1>1, <1>3, ClaimsTyped DEF TypeOK
<1>5. token \notin {Null, BadToken}
  BY <1>3 DEF VerifiedClaims
<1>6. CASE HasExternalIdentity
  <2>1. PICK u \in LinkedTo(users, token) : claims = [userId |-> u.id, role |-> u.role]
    BY <1>3, <1>5, <1>6 DEF VerifiedClaims
  <2>2. u \in users /\ u.login = token /\ u.id = claims.userId
    BY <2>1 DEF LinkedTo
  <2>3. QED
    BY <1>2, <1>3, <1>4, <1>5, <1>6, <2>2 DEF ClaimsHold, HasExternalIdentity
<1>7. CASE ~HasExternalIdentity
  <2>1. token = claims
    BY <1>3, <1>5, <1>7 DEF VerifiedClaims
  <2>2. QED
    BY <1>2, <1>3, <1>4, <1>5, <1>7, <2>1 DEF ClaimsHold, HasExternalIdentity
<1>8. QED
  BY <1>6, <1>7, <1>2

LEMMA CheckActivationHolds ==
    ASSUME TypeOK, HandlersInv, NEW c \in Calls, CheckActivation(c)
    PROVE  /\ CheckHolds(c)' /\ callPc[c] = "handle" /\ callPc'[c] = "update"
           /\ callRequest'[c] = callRequest[c] /\ callClaims'[c] = callClaims[c]
           /\ callBefore'[c] = callBefore[c] /\ callAnswer'[c] = callAnswer[c]
BY DEF TypeOK, CheckActivation, CheckHolds, CanActivate, Handling

LEMMA KeepsHandlers ==
    ASSUME TypeOK, HandlersInv, [Next]_vars
    PROVE  HandlersInv'
<1> SUFFICES ASSUME NEW c \in Calls
             PROVE  /\ callPc'[c] # "idle" =>
                          /\ callRequest'[c] \in Request /\ callBefore'[c] \in Before
                          /\ BeforeHolds(c)'
                    /\ callPc'[c] \in {"idle", "guard", "handle", "update"} =>
                          callAnswer'[c] = Null
                    /\ callPc'[c] \in {"handle", "update"} => ClaimsHold(c)'
                    /\ callPc'[c] = "update" => CheckHolds(c)'
  BY DEF HandlersInv
<1>1. CASE \E request \in Request : Call(c, request)
  BY <1>1, CallHolds DEF HandlersInv, Call
<1>2. CASE Admit(c) /\ callPc'[c] = "handle" /\ callAnswer'[c] = callAnswer[c]
  <2>1. callPc[c] = "guard"
    BY <1>2 DEF Admit
  <2>2. QED
    BY <1>2, <2>1, AdmitHolds, BeforeKept DEF HandlersInv
<1>3. CASE CheckActivation(c)
  BY <1>3, CheckActivationHolds, BeforeKept, ClaimsKept DEF HandlersInv
<1>4. CASE /\ callPc'[c] = callPc[c] /\ callRequest'[c] = callRequest[c]
           /\ callClaims'[c] = callClaims[c] /\ callBefore'[c] = callBefore[c]
           /\ callAnswer'[c] = callAnswer[c]
  BY <1>4, BeforeKept, ClaimsKept, CheckKept DEF HandlersInv
<1>5. CASE /\ callPc'[c] \in {"reply", "answered", "lost"} /\ callPc[c] # "idle"
           /\ callRequest'[c] = callRequest[c] /\ callClaims'[c] = callClaims[c]
           /\ callBefore'[c] = callBefore[c]
  BY <1>5, BeforeKept DEF HandlersInv
<1>6. QED
  BY <1>1, <1>2, <1>3, <1>4, <1>5, OneCallStep

-----------------------------------------------------------------------------
(* The answers.                                                            *)

\* Who may give which answer.
LEMMA AnswerStep ==
    ASSUME TypeOK, [Next]_vars, NEW c \in Calls
    PROVE  \/ callAnswer'[c] = callAnswer[c]
           \/ callAnswer'[c] \in {Unauthorized, Forbidden, NotFound, BadRequest, ServerError}
           \/ RefuseUnlinked(c) /\ callAnswer'[c] = Unlinked
           \/ RefuseListing(c) /\ Listed(c) /\ callAnswer'[c] = Conflict
           \/ Handling(c, "me") /\ \E rows : callAnswer'[c] = Ok(rows)
           \/ Handling(c, "get") /\ \E rows : callAnswer'[c] = Ok(rows)
           \/ Create(c)
           \/ Mine(c)
           \/ Activate(c)
<1>1. ASSUME NEW d \in Calls \ {c}, (\E request \in Request : Call(d, request)) \/ Handle(d)
      PROVE  callAnswer'[c] = callAnswer[c]
  BY <1>1 DEF TypeOK, Handle, Call, Admit, RefuseToken, RefuseUnlinked, Me, Mine, Get, Create,
              RefuseListing, CheckActivation, RefuseActivation, Activate, LoseDatabase,
              Deliver, LoseReply, Finish
<1>2. ASSUME \/ \E request \in Request : Call(c, request)
             \/ CheckActivation(c) \/ Deliver(c) \/ LoseReply(c)
             \/ OpenAccount \/ UNCHANGED vars \/ Crash
      PROVE  callAnswer' = callAnswer
  BY <1>2 DEF Call, CheckActivation, Deliver, LoseReply, OpenAccount, callVars, vars, Crash
<1>3. ASSUME Admit(c) \/ RefuseToken(c) \/ RefuseActivation(c) \/ LoseDatabase(c)
      PROVE  \/ callAnswer'[c] = callAnswer[c]
             \/ callAnswer'[c] \in {Unauthorized, Forbidden, NotFound, BadRequest, ServerError}
  BY <1>3 DEF TypeOK, Admit, RefuseToken, RefuseActivation, LoseDatabase, Finish
<1>4. ASSUME RefuseUnlinked(c) \/ RefuseListing(c)
      PROVE  \/ RefuseUnlinked(c) /\ callAnswer'[c] = Unlinked
             \/ RefuseListing(c) /\ Listed(c) /\ callAnswer'[c] = Conflict
             \/ callAnswer'[c] = ServerError
  BY <1>4 DEF TypeOK, RefuseUnlinked, RefuseListing, Finish
<1>5. ASSUME Me(c) \/ Get(c)
      PROVE  \/ callAnswer'[c] = NotFound
             \/ /\ Handling(c, "me") \/ Handling(c, "get")
                /\ \E rows : callAnswer'[c] = Ok(rows)
  BY <1>5 DEF TypeOK, Me, Get, Finish
<1>6. QED
  BY <1>1, <1>2, <1>3, <1>4, <1>5 DEF Next, SessionStep, Handle

\* An answered call is past its awaits, and nothing of it changes any more.
LEMMA AnsweredKept ==
    ASSUME TypeOK, HandlersInv, [Next]_vars, NEW c \in Calls, callAnswer[c] # Null
    PROVE  /\ callPc[c] \in {"reply", "answered", "lost"}
           /\ callPc'[c] \in {"reply", "answered", "lost"}
           /\ callRequest'[c] = callRequest[c] /\ callClaims'[c] = callClaims[c]
           /\ callBefore'[c] = callBefore[c]
<1>1. callPc[c] \in {"reply", "answered", "lost"}
  BY DEF HandlersInv, TypeOK, Stage
<1>2. QED
  BY <1>1, OneCallStep DEF Call, Admit, CheckActivation, Handling
LEMMA KeepsLiveAnswers ==
    ASSUME IInv, [Next]_vars
    PROVE  LiveAnswersLive'
<1> USE DEF IInv
<1> SUFFICES ASSUME NEW c \in Calls, callAnswer'[c] # Null, callAnswer'[c].kind = "ok",
                    callPc'[c] # "idle", callRequest'[c].route = "activate",
                    NEW v \in callAnswer'[c].value
             PROVE  v \in vehicles' /\ v.status = "ACTIVE"
  BY DEF LiveAnswersLive
<1>1. CASE callAnswer'[c] = callAnswer[c]
  <2>1. v \in vehicles /\ v.status = "ACTIVE"
    BY <1>1, AnsweredKept DEF LiveAnswersLive
  <2>2. QED
    BY <2>1, RowKept
<1>2. CASE Activate(c)
  <2>1. PICK w \in vehicles : CommitActivation(w) /\ callAnswer'[c] = Ok({Activated(w)})
    BY <1>2 DEF Activate, Finish, TypeOK
  <2>2. v = Activated(w) /\ Activated(w).status = "ACTIVE"
    BY <2>1, AnswersDistinct, ActivatedRow DEF TypeOK
  <2>3. QED
    BY <2>1, <2>2 DEF CommitActivation
<1>3. CASE callAnswer'[c] \in Refusals
  BY <1>3, AnswersDistinct
<1>4. CASE callPc[c] # "idle" /\ callRequest[c].route # "activate"
           /\ callRequest'[c] = callRequest[c]
  BY <1>4
<1>5. Mine(c) \/ Create(c) \/ Handling(c, "me") \/ Handling(c, "get")
      => callPc[c] = "handle" /\ callRequest[c].route # "activate"
  BY DEF Mine, Create, Handling
<1>6. callPc[c] = "handle" => callRequest'[c] = callRequest[c]
  BY OneCallStep DEF Call, Admit, CheckActivation
<1>7. QED
  BY <1>1, <1>2, <1>3, <1>4, <1>5, <1>6, AnswerStep DEF Refusals

LEMMA KeepsMine ==
    ASSUME IInv, [Next]_vars
    PROVE  MineIsComplete'
<1> USE DEF IInv
<1> SUFFICES ASSUME NEW c \in Calls, callAnswer'[c] # Null, callAnswer'[c].kind = "ok",
                    callRequest'[c].route = "mine"
             PROVE  /\ \A v \in callAnswer'[c].value : v.ownerId = callClaims'[c].userId
                    /\ callBefore'[c].owned \subseteq {v.id : v \in callAnswer'[c].value}
  BY DEF MineIsComplete
<1>1. CASE callAnswer'[c] = callAnswer[c]
  BY <1>1, AnsweredKept DEF MineIsComplete
<1>2. CASE Mine(c)
  <2>1. callPc[c] = "handle" /\ callClaims' = callClaims /\ callBefore' = callBefore
    BY <1>2 DEF Mine, Handling
  <2> DEFINE rows == {v \in vehicles : v.ownerId = callClaims[c].userId}
  <2>2. callAnswer'[c] = Ok(rows)
    BY <1>2 DEF Mine, Finish, TypeOK
  <2>3. callAnswer'[c].value = rows
    <3> HIDE DEF rows
    <3>1. QED
      BY <2>2, AnswersDistinct
  <2>4. CallerIds(callRequest[c].token) = {callClaims[c].userId}
    BY <2>1, OneCaller DEF HandlersInv
  <2>5. \A id \in callBefore[c].owned : \E v \in vehicles :
           v.id = id /\ v.ownerId = callClaims[c].userId
    BY <2>1, <2>4 DEF HandlersInv, BeforeHolds
  <2>6. QED
    BY <2>1, <2>3, <2>5
<1>3. CASE Activate(c)
  <2>1. callRequest[c].route = "activate" /\ callRequest' = callRequest
    BY <1>3 DEF Activate, HandlersInv, CheckHolds
  <2>2. QED
    BY <2>1
<1>4. CASE callAnswer'[c] \in Refusals
  BY <1>4, AnswersDistinct
<1>5. CASE Create(c) \/ Handling(c, "me") \/ Handling(c, "get")
  <2>1. callPc[c] = "handle" /\ callRequest[c].route # "mine"
    BY <1>5 DEF Create, Handling
  <2>2. callRequest'[c] = callRequest[c]
    BY <2>1, OneCallStep DEF Call, Admit, CheckActivation
  <2>3. QED
    BY <2>1, <2>2
<1>6. QED
  BY <1>1, <1>2, <1>3, <1>4, <1>5, AnswerStep DEF Refusals

LEMMA KeepsCreated ==
    ASSUME IInv, [Next]_vars
    PROVE  CreatedForCaller'
<1> USE DEF IInv
<1> SUFFICES ASSUME HasExternalIdentity, NEW c \in Calls, callAnswer'[c] # Null,
                    callAnswer'[c].kind = "ok", callRequest'[c].route = "create",
                    NEW v \in callAnswer'[c].value
             PROVE  \E u \in users' : u.id = v.ownerId /\ u.login = callRequest'[c].token
  BY DEF CreatedForCaller, HasExternalIdentity
<1>1. CASE callAnswer'[c] = callAnswer[c]
  BY <1>1, AnsweredKept, UsersGrow DEF CreatedForCaller
<1>2. CASE Create(c)
  <2>1. PICK id \in FreshVehicleIds(vehicles) : callAnswer'[c] = Ok({NewVehicle(c, id)})
    BY <1>2 DEF Create, Finish, TypeOK
  <2>2. v.ownerId = callClaims[c].userId
    BY <2>1, AnswersDistinct DEF NewVehicle
  <2>3. callPc[c] = "handle" /\ users' = users /\ callRequest' = callRequest
    BY <1>2 DEF Create, Handling
  <2>4. QED
    BY <2>2, <2>3 DEF HandlersInv, ClaimsHold
<1>3. CASE callAnswer'[c] \in Refusals
  BY <1>3, AnswersDistinct
<1>4. CASE Mine(c) \/ Activate(c) \/ Handling(c, "me") \/ Handling(c, "get")
  <2>1. callPc[c] \in {"handle", "update"} /\ callRequest[c].route # "create"
    BY <1>4 DEF Mine, Activate, Handling, HandlersInv, CheckHolds
  <2>2. callRequest'[c] = callRequest[c]
    BY <2>1, OneCallStep DEF Call, Admit, CheckActivation
  <2>3. QED
    BY <2>1, <2>2
<1>5. QED
  BY <1>1, <1>2, <1>3, <1>4, AnswerStep DEF Refusals

LEMMA KeepsRecognised ==
    ASSUME IInv, [Next]_vars
    PROVE  LinkedLoginRecognised'
<1> USE DEF IInv
<1> SUFFICES ASSUME NEW c \in Calls, callAnswer'[c] = Unlinked, callBefore'[c] # Null,
                    callBefore'[c].linked
             PROVE  FALSE
  BY DEF LinkedLoginRecognised
<1>1. Unlinked # Null
  BY AnswersDistinct DEF Refusals
<1>2. CASE callAnswer'[c] = callAnswer[c]
  BY <1>1, <1>2, AnsweredKept DEF LinkedLoginRecognised
<1>3. CASE RefuseUnlinked(c)
  <2>1. /\ callPc[c] = "guard" /\ callBefore' = callBefore /\ HasExternalIdentity
        /\ LinkedTo(users, callRequest[c].token) = {}
    BY <1>3 DEF RefuseUnlinked
  <2>2. CallerIds(callRequest[c].token) = {}
    BY <2>1 DEF CallerIds, VerifiedClaims
  <2>3. QED
    BY <2>1, <2>2 DEF HandlersInv, BeforeHolds
<1>4. CASE Mine(c) \/ Create(c) \/ Activate(c)
  <2>1. \E rows : callAnswer'[c] = Ok(rows)
    BY <1>4 DEF Mine, Create, Activate, Finish, TypeOK
  <2>2. QED
    BY <2>1, AnswersDistinct
<1>5. QED
  BY <1>2, <1>3, <1>4, AnswerStep, AnswersDistinct DEF Refusals

LEMMA KeepsAnswersTrue ==
    ASSUME IInv, [Next]_vars
    PROVE  AnswersStayTrue'
<1> USE DEF IInv
<1> SUFFICES ASSUME NEW c \in Calls, callAnswer'[c] # Null
             PROVE  /\ callAnswer'[c].kind = "ok" /\ callRequest'[c].route = "activate" =>
                          callAnswer'[c].value \subseteq vehicles'
                    /\ callAnswer'[c] = Conflict => ~VinFree(vehicles', callRequest'[c].listing.vin)
  BY DEF AnswersStayTrue
<1>1. callPc'[c] # "idle"
  <2>1. callPc[c] = "idle" => callAnswer[c] = Null
    BY DEF HandlersInv
  <2>2. HandlersInv'
    BY KeepsHandlers
  <2>3. QED
    BY <2>2 DEF HandlersInv
<1>2. callAnswer'[c].kind = "ok" /\ callRequest'[c].route = "activate" =>
         callAnswer'[c].value \subseteq vehicles'
  BY <1>1, KeepsLiveAnswers DEF LiveAnswersLive
<1>3. \A vin : ~VinFree(vehicles, vin) => ~VinFree(vehicles', vin)
  BY RowKept DEF VinFree
<1>4. ASSUME callAnswer'[c] = Conflict
      PROVE  ~VinFree(vehicles', callRequest'[c].listing.vin)
  <2>1. Conflict # Null
    BY AnswersDistinct DEF Refusals
  <2>2. CASE callAnswer'[c] = callAnswer[c]
    BY <1>3, <1>4, <2>1, <2>2, AnsweredKept DEF AnswersStayTrue
  <2>3. CASE RefuseListing(c) /\ Listed(c)
    BY <1>3, <2>3 DEF RefuseListing, Listed
  <2>4. CASE Mine(c) \/ Create(c) \/ Activate(c)
    <3>1. \E rows : callAnswer'[c] = Ok(rows)
      BY <2>4 DEF Mine, Create, Activate, Finish, TypeOK
    <3>2. QED
      BY <1>4, <3>1, AnswersDistinct
  <2>5. QED
    BY <1>4, <2>2, <2>3, <2>4, AnswerStep, AnswersDistinct
<1>5. QED
  BY <1>2, <1>4

-----------------------------------------------------------------------------
(* The inductive invariant.                                                *)

LEMMA InitIInv == Init => IInv
BY DEF Init, IInv, TypeOK, AccountsDistinct, ListingsConsistent, VehiclesValued, HandlersInv,
       LiveAnswersLive, MineIsComplete, CreatedForCaller, LinkedLoginRecognised,
       AnswersStayTrue, Stage

LEMMA NextIInv == IInv /\ [Next]_vars => IInv'
<1> SUFFICES ASSUME IInv, [Next]_vars
             PROVE  IInv'
  OBVIOUS
<1>1. TypeOK' /\ HandlersInv' /\ AccountsDistinct' /\ ListingsConsistent' /\ VehiclesValued'
  BY NextTypeOK, KeepsHandlers, KeepsAccountsDistinct, KeepsListings, KeepsValues DEF IInv
<1>2. /\ LiveAnswersLive' /\ MineIsComplete' /\ CreatedForCaller'
      /\ LinkedLoginRecognised' /\ AnswersStayTrue'
  BY KeepsLiveAnswers, KeepsMine, KeepsCreated, KeepsRecognised, KeepsAnswersTrue
<1>3. QED
  BY <1>1, <1>2 DEF IInv

LEMMA SafetyIInv == Safety => []IInv
BY InitIInv, NextIInv, PTL DEF Safety

\* A live high-value vehicle passed canActivate, and its value fits the column.
LEMMA IInvValued == IInv => ActiveVehiclesValued
<1> SUFFICES ASSUME IInv, NEW v \in vehicles, v.status = "ACTIVE", v.tier \in {"LUXURY", "EXOTIC"}
             PROVE  v.agreedValue \in 1..MaxInt /\ v.valuationSource \in ValuationSource
  BY DEF ActiveVehiclesValued
<1>1. v.agreedValue \in Nat \cup {Null} /\ v.valuationSource \in ValuationSource \cup {Null}
  BY DEF IInv, TypeOK, VehicleRow
<1>2. v.agreedValue \notin {Null, 0} /\ v.valuationSource # Null
  BY DEF IInv, VehiclesValued, CanActivate, RequiresAgreedValue
<1>3. v.agreedValue <= MaxInt
  BY <1>2 DEF IInv, VehiclesValued
<1>4. QED
  BY <1>1, <1>2, <1>3, MaxIntAssumption

-----------------------------------------------------------------------------
(* Each call is decided in one instant.                                    *)

\* The guard let the call past, and would now.
Admitted ==
    \A c \in Calls : callPc[c] \in {"handle", "update"} =>
        /\ callClaims[c] \in VerifiedClaims(users, callRequest[c].token)
        /\ RoleSatisfies(callClaims[c].role, RequiredRoles(callRequest[c].route))

LEMMA KeepsAdmitted ==
    ASSUME TypeOK, Admitted, [Next]_vars
    PROVE  Admitted'
<1> SUFFICES ASSUME NEW c \in Calls, callPc'[c] \in {"handle", "update"}
             PROVE  /\ callClaims'[c] \in VerifiedClaims(users', callRequest'[c].token)
                    /\ RoleSatisfies(callClaims'[c].role, RequiredRoles(callRequest'[c].route))
  BY DEF Admitted, VerifiedClaims, LinkedTo, HasExternalIdentity, RoleSatisfies, RequiredRoles
<1>1. \A token : VerifiedClaims(users, token) \subseteq VerifiedClaims(users', token)
  BY UsersGrow DEF VerifiedClaims, LinkedTo
<1>2. CASE callPc[c] \in {"handle", "update"} /\ callRequest'[c] = callRequest[c]
           /\ callClaims'[c] = callClaims[c]
  BY <1>1, <1>2 DEF Admitted
<1>3. CASE Admit(c) /\ callPc'[c] = "handle"
  <2>1. callRequest' = callRequest
    BY <1>3 DEF Admit
  <2>2. PICK claims \in VerifiedClaims(users, callRequest[c].token) :
           /\ RoleSatisfies(claims.role, RequiredRoles(callRequest[c].route))
           /\ callClaims'[c] = claims
    BY <1>3 DEF Admit, TypeOK, Finish
  <2>3. QED
    BY <1>1, <2>1, <2>2
<1>4. QED
  BY <1>2, <1>3, OneCallStep DEF Call, CheckActivation, Handling, TypeOK

LEMMA SafetyAdmitted == Safety => []Admitted
<1>1. Init => Admitted
  BY DEF Init, Admitted
<1>2. IInv /\ Admitted /\ [Next]_vars => Admitted'
  BY KeepsAdmitted DEF IInv
<1>3. QED
  BY <1>1, <1>2, SafetyIInv, PTL DEF Safety

\* The register reads a token, a role and an exception as the guards do.
LEMMA SameReading ==
    ASSUME NEW c \in Calls
    PROVE  /\ Register!Claiming(c) = VerifiedClaims(users, callRequest[c].token)
           /\ \A claims : Register!Permitted(claims, c)
                 <=> RoleSatisfies(claims.role, RequiredRoles(callRequest[c].route))
           /\ Register!HasExternalIdentity <=> HasExternalIdentity
BY DEF Register!Claiming, Register!VerifiedClaims, Register!LinkedTo,
       Register!HasExternalIdentity, Register!Permitted, Register!RoleSatisfies,
       VerifiedClaims, LinkedTo, HasExternalIdentity, RoleSatisfies, RequiredRoles

LEMMA SameAnswers ==
    /\ Register!Unauthorized = Unauthorized /\ Register!Exception("unlinked") = Unlinked
    /\ Register!Forbidden = Forbidden /\ Register!NotFound = NotFound
    /\ Register!BadRequest = BadRequest /\ Register!Conflict = Conflict
    /\ Register!ServerError = ServerError
    /\ \A value : Register!Ok(value) = Ok(value)
BY DEF Register!Unauthorized, Register!Forbidden, Register!NotFound, Register!BadRequest,
       Register!Conflict, Register!ServerError, Register!Ok, Register!Exception,
       Unauthorized, Unlinked, Forbidden, NotFound, BadRequest, Conflict, ServerError, Ok,
       Exception

\* A call past its guard acts for one account.
LEMMA ActingAlone ==
    ASSUME IInv, Admitted, NEW c \in Calls, callPc[c] \in {"handle", "update"}
    PROVE  Register!Acting(c) = {callClaims[c].userId}
<1>1. CallerIds(callRequest[c].token) = {callClaims[c].userId}
  BY OneCaller DEF IInv, HandlersInv
<1>2. Register!Acting(c) \subseteq CallerIds(callRequest[c].token)
  BY SameReading DEF Register!Acting, CallerIds
<1>3. callClaims[c].userId \in Register!Acting(c)
  BY SameReading DEF Register!Acting, Admitted
<1>4. QED
  BY <1>1, <1>2, <1>3

\* What canActivate asks is what a vehicle needs, given that its value fits the column.
LEMMA CanActivateIsDocumented ==
    ASSUME IInv, NEW v \in vehicles
    PROVE  Register!Documented(v) <=> CanActivate(v)
<1>1. v.agreedValue \in Nat \cup {Null} /\ v.valuationSource \in ValuationSource \cup {Null}
  BY DEF IInv, TypeOK, VehicleRow
<1>2. v.agreedValue # Null => v.agreedValue <= MaxInt
  BY DEF IInv, VehiclesValued
<1>3. Null \notin Nat /\ Null \notin ValuationSource
  BY NullAssumption
<1>4. v.agreedValue \in 1..MaxInt <=> v.agreedValue \notin {Null, 0}
  BY <1>1, <1>2, <1>3, MaxIntAssumption
<1>5. v.valuationSource \in ValuationSource <=> v.valuationSource # Null
  BY <1>1, <1>3
<1>6. QED
  BY <1>4, <1>5 DEF Register!Documented, CanActivate, RequiresAgreedValue,
                    Register!ValuationSource, ValuationSource

\* A handler that ends decides its call.
LEMMA FinishDecides ==
    ASSUME IInv, NEW c \in Calls, callPc[c] \in {"guard", "handle", "update"},
           NEW answer, Finish(c, answer), users' = users, callRequest' = callRequest
    PROVE  Register!Pending(c) /\ Register!Decide(c, answer)
<1>1. \A d \in Calls : callPc'[d] = "idle" <=> callPc[d] = "idle"
  BY DEF Finish, IInv, TypeOK
<1>2. callAnswer[c] = Null
  BY DEF IInv, HandlersInv
<1>3. QED
  BY <1>1, <1>2 DEF Register!Pending, Register!Decide, Finish

\* A step that leaves tables, requests and answers alone says nothing to the register.
LEMMA Unnoticed ==
    ASSUME UNCHANGED <<users, vehicles, callRequest, callAnswer>>,
           \A d \in Calls : callPc'[d] = "idle" <=> callPc[d] = "idle"
    PROVE  UNCHANGED Register!vars
BY DEF Register!vars

LEMMA CallIsAsked ==
    ASSUME IInv, NEW c \in Calls, NEW r \in Request, Call(c, r)
    PROVE  Register!Ask(c)
<1>1. \A d \in Calls : callPc'[d] # "idle" <=> callPc[d] # "idle" \/ d = c
  BY DEF Call, IInv, TypeOK
<1>2. QED
  BY <1>1 DEF Call, Register!Ask

LEMMA AccountIsOpened ==
    ASSUME OpenAccount
    PROVE  Register!Open
<1>1. PICK id \in FreshUserIds(users), login \in Logins \cup {Null} :
         \E account \in OwnerAccounts(id, login) :
            UserKeysFree(users, account) /\ users' = users \cup {account}
  BY DEF OpenAccount
<1>2. QED
  BY <1>1 DEF OpenAccount, callVars, Register!Open, Register!FreshUserIds, FreshUserIds,
              Register!OwnerAccounts, OwnerAccounts, Register!UserKeysFree, UserKeysFree

LEMMA GuardDecides ==
    ASSUME IInv, NEW c \in Calls, Admit(c) \/ RefuseToken(c) \/ RefuseUnlinked(c)
    PROVE  \/ Register!Pending(c) /\ Register!Refuse(c)
           \/ UNCHANGED Register!vars
<1> DEFINE token == callRequest[c].token
<1>1. CASE RefuseToken(c)
  <2>1. HasExternalIdentity \/ Register!Claiming(c) = {}
    BY <1>1, SameReading DEF RefuseToken, VerifiedClaims
  <2>2. Register!Pending(c) /\ Register!Decide(c, Unauthorized) /\ vehicles' = vehicles
    BY <1>1, FinishDecides DEF RefuseToken
  <2>3. QED
    BY <2>1, <2>2, SameReading, SameAnswers DEF Register!Refuse
<1>2. CASE RefuseUnlinked(c)
  <2>1. HasExternalIdentity /\ Register!Claiming(c) = {}
    BY <1>2, SameReading DEF RefuseUnlinked, VerifiedClaims
  <2>2. Register!Pending(c) /\ Register!Decide(c, Unlinked) /\ vehicles' = vehicles
    BY <1>2, FinishDecides DEF RefuseUnlinked
  <2>3. QED
    BY <2>1, <2>2, SameReading, SameAnswers DEF Register!Refuse
<1>3. CASE Admit(c)
  <2>1. PICK claims \in VerifiedClaims(users, token) :
           IF RoleSatisfies(claims.role, RequiredRoles(callRequest[c].route))
           THEN /\ callPc' = [callPc EXCEPT ![c] = "handle"]
                /\ callAnswer' = callAnswer
           ELSE Finish(c, Forbidden)
    BY <1>3 DEF Admit
  <2>2. /\ users' = users /\ vehicles' = vehicles /\ callRequest' = callRequest
        /\ callPc[c] = "guard"
    BY <1>3 DEF Admit
  <2>3. CASE RoleSatisfies(claims.role, RequiredRoles(callRequest[c].route))
    <3>1. \A d \in Calls : callPc'[d] = "idle" <=> callPc[d] = "idle"
      BY <2>1, <2>2, <2>3 DEF IInv, TypeOK
    <3>2. QED
      BY <2>1, <2>2, <2>3, <3>1, Unnoticed
  <2>4. CASE ~RoleSatisfies(claims.role, RequiredRoles(callRequest[c].route))
    <3>1. \E k \in Register!Claiming(c) : ~Register!Permitted(k, c)
      BY <2>4, SameReading
    <3>2. Register!Pending(c) /\ Register!Decide(c, Forbidden)
      BY <2>1, <2>2, <2>4, FinishDecides
    <3>3. QED
      BY <2>2, <3>1, <3>2, SameAnswers DEF Register!Refuse
  <2>5. QED
    BY <2>3, <2>4
<1>4. QED
  BY <1>1, <1>2, <1>3

LEMMA ReadsLook ==
    ASSUME IInv, Admitted, NEW c \in Calls, Me(c) \/ Mine(c) \/ Get(c)
    PROVE  Register!Pending(c) /\ Register!Look(c)
<1>1. callPc[c] = "handle" /\ users' = users /\ vehicles' = vehicles
      /\ callRequest' = callRequest
  BY DEF Me, Mine, Get, Handling
<1>2. Register!Acting(c) = {callClaims[c].userId}
  BY <1>1, ActingAlone
<1>3. CASE Me(c)
  BY <1>1, <1>2, <1>3, FinishDecides, SameAnswers DEF Me, Handling, Register!Look
<1>4. CASE Mine(c)
  BY <1>1, <1>2, <1>4, FinishDecides, SameAnswers DEF Mine, Handling, Register!Look
<1>5. CASE Get(c)
  BY <1>1, <1>2, <1>5, FinishDecides, SameAnswers
     DEF Get, Handling, Register!Look, Register!Asked
<1>6. QED
  BY <1>3, <1>4, <1>5

\* The insert lists the vehicle, whether its caller hears of it or not.
LEMMA InsertLists ==
    ASSUME IInv, Admitted, NEW c \in Calls, Handling(c, "create"),
           NEW id \in FreshVehicleIds(vehicles), CommitVehicle(c, id),
           Finish(c, Ok({NewVehicle(c, id)})) \/ Finish(c, ServerError),
           users' = users, callRequest' = callRequest
    PROVE  Register!Pending(c) /\ Register!List(c)
<1>1. callPc[c] = "handle" /\ callRequest[c].route = "create"
  BY DEF Handling
<1>2. Register!Acting(c) = {callClaims[c].userId}
  BY <1>1, ActingAlone
<1>3. Register!Pending(c)
  BY <1>1, FinishDecides
<1>4. \/ Register!Decide(c, Register!Ok({NewVehicle(c, id)}))
      \/ Register!Decide(c, Register!ServerError)
  BY <1>1, FinishDecides, SameAnswers
<1>5. /\ Register!OwnerExists(users, callClaims[c].userId)
      /\ Register!VinFree(vehicles, callRequest[c].listing.vin)
      /\ id \in Register!FreshVehicleIds(vehicles)
  BY DEF CommitVehicle, Register!OwnerExists, OwnerExists, Register!VinFree, VinFree,
         Register!FreshVehicleIds, FreshVehicleIds
<1>6. vehicles' = vehicles \cup {NewVehicle(c, id)}
  BY DEF CommitVehicle
<1>7. Register!List(c)
  BY <1>1, <1>2, <1>4, <1>5, <1>6 DEF Register!List, NewVehicle
<1>8. QED
  BY <1>3, <1>7

\* The update activates a vehicle that is its caller's, and documented, at that instant.
LEMMA UpdateGoesLive ==
    ASSUME IInv, Admitted, NEW c \in Calls, callPc[c] = "update",
           NEW v \in vehicles, v.id = callRequest[c].vehicle, CommitActivation(v),
           Finish(c, Ok({Activated(v)})) \/ Finish(c, ServerError),
           users' = users, callRequest' = callRequest
    PROVE  Register!Pending(c) /\ Register!GoLive(c)
<1>1. v.ownerId \in Register!Acting(c) /\ Register!Documented(v)
  BY CheckedRow, ActingAlone, CanActivateIsDocumented DEF IInv
<1>2. callRequest[c].route = "activate" /\ v \in Register!Asked(c)
  BY DEF IInv, HandlersInv, CheckHolds, Register!Asked
<1>3. Register!Pending(c)
  BY FinishDecides
<1>4. \/ Register!Decide(c, Register!Ok({Activated(v)}))
      \/ Register!Decide(c, Register!ServerError)
  BY FinishDecides, SameAnswers
<1>5. Register!GoLive(c)
  BY <1>1, <1>2, <1>4 DEF Register!GoLive, CommitActivation, Activated
<1>6. QED
  BY <1>3, <1>5

LEMMA HandlerRefuses ==
    ASSUME IInv, Admitted, NEW c \in Calls, RefuseListing(c) \/ RefuseActivation(c)
    PROVE  Register!Pending(c) /\ Register!Refuse(c)
<1>1. callPc[c] = "handle" /\ users' = users /\ vehicles' = vehicles
      /\ callRequest' = callRequest
  BY DEF RefuseListing, RefuseActivation, Handling
<1>2. Register!Acting(c) = {callClaims[c].userId}
  BY <1>1, ActingAlone
<1>3. CASE RefuseListing(c)
  <2>1. CASE Listed(c) /\ Finish(c, Conflict)
    <3>1. callRequest[c].route = "create" /\ ~Register!VinFree(vehicles, callRequest[c].listing.vin)
      BY <1>3, <2>1 DEF RefuseListing, Handling, Listed, Register!VinFree, VinFree
    <3>2. Register!Pending(c) /\ Register!Decide(c, Register!Conflict)
      BY <1>1, <2>1, FinishDecides, SameAnswers
    <3>3. QED
      BY <1>1, <3>1, <3>2 DEF Register!Refuse
  <2>2. CASE Finish(c, ServerError)
    <3>1. Register!Pending(c) /\ Register!Decide(c, Register!ServerError)
      BY <1>1, <2>2, FinishDecides, SameAnswers
    <3>2. QED
      BY <1>1, <3>1 DEF Register!Refuse
  <2>3. QED
    BY <1>3, <2>1, <2>2 DEF RefuseListing
<1>4. CASE RefuseActivation(c)
  <2>0. callRequest[c].route = "activate"
    BY <1>4 DEF RefuseActivation, Handling
  <2>1. CASE (\A v \in vehicles : v.id # callRequest[c].vehicle) /\ Finish(c, NotFound)
    <3>1. Register!Asked(c) = {}
      BY <2>1 DEF Register!Asked
    <3>2. Register!Pending(c) /\ Register!Decide(c, Register!NotFound)
      BY <1>1, <2>1, FinishDecides, SameAnswers
    <3>3. QED
      BY <1>1, <2>0, <3>1, <3>2 DEF Register!Refuse
  <2>2. CASE \E v \in vehicles : /\ v.id = callRequest[c].vehicle
                                 /\ v.ownerId # callClaims[c].userId
                                 /\ Finish(c, Forbidden)
    <3>1. \E v \in Register!Asked(c) : v.ownerId \notin Register!Acting(c)
      BY <1>2, <2>2 DEF Register!Asked
    <3>2. Register!Pending(c) /\ Register!Decide(c, Register!Forbidden)
      BY <1>1, <2>2, FinishDecides, SameAnswers
    <3>3. QED
      BY <1>1, <2>0, <3>1, <3>2 DEF Register!Refuse
  <2>3. CASE \E v \in vehicles : /\ v.id = callRequest[c].vehicle
                                 /\ v.ownerId = callClaims[c].userId
                                 /\ ~CanActivate(v)
                                 /\ Finish(c, BadRequest)
    <3>1. \E v \in Register!Asked(c) : v.ownerId \in Register!Acting(c) /\ ~Register!Documented(v)
      BY <1>2, <2>3, CanActivateIsDocumented DEF Register!Asked
    <3>2. Register!Pending(c) /\ Register!Decide(c, Register!BadRequest)
      BY <1>1, <2>3, FinishDecides, SameAnswers
    <3>3. QED
      BY <1>1, <2>0, <3>1, <3>2 DEF Register!Refuse
  <2>4. QED
    BY <1>4, <2>1, <2>2, <2>3 DEF RefuseActivation
<1>5. QED
  BY <1>3, <1>4

LEMMA FailureDecides ==
    ASSUME IInv, Admitted, NEW c \in Calls, LoseDatabase(c)
    PROVE  Register!Pending(c) /\ (Register!Refuse(c) \/ Register!List(c) \/ Register!GoLive(c))
<1>1. /\ callPc[c] \in {"guard", "handle", "update"} /\ Finish(c, ServerError)
      /\ users' = users /\ callRequest' = callRequest
  BY DEF LoseDatabase
<1>2. CASE vehicles' = vehicles
  <2>1. Register!Pending(c) /\ Register!Decide(c, Register!ServerError)
    BY <1>1, FinishDecides, SameAnswers
  <2>2. QED
    BY <1>2, <2>1 DEF Register!Refuse
<1>3. CASE Handling(c, "create") /\ \E id \in FreshVehicleIds(vehicles) : CommitVehicle(c, id)
  BY <1>1, <1>3, InsertLists
<1>4. CASE /\ callPc[c] = "update"
           /\ \E v \in vehicles : v.id = callRequest[c].vehicle /\ CommitActivation(v)
  BY <1>1, <1>4, UpdateGoesLive
<1>5. QED
  BY <1>2, <1>3, <1>4 DEF LoseDatabase

LEMMA NextIsDecision ==
    ASSUME IInv, Admitted, [Next]_vars
    PROVE  [Register!Next]_(Register!vars)
<1>1. ASSUME NEW c \in Calls, NEW r \in Request, Call(c, r)
      PROVE  Register!Next
  BY <1>1, CallIsAsked DEF Register!Next
<1>2. CASE OpenAccount
  BY <1>2, AccountIsOpened DEF Register!Next
<1>3. ASSUME NEW c \in Calls, Admit(c) \/ RefuseToken(c) \/ RefuseUnlinked(c)
      PROVE  Register!Next \/ UNCHANGED Register!vars
  BY <1>3, GuardDecides DEF Register!Next
<1>4. ASSUME NEW c \in Calls, Me(c) \/ Mine(c) \/ Get(c)
      PROVE  Register!Next
  BY <1>4, ReadsLook DEF Register!Next
<1>5. ASSUME NEW c \in Calls, Create(c)
      PROVE  Register!Next
  BY <1>5, InsertLists DEF Create, Register!Next
<1>6. ASSUME NEW c \in Calls, Activate(c)
      PROVE  Register!Next
  BY <1>6, UpdateGoesLive DEF Activate, Register!Next
<1>7. ASSUME NEW c \in Calls, RefuseListing(c) \/ RefuseActivation(c)
      PROVE  Register!Next
  BY <1>7, HandlerRefuses DEF Register!Next
<1>8. ASSUME NEW c \in Calls, LoseDatabase(c)
      PROVE  Register!Next
  BY <1>8, FailureDecides DEF Register!Next
<1>9. ASSUME NEW c \in Calls, CheckActivation(c) \/ Deliver(c) \/ LoseReply(c)
      PROVE  UNCHANGED Register!vars
  BY <1>9, Unnoticed DEF IInv, TypeOK, CheckActivation, Deliver, LoseReply, Handling
<1>10. CASE Crash
  BY <1>10, Unnoticed DEF IInv, TypeOK, Crash, CrashCalls, InFlight
<1>11. CASE UNCHANGED vars
  BY <1>11, Unnoticed DEF vars
<1>12. QED
  BY <1>1, <1>2, <1>3, <1>4, <1>5, <1>6, <1>7, <1>8, <1>9, <1>10, <1>11
     DEF Next, SessionStep, Handle

-----------------------------------------------------------------------------
(* The results.                                                            *)

\* The tables, the handlers' awaits and the answers keep their types.
THEOREM SessionTypeCorrect == Spec => []TypeOK
BY SafetyIInv, PTL DEF IInv, Spec

\* No high-value vehicle is live without a documented, positive agreed value, although
\* activate() checks one read of the row and updates it by id after another await: the
\* row's owner, tier and value never change, and no id is given to a second row.
THEOREM LiveVehiclesAreValued == Spec => []ActiveVehiclesValued
BY SafetyIInv, IInvValued, PTL DEF Spec

\* VINs and ids stay unique, and no vehicle loses its owner, whichever creates race.
THEOREM ListingsStayConsistent == Spec => []ListingsConsistent
BY SafetyIInv, PTL DEF IInv, Spec

\* GET /vehicles/mine reads its caller's own writes: a token acts as one account for as
\* long as the call runs, and no vehicle that account had is ever taken away.
THEOREM OwnersSeeTheirVehicles == Spec => []MineIsComplete
BY SafetyIInv, PTL DEF IInv, Spec

\* An account is never closed, so the guard's lookup finds the one the login had.
THEOREM LoginsAreRecognised == Spec => []LinkedLoginRecognised
BY SafetyIInv, PTL DEF IInv, Spec

\* What activate and create answered is true from then on.
THEOREM AnswersAreLasting == Spec => []AnswersStayTrue
BY SafetyIInv, PTL DEF IInv, Spec

\* No step of another call, of a registration or of a crash changes a vehicle: the row the
\* update writes is its caller's, as it was when activate() read it.
THEOREM OnlyOwnersActivate == Spec => OnlyOwnerChangesVehicle
<1> DEFINE Owned == \A v \in vehicles : v \notin vehicles' =>
              \E c \in Calls : /\ callPc[c] = "update" /\ callPc'[c] # "update"
                               /\ callRequest[c].vehicle = v.id
                               /\ callClaims[c].userId = v.ownerId
<1>1. ASSUME IInv, [Next]_vars
      PROVE  Owned
  <2> SUFFICES ASSUME NEW v \in vehicles, v \notin vehicles'
               PROVE  \E c \in Calls : /\ callPc[c] = "update" /\ callPc'[c] # "update"
                                       /\ callRequest[c].vehicle = v.id
                                       /\ callClaims[c].userId = v.ownerId
    OBVIOUS
  <2>1. PICK c \in Calls : \E w \in vehicles :
           /\ callPc[c] = "update" /\ callPc'[c] = "reply"
           /\ w.id = callRequest[c].vehicle /\ CommitActivation(w)
    BY <1>1, VehiclesStep DEF IInv, CommitVehicle
  <2>2. v.id = callRequest[c].vehicle
    BY <2>1 DEF CommitActivation
  <2>3. v.ownerId = callClaims[c].userId
    BY <1>1, <2>1, <2>2, CheckedRow DEF IInv
  <2>4. QED
    BY <2>1, <2>2, <2>3
<1>2. IInv /\ [Next]_vars => [Owned]_vars
  BY <1>1
<1>3. QED
  BY SafetyIInv, <1>2, PTL DEF Spec, Safety, OnlyOwnerChangesVehicle

\* Each call is authenticated, authorised, carried out and answered in one instant,
\* although its guard, its check and its write are three: what the guard and the check
\* found is as true when the handler ends.
THEOREM CallsAreAtomic == Spec => ImplementsRegister
<1>1. Init => Register!Init
  BY DEF Init, Register!Init
<1>2. IInv /\ Admitted /\ [Next]_vars => [Register!Next]_(Register!vars)
  BY NextIsDecision
<1>3. QED
  BY <1>1, <1>2, SafetyIInv, SafetyAdmitted, PTL
     DEF Spec, Safety, ImplementsRegister, Register!Spec

=============================================================================
