------------------------------ MODULE Dashboard ------------------------------
(***************************************************************************)
(* The owner dashboard (apps/web/app/owner/owner-dashboard.tsx) in one tab,*)
(* with the API behind it.  Buttons stay enabled while a call is in flight,*)
(* so calls overlap and their answers arrive in any order:                 *)
(*                                                                         *)
(*   idle (-> token) -> sent -> served -> done                             *)
(*                                                                         *)
(* The API serves a call in one atomic step: AccountDirectory says so of   *)
(* registration, and the other routes used here commit at most once.       *)
(***************************************************************************)
EXTENDS Http, SequencesExt

CONSTANTS
    Clicks,      \* the calls the tab ever makes (a bound)
    Me, Other    \* the login signed in to the tab, and somebody else's

ASSUME LoginsAssumption == Me \in Logins /\ Other \in Logins /\ Me # Other

Vehicles == [id: VehicleIds, ownerId: UserIds, vin: Vins]

\* Null stands for no answer yet: neither an account nor a created vehicle is that.
ASSUME AnswersAssumption ==
    /\ \A id \in UserIds : Null # Ok(id)
    /\ \A v \in Vehicles : Null # Ok(<<v>>)

VARIABLES
    mode,         \* clerk or dev: a prop of the component
    accounts,     \* API: owner accounts
    fleet,        \* API: vehicles, oldest first
    ownerId,      \* useState: Null before an account is known
    error,        \* useState: whether an error is shown
    list,         \* useState: the vehicles shown
    restored,     \* useRef: the account was looked for once
    callKind,     \* what each call is: restore, register, create or refresh
    callPc,       \* where it stands
    callForm,     \* the email or the VIN in its form when clicked
    callToken,    \* its bearer token: a login, or in dev mode an owner id
    callAnswer,   \* what the API answers; vehicles as a sequence, one if created
    callShown,    \* history: the vehicles shown when it was clicked
    overlapped    \* history: a call was started while another was in flight

serverVars == <<accounts, fleet>>
callVars == <<callKind, callForm, callShown, overlapped>>
vars == <<mode, serverVars, ownerId, error, list, restored, callVars, callPc, callToken,
          callAnswer>>

Failed == ServerError   \* every answer that is not ok: asJson throws, or fetch does

InFlight(c) == callPc[c] \in {"token", "sent", "served"}

-----------------------------------------------------------------------------
(* The clicks.                                                             *)

\* resolveToken, with the ownerId of the render that was clicked; with Clerk the
\* session is asked for a token first.
Begin(c, kind, form) ==
    /\ callPc[c] = "idle"
    /\ callKind' = [callKind EXCEPT ![c] = kind]
    /\ callForm' = [callForm EXCEPT ![c] = form]
    /\ callPc' = [callPc EXCEPT ![c] = IF mode = "clerk" THEN "token" ELSE "sent"]
    /\ callToken' = [callToken EXCEPT ![c] = IF mode = "dev" THEN ownerId ELSE Null]
    /\ callShown' = [callShown EXCEPT ![c] = ToSet(list)]
    /\ overlapped' = (overlapped \/ \E b \in Clicks : InFlight(b))
    /\ UNCHANGED <<mode, serverVars, ownerId, list, callAnswer>>

\* The effect of the first render.
Restore(c) ==
    /\ mode = "clerk"
    /\ ~restored
    /\ restored' = TRUE
    /\ Begin(c, "restore", Null)
    /\ UNCHANGED error

\* Effects run before the user can click.
Mounted == mode = "clerk" => restored

\* The button is there while no account is known.
OnRegister(c) ==
    /\ Mounted
    /\ ownerId = Null
    /\ error' = FALSE
    /\ \E email \in Emails : Begin(c, "register", email)
    /\ UNCHANGED restored

\* The buttons are disabled while no account is known.
OnCreateVehicle(c) ==
    /\ ownerId # Null
    /\ error' = FALSE
    /\ \E vin \in Vins : Begin(c, "create", vin)
    /\ UNCHANGED restored

OnRefresh(c) ==
    /\ ownerId # Null
    /\ error' = FALSE
    /\ Begin(c, "refresh", Null)
    /\ UNCHANGED restored

\* Whatever goes wrong is shown, except while restoring.
ShowError(c) == error' = (error \/ callKind[c] # "restore")

\* getToken() fulfils with the session's token.
GetToken(c) ==
    /\ callPc[c] = "token"
    /\ callPc' = [callPc EXCEPT ![c] = "sent"]
    /\ callToken' = [callToken EXCEPT ![c] = Me]
    /\ UNCHANGED <<mode, serverVars, ownerId, error, list, restored, callVars, callAnswer>>

\* It fulfils with null (no session yet): registration alone goes on without it.
SendWithoutToken(c) ==
    /\ callPc[c] = "token"
    /\ callKind[c] = "register"
    /\ callPc' = [callPc EXCEPT ![c] = "sent"]
    /\ UNCHANGED <<mode, serverVars, ownerId, error, list, restored, callVars, callToken,
                   callAnswer>>

\* It rejects, or fulfils with null.
GiveUp(c) ==
    /\ callPc[c] = "token"
    /\ callPc' = [callPc EXCEPT ![c] = "done"]
    /\ ShowError(c)
    /\ UNCHANGED <<mode, serverVars, ownerId, list, restored, callVars, callToken, callAnswer>>

-----------------------------------------------------------------------------
(* The API.                                                                *)

Reply(c, answer) ==
    /\ callPc[c] = "sent"
    /\ callPc' = [callPc EXCEPT ![c] = "served"]
    /\ callAnswer' = [callAnswer EXCEPT ![c] = answer]
    /\ UNCHANGED <<mode, ownerId, error, list, restored, callVars, callToken>>

\* The accounts a call acts as.
Callers(c) ==
    {a \in accounts : IF mode = "clerk" THEN callToken[c] = Me /\ a.login = Me
                                        ELSE a.id = callToken[c]}

CallerIds(c) == {a.id : a \in Callers(c)}

\* An account for a caller without one.
Enrol(c, id) ==
    /\ callKind[c] = "register"
    /\ mode = "clerk" => callToken[c] = Me /\ Callers(c) = {}
    /\ \A a \in accounts : a.email # callForm[c]
    /\ accounts' = accounts \cup
          {[id |-> id, login |-> IF mode = "clerk" THEN Me ELSE Null, email |-> callForm[c]]}
    /\ UNCHANGED fleet

\* A vehicle for the caller.
Enlist(c, v) ==
    /\ callKind[c] = "create"
    /\ v.vin = callForm[c]
    /\ v.ownerId \in CallerIds(c)
    /\ VinFree(ToSet(fleet), v.vin)
    /\ fleet' = Append(fleet, v)
    /\ UNCHANGED accounts

FreshVehicles == [id: FreshVehicleIds(ToSet(fleet)), ownerId: UserIds, vin: Vins]

\* Where the caller's vehicles stand in the fleet.
Mine(c) == {i \in DOMAIN fleet : fleet[i].ownerId \in CallerIds(c)}

\* The n-th newest position of a set of them: n - 1 are newer.
NthNewest(places, n) == CHOOSE i \in places : Cardinality({j \in places : j > i}) = n - 1

\* Mutations of Listing: no filter by owner; a first page.
ListingOfAll(c) == Reverse(fleet)

ListingFirstPage(c) ==
    [n \in 1..(IF Mine(c) = {} THEN 0 ELSE 1) |-> fleet[NthNewest(Mine(c), n)]]

\* GET /vehicles/mine, newest first.
Listing(c) == [n \in 1..Cardinality(Mine(c)) |-> fleet[NthNewest(Mine(c), n)]]

\* GET /owners/me, and POST /owners/register from a login that has its account.
ServeAccount(c) ==
    /\ mode = "clerk"
    /\ callKind[c] \in {"restore", "register"}
    /\ \E a \in Callers(c) : Reply(c, Ok(a.id))
    /\ UNCHANGED serverVars

ServeRegistration(c) == \E id \in FreshUserIds(accounts) : Reply(c, Ok(id)) /\ Enrol(c, id)

ServeCreate(c) == \E v \in FreshVehicles : Reply(c, Ok(<<v>>)) /\ Enlist(c, v)

ServeList(c) ==
    /\ callKind[c] = "refresh"
    /\ Reply(c, Ok(Listing(c)))
    /\ UNCHANGED serverVars

\* A refusal, an error or a lost connection, perhaps after a commit.
ServeNot(c) ==
    /\ Reply(c, Failed)
    /\ \/ UNCHANGED serverVars
       \/ \E id \in FreshUserIds(accounts) : Enrol(c, id)
       \/ \E v \in FreshVehicles : Enlist(c, v)

\* Another device of any owner lists a vehicle.
Elsewhere ==
    /\ \E a \in accounts, v \in FreshVehicles :
          /\ v.ownerId = a.id
          /\ VinFree(ToSet(fleet), v.vin)
          /\ fleet' = Append(fleet, v)
    /\ UNCHANGED <<mode, accounts, ownerId, error, list, restored, callVars, callPc, callToken,
                   callAnswer>>

-----------------------------------------------------------------------------
(* The answers arrive.                                                     *)

Arrive(c, kinds) ==
    /\ callPc[c] = "served"
    /\ callKind[c] \in kinds
    /\ callAnswer[c].kind = "ok"
    /\ callPc' = [callPc EXCEPT ![c] = "done"]
    /\ UNCHANGED <<mode, serverVars, error, restored, callVars, callToken, callAnswer>>

ShowOwner(c) ==
    /\ Arrive(c, {"restore", "register"})
    /\ ownerId' = callAnswer[c].value
    /\ UNCHANGED list

\* Mutation of ShowCreated: the list of another render is kept.
ShowCreatedOnly(c) ==
    /\ Arrive(c, {"create"})
    /\ list' = callAnswer[c].value
    /\ UNCHANGED ownerId

ShowCreated(c) ==
    /\ Arrive(c, {"create"})
    /\ list' = callAnswer[c].value \o list
    /\ UNCHANGED ownerId

ShowList(c) ==
    /\ Arrive(c, {"refresh"})
    /\ list' = callAnswer[c].value
    /\ UNCHANGED ownerId

ShowFailure(c) ==
    /\ callPc[c] = "served"
    /\ callAnswer[c].kind # "ok"
    /\ callPc' = [callPc EXCEPT ![c] = "done"]
    /\ ShowError(c)
    /\ UNCHANGED <<mode, serverVars, ownerId, list, restored, callVars, callToken, callAnswer>>

-----------------------------------------------------------------------------
\* The tab opens on an API that may know its user, or have their email taken.
Init ==
    /\ mode \in {"clerk", "dev"}
    /\ \/ accounts = {}
       \/ \E id \in UserIds, email \in Emails, login \in {Me, Other} :
             accounts = {[id |-> id, login |-> IF mode = "clerk" THEN login ELSE Null,
                          email |-> email]}
    /\ fleet = <<>>
    /\ ownerId = Null
    /\ error = FALSE
    /\ list = <<>>
    /\ restored = FALSE
    /\ callKind = [c \in Clicks |-> Null]
    /\ callPc = [c \in Clicks |-> "idle"]
    /\ callForm = [c \in Clicks |-> Null]
    /\ callToken = [c \in Clicks |-> Null]
    /\ callAnswer = [c \in Clicks |-> Null]
    /\ callShown = [c \in Clicks |-> {}]
    /\ overlapped = FALSE

Next ==
    \/ Elsewhere
    \/ \E c \in Clicks :
          \/ Restore(c) \/ OnRegister(c) \/ OnCreateVehicle(c) \/ OnRefresh(c)
          \/ GetToken(c) \/ SendWithoutToken(c) \/ GiveUp(c)
          \/ ServeAccount(c) \/ ServeRegistration(c) \/ ServeCreate(c) \/ ServeList(c)
          \/ ServeNot(c)
          \/ ShowOwner(c) \/ ShowCreated(c) \/ ShowList(c) \/ ShowFailure(c)

Spec == Init /\ [][Next]_vars

-----------------------------------------------------------------------------
(* Properties.                                                             *)

\* The accounts whose registration, or restoration, was answered to this tab.
Registered ==
    {callAnswer[c].value : c \in {b \in Clicks : /\ callKind[b] \in {"restore", "register"}
                                                 /\ callPc[b] = "done"
                                                 /\ callAnswer[b] # Null
                                                 /\ callAnswer[b].kind = "ok"}}

\* However answers overtake each other, the tab shows accounts it was given and
\* their vehicles.  With Clerk that is one account, the login's own, and the
\* identity never flips; in dev mode two overlapping registrations may flip it.
ShowsOnlyMine ==
    /\ ownerId # Null => ownerId \in Registered
    /\ \A v \in ToSet(list) : v \in ToSet(fleet) /\ v.ownerId \in Registered
    /\ mode = "clerk" /\ Registered # {} =>
          /\ Registered = {ownerId}
          /\ \E a \in accounts : a.id = ownerId /\ a.login = Me

\* A refresh never takes away a vehicle its owner saw when clicking it, although
\* it may take away one that was shown since.
RefreshNeverForgets ==
    [][\A c \in Clicks :
          /\ callKind[c] = "refresh" /\ callPc[c] = "served" /\ callPc'[c] = "done"
          /\ callAnswer[c].kind = "ok"
          => \A v \in callShown[c] :
                v.ownerId \in CallerIds(c) => v \in ToSet(list')]_vars

\* Who waits for each answer before the next click sees every vehicle once, and
\* every vehicle the tab was told it created.
SequentialUseIsExact ==
    ~overlapped =>
        /\ Cardinality(ToSet(list)) = Len(list)
        /\ \A c \in Clicks :
              callKind[c] = "create" /\ callPc[c] = "done" /\ callAnswer[c] # Null
                 /\ callAnswer[c].kind = "ok"
              => callAnswer[c].value[1] \in ToSet(list)

=============================================================================
