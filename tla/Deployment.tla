----------------------------- MODULE Deployment -----------------------------
(***************************************************************************)
(* The API process and the web build as the operator deploys them, over one*)
(* database that outlives them.  Each picks its side of authentication on  *)
(* its own: the API when it boots (AuthModule's factory on loadConfig), the*)
(* web when it is built (clerkEnabled), a tab when it is loaded.  So they  *)
(* can disagree, at any step of a switch from one flow to the other.       *)
(*                                                                         *)
(* Variables are read at boot and at build only: setting them is a part of *)
(* the deploy that reads them.  A request is served in one step here;      *)
(* Identity and OwnerSession have the steps.                               *)
(***************************************************************************)
EXTENDS Http

CONSTANT BadToken   \* a bearer token the provider does not accept

VARIABLES
    users,     \* the User table
    api,       \* the configuration of the deployed API process; Null before
    up,        \* whether that process is running
    webMode,   \* clerk or dev: the deployed build of the web app
    tabMode,   \* per person: the build their tab runs; Null when closed
    ownerId,   \* per person: the account their tab knows
    loosened,  \* history: whether any deploy was outside production, or opted in to the mock
    opened,    \* history, per person: the accounts they opened
    mocked     \* history: the accounts opened while the API ran the mock

tabVars == <<tabMode, ownerId>>
history == <<loosened, opened, mocked>>
vars == <<users, api, up, webMode, tabVars, history>>

Mode == {"clerk", "dev"}

\* What loadConfig reads of the environment that matters here.  Any other name of
\* a provider is as unsupported as auth0.
Config ==
    [provider: {"mock", "clerk", "auth0"}, issuer: BOOLEAN, production: BOOLEAN,
     allowMockInProduction: BOOLEAN]

-----------------------------------------------------------------------------
(* The API's side.                                                         *)

\* Mutation of Boots: the mock boots wherever it is configured.
BootsUnchecked(config) ==
    \/ config.provider = "clerk" /\ config.issuer
    \/ config.provider = "mock"

\* The factory of AUTH_PROVIDER; where it throws, the boot is refused.
Boots(config) ==
    \/ config.provider = "clerk" /\ config.issuer
    \/ config.provider = "mock" /\ (config.production => config.allowMockInProduction)

Clerk == INSTANCE Auth WITH Provider <- "clerk"
Mock == INSTANCE Auth WITH Provider <- "mock"

\* A bad token is nobody's, and a dev token is not a JWT.
ASSUME TokensAssumption ==
    /\ BadToken \notin Logins \cup {Null}
    /\ Logins \cap Clerk!DevToken = {}

Serves(provider) == up /\ api.provider = provider

\* Whom the running process takes the bearer of a token for: a token of the other
\* provider is a bad one.
ClaimsOf(token) ==
    IF Serves("clerk")
    THEN Clerk!VerifiedClaims(users, IF token \in Logins \cup {Null} THEN token ELSE BadToken)
    ELSE IF Serves("mock")
    THEN Mock!VerifiedClaims(users, IF token \in Logins THEN BadToken ELSE token)
    ELSE {}

-----------------------------------------------------------------------------
(* The web's side.                                                         *)

\* resolveToken: the session's JWT, or a dev token for the account the tab knows.
TokenOf(p) ==
    CASE tabMode[p] = "clerk" -> p
      [] tabMode[p] = "dev" /\ ownerId[p] # Null -> [userId |-> ownerId[p], role |-> "OWNER"]
      [] OTHER -> Null

\* The accounts as which a tab's calls are served.
ServedAs(p) == {claims.userId : claims \in ClaimsOf(TokenOf(p))}

-----------------------------------------------------------------------------
Init ==
    /\ users = {}
    /\ api = Null
    /\ up = FALSE
    /\ webMode \in Mode
    /\ tabMode = [p \in Logins |-> Null]
    /\ ownerId = [p \in Logins |-> Null]
    /\ loosened = FALSE
    /\ opened = [p \in Logins |-> {}]
    /\ mocked = {}

\* A deploy whose boot is refused leaves the process of the last one in place.
DeployApi ==
    /\ \E config \in Config :
          /\ Boots(config)
          /\ api' = config
          /\ loosened' = (loosened \/ ~config.production \/ config.allowMockInProduction)
    /\ up' = TRUE
    /\ UNCHANGED <<users, webMode, tabVars, opened, mocked>>

Crash ==
    /\ up
    /\ up' = FALSE
    /\ UNCHANGED <<users, api, webMode, tabVars, history>>

\* restartPolicyType ON_FAILURE: the same deployment boots again.
Restart ==
    /\ api # Null /\ ~up /\ Boots(api)
    /\ up' = TRUE
    /\ UNCHANGED <<users, api, webMode, tabVars, history>>

\* clerkEnabled is inlined by the build; tabs keep the build they loaded.
DeployWeb ==
    /\ webMode' \in Mode \ {webMode}
    /\ UNCHANGED <<users, api, up, tabVars, history>>

\* A page load, or a reload: React state starts empty.
OpenTab(p) ==
    /\ tabMode' = [tabMode EXCEPT ![p] = webMode]
    /\ ownerId' = [ownerId EXCEPT ![p] = Null]
    /\ UNCHANGED <<users, api, up, webMode, history>>

\* GET /owners/me as the tab mounts; its answer may come at any time.  A refusal is
\* silent.
RestoreAccount(p) ==
    /\ tabMode[p] = "clerk" /\ ownerId[p] = Null
    /\ \E id \in ServedAs(p) : ownerId' = [ownerId EXCEPT ![p] = id]
    /\ UNCHANGED <<users, api, up, webMode, tabMode, history>>

\* Mutation of LoginFor: the controller keeps the login to itself.
LoginForNobody(p) == Null

\* The login registerOwner is called with.
LoginFor(p) == IF Serves("clerk") THEN p ELSE Null

\* Email and phone are what the form says, whoever's they are.
NewAccount(p, id, email, phone) ==
    [id |-> id, role |-> "OWNER", status |-> "ACTIVE", region |-> "US",
     email |-> email, phone |-> phone, login |-> LoginFor(p)]

\* The register button is there while no account is known.  Clerk's provider wants
\* a token, which only a Clerk tab sends; the mock's does not look at it.
MayRegister(p) ==
    /\ up /\ tabMode[p] # Null /\ ownerId[p] = Null
    /\ Serves("clerk") => tabMode[p] = "clerk"

\* The answer is an account: the tab knows it from now on.
Registered(p, id) ==
    /\ ownerId' = [ownerId EXCEPT ![p] = id]
    /\ UNCHANGED <<api, up, webMode, tabMode, loosened>>

\* A key that is taken is a 409, and nothing changes.
Register(p) ==
    /\ MayRegister(p)
    /\ Clerk!LinkedTo(users, p) = {} \/ Serves("mock")
    /\ \E id \in FreshUserIds(users), email \in Emails, phone \in Phones :
          /\ UserKeysFree(users, NewAccount(p, id, email, phone))
          /\ users' = users \cup {NewAccount(p, id, email, phone)}
          /\ opened' = [opened EXCEPT ![p] = @ \cup {id}]
          /\ mocked' = IF Serves("mock") THEN mocked \cup {id} ELSE mocked
          /\ Registered(p, id)

\* A login that has its account is answered with it.
RegisterAgain(p) ==
    /\ MayRegister(p) /\ Serves("clerk")
    /\ \E u \in Clerk!LinkedTo(users, p) : Registered(p, u.id)
    /\ UNCHANGED <<users, opened, mocked>>

Next ==
    \/ DeployApi \/ Crash \/ Restart \/ DeployWeb
    \/ \E p \in Logins : OpenTab(p) \/ RestoreAccount(p) \/ Register(p) \/ RegisterAgain(p)

Spec == Init /\ [][Next]_vars

-----------------------------------------------------------------------------
(* Properties.                                                             *)

\* Whatever is redeployed, crashed, rebuilt or reloaded on either side, however the
\* two disagree, and whoever's email and phone were typed in, a tab's calls are served
\* as nobody, or as an account its own user opened.
NeverSomebodyElse == \A p \in Logins : ServedAs(p) \subseteq opened[p]

\* Whenever the API runs Clerk, every account that somebody opened is the one they are
\* recognised as, whatever ran in between, but for those opened while the API ran the
\* mock: they have no login, and no route ever gives them one.  It takes an operator
\* who deployed outside production, or opted in to the mock there.  So of one's own
\* accounts only those are in the way of registering; another person's, with the same
\* email or phone, may always be.
OnlyMockStrands ==
    Serves("clerk") =>
        \A p \in Logins : \A id \in opened[p] :
            \/ id \in {claims.userId : claims \in ClaimsOf(p)}
            \/ id \in mocked /\ loosened

=============================================================================
