--------------------------- MODULE OwnerApiProofs ---------------------------
(***************************************************************************)
(* Proofs about OwnerApi: that registration does to the session only what  *)
(* its environment may, so that what is proved of each part alone          *)
(* (IdentityProofs, OwnerSessionProofs) holds of the whole, and the        *)
(* properties that span the two.                                           *)
(***************************************************************************)
EXTENDS OwnerApi, TLAPS

RegistrationFacts == INSTANCE IdentityProofs
SessionFacts == INSTANCE OwnerSessionProofs

\* The invariants of the parts, over the composition's variables.
IInv == RegistrationFacts!IInv /\ SessionFacts!IInv

-----------------------------------------------------------------------------
(* The two instances of each part are one specification, and its           *)
(* assumptions are the composition's own.                                  *)

LEMMA SameRegistration ==
    /\ Registration!Init <=> RegistrationFacts!Init
    /\ Registration!Next <=> RegistrationFacts!Next
    /\ Registration!vars = RegistrationFacts!vars
    /\ Registration!RegistrationStep <=> RegistrationFacts!RegistrationStep
    /\ Registration!CrashRegistrations <=> RegistrationFacts!CrashRegistrations
    /\ Registration!InFlight = RegistrationFacts!InFlight
<1>1. Registration!Init <=> RegistrationFacts!Init
  BY DEF Registration!Init, RegistrationFacts!Init, Registration!InitRegistrations,
         RegistrationFacts!InitRegistrations, Registration!NoForm, RegistrationFacts!NoForm
<1>2. Registration!RegistrationStep <=> RegistrationFacts!RegistrationStep
  BY DEF
         Registration!Handle, RegistrationFacts!Handle, Registration!RegistrationStep,
         RegistrationFacts!RegistrationStep, Registration!dbVars, RegistrationFacts!dbVars,
         Registration!vars, RegistrationFacts!vars, Registration!Form,
         RegistrationFacts!Form, Registration!Submit, RegistrationFacts!Submit,
         Registration!AcceptIdentity, RegistrationFacts!AcceptIdentity,
         Registration!RejectIdentity, RegistrationFacts!RejectIdentity,
         Registration!FindExisting, RegistrationFacts!FindExisting,
         Registration!FindNothing, RegistrationFacts!FindNothing,
         Registration!CommitAccount, RegistrationFacts!CommitAccount, Registration!Insert,
         RegistrationFacts!Insert, Registration!RefuseDuplicate,
         RegistrationFacts!RefuseDuplicate, Registration!LoseDatabase,
         RegistrationFacts!LoseDatabase, Registration!Deliver, RegistrationFacts!Deliver,
         Registration!LoseReply, RegistrationFacts!LoseReply, Registration!Finish,
         RegistrationFacts!Finish, Registration!NewAccount, RegistrationFacts!NewAccount,
         Registration!HasExternalIdentity, RegistrationFacts!HasExternalIdentity,
         Registration!Token, RegistrationFacts!Token, Registration!DevToken,
         RegistrationFacts!DevToken, Registration!VerifiedClaims,
         RegistrationFacts!VerifiedClaims, Registration!LinkedTo,
         RegistrationFacts!LinkedTo, Registration!Exception, RegistrationFacts!Exception,
         Registration!Unauthorized, RegistrationFacts!Unauthorized, Registration!Conflict,
         RegistrationFacts!Conflict, Registration!ServerError,
         RegistrationFacts!ServerError, Registration!Ok, RegistrationFacts!Ok,
         Registration!FreshUserIds, RegistrationFacts!FreshUserIds,
         Registration!UserKeysFree, RegistrationFacts!UserKeysFree, Registration!UserRole,
         RegistrationFacts!UserRole
<1>3. /\ Registration!CrashRegistrations <=> RegistrationFacts!CrashRegistrations
      /\ Registration!InFlight = RegistrationFacts!InFlight
      /\ Registration!vars = RegistrationFacts!vars
      /\ Registration!dbVars = RegistrationFacts!dbVars
  BY DEF Registration!CrashRegistrations, RegistrationFacts!CrashRegistrations,
         Registration!InFlight, RegistrationFacts!InFlight, Registration!vars,
         RegistrationFacts!vars, Registration!dbVars, RegistrationFacts!dbVars
<1>4. Registration!Next <=> RegistrationFacts!Next
  BY <1>2, <1>3 DEF Registration!Next, RegistrationFacts!Next, Registration!Crash,
                    RegistrationFacts!Crash, Registration!dbVars, RegistrationFacts!dbVars
<1>5. QED
  BY <1>1, <1>2, <1>3, <1>4

LEMMA SameSession ==
    /\ Session!Init <=> SessionFacts!Init
    /\ Session!Next <=> SessionFacts!Next
    /\ Session!vars = SessionFacts!vars
    /\ Session!SessionStep <=> SessionFacts!SessionStep
    /\ Session!CrashCalls <=> SessionFacts!CrashCalls
    /\ Session!InFlight = SessionFacts!InFlight
<1>1. Session!Init <=> SessionFacts!Init
  BY DEF Session!Init, SessionFacts!Init
<1>2. Session!SessionStep <=> SessionFacts!SessionStep
  BY DEF
         Session!Handle, SessionFacts!Handle, Session!SessionStep, SessionFacts!SessionStep,
         Session!callVars, SessionFacts!callVars, Session!vars, SessionFacts!vars,
         Session!Handling, SessionFacts!Handling, Session!Call, SessionFacts!Call,
         Session!Admit, SessionFacts!Admit, Session!RefuseToken, SessionFacts!RefuseToken,
         Session!RefuseUnlinked, SessionFacts!RefuseUnlinked, Session!Me, SessionFacts!Me,
         Session!Mine, SessionFacts!Mine, Session!Get, SessionFacts!Get, Session!Create,
         SessionFacts!Create, Session!RefuseListing, SessionFacts!RefuseListing,
         Session!CheckActivation, SessionFacts!CheckActivation, Session!RefuseActivation,
         SessionFacts!RefuseActivation, Session!Activate, SessionFacts!Activate,
         Session!LoseDatabase, SessionFacts!LoseDatabase, Session!Deliver,
         SessionFacts!Deliver, Session!LoseReply, SessionFacts!LoseReply, Session!Finish,
         SessionFacts!Finish, Session!CallerIds, SessionFacts!CallerIds, Session!Request,
         SessionFacts!Request, Session!RoleSatisfies, SessionFacts!RoleSatisfies,
         Session!RequiredRoles, SessionFacts!RequiredRoles, Session!Unlinked,
         SessionFacts!Unlinked, Session!Forbidden, SessionFacts!Forbidden, Session!NotFound,
         SessionFacts!NotFound, Session!BadRequest, SessionFacts!BadRequest,
         Session!NewVehicle, SessionFacts!NewVehicle, Session!Fits, SessionFacts!Fits,
         Session!CommitVehicle, SessionFacts!CommitVehicle, Session!FreshVehicleIds,
         SessionFacts!FreshVehicleIds, Session!Listed, SessionFacts!Listed,
         Session!Unlistable, SessionFacts!Unlistable, Session!VinFree, SessionFacts!VinFree,
         Session!OwnerExists, SessionFacts!OwnerExists, Session!CanActivate,
         SessionFacts!CanActivate, Session!RequiresAgreedValue,
         SessionFacts!RequiresAgreedValue, Session!Activated, SessionFacts!Activated,
         Session!CommitActivation, SessionFacts!CommitActivation,
         Session!HasExternalIdentity, SessionFacts!HasExternalIdentity, Session!Token,
         SessionFacts!Token, Session!DevToken, SessionFacts!DevToken,
         Session!VerifiedClaims, SessionFacts!VerifiedClaims, Session!LinkedTo,
         SessionFacts!LinkedTo, Session!Exception, SessionFacts!Exception,
         Session!Unauthorized, SessionFacts!Unauthorized, Session!Conflict,
         SessionFacts!Conflict, Session!ServerError, SessionFacts!ServerError, Session!Ok,
         SessionFacts!Ok, Session!FreshUserIds, SessionFacts!FreshUserIds,
         Session!UserKeysFree, SessionFacts!UserKeysFree, Session!UserRole,
         SessionFacts!UserRole
<1>3. /\ Session!CrashCalls <=> SessionFacts!CrashCalls
      /\ Session!InFlight = SessionFacts!InFlight
      /\ Session!vars = SessionFacts!vars
  BY DEF Session!CrashCalls, SessionFacts!CrashCalls, Session!InFlight, SessionFacts!InFlight,
         Session!vars, SessionFacts!vars
<1>4. Session!OpenAccount <=> SessionFacts!OpenAccount
  BY DEF Session!OpenAccount, SessionFacts!OpenAccount, Session!callVars,
         SessionFacts!callVars, Session!HasExternalIdentity, SessionFacts!HasExternalIdentity,
         Session!FreshUserIds, SessionFacts!FreshUserIds, Session!OwnerAccounts,
         SessionFacts!OwnerAccounts, Session!UserKeysFree, SessionFacts!UserKeysFree
<1>5. Session!Next <=> SessionFacts!Next
  BY <1>2, <1>3, <1>4 DEF Session!Next, SessionFacts!Next, Session!Crash, SessionFacts!Crash
<1>6. QED
  BY <1>1, <1>2, <1>3, <1>4, <1>5

LEMMA RegistrationAssumptions ==
    /\ Null \notin UserIds \cup VehicleIds \cup Logins \cup Emails \cup Phones \cup Vins
                     \cup Nat \cup RegistrationFacts!ValuationSource
    /\ OfferedRegions \subseteq RegistrationFacts!Region
    /\ \A kind \in RegistrationFacts!ExceptionKind : Null # RegistrationFacts!Exception(kind)
    /\ Provider \in {"clerk", "mock"}
    /\ BadToken \notin Logins \cup {Null}
BY NullAssumption, OfferedRegionsAssumption, NoAnswerAssumption, ProviderAssumption,
   BadTokenAssumption
   DEF ValuationSource, RegistrationFacts!ValuationSource, Region, RegistrationFacts!Region,
       ExceptionKind, RegistrationFacts!ExceptionKind, Exception, RegistrationFacts!Exception

LEMMA SessionAssumptions ==
    /\ Null \notin UserIds \cup VehicleIds \cup Logins \cup Emails \cup Phones \cup Vins
                     \cup Nat \cup SessionFacts!ValuationSource
    /\ OfferedRegions \subseteq SessionFacts!Region
    /\ \A kind \in SessionFacts!ExceptionKind : Null # SessionFacts!Exception(kind)
    /\ Provider \in {"clerk", "mock"}
    /\ BadToken \notin Logins \cup {Null}
    /\ MaxInt \in Nat
    /\ OfferedListings \subseteq SessionFacts!ListingForm
<1>1. SessionFacts!ListingForm = Session!ListingForm
  BY DEF SessionFacts!ListingForm, Session!ListingForm, SessionFacts!VehicleTier,
         Session!VehicleTier, SessionFacts!ValuationSource, Session!ValuationSource
<1>2. QED
  BY <1>1, NullAssumption, OfferedRegionsAssumption, NoAnswerAssumption, ProviderAssumption,
     BadTokenAssumption, MaxIntAssumption, OfferedListingsAssumption
     DEF ValuationSource, SessionFacts!ValuationSource, Region, SessionFacts!Region,
         ExceptionKind, SessionFacts!ExceptionKind, Exception, SessionFacts!Exception

\* What IdentityProofs and OwnerSessionProofs prove inductive, cited once.
LEMMA RegistrationInductive ==
    /\ RegistrationFacts!Init => RegistrationFacts!IInv
    /\ RegistrationFacts!IInv /\ [RegistrationFacts!Next]_(RegistrationFacts!vars)
          => RegistrationFacts!IInv'
BY RegistrationAssumptions, RegistrationFacts!InitIInv, RegistrationFacts!NextIInv

LEMMA SessionInductive ==
    /\ SessionFacts!Init => SessionFacts!IInv
    /\ SessionFacts!IInv /\ [SessionFacts!Next]_(SessionFacts!vars) => SessionFacts!IInv'
BY SessionAssumptions, SessionFacts!InitIInv, SessionFacts!NextIInv
-----------------------------------------------------------------------------
(* A step of the composition is a step, or none, of each part.             *)

\* Serving a call never touches the accounts.
LEMMA ServeKeepsUsers ==
    ASSUME Serve
    PROVE  users' = users
BY DEF Serve, Session!SessionStep, Session!Handle, Session!Call, Session!Admit,
       Session!RefuseToken, Session!RefuseUnlinked, Session!Me, Session!Mine, Session!Get,
       Session!Create, Session!RefuseListing, Session!CheckActivation,
       Session!RefuseActivation, Session!Activate, Session!LoseDatabase, Session!Deliver,
       Session!LoseReply

LEMMA RegistrationOfStep ==
    ASSUME IInv, [Next]_vars
    PROVE  [RegistrationFacts!Next]_(RegistrationFacts!vars)
<1>1. CASE Register
  BY <1>1, SameRegistration DEF Register, RegistrationFacts!Next
<1>2. CASE Serve
  BY <1>2, ServeKeepsUsers DEF Serve, registrationVars, RegistrationFacts!vars
<1>3. CASE Crash
  <2>1. /\ RegistrationFacts!CrashRegistrations
        /\ UNCHANGED <<users, ownerProfiles, regForm, regLogin, regAnswer, regKnown>>
    BY <1>3, SameRegistration DEF Crash
  <2>2. CASE \E r \in Registrations : regPc[r] \in RegistrationFacts!InFlight
    BY <2>1, <2>2 DEF RegistrationFacts!Next, RegistrationFacts!Crash, RegistrationFacts!dbVars
  <2>3. CASE \A r \in Registrations : regPc[r] \notin RegistrationFacts!InFlight
    <3>1. regPc' = regPc
      BY <2>1, <2>3 DEF RegistrationFacts!CrashRegistrations, IInv, RegistrationFacts!IInv,
                        RegistrationFacts!TypeOK
    <3>2. QED
      BY <2>1, <3>1 DEF RegistrationFacts!vars
  <2>4. QED
    BY <2>2, <2>3
<1>4. CASE UNCHANGED vars
  BY <1>4 DEF vars, registrationVars, RegistrationFacts!vars
<1>5. QED
  BY <1>1, <1>2, <1>3, <1>4 DEF Next

\* What a registration commits is, for the session, an account the environment opens.
LEMMA CommitIsOpening ==
    ASSUME IInv, Register
    PROVE  \/ users' = users
           \/ \E id \in SessionFacts!FreshUserIds(users) :
              \E login \in IF SessionFacts!HasExternalIdentity THEN Logins ELSE {Null} :
              \E account \in SessionFacts!OwnerAccounts(id, login) :
                 SessionFacts!UserKeysFree(users, account) /\ users' = users \cup {account}
<1> USE DEF IInv, RegistrationFacts!IInv
<1>1. RegistrationFacts!RegistrationStep
  BY SameRegistration DEF Register
<1>2. \/ users' = users
      \/ \E r \in Registrations : \E id \in RegistrationFacts!FreshUserIds(users) :
            regPc[r] = "insert" /\ RegistrationFacts!CommitAccount(r, id)
  BY <1>1 DEF RegistrationFacts!RegistrationStep, RegistrationFacts!Handle,
     RegistrationFacts!Submit, RegistrationFacts!AcceptIdentity,
     RegistrationFacts!RejectIdentity, RegistrationFacts!FindExisting,
     RegistrationFacts!FindNothing, RegistrationFacts!Insert,
     RegistrationFacts!RefuseDuplicate, RegistrationFacts!LoseDatabase,
     RegistrationFacts!Deliver, RegistrationFacts!LoseReply, RegistrationFacts!dbVars
<1>3. ASSUME NEW r \in Registrations, NEW id \in RegistrationFacts!FreshUserIds(users),
             regPc[r] = "insert", RegistrationFacts!CommitAccount(r, id)
      PROVE  \E login \in IF SessionFacts!HasExternalIdentity THEN Logins ELSE {Null} :
             \E account \in SessionFacts!OwnerAccounts(id, login) :
                SessionFacts!UserKeysFree(users, account) /\ users' = users \cup {account}
  <2> DEFINE account == RegistrationFacts!NewAccount(r, id)
  <2>1. regForm[r] \in RegistrationFacts!Form
    BY <1>3 DEF RegistrationFacts!HandlersInv
  <2>2. regLogin[r] \in IF SessionFacts!HasExternalIdentity THEN Logins ELSE {Null}
    BY <1>3 DEF RegistrationFacts!HandlersInv, RegistrationFacts!HasExternalIdentity,
                SessionFacts!HasExternalIdentity
  <2>3. account \in SessionFacts!OwnerAccounts(id, regLogin[r])
    BY <2>1 DEF RegistrationFacts!NewAccount, RegistrationFacts!Form, SessionFacts!OwnerAccounts
  <2>4. SessionFacts!UserKeysFree(users, account) /\ users' = users \cup {account}
    BY <1>3 DEF RegistrationFacts!CommitAccount, RegistrationFacts!UserKeysFree,
                SessionFacts!UserKeysFree
  <2>5. QED
    BY <2>2, <2>3, <2>4
<1>4. RegistrationFacts!FreshUserIds(users) = SessionFacts!FreshUserIds(users)
  BY DEF RegistrationFacts!FreshUserIds, SessionFacts!FreshUserIds
<1>5. QED
  BY <1>2, <1>3, <1>4

LEMMA SessionOfStep ==
    ASSUME IInv, [Next]_vars
    PROVE  [SessionFacts!Next]_(SessionFacts!vars)
<1>1. CASE Register
  <2>1. UNCHANGED sessionVars
    BY <1>1 DEF Register
  <2>2. CASE users' = users
    BY <2>1, <2>2 DEF sessionVars, SessionFacts!vars
  <2>3. CASE users' # users
    BY <1>1, <2>1, <2>3, CommitIsOpening
       DEF sessionVars, SessionFacts!Next, SessionFacts!OpenAccount, SessionFacts!callVars
  <2>4. QED
    BY <2>2, <2>3
<1>2. CASE Serve
  BY <1>2, SameSession DEF Serve, SessionFacts!Next
<1>3. CASE Crash
  <2>1. /\ SessionFacts!CrashCalls
        /\ UNCHANGED <<users, vehicles, callRequest, callClaims, callRow, callAnswer, callBefore>>
    BY <1>3, SameSession DEF Crash
  <2>2. CASE \E c \in Calls : callPc[c] \in SessionFacts!InFlight
    BY <2>1, <2>2 DEF SessionFacts!Next, SessionFacts!Crash
  <2>3. CASE \A c \in Calls : callPc[c] \notin SessionFacts!InFlight
    <3>1. callPc' = callPc
      BY <2>1, <2>3 DEF SessionFacts!CrashCalls, IInv, SessionFacts!IInv, SessionFacts!TypeOK
    <3>2. QED
      BY <2>1, <3>1 DEF SessionFacts!vars
  <2>4. QED
    BY <2>2, <2>3
<1>4. CASE UNCHANGED vars
  BY <1>4 DEF vars, sessionVars, SessionFacts!vars
<1>5. QED
  BY <1>1, <1>2, <1>3, <1>4 DEF Next

LEMMA Inductive == Safety => []IInv
<1>1. Init => IInv
  BY SameRegistration, SameSession, RegistrationInductive, SessionInductive DEF Init, IInv
<1>2. IInv /\ [Next]_vars => IInv'
  BY RegistrationOfStep, SessionOfStep, RegistrationInductive, SessionInductive DEF IInv
<1>3. QED
  BY <1>1, <1>2, PTL DEF Safety

-----------------------------------------------------------------------------
(* The results.                                                            *)

\* Composed, the session does what OwnerSession says: the environment it assumes, accounts
\* opened at any time under free keys, is exactly what registrations do to it.
THEOREM SessionIsImplemented == Spec => ImplementsSession
<1>1. IInv /\ [Next]_vars => [Session!Next]_(Session!vars)
  BY SessionOfStep, SameSession DEF Session!vars, SessionFacts!vars
<1>2. Init => Session!Init
  BY DEF Init
<1>3. QED
  BY <1>1, <1>2, Inductive, PTL DEF Spec, Safety, ImplementsSession, Session!Safety

\* So what is proved of the parts holds of the whole: keys and listings stay unique
\* whichever registrations and creates race, owners see their vehicles, and logins that
\* have an account are neither told to register nor refused as a duplicate.
THEOREM PartsCarryOver ==
    Spec => [](/\ Registration!DirectoryConsistent /\ Registration!KnownLoginNeverConflicts
               /\ Session!ListingsConsistent /\ Session!MineIsComplete
               /\ Session!LinkedLoginRecognised)
<1> DEFINE Parts == /\ Registration!DirectoryConsistent
                    /\ Registration!KnownLoginNeverConflicts
                    /\ Session!ListingsConsistent
                    /\ Session!MineIsComplete
                    /\ Session!LinkedLoginRecognised
<1>1. IInv => Registration!DirectoryConsistent /\ Registration!KnownLoginNeverConflicts
  BY DEF IInv, RegistrationFacts!IInv, Registration!DirectoryConsistent,
         RegistrationFacts!DirectoryConsistent, Registration!KnownLoginNeverConflicts,
         RegistrationFacts!KnownLoginNeverConflicts, Registration!Conflict,
         RegistrationFacts!Conflict, Registration!Exception, RegistrationFacts!Exception
<1>2. IInv => Session!ListingsConsistent
  BY DEF IInv, SessionFacts!IInv, Session!ListingsConsistent, SessionFacts!ListingsConsistent,
         Session!OwnerExists, SessionFacts!OwnerExists
<1>3. IInv => Session!MineIsComplete /\ Session!LinkedLoginRecognised
  BY DEF IInv, SessionFacts!IInv, Session!MineIsComplete, SessionFacts!MineIsComplete,
         Session!LinkedLoginRecognised, SessionFacts!LinkedLoginRecognised, Session!Unlinked,
         SessionFacts!Unlinked, Session!Exception, SessionFacts!Exception
<1>4. IInv => Parts
  BY <1>1, <1>2, <1>3
<1>5. QED
  BY <1>4, Inductive, PTL DEF Spec

\* Whose account it is can be told from the requests alone: every vehicle's owner is an
\* account some registration asked for, under that login and that email.
THEOREM VehiclesLeadToPeople == Spec => []VehiclesTraceToRegistrations
<1>1. ASSUME IInv, NEW v \in vehicles
      PROVE  \E u \in users, r \in Registrations :
                u.id = v.ownerId /\ regForm[r].email = u.email /\ u.login = regLogin[r]
  <2>1. PICK u \in users : u.id = v.ownerId
    BY <1>1 DEF IInv, SessionFacts!IInv, SessionFacts!ListingsConsistent,
                SessionFacts!OwnerExists
  <2>2. PICK r \in Registrations : RegistrationFacts!Opened(r, u)
    BY <1>1 DEF IInv, RegistrationFacts!IInv, RegistrationFacts!AccountsAskedFor
  <2>3. QED
    BY <2>1, <2>2 DEF RegistrationFacts!Opened
<1>2. IInv => VehiclesTraceToRegistrations
  BY <1>1 DEF VehiclesTraceToRegistrations
<1>3. QED
  BY <1>2, Inductive, PTL DEF Spec

\* What a login creates belongs to the account that login's own registration opened.
THEOREM CreatedForOneself == Spec => []CreatedUnderCallersAccount
<1>1. ASSUME IInv, NEW c \in Calls, HasExternalIdentity,
             callAnswer[c] # Null, callAnswer[c].kind = "ok", callRequest[c].route = "create",
             NEW v \in callAnswer[c].value
      PROVE  \E u \in users, r \in Registrations :
                /\ u.id = v.ownerId
                /\ u.login = callRequest[c].token
                /\ regForm[r].token = u.login /\ regForm[r].email = u.email
  <2>1. PICK u \in users : u.id = v.ownerId /\ u.login = callRequest[c].token
    BY <1>1 DEF IInv, SessionFacts!IInv, SessionFacts!CreatedForCaller, HasExternalIdentity,
                SessionFacts!HasExternalIdentity
  <2>2. PICK r \in Registrations : RegistrationFacts!Opened(r, u)
    BY <1>1 DEF IInv, RegistrationFacts!IInv, RegistrationFacts!AccountsAskedFor
  <2>3. QED
    BY <1>1, <2>1, <2>2 DEF RegistrationFacts!Opened, HasExternalIdentity,
                            RegistrationFacts!HasExternalIdentity
<1>2. IInv => CreatedUnderCallersAccount
  BY <1>1 DEF CreatedUnderCallersAccount
<1>3. QED
  BY <1>2, Inductive, PTL DEF Spec

\* The guard has let call c through, as one of the accounts its token may act as.
Admission(c) ==
    \E claims \in SessionFacts!VerifiedClaims(users, callRequest[c].token) :
        callClaims'[c] = claims

LEMMA AdmittedOnly ==
    ASSUME IInv, [Next]_vars, NEW c \in Calls, callPc[c] = "guard", callPc'[c] = "handle"
    PROVE  Admission(c)
<1>1. SessionFacts!TypeOK
  BY DEF IInv, SessionFacts!IInv
<1>2. [SessionFacts!Next]_(SessionFacts!vars)
  BY SessionOfStep
<1>3. SessionFacts!Admit(c)
  BY <1>1, <1>2, SessionAssumptions, SessionFacts!OneCallStep
     DEF SessionFacts!Call, SessionFacts!CheckActivation, SessionFacts!Handling
<1>4. QED
  BY <1>1, <1>3 DEF Admission, SessionFacts!Admit, SessionFacts!TypeOK, SessionFacts!Finish

\* A registration carries over to the session: the account it was answered with is the
\* only one its login has, from then on, and it is an owner's.
THEOREM RegistrationLasts == Spec => RegistrationCarriesOver
<1> DEFINE CarriesOver ==
       \A r \in Registrations, c \in Calls :
          /\ HasExternalIdentity
          /\ regPc[r] = "answered" /\ regAnswer[r].kind = "ok"
          /\ callPc[c] = "guard" /\ callRequest[c].token = regForm[r].token
          /\ callPc'[c] = "handle"
          => callClaims'[c] = [userId |-> regAnswer[r].value, role |-> "OWNER"]
<1>1. ASSUME IInv, [Next]_vars, HasExternalIdentity,
             NEW r \in Registrations, regPc[r] = "answered", regAnswer[r].kind = "ok",
             NEW c \in Calls, callPc[c] = "guard", callRequest[c].token = regForm[r].token,
             callPc'[c] = "handle"
      PROVE  callClaims'[c] = [userId |-> regAnswer[r].value, role |-> "OWNER"]
  <2> DEFINE token == callRequest[c].token
  <2>1. PICK u \in users : u.id = regAnswer[r].value /\ u.login = token
    BY <1>1 DEF IInv, RegistrationFacts!IInv, RegistrationFacts!RepliedWithOwnAccount,
                HasExternalIdentity, RegistrationFacts!HasExternalIdentity
  <2>2. u.role = "OWNER"
    BY <1>1 DEF IInv, RegistrationFacts!IInv, RegistrationFacts!AccountsAskedFor
  <2>3. Admission(c)
    BY <1>1, AdmittedOnly
  <2>4. PICK claims \in SessionFacts!VerifiedClaims(users, token) : callClaims'[c] = claims
    BY <2>3 DEF Admission
  <2>5. PICK w \in users : w.login = token /\ claims = [userId |-> w.id, role |-> w.role]
    BY <1>1, <2>4 DEF SessionFacts!VerifiedClaims, SessionFacts!LinkedTo,
                      HasExternalIdentity, SessionFacts!HasExternalIdentity
  <2>6. token # Null
    BY <2>4 DEF SessionFacts!VerifiedClaims
  <2>7. w = u
    BY <1>1, <2>1, <2>5, <2>6 DEF IInv, SessionFacts!IInv, SessionFacts!AccountsDistinct
  <2>8. QED
    BY <2>1, <2>2, <2>4, <2>5, <2>7
<1>2. IInv /\ [Next]_vars => [CarriesOver]_vars
  BY <1>1
<1>3. QED
  BY <1>2, Inductive, PTL DEF Spec, Safety, RegistrationCarriesOver

=============================================================================
