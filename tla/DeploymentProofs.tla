-------------------------- MODULE DeploymentProofs --------------------------
(***************************************************************************)
(* Proofs about Deployment, for any number of people and of deploys, in    *)
(* any order and of any configurations.                                    *)
(***************************************************************************)
EXTENDS Deployment, TLAPS

TypeOK ==
    /\ users \subseteq UserRow
    /\ api \in Config \cup {Null}
    /\ up \in BOOLEAN
    /\ webMode \in Mode
    /\ tabMode \in [Logins -> Mode \cup {Null}]
    /\ ownerId \in [Logins -> UserIds \cup {Null}]
    /\ loosened \in BOOLEAN
    /\ opened \in [Logins -> SUBSET UserIds]
    /\ mocked \subseteq UserIds

\* The process that runs has booted; one that runs the mock, or will after a restart, was
\* let to.
RunningBooted ==
    /\ up => Boots(api)
    /\ (up \/ api # Null) /\ api.provider = "mock" => loosened

\* Whose an account is: whoever opened it.  It is linked to their login, or was opened
\* while the API ran the mock.
AccountsOwned ==
    /\ \A p \in Logins : \A id \in opened[p] :
          \E u \in users : u.id = id /\ (u.login = p \/ id \in mocked)
    /\ \A u \in users : u.login # Null => u.login \in Logins /\ u.id \in opened[u.login]

\* A tab knows its own user's account only.
TabsOwn == \A p \in Logins : ownerId[p] # Null => ownerId[p] \in opened[p]

MockIsRemembered == mocked # {} => loosened

\* The inductive invariant.
IInv == TypeOK /\ RunningBooted /\ AccountsOwned /\ TabsOwn /\ MockIsRemembered

-----------------------------------------------------------------------------
(* What the invariant says of the requests that are served.                *)

\* A login is taken for the accounts linked to it by Clerk, and for nobody by the mock.
LEMMA LoginClaims ==
    ASSUME NEW p \in Logins
    PROVE  /\ Serves("clerk") =>
                 ClaimsOf(p) = {[userId |-> u.id, role |-> u.role] :
                                  u \in {w \in users : w.login = p}}
           /\ ~Serves("clerk") => ClaimsOf(p) = {}
BY NullAssumption, TokensAssumption
   DEF ClaimsOf, Clerk!VerifiedClaims, Clerk!LinkedTo, Clerk!HasExternalIdentity,
       Mock!VerifiedClaims

\* A dev token is taken for what it says by the mock, and for nobody by Clerk.
LEMMA DevTokenClaims ==
    ASSUME NEW id \in UserIds, NEW claims \in ClaimsOf([userId |-> id, role |-> "OWNER"])
    PROVE  claims = [userId |-> id, role |-> "OWNER"]
<1> DEFINE token == [userId |-> id, role |-> "OWNER"]
<1>1. token \notin Logins
  BY TokensAssumption DEF Clerk!DevToken, Clerk!UserRole
<1>2. QED
  BY <1>1 DEF ClaimsOf, Clerk!VerifiedClaims, Mock!VerifiedClaims, Mock!HasExternalIdentity

LEMMA NullClaims == ClaimsOf(Null) = {}
BY NullAssumption DEF ClaimsOf, Clerk!VerifiedClaims, Mock!VerifiedClaims

LEMMA IInvNobodyElse == IInv => NeverSomebodyElse
<1> SUFFICES ASSUME IInv, NEW p \in Logins, NEW claims \in ClaimsOf(TokenOf(p))
             PROVE  claims.userId \in opened[p]
  BY DEF NeverSomebodyElse, ServedAs
<1>1. CASE tabMode[p] = "clerk"
  <2>1. TokenOf(p) = p
    BY <1>1 DEF TokenOf
  <2>2. PICK u \in users : u.login = p /\ claims.userId = u.id
    BY <2>1, LoginClaims
  <2>3. QED
    BY <2>2, NullAssumption DEF IInv, AccountsOwned
<1>2. CASE tabMode[p] = "dev" /\ ownerId[p] # Null
  <2>1. TokenOf(p) = [userId |-> ownerId[p], role |-> "OWNER"] /\ ownerId[p] \in UserIds
    BY <1>2 DEF TokenOf, IInv, TypeOK
  <2>2. claims.userId = ownerId[p]
    BY <2>1, DevTokenClaims
  <2>3. QED
    BY <1>2, <2>2 DEF IInv, TabsOwn
<1>3. CASE tabMode[p] # "clerk" /\ ~(tabMode[p] = "dev" /\ ownerId[p] # Null)
  <2>1. TokenOf(p) = Null
    BY <1>3 DEF TokenOf
  <2>2. QED
    BY <2>1, NullClaims
<1>4. QED
  BY <1>1, <1>2, <1>3

LEMMA IInvOnlyMock == IInv => OnlyMockStrands
<1> SUFFICES ASSUME IInv, Serves("clerk"), NEW p \in Logins, NEW id \in opened[p],
                    id \notin {claims.userId : claims \in ClaimsOf(p)}
             PROVE  id \in mocked /\ loosened
  BY DEF OnlyMockStrands
<1>1. PICK u \in users : u.id = id /\ (u.login = p \/ id \in mocked)
  BY DEF IInv, AccountsOwned
<1>2. u.login # p
  <2>1. ASSUME u.login = p PROVE FALSE
    <3> DEFINE claims == [userId |-> u.id, role |-> u.role]
    <3>1. claims \in ClaimsOf(p) /\ claims.userId = id
      BY <1>1, <2>1, LoginClaims
    <3>2. QED
      BY <3>1
  <2>2. QED
    BY <2>1
<1>3. QED
  BY <1>1, <1>2 DEF IInv, MockIsRemembered
-----------------------------------------------------------------------------
(* Step by step.                                                           *)

LEMMA KeptWhole ==
    ASSUME IInv, UNCHANGED <<users, ownerId, opened, mocked, loosened>>, TypeOK', RunningBooted'
    PROVE  IInv'
BY DEF IInv, AccountsOwned, TabsOwn, MockIsRemembered

\* Only a running mock, which some deploy loosened, opens an account without a login.
LEMMA NewAccountOwned ==
    ASSUME IInv, NEW p \in Logins, NEW id \in FreshUserIds(users), MayRegister(p),
           NEW email \in Emails, NEW phone \in Phones
    PROVE  LET account == NewAccount(p, id, email, phone)
           IN  /\ account \in UserRow /\ account.id = id /\ account.login = LoginFor(p)
               /\ LoginFor(p) # p => LoginFor(p) = Null /\ Serves("mock")
               /\ Serves("mock") => loosened
<1>1. id \in UserIds
  BY DEF FreshUserIds
<1>2. LoginFor(p) \in {p, Null} /\ (LoginFor(p) # p => ~Serves("clerk"))
  BY DEF LoginFor
<1>3. NewAccount(p, id, email, phone) \in UserRow
  BY <1>1, <1>2 DEF NewAccount, UserRow, UserRole, UserStatus, Region
<1>4. up /\ (Serves("mock") => loosened) /\ (~Serves("clerk") => Serves("mock"))
  BY DEF MayRegister, IInv, RunningBooted, Boots, Serves
<1>5. QED
  BY <1>2, <1>3, <1>4 DEF NewAccount

LEMMA RegisterKeeps ==
    ASSUME IInv, NEW p \in Logins, Register(p)
    PROVE  IInv'
<1>1. PICK id \in FreshUserIds(users), email \in Emails, phone \in Phones :
         /\ users' = users \cup {NewAccount(p, id, email, phone)}
         /\ opened' = [opened EXCEPT ![p] = @ \cup {id}]
         /\ mocked' = IF Serves("mock") THEN mocked \cup {id} ELSE mocked
         /\ Registered(p, id)
  BY DEF Register
<1> DEFINE account == NewAccount(p, id, email, phone)
<1>2. /\ account \in UserRow /\ account.id = id /\ account.login = LoginFor(p)
      /\ LoginFor(p) # p => LoginFor(p) = Null /\ Serves("mock")
      /\ Serves("mock") => loosened
  BY NewAccountOwned DEF Register
<1> HIDE DEF account
<1>3. /\ users' = users \cup {account}
      /\ opened' = [opened EXCEPT ![p] = @ \cup {id}]
      /\ mocked' = IF Serves("mock") THEN mocked \cup {id} ELSE mocked
      /\ ownerId' = [ownerId EXCEPT ![p] = id]
      /\ UNCHANGED <<api, up, webMode, tabMode, loosened>>
      /\ id \in UserIds
  BY <1>1 DEF Registered, account, FreshUserIds
<1>4. TypeOK'
  BY <1>2, <1>3 DEF IInv, TypeOK
<1>5. RunningBooted'
  BY <1>3 DEF IInv, RunningBooted, Boots
<1>6. AccountsOwned'
  <2>1. ASSUME NEW q \in Logins, NEW i \in opened'[q]
        PROVE  \E u \in users' : u.id = i /\ (u.login = q \/ i \in mocked')
    <3>1. CASE q = p /\ i = id
      BY <1>2, <1>3, <3>1
    <3>2. CASE ~(q = p /\ i = id)
      <4>1. i \in opened[q]
        BY <1>3, <2>1, <3>2 DEF IInv, TypeOK
      <4>2. QED
        BY <1>3, <4>1 DEF IInv, AccountsOwned
    <3>3. QED
      BY <3>1, <3>2
  <2>2. ASSUME NEW u \in users', u.login # Null
        PROVE  u.login \in Logins /\ u.id \in opened'[u.login]
    <3>1. CASE u = account
      BY <1>2, <1>3, <2>2, <3>1 DEF IInv, TypeOK
    <3>2. CASE u \in users
      BY <1>3, <2>2, <3>2 DEF IInv, TypeOK, AccountsOwned
    <3>3. QED
      BY <1>3, <3>1, <3>2
  <2>3. QED
    BY <2>1, <2>2 DEF AccountsOwned
<1>7. TabsOwn'
  BY <1>3 DEF IInv, TabsOwn, TypeOK
<1>8. MockIsRemembered'
  BY <1>2, <1>3 DEF IInv, MockIsRemembered
<1>9. QED
  BY <1>4, <1>5, <1>6, <1>7, <1>8 DEF IInv

\* A tab takes over an account that its own user opened.
LEMMA TabKeeps ==
    ASSUME IInv, NEW p \in Logins, NEW id \in opened[p],
           ownerId' = [ownerId EXCEPT ![p] = id],
           UNCHANGED <<users, api, up, webMode, tabMode, history>>
    PROVE  IInv'
<1>1. TypeOK'
  BY DEF IInv, TypeOK, history
<1>2. RunningBooted'
  BY DEF IInv, RunningBooted, Boots, history
<1>3. AccountsOwned'
  BY DEF IInv, AccountsOwned, history
<1>4. TabsOwn' /\ MockIsRemembered'
  BY DEF IInv, TabsOwn, TypeOK, MockIsRemembered, history
<1>5. QED
  BY <1>1, <1>2, <1>3, <1>4 DEF IInv

LEMMA InitIInv == Init => IInv
BY DEF Init, IInv, TypeOK, RunningBooted, AccountsOwned, TabsOwn, MockIsRemembered, Mode

LEMMA NextIInv == IInv /\ [Next]_vars => IInv'
<1> SUFFICES ASSUME IInv, [Next]_vars
             PROVE  IInv'
  OBVIOUS
<1>1. CASE DeployApi
  <2>1. PICK config \in Config :
           /\ Boots(config) /\ api' = config
           /\ loosened' = (loosened \/ ~config.production \/ config.allowMockInProduction)
    BY <1>1 DEF DeployApi
  <2>2. RunningBooted'
    BY <2>1 DEF RunningBooted, Boots
  <2>3. TypeOK'
    BY <1>1, <2>1 DEF DeployApi, IInv, TypeOK, tabVars
  <2>4. AccountsOwned' /\ TabsOwn' /\ MockIsRemembered'
    BY <1>1, <2>1 DEF DeployApi, IInv, AccountsOwned, TabsOwn, MockIsRemembered, tabVars
  <2>5. QED
    BY <2>2, <2>3, <2>4 DEF IInv
<1>2. CASE Crash
  <2>1. TypeOK' /\ RunningBooted'
    BY <1>2 DEF Crash, IInv, TypeOK, RunningBooted, Serves, tabVars, history
  <2>2. QED
    BY <1>2, <2>1, KeptWhole DEF Crash, tabVars, history
<1>3. CASE Restart
  <2>1. api.provider = "mock" => loosened
    BY <1>3 DEF Restart, IInv, RunningBooted
  <2>2. QED
    BY <1>3, <2>1, KeptWhole DEF Restart, IInv, TypeOK, RunningBooted, Serves, tabVars, history
<1>4. CASE DeployWeb
  <2>1. TypeOK' /\ RunningBooted'
    BY <1>4 DEF DeployWeb, IInv, TypeOK, RunningBooted, Boots, tabVars, history
  <2>2. QED
    BY <1>4, <2>1, KeptWhole DEF DeployWeb, tabVars, history
<1>5. ASSUME NEW p \in Logins, OpenTab(p)
      PROVE  IInv'
  <2>1. TypeOK' /\ RunningBooted'
    BY <1>5 DEF OpenTab, IInv, TypeOK, RunningBooted, Boots, Mode, history
  <2>2. AccountsOwned' /\ TabsOwn' /\ MockIsRemembered'
    BY <1>5 DEF OpenTab, IInv, AccountsOwned, TabsOwn, TypeOK, MockIsRemembered, history
  <2>3. QED
    BY <2>1, <2>2 DEF IInv
<1>6. ASSUME NEW p \in Logins, RestoreAccount(p)
      PROVE  IInv'
  <2>1. PICK id \in ServedAs(p) : ownerId' = [ownerId EXCEPT ![p] = id]
    BY <1>6 DEF RestoreAccount
  <2>2. id \in opened[p]
    BY IInvNobodyElse DEF NeverSomebodyElse
  <2>3. QED
    BY <1>6, <2>1, <2>2, TabKeeps DEF RestoreAccount
<1>7. ASSUME NEW p \in Logins, RegisterAgain(p)
      PROVE  IInv'
  <2>1. PICK u \in users : u.login = p /\ Registered(p, u.id)
    BY <1>7 DEF RegisterAgain, Clerk!LinkedTo
  <2>2. u.id \in opened[p]
    BY <2>1, NullAssumption DEF IInv, AccountsOwned
  <2>3. QED
    BY <1>7, <2>1, <2>2, TabKeeps DEF RegisterAgain, Registered, history
<1>8. CASE UNCHANGED vars
  <2>1. TypeOK' /\ RunningBooted'
    BY <1>8 DEF vars, IInv, TypeOK, RunningBooted, Boots, tabVars, history
  <2>2. QED
    BY <1>8, <2>1, KeptWhole DEF vars, tabVars, history
<1>9. QED
  BY <1>1, <1>2, <1>3, <1>4, <1>5, <1>6, <1>7, <1>8, RegisterKeeps DEF Next

LEMMA Inductive == Spec => []IInv
BY InitIInv, NextIInv, PTL DEF Spec

-----------------------------------------------------------------------------
(* The results.                                                            *)

\* Through every switch of either side's configuration, whatever tab is open from
\* before it, a person is served as nobody or as themselves.
THEOREM ServedAsOneself == Spec => []NeverSomebodyElse
BY Inductive, IInvNobodyElse, PTL

\* And a switch to Clerk strands no account but those opened with the mock, by an operator
\* who let it boot outside production or opted in: everybody is recognised as the account
\* they opened with their login, whatever was deployed since.
THEOREM ClerkStrandsNobodyElse == Spec => []OnlyMockStrands
BY Inductive, IInvOnlyMock, PTL

=============================================================================
