------------------------------ MODULE Identity ------------------------------
(***************************************************************************)
(* POST /owners/register: IdentityController.register, which is public,    *)
(* and IdentityService.registerOwner behind it.  Each request runs through *)
(* three awaits - verify the token, look the login up, insert the account -*)
(* and between any two of them the handlers of other requests run.         *)
(*                                                                         *)
(*   idle -> verify -> lookup -> insert -> reply -> answered               *)
(*                                                                         *)
(* The process may crash at any time: what was in flight is lost, what the *)
(* database committed is kept.                                             *)
(***************************************************************************)
EXTENDS Auth

CONSTANT Registrations   \* the registration requests that are ever made (a bound)

VARIABLES
    users,           \* the User table
    ownerProfiles,   \* ids of the OwnerProfile rows
    regPc,           \* where each request's handler stands
    regForm,         \* its token and its body
    regLogin,        \* the verified subject handed to registerOwner
    regAnswer,       \* the answer the handler has computed
    regKnown         \* history: its login had an account when it was sent

dbVars == <<users, ownerProfiles>>
regVars == <<regPc, regForm, regLogin, regAnswer, regKnown>>
vars == <<users, ownerProfiles, regPc, regForm, regLogin, regAnswer, regKnown>>

\* RegisterOwnerDto, and the Authorization header beside it.  The region is
\* optional (Null).
Form == [token: Token, email: Emails, phone: Phones, region: OfferedRegions \cup {Null}]

Stage == {"idle", "verify", "lookup", "insert", "reply", "answered", "lost"}

InFlight == {"verify", "lookup", "insert", "reply"}

\* The account the request is answered with, or the exception it ends in.
Answer == {Ok(id) : id \in UserIds} \cup {Unauthorized, Conflict, ServerError}

-----------------------------------------------------------------------------
\* The row registerOwner creates for request r.
NewAccount(r, id) ==
    [id |-> id, role |-> "OWNER", status |-> "ACTIVE",
     region |-> IF regForm[r].region = Null THEN "US" ELSE regForm[r].region,
     email |-> regForm[r].email, phone |-> regForm[r].phone, login |-> regLogin[r]]

\* The handler of r has its answer.
Finish(r, answer) ==
    /\ regPc' = [regPc EXCEPT ![r] = "reply"]
    /\ regAnswer' = [regAnswer EXCEPT ![r] = answer]

Submit(r, form) ==
    /\ regPc[r] = "idle"
    /\ regPc' = [regPc EXCEPT ![r] = "verify"]
    /\ regForm' = [regForm EXCEPT ![r] = form]
    /\ regKnown' = [regKnown EXCEPT ![r] =
                       /\ HasExternalIdentity
                       /\ form.token \in Logins
                       /\ LinkedTo(users, form.token) # {}]
    /\ UNCHANGED <<dbVars, regLogin, regAnswer>>

\* Mutation of AcceptIdentity: straight to the insert, as with no login.
AcceptIdentityWithoutLookup(r) ==
    /\ regPc[r] = "verify"
    /\ HasExternalIdentity
    /\ regForm[r].token \in Logins
    /\ regPc' = [regPc EXCEPT ![r] = "insert"]
    /\ regLogin' = [regLogin EXCEPT ![r] = regForm[r].token]
    /\ UNCHANGED <<dbVars, regForm, regAnswer, regKnown>>

\* A verified login is looked up next.  With the mock provider the token is not
\* looked at and registerOwner is called without a login: straight to the insert.
AcceptIdentity(r) ==
    /\ regPc[r] = "verify"
    /\ HasExternalIdentity => regForm[r].token \in Logins
    /\ regPc' = [regPc EXCEPT ![r] = IF HasExternalIdentity THEN "lookup" ELSE "insert"]
    /\ regLogin' = [regLogin EXCEPT ![r] =
                       IF HasExternalIdentity THEN regForm[r].token ELSE Null]
    /\ UNCHANGED <<dbVars, regForm, regAnswer, regKnown>>

\* A missing token, a bad one, or a good one that could not be verified: every
\* failure inside jwtVerify, a key set that cannot be fetched included, is a 401.
RejectIdentity(r) ==
    /\ regPc[r] = "verify"
    /\ HasExternalIdentity
    /\ Finish(r, Unauthorized)
    /\ UNCHANGED <<dbVars, regForm, regLogin, regKnown>>

\* Mutation of FindExisting: the account is found by email.
FindExistingByEmail(r) ==
    /\ regPc[r] = "lookup"
    /\ \E u \in users : u.email = regForm[r].email /\ Finish(r, Ok(u.id))
    /\ UNCHANGED <<dbVars, regForm, regLogin, regKnown>>

\* Mutation of FindExisting: an upsert, the form overwrites the phone on file.
FindExistingRefreshing(r) ==
    /\ regPc[r] = "lookup"
    /\ \E u \in LinkedTo(users, regLogin[r]) :
          /\ users' = (users \ {u}) \cup {[u EXCEPT !.phone = regForm[r].phone]}
          /\ Finish(r, Ok(u.id))
    /\ UNCHANGED <<ownerProfiles, regForm, regLogin, regKnown>>

FindExisting(r) ==
    /\ regPc[r] = "lookup"
    /\ \E u \in LinkedTo(users, regLogin[r]) : Finish(r, Ok(u.id))
    /\ UNCHANGED <<dbVars, regForm, regLogin, regKnown>>

FindNothing(r) ==
    /\ regPc[r] = "lookup"
    /\ LinkedTo(users, regLogin[r]) = {}
    /\ regPc' = [regPc EXCEPT ![r] = "insert"]
    /\ UNCHANGED <<dbVars, regForm, regLogin, regAnswer, regKnown>>

\* The nested create of the User and its OwnerProfile, one transaction.
CommitAccount(r, id) ==
    /\ UserKeysFree(users, NewAccount(r, id))
    /\ users' = users \cup {NewAccount(r, id)}
    /\ ownerProfiles' = ownerProfiles \cup {id}

Insert(r) ==
    /\ regPc[r] = "insert"
    /\ \E id \in FreshUserIds(users) : CommitAccount(r, id) /\ Finish(r, Ok(id))
    /\ UNCHANGED <<regForm, regLogin, regKnown>>

\* Mutation of RefuseDuplicate: on a clash, start again from the lookup.
RetryDuplicate(r) ==
    /\ regPc[r] = "insert"
    /\ \E id \in FreshUserIds(users) : ~UserKeysFree(users, NewAccount(r, id))
    /\ regPc' = [regPc EXCEPT ![r] = "lookup"]
    /\ UNCHANGED <<dbVars, regForm, regLogin, regAnswer, regKnown>>

\* P2002: a unique key is taken.
RefuseDuplicate(r) ==
    /\ regPc[r] = "insert"
    /\ \E id \in FreshUserIds(users) : ~UserKeysFree(users, NewAccount(r, id))
    /\ Finish(r, Conflict)
    /\ UNCHANGED <<dbVars, regForm, regLogin, regKnown>>

\* Mutation of LoseDatabase: every error of the insert becomes a 409.
LoseDatabaseAsConflict(r) ==
    /\ regPc[r] \in {"lookup", "insert"}
    /\ Finish(r, IF regPc[r] = "insert" THEN Conflict ELSE ServerError)
    /\ UNCHANGED <<dbVars, regForm, regLogin, regKnown>>

\* Any other database error is rethrown.  One that hits the insert may come
\* after the commit.
LoseDatabase(r) ==
    /\ regPc[r] \in {"lookup", "insert"}
    /\ Finish(r, ServerError)
    /\ \/ UNCHANGED dbVars
       \/ /\ regPc[r] = "insert"
          /\ \E id \in FreshUserIds(users) : CommitAccount(r, id)
    /\ UNCHANGED <<regForm, regLogin, regKnown>>

Deliver(r) ==
    /\ regPc[r] = "reply"
    /\ regPc' = [regPc EXCEPT ![r] = "answered"]
    /\ UNCHANGED <<dbVars, regForm, regLogin, regAnswer, regKnown>>

\* The client has gone: the handler ran to its end, nobody sees the answer.
LoseReply(r) ==
    /\ regPc[r] = "reply"
    /\ regPc' = [regPc EXCEPT ![r] = "lost"]
    /\ UNCHANGED <<dbVars, regForm, regLogin, regAnswer, regKnown>>

\* The API process dies and restarts: it keeps nothing but the database.
CrashRegistrations ==
    regPc' = [r \in Registrations |-> IF regPc[r] \in InFlight THEN "lost" ELSE regPc[r]]

Crash ==
    /\ \E r \in Registrations : regPc[r] \in InFlight
    /\ CrashRegistrations
    /\ UNCHANGED <<dbVars, regForm, regLogin, regAnswer, regKnown>>

-----------------------------------------------------------------------------
NoForm == [token |-> Null, email |-> Null, phone |-> Null, region |-> Null]

InitRegistrations ==
    /\ regPc = [r \in Registrations |-> "idle"]
    /\ regForm = [r \in Registrations |-> NoForm]
    /\ regLogin = [r \in Registrations |-> Null]
    /\ regAnswer = [r \in Registrations |-> Null]
    /\ regKnown = [r \in Registrations |-> FALSE]

Init ==
    /\ users = {}
    /\ ownerProfiles = {}
    /\ InitRegistrations

\* One step of the handler that runs request r.
Handle(r) ==
    \/ AcceptIdentity(r) \/ RejectIdentity(r)
    \/ FindExisting(r) \/ FindNothing(r)
    \/ Insert(r) \/ RefuseDuplicate(r) \/ LoseDatabase(r)
    \/ Deliver(r) \/ LoseReply(r)

RegistrationStep ==
    \E r \in Registrations : (\E form \in Form : Submit(r, form)) \/ Handle(r)

Next == RegistrationStep \/ Crash

\* The event loop runs every handler whose await has settled; the database,
\* the identity provider and the client each settle theirs, with a result or
\* an error.  Nothing makes a client submit, nor the process crash.
Fairness == \A r \in Registrations : WF_vars(Handle(r))

Safety == Init /\ [][Next]_vars

Spec == Safety /\ Fairness

-----------------------------------------------------------------------------
(* Properties.                                                             *)

\* Types of the tables, the handlers and their answers.
TypeOK ==
    /\ users \subseteq UserRow
    /\ ownerProfiles \subseteq UserIds
    /\ regPc \in [Registrations -> Stage]
    /\ regForm \in [Registrations -> Form \cup {NoForm}]
    /\ regLogin \in [Registrations -> Logins \cup {Null}]
    /\ regAnswer \in [Registrations -> Answer \cup {Null}]
    /\ regKnown \in [Registrations -> BOOLEAN]

\* No interleaving of registrations gives two accounts to one login, one email
\* or one phone, or an owner without the profile GET /owners/me includes.
DirectoryConsistent ==
    /\ \A u, v \in users : u # v =>
          /\ u.id # v.id /\ u.email # v.email /\ u.phone # v.phone
          /\ u.login # Null => u.login # v.login
    /\ ownerProfiles = {u.id : u \in users}

\* Whoever is answered with an account is answered with an account of theirs:
\* the one linked to their login, or, without an identity provider, the one
\* created from their form.
AnsweredWithOwnAccount ==
    \A r \in Registrations :
        regAnswer[r] # Null /\ regAnswer[r].kind = "ok" =>
            \E u \in users :
                /\ u.id = regAnswer[r].value
                /\ u.login = IF HasExternalIdentity THEN regForm[r].token ELSE Null
                /\ ~HasExternalIdentity => /\ u.email = regForm[r].email
                                           /\ u.phone = regForm[r].phone

\* A login that had its account before it asked again is never told 409,
\* whatever other registrations do between its lookup and its insert, and
\* even when the answer to its first request was lost in a crash.
KnownLoginNeverConflicts ==
    \A r \in Registrations : regKnown[r] => regAnswer[r] # Conflict

\* A 409 is the truth: another account holds the email, the phone or the login
\* of the request that got it.
ConflictIsReal ==
    \A r \in Registrations :
        regAnswer[r] = Conflict =>
            \E u \in users : \/ u.email = regForm[r].email
                             \/ u.phone = regForm[r].phone
                             \/ u.login \in Logins /\ u.login = regForm[r].token

\* "re-registering from the same login returns the already-linked account"
\* (identity.service.ts:25): no request is refused as a duplicate while its login
\* is linked to an account.
ReregisteringReturnsAccount ==
    [][\A r \in Registrations :
          /\ HasExternalIdentity
          /\ regAnswer[r] # Conflict /\ regAnswer'[r] = Conflict
          => LinkedTo(users, regForm[r].token) = {}]_vars

\* Every request that was sent is eventually answered or lost, none hangs.
EveryRegistrationEnds ==
    \A r \in Registrations : regPc[r] = "verify" ~> regPc[r] \in {"answered", "lost"}

\* The client's view (AccountDirectory): accounts only ever added, one atomic
\* decision per request, which no later step revises.
Directory ==
    INSTANCE AccountDirectory WITH
        Requests <- Registrations,
        accounts <- users,
        caller <- [r \in Registrations |->
                      IF HasExternalIdentity /\ regForm[r].token \in Logins
                      THEN regForm[r].token ELSE Null],
        known <- regKnown,
        asked <- {r \in Registrations : regPc[r] # "idle"},
        outcome <- regAnswer

ImplementsDirectory == Directory!Spec

=============================================================================
