--------------------------- MODULE IdentityProofs ---------------------------
(***************************************************************************)
(* Proofs about Identity, for any number of requests, logins, emails,      *)
(* phones and ids, and for either provider.                                *)
(***************************************************************************)
EXTENDS Identity, TLAPS

\* What holds of a handler at each of its awaits: the form is there, the login
\* it carries is the verified one, it has no answer yet, and a login that was
\* known when it asked is still linked and is never on its way to an insert.
HandlersInv ==
    \A r \in Registrations :
        /\ regPc[r] # "idle" => regForm[r] \in Form
        /\ regPc[r] \in {"idle", "verify"} => regLogin[r] = Null
        /\ regPc[r] \in {"lookup", "insert"} =>
              IF HasExternalIdentity
              THEN regForm[r].token \in Logins /\ regLogin[r] = regForm[r].token
              ELSE regLogin[r] = Null
        /\ regPc[r] = "lookup" => HasExternalIdentity
        /\ regPc[r] \in {"idle", "verify", "lookup", "insert"} => regAnswer[r] = Null
        /\ regKnown[r] => /\ HasExternalIdentity
                          /\ regPc[r] # "insert"
                          /\ \E u \in users : u.login = regForm[r].token

\* Request r opened account u: it is past its insert, under its own form and login.
Opened(r, u) ==
    /\ regPc[r] \in {"reply", "answered", "lost"}
    /\ regForm[r].email = u.email
    /\ regLogin[r] = u.login
    /\ HasExternalIdentity => regForm[r].token = u.login

\* Every account is an owner's, and was asked for.
AccountsAskedFor ==
    \A u \in users : u.role = "OWNER" /\ \E r \in Registrations : Opened(r, u)

\* AnsweredWithOwnAccount, for an answer that is there by where its handler stands.
RepliedWithOwnAccount ==
    \A r \in Registrations :
        HasExternalIdentity /\ regPc[r] \in {"reply", "answered"} /\ regAnswer[r].kind = "ok" =>
            \E u \in users : u.id = regAnswer[r].value /\ u.login = regForm[r].token

\* The inductive invariant.
IInv ==
    /\ TypeOK
    /\ HandlersInv
    /\ DirectoryConsistent
    /\ AccountsAskedFor
    /\ AnsweredWithOwnAccount
    /\ RepliedWithOwnAccount
    /\ KnownLoginNeverConflicts
    /\ ConflictIsReal

-----------------------------------------------------------------------------
(* Type correctness and the handlers' states, action by action.            *)

\* A commit adds one well-typed row under the new id.
LEMMA CommitTyped ==
    ASSUME TypeOK, HandlersInv, NEW r \in Registrations, NEW id \in FreshUserIds(users),
           regPc[r] = "insert", CommitAccount(r, id)
    PROVE  /\ id \in UserIds
           /\ NewAccount(r, id) \in UserRow
           /\ users' \subseteq UserRow
           /\ ownerProfiles' \subseteq UserIds
<1>1. id \in UserIds
  BY DEF FreshUserIds
<1>2. regForm[r] \in Form
  BY DEF HandlersInv
<1>3. NewAccount(r, id) \in UserRow
  BY <1>1, <1>2, OfferedRegionsAssumption
     DEF TypeOK, NewAccount, UserRow, UserRole, UserStatus, Region, Form
<1>4. QED
  BY <1>1, <1>2, <1>3 DEF TypeOK, CommitAccount

LEMMA InitTypeOK == Init => TypeOK
BY DEF Init, InitRegistrations, TypeOK, Stage, NoForm

LEMMA NextTypeOK ==
    ASSUME TypeOK, HandlersInv, [Next]_vars
    PROVE  TypeOK'
<1>1. ASSUME NEW r \in Registrations, NEW form \in Form, Submit(r, form)
      PROVE  TypeOK'
  BY <1>1 DEF TypeOK, Submit, Stage, dbVars
<1>3. ASSUME NEW r \in Registrations, AcceptIdentity(r)
      PROVE  TypeOK'
  BY <1>3 DEF TypeOK, AcceptIdentity, Stage, dbVars
<1>4. ASSUME NEW r \in Registrations, RejectIdentity(r)
      PROVE  TypeOK'
  BY <1>4 DEF TypeOK, RejectIdentity, Finish, Answer, Stage, dbVars
<1>5. ASSUME NEW r \in Registrations, FindExisting(r)
      PROVE  TypeOK'
  <2>1. PICK u \in users : u.id \in UserIds /\ Finish(r, Ok(u.id))
    BY <1>5 DEF FindExisting, LinkedTo, TypeOK, UserRow
  <2>2. QED
    BY <1>5, <2>1 DEF TypeOK, FindExisting, Finish, Answer, Stage, dbVars
<1>6. ASSUME NEW r \in Registrations, FindNothing(r)
      PROVE  TypeOK'
  BY <1>6 DEF TypeOK, FindNothing, Stage, dbVars
<1>7. ASSUME NEW r \in Registrations, Insert(r)
      PROVE  TypeOK'
  <2>1. PICK id \in FreshUserIds(users) : CommitAccount(r, id) /\ Finish(r, Ok(id))
    BY <1>7 DEF Insert
  <2>2. id \in UserIds /\ users' \subseteq UserRow /\ ownerProfiles' \subseteq UserIds
    BY <1>7, <2>1, CommitTyped DEF Insert
  <2>3. QED
    BY <1>7, <2>1, <2>2 DEF TypeOK, Insert, Finish, Answer, Stage
<1>8. ASSUME NEW r \in Registrations, RefuseDuplicate(r)
      PROVE  TypeOK'
  BY <1>8 DEF TypeOK, RefuseDuplicate, Finish, Answer, Stage, dbVars
<1>9. ASSUME NEW r \in Registrations, LoseDatabase(r)
      PROVE  TypeOK'
  <2>1. users' \subseteq UserRow /\ ownerProfiles' \subseteq UserIds
    BY <1>9, CommitTyped DEF LoseDatabase, TypeOK, dbVars
  <2>2. QED
    BY <1>9, <2>1 DEF TypeOK, LoseDatabase, Finish, Answer, Stage
<1>10. ASSUME NEW r \in Registrations, Deliver(r) \/ LoseReply(r)
       PROVE  TypeOK'
  BY <1>10 DEF TypeOK, Deliver, LoseReply, Stage, dbVars
<1>11. ASSUME Crash
       PROVE  TypeOK'
  BY <1>11 DEF TypeOK, Crash, CrashRegistrations, Stage, dbVars
<1>12. ASSUME UNCHANGED vars
       PROVE  TypeOK'
  BY <1>12 DEF TypeOK, vars
<1>13. QED
  BY <1>1, <1>3, <1>4, <1>5, <1>6, <1>7, <1>8, <1>9, <1>10, <1>11, <1>12
     DEF Next, RegistrationStep, Handle

-----------------------------------------------------------------------------
(* The handlers' states.                                                   *)

\* Accounts are never deleted or changed.
LEMMA AccountsOnlyAdded ==
    ASSUME [Next]_vars
    PROVE  users \subseteq users'
BY DEF Next, RegistrationStep, Handle, Submit, AcceptIdentity, RejectIdentity,
       FindExisting, FindNothing, Insert, CommitAccount, RefuseDuplicate, LoseDatabase,
       Deliver, LoseReply, Crash, vars, dbVars

LEMMA InitHandlersInv == Init => HandlersInv
BY DEF Init, InitRegistrations, HandlersInv

LEMMA NextHandlersInv ==
    ASSUME TypeOK, HandlersInv, [Next]_vars
    PROVE  HandlersInv'
<1> USE AccountsOnlyAdded DEF HandlersInv, TypeOK
<1>1. ASSUME NEW r \in Registrations, NEW form \in Form, Submit(r, form)
      PROVE  HandlersInv'
  BY <1>1 DEF Submit, dbVars, LinkedTo
<1>3. ASSUME NEW r \in Registrations, AcceptIdentity(r)
      PROVE  HandlersInv'
  BY <1>3 DEF AcceptIdentity, dbVars
<1>4. ASSUME NEW r \in Registrations, RejectIdentity(r) \/ FindExisting(r)
      PROVE  HandlersInv'
  BY <1>4 DEF RejectIdentity, FindExisting, Finish, dbVars
<1>5. ASSUME NEW r \in Registrations, FindNothing(r)
      PROVE  HandlersInv'
  <2>1. HasExternalIdentity /\ \A u \in users : u.login # regForm[r].token
    BY <1>5 DEF FindNothing, LinkedTo
  <2>2. ~regKnown[r]
    BY <2>1
  <2>3. QED
    BY <1>5, <2>1, <2>2 DEF FindNothing, dbVars
<1>6. ASSUME NEW r \in Registrations, Insert(r) \/ RefuseDuplicate(r) \/ LoseDatabase(r)
      PROVE  HandlersInv'
  BY <1>6 DEF Insert, RefuseDuplicate, LoseDatabase, Finish, dbVars
<1>7. ASSUME NEW r \in Registrations, Deliver(r) \/ LoseReply(r)
      PROVE  HandlersInv'
  BY <1>7 DEF Deliver, LoseReply, dbVars
<1>8. ASSUME Crash
      PROVE  HandlersInv'
  BY <1>8 DEF Crash, CrashRegistrations, InFlight, dbVars
<1>9. ASSUME UNCHANGED vars
      PROVE  HandlersInv'
  BY <1>9 DEF vars
<1>10. QED
  BY <1>1, <1>3, <1>4, <1>5, <1>6, <1>7, <1>8, <1>9
     DEF Next, RegistrationStep, Handle

-----------------------------------------------------------------------------
(* The directory.                                                          *)

LEMMA CommitConsistent ==
    ASSUME TypeOK, DirectoryConsistent,
           NEW r \in Registrations, NEW id \in FreshUserIds(users), CommitAccount(r, id)
    PROVE  DirectoryConsistent'
<1>1. NewAccount(r, id).id = id /\ \A u \in users : u.id # id
  BY DEF NewAccount, FreshUserIds
<1>2. ASSUME NEW u \in users', NEW v \in users', u # v
      PROVE  /\ u.id # v.id /\ u.email # v.email /\ u.phone # v.phone
             /\ u.login # Null => u.login # v.login
  BY <1>1, <1>2 DEF CommitAccount, DirectoryConsistent, UserKeysFree
<1>3. ownerProfiles' = {u.id : u \in users'}
  BY <1>1 DEF CommitAccount, DirectoryConsistent
<1>4. QED
  BY <1>2, <1>3 DEF DirectoryConsistent

LEMMA NextDirectoryConsistent ==
    ASSUME TypeOK, DirectoryConsistent, [Next]_vars
    PROVE  DirectoryConsistent'
<1>1. ASSUME NEW r \in Registrations, Insert(r) \/ LoseDatabase(r)
      PROVE  DirectoryConsistent'
  <2>1. CASE UNCHANGED dbVars
    BY <2>1 DEF DirectoryConsistent, dbVars
  <2>2. CASE \E id \in FreshUserIds(users) : CommitAccount(r, id)
    BY <2>2, CommitConsistent
  <2>3. QED
    BY <1>1, <2>1, <2>2 DEF Insert, LoseDatabase
<1>2. CASE UNCHANGED dbVars
  BY <1>2 DEF DirectoryConsistent, dbVars
<1>3. QED
  BY <1>1, <1>2
     DEF Next, RegistrationStep, Handle, Submit, AcceptIdentity, RejectIdentity,
         FindExisting, FindNothing, RefuseDuplicate, Deliver, LoseReply, Crash, vars, dbVars

-----------------------------------------------------------------------------
(* Where the accounts come from.                                           *)

\* A request past its insert keeps its form and its login.
LEMMA OpenedKept ==
    ASSUME TypeOK, [Next]_vars, NEW r \in Registrations, NEW u, Opened(r, u)
    PROVE  Opened(r, u)'
<1>1. regPc[r] \in {"reply", "answered", "lost"}
  BY DEF Opened
<1>2. regForm'[r] = regForm[r] /\ regLogin'[r] = regLogin[r]
  BY <1>1 DEF TypeOK, Next, RegistrationStep, Handle, Submit, AcceptIdentity, RejectIdentity,
              FindExisting, FindNothing, Insert, RefuseDuplicate, LoseDatabase, Deliver,
              LoseReply, Finish, Crash, vars, dbVars
<1>3. regPc'[r] \in {"reply", "answered", "lost"}
  BY <1>1 DEF TypeOK, Next, RegistrationStep, Handle, Submit, AcceptIdentity, RejectIdentity,
              FindExisting, FindNothing, Insert, RefuseDuplicate, LoseDatabase, Deliver,
              LoseReply, Finish, Crash, CrashRegistrations, vars, dbVars
<1>4. QED
  BY <1>2, <1>3 DEF Opened, HasExternalIdentity

\* An insert that commits opens its own request's account.
LEMMA CommitOpens ==
    ASSUME TypeOK, HandlersInv, NEW r \in Registrations, Insert(r) \/ LoseDatabase(r),
           NEW id \in FreshUserIds(users), regPc[r] = "insert", CommitAccount(r, id)
    PROVE  NewAccount(r, id).role = "OWNER" /\ Opened(r, NewAccount(r, id))'
<1>1. /\ NewAccount(r, id).role = "OWNER"
      /\ NewAccount(r, id).email = regForm[r].email /\ NewAccount(r, id).login = regLogin[r]
  BY DEF NewAccount
<1>2. regPc'[r] = "reply" /\ regForm' = regForm /\ regLogin' = regLogin
  BY DEF TypeOK, Insert, LoseDatabase, Finish
<1>3. HasExternalIdentity => regLogin[r] = regForm[r].token
  BY DEF HandlersInv
<1>4. NewAccount(r, id)' = NewAccount(r, id)
  BY <1>2 DEF NewAccount
<1>5. QED
  BY <1>1, <1>2, <1>3, <1>4 DEF Opened, HasExternalIdentity

LEMMA NextAccountsAskedFor ==
    ASSUME TypeOK, HandlersInv, AccountsAskedFor, [Next]_vars
    PROVE  AccountsAskedFor'
<1> SUFFICES ASSUME NEW u \in users'
             PROVE  u.role = "OWNER" /\ \E r \in Registrations : Opened(r, u)'
  BY DEF AccountsAskedFor
<1>1. CASE u \in users
  BY <1>1, OpenedKept DEF AccountsAskedFor
<1>2. CASE u \notin users
  <2>1. PICK r \in Registrations :
           /\ Insert(r) \/ LoseDatabase(r)
           /\ regPc[r] = "insert"
           /\ \E id \in FreshUserIds(users) : CommitAccount(r, id)
    BY <1>2 DEF Next, RegistrationStep, Handle, Submit, AcceptIdentity, RejectIdentity,
                FindExisting, FindNothing, Insert, RefuseDuplicate, LoseDatabase, Deliver,
                LoseReply, Crash, vars, dbVars
  <2>2. PICK id \in FreshUserIds(users) : CommitAccount(r, id)
    BY <2>1
  <2>3. u = NewAccount(r, id)
    BY <1>2, <2>2 DEF CommitAccount
  <2>4. NewAccount(r, id)' = NewAccount(r, id)
    BY <2>1 DEF NewAccount, Insert, LoseDatabase
  <2>5. QED
    BY <2>1, <2>2, <2>3, <2>4, CommitOpens DEF Opened
<1>3. QED
  BY <1>1, <1>2

-----------------------------------------------------------------------------
(* The answers.                                                            *)

\* An answer, once computed, is the decision: it does not change again.
LEMMA AnswersKept ==
    ASSUME TypeOK, HandlersInv, [Next]_vars, NEW r \in Registrations, regAnswer[r] # Null
    PROVE  /\ regAnswer'[r] = regAnswer[r]
           /\ regForm'[r] = regForm[r]
           /\ regKnown'[r] = regKnown[r]
<1>1. regPc[r] \notin {"idle", "verify", "lookup", "insert"}
  BY DEF HandlersInv
<1>2. QED
  BY <1>1
     DEF TypeOK, Next, RegistrationStep, Handle, Submit, AcceptIdentity,
         RejectIdentity, FindExisting, FindNothing, Insert, RefuseDuplicate, LoseDatabase,
         Deliver, LoseReply, Finish, Crash, vars, dbVars

\* How an answer comes about: with an account of the caller's, with a clash
\* that is there, or with an error.
LEMMA AnswersDecided ==
    ASSUME TypeOK, HandlersInv, NEW r \in Registrations,
           \/ FindExisting(r) \/ Insert(r) \/ RefuseDuplicate(r) \/ RejectIdentity(r)
           \/ LoseDatabase(r)
    PROVE  \/ /\ \E u \in users' : /\ regAnswer'[r] = Ok(u.id)
                                   /\ u.login = IF HasExternalIdentity
                                                THEN regForm[r].token ELSE Null
                                   /\ ~HasExternalIdentity =>
                                          u.email = regForm[r].email /\ u.phone = regForm[r].phone
           \/ /\ regAnswer'[r] = Conflict
              /\ ~regKnown[r]
              /\ \E u \in users' : \/ u.email = regForm[r].email
                                   \/ u.phone = regForm[r].phone
                                   \/ u.login \in Logins /\ u.login = regForm[r].token
           \/ regAnswer'[r] \in {Unauthorized, ServerError}
<1> USE DEF TypeOK, HandlersInv
<1>1. ASSUME FindExisting(r)
      PROVE  \E u \in users' : /\ regAnswer'[r] = Ok(u.id)
                               /\ HasExternalIdentity /\ u.login = regForm[r].token
  BY <1>1 DEF FindExisting, LinkedTo, Finish, dbVars
<1>2. ASSUME Insert(r)
      PROVE  \E u \in users' : /\ regAnswer'[r] = Ok(u.id)
                               /\ u.login = regLogin[r]
                               /\ u.email = regForm[r].email /\ u.phone = regForm[r].phone
  BY <1>2 DEF Insert, CommitAccount, NewAccount, Finish
<1>3. ASSUME RefuseDuplicate(r)
      PROVE  /\ regAnswer'[r] = Conflict
             /\ \E u \in users' : \/ u.email = regForm[r].email
                                  \/ u.phone = regForm[r].phone
                                  \/ u.login \in Logins /\ u.login = regForm[r].token
  <2>1. PICK id \in FreshUserIds(users) : ~UserKeysFree(users, NewAccount(r, id))
    BY <1>3 DEF RefuseDuplicate
  <2>2. PICK u \in users : \/ u.email = regForm[r].email
                           \/ u.phone = regForm[r].phone
                           \/ u.login = regLogin[r] /\ u.login # Null
    BY <2>1 DEF UserKeysFree, NewAccount
  <2>3. u.login = regLogin[r] /\ u.login # Null =>
            u.login \in Logins /\ u.login = regForm[r].token
    BY <1>3 DEF RefuseDuplicate
  <2>4. QED
    BY <1>3, <2>2, <2>3 DEF RefuseDuplicate, Finish, dbVars
<1>4. ASSUME RejectIdentity(r) \/ LoseDatabase(r)
      PROVE  regAnswer'[r] \in {Unauthorized, ServerError}
  BY <1>4 DEF RejectIdentity, LoseDatabase, Finish
<1>5. Insert(r) => regLogin[r] = IF HasExternalIdentity THEN regForm[r].token ELSE Null
  BY DEF Insert
<1>6. RefuseDuplicate(r) => ~regKnown[r]
  BY DEF RefuseDuplicate
<1>7. QED
  BY <1>1, <1>2, <1>3, <1>4, <1>5, <1>6

\* A handler gets its answer, or reaches its reply, by one of five steps.
LEMMA Deciding ==
    ASSUME TypeOK, [Next]_vars, NEW r \in Registrations,
           \/ regAnswer'[r] # regAnswer[r]
           \/ /\ regPc'[r] \in {"reply", "answered"}
              /\ regPc[r] \notin {"reply", "answered"}
    PROVE  \/ FindExisting(r) \/ Insert(r) \/ RefuseDuplicate(r) \/ RejectIdentity(r)
           \/ LoseDatabase(r)
BY DEF TypeOK, Next, RegistrationStep, Handle, Submit, AcceptIdentity, RejectIdentity,
       FindExisting, FindNothing, Insert, RefuseDuplicate, LoseDatabase, Deliver, LoseReply,
       Finish, Crash, CrashRegistrations, vars, dbVars

\* Answers are distinguishable: by their kind, and from Null.
LEMMA AnswersDistinct ==
    /\ Null # Conflict
    /\ \A id : Ok(id) # Conflict /\ Ok(id).kind = "ok" /\ Ok(id).value = id
    /\ \A answer \in {Unauthorized, ServerError} : answer # Conflict /\ answer.kind # "ok"
    /\ Conflict.kind # "ok"
<1>1. Null # Conflict
  <2>1. "conflict" \in ExceptionKind
    BY DEF ExceptionKind
  <2>2. QED
    BY <2>1, NoAnswerAssumption DEF Conflict
<1>2. ASSUME NEW id
      PROVE  Ok(id) # Conflict /\ Ok(id).kind = "ok" /\ Ok(id).value = id
  <2>1. Ok(id).kind = "ok" /\ Ok(id).value = id /\ Conflict.kind = "conflict"
    BY DEF Ok, Conflict, Exception
  <2>2. QED
    BY <2>1
<1>3. ASSUME NEW answer \in {Unauthorized, ServerError}
      PROVE  answer # Conflict /\ answer.kind # "ok"
  <2>1. /\ Unauthorized.kind = "unauthorized" /\ ServerError.kind = "server error"
        /\ Conflict.kind = "conflict"
    BY DEF Unauthorized, ServerError, Conflict, Exception
  <2>2. QED
    BY <2>1
<1>4. Conflict.kind # "ok"
  BY DEF Conflict, Exception
<1>5. QED
  BY <1>1, <1>2, <1>3, <1>4

LEMMA NextAnswers ==
    ASSUME IInv, [Next]_vars
    PROVE  AnsweredWithOwnAccount' /\ KnownLoginNeverConflicts' /\ ConflictIsReal'
<1> USE DEF IInv
<1>1. users \subseteq users'
  BY AccountsOnlyAdded
<1>2. ASSUME NEW r \in Registrations, regAnswer'[r] # Null, regAnswer[r] = Null
      PROVE  regForm'[r] = regForm[r] /\ regKnown'[r] = regKnown[r]
  BY <1>2
     DEF TypeOK, Next, RegistrationStep, Handle, Submit, AcceptIdentity,
         RejectIdentity, FindExisting, FindNothing, Insert, RefuseDuplicate, LoseDatabase,
         Deliver, LoseReply, Finish, Crash, vars, dbVars
<1>3. AnsweredWithOwnAccount'
  <2> SUFFICES ASSUME NEW r \in Registrations, regAnswer'[r] # Null, regAnswer'[r].kind = "ok"
               PROVE  \E u \in users' :
                         /\ u.id = regAnswer'[r].value
                         /\ u.login = IF HasExternalIdentity THEN regForm'[r].token ELSE Null
                         /\ ~HasExternalIdentity => /\ u.email = regForm'[r].email
                                                    /\ u.phone = regForm'[r].phone
    BY DEF AnsweredWithOwnAccount, HasExternalIdentity
  <2>1. CASE regAnswer[r] = Null
    BY <2>1, <1>2, Deciding, AnswersDecided, AnswersDistinct
  <2>2. CASE regAnswer[r] # Null
    BY <2>2, <1>1, AnswersKept DEF AnsweredWithOwnAccount
  <2>3. QED
    BY <2>1, <2>2
<1>4. KnownLoginNeverConflicts'
  <2> SUFFICES ASSUME NEW r \in Registrations, regKnown'[r], regAnswer'[r] = Conflict
               PROVE  FALSE
    BY DEF KnownLoginNeverConflicts
  <2>1. CASE regAnswer[r] = Null
    BY <2>1, <1>2, Deciding, AnswersDecided, AnswersDistinct
  <2>2. CASE regAnswer[r] # Null
    BY <2>2, AnswersKept DEF KnownLoginNeverConflicts
  <2>3. QED
    BY <2>1, <2>2
<1>5. ConflictIsReal'
  <2> SUFFICES ASSUME NEW r \in Registrations, regAnswer'[r] = Conflict
               PROVE  \E u \in users' : \/ u.email = regForm'[r].email
                                        \/ u.phone = regForm'[r].phone
                                        \/ u.login \in Logins /\ u.login = regForm'[r].token
    BY DEF ConflictIsReal
  <2>1. CASE regAnswer[r] = Null
    BY <2>1, <1>2, Deciding, AnswersDecided, AnswersDistinct
  <2>2. CASE regAnswer[r] # Null
    BY <2>2, <1>1, AnswersKept DEF ConflictIsReal
  <2>3. QED
    BY <2>1, <2>2
<1>6. QED
  BY <1>3, <1>4, <1>5

LEMMA NextReplies ==
    ASSUME IInv, [Next]_vars
    PROVE  RepliedWithOwnAccount'
<1> USE DEF IInv
<1> SUFFICES ASSUME HasExternalIdentity, NEW r \in Registrations,
                    regPc'[r] \in {"reply", "answered"}, regAnswer'[r].kind = "ok"
             PROVE  \E u \in users' : u.id = regAnswer'[r].value /\ u.login = regForm'[r].token
  BY DEF RepliedWithOwnAccount, HasExternalIdentity
<1>1. CASE FindExisting(r) \/ Insert(r) \/ RefuseDuplicate(r) \/ RejectIdentity(r)
           \/ LoseDatabase(r)
  <2>1. regForm' = regForm
    BY <1>1 DEF FindExisting, Insert, RefuseDuplicate, RejectIdentity, LoseDatabase
  <2>2. QED
    BY <1>1, <2>1, AnswersDecided, AnswersDistinct
<1>2. CASE ~(FindExisting(r) \/ Insert(r) \/ RefuseDuplicate(r) \/ RejectIdentity(r)
             \/ LoseDatabase(r))
  <2>1. regPc[r] \in {"reply", "answered"} /\ regAnswer'[r] = regAnswer[r]
    BY <1>2, Deciding
  <2>2. regForm'[r] = regForm[r]
    BY <2>1 DEF TypeOK, Next, RegistrationStep, Handle, Submit, AcceptIdentity, RejectIdentity,
                FindExisting, FindNothing, Insert, RefuseDuplicate, LoseDatabase, Deliver,
                LoseReply, Crash, vars, dbVars
  <2>3. QED
    BY <2>1, <2>2, AccountsOnlyAdded DEF RepliedWithOwnAccount
<1>3. QED
  BY <1>1, <1>2

-----------------------------------------------------------------------------
(* The theorems.                                                           *)

LEMMA InitIInv == Init => IInv
<1> SUFFICES ASSUME Init
             PROVE  AnsweredWithOwnAccount /\ KnownLoginNeverConflicts /\ ConflictIsReal
                    /\ DirectoryConsistent /\ AccountsAskedFor /\ RepliedWithOwnAccount
  BY InitTypeOK, InitHandlersInv DEF IInv
<1>1. \A r \in Registrations : regAnswer[r] = Null /\ ~regKnown[r] /\ regPc[r] = "idle"
  BY DEF Init, InitRegistrations
<1>2. QED
  BY <1>1, AnswersDistinct
     DEF Init, AnsweredWithOwnAccount, KnownLoginNeverConflicts, ConflictIsReal,
         DirectoryConsistent, AccountsAskedFor, RepliedWithOwnAccount

LEMMA NextIInv == IInv /\ [Next]_vars => IInv'
BY NextTypeOK, NextHandlersInv, NextDirectoryConsistent, NextAccountsAskedFor, NextAnswers,
   NextReplies DEF IInv

LEMMA Inductive == Safety => []IInv
BY InitIInv, NextIInv, PTL DEF Safety

\* The tables and the handlers are always well typed.
THEOREM TypeCorrect == Spec => []TypeOK
<1>1. IInv => TypeOK
  BY DEF IInv
<1>2. QED
  BY <1>1, Inductive, PTL DEF Spec

\* However registrations interleave, crash and fail, no login, email or phone
\* ever has two accounts, and every owner has a profile.
THEOREM OneAccountPerKey == Spec => []DirectoryConsistent
<1>1. IInv => DirectoryConsistent
  BY DEF IInv
<1>2. QED
  BY <1>1, Inductive, PTL DEF Spec

\* A login that had its account when it asked is never answered with a 409.
THEOREM RetryIsSafe == Spec => []KnownLoginNeverConflicts
<1>1. IInv => KnownLoginNeverConflicts
  BY DEF IInv
<1>2. QED
  BY <1>1, Inductive, PTL DEF Spec

\* Nobody is answered with somebody else's account.
THEOREM AnswersAreOwn == Spec => []AnsweredWithOwnAccount
<1>1. IInv => AnsweredWithOwnAccount
  BY DEF IInv
<1>2. QED
  BY <1>1, Inductive, PTL DEF Spec

\* Every 409 names a clash that is there.
THEOREM ConflictsAreReal == Spec => []ConflictIsReal
<1>1. IInv => ConflictIsReal
  BY DEF IInv
<1>2. QED
  BY <1>1, Inductive, PTL DEF Spec

-----------------------------------------------------------------------------
(* Refinement: every step of a handler is one of AccountDirectory's steps  *)
(* or none.                                                                *)

Asked == {r \in Registrations : regPc[r] # "idle"}

Caller == [r \in Registrations |->
              IF HasExternalIdentity /\ regForm[r].token \in Logins
              THEN regForm[r].token ELSE Null]

\* The two modules share their vocabulary.
LEMMA SameVocabulary ==
    /\ Directory!Unauthorized = Unauthorized
    /\ Directory!Conflict = Conflict
    /\ Directory!ServerError = ServerError
    /\ \A id : Directory!Ok(id) = Ok(id)
    /\ Directory!FreshUserIds(users) = FreshUserIds(users)
    /\ \A row : Directory!UserKeysFree(users, row) <=> UserKeysFree(users, row)
    /\ \A id, login : Directory!OwnerAccounts(id, login) = OwnerAccounts(id, login)
BY DEF Directory!Unauthorized, Unauthorized, Directory!Conflict, Conflict,
       Directory!ServerError, ServerError, Directory!Exception, Exception,
       Directory!Ok, Ok, Directory!FreshUserIds, FreshUserIds,
       Directory!UserKeysFree, UserKeysFree, Directory!OwnerAccounts, OwnerAccounts

LEMMA DirectoryInit == Init => Directory!Init
BY NullAssumption DEF Init, InitRegistrations, Directory!Init, NoForm

LEMMA DirectoryAsk ==
    ASSUME IInv, NEW r \in Registrations, NEW form \in Form, Submit(r, form)
    PROVE  Directory!Next
<1> DEFINE login == IF HasExternalIdentity /\ form.token \in Logins THEN form.token ELSE Null
<1>1. login \in Logins \cup {Null}
  OBVIOUS
<1>2. r \notin Asked /\ Asked' = Asked \cup {r}
  BY DEF Submit, IInv, TypeOK, Asked
<1>3. Caller' = [Caller EXCEPT ![r] = login]
  BY DEF Submit, IInv, TypeOK, Caller, HasExternalIdentity
<1>4. regKnown' = [regKnown EXCEPT ![r] = login # Null /\ \E a \in users : a.login = login]
  BY NullAssumption DEF Submit, LinkedTo
<1>5. Directory!Ask(r, login)
  BY <1>2, <1>3, <1>4 DEF Submit, Directory!Ask, Asked, Caller, dbVars
<1>6. QED
  BY <1>1, <1>5 DEF Directory!Next

\* A handler that computes its answer decides, and changes nothing else.
LEMMA DirectoryDecide ==
    ASSUME IInv, NEW r \in Registrations, NEW answer,
           regPc[r] \in {"verify", "lookup", "insert"},
           Finish(r, answer), UNCHANGED <<regForm, regKnown>>
    PROVE  Directory!Decide(r, answer)
<1>1. r \in Asked /\ Asked' = Asked
  BY DEF IInv, TypeOK, Finish, Asked
<1>2. Caller' = Caller
  BY DEF Caller, HasExternalIdentity
<1>3. regAnswer[r] = Null
  BY DEF IInv, HandlersInv
<1>4. QED
  BY <1>1, <1>2, <1>3 DEF Finish, Directory!Decide, Asked, Caller

\* A handler that is between its request and its answer shows nothing.
LEMMA DirectoryStutter ==
    ASSUME IInv, UNCHANGED <<dbVars, regForm, regAnswer, regKnown>>, Asked' = Asked
    PROVE  UNCHANGED Directory!vars
<1>1. Caller' = Caller
  BY DEF Caller, HasExternalIdentity
<1>2. QED
  BY <1>1 DEF Directory!vars, dbVars, Asked, Caller

\* The account an insert commits is one the directory may open for the caller.
LEMMA DirectoryCommit ==
    ASSUME IInv, NEW r \in Registrations, regPc[r] = "insert",
           NEW id \in FreshUserIds(users), CommitAccount(r, id),
           \/ Directory!Decide(r, Ok(id))
           \/ Directory!Decide(r, ServerError)
    PROVE  Directory!Open(r)
<1>1. regForm[r] \in Form /\ regLogin[r] = Caller[r]
  BY NullAssumption DEF IInv, HandlersInv, Caller
<1>2. NewAccount(r, id) \in OwnerAccounts(id, Caller[r])
  BY <1>1 DEF NewAccount, OwnerAccounts, Form
<1>3. QED
  BY <1>2, SameVocabulary DEF Directory!Open, CommitAccount, Caller

LEMMA DirectoryNext ==
    ASSUME IInv, [Next]_vars
    PROVE  [Directory!Next]_(Directory!vars)
<1>1. ASSUME NEW r \in Registrations, NEW form \in Form, Submit(r, form)
      PROVE  Directory!Next
  BY <1>1, DirectoryAsk
<1>2. ASSUME NEW r \in Registrations,
             AcceptIdentity(r) \/ FindNothing(r) \/ Deliver(r) \/ LoseReply(r)
      PROVE  UNCHANGED Directory!vars
  <2>1. Asked' = Asked /\ UNCHANGED <<dbVars, regForm, regAnswer, regKnown>>
    BY <1>2 DEF IInv, TypeOK, Asked, AcceptIdentity, FindNothing, Deliver, LoseReply
  <2>2. QED
    BY <2>1, DirectoryStutter
<1>3. ASSUME NEW r \in Registrations, RejectIdentity(r)
      PROVE  Directory!Next
  <2>1. Directory!Decide(r, Unauthorized)
    BY <1>3, DirectoryDecide DEF RejectIdentity
  <2>2. QED
    BY <1>3, <2>1, SameVocabulary DEF RejectIdentity, Directory!Next, Directory!Fail, dbVars
<1>4. ASSUME NEW r \in Registrations, FindExisting(r)
      PROVE  Directory!Next
  <2>1. PICK u \in users : u.login = regLogin[r] /\ Finish(r, Ok(u.id))
    BY <1>4 DEF FindExisting, LinkedTo
  <2>2. Directory!Decide(r, Ok(u.id))
    BY <1>4, <2>1, DirectoryDecide DEF FindExisting
  <2>3. Caller[r] = regLogin[r] /\ Caller[r] # Null
    BY <1>4, NullAssumption DEF FindExisting, IInv, HandlersInv, Caller
  <2>4. Directory!Recognise(r)
    BY <1>4, <2>1, <2>2, <2>3, SameVocabulary DEF FindExisting, Directory!Recognise, Caller, dbVars
  <2>5. QED
    BY <2>4 DEF Directory!Next
<1>5. ASSUME NEW r \in Registrations, Insert(r)
      PROVE  Directory!Next
  <2>1. PICK id \in FreshUserIds(users) : CommitAccount(r, id) /\ Finish(r, Ok(id))
    BY <1>5 DEF Insert
  <2>2. Directory!Decide(r, Ok(id))
    BY <1>5, <2>1, DirectoryDecide DEF Insert
  <2>3. Directory!Open(r)
    BY <1>5, <2>1, <2>2, DirectoryCommit DEF Insert
  <2>4. QED
    BY <2>3 DEF Directory!Next
<1>6. ASSUME NEW r \in Registrations, RefuseDuplicate(r)
      PROVE  Directory!Next
  <2>1. Directory!Decide(r, Conflict)
    BY <1>6, DirectoryDecide DEF RefuseDuplicate
  <2>2. ~regKnown[r]
    BY <1>6 DEF RefuseDuplicate, IInv, HandlersInv
  <2>3. users # {}
    BY <1>6 DEF RefuseDuplicate, UserKeysFree
  <2>4. Directory!Refuse(r)
    BY <1>6, <2>1, <2>2, <2>3, SameVocabulary DEF RefuseDuplicate, Directory!Refuse, dbVars
  <2>5. QED
    BY <2>4 DEF Directory!Next
<1>7. ASSUME NEW r \in Registrations, LoseDatabase(r)
      PROVE  Directory!Next
  <2>1. Directory!Decide(r, ServerError)
    BY <1>7, DirectoryDecide DEF LoseDatabase
  <2>2. CASE UNCHANGED dbVars
    BY <2>1, <2>2, SameVocabulary DEF Directory!Next, Directory!Fail, dbVars
  <2>3. CASE regPc[r] = "insert" /\ \E id \in FreshUserIds(users) : CommitAccount(r, id)
    <3>1. Directory!Open(r)
      BY <2>1, <2>3, DirectoryCommit
    <3>2. QED
      BY <3>1 DEF Directory!Next
  <2>4. QED
    BY <1>7, <2>2, <2>3 DEF LoseDatabase
<1>8. ASSUME Crash
      PROVE  UNCHANGED Directory!vars
  <2>1. Asked' = Asked /\ UNCHANGED <<dbVars, regForm, regAnswer, regKnown>>
    BY <1>8 DEF IInv, TypeOK, Asked, Crash, CrashRegistrations, InFlight
  <2>2. QED
    BY <2>1, DirectoryStutter
<1>9. ASSUME UNCHANGED vars
      PROVE  UNCHANGED Directory!vars
  <2>1. Asked' = Asked /\ UNCHANGED <<dbVars, regForm, regAnswer, regKnown>>
    BY <1>9 DEF vars, dbVars, Asked
  <2>2. QED
    BY <2>1, DirectoryStutter
<1>10. QED
  BY <1>1, <1>2, <1>3, <1>4, <1>5, <1>6, <1>7, <1>8, <1>9
     DEF Next, RegistrationStep, Handle

\* Registration implements the directory its callers see.
THEOREM RegistrationImplementsDirectory == Spec => ImplementsDirectory
<1>1. IInv /\ [Next]_vars => [Directory!Next]_(Directory!vars)
  BY DirectoryNext
<1>2. QED
  BY <1>1, DirectoryInit, Inductive, PTL
     DEF Spec, Safety, ImplementsDirectory, Directory!Spec

=============================================================================
