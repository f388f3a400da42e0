--------------------------- MODULE DashboardProofs ---------------------------
(***************************************************************************)
(* Proofs about Dashboard, for any number of clicks, accounts and vehicles:*)
(* however calls overlap and their answers overtake each other, the tab    *)
(* shows its owner's vehicles, a refresh forgets none, and who waits for   *)
(* each answer sees exactly what was created.                              *)
(***************************************************************************)
EXTENDS Dashboard, FiniteSetTheorems, SequenceTheorems, TLAPS

-----------------------------------------------------------------------------
(* The inductive invariant.                                                *)

Answered(c) == callPc[c] \in {"served", "done"} /\ callAnswer[c] # Null

\* The calls answered with an account, with a vehicle, and with a list not shown yet.
GotAccount(c) == /\ Answered(c) /\ callAnswer[c].kind = "ok"
                 /\ callKind[c] \in {"restore", "register"}
GotVehicle(c) == Answered(c) /\ callAnswer[c].kind = "ok" /\ callKind[c] = "create"
GotList(c) == callPc[c] = "served" /\ callAnswer[c].kind = "ok" /\ callKind[c] = "refresh"

\* The calls made for the owner the tab shows.
ForOwner(c) == callPc[c] # "idle" /\ callKind[c] \in {"create", "refresh"}

Types ==
    /\ mode \in {"clerk", "dev"}
    /\ \A a \in accounts : a.id \in UserIds
    /\ fleet \in Seq(Vehicles)
    /\ list \in Seq(Vehicles)
    /\ ownerId \in UserIds \cup {Null}
    /\ overlapped \in BOOLEAN
    /\ callPc \in [Clicks -> {"idle", "token", "sent", "served", "done"}]
    /\ DOMAIN callKind = Clicks
    /\ DOMAIN callToken = Clicks
    /\ DOMAIN callAnswer = Clicks
    /\ DOMAIN callShown = Clicks

\* The database: ids are unique, a login has one account, a vehicle an owner.
DatabaseInv ==
    /\ \A a, b \in accounts :
          a.id = b.id \/ (mode = "clerk" /\ a.login = Me /\ b.login = Me) => a = b
    /\ \A v \in ToSet(fleet) : \E a \in accounts : a.id = v.ownerId
    /\ \A i, j \in DOMAIN fleet : fleet[i] = fleet[j] => i = j

\* A call carries the session's token, or the owner shown when it was clicked.
TokenInv(c) ==
    /\ callPc[c] = "token" => mode = "clerk"
    /\ callPc[c] # "idle" /\ callKind[c] = "restore" => mode = "clerk"
    /\ mode = "clerk" => callToken[c] \in {Me, Null}
    /\ mode = "clerk" /\ ForOwner(c) /\ callPc[c] = "sent" => callToken[c] = Me
    /\ mode = "dev" /\ ForOwner(c) => callToken[c] \in Registered
    /\ ForOwner(c) => Registered # {}

\* What the API answered is still so.
AnswerInv(c) ==
    /\ callPc[c] = "served" /\ callKind[c] # "refresh" => callAnswer[c] # Null
    /\ callPc[c] \in {"idle", "token", "sent"} => callAnswer[c] = Null
    /\ GotAccount(c) =>
          /\ callAnswer[c].value \in UserIds
          /\ \E a \in accounts : /\ a.id = callAnswer[c].value
                                 /\ mode = "clerk" => a.login = Me
    /\ GotVehicle(c) =>
          /\ callAnswer[c].value \in Seq(Vehicles) /\ Len(callAnswer[c].value) = 1
          /\ callAnswer[c].value[1] \in ToSet(fleet)
          /\ callAnswer[c].value[1].ownerId \in Registered
    /\ GotList(c) =>
          /\ callAnswer[c].value \in Seq(Vehicles)
          /\ \A v \in ToSet(callAnswer[c].value) :
                v \in ToSet(fleet) /\ v.ownerId \in Registered

\* An account is shown from the first one answered on, and it is the last.
OwnerInv ==
    /\ ownerId # Null => ownerId \in Registered
    /\ Registered # {} => ownerId # Null
    /\ \A v \in ToSet(list) : v \in ToSet(fleet) /\ v.ownerId \in Registered

\* A refresh that was answered lists what its caller saw when clicking.
ShownInv(c) ==
    /\ \A v \in callShown[c] : v \in ToSet(fleet)
    /\ GotList(c) =>
          \A v \in callShown[c] :
             v.ownerId \in CallerIds(c) => v \in ToSet(callAnswer[c].value)

Distinct(seq) == \A i, j \in DOMAIN seq : seq[i] = seq[j] => i = j

\* Without overlap, one call is in flight, for the one account; what it is about to
\* show was not shown before, and nothing created is missing.
AloneInv ==
    /\ \A c, d \in Clicks : InFlight(c) /\ InFlight(d) => c = d
    /\ \A c \in Clicks : InFlight(c) /\ callKind[c] = "register" => ownerId = Null
    /\ Registered \subseteq {ownerId}

ExactInv(c) ==
    /\ GotVehicle(c) /\ callPc[c] = "done" => callAnswer[c].value[1] \in ToSet(list)
    /\ GotVehicle(c) /\ callPc[c] = "served" => callAnswer[c].value[1] \notin ToSet(list)
    /\ GotList(c) =>
          /\ Distinct(callAnswer[c].value)
          /\ \A d \in Clicks : GotVehicle(d) /\ callPc[d] = "done" =>
                callAnswer[d].value[1] \in ToSet(callAnswer[c].value)

SequentialInv ==
    ~overlapped => AloneInv /\ Distinct(list) /\ \A c \in Clicks : ExactInv(c)

CallsInv == \A c \in Clicks : TokenInv(c) /\ AnswerInv(c) /\ ShownInv(c)

IInv == Types /\ DatabaseInv /\ CallsInv /\ OwnerInv /\ SequentialInv
-----------------------------------------------------------------------------
(* The list an owner is sent.                                              *)

\* There is an n-th newest place for each n, and each place is one of them.
LEMMA PlacesAreNumbered ==
    ASSUME NEW N \in Nat, NEW S \in SUBSET (1..N)
    PROVE  /\ IsFiniteSet(S) /\ Cardinality(S) \in Nat
           /\ \A n \in 1..Cardinality(S) : NthNewest(S, n) \in S
           /\ \A n, m \in 1..Cardinality(S) : NthNewest(S, n) = NthNewest(S, m) => n = m
           /\ \A i \in S : \E n \in 1..Cardinality(S) : NthNewest(S, n) = i
<1> DEFINE Newer(i) == {j \in S : j > i}
           size == Cardinality(S)
           count == [i \in S |-> Cardinality(Newer(i))]
<1>1. IsFiniteSet(S) /\ size \in Nat
    <2>1. IsFiniteSet(1..N)
        BY FS_Interval
    <2>2. IsFiniteSet(S)
        BY <2>1, FS_Subset
    <2> QED BY <2>2, FS_CardinalityType
<1>2. ASSUME NEW i \in S
      PROVE  /\ IsFiniteSet(Newer(i)) /\ count[i] \in Nat /\ count[i] = Cardinality(Newer(i))
             /\ count[i] <= size - 1
    <2>1. Newer(i) \subseteq S \ {i}
        OBVIOUS
    <2>2. IsFiniteSet(S \ {i}) /\ Cardinality(S \ {i}) = size - 1
        BY <1>1, FS_RemoveElement
    <2>3. IsFiniteSet(Newer(i)) /\ Cardinality(Newer(i)) <= size - 1
        BY <2>1, <2>2, FS_Subset
    <2> QED BY <2>3, FS_CardinalityType
<1>3. ASSUME NEW i \in S, NEW j \in S, i < j
      PROVE  count[j] < count[i]
    <2>1. Newer(j) \subseteq Newer(i) \ {j} /\ j \in Newer(i)
        <3>1. \A k \in S : k \in Int
            OBVIOUS
        <3>2. ASSUME NEW k \in S, k > j PROVE k > i /\ k # j
            BY <1>3, <3>1, <3>2
        <3> QED BY <1>3, <3>1, <3>2
    <2>2. IsFiniteSet(Newer(i) \ {j}) /\ Cardinality(Newer(i) \ {j}) = count[i] - 1
        BY <1>2, <2>1, FS_RemoveElement
    <2>3. Cardinality(Newer(j)) <= count[i] - 1
        BY <2>1, <2>2, FS_Subset
    <2> QED BY <1>2, <2>3
<1>4. ASSUME NEW i \in S, NEW j \in S, count[i] = count[j]
      PROVE  i = j
    <2> HIDE DEF count, Newer, size
    <2>1. i \in Int /\ j \in Int /\ count[i] \in Int /\ count[j] \in Int
        BY <1>2
    <2>2. ~(i < j) /\ ~(j < i)
        BY <1>3, <1>4, <2>1
    <2> QED BY <2>1, <2>2
<1>5. count \in Surjection(S, 0..(size - 1))
    <2>1. count \in Injection(S, 0..(size - 1))
        <3>1. count \in [S -> 0..(size - 1)]
            BY <1>1, <1>2
        <3> HIDE DEF count
        <3> QED BY <1>4, <3>1 DEF Injection, IsInjective
    <2>2. IsFiniteSet(0..(size - 1)) /\ Cardinality(0..(size - 1)) = size
        BY <1>1, FS_Interval
    <2> HIDE DEF count
    <2> QED BY <1>1, <2>1, <2>2, FS_Injection
<1>6. ASSUME NEW n \in 1..size
      PROVE  NthNewest(S, n) \in S /\ count[NthNewest(S, n)] = n - 1
    <2>1. \E i \in S : count[i] = n - 1
        <3>1. n - 1 \in 0..(size - 1)
            BY <1>1
        <3> HIDE DEF count
        <3> QED BY <1>5, <3>1 DEF Surjection
    <2>2. \E i \in S : Cardinality({j \in S : j > i}) = n - 1
        BY <2>1
    <2>3. NthNewest(S, n) \in S /\ Cardinality({j \in S : j > NthNewest(S, n)}) = n - 1
        BY <2>2 DEF NthNewest
    <2> QED BY <2>3
<1>7. ASSUME NEW i \in S
      PROVE  \E n \in 1..size : NthNewest(S, n) = i
    <2>1. count[i] + 1 \in 1..size
        BY <1>1, <1>2
    <2> HIDE DEF count, Newer, size
    <2>2. NthNewest(S, count[i] + 1) \in S /\ count[NthNewest(S, count[i] + 1)] = count[i]
        <3>1. (count[i] + 1) - 1 = count[i]
            BY <1>2
        <3> QED BY <1>6, <2>1, <3>1
    <2> QED BY <1>4, <2>1, <2>2
<1>8. \A n, m \in 1..size : NthNewest(S, n) = NthNewest(S, m) => n = m
    <2> HIDE DEF count
    <2> QED BY <1>1, <1>6
<1> QED BY <1>1, <1>6, <1>7, <1>8

\* GET /vehicles/mine sends the caller's vehicles: all of them, nothing else,
\* and none twice.
LEMMA ListingIsExact ==
    ASSUME NEW c \in Clicks, fleet \in Seq(Vehicles), DatabaseInv
    PROVE  /\ Listing(c) \in Seq(Vehicles)
           /\ \A v : v \in ToSet(Listing(c)) <=>
                       v \in ToSet(fleet) /\ v.ownerId \in CallerIds(c)
           /\ Distinct(Listing(c))
<1> DEFINE mine == Mine(c)
           size == Cardinality(mine)
<1>1. mine \in SUBSET (1..Len(fleet)) /\ Len(fleet) \in Nat
    BY DEF Mine
<1>2. /\ size \in Nat
      /\ \A n \in 1..size : NthNewest(mine, n) \in mine
      /\ \A n, m \in 1..size : NthNewest(mine, n) = NthNewest(mine, m) => n = m
      /\ \A i \in mine : \E n \in 1..size : NthNewest(mine, n) = i
    BY <1>1, PlacesAreNumbered
<1>3. Listing(c) = [n \in 1..size |-> fleet[NthNewest(mine, n)]]
    BY DEF Listing
<1>4. \A i : i \in mine <=> i \in DOMAIN fleet /\ fleet[i].ownerId \in CallerIds(c)
    BY DEF Mine
<1> HIDE DEF mine, size
<1>5. \A n \in 1..size : fleet[NthNewest(mine, n)] \in Vehicles
    BY <1>2, <1>4
<1>6. Listing(c) \in Seq(Vehicles) /\ DOMAIN Listing(c) = 1..size
    BY <1>2, <1>3, <1>5
<1>7. Distinct(Listing(c))
    BY <1>2, <1>3, <1>4, <1>6 DEF Distinct, DatabaseInv
<1>8. ASSUME NEW v
      PROVE  v \in ToSet(Listing(c)) <=> v \in ToSet(fleet) /\ v.ownerId \in CallerIds(c)
    BY <1>2, <1>3, <1>4, <1>6 DEF ToSet
<1> QED BY <1>6, <1>7, <1>8

-----------------------------------------------------------------------------
(* What every step leaves alone.                                           *)

\* A call moves forward only, and what was settled about it stays settled.
MovesForward(c) ==
    /\ callPc'[c] = callPc[c] =>
          UNCHANGED <<callKind[c], callShown[c], callToken[c], callAnswer[c]>>
    /\ callPc[c] # "idle" => UNCHANGED <<callKind[c], callShown[c]>>
    /\ callPc[c] \notin {"idle", "token"} => UNCHANGED callToken[c]
    /\ callPc[c] # "sent" => UNCHANGED callAnswer[c]
    /\ callPc'[c] # callPc[c] =>
          <<callPc[c], callPc'[c]>> \in
             {<<"idle", "token">>, <<"idle", "sent">>, <<"token", "sent">>,
              <<"token", "done">>, <<"sent", "served">>, <<"served", "done">>}

LEMMA CallsMoveForward ==
    ASSUME Types, [Next]_vars
    PROVE  mode' = mode /\ \A c \in Clicks : MovesForward(c)
<1> USE DEF Types
<1>1. ASSUME NEW c \in Clicks, NEW kind, NEW form, Begin(c, kind, form)
      PROVE  /\ mode' = mode
             /\ callPc[c] = "idle" /\ callPc' = [callPc EXCEPT ![c] = callPc'[c]]
             /\ callPc'[c] \in {"token", "sent"}
             /\ \A b \in Clicks \ {c} : /\ callKind'[b] = callKind[b]
                                        /\ callShown'[b] = callShown[b]
                                        /\ callToken'[b] = callToken[b]
             /\ callAnswer' = callAnswer
    BY <1>1 DEF Begin
<1>2. ASSUME NEW c \in Clicks, Restore(c) \/ OnRegister(c) \/ OnCreateVehicle(c) \/ OnRefresh(c)
      PROVE  \E kind, form : Begin(c, kind, form)
    BY <1>2 DEF Restore, OnRegister, OnCreateVehicle, OnRefresh
<1>3. ASSUME NEW c \in Clicks, GetToken(c) \/ SendWithoutToken(c) \/ GiveUp(c)
      PROVE  /\ UNCHANGED <<mode, callKind, callShown, callAnswer>>
             /\ callPc[c] = "token" /\ callPc' = [callPc EXCEPT ![c] = callPc'[c]]
             /\ callPc'[c] \in {"sent", "done"}
             /\ \A b \in Clicks \ {c} : callToken'[b] = callToken[b]
    BY <1>3 DEF GetToken, SendWithoutToken, GiveUp, callVars
<1>4. ASSUME NEW c \in Clicks,
             \/ ServeAccount(c) \/ ServeRegistration(c) \/ ServeCreate(c) \/ ServeList(c)
             \/ ServeNot(c)
      PROVE  /\ UNCHANGED <<mode, callKind, callShown, callToken>>
             /\ callPc[c] = "sent" /\ callPc' = [callPc EXCEPT ![c] = "served"]
             /\ \A b \in Clicks \ {c} : callAnswer'[b] = callAnswer[b]
    BY <1>4 DEF ServeAccount, ServeRegistration, ServeCreate, ServeList, ServeNot, Reply, callVars
<1>5. ASSUME NEW c \in Clicks,
             ShowOwner(c) \/ ShowCreated(c) \/ ShowList(c) \/ ShowFailure(c)
      PROVE  /\ UNCHANGED <<mode, callKind, callShown, callToken, callAnswer>>
             /\ callPc[c] = "served" /\ callPc' = [callPc EXCEPT ![c] = "done"]
    BY <1>5 DEF ShowOwner, ShowCreated, ShowList, ShowFailure, Arrive, callVars
<1>6. ASSUME Elsewhere \/ UNCHANGED vars
      PROVE  UNCHANGED <<mode, callKind, callShown, callToken, callAnswer, callPc>>
    BY <1>6 DEF Elsewhere, vars, callVars
<1> HIDE DEF Types
<1>7. DOMAIN callPc = Clicks
    BY DEF Types
<1>8. mode' = mode
    BY <1>1, <1>2, <1>3, <1>4, <1>5, <1>6 DEF Next
<1>9. ASSUME NEW b \in Clicks PROVE MovesForward(b)
    <2> USE DEF MovesForward
    <2>1. ASSUME NEW c \in Clicks, Restore(c) \/ OnRegister(c) \/ OnCreateVehicle(c) \/ OnRefresh(c)
          PROVE  MovesForward(b)
        <3>1. PICK kind, form : Begin(c, kind, form)
            BY <1>2, <2>1
        <3> QED BY <1>1, <1>7, <3>1
    <2>2. ASSUME NEW c \in Clicks, GetToken(c) \/ SendWithoutToken(c) \/ GiveUp(c)
          PROVE  MovesForward(b)
        BY <1>3, <1>7, <2>2
    <2>3. ASSUME NEW c \in Clicks,
                 \/ ServeAccount(c) \/ ServeRegistration(c) \/ ServeCreate(c) \/ ServeList(c)
                 \/ ServeNot(c)
          PROVE  MovesForward(b)
        BY <1>4, <1>7, <2>3
    <2>4. ASSUME NEW c \in Clicks,
                 ShowOwner(c) \/ ShowCreated(c) \/ ShowList(c) \/ ShowFailure(c)
          PROVE  MovesForward(b)
        BY <1>5, <1>7, <2>4
    <2>5. CASE Elsewhere \/ UNCHANGED vars
        BY <1>6, <2>5
    <2> QED BY <2>1, <2>2, <2>3, <2>4, <2>5 DEF Next
<1> QED BY <1>8, <1>9

\* The API adds one account, or one vehicle of an account, or nothing.
LEMMA DatabaseGrows ==
    ASSUME [Next]_vars
    PROVE  \/ UNCHANGED serverVars
           \/ \E c \in Clicks, id \in FreshUserIds(accounts) :
                 Enrol(c, id) /\ callPc[c] = "sent" /\ UNCHANGED mode
           \/ /\ \E v \in FreshVehicles : /\ fleet' = Append(fleet, v)
                                          /\ \E a \in accounts : a.id = v.ownerId
                                          /\ VinFree(ToSet(fleet), v.vin)
              /\ UNCHANGED <<accounts, mode>>
<1>1. ASSUME NEW c \in Clicks, NEW v \in FreshVehicles, Enlist(c, v)
      PROVE  /\ fleet' = Append(fleet, v)
             /\ \E a \in accounts : a.id = v.ownerId
             /\ VinFree(ToSet(fleet), v.vin)
             /\ UNCHANGED accounts
    BY <1>1 DEF Enlist, CallerIds, Callers
<1>2. ASSUME NEW c \in Clicks,
             \/ Restore(c) \/ OnRegister(c) \/ OnCreateVehicle(c) \/ OnRefresh(c)
             \/ GetToken(c) \/ SendWithoutToken(c) \/ GiveUp(c)
             \/ ServeAccount(c) \/ ServeList(c)
             \/ ShowOwner(c) \/ ShowCreated(c) \/ ShowList(c) \/ ShowFailure(c)
      PROVE  UNCHANGED serverVars
    BY <1>2 DEF Restore, OnRegister, OnCreateVehicle, OnRefresh, Begin, GetToken,
                SendWithoutToken, GiveUp, ServeAccount, ServeList, ShowOwner, ShowCreated,
                ShowList, ShowFailure, Arrive, serverVars
<1>3. ASSUME NEW c \in Clicks, ServeRegistration(c) \/ ServeCreate(c) \/ ServeNot(c)
      PROVE  /\ callPc[c] = "sent"
             /\ UNCHANGED mode
             /\ \/ UNCHANGED serverVars
                \/ \E id \in FreshUserIds(accounts) : Enrol(c, id)
                \/ \E v \in FreshVehicles : Enlist(c, v)
    BY <1>3 DEF ServeRegistration, ServeCreate, ServeNot, Reply
<1>4. CASE UNCHANGED vars
    BY <1>4 DEF vars, serverVars
<1>5. CASE Elsewhere
    BY <1>5 DEF Elsewhere
<1> QED BY <1>1, <1>2, <1>3, <1>4, <1>5 DEF Next
\* The accounts and the vehicles there are stay, and so do the accounts answered.
LEMMA NothingIsLost ==
    ASSUME Types, [Next]_vars
    PROVE  /\ accounts \subseteq accounts'
           /\ ToSet(fleet) \subseteq ToSet(fleet')
           /\ Registered \subseteq Registered'
<1>1. accounts \subseteq accounts'
    BY DatabaseGrows DEF Enrol, serverVars
<1>2. ToSet(fleet) \subseteq ToSet(fleet')
    <2>1. ASSUME NEW v, fleet' = Append(fleet, v) PROVE ToSet(fleet) \subseteq ToSet(fleet')
        BY <2>1 DEF Types, ToSet
    <2> QED BY <2>1, DatabaseGrows DEF Enrol, serverVars
<1>3. Registered \subseteq Registered'
    BY CallsMoveForward DEF Registered, MovesForward
<1> QED BY <1>1, <1>2, <1>3

\* The steps of a call: the click, the API's answer, and the tab's reaction.
Click(c) == Restore(c) \/ OnRegister(c) \/ OnCreateVehicle(c) \/ OnRefresh(c)
Ask(c) == GetToken(c) \/ SendWithoutToken(c) \/ GiveUp(c)
Serve(c) ==
    \/ ServeAccount(c) \/ ServeRegistration(c) \/ ServeCreate(c) \/ ServeList(c) \/ ServeNot(c)
Show(c) == ShowOwner(c) \/ ShowCreated(c) \/ ShowList(c) \/ ShowFailure(c)

LEMMA StepsOfACall ==
    ASSUME [Next]_vars
    PROVE  \/ \E c \in Clicks : Click(c) \/ Ask(c) \/ Serve(c) \/ Show(c)
           \/ Elsewhere \/ UNCHANGED vars
    BY DEF Next, Click, Ask, Serve, Show

\* Each moves its own call only.
LEMMA CallsMoveAlone ==
    ASSUME Types, NEW b \in Clicks
    PROVE  /\ Click(b) => callPc[b] = "idle" /\ callPc'[b] \in {"token", "sent"}
           /\ Ask(b) => callPc[b] = "token" /\ callPc'[b] \in {"sent", "done"}
           /\ Serve(b) => callPc[b] = "sent" /\ callPc'[b] = "served"
           /\ Show(b) => callPc[b] = "served" /\ callPc'[b] = "done"
           /\ Click(b) \/ Ask(b) \/ Serve(b) \/ Show(b) =>
                 \A c \in Clicks \ {b} : callPc'[c] = callPc[c]
<1> USE DEF Types
<1>1. ASSUME NEW kind, NEW form, Begin(b, kind, form)
      PROVE  /\ callPc[b] = "idle" /\ callPc'[b] \in {"token", "sent"}
             /\ \A c \in Clicks \ {b} : callPc'[c] = callPc[c]
    BY <1>1 DEF Begin
<1>2. ASSUME Click(b)
      PROVE  /\ callPc[b] = "idle" /\ callPc'[b] \in {"token", "sent"}
             /\ \A c \in Clicks \ {b} : callPc'[c] = callPc[c]
    BY <1>1, <1>2 DEF Click, Restore, OnRegister, OnCreateVehicle, OnRefresh
<1>3. ASSUME Ask(b)
      PROVE  /\ callPc[b] = "token" /\ callPc'[b] \in {"sent", "done"}
             /\ \A c \in Clicks \ {b} : callPc'[c] = callPc[c]
    BY <1>3 DEF Ask, GetToken, SendWithoutToken, GiveUp
<1>4. ASSUME Serve(b)
      PROVE  /\ callPc[b] = "sent" /\ callPc'[b] = "served"
             /\ \A c \in Clicks \ {b} : callPc'[c] = callPc[c]
    BY <1>4 DEF Serve, ServeAccount, ServeRegistration, ServeCreate, ServeList, ServeNot, Reply
<1>5. ASSUME Show(b)
      PROVE  /\ callPc[b] = "served" /\ callPc'[b] = "done"
             /\ \A c \in Clicks \ {b} : callPc'[c] = callPc[c]
    BY <1>5 DEF Show, ShowOwner, ShowCreated, ShowList, ShowFailure, Arrive
<1> HIDE DEF Types
<1> QED BY <1>2, <1>3, <1>4, <1>5

\* So how a call moved tells which step it was.
LEMMA StepOfTheCall ==
    ASSUME Types, [Next]_vars, NEW c \in Clicks, callPc'[c] # callPc[c]
    PROVE  /\ callPc[c] = "idle" => Click(c)
           /\ callPc'[c] = "served" => Serve(c)
           /\ callPc[c] = "served" => Show(c)
<1>1. CASE Elsewhere \/ UNCHANGED vars
    BY <1>1 DEF Elsewhere, vars
<1>2. ASSUME NEW b \in Clicks, Click(b) \/ Ask(b) \/ Serve(b) \/ Show(b)
      PROVE  b = c
    BY <1>2, CallsMoveAlone
<1>3. CASE Click(c) \/ Ask(c) \/ Serve(c) \/ Show(c)
    BY <1>3, CallsMoveAlone
<1> QED BY <1>1, <1>2, <1>3, StepsOfACall

\* Only answers change what is shown.
LEMMA OnlyAnswersShow ==
    ASSUME [Next]_vars
    PROVE  \/ UNCHANGED <<ownerId, list>>
           \/ \E c \in Clicks : ShowOwner(c) \/ ShowCreated(c) \/ ShowList(c)
<1>1. ASSUME NEW c \in Clicks, Click(c) PROVE UNCHANGED <<ownerId, list>>
    BY <1>1 DEF Click, Restore, OnRegister, OnCreateVehicle, OnRefresh, Begin
<1>2. ASSUME NEW c \in Clicks, Ask(c) PROVE UNCHANGED <<ownerId, list>>
    BY <1>2 DEF Ask, GetToken, SendWithoutToken, GiveUp
<1>3. ASSUME NEW c \in Clicks, Serve(c) PROVE UNCHANGED <<ownerId, list>>
    BY <1>3 DEF Serve, ServeAccount, ServeRegistration, ServeCreate, ServeList, ServeNot, Reply
<1>4. ASSUME NEW c \in Clicks, ShowFailure(c) PROVE UNCHANGED <<ownerId, list>>
    BY <1>4 DEF ShowFailure
<1>5. CASE Elsewhere \/ UNCHANGED vars
    BY <1>5 DEF Elsewhere, vars
<1> QED BY <1>1, <1>2, <1>3, <1>4, <1>5, StepsOfACall DEF Show

LEMMA FailedIsNotOk == Failed # Null /\ Failed.kind # "ok"
    BY NoAnswerAssumption DEF Failed, ServerError, Exception, ExceptionKind

\* What an answer says is so when it is given.
LEMMA AnswersAreSo ==
    ASSUME IInv, NEW c \in Clicks, Serve(c)
    PROVE  \/ callAnswer'[c] = Failed
           \/ /\ callKind[c] \in {"restore", "register"}
              /\ callAnswer'[c].value \in UserIds
              /\ callAnswer'[c] # Null
              /\ \E a \in accounts' : /\ a.id = callAnswer'[c].value
                                      /\ mode = "clerk" => a.login = Me
           \/ /\ callKind[c] = "create"
              /\ callAnswer'[c] # Null
              /\ \E v \in FreshVehicles : /\ callAnswer'[c].value = <<v>>
                                          /\ fleet' = Append(fleet, v)
                                          /\ v.ownerId \in CallerIds(c)
           \/ /\ callKind[c] = "refresh"
              /\ callAnswer'[c].value = Listing(c)
              /\ UNCHANGED <<serverVars, mode, callToken>>
<1>1. ASSUME NEW answer, Reply(c, answer) PROVE callAnswer'[c] = answer
    BY <1>1 DEF Reply, IInv, Types
<1>2. CASE ServeAccount(c)
    <2>1. PICK a \in Callers(c) : callAnswer'[c] = Ok(a.id)
        BY <1>1, <1>2 DEF ServeAccount
    <2>2. a \in accounts /\ (mode = "clerk" => a.login = Me) /\ a.id \in UserIds
        BY DEF Callers, IInv, Types
    <2>3. callKind[c] \in {"restore", "register"} /\ accounts' = accounts
        BY <1>2 DEF ServeAccount, serverVars
    <2> QED BY <2>1, <2>2, <2>3, AnswersAssumption DEF Ok
<1>3. CASE ServeRegistration(c)
    <2>1. PICK id \in FreshUserIds(accounts) : callAnswer'[c] = Ok(id) /\ Enrol(c, id)
        BY <1>1, <1>3 DEF ServeRegistration
    <2>2. id \in UserIds /\ callKind[c] = "register"
        BY <2>1 DEF FreshUserIds, Enrol
    <2>3. \E a \in accounts' : a.id = id /\ (mode = "clerk" => a.login = Me)
        <3> DEFINE account == [id |-> id, login |-> IF mode = "clerk" THEN Me ELSE Null,
                               email |-> callForm[c]]
        <3>1. account \in accounts'
            BY <2>1 DEF Enrol
        <3>2. account.id = id /\ (mode = "clerk" => account.login = Me)
            OBVIOUS
        <3> QED BY <3>1, <3>2
    <2> QED BY <2>1, <2>2, <2>3, AnswersAssumption DEF Ok
<1>4. CASE ServeCreate(c)
    <2>1. PICK v \in FreshVehicles : callAnswer'[c] = Ok(<<v>>) /\ Enlist(c, v)
        BY <1>1, <1>4 DEF ServeCreate
    <2>2. v \in Vehicles
        BY DEF FreshVehicles, FreshVehicleIds, Vehicles
    <2> QED BY <2>1, <2>2, AnswersAssumption DEF Ok, Enlist
<1>5. CASE ServeList(c)
    BY <1>1, <1>5 DEF ServeList, Reply, Ok
<1>6. CASE ServeNot(c)
    BY <1>1, <1>6 DEF ServeNot
<1> QED BY <1>2, <1>3, <1>4, <1>5, <1>6 DEF Serve

\* The accounts a call acts as: the owner's, once there is one.
LEMMA CallersAreRegistered ==
    ASSUME IInv, NEW c \in Clicks, ForOwner(c), callPc[c] \in {"sent", "served"}
    PROVE  CallerIds(c) \subseteq Registered
<1> SUFFICES ASSUME NEW a \in Callers(c) PROVE a.id \in Registered
    BY DEF CallerIds
<1>1. CASE mode = "dev"
    BY <1>1 DEF IInv, CallsInv, TokenInv, Callers
<1>2. CASE mode = "clerk"
    <2>1. a \in accounts /\ a.login = Me
        BY <1>2 DEF Callers
    <2>2. PICK b \in Clicks : GotAccount(b) /\ callAnswer[b].value \in Registered
        BY DEF IInv, CallsInv, TokenInv, Registered, GotAccount, Answered
    <2>3. PICK o \in accounts : o.id = callAnswer[b].value /\ o.login = Me
        BY <1>2, <2>2 DEF IInv, CallsInv, AnswerInv
    <2>4. a = o
        BY <1>2, <2>1, <2>3 DEF IInv, DatabaseInv
    <2> QED BY <2>2, <2>3, <2>4
<1> QED BY <1>1, <1>2 DEF IInv, Types
-----------------------------------------------------------------------------
(* Every step keeps every part of the invariant.                           *)

LEMMA TypesKept ==
    ASSUME IInv, [Next]_vars
    PROVE  Types'
<1> USE DEF IInv
<1>1. mode' \in {"clerk", "dev"}
    BY CallsMoveForward DEF Types
<1>2. \A a \in accounts' : a.id \in UserIds
    BY DatabaseGrows DEF Types, Enrol, FreshUserIds, serverVars
<1>3. fleet' \in Seq(Vehicles)
    <2>1. \A v \in FreshVehicles : v \in Vehicles
        BY DEF FreshVehicles, FreshVehicleIds, Vehicles
    <2>2. ASSUME NEW v \in Vehicles, fleet' = Append(fleet, v) PROVE fleet' \in Seq(Vehicles)
        BY <2>2 DEF Types
    <2>3. fleet' = fleet \/ \E v \in FreshVehicles : fleet' = Append(fleet, v)
        BY DatabaseGrows DEF Enrol, serverVars
    <2> QED BY <2>1, <2>2, <2>3 DEF Types
<1> DEFINE Rest ==
              /\ list' \in Seq(Vehicles) /\ ownerId' \in UserIds \cup {Null}
              /\ overlapped' \in BOOLEAN
              /\ callPc' \in [Clicks -> {"idle", "token", "sent", "served", "done"}]
              /\ DOMAIN callKind' = Clicks /\ DOMAIN callToken' = Clicks
              /\ DOMAIN callAnswer' = Clicks /\ DOMAIN callShown' = Clicks
<1>4. Rest
    <2> USE DEF Types
    <2>1. ASSUME NEW c \in Clicks, NEW kind, NEW form, Begin(c, kind, form) PROVE Rest
        BY <2>1 DEF Begin
    <2>2. ASSUME NEW c \in Clicks, Click(c)
          PROVE  Rest
        BY <2>1, <2>2 DEF Click, Restore, OnRegister, OnCreateVehicle, OnRefresh
    <2>3. ASSUME NEW c \in Clicks, Ask(c)
          PROVE  Rest
        BY <2>3 DEF Ask, GetToken, SendWithoutToken, GiveUp, callVars
    <2>4. ASSUME NEW c \in Clicks, Serve(c) PROVE Rest
        BY <2>4 DEF Serve, ServeAccount, ServeRegistration, ServeCreate, ServeList, ServeNot,
                    Reply, callVars
    <2>5. ASSUME NEW c \in Clicks, ShowOwner(c) PROVE Rest
        BY <2>5 DEF ShowOwner, Arrive, callVars, CallsInv, AnswerInv, GotAccount, Answered
    <2>6. ASSUME NEW c \in Clicks, ShowCreated(c) PROVE Rest
        BY <2>6 DEF ShowCreated, Arrive, callVars, CallsInv, AnswerInv, GotVehicle, Answered
    <2>7. ASSUME NEW c \in Clicks, ShowList(c) PROVE Rest
        BY <2>7 DEF ShowList, Arrive, callVars, CallsInv, AnswerInv, GotList
    <2>8. ASSUME NEW c \in Clicks, ShowFailure(c) PROVE Rest
        BY <2>8 DEF ShowFailure, callVars
    <2>9. CASE Elsewhere \/ UNCHANGED vars
        BY <2>9 DEF Elsewhere, vars, callVars
    <2> QED BY <2>2, <2>3, <2>4, <2>5, <2>6, <2>7, <2>8, <2>9, StepsOfACall DEF Show
<1> QED BY <1>1, <1>2, <1>3, <1>4 DEF Types

LEMMA DatabaseKept ==
    ASSUME IInv, [Next]_vars
    PROVE  DatabaseInv'
<1> USE DEF IInv, Types, DatabaseInv
<1>1. CASE UNCHANGED serverVars
    BY <1>1, CallsMoveForward DEF serverVars, ToSet
<1>2. ASSUME NEW c \in Clicks, NEW id \in FreshUserIds(accounts), Enrol(c, id), UNCHANGED mode
      PROVE  DatabaseInv'
    <2> DEFINE account == [id |-> id, login |-> IF mode = "clerk" THEN Me ELSE Null,
                           email |-> callForm[c]]
    <2>1. accounts' = accounts \cup {account} /\ fleet' = fleet /\ mode' = mode
        BY <1>2 DEF Enrol
    <2>2. account.id = id /\ \A a \in accounts : a.id # id
        BY DEF FreshUserIds
    <2>3. mode = "clerk" => \A a \in accounts : a.login # Me
        BY <1>2 DEF Enrol, Callers
    <2> HIDE DEF account
    <2>4. \A a, b \in accounts' :
             a.id = b.id \/ (mode' = "clerk" /\ a.login = Me /\ b.login = Me) => a = b
        BY <2>1, <2>2, <2>3
    <2>5. \A v \in ToSet(fleet') : \E a \in accounts' : a.id = v.ownerId
        BY <2>1
    <2> QED BY <2>1, <2>4, <2>5
<1>3. ASSUME NEW v \in FreshVehicles, fleet' = Append(fleet, v), \E a \in accounts : a.id = v.ownerId,
             VinFree(ToSet(fleet), v.vin), UNCHANGED <<accounts, mode>>
      PROVE  DatabaseInv'
    <2>1. v \notin ToSet(fleet)
        BY <1>3 DEF VinFree
    <2>2. /\ DOMAIN fleet' = 1..(Len(fleet) + 1) /\ DOMAIN fleet = 1..Len(fleet)
          /\ Len(fleet) \in Nat
          /\ \A i \in 1..Len(fleet) : fleet'[i] = fleet[i]
          /\ fleet'[Len(fleet) + 1] = v
        BY <1>3
    <2>3. ToSet(fleet') = ToSet(fleet) \cup {v}
        BY <2>2 DEF ToSet
    <2>4. \A i, j \in DOMAIN fleet' : fleet'[i] = fleet'[j] => i = j
        <3>1. \A i \in 1..Len(fleet) : fleet[i] # v
            BY <2>1, <2>2 DEF ToSet
        <3> SUFFICES ASSUME NEW i \in DOMAIN fleet', NEW j \in DOMAIN fleet', fleet'[i] = fleet'[j]
                     PROVE  i = j
            OBVIOUS
        <3>2. CASE i \in 1..Len(fleet) /\ j \in 1..Len(fleet)
            BY <2>2, <3>2
        <3>3. CASE i = Len(fleet) + 1 \/ j = Len(fleet) + 1
            BY <2>2, <3>1, <3>3
        <3> QED BY <2>2, <3>2, <3>3
    <2> QED BY <1>3, <2>3, <2>4
<1> HIDE DEF IInv, Types, DatabaseInv
<1> QED BY <1>1, <1>2, <1>3, DatabaseGrows
\* A click carries the owner shown, which is one answered to this tab.
LEMMA TokensKept ==
    ASSUME IInv, [Next]_vars
    PROVE  \A c \in Clicks : TokenInv(c)'
<1> USE DEF IInv
<1>1. Types /\ Types' /\ Registered \subseteq Registered' /\ mode' = mode
    BY TypesKept, NothingIsLost, CallsMoveForward
<1>2. \A c \in Clicks : TokenInv(c)
    BY DEF CallsInv
<1>3. ASSUME NEW c \in Clicks,
             UNCHANGED <<callPc[c], callKind[c], callToken[c]>>
      PROVE  TokenInv(c)'
    BY <1>1, <1>2, <1>3 DEF TokenInv, ForOwner
<1>4. ASSUME NEW c \in Clicks, NEW kind, NEW form, Begin(c, kind, form),
             kind = "restore" => mode = "clerk",
             kind \in {"create", "refresh"} => ownerId # Null
      PROVE  \A b \in Clicks : TokenInv(b)'
    <2>1. \A b \in Clicks \ {c} : UNCHANGED <<callPc[b], callKind[b], callToken[b]>>
        BY <1>4 DEF Begin
    <2>2. /\ callKind'[c] = kind /\ callPc'[c] = (IF mode = "clerk" THEN "token" ELSE "sent")
          /\ callToken'[c] = (IF mode = "dev" THEN ownerId ELSE Null)
        BY <1>1, <1>4 DEF Begin, Types
    <2>3. ownerId # Null => ownerId \in Registered
        BY DEF OwnerInv
    <2>4. mode \in {"clerk", "dev"}
        BY <1>1 DEF Types
    <2>5. TokenInv(c)'
        BY <1>1, <1>4, <2>2, <2>3, <2>4 DEF TokenInv, ForOwner
    <2> QED BY <1>3, <2>1, <2>5
<1>5. ASSUME NEW c \in Clicks, Click(c)
      PROVE  \A b \in Clicks : TokenInv(b)'
    <2> HIDE DEF IInv
    <2> QED BY <1>4, <1>5 DEF Click, Restore, OnRegister, OnCreateVehicle, OnRefresh
<1>6. ASSUME NEW c \in Clicks, Ask(c)
      PROVE  \A b \in Clicks : TokenInv(b)'
    <2>1. callKind' = callKind /\ \A b \in Clicks \ {c} : UNCHANGED <<callPc[b], callToken[b]>>
        BY <1>1, <1>6 DEF Ask, GetToken, SendWithoutToken, GiveUp, callVars, Types
    <2>2. /\ callPc[c] = "token" /\ callPc'[c] \in {"sent", "done"}
          /\ callToken'[c] \in {Me, callToken[c]}
          /\ callPc'[c] = "sent" => callToken'[c] = Me \/ callKind[c] = "register"
        BY <1>1, <1>6 DEF Ask, GetToken, SendWithoutToken, GiveUp, callVars, Types
    <2>3. mode = "dev" => callToken'[c] = callToken[c]
        BY <1>2, <2>2 DEF TokenInv
    <2>4. TokenInv(c)'
        BY <1>1, <1>2, <2>1, <2>2, <2>3 DEF TokenInv, ForOwner
    <2> QED BY <1>3, <2>1, <2>4
<1>7. ASSUME NEW c \in Clicks, Serve(c)
      PROVE  \A b \in Clicks : TokenInv(b)'
    <2>1. /\ callKind' = callKind /\ callToken' = callToken /\ callPc'[c] = "served"
          /\ callPc[c] = "sent" /\ \A b \in Clicks \ {c} : callPc'[b] = callPc[b]
        BY <1>1, <1>7 DEF Serve, ServeAccount, ServeRegistration, ServeCreate, ServeList,
                          ServeNot, Reply, callVars, Types
    <2>2. TokenInv(c)'
        BY <1>1, <1>2, <2>1 DEF TokenInv, ForOwner
    <2> QED BY <1>3, <2>1, <2>2
<1>8. ASSUME NEW c \in Clicks, Show(c)
      PROVE  \A b \in Clicks : TokenInv(b)'
    <2>1. /\ callKind' = callKind /\ callToken' = callToken /\ callPc'[c] = "done"
          /\ callPc[c] = "served" /\ \A b \in Clicks \ {c} : callPc'[b] = callPc[b]
        BY <1>1, <1>8 DEF Show, ShowOwner, ShowCreated, ShowList, ShowFailure, Arrive, callVars, Types
    <2>2. TokenInv(c)'
        BY <1>1, <1>2, <2>1 DEF TokenInv, ForOwner
    <2> QED BY <1>3, <2>1, <2>2
<1>9. CASE Elsewhere \/ UNCHANGED vars
    <2>1. UNCHANGED <<callPc, callKind, callToken>>
        BY <1>9 DEF Elsewhere, vars, callVars
    <2> QED BY <1>3, <2>1 DEF TokenInv, ForOwner
<1> HIDE DEF IInv
<1> QED BY <1>5, <1>6, <1>7, <1>8, <1>9, StepsOfACall
\* An answer stays true until it is shown, and after.
LEMMA AnswersKept ==
    ASSUME IInv, [Next]_vars, NEW c \in Clicks
    PROVE  AnswerInv(c)'
<1>1. /\ MovesForward(c) /\ mode' = mode /\ Types /\ AnswerInv(c)
      /\ accounts \subseteq accounts' /\ ToSet(fleet) \subseteq ToSet(fleet')
      /\ Registered \subseteq Registered'
    BY CallsMoveForward, NothingIsLost DEF IInv, CallsInv
<1>2. CASE callPc'[c] = callPc[c]
    BY <1>1, <1>2 DEF AnswerInv, MovesForward, GotAccount, GotVehicle, GotList, Answered
<1>3. CASE callPc'[c] # callPc[c] /\ callPc'[c] # "served"
    BY <1>1, <1>3 DEF AnswerInv, MovesForward, GotAccount, GotVehicle, GotList, Answered
<1>4. CASE callPc'[c] # callPc[c] /\ callPc'[c] = "served"
    <2>1. Serve(c)
        BY <1>1, <1>4, StepOfTheCall
    <2>2. callPc[c] = "sent" /\ callKind'[c] = callKind[c]
        BY <1>1, <1>4, <2>1, CallsMoveAlone DEF MovesForward
    <2> USE <1>4, <2>2
    <2>3. CASE callAnswer'[c] = Failed
        BY <2>3, FailedIsNotOk DEF AnswerInv, GotAccount, GotVehicle, GotList
    <2>4. CASE /\ callKind[c] \in {"restore", "register"}
               /\ callAnswer'[c].value \in UserIds
               /\ callAnswer'[c] # Null
               /\ \E a \in accounts' : /\ a.id = callAnswer'[c].value
                                       /\ mode = "clerk" => a.login = Me
        BY <1>1, <2>4 DEF AnswerInv, GotAccount, GotVehicle, GotList
    <2>5. CASE /\ callKind[c] = "create"
               /\ callAnswer'[c] # Null
               /\ \E v \in FreshVehicles : /\ callAnswer'[c].value = <<v>>
                                           /\ fleet' = Append(fleet, v)
                                           /\ v.ownerId \in CallerIds(c)
        <3>1. PICK v \in FreshVehicles : /\ callAnswer'[c].value = <<v>>
                                         /\ fleet' = Append(fleet, v)
                                         /\ v.ownerId \in CallerIds(c)
            BY <2>5
        <3>2. v \in Vehicles
            BY DEF FreshVehicles, FreshVehicleIds, Vehicles
        <3>3. v.ownerId \in Registered'
            BY <1>1, <2>5, <3>1, CallersAreRegistered DEF ForOwner
        <3>4. v \in ToSet(fleet')
            BY <1>1, <3>1, <3>2 DEF Types, ToSet
        <3>5. /\ callAnswer'[c].value \in Seq(Vehicles) /\ Len(callAnswer'[c].value) = 1
              /\ callAnswer'[c].value[1] = v
            BY <3>1, <3>2
        <3> QED BY <2>5, <3>3, <3>4, <3>5 DEF AnswerInv, GotAccount, GotVehicle, GotList
    <2>6. CASE /\ callKind[c] = "refresh"
               /\ callAnswer'[c].value = Listing(c)
               /\ UNCHANGED <<serverVars, mode, callToken>>
        <3>1. CallerIds(c) \subseteq Registered'
            BY <1>1, <2>6, CallersAreRegistered DEF ForOwner
        <3>2. /\ Listing(c) \in Seq(Vehicles)
              /\ \A v : v \in ToSet(Listing(c)) =>
                           v \in ToSet(fleet) /\ v.ownerId \in CallerIds(c)
            BY ListingIsExact DEF IInv, Types
        <3> QED BY <1>1, <2>6, <3>1, <3>2 DEF AnswerInv, GotAccount, GotVehicle, GotList
    <2> QED BY <2>1, <2>3, <2>4, <2>5, <2>6, AnswersAreSo
<1> QED BY <1>2, <1>3, <1>4
\* A refresh answers with what was shown at the click, and no later account takes
\* a vehicle of it over.
LEMMA ShownKept ==
    ASSUME IInv, [Next]_vars, NEW c \in Clicks
    PROVE  ShownInv(c)'
<1>1. /\ MovesForward(c) /\ mode' = mode /\ Types /\ ShownInv(c) /\ OwnerInv
      /\ DatabaseInv /\ DatabaseInv' /\ ToSet(fleet) \subseteq ToSet(fleet')
      /\ accounts \subseteq accounts'
    BY CallsMoveForward, NothingIsLost, DatabaseKept DEF IInv, CallsInv
<1>2. \A v \in callShown'[c] : v \in ToSet(fleet')
    <2>1. CASE callShown'[c] = callShown[c]
        BY <1>1, <2>1 DEF ShownInv
    <2>2. CASE callPc[c] = "idle" /\ callPc'[c] # "idle"
        <3>1. Click(c)
            BY <1>1, <2>2, StepOfTheCall
        <3>2. callShown'[c] = ToSet(list)
            BY <1>1, <3>1 DEF Click, Restore, OnRegister, OnCreateVehicle, OnRefresh, Begin, Types
        <3> QED BY <1>1, <3>2 DEF OwnerInv
    <2> QED BY <1>1, <2>1, <2>2 DEF MovesForward
<1>3. ASSUME GotList(c)', NEW v \in callShown'[c], v.ownerId \in CallerIds(c)'
      PROVE  v \in ToSet(callAnswer'[c].value)
    <2>1. callPc'[c] = "served" /\ callKind'[c] = "refresh" /\ callAnswer'[c].kind = "ok"
        BY <1>3 DEF GotList
    <2>2. CASE callPc[c] = "served"
        <3>1. UNCHANGED <<callKind[c], callShown[c], callToken[c], callAnswer[c]>>
            BY <1>1, <2>1, <2>2 DEF MovesForward
        <3>2. v \in callShown[c] /\ GotList(c)
            BY <1>3, <2>1, <2>2, <3>1 DEF GotList
        <3>3. PICK owner \in accounts : owner.id = v.ownerId
            BY <1>1, <3>2 DEF ShownInv, DatabaseInv
        <3>4. PICK a \in Callers(c)' : a.id = v.ownerId
            BY <1>3 DEF CallerIds
        <3>5. a \in accounts'
            BY DEF Callers
        <3>6. a = owner
            BY <1>1, <3>3, <3>4, <3>5 DEF DatabaseInv
        <3>7. a \in Callers(c)
            BY <1>1, <3>1, <3>3, <3>4, <3>6 DEF Callers
        <3>8. v.ownerId \in CallerIds(c)
            BY <3>4, <3>7 DEF CallerIds
        <3> QED BY <1>1, <3>1, <3>2, <3>8 DEF ShownInv
    <2>3. CASE callPc[c] # "served"
        <3>1. Serve(c) /\ callPc[c] = "sent"
            BY <1>1, <2>1, <2>3, StepOfTheCall, CallsMoveAlone
        <3>2. callKind[c] = "refresh" /\ v \in callShown[c]
            BY <1>1, <1>3, <2>1, <3>1 DEF MovesForward
        <3>3. callAnswer'[c].value = Listing(c) /\ UNCHANGED <<serverVars, mode, callToken>>
            BY <2>1, <3>1, <3>2, AnswersAreSo, FailedIsNotOk
        <3>4. v.ownerId \in CallerIds(c)
            BY <1>3, <3>3 DEF CallerIds, Callers, serverVars
        <3>5. v \in ToSet(fleet)
            BY <1>1, <3>2 DEF ShownInv
        <3> QED BY <1>1, <3>3, <3>4, <3>5, ListingIsExact DEF Types
    <2> QED BY <2>2, <2>3
<1> QED BY <1>2, <1>3 DEF ShownInv

\* An account becomes known by being shown.
LEMMA RegisteredGrowsBy ==
    ASSUME IInv, [Next]_vars, NEW id \in Registered', id \notin Registered
    PROVE  \E c \in Clicks : ShowOwner(c) /\ id = callAnswer[c].value /\ id = ownerId'
<1>1. PICK c \in Clicks : /\ callKind'[c] \in {"restore", "register"} /\ callPc'[c] = "done"
                          /\ callAnswer'[c] # Null /\ callAnswer'[c].kind = "ok"
                          /\ id = callAnswer'[c].value
    BY DEF Registered
<1>2. MovesForward(c) /\ Types /\ AnswerInv(c)
    BY CallsMoveForward DEF IInv, CallsInv
<1>3. callPc[c] # "done"
    BY <1>1, <1>2 DEF MovesForward, Registered
<1>4. callPc[c] = "served" /\ UNCHANGED <<callKind[c], callAnswer[c]>>
    BY <1>1, <1>2, <1>3 DEF MovesForward, AnswerInv
<1>5. Show(c)
    BY <1>1, <1>2, <1>4, StepOfTheCall
<1>6. ShowOwner(c)
    BY <1>1, <1>4, <1>5 DEF Show, ShowCreated, ShowList, ShowFailure, Arrive
<1> QED BY <1>1, <1>4, <1>6 DEF ShowOwner

LEMMA OwnerKept ==
    ASSUME IInv, [Next]_vars
    PROVE  OwnerInv'
<1>1. /\ Types /\ OwnerInv /\ ToSet(fleet) \subseteq ToSet(fleet')
      /\ Registered \subseteq Registered' /\ \A c \in Clicks : AnswerInv(c)
    BY NothingIsLost DEF IInv, CallsInv
<1>2. ASSUME NEW c \in Clicks, ShowOwner(c)
      PROVE  ownerId' \in Registered' /\ ownerId' # Null /\ list' = list
    <2>1. /\ callPc[c] = "served" /\ callPc'[c] = "done" /\ callKind[c] \in {"restore", "register"}
          /\ callAnswer[c].kind = "ok" /\ UNCHANGED <<callKind, callAnswer, list>>
          /\ ownerId' = callAnswer[c].value
        BY <1>1, <1>2 DEF ShowOwner, Arrive, callVars, Types
    <2>2. callAnswer[c] # Null /\ callAnswer[c].value \in UserIds
        BY <1>1, <2>1 DEF AnswerInv, GotAccount, Answered
    <2>3. ownerId' \in Registered'
        BY <2>1, <2>2 DEF Registered
    <2> QED BY <2>1, <2>2, <2>3, NullAssumption
<1>3. ASSUME NEW c \in Clicks, ShowCreated(c)
      PROVE  /\ ownerId' = ownerId
             /\ \A v \in ToSet(list') : v \in ToSet(fleet) /\ v.ownerId \in Registered
    <2>1. /\ callPc[c] = "served" /\ callKind[c] = "create" /\ callAnswer[c].kind = "ok"
          /\ ownerId' = ownerId /\ list' = callAnswer[c].value \o list
        BY <1>3 DEF ShowCreated, Arrive
    <2>2. /\ callAnswer[c].value \in Seq(Vehicles) /\ Len(callAnswer[c].value) = 1
          /\ callAnswer[c].value[1] \in ToSet(fleet)
          /\ callAnswer[c].value[1].ownerId \in Registered
        BY <1>1, <2>1 DEF AnswerInv, GotVehicle, Answered
    <2>3. \A v \in ToSet(list') : v = callAnswer[c].value[1] \/ v \in ToSet(list)
        BY <1>1, <2>1, <2>2 DEF Types, ToSet
    <2> QED BY <1>1, <2>1, <2>2, <2>3 DEF OwnerInv
<1>4. ASSUME NEW c \in Clicks, ShowList(c)
      PROVE  /\ ownerId' = ownerId
             /\ \A v \in ToSet(list') : v \in ToSet(fleet) /\ v.ownerId \in Registered
    BY <1>1, <1>4 DEF ShowList, Arrive, AnswerInv, GotList
<1>5. ownerId' # Null => ownerId' \in Registered'
    BY <1>1, <1>2, <1>3, <1>4, OnlyAnswersShow DEF OwnerInv
<1>6. Registered' # {} => ownerId' # Null
    <2>1. CASE Registered # {}
        BY <1>1, <1>2, <1>3, <1>4, <2>1, OnlyAnswersShow DEF OwnerInv
    <2>2. CASE Registered = {}
        BY <1>2, <2>2, RegisteredGrowsBy
    <2> QED BY <2>1, <2>2
<1>7. \A v \in ToSet(list') : v \in ToSet(fleet') /\ v.ownerId \in Registered'
    BY <1>1, <1>2, <1>3, <1>4, OnlyAnswersShow DEF OwnerInv
<1> QED BY <1>5, <1>6, <1>7 DEF OwnerInv
-----------------------------------------------------------------------------
(* Waiting for each answer.                                                *)

\* Whoever did not overlap calls had not done so before.
LEMMA OverlapsStay ==
    ASSUME Types, [Next]_vars, ~overlapped'
    PROVE  /\ ~overlapped
           /\ \A c, d \in Clicks : Click(c) => ~InFlight(d)
<1>1. ASSUME NEW c \in Clicks, Click(c)
      PROVE  overlapped' = (overlapped \/ \E b \in Clicks : InFlight(b))
    BY <1>1 DEF Click, Restore, OnRegister, OnCreateVehicle, OnRefresh, Begin
<1>2. ASSUME NEW c \in Clicks, Ask(c) \/ Serve(c) \/ Show(c)
      PROVE  overlapped' = overlapped
    BY <1>2 DEF Ask, GetToken, SendWithoutToken, GiveUp, Serve, ServeAccount, ServeRegistration,
                ServeCreate, ServeList, ServeNot, Reply, Show, ShowOwner, ShowCreated, ShowList,
                ShowFailure, Arrive, callVars
<1>3. ASSUME Elsewhere \/ UNCHANGED vars
      PROVE  overlapped' = overlapped
    BY <1>3 DEF Elsewhere, vars, callVars
<1>4. ASSUME NEW c \in Clicks, Click(c)
      PROVE  ~overlapped /\ \A b \in Clicks : ~InFlight(b)
    <2>1. ~(overlapped \/ \E b \in Clicks : InFlight(b))
        BY <1>1, <1>4, Zenon
    <2> QED BY <2>1
<1>5. ~overlapped
    BY <1>2, <1>3, <1>4, StepsOfACall, Zenon
<1> QED BY <1>4, <1>5

LEMMA AloneKept ==
    ASSUME IInv, [Next]_vars, ~overlapped'
    PROVE  AloneInv'
<1>1. /\ Types /\ AloneInv /\ OwnerInv /\ \A c \in Clicks : TokenInv(c) /\ AnswerInv(c)
      /\ mode' = mode /\ \A c \in Clicks : MovesForward(c)
      /\ \A c, d \in Clicks : Click(c) => ~InFlight(d)
      /\ DatabaseInv
    BY OverlapsStay, CallsMoveForward DEF IInv, CallsInv, SequentialInv
<1>2. ASSUME NEW c \in Clicks, InFlight(c)'
      PROVE  InFlight(c) \/ Click(c)
    <2>1. CASE callPc'[c] = callPc[c]
        BY <1>2, <2>1 DEF InFlight
    <2>2. CASE callPc'[c] # callPc[c] /\ callPc[c] = "idle"
        BY <1>1, <2>2, StepOfTheCall
    <2>3. CASE callPc'[c] # callPc[c] /\ callPc[c] # "idle"
        BY <1>1, <1>2, <2>3 DEF InFlight, MovesForward
    <2> QED BY <2>1, <2>2, <2>3
<1>3. \A c, d \in Clicks : InFlight(c)' /\ InFlight(d)' => c = d
    <2>1. SUFFICES ASSUME NEW c \in Clicks, NEW d \in Clicks, InFlight(c)', InFlight(d)', c # d
                   PROVE  FALSE
        OBVIOUS
    <2>2. CASE Click(c)
        <3>1. ~InFlight(d) /\ callPc'[d] = callPc[d]
            BY <1>1, <2>1, <2>2, CallsMoveAlone
        <3> QED BY <2>1, <3>1 DEF InFlight
    <2>3. CASE Click(d)
        <3>1. ~InFlight(c) /\ callPc'[c] = callPc[c]
            BY <1>1, <2>1, <2>3, CallsMoveAlone
        <3> QED BY <2>1, <3>1 DEF InFlight
    <2>4. CASE InFlight(c) /\ InFlight(d)
        BY <1>1, <2>1, <2>4 DEF AloneInv
    <2> QED BY <1>2, <2>1, <2>2, <2>3, <2>4
<1>4. ASSUME NEW c \in Clicks, InFlight(c)', callKind'[c] = "register"
      PROVE  ownerId' = Null
    <2>1. CASE Click(c)
        <3>1. callPc[c] = "idle" /\ \A kind, form : Begin(c, kind, form) => callKind'[c] = kind
            BY <1>1, <2>1, CallsMoveAlone DEF Begin, Types
        <3> QED BY <1>4, <2>1, <3>1
                DEF Click, Restore, OnRegister, OnCreateVehicle, OnRefresh, Begin
    <2>2. CASE InFlight(c)
        <3>1. ownerId = Null
            BY <1>1, <1>4, <2>2 DEF AloneInv, MovesForward, InFlight
        <3>2. ASSUME NEW b \in Clicks, ShowOwner(b) PROVE FALSE
            <4>1. callPc[b] = "served" /\ callPc'[b] = "done"
                BY <1>1, <3>2, CallsMoveAlone DEF Show
            <4>2. b = c
                BY <1>1, <2>2, <4>1 DEF AloneInv, InFlight
            <4> QED BY <1>4, <4>1, <4>2 DEF InFlight
        <3>3. ownerId' = ownerId
            BY <3>2, OnlyAnswersShow DEF ShowCreated, ShowList
        <3> QED BY <3>1, <3>3
    <2> QED BY <1>2, <1>4, <2>1, <2>2
<1>5. Registered' \subseteq {ownerId'}
    <2>1. ASSUME NEW c \in Clicks, ShowOwner(c)
          PROVE  Registered \subseteq {ownerId'}
        <3>1. /\ callPc[c] = "served" /\ callKind[c] \in {"restore", "register"}
              /\ callAnswer[c].kind = "ok" /\ ownerId' = callAnswer[c].value
            BY <2>1 DEF ShowOwner, Arrive
        <3>2. GotAccount(c)
            BY <1>1, <3>1 DEF AnswerInv, GotAccount, Answered
        <3>3. CASE mode = "dev"
            <4>1. callKind[c] = "register" /\ InFlight(c)
                BY <1>1, <3>1, <3>3 DEF TokenInv, InFlight
            <4> QED BY <1>1, <4>1 DEF AloneInv, OwnerInv
        <3>4. CASE mode = "clerk"
            <4> SUFFICES ASSUME NEW id \in Registered PROVE id = ownerId'
                OBVIOUS
            <4>1. PICK b \in Clicks : GotAccount(b) /\ callAnswer[b].value = id
                BY DEF Registered, GotAccount, Answered
            <4>2. PICK a \in accounts : a.id = id /\ a.login = Me
                BY <1>1, <3>4, <4>1 DEF AnswerInv
            <4>3. PICK o \in accounts : o.id = ownerId' /\ o.login = Me
                BY <1>1, <3>1, <3>2, <3>4 DEF AnswerInv
            <4> QED BY <1>1, <3>4, <4>2, <4>3 DEF DatabaseInv
        <3> QED BY <1>1, <3>3, <3>4 DEF Types
    <2>2. CASE \E c \in Clicks : ShowOwner(c)
        BY <2>1, <2>2, RegisteredGrowsBy
    <2>3. CASE ~\E c \in Clicks : ShowOwner(c)
        <3>1. ownerId' = ownerId
            BY <2>3, OnlyAnswersShow DEF ShowCreated, ShowList
        <3> QED BY <1>1, <2>3, <3>1, RegisteredGrowsBy DEF AloneInv
    <2> QED BY <2>2, <2>3
<1> QED BY <1>3, <1>4, <1>5 DEF AloneInv
\* A sequence that repeats nothing is as long as it has elements.
LEMMA DistinctIsExact ==
    ASSUME NEW S, NEW seq \in Seq(S), Distinct(seq)
    PROVE  Cardinality(ToSet(seq)) = Len(seq)
<1>1. Len(seq) \in Nat /\ DOMAIN seq = 1..Len(seq)
    OBVIOUS
<1>2. seq \in Bijection(1..Len(seq), ToSet(seq))
    <2>1. seq \in [1..Len(seq) -> ToSet(seq)]
        BY <1>1 DEF ToSet
    <2>2. seq \in Injection(1..Len(seq), ToSet(seq))
        BY <1>1, <2>1 DEF Distinct, Injection, IsInjective
    <2>3. seq \in Surjection(1..Len(seq), ToSet(seq))
        BY <1>1, <2>1 DEF Surjection, ToSet
    <2> QED BY <2>2, <2>3 DEF Bijection
<1>3. ExistsBijection(1..Len(seq), ToSet(seq))
    BY <1>2 DEF ExistsBijection
<1>4. IsFiniteSet(1..Len(seq)) /\ Cardinality(1..Len(seq)) = Len(seq)
    BY <1>1, FS_Interval
<1> QED BY <1>3, <1>4, FS_Bijection

\* A created vehicle shown on top of a list it is not in.
LEMMA Prepended ==
    ASSUME NEW S, NEW one \in Seq(S), NEW seq \in Seq(S), Len(one) = 1
    PROVE  /\ ToSet(one \o seq) = ToSet(seq) \cup {one[1]}
           /\ Distinct(seq) /\ one[1] \notin ToSet(seq) => Distinct(one \o seq)
<1>1. /\ Len(seq) \in Nat /\ DOMAIN seq = 1..Len(seq)
      /\ DOMAIN (one \o seq) = 1..(Len(seq) + 1)
      /\ (one \o seq)[1] = one[1]
      /\ \A i \in 2..(Len(seq) + 1) : (one \o seq)[i] = seq[i - 1] /\ i - 1 \in 1..Len(seq)
      /\ \A i \in 1..Len(seq) : (one \o seq)[i + 1] = seq[i] /\ i + 1 \in 2..(Len(seq) + 1)
    <2>1. Len(seq) \in Nat /\ DOMAIN seq = 1..Len(seq)
        OBVIOUS
    <2>2. /\ one \o seq \in Seq(S) /\ Len(one \o seq) = Len(seq) + 1
          /\ \A i \in 1..(Len(seq) + 1) :
                (one \o seq)[i] = IF i <= 1 THEN one[i] ELSE seq[i - 1]
        <3>1. /\ one \o seq \in Seq(S) /\ Len(one \o seq) = Len(one) + Len(seq)
              /\ \A i \in 1..(Len(one) + Len(seq)) :
                    (one \o seq)[i] = IF i <= Len(one) THEN one[i] ELSE seq[i - Len(one)]
            BY ConcatProperties
        <3>2. Len(one) + Len(seq) = Len(seq) + 1
            BY <2>1
        <3> QED BY <3>1, <3>2
    <2> DEFINE both == one \o seq
    <2> HIDE DEF both
    <2>3. DOMAIN both = 1..(Len(seq) + 1)
        BY <2>1, <2>2 DEF both
    <2>4. both[1] = one[1]
        BY <2>1, <2>2 DEF both
    <2>5. ASSUME NEW i \in 2..(Len(seq) + 1)
          PROVE  both[i] = seq[i - 1] /\ i - 1 \in 1..Len(seq)
        BY <2>1, <2>2 DEF both
    <2>6. ASSUME NEW i \in 1..Len(seq)
          PROVE  both[i + 1] = seq[i] /\ i + 1 \in 2..(Len(seq) + 1)
        <3>1. i + 1 \in 2..(Len(seq) + 1) /\ (i + 1) - 1 = i
            BY <2>1
        <3> QED BY <2>5, <3>1
    <2> QED BY <2>1, <2>3, <2>4, <2>5, <2>6 DEF both
<1> DEFINE both == one \o seq
<1> HIDE DEF both
<1>2. ToSet(both) = ToSet(seq) \cup {one[1]}
    <2>1. \A v \in ToSet(both) : v \in ToSet(seq) \cup {one[1]}
        <3> SUFFICES ASSUME NEW i \in DOMAIN both PROVE both[i] \in ToSet(seq) \cup {one[1]}
            BY DEF ToSet
        <3>1. CASE i = 1
            BY <1>1, <3>1 DEF both
        <3>2. CASE i \in 2..(Len(seq) + 1)
            BY <1>1, <3>2 DEF both, ToSet
        <3> QED BY <1>1, <3>1, <3>2 DEF both
    <2>2. one[1] \in ToSet(both)
        <3>1. 1 \in DOMAIN both
            BY <1>1 DEF both
        <3> QED BY <1>1, <3>1 DEF both, ToSet
    <2>3. \A v \in ToSet(seq) : v \in ToSet(both)
        <3> SUFFICES ASSUME NEW i \in DOMAIN seq PROVE seq[i] \in ToSet(both)
            BY DEF ToSet
        <3>1. i + 1 \in DOMAIN both /\ both[i + 1] = seq[i]
            BY <1>1 DEF both
        <3> QED BY <3>1 DEF ToSet
    <2> QED BY <2>1, <2>2, <2>3
<1>3. ASSUME Distinct(seq), one[1] \notin ToSet(seq)
      PROVE  Distinct(both)
    <2> SUFFICES ASSUME NEW i \in DOMAIN both, NEW j \in DOMAIN both, both[i] = both[j]
                 PROVE  i = j
        BY DEF Distinct
    <2>1. \A k \in 2..(Len(seq) + 1) : both[k] # one[1]
        BY <1>1, <1>3 DEF both, ToSet
    <2>2. i \in 1..(Len(seq) + 1) /\ j \in 1..(Len(seq) + 1) /\ both[1] = one[1]
        BY <1>1 DEF both
    <2>3. CASE i \in 2..(Len(seq) + 1) /\ j \in 2..(Len(seq) + 1)
        BY <1>1, <1>3, <2>3 DEF both, Distinct
    <2>4. CASE i = 1 \/ j = 1
        BY <1>1, <2>1, <2>2, <2>4
    <2> QED BY <1>1, <2>2, <2>3, <2>4
<1> QED BY <1>2, <1>3 DEF both

LEMMA SequentialKept ==
    ASSUME IInv, [Next]_vars
    PROVE  SequentialInv'
<1> SUFFICES ASSUME ~overlapped'
             PROVE  AloneInv' /\ Distinct(list') /\ \A c \in Clicks : ExactInv(c)'
    BY DEF SequentialInv
<1>1. /\ Types /\ DatabaseInv /\ OwnerInv /\ AloneInv /\ Distinct(list)
      /\ \A c \in Clicks : TokenInv(c) /\ AnswerInv(c) /\ ExactInv(c) /\ MovesForward(c)
    BY OverlapsStay, CallsMoveForward DEF IInv, CallsInv, SequentialInv
<1>2. AloneInv'
    BY AloneKept
\* What an answer being shown does to the list.
<1>3. ASSUME NEW c \in Clicks, ShowCreated(c)
      PROVE  /\ GotVehicle(c) /\ callPc[c] = "served" /\ Distinct(list')
             /\ ToSet(list') = ToSet(list) \cup {callAnswer[c].value[1]}
    <2>1. /\ callPc[c] = "served" /\ callKind[c] = "create" /\ callAnswer[c].kind = "ok"
          /\ list' = callAnswer[c].value \o list
        BY <1>3 DEF ShowCreated, Arrive
    <2>2. GotVehicle(c)
        BY <1>1, <2>1 DEF AnswerInv, GotVehicle, Answered
    <2>3. /\ callAnswer[c].value \in Seq(Vehicles) /\ Len(callAnswer[c].value) = 1
          /\ callAnswer[c].value[1] \notin ToSet(list) /\ list \in Seq(Vehicles)
        BY <1>1, <2>1, <2>2 DEF AnswerInv, ExactInv, Types
    <2> QED BY <1>1, <2>1, <2>2, <2>3, Prepended
<1>4. ASSUME NEW c \in Clicks, ShowList(c)
      PROVE  GotList(c) /\ callPc[c] = "served" /\ list' = callAnswer[c].value
    BY <1>4 DEF ShowList, Arrive, GotList
<1>5. UNCHANGED list \/ \E c \in Clicks : ShowCreated(c) \/ ShowList(c)
    BY OnlyAnswersShow DEF ShowOwner
<1>6. Distinct(list')
    BY <1>1, <1>3, <1>4, <1>5 DEF ExactInv, Distinct
<1>7. ASSUME NEW c \in Clicks, GotVehicle(c)', callPc'[c] = "done"
      PROVE  callAnswer'[c].value[1] \in ToSet(list')
    <2>1. CASE callPc[c] = "done"
        <3>1. GotVehicle(c) /\ callAnswer'[c] = callAnswer[c]
            BY <1>1, <1>7, <2>1 DEF MovesForward, GotVehicle, Answered
        <3>2. callAnswer[c].value[1] \in ToSet(list)
            BY <1>1, <2>1, <3>1 DEF ExactInv
        <3>3. ASSUME NEW b \in Clicks, ShowList(b) PROVE callAnswer[c].value[1] \in ToSet(list')
            BY <1>1, <1>4, <2>1, <3>1, <3>3 DEF ExactInv
        <3> QED BY <1>3, <1>5, <3>1, <3>2, <3>3
    <2>2. CASE callPc[c] # "done"
        <3>1. callPc[c] = "served" /\ UNCHANGED <<callKind[c], callAnswer[c]>>
            BY <1>1, <1>7, <2>2 DEF MovesForward, AnswerInv, GotVehicle, Answered
        <3>2. Show(c)
            BY <1>1, <1>7, <3>1, StepOfTheCall
        <3>3. ShowCreated(c)
            BY <1>7, <3>1, <3>2
               DEF Show, ShowOwner, ShowList, ShowFailure, Arrive, GotVehicle
        <3> QED BY <1>3, <3>1, <3>3
    <2> QED BY <2>1, <2>2
<1>8. ASSUME NEW c \in Clicks, GotVehicle(c)', callPc'[c] = "served"
      PROVE  callAnswer'[c].value[1] \notin ToSet(list')
    <2>1. CASE callPc[c] = "served"
        <3>1. GotVehicle(c) /\ callAnswer'[c] = callAnswer[c]
            BY <1>1, <1>8, <2>1 DEF MovesForward, GotVehicle, Answered
        <3>2. list' = list
            <4>1. ASSUME NEW b \in Clicks, ShowCreated(b) \/ ShowList(b) PROVE FALSE
                <5>1. callPc[b] = "served" /\ callPc'[b] = "done"
                    BY <1>1, <4>1, CallsMoveAlone DEF Show
                <5> QED BY <1>1, <1>8, <2>1, <5>1 DEF AloneInv, InFlight
            <4> QED BY <1>5, <4>1
        <3> QED BY <1>1, <2>1, <3>1, <3>2 DEF ExactInv
    <2>2. CASE callPc[c] # "served"
        <3>1. Serve(c) /\ callPc[c] = "sent"
            BY <1>1, <1>8, <2>2, StepOfTheCall, CallsMoveAlone
        <3>2. callKind[c] = "create" /\ callAnswer'[c].kind = "ok"
            BY <1>1, <1>8, <3>1 DEF GotVehicle, MovesForward
        <3>3. PICK v \in FreshVehicles : callAnswer'[c].value = <<v>>
            BY <3>1, <3>2, AnswersAreSo, FailedIsNotOk
        <3>4. v \notin ToSet(fleet)
            BY DEF FreshVehicles, FreshVehicleIds
        <3>5. list' = list
            BY <3>1 DEF Serve, ServeAccount, ServeRegistration, ServeCreate, ServeList, ServeNot,
                        Reply
        <3> QED BY <1>1, <3>3, <3>4, <3>5 DEF OwnerInv
    <2> QED BY <2>1, <2>2
<1>9. ASSUME NEW c \in Clicks, GotList(c)'
      PROVE  /\ Distinct(callAnswer'[c].value)
             /\ \A d \in Clicks : GotVehicle(d)' /\ callPc'[d] = "done" =>
                   callAnswer'[d].value[1] \in ToSet(callAnswer'[c].value)
    <2>1. callPc'[c] = "served" /\ callKind'[c] = "refresh" /\ callAnswer'[c].kind = "ok"
        BY <1>9 DEF GotList
    \* No other call can have come to its end meanwhile.
    <2>2. callPc[c] \in {"sent", "served"} /\ callKind[c] = "refresh"
        BY <1>1, <2>1 DEF MovesForward
    <2>3. ASSUME NEW d \in Clicks, GotVehicle(d)', callPc'[d] = "done"
          PROVE  GotVehicle(d) /\ callPc[d] = "done" /\ callAnswer'[d] = callAnswer[d]
        <3>1. callPc[d] # "served"
            BY <1>1, <2>1, <2>2, <2>3 DEF AloneInv, InFlight
        <3>2. callPc[d] = "done"
            BY <1>1, <2>3, <3>1 DEF MovesForward, AnswerInv, GotVehicle, Answered
        <3> QED BY <1>1, <2>3, <3>2 DEF MovesForward, GotVehicle, Answered
    <2>4. CASE callPc[c] = "served"
        <3>1. GotList(c) /\ callAnswer'[c] = callAnswer[c]
            BY <1>1, <2>1, <2>4 DEF MovesForward, GotList
        <3> QED BY <1>1, <2>3, <3>1 DEF ExactInv
    <2>5. CASE callPc[c] = "sent"
        <3>1. Serve(c)
            BY <1>1, <2>1, <2>5, StepOfTheCall
        <3>2. callAnswer'[c].value = Listing(c)
            BY <2>1, <2>2, <3>1, AnswersAreSo, FailedIsNotOk
        <3>3. /\ Distinct(Listing(c))
              /\ \A v : v \in ToSet(fleet) /\ v.ownerId \in CallerIds(c) => v \in ToSet(Listing(c))
            BY <1>1, ListingIsExact DEF Types
        <3>4. Registered = {ownerId} /\ ownerId \in CallerIds(c)
            <4>1. ForOwner(c)
                BY <2>2, <2>5 DEF ForOwner
            <4>2. Registered = {ownerId}
                BY <1>1, <4>1 DEF TokenInv, AloneInv
            <4>3. PICK b \in Clicks : GotAccount(b) /\ callAnswer[b].value = ownerId
                BY <4>2 DEF Registered, GotAccount, Answered
            <4>4. PICK a \in accounts : a.id = ownerId /\ (mode = "clerk" => a.login = Me)
                BY <1>1, <4>3 DEF AnswerInv
            <4>5. a \in Callers(c)
                BY <1>1, <2>5, <4>1, <4>2, <4>4 DEF TokenInv, Callers, Types
            <4> QED BY <4>2, <4>4, <4>5 DEF CallerIds
        <3>5. ASSUME NEW d \in Clicks, GotVehicle(d)', callPc'[d] = "done"
              PROVE  callAnswer'[d].value[1] \in ToSet(Listing(c))
            BY <1>1, <2>3, <3>3, <3>4, <3>5 DEF AnswerInv
        <3> QED BY <3>2, <3>3, <3>5
    <2> QED BY <2>2, <2>4, <2>5
<1> QED BY <1>2, <1>6, <1>7, <1>8, <1>9 DEF ExactInv
-----------------------------------------------------------------------------
(* The theorems.                                                           *)

LEMMA InitIsInvariant ==
    ASSUME Init
    PROVE  IInv
<1> USE DEF Init
<1>1. Types
    <2>1. \A a \in accounts : a.id \in UserIds
        <3>1. CASE accounts = {}
            BY <3>1
        <3>2. ASSUME NEW id \in UserIds, NEW email, NEW login,
                     accounts = {[id |-> id, login |-> IF mode = "clerk" THEN login ELSE Null,
                                  email |-> email]}
              PROVE  \A a \in accounts : a.id \in UserIds
            BY <3>2
        <3> QED BY <3>1, <3>2
    <2>2. fleet \in Seq(Vehicles) /\ list \in Seq(Vehicles)
        OBVIOUS
    <2>3. overlapped \in BOOLEAN
        OBVIOUS
    <2>4. mode \in {"clerk", "dev"} /\ ownerId = Null
        OBVIOUS
    <2>5. /\ callPc = [c \in Clicks |-> "idle"] /\ callKind = [c \in Clicks |-> Null]
          /\ callToken = [c \in Clicks |-> Null] /\ callAnswer = [c \in Clicks |-> Null]
          /\ callShown = [c \in Clicks |-> {}]
        OBVIOUS
    <2> HIDE DEF Init
    <2> QED BY <2>1, <2>2, <2>3, <2>4, <2>5 DEF Types
<1>2. Registered = {} /\ \A c \in Clicks : callPc[c] = "idle"
    BY DEF Registered
<1>3. DatabaseInv
    <2>1. \A a, b \in accounts : a = b
        OBVIOUS
    <2>2. ToSet(fleet) = {} /\ DOMAIN fleet = {}
        BY DEF ToSet
    <2> QED BY <2>1, <2>2 DEF DatabaseInv
<1>4. CallsInv
    BY <1>2 DEF CallsInv, TokenInv, AnswerInv, ShownInv, ForOwner, GotAccount, GotVehicle, GotList,
               Answered
<1>5. ToSet(list) = {} /\ Distinct(list)
    BY DEF ToSet, Distinct
<1>6. OwnerInv
    BY <1>2, <1>5 DEF OwnerInv
<1>7. SequentialInv
    BY <1>2, <1>5 DEF SequentialInv, AloneInv, ExactInv, InFlight, GotVehicle, GotList, Answered
<1> QED BY <1>1, <1>3, <1>4, <1>6, <1>7 DEF IInv

THEOREM Inductive == Spec => []IInv
<1>1. ASSUME IInv, [Next]_vars PROVE IInv'
    <2>1. CallsInv'
        BY <1>1, TokensKept, AnswersKept, ShownKept DEF CallsInv
    <2> QED BY <1>1, <2>1, TypesKept, DatabaseKept, OwnerKept, SequentialKept DEF IInv
<1> QED BY <1>1, InitIsInvariant, PTL DEF Spec

\* Whatever overlaps and overtakes, a tab shows the accounts it was given and their
\* vehicles; with Clerk, the login's one account.
THEOREM TabShowsItsOwner == Spec => []ShowsOnlyMine
<1>1. ASSUME IInv PROVE ShowsOnlyMine
    <2>1. OwnerInv /\ DatabaseInv /\ \A c \in Clicks : AnswerInv(c)
        BY <1>1 DEF IInv, CallsInv
    <2>2. ASSUME mode = "clerk", NEW id \in Registered
          PROVE  \E a \in accounts : a.id = id /\ a.login = Me
        BY <2>1, <2>2 DEF Registered, AnswerInv, GotAccount, Answered
    <2>3. ASSUME mode = "clerk", NEW id \in Registered, NEW other \in Registered
          PROVE  id = other
        BY <2>1, <2>2, <2>3 DEF DatabaseInv
    <2>4. mode = "clerk" /\ Registered # {} => Registered = {ownerId}
        BY <2>1, <2>3 DEF OwnerInv
    <2> QED BY <2>1, <2>2, <2>4 DEF ShowsOnlyMine, OwnerInv
<1> QED BY <1>1, Inductive, PTL

\* Who waits for each answer sees every vehicle once, and everything created.
THEOREM WaitingIsExact == Spec => []SequentialUseIsExact
<1>1. ASSUME IInv PROVE SequentialUseIsExact
    <2>1. SUFFICES ASSUME ~overlapped
                   PROVE  /\ Cardinality(ToSet(list)) = Len(list)
                          /\ \A c \in Clicks :
                                callKind[c] = "create" /\ callPc[c] = "done"
                                   /\ callAnswer[c] # Null /\ callAnswer[c].kind = "ok"
                                => callAnswer[c].value[1] \in ToSet(list)
        BY DEF SequentialUseIsExact
    <2>2. list \in Seq(Vehicles) /\ Distinct(list) /\ \A c \in Clicks : ExactInv(c)
        BY <1>1, <2>1 DEF IInv, Types, SequentialInv
    <2> QED BY <2>2, DistinctIsExact DEF ExactInv, GotVehicle, Answered
<1> QED BY <1>1, Inductive, PTL

\* No refresh takes away a vehicle its owner saw when asking for it.
THEOREM RefreshKeepsWhatWasSeen == Spec => RefreshNeverForgets
<1>1. ASSUME IInv, [Next]_vars
      PROVE  \A c \in Clicks :
                /\ callKind[c] = "refresh" /\ callPc[c] = "served" /\ callPc'[c] = "done"
                /\ callAnswer[c].kind = "ok"
                => \A v \in callShown[c] : v.ownerId \in CallerIds(c) => v \in ToSet(list')
    <2>1. SUFFICES ASSUME NEW c \in Clicks, callKind[c] = "refresh", callPc[c] = "served",
                          callPc'[c] = "done", callAnswer[c].kind = "ok"
                   PROVE  \A v \in callShown[c] :
                             v.ownerId \in CallerIds(c) => v \in ToSet(list')
        OBVIOUS
    <2>2. Types /\ ShownInv(c)
        BY <1>1 DEF IInv, CallsInv
    <2>3. Show(c)
        BY <1>1, <2>1, <2>2, StepOfTheCall
    <2>4. ShowList(c)
        BY <2>1, <2>3 DEF Show, ShowOwner, ShowCreated, ShowFailure, Arrive
    <2> QED BY <2>1, <2>2, <2>4 DEF ShowList, ShownInv, GotList
<1> QED BY <1>1, Inductive, PTL DEF Spec, RefreshNeverForgets

=============================================================================
