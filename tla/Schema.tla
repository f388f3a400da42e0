------------------------------- MODULE Schema -------------------------------
(***************************************************************************)
(* The two tables of apps/api/prisma/schema.prisma that the API writes,    *)
(* User (with its OwnerProfile) and Vehicle, and the constraints PostgreSQL*)
(* checks on an INSERT.  A table is a set of rows.  Columns no behaviour   *)
(* depends on (names, plates, dates, counters) are left out.               *)
(***************************************************************************)
EXTENDS Vocabulary, Integers

CONSTANTS
    UserIds,      \* cuid() values the User table may draw
    VehicleIds,   \* cuid() values the Vehicle table may draw
    Logins,       \* subjects of the external identity provider
    Emails,
    Phones,
    Vins,
    OfferedRegions,   \* the regions registration forms name (a bound on the inputs)
    Null          \* SQL NULL, and JavaScript's undefined and null

ASSUME NullAssumption ==
    Null \notin UserIds \cup VehicleIds \cup Logins \cup Emails \cup Phones \cup Vins
                  \cup Nat \cup ValuationSource

ASSUME OfferedRegionsAssumption == OfferedRegions \subseteq Region

UserRow ==
    [id: UserIds, role: UserRole, status: UserStatus, region: Region,
     email: Emails, phone: Phones, login: Logins \cup {Null}]

\* Mutation of UserKeysFree: phone loses its @unique.
UserKeysFreeButPhone(users, row) ==
    \A u \in users : u.email # row.email /\ (u.login = row.login => row.login = Null)

\* @unique on email, phone and authProviderId.  NULLs are distinct in a
\* PostgreSQL unique index, so rows without a login never clash on it.
UserKeysFree(users, row) ==
    \A u \in users : /\ u.email # row.email
                     /\ u.phone # row.phone
                     /\ u.login = row.login => row.login = Null

\* The rows registration may write under an id and a login.
OwnerAccounts(id, login) ==
    [id: {id}, role: {"OWNER"}, status: {"ACTIVE"}, region: OfferedRegions \cup {"US"},
     email: Emails, phone: Phones, login: {login}]

FreshUserIds(users) == {id \in UserIds : \A u \in users : u.id # id}

\* A vehicle's agreed value and its source, as the owner documents them.
VehicleRow ==
    [id: VehicleIds, ownerId: UserIds, vin: Vins, tier: VehicleTier,
     status: VehicleStatus, agreedValue: Nat \cup {Null},
     valuationSource: ValuationSource \cup {Null}]

\* @unique on vin.
VinFree(vehicles, vin) == \A v \in vehicles : v.vin # vin

\* The foreign key Vehicle.ownerId -> User.id.
OwnerExists(users, ownerId) == \E u \in users : u.id = ownerId

FreshVehicleIds(vehicles) == {id \in VehicleIds : \A v \in vehicles : v.id # id}

=============================================================================
