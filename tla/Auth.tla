-------------------------------- MODULE Auth --------------------------------
(***************************************************************************)
(* Authentication and authorisation of apps/api/src/auth.  Two providers   *)
(* implement the AuthProvider interface:                                   *)
(*   - "clerk": a token is a JWT of an external identity provider; its     *)
(*     subject is a login, and the account is the User row linked to it;   *)
(*   - "mock": a token dev:<userId>:<ROLE> is believed as it stands, and   *)
(*     there is no external identity.                                      *)
(* Signature checking is the library's (jose): a token is what it verifies *)
(* to.                                                                     *)
(***************************************************************************)
EXTENDS Http

CONSTANTS
    Provider,   \* the AUTH_PROVIDER the process was started with
    BadToken    \* a bearer token no provider accepts

ASSUME ProviderAssumption == Provider \in {"clerk", "mock"}

ASSUME BadTokenAssumption == BadToken \notin Logins \cup {Null}

\* verifyExternalIdentity is present on the Clerk provider only.
HasExternalIdentity == Provider = "clerk"

DevToken == [userId: UserIds, role: UserRole]

\* What the Authorization header yields: Null when it is absent or is not a
\* Bearer header.
Token == (IF HasExternalIdentity THEN Logins ELSE DevToken) \cup {Null, BadToken}

Claims == [userId: UserIds, role: UserRole]

\* The accounts linked to a login: at most one, the column is unique.
LinkedTo(users, login) == {u \in users : u.login = login}

\* Mutation of VerifiedClaims: the account is looked up without its WHERE.
VerifiedClaimsUnfiltered(users, token) ==
    IF token \in {Null, BadToken} THEN {}
    ELSE {[userId |-> u.id, role |-> u.role] : u \in users}

\* The claims verifyToken may resolve to.  The empty set is a refusal.
VerifiedClaims(users, token) ==
    IF token \in {Null, BadToken} THEN {}
    ELSE IF HasExternalIdentity
         THEN {[userId |-> u.id, role |-> u.role] : u \in LinkedTo(users, token)}
         ELSE {token}

\* RolesGuard: ADMIN passes everything, BOTH stands for OWNER and DRIVER.  An
\* empty requirement is a route without @Roles.
RoleSatisfies(role, required) ==
    \/ required = {}
    \/ role = "ADMIN"
    \/ role \in required
    \/ role = "BOTH" /\ required \cap {"OWNER", "DRIVER"} # {}

=============================================================================
