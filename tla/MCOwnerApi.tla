----------------------------- MODULE MCOwnerApi -----------------------------
(* OwnerApi on small sets: one vehicle any owner may list and activate,    *)
(* under a value its column can hold or not.                               *)
EXTENDS OwnerApi, TLC

CONSTANT v1

Listings ==
    [vin: {v1}, tier: {"STANDARD"}, agreedValue: {Null, MaxInt + 1}, valuationSource: {Null}]

Symmetry ==
    UNION {Permutations(S) :
              S \in {Registrations, Calls, UserIds, VehicleIds, Logins, Emails, Phones}}

=============================================================================
