--------------------------- MODULE MCOwnerSession ---------------------------
(* OwnerSession on small sets, with the listings that matter: one any car  *)
(* may go live with, and high-value ones whose agreed value is missing,    *)
(* zero, unsourced, documented, and more than the column can hold.         *)
EXTENDS OwnerSession, TLC

CONSTANTS v1, v2

Listing(vin, tier, value, source) ==
    [vin |-> vin, tier |-> tier, agreedValue |-> value, valuationSource |-> source]

Listings ==
    {Listing(v1, "STANDARD", Null, Null),
     Listing(v1, "EXOTIC", MaxInt, "MANUAL"),
     Listing(v1, "LUXURY", MaxInt + 1, "MANUAL"),
     Listing(v2, "EXOTIC", 0, "MANUAL"),
     Listing(v2, "LUXURY", MaxInt, Null)}

Symmetry ==
    UNION {Permutations(S) : S \in {Calls, UserIds, VehicleIds, Logins, Emails, Phones}}

=============================================================================
