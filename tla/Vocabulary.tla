----------------------------- MODULE Vocabulary -----------------------------
(***************************************************************************)
(* The shared vocabulary of packages/shared/src/enums.ts.  The Prisma      *)
(* schema mirrors these enums value for value, so the services and the     *)
(* database speak of the same strings.                                     *)
(***************************************************************************)

Region == {"US", "CA", "GB"}

UserRole == {"DRIVER", "OWNER", "BOTH", "ADMIN"}

UserStatus == {"PENDING", "ACTIVE", "SUSPENDED", "BANNED"}

TrustTier == {"FOUNDATION", "ESTABLISHED", "TRUSTED", "ELITE", "CERTIFIED"}

OwnerTier == {"LISTED", "ACTIVE", "PREMIER", "ELITE_FLEET"}

VehicleTier ==
    {"STANDARD", "EV_STANDARD", "XL_SUV", "COMFORT", "PREMIUM", "LUXURY", "EXOTIC"}

VehicleStatus ==
    {"DRAFT", "PENDING_INSPECTION", "ACTIVE", "ON_TRIP", "MAINTENANCE", "DELISTED",
     "LISTED_DORMANT"}

ValuationSource == {"HAGERTY", "NADA_JDPOWER", "MANUAL"}

BookingState ==
    {"REQUESTED", "OWNER_REVIEW", "APPROVED", "INSURANCE_BOUND", "CONFIRMED",
     "PICKUP_PENDING", "PICKUP_CONFIRMED", "IN_PROGRESS", "RETURN_PENDING",
     "RETURN_CONFIRMED", "CLAIM_WINDOW", "SETTLED", "DECLINED", "CANCELLED"}

=============================================================================
