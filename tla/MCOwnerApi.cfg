CONSTANTS
    Provider = "clerk"
    Registrations = {r1, r2}
    Calls = {c1}
    MaxInt = 5
    OfferedListings <- Listings
    OfferedRegions = {}
    UserIds = {u1, u2}
    VehicleIds = {k1}
    Logins = {l1, l2}
    Emails = {e1, e2}
    Phones = {p1, p2}
    Vins = {v1}
    v1 = v1
    Null = Null
    BadToken = BadToken
SPECIFICATION Spec
SYMMETRY Symmetry
CHECK_DEADLOCK FALSE
INVARIANTS
    CreatedUnderCallersAccount
PROPERTIES
    RegistrationCarriesOver
    ImplementsSession
