CONSTANTS
    Provider = "mock"
    Registrations = {r1}
    Calls = {c1}
    MaxInt = 5
    OfferedListings <- Listings
    OfferedRegions = {}
    UserIds = {u1, u2}
    VehicleIds = {k1}
    Logins = {}
    Emails = {e1}
    Phones = {p1}
    Vins = {v1}
    v1 = v1
    Null = Null
    BadToken = BadToken
SPECIFICATION Spec
CHECK_DEADLOCK FALSE
INVARIANTS
    VehiclesTraceToRegistrations
PROPERTIES
    EveryRequestEnds
