CONSTANTS
    Provider = "clerk"
    Calls = {c1, c2}
    MaxInt = 5
    OfferedListings <- Listings
    OfferedRegions = {}
    UserIds = {u1, u2}
    VehicleIds = {k1, k2}
    Logins = {l1, l2}
    Emails = {e1, e2}
    Phones = {p1, p2}
    Vins = {v1, v2}
    v1 = v1
    v2 = v2
    Null = Null
    BadToken = BadToken
SPECIFICATION Spec
CHECK_DEADLOCK FALSE
SYMMETRY Symmetry
INVARIANTS
    ActiveVehiclesValued
    MineIsComplete
    LinkedLoginRecognised
    AnswersStayTrue
PROPERTIES
    ImplementsRegister
