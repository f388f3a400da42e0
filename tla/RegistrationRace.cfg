CONSTANTS
    Provider = "clerk"
    Registrations = {r1, r2}
    OfferedRegions = {"US"}
    UserIds = {u1, u2}
    Logins = {l1, l2}
    Emails = {e1, e2}
    Phones = {p1, p2}
    VehicleIds = {}
    Vins = {}
    Null = Null
    BadToken = BadToken
SPECIFICATION Spec
CHECK_DEADLOCK FALSE
PROPERTIES
    ReregisteringReturnsAccount
