CONSTANTS
    UserIds = {u1, u2, u3}
    Logins = {l1, l2}
    Emails = {e1, e2, e3}
    Phones = {p1, p2, p3}
    OfferedRegions = {}
    VehicleIds = {}
    Vins = {}
    Null = Null
    BadToken = BadToken
SPECIFICATION Spec
SYMMETRY Symmetry
CHECK_DEADLOCK FALSE
INVARIANTS
    NeverSomebodyElse
    OnlyMockStrands
