CONSTANTS
    Clicks = {c1, c2, c3, c4}
    Me = me
    Other = other
    Logins = {me, other}
    UserIds = {u1, u2}
    VehicleIds = {k1, k2}
    Emails = {e1, e2}
    Vins = {v1, v2}
    Phones = {}
    OfferedRegions = {}
    Null = Null
SPECIFICATION Spec
SYMMETRY Symmetry
CHECK_DEADLOCK FALSE
INVARIANTS
    ShowsOnlyMine
    SequentialUseIsExact
PROPERTIES
    RefreshNeverForgets
