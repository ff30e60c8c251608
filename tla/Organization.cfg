SPECIFICATION MCSpec
CONSTANTS
    Ann = Ann
    Bob = Bob
    Cid = Cid
    o1 = o1
    o2 = o2
    Workers = {w1, w2}
    People = {Ann, Bob, Cid}
    Orgs = {o1, o2}
    Invites = {i1, i2}
    Claims <- MCClaims
    Seeded = {Ann, Bob}
    GivenRoles = {"org_member"}
    MaxRequests = 4
    Expiry = 0
    MaxTime = 1
    MayCrash = TRUE
    None = None
    Writers = {x1, x2}
    Tenants = {t1}
    Events = {e1, e2}
    MaxEntries = 4
    Limit = 3
    Nothing = Nothing
SYMMETRY Symmetry
INVARIANTS InvitesConsistent 
PROPERTIES AdminRemains BreakStays 
CHECK_DEADLOCK FALSE
