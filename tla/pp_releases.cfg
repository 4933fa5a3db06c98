SPECIFICATION ReleaseSpec
CONSTANTS
    d1 = d1
    d2 = d2
    h1 = h1
    cash = cash
    x1 = x1
    x2 = x2
    k1 = k1
    c1 = c1
    c2 = c2
    Order = {d1, d2}
    Handler = {h1}
    Thing = {cash}
    NoOrder = NoOrder
    TypeOf <- MCTypeOf
    ThingsOf <- MCThingsOf
    MaxFailures = 1
    Release = {x1}
    Asker = {k1}
    Clerk = {c1, c2}
    NoRelease = NoRelease
    Amount <- MCAmount
SYMMETRY MCSymmetry
INVARIANTS
    ReleaseTypeOK
    ApprovedIsDebited
    RefundsAreDebited
CHECK_DEADLOCK FALSE
