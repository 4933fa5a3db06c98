SPECIFICATION ReleaseSpec
CONSTANTS
    d1 = d1
    d2 = d2
    h1 = h1
    cash = cash
    x1 = x1
    x2 = x2
    k1 = k1
    c1 = c1
    c2 = c2
    Order = {d1}
    Handler = {h1}
    Thing = {cash}
    NoOrder = NoOrder
    TypeOf <- MCOneType
    ThingsOf <- MCOneThing
    MaxFailures = 0
    Release = {x1}
    Asker = {k1}
    Clerk = {c1, c2}
    NoRelease = NoRelease
    Amount <- MCOneAmount
INVARIANT
    RejectedUntouched
