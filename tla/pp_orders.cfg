SPECIFICATION FairSpec
CONSTANTS
    d1 = d1
    i1 = i1
    h1 = h1
    h2 = h2
    cash = cash
    lot1 = lot1
    lot2 = lot2
    Order = {d1, i1}
    Handler = {h1, h2}
    Thing = {cash, lot1, lot2}
    NoOrder = NoOrder
    TypeOf <- MCTypeOf
    ThingsOf <- MCThingsOf
    MaxFailures = 1
INVARIANTS
    NothingUnpaid
    EachCallOnce
    FulfilledIsCredited
PROPERTIES
    PaidIsFulfilled
CHECK_DEADLOCK FALSE
