SPECIFICATION Spec
CONSTANTS
    d1 = d1
    i1 = i1
    h1 = h1
    h2 = h2
    cash = cash
    lot1 = lot1
    lot2 = lot2
    Order = {d1}
    Handler = {h1, h2}
    Thing = {cash}
    NoOrder = NoOrder
    TypeOf <- MCDepositType
    ThingsOf <- MCDepositThings
    MaxFailures = 0
INVARIANT
    CreatedOnce
