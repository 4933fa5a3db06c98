SPECIFICATION RingSpec
CONSTANTS
    a = a
    b = b
    h1 = h1
    h2 = h2
    Agent = {a, b}
    CallFlow <- MCFlows
    Handler = {h1, h2}
    MaxLegs = 2
    MaxAsks = 3
    MaxFaults = 1
SYMMETRY MCSymmetry
INVARIANTS
    CallTypeOK
    NobodyWaitsAlone
    NobodyRingsForTheGone
PROPERTIES
    MovesOnWhenAllFailed
CHECK_DEADLOCK FALSE
