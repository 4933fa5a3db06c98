SPECIFICATION Spec
CONSTANTS
    a1 = a1
    a2 = a2
    a3 = a3
    s1 = s1
    s2 = s2
    d1 = d1
    d2 = d2
    c1 = c1
    c2 = c2
    Sale = {s1, s2}
    Stocked = {s1, s2}
    Agent = {a1, a2, a3}
    Desk = {d1, d2}
    Call = {c1, c2}
    Nobody = Nobody
    Event <- MCEvent
    Page = {1, 2, 3, 4, 5, 6}
    MaxKeys = 1
    MaxAttempts = 2
    Batch = 2
    NoEvent = NoEvent
    MaxConcurrent = 1
    MaxFailures = 2
    NoSale = NoSale
INVARIANTS
    DayTypeOK
    WindowRemembers
    LatestWins
    OpenPageIsWatched
PROPERTIES
    DealIsLevel
    AgentsWorkIsKept
    UnassignedIsDealt
    EventsSettle
    StopIsHonoured
    CoverageResumes
