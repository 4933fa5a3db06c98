SPECIFICATION Spec
CONSTANTS
    w1 = w1
    w2 = w2
    a1 = a1
    s1 = s1
    s2 = s2
    r1 = r1
    r2 = r2
    Worker = {w1, w2}
    Agent = {a1}
    Sale = {s1, s2}
    Request = {r1, r2}
    NoOne = NoOne
    StartOf <- MCStartOf
    MailBox <- MCMailBox
    Duration = 1
    DeadAfter = 0
    DayLength = 4
    DefaultQuota = 1
    Quotas = {0}
    Waits = {TRUE}
    PollRounds = 1
    Reliable = {w2}
    OverlappingPolls = FALSE
    MaxTime = 2
    MaxRefresh = 0
    MaxStaff = 0
    MaxRestarts = 1
SYMMETRY MCSymmetry
INVARIANTS
    TypeOK
    QuotaRespected
PROPERTIES
    PollIsIdempotent
