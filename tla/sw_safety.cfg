SPECIFICATION Spec
CONSTANTS
    w1 = w1
    w2 = w2
    a1 = a1
    s1 = s1
    s2 = s2
    r1 = r1
    r2 = r2
    Worker = {w1, w2}
    Agent = {}
    Sale = {s1}
    Request = {r1, r2}
    NoOne = NoOne
    StartOf <- MCLateStart
    MailBox <- MCNoMail
    Duration = 1
    DeadAfter = 0
    DayLength = 4
    DefaultQuota = 1
    Quotas = {0}
    Waits = {FALSE}
    PollRounds = 1
    Reliable = {}
    OverlappingPolls = TRUE
    MaxTime = 1
    MaxRefresh = 1
    MaxStaff = 1
    MaxRestarts = 0
SYMMETRY MCSymmetryVM
INVARIANTS
    ExclusiveAnswers
    HoldersRegistered
PROPERTIES
    InProgressKept
    ImplementsDeal
