SPECIFICATION FairSpec
CONSTANTS
    w1 = w1
    w2 = w2
    a1 = a1
    s1 = s1
    s2 = s2
    r1 = r1
    r2 = r2
    Worker = {w1, w2}
    Agent = {}
    Sale = {s1}
    Request = {r1, r2}
    NoOne = NoOne
    StartOf <- MCMidnight
    MailBox <- MCNoMail
    Duration = 0
    DeadAfter = 0
    DayLength = 3
    DefaultQuota = 1
    Quotas = {0}
    Waits = {FALSE}
    PollRounds = 1
    Reliable = {w2}
    OverlappingPolls = FALSE
    MaxTime = 3
    MaxRefresh = 0
    MaxStaff = 0
    MaxRestarts = 0
PROPERTIES
    SilentVmFreed
    ClosedSaleFreed
    FreeSaleClaimed
