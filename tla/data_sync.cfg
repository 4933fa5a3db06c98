SPECIFICATION Spec
CONSTANTS
    l1 = l1
    l2 = l2
    s1 = s1
    s2 = s2
    c1 = c1
    t1 = t1
    Lot = {l1, l2}
    Slot = {s1, s2}
    Cron = {c1}
    Consumer = {t1}
    Feeds <- MCFeeds
    LotsPerTick = 1
    QueueMinutes = 2
    SeedLowWater = 2
    SeedBatch = 2
INVARIANTS
    PipelineTypeOK
    DoneIsCached
    NoDuplicateStorm
    MapsOwnFeed
PROPERTIES
    WantedIsKept
    JobsSettle
    LockReturns
    IndexRefilled
    StaleAlerted
CHECK_DEADLOCK FALSE
