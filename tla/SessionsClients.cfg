SPECIFICATION Spec
CONSTANTS
    s1 = s1
    s2 = s2
    s3 = s3
    t1 = t1
    t2 = t2
    X = X
    Y = Y
    Storages = {X, Y}
    Sessions = {s1, s2, s3}
    Threads = {t1, t2}
    Runs <- ThreeRuns
    Storage <- ThreeStorage
    Writers = {s1, s2}
    Manager = Manager
    None = None
    MemoryLow = FALSE
    FailCommit = {X, Y}
    FailBegin = {}
    MaxDepth = 2
INVARIANTS WriterHoldsLock LockedByWriter IdleIsUnlocked BegunIsTransacted
PROPERTIES CallsReturn
CHECK_DEADLOCK FALSE
