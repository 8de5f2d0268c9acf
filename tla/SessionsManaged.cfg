SPECIFICATION Spec
CONSTANTS
    s1 = s1
    s2 = s2
    s3 = s3
    t1 = t1
    t2 = t2
    X = X
    Y = Y
    Storages = {X}
    Sessions = {s1, s2}
    Threads = {t1, t2}
    Runs <- TwoRuns
    Storage <- TwoStorage
    Writers = {s1}
    Manager = Manager
    None = None
    MemoryLow = TRUE
    FailCommit = {}
    FailBegin = {X}
    MaxDepth = 2
 
PROPERTIES ManagerKeepsWrites
CHECK_DEADLOCK FALSE
