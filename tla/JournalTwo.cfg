SPECIFICATION Spec
CONSTANTS
    Storages = {X, Y}
    Addr = {a1, a2}
    Val = {x}
    NoVal = NoVal
    Failing = {X, Y}
    MaxCommits = 2
    MaxCrashes = 2
PROPERTIES RecoveryIsReplay CommitReturns
CHECK_DEADLOCK FALSE
