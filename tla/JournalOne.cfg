SPECIFICATION Spec
CONSTANTS
    Storages = {X}
    Addr = {a1, a2}
    Val = {x, y}
    NoVal = NoVal
    Failing = {}
    MaxCommits = 2
    MaxCrashes = 2
INVARIANTS TypeOK AlwaysReadable
PROPERTIES RecoveryIsAtomic SynchIsCommitPoint RecoveryEnds
CHECK_DEADLOCK FALSE
