SPECIFICATION Spec
CONSTANTS
    Storages = {X, Y}
    Addr = {a1, a2}
    Val = {x}
    NoVal = NoVal
    Failing = {}
    MaxCommits = 2
    MaxCrashes = 1
PROPERTIES AckedSurvives
CHECK_DEADLOCK FALSE
