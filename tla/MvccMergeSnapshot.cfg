SPECIFICATION Spec
CONSTANTS
    Objs = {root, t1, t2, t3}
    Root = root
    NoObj = NoObj
    MaxAddr = 2
    Val = {x, y}
    NoVal = NoVal
    Paths = {"merge"}
    MaxVersion = 5
SYMMETRY Symmetry
VIEW LiveFields
PROPERTY ImplementsSnapshotStore
CHECK_DEADLOCK FALSE
