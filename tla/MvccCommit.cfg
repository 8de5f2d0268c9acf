SPECIFICATION Spec
CONSTANTS
    Objs = {root, t1, t2, t3}
    Root = root
    NoObj = NoObj
    MaxAddr = 2
    Val = {x, y}
    NoVal = NoVal
    Paths = {"commit"}
    MaxVersion = 5
SYMMETRY Symmetry
VIEW LiveFields
INVARIANTS CoordinatorInv WriterInv MovesNeverThrow NotStaleIsCurrent
PROPERTIES CommitIsAtomic IdleMergesToOne ImplementsSnapshotStore
CHECK_DEADLOCK FALSE
