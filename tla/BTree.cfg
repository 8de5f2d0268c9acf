SPECIFICATION Spec
CONSTANTS
    SurfaceSlots = 4
    InteriorSlots = 2
    Keys <- MCKeys
    Values = {2}
    Preloads <- MCPreloads
    PreValue = 1
    KeepsOne = TRUE
    RollsBack = TRUE
    RootReturns = FALSE
    MaxOps = 2
INVARIANTS TreeIsSound StoredTreeIsSound UnsavedIsModified SearchesAgree
PROPERTIES IsTransactionalMap
