CONSTANTS
    MaxAddr = 2
    Val = {x, y}
    NoBlock = NoBlock
    MaxVersion = 3
    MaxReferences = 2
SPECIFICATION Spec
INVARIANTS CacheInv HandsOverAll
PROPERTIES ImplementsBlockMap
CHECK_DEADLOCK FALSE
