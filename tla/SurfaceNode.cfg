SPECIFICATION Spec
CONSTANTS
    Slots = 6
    Lengths = {2, 6}
    MaxSteps = 4
INVARIANTS CellsDistinct NeverThrows
PROPERTIES AreSequences
