SPECIFICATION Spec
CONSTANTS
    Names = {a, b}
    a = a
    b = b
    Places <- MCPlaces
    Sizes = {1, 2}
    FirstSizes = {1}
    MaxChanges = 1
    DataSize = TRUE
    KnowsTypes = TRUE
INVARIANTS TypeOK StartsInWalkOrder LossIsLocal LoadedAsItIs
PROPERTIES WalkEnds
CHECK_DEADLOCK FALSE
