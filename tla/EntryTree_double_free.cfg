SPECIFICATION Spec
CONSTANTS
    Entries = {e1, e2}
    NULL = NULL
    Sizes = {0}
    MaxDataSize = 0
    Calls = {}
SYMMETRY Symmetry
INVARIANTS NoDoubleFree
CHECK_DEADLOCK FALSE
