SPECIFICATION Spec
CONSTANTS
    Entries = {e1, e2}
    NULL = NULL
    Sizes = {0}
    MaxDataSize = 0
    Calls = {"stale"}
SYMMETRY Symmetry
INVARIANTS ListsEnd
CHECK_DEADLOCK FALSE
