SPECIFICATION Spec
CONSTANTS
    Entries = {e1, e2, e3}
    NULL = NULL
    Sizes = {0, 1}
    MaxDataSize = 4
    Calls = {"onto_file", "full_dir", "contents", "resize"}
SYMMETRY Symmetry
INVARIANTS ClosedMeansFreed
PROPERTIES ImplementsDirTree 
CHECK_DEADLOCK FALSE
