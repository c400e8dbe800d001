SPECIFICATION Spec
CONSTANTS
    Entries = {e1, e2, e3, e4}
    NULL = NULL
    Sizes = {0}
    MaxDataSize = 0
    Calls = {"onto_file", "full_dir"}
SYMMETRY Symmetry
INVARIANTS TypeOK NoFault NoneLost SingleReferrer
PROPERTIES StaleOnlyByMove
CHECK_DEADLOCK FALSE
