SPECIFICATION Spec
CONSTANTS
    Entries = {e1, e2, e3}
    Names = {a, b}
    NULL = NULL
    SEP = SEP
    IntMax = 3
    Sizes = {2, 5}
    Calls = {"special_files", "damaged"}
SYMMETRY Symmetry
INVARIANTS TypeOK OwnHeaderOpens FoundUnderOwnPath StaleOnlyBelowMoved
PROPERTIES TreeSurvives PathSurvives AttributesSurvive ResavingIsStable
CHECK_DEADLOCK FALSE
