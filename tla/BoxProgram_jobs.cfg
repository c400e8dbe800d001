SPECIFICATION Spec
CONSTANTS
    e1 = e1
    e2 = e2
    e3 = e3
    e4 = e4
    d = d
    s = s
    x = x
    y = y
    full = full
    empty = empty
    missing = missing
    locked = locked
    there = there
    good = good
    bad = bad
    Entries = {e1, e2, e3, e4}
    Names = {d, s, x, y}
    NULL = NULL
    SEP = SEP
    IntMax = 3
    Boxes = {full, empty, missing, locked}
    Unwritable = {locked}
    CommandLines <- MCCommandLines
    FirstTrees <- MCFirstTrees
    Sources <- MCSources
    Targets <- MCTargets
    FirstOuts <- MCFirstOuts
    CharIsSigned = TRUE
INVARIANTS TypeOK SavedAsAsked ListedAsAsked ExtractedUnlessBlocked TimesKept
 
CHECK_DEADLOCK FALSE
