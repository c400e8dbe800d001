SPECIFICATION Spec
CONSTANTS
    Names = {f, g}
    SubNames = {g}
    b1 = b1
    b2 = b2
    b3 = b3
    src = src
    Bytes = {b1, b2, b3}
    Sources <- MCSources
    Archives = {x, y}
    Unwritable = {}
    MaxFiles = 2
    Replacements <- MCReplacements
    BufSize = 9
    HeapResidue = FALSE
    Calls = {}
    NULL = NULL
    MISSING = MISSING
    MAGIC = MAGIC
    MARK = MARK
    NUL = NUL
    JUNK = JUNK
    WILD = WILD
INVARIANTS ReadableAfterSave
CHECK_DEADLOCK FALSE
