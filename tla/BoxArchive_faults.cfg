SPECIFICATION Spec
CONSTANTS
    Names = {f, g}
    SubNames = {g}
    b1 = b1
    b2 = b2
    b3 = b3
    src = src
    Bytes = {b1, b2, b3}
    Sources <- MCSources
    Archives = {x, y}
    Unwritable = {}
    MaxFiles = 1
    Replacements <- MCReplacements
    BufSize = 9
    HeapResidue = FALSE
    Calls = {"add_then_overwrite", "failing_save", "empty_new", "source_gone", "torn"}
    NULL = NULL
    MISSING = MISSING
    MAGIC = MAGIC
    MARK = MARK
    NUL = NUL
    JUNK = JUNK
    WILD = WILD
SYMMETRY Symmetry
 
PROPERTIES OnlyTargetWritten
CHECK_DEADLOCK FALSE
