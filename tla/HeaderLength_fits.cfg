SPECIFICATION Spec
CONSTANTS
    MaxLength = 65534
INVARIANTS ChunkFound
