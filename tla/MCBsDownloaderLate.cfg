\* A DMA transfer that outlives the wait for it.
CONSTANTS
    MaxLen = 1
    MaxTimeouts = 1
    BufChunks = 1
    MaxChunks = 1
    MaxSockets = 0
SPECIFICATION Spec
INVARIANTS
    Isolated
