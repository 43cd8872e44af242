\* Images of up to two data blocks, one DMA wait that times out;
\* a download may be longer than the buffer.
CONSTANTS
    MaxLen = 2
    MaxTimeouts = 1
    BufChunks = 1
    MaxChunks = 2
    MaxSockets = 1
SPECIFICATION Spec
INVARIANTS
    IsolatedInTime
    SyncMeansDone
    CleanAfterCall
    IvSwapped
    SuccessMeansStreamed
    OnlyReceivedWritten
PROPERTIES
    PtaReturns
