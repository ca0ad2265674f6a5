\* Two sessions of two segments, two batches at a time, sources deleted.
CONSTANTS
    MaxSessions = 2
    MaxSegments = 2
    MaxBatches = 2
    DeleteSources = TRUE
SPECIFICATION SegSpec
VIEW Observable
INVARIANTS
    SegInv
    UndisturbedIsProcessed
