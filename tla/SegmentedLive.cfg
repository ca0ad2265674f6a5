\* Two sessions of one segment each.
CONSTANTS
    MaxSessions = 2
    MaxSegments = 1
    MaxBatches = 2
    DeleteSources = TRUE
SPECIFICATION SegSpec
VIEW Observable
PROPERTIES
    StopEndsRecording
