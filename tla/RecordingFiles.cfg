\* Two segments, two verifications, two merges by two callers, one file deleted by the
\* retention and one crash.
CONSTANTS
    r1 = r1
    r2 = r2
    v1 = v1
    v2 = v2
    api = api
    loop = loop
    Segments <- MCSegments
    Verifiers = {v1, v2}
    Mergers = {api, loop}
    Maintenance = {loop}
    Kept = {}
    DeletesSegments = TRUE
    MaxVerify = 2
    MaxMerge = 2
    MaxCleanup = 1
    MaxCrashes = 1
\* When every bound is spent nothing is left to do.
CHECK_DEADLOCK FALSE
SYMMETRY MCSymmetry
SPECIFICATION FilesSpec
INVARIANTS
    FilesInv
