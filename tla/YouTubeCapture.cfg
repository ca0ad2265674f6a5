\* Two sessions under distinct names, owned by the controller, with a move.
CONSTANTS
    MaxSessions = 2
    Controlled = TRUE
    OneName = FALSE
    MoveAfter = TRUE
SPECIFICATION YtSpec
INVARIANTS
    YtInv
    MergedIsKept
    UndisturbedIsDelivered
PROPERTIES
    StopReturns
