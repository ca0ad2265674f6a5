\* Two launches, one identified and one unidentified broadcast, two commands.
CONSTANTS
    Captures = {g1, g2}
    Broadcasts = {b1}
    Heuristics = {h1}
    Starts = {k1, k2}
    Stops = {k1, k2}
    Outside = {"start", "stop"}
    StartsRefused = TRUE
    NoBroadcast = NoBroadcast
    NoCommand = NoCommand
    NoCapture = NoCapture
SPECIFICATION Spec
SYMMETRY Interchangeable
VIEW Observable
INVARIANTS
    ChannelInv
    DecisionsAreKept
    CapturesAreReachable
    NothingIsOrphaned
PROPERTIES
    OneWatcher
    UsesTheGuard
