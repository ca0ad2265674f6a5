\* One launch, one broadcast, one command of each kind, nobody goes past the controller.
CONSTANTS
    Captures = {g1}
    Broadcasts = {b1}
    Heuristics = {}
    Starts = {k1}
    Stops = {k2}
    Outside = {}
    StartsRefused = FALSE
    NoBroadcast = NoBroadcast
    NoCommand = NoCommand
    NoCapture = NoCapture
SPECIFICATION LiveSpec
PROPERTIES
    StopSettles
    OnceIsDecided
    AutoKeepsLooking
