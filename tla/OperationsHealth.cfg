\* An automatic channel with start delays, a duration limit and a monitor that may miss
\* a growth; a stall is one age old and seen twice; two restarts, one user's request
\* and one change of the rule or of the free space.
CONSTANTS
    AutoMode = TRUE
    Delayed = TRUE
    Limited = TRUE
    Missed = TRUE
    StallAge = 1
    StallChecks = 2
    MaxAttempts = 2
    BreakerAfter = 2
    MaxRequests = 1
    MaxChanges = 1
\* When every bound is spent and the channel is off nothing is left to do.
CHECK_DEADLOCK FALSE
SPECIFICATION HealthSpec
INVARIANTS
    HealthInv
PROPERTIES
    OnlyFailingIsRestarted
    RuleHolds
    StalledIsAnswered
