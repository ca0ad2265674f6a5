\* Every sequence of repository calls on one job with at most three claims.
CONSTANTS
    j1 = j1
    w1 = w1
    w2 = w2
    k1 = k1
    NoOwner = NoOwner
    NoKey = NoKey
    Jobs <- MCJobs
    VerifyJobs <- MCJobs
    Owners <- MCOwners
    Keys <- MCKeys
    Limits <- MCLimits
    RetryGrant = 1
    MaxGen = 3
SPECIFICATION StoreSpec
CHECK_DEADLOCK FALSE
INVARIANTS
    StoreInv
PROPERTIES
    StaleAttemptsAreFrozen
    ImplementsDurableJob
