\* A media job or a verification, two claims, one crash or restart, under fairness.
CONSTANTS
    j1 = j1
    j2 = j2
    w1 = w1
    w2 = w2
    NoOwner = NoOwner
    NoKey = NoKey
    Jobs = {j1, j2}
    VerifyJobs = {j2}
    Owners <- MCOwners
    Keys = {}
    Limits = {2}
    RetryGrant = 2
    MaxGen = 2
    MediaTools = 1
SPECIFICATION QuietSpec
PROPERTIES
    ExecutionEnds
    CommitmentsSettle
