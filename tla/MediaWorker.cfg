\* A media job or a verification, at most two claims of it, one crash or restart.
CONSTANTS
    j1 = j1
    j2 = j2
    w1 = w1
    w2 = w2
    NoOwner = NoOwner
    NoKey = NoKey
    Jobs = {j1, j2}
    VerifyJobs = {j2}
    Owners <- MCOwners
    Keys = {}
    Limits = {2}
    RetryGrant = 1
    MaxGen = 2
    MediaTools = 2
SPECIFICATION WorkerSpec
CONSTRAINT OneJob
INVARIANTS
    WorkerInv
    NoVerdictWhileAlive
    OutputMatchesVerdict
PROPERTIES
    CommitsOnlyItsOutput
    UsesTheStore
