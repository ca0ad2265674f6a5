\* Two recordings of the same file name, one of them archived before; one archive job of
\* two attempts for either, a destination that hides its failures and one that
\* reports them, notifications of two attempts, one crash and one user's retry.
CONSTANTS
    r1 = r1
    r2 = r2
    telegram = telegram
    discord = discord
    Recs = {r1, r2}
    Name <- MCName
    Before = {r2}
    Route <- MCRoute
    Events = {"archive.completed", "archive.failed"}
    Swallows = {telegram}
    JobAttempts = 2
    NoteAttempts = 2
    MaxJobs = 1
    MaxCrashes = 1
    MaxRetries = 1
\* When every request and every crash is spent and both queues are empty, nothing is left to do.
CHECK_DEADLOCK FALSE
SPECIFICATION PlatformSpec
INVARIANTS
    PlatformInv
    CompletionIsAnnounced
    SentMeansReceived
PROPERTIES
    QueuesSettle
