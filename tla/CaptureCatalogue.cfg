\* Two captures, of one live or of two, into one file or split; a helper that projects
\* the catalogue, one note of the archive queue, one lost event or crash.
CONSTANTS
    n1 = n1
    n2 = n2
    p1 = p1
    loop = loop
    helper = helper
    Names <- MCNames
    Parts <- MCPart
    Broadcasts = {b1, b2}
    Loop = loop
    Helpers = {helper}
    Moves = TRUE
    MaxCaptures = 2
    MaxNotes = 1
    MaxSyncs = 1
    MaxFaults = 1
\* When every bound is spent nothing is left to do.
CHECK_DEADLOCK FALSE
SPECIFICATION CatalogueSpec
INVARIANTS
    CatalogueInv
    ProjectionFollows
    EndedIsSettled
