\* One synchronous job, three requests that may die, another blob writer.
\* Requests are made once: the system stops when they are answered.
CONSTANTS
    film = film
    r1 = r1
    r2 = r2
    r3 = r3
    writer = writer
    Jobs = {film}
    AsyncJobs = {}
    Size = 1
    MaxChunks = 1
    Limit = 1
    Requests = {r1, r2, r3}
    Patchers = {writer}
    CrashProne = {r1, r2, r3}
    Workers = {}
    Pollers = {}
    PromptRequests = FALSE
SPECIFICATION Spec
SYMMETRY RequestSymmetry
INVARIANTS
    PublishedIsConfirmed
    DuplicateNeedsReclaim
PROPERTIES
    SuccessUndoneByReclaim
CHECK_DEADLOCK FALSE
