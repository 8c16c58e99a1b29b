\* One asynchronous job of two chunks, two overlapping worker runs that may die.
CONSTANTS
    a = a
    r1 = r1
    w1 = w1
    w2 = w2
    Jobs = {a}
    AsyncJobs = {a}
    Size = 2
    MaxChunks = 1
    Limit = 1
    Requests = {r1}
    Patchers = {}
    CrashProne = {w1, w2}
    Workers = {w1, w2}
    Pollers = {}
    PromptRequests = FALSE
SPECIFICATION Spec
SYMMETRY WorkerSymmetry
INVARIANTS
    TypeOK
    PublishedIsConfirmed
    OneVideoPerAsyncJob
    PublishedHasEvidence
    UploadingIsBacked
