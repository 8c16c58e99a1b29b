\* Two schedulers at work on one asynchronous job; nobody dies.
CONSTANTS
    a = a
    r1 = r1
    w1 = w1
    w2 = w2
    Jobs = {a}
    AsyncJobs = {a}
    Size = 1
    MaxChunks = 1
    Limit = 1
    Requests = {r1}
    Patchers = {}
    CrashProne = {}
    Workers = {w1, w2}
    Pollers = {}
    PromptRequests = TRUE
SPECIFICATION Spec
PROPERTIES
    SuccessIsFinal
