\* Two asynchronous jobs and a worker that takes one session at a time.
CONSTANTS
    a = a
    b = b
    r1 = r1
    r2 = r2
    w1 = w1
    Jobs = {a, b}
    AsyncJobs = {a, b}
    Size = 1
    MaxChunks = 1
    Limit = 1
    Requests = {r1, r2}
    Patchers = {}
    CrashProne = {}
    Workers = {w1}
    Pollers = {}
    PromptRequests = TRUE
SPECIFICATION LiveSpec
PROPERTIES
    AttemptSettles
