\* One asynchronous job of two chunks, a scheduler whose runs do not die, a
\* request that may, and a client that may look.
CONSTANTS
    a = a
    r1 = r1
    w1 = w1
    q = q
    Jobs = {a}
    AsyncJobs = {a}
    Size = 2
    MaxChunks = 1
    Limit = 1
    Requests = {r1}
    Patchers = {}
    CrashProne = {r1}
    Workers = {w1}
    Pollers = {q}
    PromptRequests = TRUE
SPECIFICATION LiveSpec
PROPERTIES
    AttemptSettles
