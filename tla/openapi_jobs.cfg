CONSTANTS
    a = a
    b = b
    c = c
    v1 = v1
    v2 = v2
    n = n
    m = m
    x = x
    Ops = {a, b, c}
    Names = {n, m, x}
    Absent = Absent
    Unsupported = Unsupported
    Derived <- MCDerived
    Probeable <- MCProbeable
    NoName = NoName
    BadName = BadName
    NoOp = NoOp
    Keep = Keep
    NoSpec = NoSpec
    NoRecord = NoRecord
    HttpRecord = HttpRecord
    NoTask = NoTask
    Servers = {s1}
    Specs = {v1}
    Choices <- OneChoice
    Handlers = {h1}
    MaxRunning = 1
    MaxQueued = 2
    MaxFinished = 0
    MaxJobs = 2
    MaxRequests = 1
    MaxCrashes = 1
    PersistMayFail = TRUE
SPECIFICATION Spec
CHECK_DEADLOCK FALSE
INVARIANT JobsTracked
PROPERTIES
    JobsEnd
    ToolsCatchUp
