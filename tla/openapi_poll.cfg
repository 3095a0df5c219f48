CONSTANTS
    a = a
    b = b
    c = c
    v1 = v1
    v2 = v2
    n = n
    m = m
    x = x
    Ops = {a, b, c}
    Names = {n, m, x}
    Absent = Absent
    Unsupported = Unsupported
    Derived <- MCDerived
    Probeable <- MCProbeable
    NoName = NoName
    BadName = BadName
    NoOp = NoOp
    Keep = Keep
    NoSpec = NoSpec
    NoRecord = NoRecord
    HttpRecord = HttpRecord
    NoTask = NoTask
    Servers = {s1}
    Specs = {v1, v2}
    Choices <- MCChoices
    Handlers = {h1}
    MaxRunning = 2
    MaxQueued = 2
    MaxFinished = 1
    MaxJobs = 2
    MaxRequests = 2
    MaxCrashes = 0
    PersistMayFail = FALSE
SPECIFICATION Spec
CHECK_DEADLOCK FALSE
PROPERTY PollUndoesNothing
