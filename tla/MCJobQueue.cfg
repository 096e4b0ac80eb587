CONSTANTS
    w1 = w1
    w2 = w2
    cl = cl
    c1 = c1
    Worker <- MCWorker
    Client <- MCClient
    Coro = {c1, c2}
    c2 = c2
    Type <- MCType
    Limit <- MCLimit
    CoroType = 2
    FindType = 1
    MaxJobs = 1
SPECIFICATION FairSpec
INVARIANTS
    WithinLimits
    NextJobFound
    StoppedIsQuiet
PROPERTIES
    JobsRun
    StopCompletes
CHECK_DEADLOCK FALSE
