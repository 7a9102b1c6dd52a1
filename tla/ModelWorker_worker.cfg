SPECIFICATION FairSpec
CONSTANTS
    Threads = {t1, t2, t3}
    NoThread = NoThread
    MaxConcurrent = 2
    Pids = {1, 2}
    MaxCalls = 3
    MaxLogs = 1
    MaxCloses = 1
INVARIANTS
    OneProcess
    SlotsKept
PROPERTIES
    OwnAnswer
    CallsEnd
CHECK_DEADLOCK FALSE
