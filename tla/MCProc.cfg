SPECIFICATION FairSpec
CONSTANTS
    idle = idle
    init = init
    p1 = p1
    p2 = p2
    p3 = p3
    Threads <- MCThreads
    Queues <- MCQueues
    p_wait <- MCp_wait
    Statuses <- MCStatuses
    PROC_MAX_COUNT = 5
    RunQ = RunQ
    NoQueue = NoQueue
    NoProc = NoProc
    First = idle
    InitProc = init
INVARIANTS
    TreeAgrees
    PidsUnique
    NoSleepOverZombie
PROPERTIES
    WaitAnyReturns
CHECK_DEADLOCK FALSE
