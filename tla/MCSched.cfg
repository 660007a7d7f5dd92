SPECIFICATION FairSpec
CONSTANTS
    idle = idle
    t1 = t1
    t2 = t2
    waitq = waitq
    disk = disk
    Threads <- MCThreads
    Queues <- MCQueues
    Devices <- MCDevices
    RunQ = RunQ
    NoQueue = NoQueue
    First = idle
INVARIANTS
    AssertsHold
    QueuesAgree
    NoThreadLost
PROPERTIES
    ExitedThreadsStayDown
    RunQueueIsFifo
    RunnableRunsOrHalts
