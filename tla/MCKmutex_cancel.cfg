SPECIFICATION SpecSchedCancel
CONSTANTS
    idle = idle
    t1 = t1
    t2 = t2
    m1 = m1
    m2 = m2
    Threads <- ThreeThreads
    Mutexes <- OneMutex
    Queues <- MCQueues
    km_waitq <- MCkm_waitq
    RunQ = RunQ
    NoQueue = NoQueue
    NoThread = NoThread
    First = idle
INVARIANT LockedMeansHolder
