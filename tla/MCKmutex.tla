------------------------------- MODULE MCKmutex ------------------------------
EXTENDS Kmutex
CONSTANTS idle, t1, t2, m1, m2
OneMutex == {m1}
TwoMutexes == {m1, m2}
ThreeThreads == {idle, t1, t2}
WaitQueue(m) == <<"km_waitq", m>>
MCQueues == {WaitQueue(m) : m \in Mutexes}
MCkm_waitq == [m \in Mutexes |-> WaitQueue(m)]
=============================================================================
