-------------------------------- MODULE MCProc -------------------------------
EXTENDS Proc
CONSTANTS idle, init, p1, p2, p3
FewThreads == {idle, init, p1, p2}
MCThreads == {idle, init, p1, p2, p3}
WaitQueue(p) == <<"p_wait", p>>
MCQueues == {WaitQueue(p) : p \in Threads}
MCp_wait == [p \in Threads |-> WaitQueue(p)]
MCStatuses == {0, 1}
=============================================================================
