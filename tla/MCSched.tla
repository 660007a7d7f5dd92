------------------------------- MODULE MCSched -------------------------------
EXTENDS Sched
CONSTANTS idle, t1, t2, waitq, disk
MCThreads == {idle, t1, t2}
MCQueues == {waitq, disk}
MCDevices == {disk}
=============================================================================
