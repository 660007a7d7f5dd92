-------------------------------- MODULE Mutex --------------------------------
(***************************************************************************)
(* What a set of kernel mutexes promises: a mutex has at most one owner,   *)
(* a thread that finds it taken waits its turn, and an unlock hands the    *)
(* mutex to the thread that has waited longest.                            *)
(***************************************************************************)
EXTENDS Sequences

CONSTANTS Threads, Mutexes, NoThread

VARIABLES owner, waiters

vars == <<owner, waiters>>

Init ==
    /\ owner = [m \in Mutexes |-> NoThread]
    /\ waiters = [m \in Mutexes |-> << >>]

Acquire(t, m) ==
    /\ owner[m] = NoThread
    /\ owner' = [owner EXCEPT ![m] = t]
    /\ UNCHANGED waiters

Wait(t, m) ==
    /\ owner[m] \notin {NoThread, t}
    /\ waiters' = [waiters EXCEPT ![m] = Append(@, t)]
    /\ UNCHANGED owner

Release(m) ==
    /\ owner[m] # NoThread
    /\ waiters[m] = << >>
    /\ owner' = [owner EXCEPT ![m] = NoThread]
    /\ UNCHANGED waiters

HandOver(m) ==
    /\ owner[m] # NoThread
    /\ waiters[m] # << >>
    /\ owner' = [owner EXCEPT ![m] = Head(waiters[m])]
    /\ waiters' = [waiters EXCEPT ![m] = Tail(@)]

Next ==
    \E m \in Mutexes :
        \/ \E t \in Threads : Acquire(t, m) \/ Wait(t, m)
        \/ Release(m) \/ HandOver(m)

Spec == Init /\ [][Next]_vars
=============================================================================
