------------------------------- MODULE Kmutex --------------------------------
(***************************************************************************)
(* Kernel mutexes (kernel/proc/kmutex.c) on top of the scheduler: threads  *)
(* lock, cancellably or not, yield while they hold mutexes, and unlock.    *)
(***************************************************************************)
EXTENDS SchedCore

CONSTANTS
    Mutexes,
    NoThread,      \* the NULL km_holder
    km_waitq       \* the wait queue of each mutex

NoMutex == "no mutex"

ASSUME KmutexAssumption ==
    /\ NoThread \notin Threads
    /\ NoMutex \notin Mutexes
    /\ km_waitq \in [Mutexes -> Queues]
    /\ \A m, n \in Mutexes : km_waitq[m] = km_waitq[n] => m = n

VARIABLES
    sched,         \* the scheduler state of SchedCore
    km_holder,     \* the holder field of each mutex
    blocked,       \* the mutex whose lock call each thread is asleep in, or
                   \* NoMutex
    locked         \* the mutexes each thread has locked: its lock calls that
                   \* returned success and are not yet undone
vars == <<sched, km_holder, blocked, locked>>

Init ==
    /\ sched = SchedInit
    /\ km_holder = [m \in Mutexes |-> NoThread]
    /\ blocked = [t \in Threads |-> NoMutex]
    /\ locked = [t \in Threads |-> {}]

\* The current thread runs, and not on the return path of a lock call.
Executing == sched.cpu = "run" /\ blocked[sched.curthr] = NoMutex

\* A step that only concerns the scheduler.
SchedOnly(s) == sched' = s /\ UNCHANGED <<km_holder, blocked, locked>>
-----------------------------------------------------------------------------
\* The precondition KASSERT(curthr != mtx->km_holder) of both lock calls.
CheckedLock(m) == [sched EXCEPT !.asserts = @ /\ sched.curthr # km_holder[m]]

\* Mutant: the mutex is taken without looking at km_holder.
TakeFree_unchecked(m) ==
    /\ km_holder' = [km_holder EXCEPT ![m] = sched.curthr]
    /\ locked' = [locked EXCEPT ![sched.curthr] = @ \cup {m}]
    /\ sched' = CheckedLock(m)
    /\ UNCHANGED blocked

TakeFree(m) ==
    /\ km_holder[m] = NoThread
    /\ km_holder' = [km_holder EXCEPT ![m] = sched.curthr]
    /\ locked' = [locked EXCEPT ![sched.curthr] = @ \cup {m}]
    /\ sched' = CheckedLock(m)
    /\ UNCHANGED blocked

SleepOnMutex(m, s) ==
    /\ km_holder[m] # NoThread
    /\ sched' = s
    /\ blocked' = [blocked EXCEPT ![sched.curthr] = m]
    /\ UNCHANGED <<km_holder, locked>>

\* "No thread should ever try to lock a mutex it already has locked."
kmutex_lock(m) ==
    /\ Executing
    /\ m \notin locked[sched.curthr]
    /\ \/ TakeFree(m)
       \/ SleepOnMutex(m, sched_sleep_on(CheckedLock(m), km_waitq[m]))

\* The same with a cancellable sleep; a thread that was cancelled earlier
\* gets -EINTR and goes on without the mutex.
kmutex_lock_cancellable(m) ==
    /\ Executing
    /\ m \notin locked[sched.curthr]
    /\ LET s == sched_cancellable_sleep_on(CheckedLock(m), km_waitq[m])
       IN  \/ TakeFree(m)
           \/ ~ cancelled_already(sched) /\ SleepOnMutex(m, s)
           \/ cancelled_already(sched) /\ km_holder[m] # NoThread /\ SchedOnly(s)

\* Back from the sleep, which never returns -EINTR: both lock calls take the
\* mutex and return success.
lock_return ==
    LET m == blocked[sched.curthr]
    IN  /\ sched.cpu = "run"
        /\ m # NoMutex
        /\ km_holder' = [km_holder EXCEPT ![m] = sched.curthr]
        /\ locked' = [locked EXCEPT ![sched.curthr] = @ \cup {m}]
        /\ blocked' = [blocked EXCEPT ![sched.curthr] = NoMutex]
        /\ UNCHANGED sched

\* Mutant: releases the mutex and forgets its waiters.
kmutex_unlock_wakes_nobody(m) ==
    /\ Executing
    /\ m \in locked[sched.curthr]
    /\ km_holder' = [km_holder EXCEPT ![m] = NoThread]
    /\ locked' = [locked EXCEPT ![sched.curthr] = @ \ {m}]
    /\ UNCHANGED <<sched, blocked>>

\* Mutant: wakes a waiter and leaves the mutex free meanwhile.
kmutex_unlock_no_hand_over(m) ==
    /\ Executing
    /\ m \in locked[sched.curthr]
    /\ km_holder' = [km_holder EXCEPT ![m] = NoThread]
    /\ locked' = [locked EXCEPT ![sched.curthr] = @ \ {m}]
    /\ sched' = sched_wakeup_on(sched, km_waitq[m])
    /\ UNCHANGED blocked

kmutex_unlock(m) ==
    LET q == km_waitq[m]
        holder == IF sched_queue_empty(sched, q) THEN NoThread ELSE Head(sched.tq_list[q])
        s == sched_wakeup_on(sched, q)
    IN  /\ Executing
        /\ m \in locked[sched.curthr]
        /\ km_holder' = [km_holder EXCEPT ![m] = holder]
        /\ locked' = [locked EXCEPT ![sched.curthr] = @ \ {m}]
        /\ sched' = [s EXCEPT !.asserts = @ /\ sched.curthr = km_holder[m]
                                            /\ sched.curthr # holder]
        /\ UNCHANGED blocked
-----------------------------------------------------------------------------
\* start_proc: create a thread and make it runnable.
Spawn(t) ==
    /\ Executing
    /\ sched.kt_state[t] = KT_NO_STATE
    /\ SchedOnly(sched_make_runnable(kthread_create(sched, t), t))

Yield == Executing /\ SchedOnly(yield(sched))

KthreadCancel(t) ==
    /\ Executing
    /\ t # sched.curthr
    /\ sched.kt_state[t] # KT_NO_STATE
    /\ SchedOnly(kthread_cancel(sched, t))

SchedCancel(t) ==
    /\ Executing
    /\ t # sched.curthr
    /\ sched.kt_state[t] # KT_NO_STATE
    /\ SchedOnly(sched_cancel(sched, t))

Switch == SwitchStep(sched, sched') /\ UNCHANGED <<km_holder, blocked, locked>>

\* A key is pressed that nobody waits for.
Interrupt == InterruptsOpen(sched) /\ SchedOnly(interrupt(sched, sched))
-----------------------------------------------------------------------------
Next ==
    \/ \E m \in Mutexes : kmutex_lock(m) \/ kmutex_lock_cancellable(m) \/ kmutex_unlock(m)
    \/ lock_return
    \/ \E t \in Threads : Spawn(t) \/ KthreadCancel(t)
    \/ Yield \/ Switch \/ Interrupt

Spec == Init /\ [][Next]_vars

\* The kernel with the tests of proc/faber_test.c, which call sched_cancel.
NextSchedCancel == Next \/ \E t \in Threads : SchedCancel(t)

SpecSchedCancel == Init /\ [][NextSchedCancel]_vars

(***************************************************************************)
(* The CPU keeps executing, threads finish the lock call they are in, and  *)
(* critical sections end: a thread that is scheduled again and again with  *)
(* a mutex unlocks it.                                                     *)
(***************************************************************************)
Fairness ==
    /\ WF_vars(Switch)
    /\ WF_vars(lock_return)
    /\ WF_vars(Yield)
    /\ \A t \in Threads, m \in Mutexes : SF_vars(sched.curthr = t /\ kmutex_unlock(m))

FairSpec == Spec /\ Fairness
-----------------------------------------------------------------------------
\* The types of the mutex state.
TypeOK ==
    /\ sched \in SchedStates
    /\ km_holder \in [Mutexes -> Threads \cup {NoThread}]
    /\ blocked \in [Threads -> Mutexes \cup {NoMutex}]
    /\ locked \in [Threads -> SUBSET Mutexes]

\* Two threads never have the same mutex locked, although kmutex_lock sets
\* km_holder again after its sleep without looking at it, and no KASSERT of
\* kmutex.c fails: whoever unlocks a mutex is its km_holder.
MutualExclusion ==
    /\ TypeOK
    /\ \A m \in Mutexes : \A t, u \in Threads : m \in locked[t] \cap locked[u] => t = u
    /\ sched.asserts

\* A lock call that returned success means the caller is km_holder until it
\* unlocks ("0 if the current thread now holds the mutex", kmutex.h).
LockedMeansHolder ==
    \A t \in Threads : \A m \in locked[t] : km_holder[m] = t

\* Nobody sleeps on a free mutex: kmutex_unlock leaves no waiter behind.
NoWaiterOnFreeMutex ==
    \A m \in Mutexes : km_holder[m] = NoThread => sched_queue_empty(sched, km_waitq[m])

\* Threads that wait for each other's mutexes: kmutex.c does not prevent it.
CircularWait ==
    \E S \in SUBSET Threads \ {{}} : \A t \in S :
        blocked[t] # NoMutex /\ km_holder[blocked[t]] \in S \ {t}

\* A thread asleep in a lock call gets the mutex in the end, unless threads
\* wait for each other in a circle: the queue is served in order and the woken
\* thread already owns the mutex, so nobody overtakes it.
WaiterGetsMutex ==
    \A t \in Threads, m \in Mutexes : blocked[t] = m ~> m \in locked[t] \/ CircularWait

\* kmutex.c implements the abstract mutex: exclusive, first come first
\* served, with direct hand-over on unlock.
Abstract == INSTANCE Mutex WITH
    owner <- km_holder,
    waiters <- [m \in Mutexes |-> sched.tq_list[km_waitq[m]]]

\* The abstract mutex's specification, a property of this one.
ImplementsMutex == Abstract!Spec
=============================================================================
