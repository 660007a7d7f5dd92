---------------------------- MODULE KmutexProofs -----------------------------
(***************************************************************************)
(* The mutexes of Kmutex exclude one another's holders and implement       *)
(* Mutex, for any number of threads and mutexes, when nobody calls         *)
(* sched_cancel.                                                           *)
(***************************************************************************)
EXTENDS Kmutex, SchedCoreProofs

\* What is known of a mutex besides the scheduler's invariant: its holder has
\* locked it or is about to return from the sleep in which it was handed over;
\* a thread in that sleep is the holder or still queued; and whoever is queued
\* is in the lock call of a mutex that another thread holds.
HolderKnows ==
    \A m \in Mutexes : km_holder[m] # NoThread =>
        m \in locked[km_holder[m]] \/ blocked[km_holder[m]] = m

BlockedWaits ==
    \A t \in Threads, m \in Mutexes : blocked[t] = m =>
        km_holder[m] = t \/ sched.kt_wchan[t] = km_waitq[m]

WaitersBlocked ==
    \A t \in Threads, m \in Mutexes : sched.kt_wchan[t] = km_waitq[m] =>
        blocked[t] = m /\ km_holder[m] # NoThread /\ km_holder[m] # t

MutexTypes ==
    /\ km_holder \in [Mutexes -> Threads \cup {NoThread}]
    /\ blocked \in [Threads -> Mutexes \cup {NoMutex}]
    /\ locked \in [Threads -> SUBSET Mutexes]

MutexInv == MutexTypes /\ LockedMeansHolder /\ HolderKnows /\ BlockedWaits /\ WaitersBlocked

Inv == SchedInv(sched) /\ MutexInv
-----------------------------------------------------------------------------
(***************************************************************************)
(* Every step preserves Inv.                                               *)
(***************************************************************************)
\* Initially all mutexes are free and all queues empty.
LEMMA InitEstablishesInv == Init => Inv
<1> SUFFICES ASSUME Init PROVE Inv
  OBVIOUS
<1>1. SchedInv(sched)
  BY InitInv DEF Init
<1>2. MutexTypes /\ LockedMeansHolder /\ HolderKnows
  BY DEF Init, MutexTypes, LockedMeansHolder, HolderKnows
<1>3. \A t \in Threads : sched.kt_wchan[t] = NoQueue
  BY DEF Init, SchedInit
<1>4. BlockedWaits
  BY KmutexAssumption DEF Init, BlockedWaits
<1>5. WaitersBlocked
  BY <1>3, KmutexAssumption, QueueAssumption DEF WaitersBlocked
<1> QED BY <1>1, <1>2, <1>4, <1>5 DEF Inv, MutexInv

\* A step of the scheduler that leaves the wait queues alone.
LEMMA SchedOnlyKeepsInv ==
    ASSUME Inv, SchedInv(sched'), SameWaits(sched, sched'),
           UNCHANGED <<km_holder, blocked, locked>>
    PROVE  Inv'
<1>1. (MutexTypes /\ LockedMeansHolder /\ HolderKnows)'
  BY DEF Inv, MutexInv, MutexTypes, LockedMeansHolder, HolderKnows
<1>2. \A t \in Threads, m \in Mutexes :
          sched'.kt_wchan[t] = km_waitq[m] <=> sched.kt_wchan[t] = km_waitq[m]
  BY KmutexAssumption DEF SameWaits
<1>3. BlockedWaits'
  BY <1>2 DEF Inv, MutexInv, BlockedWaits
<1>4. WaitersBlocked'
  BY <1>2 DEF Inv, MutexInv, WaitersBlocked
<1> QED BY <1>1, <1>3, <1>4 DEF Inv, MutexInv

\* A thread that executes has no reason to fail the KASSERT of the lock calls.
LEMMA LockIsChecked ==
    ASSUME Inv, Executing, NEW m \in Mutexes, m \notin locked[sched.curthr]
    PROVE  /\ CheckedLock(m) = sched
           /\ sched.curthr \in Threads
           /\ sched.curthr # km_holder[m]
           /\ sched.kt_wchan[sched.curthr] = NoQueue
<1>1. sched \in SchedStates /\ sched.asserts
  BY DEF Inv, SchedInv
<1>2. sched.curthr \in Threads /\ sched.kt_wchan[sched.curthr] = NoQueue
  BY <1>1 DEF Inv, SchedInv, CurrentThread, Executing, SchedStates
<1>3. sched.curthr # km_holder[m]
  BY <1>2, KmutexAssumption DEF Inv, MutexInv, HolderKnows, Executing
<1>4. CheckedLock(m) = sched
  BY <1>1, <1>3, TrueAssert, Zenon DEF CheckedLock
<1> QED BY <1>2, <1>3, <1>4

\* Taking a free mutex: nobody waits for it.
LEMMA TakeFreeKeepsInv ==
    ASSUME Inv, Executing, NEW m \in Mutexes, m \notin locked[sched.curthr], TakeFree(m)
    PROVE  Inv'
<1> DEFINE c == sched.curthr
<1>1. sched' = sched /\ c \in Threads /\ c # NoThread
  BY LockIsChecked, KmutexAssumption DEF TakeFree
<1>2. MutexTypes'
  BY <1>1 DEF Inv, MutexInv, MutexTypes, TakeFree
<1>3. LockedMeansHolder'
  BY <1>1, KmutexAssumption DEF Inv, MutexInv, MutexTypes, LockedMeansHolder, TakeFree
<1>4. HolderKnows'
  BY <1>1 DEF Inv, MutexInv, MutexTypes, HolderKnows, TakeFree
<1>5. BlockedWaits' /\ WaitersBlocked'
  BY <1>1, KmutexAssumption DEF Inv, MutexInv, MutexTypes, BlockedWaits, WaitersBlocked, TakeFree
<1> QED BY <1>1, <1>2, <1>3, <1>4, <1>5 DEF Inv, MutexInv

\* The sleep of a lock call: the mutex has another holder.
LEMMA SleepKeepsInv ==
    ASSUME Inv, Executing, NEW m \in Mutexes, m \notin locked[sched.curthr],
           NEW n, Slept(sched, n, km_waitq[m]), SleepOnMutex(m, n)
    PROVE  Inv'
<1> DEFINE c == sched.curthr
<1>1. c \in Threads /\ c # km_holder[m] /\ sched.kt_wchan[c] = NoQueue /\ blocked[c] = NoMutex
  BY LockIsChecked DEF Executing
<1>2. SchedInv(sched') /\ sched'.kt_wchan = [sched.kt_wchan EXCEPT ![c] = km_waitq[m]]
  BY DEF SleepOnMutex, Slept
<1>3. sched.kt_wchan \in WchanFuns
  BY FieldTypes DEF Inv, SchedInv
<1>4. MutexTypes' /\ LockedMeansHolder'
  BY <1>1 DEF Inv, MutexInv, MutexTypes, LockedMeansHolder, SleepOnMutex
<1>5. HolderKnows'
  BY <1>1, KmutexAssumption DEF Inv, MutexInv, MutexTypes, HolderKnows, SleepOnMutex
<1>6. BlockedWaits'
  BY <1>1, <1>2, <1>3, KmutexAssumption
     DEF Inv, MutexInv, MutexTypes, BlockedWaits, SleepOnMutex, WchanFuns
<1>7. WaitersBlocked'
  BY <1>1, <1>2, <1>3, KmutexAssumption
     DEF Inv, MutexInv, MutexTypes, WaitersBlocked, SleepOnMutex, WchanFuns
<1> QED BY <1>2, <1>4, <1>5, <1>6, <1>7 DEF Inv, MutexInv

\* The thread that returns from its sleep was made the holder before.
LEMMA ReturnsAsHolder ==
    ASSUME Inv, lock_return
    PROVE  /\ sched.curthr \in Threads
           /\ blocked[sched.curthr] \in Mutexes
           /\ km_holder[blocked[sched.curthr]] = sched.curthr
<1>1. sched.curthr \in Threads /\ sched.kt_wchan[sched.curthr] = NoQueue
  BY FieldTypes DEF Inv, SchedInv, CurrentThread, lock_return
<1>2. blocked[sched.curthr] \in Mutexes
  BY <1>1 DEF Inv, MutexInv, MutexTypes, lock_return
<1> QED BY <1>1, <1>2, KmutexAssumption, QueueAssumption DEF Inv, MutexInv, BlockedWaits

\* The return from the sleep, after which the holder has the mutex locked.
LEMMA ReturnKeepsInv ==
    ASSUME Inv, lock_return
    PROVE  Inv'
<1> DEFINE c == sched.curthr
           m == blocked[c]
<1>1. c \in Threads /\ m \in Mutexes /\ km_holder[m] = c
  BY ReturnsAsHolder
<1>2. sched' = sched /\ km_holder' = km_holder
  BY <1>1 DEF lock_return, Inv, MutexInv, MutexTypes
<1>3. MutexTypes' /\ LockedMeansHolder'
  BY <1>1, <1>2 DEF Inv, MutexInv, MutexTypes, LockedMeansHolder, lock_return
<1>4. HolderKnows'
  BY <1>1, <1>2, KmutexAssumption DEF Inv, MutexInv, MutexTypes, HolderKnows, lock_return
<1>5. BlockedWaits'
  BY <1>1, <1>2, KmutexAssumption DEF Inv, MutexInv, MutexTypes, BlockedWaits, lock_return
<1>6. sched.kt_wchan[c] = NoQueue
  BY DEF Inv, SchedInv, CurrentThread, lock_return
<1>7. WaitersBlocked'
  BY <1>1, <1>2, <1>6, KmutexAssumption, QueueAssumption
     DEF Inv, MutexInv, MutexTypes, WaitersBlocked, lock_return
<1> QED BY <1>2, <1>3, <1>4, <1>5, <1>7 DEF Inv, MutexInv

\* Whoever unlocks is the holder, and a thread that is handed the mutex comes
\* from the mutex's queue: no KASSERT of kmutex_unlock fails.
LEMMA UnlockIsChecked ==
    ASSUME Inv, NEW m \in Mutexes, kmutex_unlock(m)
    PROVE  LET q == km_waitq[m]
               h == Head(sched.tq_list[q])
           IN  /\ sched.curthr \in Threads
               /\ q \in Queues
               /\ km_holder[m] = sched.curthr
               /\ sched' = sched_wakeup_on(sched, q)
               /\ ~ sched_queue_empty(sched, q) =>
                    /\ h \in Threads /\ h # sched.curthr
                    /\ sched.kt_wchan[h] = q
                    /\ Woken(sched, sched', q, h)
<1> DEFINE c == sched.curthr
           q == km_waitq[m]
           h == Head(sched.tq_list[q])
           holder == IF sched_queue_empty(sched, q) THEN NoThread ELSE h
           w == sched_wakeup_on(sched, q)
<1>1. c \in Threads /\ sched.kt_wchan[c] = NoQueue
  BY FieldTypes DEF Inv, SchedInv, CurrentThread, kmutex_unlock, Executing
<1>2. q \in Queues /\ q # NoQueue
  BY KmutexAssumption, QueueAssumption
<1>3. km_holder[m] = c
  BY <1>1 DEF Inv, MutexInv, LockedMeansHolder, kmutex_unlock
<1>4. SchedInv(w)
  BY <1>2, WakeupInv DEF Inv
<1>5. ASSUME ~ sched_queue_empty(sched, q)
      PROVE  h \in Threads /\ sched.kt_wchan[h] = q /\ Woken(sched, w, q, h)
  BY <1>2, <1>5, WakeupFields DEF Inv
<1>6. ASSUME ~ sched_queue_empty(sched, q) PROVE h # c
  BY <1>1, <1>2, <1>5, <1>6
<1>7. c # holder
  BY <1>1, <1>6, KmutexAssumption
<1>8. sched' = [w EXCEPT !.asserts = @ /\ c = km_holder[m] /\ c # holder]
  BY DEF kmutex_unlock
<1> HIDE DEF w, holder
<1>9. sched' = w
  <2>1. w \in SchedStates /\ w.asserts
    BY <1>4 DEF SchedInv
  <2>2. (w.asserts /\ c = km_holder[m] /\ c # holder) = w.asserts
    BY <1>3, <1>7, <2>1 DEF SchedStates
  <2> QED BY <1>8, <2>1, <2>2, Zenon DEF SchedStates
<1> QED BY <1>1, <1>2, <1>3, <1>5, <1>6, <1>9 DEF w

\* kmutex_unlock: the mutex is free, or its first waiter's.
LEMMA UnlockKeepsInv ==
    ASSUME Inv, NEW m \in Mutexes, kmutex_unlock(m)
    PROVE  Inv'
<1> DEFINE c == sched.curthr
           q == km_waitq[m]
           h == Head(sched.tq_list[q])
<1>0. c \in Threads /\ q \in Queues /\ km_holder[m] = c /\ sched' = sched_wakeup_on(sched, q)
  BY UnlockIsChecked
<1>1. SchedInv(sched')
  BY <1>0, WakeupInv DEF Inv
<1>2. MutexTypes
  BY DEF Inv, MutexInv
<1>3. /\ blocked' = blocked
      /\ locked' = [locked EXCEPT ![c] = @ \ {m}]
  BY DEF kmutex_unlock
<1>4. CASE sched_queue_empty(sched, q)
  <2>1. sched' = sched /\ km_holder' = [km_holder EXCEPT ![m] = NoThread]
    BY <1>0, <1>4 DEF kmutex_unlock, sched_wakeup_on
  <2>2. MutexTypes'
    BY <1>0, <1>2, <1>3, <2>1 DEF MutexTypes
  <2>3. LockedMeansHolder'
    BY <1>0, <1>2, <1>3, <2>1 DEF Inv, MutexInv, MutexTypes, LockedMeansHolder
  <2>4. HolderKnows'
    BY <1>0, <1>2, <1>3, <2>1 DEF Inv, MutexInv, MutexTypes, HolderKnows
  <2>5. \A t \in Threads : sched.kt_wchan[t] # q
    BY <1>0, <1>4, QueueAssumption
       DEF Inv, SchedInv, QueueAgreement, Agree, sched_queue_empty, AllQueues
  <2>6. blocked[c] = NoMutex
    BY DEF kmutex_unlock, Executing
  <2>7. BlockedWaits'
    BY <1>0, <1>2, <1>3, <2>1, <2>5, <2>6, KmutexAssumption
       DEF Inv, MutexInv, MutexTypes, BlockedWaits
  <2>8. WaitersBlocked'
    BY <1>0, <1>2, <1>3, <2>1, <2>5, KmutexAssumption
       DEF Inv, MutexInv, MutexTypes, WaitersBlocked
  <2> QED BY <1>1, <2>2, <2>3, <2>4, <2>7, <2>8 DEF Inv, MutexInv
<1>5. CASE ~ sched_queue_empty(sched, q)
  <2>1. h \in Threads /\ h # c /\ sched.kt_wchan[h] = q /\ Woken(sched, sched', q, h)
    BY <1>5, UnlockIsChecked
  <2>2. km_holder' = [km_holder EXCEPT ![m] = h]
    BY <1>5 DEF kmutex_unlock
  <2>3. sched'.kt_wchan = [sched.kt_wchan EXCEPT ![h] = RunQ] /\ sched.kt_wchan \in WchanFuns
    BY <2>1, FieldTypes DEF Woken, Inv, SchedInv
  <2>4. blocked[h] = m
    BY <2>1 DEF Inv, MutexInv, WaitersBlocked
  <2>5. blocked[c] = NoMutex
    BY DEF kmutex_unlock, Executing
  <2> HIDE DEF h, c, q
  <2>6. MutexTypes'
    BY <1>0, <1>2, <1>3, <2>1, <2>2 DEF MutexTypes
  <2>7. LockedMeansHolder'
    BY <1>0, <1>2, <1>3, <2>1, <2>2 DEF Inv, MutexInv, MutexTypes, LockedMeansHolder
  <2>8. HolderKnows'
    BY <1>0, <1>2, <1>3, <2>1, <2>2, <2>4, KmutexAssumption
       DEF Inv, MutexInv, MutexTypes, HolderKnows
  <2>9. BlockedWaits'
    BY <1>0, <1>2, <1>3, <2>1, <2>2, <2>3, <2>4, <2>5, KmutexAssumption
       DEF Inv, MutexInv, MutexTypes, BlockedWaits, WchanFuns
  <2>10. WaitersBlocked'
    <3> SUFFICES ASSUME NEW t \in Threads, NEW k \in Mutexes, sched'.kt_wchan[t] = km_waitq[k]
                 PROVE  blocked[t] = k /\ km_holder'[k] # NoThread /\ km_holder'[k] # t
      BY <1>3 DEF WaitersBlocked
    <3>1. t # h /\ sched.kt_wchan[t] = km_waitq[k]
      BY <2>1, <2>3, KmutexAssumption, QueueAssumption DEF WchanFuns
    <3>2. blocked[t] = k /\ km_holder[k] # NoThread /\ km_holder[k] # t
      BY <3>1 DEF Inv, MutexInv, WaitersBlocked
    <3> QED BY <1>2, <2>1, <2>2, <3>1, <3>2, KmutexAssumption DEF MutexTypes
  <2> QED BY <1>1, <2>6, <2>7, <2>8, <2>9, <2>10 DEF Inv, MutexInv
<1> QED BY <1>4, <1>5

\* The invariant is inductive: one step per action.
LEMMA NextPreservesInv == Inv /\ [Next]_vars => Inv'
<1> SUFFICES ASSUME Inv, [Next]_vars PROVE Inv'
  OBVIOUS
<1>0. SchedInv(sched) /\ \A m \in Mutexes : km_waitq[m] \in Queues
  BY KmutexAssumption DEF Inv
<1>1. ASSUME NEW m \in Mutexes, kmutex_lock(m) PROVE Inv'
  <2>1. CheckedLock(m) = sched
    BY <1>1, LockIsChecked DEF kmutex_lock
  <2>2. Slept(sched, sched_sleep_on(sched, km_waitq[m]), km_waitq[m])
    BY <1>0, <1>1, LockSleeps DEF kmutex_lock, Executing
  <2> QED BY <1>1, <2>1, <2>2, TakeFreeKeepsInv, SleepKeepsInv DEF kmutex_lock
<1>2. ASSUME NEW m \in Mutexes, kmutex_lock_cancellable(m) PROVE Inv'
  <2> DEFINE n == sched_cancellable_sleep_on(sched, km_waitq[m])
  <2>0. Executing /\ m \notin locked[sched.curthr] /\ sched.cpu = "run"
    BY <1>2 DEF kmutex_lock_cancellable, Executing
  <2>1. CheckedLock(m) = sched
    BY <2>0, LockIsChecked
  <2>2. CASE TakeFree(m)
    BY <2>0, <2>2, TakeFreeKeepsInv
  <2>3. CASE ~ cancelled_already(sched) /\ SleepOnMutex(m, n)
    BY <1>0, <2>0, <2>3, LockSleeps, SleepKeepsInv
  <2>4. CASE cancelled_already(sched) /\ SchedOnly(n)
    <3>1. SchedInv(n) /\ SameWaits(sched, n)
      BY <1>0, <2>0, <2>4, EarlyReturnWaits
    <3> QED BY <2>4, <3>1, SchedOnlyKeepsInv DEF SchedOnly
  <2> QED BY <1>2, <2>1, <2>2, <2>3, <2>4 DEF kmutex_lock_cancellable
<1>3. ASSUME NEW m \in Mutexes, kmutex_unlock(m) PROVE Inv'
  BY <1>3, UnlockKeepsInv
<1>4. CASE lock_return
  BY <1>4, ReturnKeepsInv
<1>5. ASSUME NEW t \in Threads, Spawn(t) PROVE Inv'
  BY <1>0, <1>5, SpawnWaits, SchedOnlyKeepsInv DEF Spawn, SchedOnly
<1>6. ASSUME NEW t \in Threads, KthreadCancel(t) PROVE Inv'
  BY <1>0, <1>6, KthreadCancelInv, KthreadCancelWaits, SchedOnlyKeepsInv
     DEF KthreadCancel, SchedOnly
<1>7. CASE Yield
  BY <1>0, <1>7, YieldInv, YieldWaits, SchedOnlyKeepsInv DEF Yield, Executing, SchedOnly
<1>8. CASE Switch
  BY <1>0, <1>8, SwitchInv, SwitchWaits, SchedOnlyKeepsInv DEF Switch
<1>9. CASE Interrupt
  BY <1>0, <1>9, InterruptWaits, SchedOnlyKeepsInv DEF Interrupt, SchedOnly
<1>10. CASE UNCHANGED vars
  BY <1>0, <1>10, SchedOnlyKeepsInv DEF vars, SameWaits
<1> QED BY <1>1, <1>2, <1>3, <1>4, <1>5, <1>6, <1>7, <1>8, <1>9, <1>10 DEF Next

\* The mutexes' invariant, on top of the scheduler's, holds in every state.
THEOREM InvIsInvariant == Spec => []Inv
  BY InitEstablishesInv, NextPreservesInv, PTL DEF Spec

\* Two threads never have one mutex locked and no KASSERT of kmutex.c fails,
\* however many threads lock, cancellably or not, in whatever order.
THEOREM MutexExcludes == Spec => []MutualExclusion
<1>1. Inv => MutualExclusion
  BY DEF Inv, MutexInv, MutexTypes, SchedInv, MutualExclusion, TypeOK, LockedMeansHolder
<1> QED BY <1>1, InvIsInvariant, PTL

\* kmutex_unlock leaves nobody asleep on a free mutex.
THEOREM FreeMutexHasNoWaiter == Spec => []NoWaiterOnFreeMutex
<1>1. Inv => NoWaiterOnFreeMutex
  <2> SUFFICES ASSUME Inv, NEW m \in Mutexes, km_holder[m] = NoThread,
                      sched.tq_list[km_waitq[m]] # << >>
               PROVE  FALSE
    BY DEF NoWaiterOnFreeMutex, sched_queue_empty
  <2>1. km_waitq[m] \in Queues /\ SchedInv(sched)
    BY KmutexAssumption DEF Inv
  <2>2. /\ Head(sched.tq_list[km_waitq[m]]) \in Threads
        /\ sched.kt_wchan[Head(sched.tq_list[km_waitq[m]])] = km_waitq[m]
    BY <2>1, WakeupFields DEF sched_queue_empty
  <2> QED BY <2>2 DEF Inv, MutexInv, WaitersBlocked
<1> QED BY <1>1, InvIsInvariant, PTL

\* A lock call that returned success means the caller is km_holder until it
\* unlocks: what kmutex.h promises holds as long as nobody calls sched_cancel.
THEOREM LockedThreadIsHolder == Spec => []LockedMeansHolder
<1>1. Inv => LockedMeansHolder
  BY DEF Inv, MutexInv
<1> QED BY <1>1, InvIsInvariant, PTL
-----------------------------------------------------------------------------
(***************************************************************************)
(* Every step is a step of Mutex or leaves its variables alone.            *)
(***************************************************************************)
waiters == [m \in Mutexes |-> sched.tq_list[km_waitq[m]]]

\* The scheduler's own steps stutter.
LEMMA SameWaitsStutters ==
    ASSUME SameWaits(sched, sched'), km_holder' = km_holder
    PROVE  UNCHANGED Abstract!vars
  BY KmutexAssumption DEF SameWaits, Abstract!vars

\* Falling asleep in a lock call is the abstract wait.
LEMMA SleepIsWait ==
    ASSUME Inv, Executing, NEW m \in Mutexes, m \notin locked[sched.curthr],
           NEW n, Slept(sched, n, km_waitq[m]), SleepOnMutex(m, n)
    PROVE  Abstract!Wait(sched.curthr, m)
<1>1. km_holder[m] # NoThread /\ sched.curthr # km_holder[m]
  BY LockIsChecked DEF SleepOnMutex
<1>2. sched.tq_list \in QueueFuns
  BY FieldTypes DEF Inv, SchedInv
<1>3. sched'.tq_list = [sched.tq_list EXCEPT ![km_waitq[m]] = Append(@, sched.curthr)]
  BY DEF SleepOnMutex, Slept
<1>4. waiters' = [waiters EXCEPT ![m] = Append(@, sched.curthr)]
  BY <1>2, <1>3, KmutexAssumption DEF waiters, QueueFuns, AllQueues
<1> QED BY <1>1, <1>4 DEF Abstract!Wait, SleepOnMutex, waiters

\* An unlock releases the mutex or hands it over to the first waiter.
LEMMA UnlockIsRelease ==
    ASSUME Inv, NEW m \in Mutexes, kmutex_unlock(m)
    PROVE  Abstract!Release(m) \/ Abstract!HandOver(m)
<1> DEFINE q == km_waitq[m]
           h == Head(sched.tq_list[q])
<1>1. /\ km_holder[m] # NoThread /\ q \in Queues
      /\ sched' = sched_wakeup_on(sched, q)
  BY UnlockIsChecked, KmutexAssumption
<1>2. waiters[m] = sched.tq_list[q]
  BY DEF waiters
<1>3. CASE sched_queue_empty(sched, q)
  <2>1. sched' = sched /\ km_holder' = [km_holder EXCEPT ![m] = NoThread]
    BY <1>1, <1>3 DEF kmutex_unlock, sched_wakeup_on
  <2>2. waiters' = waiters /\ waiters[m] = << >>
    BY <1>2, <1>3, <2>1 DEF waiters, sched_queue_empty
  <2> QED BY <1>1, <2>1, <2>2 DEF Abstract!Release, waiters
<1>4. CASE ~ sched_queue_empty(sched, q)
  <2>1. sched'.tq_list = [sched.tq_list EXCEPT ![q] = Tail(@), ![RunQ] = Append(@, h)]
    BY <1>4, UnlockIsChecked DEF Woken
  <2>2. sched.tq_list \in QueueFuns
    BY FieldTypes DEF Inv, SchedInv
  <2>3. waiters' = [waiters EXCEPT ![m] = Tail(@)]
    <3>1. sched'.tq_list[q] = Tail(sched.tq_list[q])
      BY <1>1, <2>1, <2>2, QueueAssumption DEF QueueFuns, AllQueues
    <3>2. ASSUME NEW k \in Mutexes, k # m
          PROVE  sched'.tq_list[km_waitq[k]] = sched.tq_list[km_waitq[k]]
      <4>1. km_waitq[k] \in Queues /\ km_waitq[k] # q /\ km_waitq[k] # RunQ
        BY <3>2, KmutexAssumption, QueueAssumption
      <4> QED BY <2>1, <2>2, <4>1 DEF QueueFuns, AllQueues
    <3> QED BY <3>1, <3>2 DEF waiters
  <2>4. km_holder' = [km_holder EXCEPT ![m] = Head(waiters[m])] /\ waiters[m] # << >>
    BY <1>2, <1>4 DEF kmutex_unlock, sched_queue_empty
  <2> QED BY <1>1, <2>3, <2>4 DEF Abstract!HandOver, waiters
<1> QED BY <1>3, <1>4

\* A step is one of the abstract mutex, or leaves owners and waiters alone.
LEMMA StepRefines == Inv /\ [Next]_vars => [Abstract!Next]_(Abstract!vars)
<1> SUFFICES ASSUME Inv, [Next]_vars
             PROVE  Abstract!Next \/ UNCHANGED Abstract!vars
  OBVIOUS
<1>0. SchedInv(sched) /\ \A m \in Mutexes : km_waitq[m] \in Queues
  BY KmutexAssumption DEF Inv
<1>1. ASSUME NEW m \in Mutexes, Executing, m \notin locked[sched.curthr], TakeFree(m)
      PROVE  Abstract!Next
  <2>1. sched' = sched /\ sched.curthr \in Threads
    BY <1>1, LockIsChecked DEF TakeFree
  <2>2. Abstract!Acquire(sched.curthr, m)
    BY <1>1, <2>1 DEF TakeFree, Abstract!Acquire
  <2> QED BY <2>1, <2>2 DEF Abstract!Next
<1>2. ASSUME NEW m \in Mutexes, Executing, m \notin locked[sched.curthr],
             NEW n, Slept(sched, n, km_waitq[m]), SleepOnMutex(m, n)
      PROVE  Abstract!Next
  <2>1. sched.curthr \in Threads
    BY <1>2, LockIsChecked
  <2>2. Abstract!Wait(sched.curthr, m)
    BY <1>2, SleepIsWait
  <2> QED BY <2>1, <2>2 DEF Abstract!Next
<1>3. ASSUME NEW m \in Mutexes, kmutex_lock(m) PROVE Abstract!Next
  <2>1. CheckedLock(m) = sched
    BY <1>3, LockIsChecked DEF kmutex_lock
  <2>2. Slept(sched, sched_sleep_on(sched, km_waitq[m]), km_waitq[m])
    BY <1>0, <1>3, LockSleeps DEF kmutex_lock, Executing
  <2> QED BY <1>1, <1>2, <1>3, <2>1, <2>2 DEF kmutex_lock
<1>4. ASSUME NEW m \in Mutexes, kmutex_lock_cancellable(m)
      PROVE  Abstract!Next \/ UNCHANGED Abstract!vars
  <2> DEFINE n == sched_cancellable_sleep_on(sched, km_waitq[m])
  <2>0. Executing /\ m \notin locked[sched.curthr] /\ sched.cpu = "run"
    BY <1>4 DEF kmutex_lock_cancellable, Executing
  <2>1. CheckedLock(m) = sched
    BY <2>0, LockIsChecked
  <2>2. CASE TakeFree(m)
    BY <1>1, <2>0, <2>2
  <2>3. CASE ~ cancelled_already(sched) /\ SleepOnMutex(m, n)
    BY <1>0, <1>2, <2>0, <2>3, LockSleeps
  <2>4. CASE cancelled_already(sched) /\ SchedOnly(n)
    BY <1>0, <2>0, <2>4, EarlyReturnWaits, SameWaitsStutters DEF SchedOnly
  <2> QED BY <1>4, <2>1, <2>2, <2>3, <2>4 DEF kmutex_lock_cancellable
<1>5. ASSUME NEW m \in Mutexes, kmutex_unlock(m) PROVE Abstract!Next
  BY <1>5, UnlockIsRelease DEF Abstract!Next
<1>6. ASSUME lock_return PROVE UNCHANGED Abstract!vars
  <2>1. sched' = sched /\ km_holder' = km_holder
    BY <1>6, ReturnsAsHolder DEF lock_return, Inv, MutexInv, MutexTypes
  <2> QED BY <2>1 DEF Abstract!vars
<1>7. ASSUME NEW t \in Threads, Spawn(t) PROVE UNCHANGED Abstract!vars
  BY <1>0, <1>7, SpawnWaits, SameWaitsStutters DEF Spawn, SchedOnly
<1>8. ASSUME NEW t \in Threads, KthreadCancel(t) PROVE UNCHANGED Abstract!vars
  BY <1>0, <1>8, KthreadCancelWaits, SameWaitsStutters DEF KthreadCancel, SchedOnly
<1>9. ASSUME Yield PROVE UNCHANGED Abstract!vars
  BY <1>0, <1>9, YieldWaits, SameWaitsStutters DEF Yield, Executing, SchedOnly
<1>10. ASSUME Switch PROVE UNCHANGED Abstract!vars
  BY <1>0, <1>10, SwitchWaits, SameWaitsStutters DEF Switch
<1>11. ASSUME Interrupt PROVE UNCHANGED Abstract!vars
  BY <1>0, <1>11, InterruptWaits, SameWaitsStutters DEF Interrupt, SchedOnly
<1>12. ASSUME UNCHANGED vars PROVE UNCHANGED Abstract!vars
  BY <1>12 DEF vars, Abstract!vars
<1> QED BY <1>3, <1>4, <1>5, <1>6, <1>7, <1>8, <1>9, <1>10, <1>11, <1>12 DEF Next

\* kmutex.c implements the abstract mutex, first come first served with direct
\* hand-over, for any number of threads and mutexes.
THEOREM KmutexImplementsMutex == Spec => ImplementsMutex
<1>1. Init => Abstract!Init
  BY KmutexAssumption DEF Init, SchedInit, AllQueues, Abstract!Init
<1> QED BY <1>1, StepRefines, InvIsInvariant, PTL DEF Spec, ImplementsMutex, Abstract!Spec
=============================================================================
