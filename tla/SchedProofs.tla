----------------------------- MODULE SchedProofs -----------------------------
(***************************************************************************)
(* The scheduler of Sched keeps SchedInv, for any number of threads, wait  *)
(* queues and devices.  SchedInv is inductive by itself: its conjuncts     *)
(* need one another (NoneLost needs to know that a sleeper is found on the *)
(* queue its kt_wchan names, the KASSERTs of ktqueue_enqueue need to know  *)
(* that the current thread is on no queue).                                *)
(***************************************************************************)
EXTENDS Sched, SchedCoreProofs

Inv ==
    /\ SchedInv(sched)
    /\ oldipl \in [Threads -> {IPL_LOW, IPL_HIGH, NoIo}]
    /\ pending \subseteq Devices

\* The state that bootstrap leaves satisfies the invariant.
LEMMA InitEstablishesInv == Init => Inv
  BY InitInv DEF Init, Inv

\* The invariant is inductive: one step per action.
LEMMA NextPreservesInv == Inv /\ [Next]_vars => Inv'
<1> SUFFICES ASSUME Inv, [Next]_vars PROVE Inv'
  OBVIOUS
<1> USE DEF Inv
<1>0. sched.ipl \in {IPL_LOW, IPL_HIGH} /\ sched.curthr \in Threads
  BY FieldTypes DEF SchedInv
<1>1. ASSUME NEW t \in Threads, Create(t) PROVE Inv'
  BY <1>1, CreateInv DEF Create, Call
<1>2. ASSUME NEW t \in Threads, Start(t) PROVE Inv'
  BY <1>2, StartInv DEF Start, Call
<1>3. ASSUME NEW t \in Threads, Reap(t) PROVE Inv'
  BY <1>3, DestroyInv DEF Reap, Call
<1>4. ASSUME NEW q \in WaitQueues, Sleep(q) PROVE Inv'
  BY <1>4, SleepInv DEF Sleep, Call, Executing, WaitQueues
<1>5. ASSUME NEW q \in WaitQueues, CancellableSleep(q) PROVE Inv'
  BY <1>5, CancellableSleepInv DEF CancellableSleep, Call, Executing, WaitQueues
<1>6. ASSUME NEW q \in WaitQueues, Wakeup(q) PROVE Inv'
  BY <1>6, WakeupInv DEF Wakeup, Call, WaitQueues
<1>7. ASSUME NEW q \in WaitQueues, Broadcast(q) PROVE Inv'
  BY <1>7, BroadcastInv DEF Broadcast, Call, WaitQueues
<1>8. ASSUME NEW t \in Threads, SchedCancel(t) PROVE Inv'
  BY <1>8, SchedCancelInv DEF SchedCancel, Call
<1>9. ASSUME NEW t \in Threads, KthreadCancel(t) PROVE Inv'
  BY <1>9, KthreadCancelInv DEF KthreadCancel, Call
<1>10. CASE Yield
  BY <1>10, YieldInv DEF Yield, Call, Executing
<1>11. CASE Exit
  BY <1>11, ExitInv DEF Exit, Call, Executing
<1>12. ASSUME NEW d \in Devices, DeviceIo(d) PROVE Inv'
  <2> DEFINE s == [sched EXCEPT !.ipl = IPL_HIGH]
  <2>1. SchedInv(s) /\ s.cpu = "run"
    BY Zenon, <1>12, SetIplInv DEF DeviceIo, Executing
  <2> HIDE DEF s
  <2>2. SchedInv(sched_sleep_on(s, d))
    BY <2>1, SleepInv, DeviceAssumption
  <2>3. SchedInv(sched')
    BY <1>12, <2>2 DEF DeviceIo, s
  <2> QED BY <1>0, <1>12, <2>3 DEF DeviceIo
<1>13. CASE DeviceDone
  <2>1. oldipl[sched.curthr] \in {IPL_LOW, IPL_HIGH}
    BY <1>0, <1>13 DEF DeviceDone
  <2>2. SchedInv(sched')
    BY Zenon, <1>13, <2>1, SetIplInv DEF DeviceDone
  <2> QED BY <1>0, <1>13, <2>2 DEF DeviceDone
<1>14. ASSUME NEW d \in Devices, Interrupt(d) PROVE Inv'
  <2> DEFINE h == sched_wakeup_on(sched, d)
  <2>1. SchedInv(h) /\ SameCpu(sched, h)
    BY WakeupInv, DeviceAssumption
  <2> HIDE DEF h
  <2>2. SchedInv(interrupt(sched, h))
    BY <2>1, InterruptInv
  <2> QED BY <1>14, <2>2 DEF Interrupt, h
<1>15. CASE Switch
  BY <1>15, SwitchInv DEF Switch
<1>16. CASE UNCHANGED vars
  BY <1>16 DEF vars
<1> QED BY <1>1, <1>2, <1>3, <1>4, <1>5, <1>6, <1>7, <1>8, <1>9, <1>10, <1>11,
           <1>12, <1>13, <1>14, <1>15, <1>16 DEF Next

\* In every reachable state the scheduler's invariant holds.
THEOREM InvIsInvariant == Spec => []Inv
  BY InitEstablishesInv, NextPreservesInv, PTL DEF Spec

\* The fields of every thread, queue and of the CPU keep their types.
THEOREM TypeCorrectness == Spec => []TypeOK
<1>1. Inv => TypeOK
  BY DEF Inv, SchedInv, TypeOK
<1> QED BY <1>1, InvIsInvariant, PTL

\* No KASSERT of ktqueue_enqueue, ktqueue_remove, sched_make_runnable,
\* sched_wakeup_on or kthread_exit can fail.
THEOREM NoAssertFails == Spec => []AssertsHold
<1>1. Inv => AssertsHold
  BY DEF Inv, SchedInv, AssertsHold
<1> QED BY <1>1, InvIsInvariant, PTL

\* A thread is on the queue its kt_wchan names, once, and on no other.
THEOREM QueuesAlwaysAgree == Spec => []QueuesAgree
<1>1. Inv => QueuesAgree
  BY DEF Inv, SchedInv, QueuesAgree, TypeOK
<1> QED BY <1>1, InvIsInvariant, PTL

\* Runnable threads are on kt_runq and sleepers on wait queues.
THEOREM RightThreadsQueued == Spec => []QueuesHoldRightThreads
<1>1. Inv => QueuesHoldRightThreads
  BY DEF Inv, SchedInv, QueuesHoldRightThreads
<1> QED BY <1>1, InvIsInvariant, PTL

\* No live thread is ever off every queue while another one runs.
THEOREM NoThreadIsLost == Spec => []NoThreadLost
<1>1. Inv => NoThreadLost
  BY DEF Inv, SchedInv, NoThreadLost
<1> QED BY <1>1, InvIsInvariant, PTL
-----------------------------------------------------------------------------
(***************************************************************************)
(* What a step may never do.                                               *)
(***************************************************************************)
\* No thread becomes current, none comes back from KT_EXITED, and kt_runq only
\* grows at its end.  Every step but the context switch is of this kind.
Quiet(s, n) ==
    /\ n.curthr = s.curthr
    /\ \A t \in Threads : s.kt_state[t] = KT_EXITED => n.kt_state[t] \in {KT_EXITED, KT_NO_STATE}
    /\ \A i \in 1..Len(s.tq_list[RunQ]) :
          i <= Len(n.tq_list[RunQ]) /\ n.tq_list[RunQ][i] = s.tq_list[RunQ][i]

\* An exited thread is on no queue.
LEMMA ExitedIsUnlinked ==
    ASSUME NEW s, SchedInv(s), NEW t \in Threads, s.kt_state[t] = KT_EXITED
    PROVE  s.kt_wchan[t] = NoQueue
  BY FieldTypes DEF SchedInv, RightQueue, WchanFuns, AllQueues, KT_EXITED, KT_RUN, Sleeping,
     KT_SLEEP, KT_SLEEP_CANCELLABLE

\* Steps that change no thread's state but t's, which has not exited, and at
\* most append to kt_runq.
LEMMA QuietStep ==
    ASSUME NEW s, SchedInv(s), NEW n, NEW t \in Threads, s.kt_state[t] # KT_EXITED,
           n.curthr = s.curthr,
           \A u \in Threads \ {t} : n.kt_state[u] = s.kt_state[u],
           \/ n.tq_list[RunQ] = s.tq_list[RunQ]
           \/ \E u \in Threads : n.tq_list[RunQ] = Append(s.tq_list[RunQ], u)
    PROVE  Quiet(s, n)
<1>1. s.tq_list[RunQ] \in Seq(Threads)
  BY FieldTypes DEF SchedInv, QueueFuns, AllQueues
<1>2. \A i \in 1..Len(s.tq_list[RunQ]) :
          i <= Len(n.tq_list[RunQ]) /\ n.tq_list[RunQ][i] = s.tq_list[RunQ][i]
  <2>1. CASE n.tq_list[RunQ] = s.tq_list[RunQ]
    BY <1>1, <2>1
  <2>2. ASSUME NEW u \in Threads, n.tq_list[RunQ] = Append(s.tq_list[RunQ], u)
        PROVE  \A i \in 1..Len(s.tq_list[RunQ]) :
                   i <= Len(n.tq_list[RunQ]) /\ n.tq_list[RunQ][i] = s.tq_list[RunQ][i]
    BY <1>1, <2>2
  <2> QED BY <2>1, <2>2
<1> QED BY <1>2 DEF Quiet

\* sched_make_runnable appends a thread that has not exited.
LEMMA MakeRunnableQuiet ==
    ASSUME NEW s, SchedInv(s), NEW t \in Threads, s.kt_state[t] # KT_EXITED
    PROVE  Quiet(s, sched_make_runnable(s, t))
<1> DEFINE n == sched_make_runnable(s, t)
<1>0. s \in SchedStates
  BY DEF SchedInv
<1>1. MadeRunnable(s, n, t)
  BY <1>0, MakeRunnableFields, Zenon
<1> HIDE DEF n
<1>2. n.curthr = s.curthr /\ \A u \in Threads \ {t} : n.kt_state[u] = s.kt_state[u]
  BY <1>0, <1>1 DEF MadeRunnable, SameCpu, SchedStates
<1>3. n.tq_list[RunQ] = Append(s.tq_list[RunQ], t)
  BY <1>0, <1>1 DEF MadeRunnable, SchedStates, AllQueues
<1>4. Quiet(s, n)
  BY <1>2, <1>3, QuietStep
<1> QED BY <1>4 DEF n

\* Calling sched_switch is no more than that.
LEMMA CallSwitchQuiet ==
    ASSUME NEW s, NEW n \in SchedStates, Quiet(s, n)
    PROVE  Quiet(s, call_switch(n))
<1>1. /\ call_switch(n).curthr = n.curthr
      /\ call_switch(n).kt_state = n.kt_state
      /\ call_switch(n).tq_list = n.tq_list
  BY Zenon DEF call_switch, SchedStates
<1> QED BY <1>1 DEF Quiet

\* Falling asleep in any state.
LEMMA SleepInStateQuiet ==
    ASSUME NEW s, SchedInv(s), s.cpu = "run", NEW q \in Queues, NEW st \in Sleeping
    PROVE  Quiet(s, call_switch(
               ktqueue_enqueue([s EXCEPT !.kt_state[s.curthr] = st], q, s.curthr)))
<1> DEFINE t == s.curthr
           m == [s EXCEPT !.kt_state[t] = st]
           e == ktqueue_enqueue(m, q, t)
<1>0. s \in SchedStates /\ t \in Threads /\ q \in AllQueues /\ q # RunQ
  BY QueueAssumption DEF SchedInv, SchedStates, AllQueues
<1>1. s.kt_state[t] # KT_EXITED
  BY DEF SchedInv, CurrentThread, KT_RUN, KT_EXITED, KT_SLEEP_CANCELLABLE
<1>2. m \in SchedStates
  BY Zenon, <1>0 DEF SchedStates, ThreadStates, Sleeping
<1>3. /\ m.kt_state = [s.kt_state EXCEPT ![t] = st]
      /\ m.tq_list = s.tq_list
      /\ m.curthr = s.curthr
  BY Zenon, <1>0 DEF SchedStates
<1> HIDE DEF m
<1>4. Enqueued(m, e, q, t)
  BY <1>0, <1>2, EnqueueFields, Zenon
<1> HIDE DEF e
<1>5. e.curthr = s.curthr /\ \A u \in Threads \ {t} : e.kt_state[u] = s.kt_state[u]
  BY <1>0, <1>3, <1>4 DEF Enqueued, SameCpu, SchedStates
<1>6. e.tq_list[RunQ] = s.tq_list[RunQ]
  BY <1>0, <1>3, <1>4 DEF Enqueued, SchedStates, AllQueues
<1>7. Quiet(s, e)
  BY <1>0, <1>1, <1>5, <1>6, QuietStep
<1>8. Quiet(s, call_switch(e))
  BY <1>4, <1>7, CallSwitchQuiet DEF Enqueued
<1> QED BY <1>8 DEF e, m

\* Both sleeps, and the early return of the cancellable one.
LEMMA SleepQuiet ==
    ASSUME NEW s, SchedInv(s), s.cpu = "run", NEW q \in Queues
    PROVE  Quiet(s, sched_sleep_on(s, q)) /\ Quiet(s, sched_cancellable_sleep_on(s, q))
<1>1. KT_SLEEP \in Sleeping /\ KT_SLEEP_CANCELLABLE \in Sleeping
  BY DEF Sleeping
<1>2. Quiet(s, sched_sleep_on(s, q))
  BY <1>1, SleepInStateQuiet DEF sched_sleep_on
<1>3. CASE ~ cancelled_already(s)
  BY <1>1, <1>2, <1>3, SleepInStateQuiet DEF sched_cancellable_sleep_on
<1>4. CASE cancelled_already(s)
  <2> DEFINE n == [s EXCEPT !.kt_state[s.curthr] = KT_SLEEP_CANCELLABLE]
  <2>0. s \in SchedStates /\ s.curthr \in Threads /\ s.kt_state[s.curthr] # KT_EXITED
    BY DEF SchedInv, SchedStates, CurrentThread, KT_RUN, KT_EXITED, KT_SLEEP_CANCELLABLE
  <2>1. /\ n.kt_state = [s.kt_state EXCEPT ![s.curthr] = KT_SLEEP_CANCELLABLE]
        /\ n.tq_list = s.tq_list
        /\ n.curthr = s.curthr
    BY Zenon, <2>0 DEF SchedStates
  <2> HIDE DEF n
  <2>2. \A u \in Threads \ {s.curthr} : n.kt_state[u] = s.kt_state[u]
    BY <2>0, <2>1 DEF SchedStates
  <2>3. Quiet(s, n)
    <3>1. n.tq_list[RunQ] = s.tq_list[RunQ]
      BY <2>1
    <3>2. s.tq_list[RunQ] \in Seq(Threads)
      BY <2>0 DEF SchedStates, AllQueues
    <3> QED BY <2>0, <2>1, <2>2, <3>1, <3>2 DEF Quiet
  <2> QED BY <1>2, <1>4, <2>3 DEF sched_cancellable_sleep_on, n
<1> QED BY <1>3, <1>4

\* A wakeup appends the woken thread, which was asleep.
LEMMA WakeupQuiet ==
    ASSUME NEW s, SchedInv(s), NEW q \in Queues
    PROVE  Quiet(s, sched_wakeup_on(s, q))
<1> DEFINE n == sched_wakeup_on(s, q)
           t == Head(s.tq_list[q])
<1>0. s \in SchedStates /\ q \in AllQueues /\ q # RunQ /\ q # NoQueue
  BY QueueAssumption DEF SchedInv, AllQueues
<1>1. CASE sched_queue_empty(s, q)
  <2>1. n = s /\ s.tq_list[RunQ] \in Seq(Threads)
    BY <1>0, <1>1 DEF sched_wakeup_on, SchedStates, AllQueues
  <2>2. Quiet(s, s)
    BY <2>1 DEF Quiet
  <2> QED BY <2>1, <2>2
<1>2. CASE ~ sched_queue_empty(s, q)
  <2>1. t \in Threads /\ s.kt_wchan[t] = q /\ Woken(s, n, q, t)
    BY <1>2, WakeupFields, Zenon
  <2>2. s.kt_state[t] # KT_EXITED
    BY <1>0, <2>1, ExitedIsUnlinked
  <2> HIDE DEF n, t
  <2>3. n.curthr = s.curthr /\ \A u \in Threads \ {t} : n.kt_state[u] = s.kt_state[u]
    BY <1>0, <2>1 DEF Woken, SameCpu, SchedStates
  <2>4. n.tq_list[RunQ] = Append(s.tq_list[RunQ], t)
    BY <1>0, <2>1 DEF Woken, SchedStates, AllQueues
  <2>5. Quiet(s, n)
    BY <2>1, <2>2, <2>3, <2>4, QuietStep
  <2> QED BY <2>5 DEF n
<1> QED BY <1>1, <1>2

\* A broadcast appends all threads of the queue.
LEMMA BroadcastQuiet ==
    ASSUME NEW s, SchedInv(s), NEW q \in Queues
    PROVE  Quiet(s, sched_broadcast_on(s, q))
<1> DEFINE woken == {t \in Threads : \E i \in 1..Len(s.tq_list[q]) : s.tq_list[q][i] = t}
           state == [t \in Threads |-> IF t \in woken THEN KT_RUN ELSE s.kt_state[t]]
           tq == [s.tq_list EXCEPT ![RunQ] = @ \o s.tq_list[q], ![q] = << >>]
           n == sched_broadcast_on(s, q)
<1>0. s \in SchedStates /\ q \in AllQueues /\ q # RunQ /\ q # NoQueue
  BY QueueAssumption DEF SchedInv, AllQueues
<1>1. n.curthr = s.curthr /\ n.kt_state = state /\ n.tq_list = tq
  BY Zenon, <1>0 DEF sched_broadcast_on, SchedStates
<1>2. \A t \in woken : s.kt_wchan[t] = q
  <2>1. \A i \in 1..Len(s.tq_list[q]) : s.kt_wchan[s.tq_list[q][i]] = q
    BY <1>0, Zenon DEF SchedInv, QueueAgreement, Agree
  <2> QED BY <2>1, Zenon
<1>3. \A t \in Threads : s.kt_state[t] = KT_EXITED => t \notin woken
  BY <1>0, <1>2, ExitedIsUnlinked
<1>4. tq[RunQ] = s.tq_list[RunQ] \o s.tq_list[q]
  BY <1>0 DEF SchedStates, AllQueues
<1>5. s.tq_list[RunQ] \in Seq(Threads) /\ s.tq_list[q] \in Seq(Threads)
  BY <1>0 DEF SchedStates, AllQueues
<1> HIDE DEF woken, n, tq
<1>6. \A i \in 1..Len(s.tq_list[RunQ]) : i <= Len(tq[RunQ]) /\ tq[RunQ][i] = s.tq_list[RunQ][i]
  <2> DEFINE a == s.tq_list[RunQ]
             b == s.tq_list[q]
  <2>1. a \in Seq(Threads) /\ b \in Seq(Threads) /\ tq[RunQ] = a \o b
    BY <1>4, <1>5
  <2> HIDE DEF a, b
  <2>2. \A i \in 1..Len(a) : i \in 1..Len(a \o b) /\ (a \o b)[i] = a[i]
    BY <2>1, ConcatPlaces
  <2>3. \A i \in 1..Len(a) : i <= Len(tq[RunQ]) /\ tq[RunQ][i] = a[i]
    BY <2>1, <2>2
  <2> QED BY <2>3 DEF a
<1>7. Quiet(s, n)
  BY <1>1, <1>3, <1>6 DEF Quiet
<1> QED BY <1>7 DEF n

\* sched_cancel moves at most a cancellable sleeper.
LEMMA SchedCancelQuiet ==
    ASSUME NEW s, SchedInv(s), NEW t \in Threads, t # s.curthr
    PROVE  Quiet(s, sched_cancel(s, t))
<1> DEFINE c == [s EXCEPT !.kt_cancelled[t] = TRUE]
           d == [c EXCEPT !.kt_state[t] = KT_RUN]
           r == ktqueue_remove(d, t)
           n == sched_cancel(s, t)
<1>0. s \in SchedStates
  BY DEF SchedInv
<1>1. CASE s.kt_state[t] # KT_SLEEP_CANCELLABLE
  <2>1. n.kt_state = s.kt_state /\ n.tq_list = s.tq_list /\ n.curthr = s.curthr
    BY Zenon, <1>0, <1>1 DEF sched_cancel, SchedStates
  <2>2. s.tq_list[RunQ] \in Seq(Threads)
    BY <1>0 DEF SchedStates, AllQueues
  <2> QED BY <2>1, <2>2 DEF Quiet
<1>2. CASE s.kt_state[t] = KT_SLEEP_CANCELLABLE
  <2>1. s.kt_wchan[t] # RunQ /\ s.kt_wchan[t] # NoQueue /\ s.kt_wchan[t] \in AllQueues
    BY <1>0, <1>2 DEF SchedInv, RightQueue, NoneLost, SchedStates, AllQueues, KT_RUN,
       KT_SLEEP_CANCELLABLE, KT_NO_STATE, KT_EXITED
  <2>2. d \in SchedStates
    <3>1. c \in SchedStates
      BY Zenon, <1>0 DEF SchedStates
    <3> HIDE DEF c
    <3> QED BY Zenon, <3>1 DEF SchedStates, ThreadStates
  <2>3. /\ d.kt_state = [s.kt_state EXCEPT ![t] = KT_RUN]
        /\ d.kt_wchan = s.kt_wchan /\ d.tq_list = s.tq_list /\ d.curthr = s.curthr
    BY Zenon, <1>0 DEF SchedStates
  <2>4. n = sched_make_runnable(r, t)
    BY <1>2 DEF sched_cancel
  <2> HIDE DEF d
  <2> DEFINE tq == [d.tq_list EXCEPT ![d.kt_wchan[t]] = list_remove(@, t)]
             wchan == [d.kt_wchan EXCEPT ![t] = NoQueue]
  <2>5. r = [d EXCEPT !.tq_list = tq, !.kt_wchan = wchan]
    BY <2>1, <2>2, <2>3 DEF ktqueue_remove, SchedStates
  <2>6. tq \in [AllQueues -> Seq(Threads)] /\ wchan \in [Threads -> AllQueues \cup {NoQueue}]
    <3>1. s.tq_list \in QueueFuns /\ s.kt_wchan \in WchanFuns
      BY <1>0, FieldTypes
    <3>2. tq \in QueueFuns
      BY <2>1, <2>3, <3>1, RemoveAgrees DEF SchedInv, QueueAgreement
    <3> QED BY <2>3, <3>1, <3>2 DEF QueueFuns, WchanFuns
  <2>7. tq[RunQ] = s.tq_list[RunQ]
    BY <1>0, <2>1, <2>3 DEF SchedStates, AllQueues
  <2> HIDE DEF tq, wchan, r, n
  <2>8. r \in SchedStates
    BY Zenon, <2>2, <2>5, <2>6 DEF SchedStates
  <2>9. r.tq_list = tq /\ r.kt_state = d.kt_state /\ r.curthr = s.curthr
    BY Zenon, <2>2, <2>3, <2>5 DEF SchedStates
  <2>10. MadeRunnable(r, n, t)
    BY <2>4, <2>8, MakeRunnableFields, Zenon
  <2>11. n.curthr = s.curthr /\ \A u \in Threads \ {t} : n.kt_state[u] = s.kt_state[u]
    BY <1>0, <2>3, <2>8, <2>9, <2>10 DEF MadeRunnable, SameCpu, SchedStates
  <2>12. n.tq_list[RunQ] = Append(s.tq_list[RunQ], t)
    BY <2>7, <2>8, <2>9, <2>10 DEF MadeRunnable, SchedStates, AllQueues
  <2>13. Quiet(s, n)
    BY <1>2, <2>11, <2>12, QuietStep DEF KT_EXITED, KT_SLEEP_CANCELLABLE
  <2> QED BY <2>13 DEF n
<1> QED BY <1>1, <1>2

\* The remaining calls change one thread and no queue.
LEMMA FieldCallsQuiet ==
    ASSUME NEW s, SchedInv(s), NEW t \in Threads
    PROVE  /\ s.kt_state[t] = KT_NO_STATE => Quiet(s, kthread_create(s, t))
           /\ Quiet(s, kthread_cancel(s, t))
           /\ Quiet(s, kthread_destroy(s, t))
           /\ Quiet(s, call_switch(kthread_exit(s)))
<1>0. s \in SchedStates /\ s.tq_list[RunQ] \in Seq(Threads)
  BY DEF SchedInv, SchedStates, AllQueues
<1>1. ASSUME s.kt_state[t] = KT_NO_STATE PROVE Quiet(s, kthread_create(s, t))
  <2> DEFINE n == kthread_create(s, t)
  <2>1. /\ n.kt_state = [s.kt_state EXCEPT ![t] = KT_RUN]
        /\ n.tq_list = s.tq_list /\ n.curthr = s.curthr
    BY Zenon, <1>0 DEF kthread_create, SchedStates
  <2> HIDE DEF n
  <2>2. \A u \in Threads \ {t} : n.kt_state[u] = s.kt_state[u]
    BY <1>0, <2>1 DEF SchedStates
  <2>3. Quiet(s, n)
    <3>1. n.tq_list[RunQ] = s.tq_list[RunQ]
      BY <2>1
    <3>2. s.kt_state[t] # KT_EXITED
      BY <1>1 DEF KT_NO_STATE, KT_EXITED
    <3> QED BY <1>0, <2>1, <2>2, <3>1, <3>2 DEF Quiet
  <2> QED BY <2>3 DEF n
<1>2. Quiet(s, kthread_cancel(s, t))
  <2> DEFINE n == kthread_cancel(s, t)
  <2>1. n.kt_state = s.kt_state /\ n.tq_list = s.tq_list /\ n.curthr = s.curthr
    BY Zenon, <1>0 DEF kthread_cancel, SchedStates
  <2> QED BY <1>0, <2>1 DEF Quiet
<1>3. Quiet(s, kthread_destroy(s, t))
  <2> DEFINE n == kthread_destroy(s, t)
  <2>1. /\ n.kt_state = [s.kt_state EXCEPT ![t] = KT_NO_STATE]
        /\ n.tq_list = s.tq_list /\ n.curthr = s.curthr
    BY Zenon, <1>0 DEF kthread_destroy, SchedStates
  <2> HIDE DEF n
  <2>2. Quiet(s, n)
    BY <1>0, <2>1 DEF Quiet, SchedStates
  <2> QED BY <2>2 DEF n
<1>4. Quiet(s, call_switch(kthread_exit(s)))
  <2> DEFINE n == call_switch(kthread_exit(s))
  <2>1. /\ n.kt_state = [s.kt_state EXCEPT ![s.curthr] = KT_EXITED]
        /\ n.tq_list = s.tq_list /\ n.curthr = s.curthr
    BY Zenon, <1>0 DEF call_switch, kthread_exit, SchedStates
  <2> HIDE DEF n
  <2>2. Quiet(s, n)
    BY <1>0, <2>1 DEF Quiet, SchedStates
  <2> QED BY <2>2 DEF n
<1> QED BY <1>1, <1>2, <1>3, <1>4

\* An interrupt adds nothing to what its handler does.
LEMMA InterruptQuiet ==
    ASSUME NEW s, NEW h \in SchedStates, Quiet(s, h)
    PROVE  Quiet(s, interrupt(s, h))
<1>1. /\ interrupt(s, h).curthr = h.curthr
      /\ interrupt(s, h).kt_state = h.kt_state
      /\ interrupt(s, h).tq_list = h.tq_list
  BY Zenon DEF interrupt, SchedStates
<1> QED BY <1>1 DEF Quiet

\* The context switch takes the first thread of kt_runq, which has not exited.
Switched(s, n) ==
    /\ n.kt_state = s.kt_state
    /\ s.tq_list[RunQ] # << >>
    /\ n.curthr = s.tq_list[RunQ][1]
    /\ n.cpu = "run"
    /\ s.kt_state[n.curthr] = KT_RUN
    /\ n.tq_list[RunQ] = Tail(s.tq_list[RunQ])

\* Of the steps of sched_switch only the last is not quiet.
LEMMA SwitchIsQuiet ==
    ASSUME NEW s, SchedInv(s), NEW n, SwitchStep(s, n)
    PROVE  Quiet(s, n) \/ Switched(s, n)
<1>0. s \in SchedStates /\ s.tq_list[RunQ] \in Seq(Threads)
  BY DEF SchedInv, SchedStates, AllQueues
<1>1. CASE n = mask_interrupts(s) \/ n = runq_empty(s) \/ n = intr_wait(s)
  <2>1. n.kt_state = s.kt_state /\ n.tq_list = s.tq_list /\ n.curthr = s.curthr
    BY Zenon, <1>0, <1>1 DEF mask_interrupts, runq_empty, intr_wait, SchedStates
  <2> QED BY <1>0, <2>1 DEF Quiet
<1>2. CASE ~ sched_queue_empty(s, RunQ) /\ n = context_switch(s)
  <2> DEFINE t == Head(s.tq_list[RunQ])
  <2>1. /\ n.kt_state = s.kt_state
        /\ n.tq_list = [s.tq_list EXCEPT ![RunQ] = Tail(@)]
        /\ n.curthr = t
        /\ n.cpu = "run"
    BY Zenon, <1>0, <1>2 DEF context_switch, ktqueue_dequeue, SchedStates
  <2>2. s.tq_list[RunQ] # << >> /\ t = s.tq_list[RunQ][1]
    BY <1>0, <1>2 DEF sched_queue_empty
  <2>3. t \in Threads /\ s.kt_wchan[t] = RunQ
    <3>1. s.tq_list \in QueueFuns /\ s.kt_wchan \in WchanFuns /\ RunQ \in AllQueues
      BY <1>0, FieldTypes DEF AllQueues
    <3> QED BY Zenon, <2>2, <3>1, TailAgrees DEF SchedInv, QueueAgreement
  <2>4. s.kt_state[t] = KT_RUN
    BY <2>3 DEF SchedInv, RightQueue
  <2>5. n.tq_list[RunQ] = Tail(s.tq_list[RunQ])
    BY <1>0, <2>1 DEF SchedStates, AllQueues
  <2> QED BY <2>1, <2>2, <2>4, <2>5 DEF Switched
<1> QED BY <1>1, <1>2 DEF SwitchStep

\* Every step of the scheduler is quiet or a context switch.
LEMMA StepIsQuiet == Inv /\ [Next]_vars => Quiet(sched, sched') \/ Switched(sched, sched')
<1> SUFFICES ASSUME Inv, [Next]_vars PROVE Quiet(sched, sched') \/ Switched(sched, sched')
  OBVIOUS
<1>0. /\ SchedInv(sched)
      /\ sched \in SchedStates
      /\ sched.curthr \in Threads
      /\ sched.tq_list[RunQ] \in Seq(Threads)
  BY DEF Inv, SchedInv, SchedStates, AllQueues
<1>1. ASSUME NEW t \in Threads, Create(t) PROVE Quiet(sched, sched')
  BY <1>0, <1>1, FieldCallsQuiet DEF Create, Call
<1>2. ASSUME NEW t \in Threads, Start(t) PROVE Quiet(sched, sched')
  BY <1>0, <1>2, MakeRunnableQuiet DEF Start, Call, KT_RUN, KT_EXITED
<1>3. ASSUME NEW t \in Threads, Reap(t) PROVE Quiet(sched, sched')
  BY <1>0, <1>3, FieldCallsQuiet DEF Reap, Call
<1>4. ASSUME NEW q \in WaitQueues, Sleep(q) \/ CancellableSleep(q) PROVE Quiet(sched, sched')
  BY <1>0, <1>4, SleepQuiet DEF Sleep, CancellableSleep, Call, Executing, WaitQueues
<1>5. ASSUME NEW q \in WaitQueues, Wakeup(q) PROVE Quiet(sched, sched')
  BY <1>0, <1>5, WakeupQuiet DEF Wakeup, Call, WaitQueues
<1>6. ASSUME NEW q \in WaitQueues, Broadcast(q) PROVE Quiet(sched, sched')
  BY <1>0, <1>6, BroadcastQuiet DEF Broadcast, Call, WaitQueues
<1>7. ASSUME NEW t \in Threads, SchedCancel(t) PROVE Quiet(sched, sched')
  BY <1>0, <1>7, SchedCancelQuiet DEF SchedCancel, Call
<1>8. ASSUME NEW t \in Threads, KthreadCancel(t) PROVE Quiet(sched, sched')
  BY <1>0, <1>8, FieldCallsQuiet DEF KthreadCancel, Call
<1>9. ASSUME Yield PROVE Quiet(sched, sched')
  <2> DEFINE n == sched_make_runnable(sched, sched.curthr)
  <2>1. sched.kt_state[sched.curthr] # KT_EXITED
    BY <1>0, <1>9 DEF Yield, Call, Executing, SchedInv, CurrentThread, KT_RUN, KT_EXITED,
       KT_SLEEP_CANCELLABLE
  <2>2. Quiet(sched, n)
    BY <1>0, <2>1, MakeRunnableQuiet
  <2>3. n \in SchedStates
    BY <1>0, MakeRunnableFields DEF MadeRunnable
  <2> HIDE DEF n
  <2>4. Quiet(sched, call_switch(n))
    BY <2>2, <2>3, CallSwitchQuiet
  <2> QED BY <1>9, <2>4 DEF Yield, Call, yield, n
<1>10. ASSUME Exit PROVE Quiet(sched, sched')
  BY <1>0, <1>10, FieldCallsQuiet DEF Exit, Call
<1>11. ASSUME NEW d \in Devices, DeviceIo(d) PROVE Quiet(sched, sched')
  <2> DEFINE s == [sched EXCEPT !.ipl = IPL_HIGH]
  <2>1. SchedInv(s) /\ s.cpu = "run"
    BY Zenon, <1>0, <1>11, SetIplInv DEF DeviceIo, Executing
  <2>2. s.curthr = sched.curthr /\ s.kt_state = sched.kt_state /\ s.tq_list = sched.tq_list
    BY Zenon, <1>0 DEF SchedStates
  <2>3. sched' = sched_sleep_on(s, d)
    BY <1>11 DEF DeviceIo
  <2> HIDE DEF s
  <2>4. Quiet(s, sched')
    BY <2>1, <2>3, SleepQuiet, DeviceAssumption
  <2> QED BY <2>2, <2>4 DEF Quiet
<1>12. ASSUME DeviceDone PROVE Quiet(sched, sched')
  <2>1. /\ sched'.curthr = sched.curthr
        /\ sched'.kt_state = sched.kt_state
        /\ sched'.tq_list = sched.tq_list
    BY Zenon, <1>0, <1>12 DEF DeviceDone, SchedStates
  <2> QED BY <1>0, <2>1 DEF Quiet
<1>13. ASSUME NEW d \in Devices, Interrupt(d) PROVE Quiet(sched, sched')
  <2> DEFINE h == sched_wakeup_on(sched, d)
  <2>1. h \in SchedStates /\ Quiet(sched, h)
    BY <1>0, WakeupInv, WakeupQuiet, DeviceAssumption DEF SchedInv
  <2> HIDE DEF h
  <2>2. Quiet(sched, interrupt(sched, h))
    BY <2>1, InterruptQuiet
  <2> QED BY <1>13, <2>2 DEF Interrupt, h
<1>14. ASSUME Switch PROVE Quiet(sched, sched') \/ Switched(sched, sched')
  BY <1>0, <1>14, SwitchIsQuiet DEF Switch
<1>15. ASSUME UNCHANGED vars PROVE Quiet(sched, sched')
  BY <1>0, <1>15 DEF vars, Quiet
<1> QED BY <1>1, <1>2, <1>3, <1>4, <1>5, <1>6, <1>7, <1>8, <1>9, <1>10, <1>11,
           <1>12, <1>13, <1>14, <1>15 DEF Next

\* kthread_exit is final: whatever wakeups, cancels and interrupts follow, an
\* exited thread stays exited until it is reaped and never gets the CPU again.
THEOREM ExitIsFinal == Spec => ExitedThreadsStayDown
<1> DEFINE A == \A t \in Threads : sched.kt_state[t] = KT_EXITED =>
                    /\ sched'.kt_state[t] \in {KT_EXITED, KT_NO_STATE}
                    /\ sched'.curthr = t => sched.curthr = t
<1>1. Inv /\ [Next]_vars => A
  <2> SUFFICES ASSUME Inv, [Next]_vars PROVE A
    OBVIOUS
  <2>1. CASE Quiet(sched, sched')
    BY <2>1 DEF Quiet
  <2>2. CASE Switched(sched, sched')
    BY <2>2 DEF Switched, KT_RUN, KT_EXITED
  <2> QED BY <2>1, <2>2, StepIsQuiet
<1> QED BY <1>1, InvIsInvariant, PTL DEF Spec, ExitedThreadsStayDown

\* kt_runq is served in order, for any number of threads and devices: nothing
\* that threads or interrupt handlers do lets a thread overtake another one.
THEOREM RunQueueServedInOrder == Spec => RunQueueIsFifo
<1> DEFINE A == \A i \in 1..Len(sched.tq_list[RunQ]) :
                    LET t == sched.tq_list[RunQ][i]
                    IN  \/ i <= Len(sched'.tq_list[RunQ]) /\ sched'.tq_list[RunQ][i] = t
                        \/ i > 1 /\ sched'.tq_list[RunQ][i - 1] = t
                        \/ i = 1 /\ sched'.curthr = t /\ sched'.cpu = "run"
<1>1. Inv /\ [Next]_vars => A
  <2> SUFFICES ASSUME Inv, [Next]_vars PROVE A
    OBVIOUS
  <2>1. CASE Quiet(sched, sched')
    BY <2>1 DEF Quiet
  <2>2. CASE Switched(sched, sched')
    <3>1. sched.tq_list[RunQ] \in Seq(Threads)
      BY FieldTypes DEF Inv, SchedInv, QueueFuns, AllQueues
    <3>2. \A i \in 1..Len(sched.tq_list[RunQ]) : i > 1 =>
              sched'.tq_list[RunQ][i - 1] = sched.tq_list[RunQ][i]
      BY <2>2, <3>1 DEF Switched
    <3> QED BY <2>2, <3>2 DEF Switched
  <2> QED BY <2>1, <2>2, StepIsQuiet
<1> QED BY <1>1, InvIsInvariant, PTL DEF Spec, RunQueueIsFifo
=============================================================================
