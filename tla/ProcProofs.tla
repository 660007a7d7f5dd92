----------------------------- MODULE ProcProofs ------------------------------
(***************************************************************************)
(* The process tree of Proc agrees with itself, pids are unique and no     *)
(* process sleeps over a zombie, for any number of processes.              *)
(***************************************************************************)
EXTENDS Proc, SchedCoreProofs, FiniteSetTheorems, WellFoundedInduction

\* The children of a process are processes.
LEMMA ListOfThreads ==
    ASSUME NEW list, NEW S, ListOf(list, S), S \subseteq Threads
    PROVE  list \in Seq(Threads)
  BY DEF ListOf
-----------------------------------------------------------------------------
(***************************************************************************)
(* Pids.                                                                   *)
(***************************************************************************)
\* < is a well-founded relation on the naturals.
LEMMA NatOrder ==
    \E R : IsWellFoundedOn(R, Nat) /\ \A x, y \in Nat : x < y => <<x, y>> \in R
<1>1. IsWellFoundedOn(OpToRel(<, Nat), Nat)
  BY NatLessThanWellFounded, Zenon
<1>2. \A x, y \in Nat : x < y => <<x, y>> \in OpToRel(<, Nat)
  BY DEF OpToRel
<1> QED BY <1>1, <1>2, Zenon

\* A non-empty set of naturals has a least element.
LEMMA LeastNatural ==
    ASSUME NEW T \in SUBSET Nat, T # {}
    PROVE  \E x \in T : \A y \in T : x <= y
<1>1. PICK R : IsWellFoundedOn(R, Nat) /\ \A x, y \in Nat : x < y => <<x, y>> \in R
  BY NatOrder, Zenon
<1>2. IsWellFoundedOn(R, Nat) /\ T \subseteq Nat /\ T # {}
  BY <1>1
<1>3. \E x \in T : \A y \in T : ~ (<<y, x>> \in R)
  BY ONLY <1>2, WFMin, Zenon
<1>4. \E x \in T : \A y \in T : ~ (y < x)
  BY <1>1, <1>2, <1>3, Zenon
<1>5. T \subseteq Nat
  OBVIOUS
<1> QED BY ONLY <1>4, <1>5

\* Going round the pids wraps at most once.
LEMMA ModOnce ==
    ASSUME NEW N \in Nat \ {0}, NEW a \in 0..N-1, NEW b \in 0..N-1
    PROVE  (a + b) % N = IF a + b < N THEN a + b ELSE a + b - N
  OBVIOUS

\* There are fewer processes than pids while some proc_t is unused, so the
\* search of _proc_getid ends at a pid that no process has.
LEMMA GetidIsFree ==
    ASSUME p_pid \in [Threads -> Pids], next_pid \in Pids, NEW p \in Threads \ Used
    PROVE  _proc_getid \in Pids /\ \A q \in Used : p_pid[q] # _proc_getid
<1> DEFINE N == PROC_MAX_COUNT
           pid(i) == (next_pid + i) % N
           free == {i \in Pids : \A q \in Used : p_pid[q] # pid(i)}
<1>0. N \in Nat \ {0} /\ Pids = 0..N-1
  BY ProcAssumption DEF Pids
<1>1. \A i \in Pids : pid(i) = IF next_pid + i < N THEN next_pid + i ELSE next_pid + i - N
  BY <1>0, ModOnce
<1>2. /\ \A i \in Pids : pid(i) \in Pids
      /\ \A i, j \in Pids : pid(i) = pid(j) => i = j
  BY ONLY <1>0, <1>1, next_pid \in Pids
<1> HIDE DEF pid
<1>3. IsFiniteSet(Pids) /\ Cardinality(Pids) = N
  BY <1>0, FS_Interval
<1>4. IsFiniteSet(Used) /\ Cardinality(Used) < N
  <2>1. Used \in SUBSET Threads /\ Used # Threads
    BY DEF Used
  <2>2. IsFiniteSet(Threads) /\ Cardinality(Threads) <= N
    BY ProcAssumption
  <2>3. /\ IsFiniteSet(Used) /\ Cardinality(Used) <= Cardinality(Threads)
        /\ Cardinality(Used) # Cardinality(Threads)
    BY ONLY <2>1, <2>2, FS_Subset, Zenon
  <2>4. Cardinality(Used) \in Nat /\ Cardinality(Threads) \in Nat
    BY <2>2, <2>3, FS_CardinalityType
  <2> QED BY <1>0, <2>2, <2>3, <2>4
<1>5. free # {}
  <2> SUFFICES ASSUME free = {} PROVE FALSE
    OBVIOUS
  <2> DEFINE f == [i \in Pids |-> CHOOSE q \in Used : p_pid[q] = pid(i)]
  <2>1. \A i \in Pids : \E q \in Used : p_pid[q] = pid(i)
    OBVIOUS
  <2>2. \A i \in Pids : f[i] \in Used /\ p_pid[f[i]] = pid(i)
    BY <2>1
  <2>3. f \in [Pids -> Used]
    BY <2>2
  <2> HIDE DEF f
  <2>4. \E i, j \in Pids : i # j /\ f[i] = f[j]
    BY <2>3, <1>3, <1>4, FS_PigeonHole
  <2> QED BY <2>2, <2>4, <1>2
<1>6. Min(free) \in free
  <2>1. free \in SUBSET Nat
    BY <1>0
  <2>2. \E x \in free : \A y \in free : x <= y
    BY <2>1, <1>5, LeastNatural
  <2> QED BY <2>2 DEF Min
<1>7. _proc_getid = pid(Min(free))
  BY DEF _proc_getid, pid
<1> QED BY <1>2, <1>6, <1>7
-----------------------------------------------------------------------------
(***************************************************************************)
(* What the scheduling primitives do to the states of the threads.         *)
(***************************************************************************)
\* The same threads exist, and the same ones have exited.
SameLives(s, n) ==
    \A t \in Threads :
        /\ n.kt_state[t] = KT_NO_STATE <=> s.kt_state[t] = KT_NO_STATE
        /\ n.kt_state[t] = KT_EXITED <=> s.kt_state[t] = KT_EXITED

\* Nobody falls asleep.
NoNewSleeper(s, n) ==
    \A t \in Threads, q \in Queues : n.kt_wchan[t] = q => s.kt_wchan[t] = q

\* The current thread is alive while it runs.
LEMMA CurrentAlive ==
    ASSUME NEW s, SchedInv(s), s.cpu = "run"
    PROVE  /\ s.curthr \in Threads
           /\ s.kt_wchan[s.curthr] = NoQueue
           /\ s.kt_state[s.curthr] \notin {KT_NO_STATE, KT_EXITED}
  BY DEF SchedInv, CurrentThread, SchedStates, KT_NO_STATE, KT_EXITED, KT_RUN,
         KT_SLEEP_CANCELLABLE

\* yield, sched_switch and an interrupt that wakes nobody.
LEMMA YieldLives ==
    ASSUME NEW s, SchedInv(s), s.cpu = "run"
    PROVE  SchedInv(yield(s)) /\ SameLives(s, yield(s)) /\ NoNewSleeper(s, yield(s))
<1> DEFINE r == sched_make_runnable(s, s.curthr)
           n == yield(s)
<1>0. s \in SchedStates /\ s.curthr \in Threads
  BY DEF SchedInv, SchedStates
<1>1. SchedInv(n) /\ SameWaits(s, n)
  BY YieldInv, YieldWaits
<1>2. MadeRunnable(s, r, s.curthr)
  BY <1>0, MakeRunnableFields, Zenon
<1>3. n = [r EXCEPT !.cpu = "enter"]
  BY DEF yield, call_switch
<1> HIDE DEF n, r
<1>4. n.kt_state = [s.kt_state EXCEPT ![s.curthr] = KT_RUN]
  BY <1>2, <1>3 DEF MadeRunnable, SchedStates
<1>5. s.kt_state[s.curthr] \notin {KT_NO_STATE, KT_EXITED}
  BY CurrentAlive
<1>6. SameLives(s, n)
  BY <1>0, <1>4, <1>5 DEF SameLives, SchedStates, KT_NO_STATE, KT_EXITED, KT_RUN
<1>7. NoNewSleeper(s, n)
  BY <1>1 DEF SameWaits, NoNewSleeper
<1> QED BY <1>1, <1>6, <1>7 DEF n

\* sched_switch leaves kt_state alone.
LEMMA SwitchLives ==
    ASSUME NEW s, SchedInv(s), NEW n, SwitchStep(s, n)
    PROVE  SchedInv(n) /\ SameLives(s, n) /\ NoNewSleeper(s, n)
<1>0. s \in SchedStates
  BY DEF SchedInv
<1>1. SchedInv(n) /\ SameWaits(s, n)
  BY SwitchInv, SwitchWaits
<1>2. CASE n = context_switch(s)
  <2>1. n.kt_state = s.kt_state
    BY <1>0, <1>2 DEF context_switch, ktqueue_dequeue, SchedStates
  <2> QED BY <1>1, <2>1 DEF SameLives, SameWaits, NoNewSleeper
<1>3. CASE n = mask_interrupts(s) \/ n = runq_empty(s) \/ n = intr_wait(s)
  <2>1. n.kt_state = s.kt_state
    BY <1>0, <1>3 DEF mask_interrupts, runq_empty, intr_wait, SchedStates
  <2> QED BY <1>1, <2>1 DEF SameLives, SameWaits, NoNewSleeper
<1> QED BY <1>2, <1>3 DEF SwitchStep

\* Neither does an interrupt.
LEMMA InterruptLives ==
    ASSUME NEW s, SchedInv(s)
    PROVE  LET n == interrupt(s, s)
           IN  SchedInv(n) /\ SameLives(s, n) /\ NoNewSleeper(s, n)
<1>0. s \in SchedStates
  BY DEF SchedInv
<1>1. interrupt(s, s).kt_state = s.kt_state
  BY <1>0 DEF interrupt, SchedStates
<1> QED BY <1>1, InterruptWaits DEF SameLives, SameWaits, NoNewSleeper

\* A thread that falls asleep is alive before and after.
LEMMA SleepLives ==
    ASSUME NEW s, SchedInv(s), s.cpu = "run", NEW q \in Queues
    PROVE  LET n == sched_sleep_on(s, q)
           IN  SchedInv(n) /\ SameLives(s, n) /\ n.kt_wchan = [s.kt_wchan EXCEPT ![s.curthr] = q]
<1> DEFINE t == s.curthr
           m == [s EXCEPT !.kt_state[t] = KT_SLEEP]
           e == ktqueue_enqueue(m, q, t)
           n == sched_sleep_on(s, q)
<1>0. s \in SchedStates /\ t \in Threads /\ q \in AllQueues
  BY DEF SchedInv, SchedStates, AllQueues
<1>1. Slept(s, n, q)
  BY LockSleeps
<1>2. m \in SchedStates
  BY Zenon, <1>0 DEF SchedStates, ThreadStates
<1>3. m.kt_state = [s.kt_state EXCEPT ![t] = KT_SLEEP]
  BY Zenon, <1>0 DEF SchedStates
<1>4. n = [e EXCEPT !.cpu = "enter"]
  BY DEF sched_sleep_on, call_switch
<1> HIDE DEF m, n
<1>5. Enqueued(m, e, q, t)
  BY <1>0, <1>2, EnqueueFields, Zenon
<1> HIDE DEF e
<1>6. n.kt_state = [s.kt_state EXCEPT ![t] = KT_SLEEP]
  BY <1>3, <1>4, <1>5 DEF Enqueued, SchedStates
<1>7. s.kt_state[t] \notin {KT_NO_STATE, KT_EXITED}
  BY CurrentAlive
<1>8. SameLives(s, n)
  BY <1>0, <1>6, <1>7 DEF SameLives, SchedStates, KT_NO_STATE, KT_EXITED, KT_SLEEP
<1> QED BY <1>1, <1>8 DEF Slept, n

\* A new thread exists, on kt_runq.
LEMMA StartLives ==
    ASSUME NEW s, SchedInv(s), NEW t \in Threads, s.kt_state[t] = KT_NO_STATE
    PROVE  LET n == sched_make_runnable(kthread_create(s, t), t)
           IN  /\ SchedInv(n) /\ NoNewSleeper(s, n)
               /\ n.kt_state = [s.kt_state EXCEPT ![t] = KT_RUN]
               /\ n.curthr = s.curthr
<1> DEFINE c == kthread_create(s, t)
           n == sched_make_runnable(c, t)
<1>0. s \in SchedStates
  BY DEF SchedInv
<1>1. SchedInv(c)
  BY CreateInv
<1>2. c.kt_state = [s.kt_state EXCEPT ![t] = KT_RUN] /\ c.curthr = s.curthr
  BY <1>0 DEF kthread_create, SchedStates
<1>3. SchedInv(n) /\ SameWaits(s, n)
  BY SpawnWaits
<1> HIDE DEF c
<1>4. MadeRunnable(c, n, t)
  BY <1>1, MakeRunnableFields, Zenon DEF SchedInv
<1> HIDE DEF n
<1>5. n.kt_state = [s.kt_state EXCEPT ![t] = KT_RUN] /\ n.curthr = s.curthr
  BY <1>0, <1>2, <1>4 DEF MadeRunnable, SchedStates, SameCpu
<1>6. NoNewSleeper(s, n)
  BY <1>3 DEF SameWaits, NoNewSleeper
<1>7. /\ SchedInv(n) /\ NoNewSleeper(s, n)
      /\ n.kt_state = [s.kt_state EXCEPT ![t] = KT_RUN]
      /\ n.curthr = s.curthr
  BY <1>3, <1>5, <1>6
<1> QED BY <1>7 DEF n, c

\* The queue operations do not depend on where the CPU is.
LEMMA EnqueueThenSwitch ==
    ASSUME NEW s \in SchedStates, NEW q \in AllQueues, NEW t \in Threads
    PROVE  ktqueue_enqueue(call_switch(s), q, t) = call_switch(ktqueue_enqueue(s, q, t))
<1>1. call_switch(s) \in SchedStates
  BY Zenon DEF call_switch, SchedStates, CpuStations
<1> QED BY <1>1, Zenon DEF call_switch, ktqueue_enqueue, SchedStates

\* Nor does sched_make_runnable.
LEMMA RunnableThenSwitch ==
    ASSUME NEW s \in SchedStates, NEW t \in Threads
    PROVE  sched_make_runnable(call_switch(s), t) = call_switch(sched_make_runnable(s, t))
<1> DEFINE f(x) == [x EXCEPT !.asserts = @ /\ x.kt_wchan[t] # RunQ, !.kt_state[t] = KT_RUN]
<1>1. f(s) \in SchedStates
  BY Zenon DEF SchedStates, ThreadStates
<1>2. f(call_switch(s)) = call_switch(f(s))
  BY Zenon DEF call_switch, SchedStates
<1>3. \A x : sched_make_runnable(x, t) = ktqueue_enqueue(f(x), RunQ, t)
  BY Zenon DEF sched_make_runnable
<1> HIDE DEF f
<1>4. RunQ \in AllQueues
  BY DEF AllQueues
<1>5. ktqueue_enqueue(call_switch(f(s)), RunQ, t) = call_switch(ktqueue_enqueue(f(s), RunQ, t))
  BY <1>1, <1>4, EnqueueThenSwitch
<1> QED BY <1>2, <1>3, <1>5, Zenon

\* Nor does sched_wakeup_on.
LEMMA WakeupThenSwitch ==
    ASSUME NEW s \in SchedStates, NEW q \in Queues
    PROVE  sched_wakeup_on(call_switch(s), q) = call_switch(sched_wakeup_on(s, q))
<1>0. call_switch(s).tq_list = s.tq_list /\ q \in AllQueues
  BY DEF call_switch, SchedStates, AllQueues
<1>1. CASE s.tq_list[q] = << >>
  BY <1>0, <1>1, Zenon DEF sched_wakeup_on, sched_queue_empty
<1>2. CASE s.tq_list[q] # << >>
  <2> DEFINE t == Head(s.tq_list[q])
             f(x) == [ktqueue_dequeue(x, q) EXCEPT
                         !.asserts = @ /\ x.kt_state[t] \in Sleeping,
                         !.kt_state[t] = KT_RUN]
  <2>1. t \in Threads /\ Tail(s.tq_list[q]) \in Seq(Threads)
    BY <1>0, <1>2 DEF SchedStates
  <2>2. sched_wakeup_on(s, q) = sched_make_runnable(f(s), t)
    BY <1>2, Zenon DEF sched_wakeup_on, sched_queue_empty
  <2>3. sched_wakeup_on(call_switch(s), q) = sched_make_runnable(f(call_switch(s)), t)
    BY <1>0, <1>2, Zenon DEF sched_wakeup_on, sched_queue_empty
  <2>4. f(s) \in SchedStates
    BY <1>0, <2>1, Zenon DEF ktqueue_dequeue, SchedStates, ThreadStates
  <2>5. f(call_switch(s)) = call_switch(f(s))
    BY Zenon DEF call_switch, ktqueue_dequeue, SchedStates
  <2> HIDE DEF f, t
  <2>6. sched_make_runnable(call_switch(f(s)), t) = call_switch(sched_make_runnable(f(s), t))
    BY <2>1, <2>4, RunnableThenSwitch
  <2> QED BY <2>2, <2>3, <2>5, <2>6, Zenon
<1> QED BY <1>1, <1>2

\* kthread_exit, then the wakeup of the first thread on q: the current thread
\* has exited, and if only p could be on q, nobody is any more.
LEMMA ExitLives ==
    ASSUME NEW s, SchedInv(s), s.cpu = "run", NEW q \in Queues
    PROVE  LET n == call_switch(sched_wakeup_on(kthread_exit(s), q))
           IN  /\ SchedInv(n)
               /\ NoNewSleeper(s, n)
               /\ SameLives([s EXCEPT !.kt_state[s.curthr] = KT_EXITED], n)
               /\ \A p \in Threads : (\A t \in Threads : s.kt_wchan[t] = q => t = p)
                                    => n.kt_wchan[p] # q
<1> DEFINE e == kthread_exit(s)
           x == call_switch(e)
           n == call_switch(sched_wakeup_on(e, q))
           state == [s.kt_state EXCEPT ![s.curthr] = KT_EXITED]
<1>0. s \in SchedStates /\ s.curthr \in Threads
  BY DEF SchedInv, SchedStates
<1>1. e \in SchedStates
  BY <1>0, Zenon DEF kthread_exit, SchedStates, ThreadStates
<1>2. x.kt_state = state /\ x.kt_wchan = s.kt_wchan /\ x.tq_list = s.tq_list
  BY <1>0 DEF call_switch, kthread_exit, SchedStates
<1>3. [s EXCEPT !.kt_state[s.curthr] = KT_EXITED].kt_state = state
  BY <1>0, Zenon DEF SchedStates
<1>4. SchedInv(x)
  BY ExitInv
<1>5. n = sched_wakeup_on(x, q)
  BY <1>1, WakeupThenSwitch, Zenon
<1> HIDE DEF e, x, n
<1>6. SchedInv(n)
  BY <1>4, <1>5, WakeupInv, Zenon
<1>7. q \in AllQueues /\ q # RunQ
  BY QueueAssumption DEF AllQueues
<1>8. x \in SchedStates /\ QueueAgreement(x) /\ RightQueue(x)
  BY <1>4 DEF SchedInv
<1>9. x.kt_state \in [Threads -> ThreadStates] /\ x.kt_wchan \in WchanFuns
  BY <1>8, FieldTypes, Zenon
<1>10. CASE sched_queue_empty(x, q)
  <2>1. n = x
    BY <1>5, <1>10, Zenon DEF sched_wakeup_on
  <2>2. \A t \in Threads : x.kt_wchan[t] # q
    <3> SUFFICES ASSUME NEW t \in Threads, x.kt_wchan[t] = q PROVE FALSE
      OBVIOUS
    <3>1. q # NoQueue
      BY QueueAssumption
    <3>2. \E i \in 1..Len(x.tq_list[q]) : x.tq_list[q][i] = t
      BY <1>8, <3>1 DEF QueueAgreement, Agree
    <3> QED BY <1>10, <3>2 DEF sched_queue_empty
  <2> QED BY <1>2, <1>3, <1>6, <2>1, <2>2 DEF NoNewSleeper, SameLives, n, e
<1>11. CASE ~ sched_queue_empty(x, q)
  <2> DEFINE h == Head(x.tq_list[q])
  <2>1. h \in Threads /\ x.kt_wchan[h] = q /\ Woken(x, n, q, h)
    BY <1>4, <1>5, <1>11, WakeupFields, Zenon
  <2> HIDE DEF h
  <2>2. /\ n.kt_state = [x.kt_state EXCEPT ![h] = KT_RUN]
        /\ n.kt_wchan = [x.kt_wchan EXCEPT ![h] = RunQ]
    BY <2>1 DEF Woken
  <2>3. x.kt_state[h] \in Sleeping
    BY <1>8, <2>1 DEF RightQueue
  <2>4. NoNewSleeper(s, n)
    BY <1>2, <1>9, <2>2, QueueAssumption DEF NoNewSleeper, WchanFuns
  <2>5. SameLives([s EXCEPT !.kt_state[s.curthr] = KT_EXITED], n)
    <3> DEFINE r == [s EXCEPT !.kt_state[s.curthr] = KT_EXITED]
    <3>1. r.kt_state = x.kt_state
      BY <1>2, <1>3
    <3> HIDE DEF r
    <3>2. SameLives(r, n)
      BY <1>9, <2>1, <2>2, <2>3, <3>1 DEF SameLives, Sleeping, KT_NO_STATE, KT_EXITED, KT_RUN,
             KT_SLEEP, KT_SLEEP_CANCELLABLE
    <3> QED BY <3>2 DEF r
  <2>6. ASSUME NEW p \in Threads, \A t \in Threads : s.kt_wchan[t] = q => t = p
        PROVE  n.kt_wchan[p] # q
    <3>1. h = p
      BY <1>2, <2>1, <2>6
    <3> QED BY <1>7, <1>9, <2>2, <3>1 DEF WchanFuns
  <2> QED BY <1>6, <2>4, <2>5, <2>6 DEF n, e
<1> QED BY <1>10, <1>11

\* kthread_destroy.
LEMMA DestroyLives ==
    ASSUME NEW s, SchedInv(s), NEW t \in Threads, t # s.curthr, s.kt_state[t] = KT_EXITED
    PROVE  LET n == kthread_destroy(s, t)
           IN  /\ SchedInv(n)
               /\ n.kt_wchan = s.kt_wchan
               /\ n.kt_state = [s.kt_state EXCEPT ![t] = KT_NO_STATE]
<1>0. s \in SchedStates
  BY DEF SchedInv
<1>1. /\ kthread_destroy(s, t).kt_wchan = s.kt_wchan
      /\ kthread_destroy(s, t).kt_state = [s.kt_state EXCEPT ![t] = KT_NO_STATE]
  BY <1>0, Zenon DEF kthread_destroy, SchedStates
<1> QED BY <1>1, DestroyInv
-----------------------------------------------------------------------------
(***************************************************************************)
(* The inductive invariant.                                                *)
(***************************************************************************)
\* p_state tells what kt_state tells of the process's thread.
ThreadsMatch ==
    \A p \in Threads :
        /\ p_state[p] = Free <=> sched.kt_state[p] = KT_NO_STATE
        /\ p_state[p] = PROC_DEAD <=> sched.kt_state[p] = KT_EXITED

\* A process sleeps on its own p_wait only.
OwnQueue == \A p \in Threads, q \in Queues : sched.kt_wchan[p] = q => q = p_wait[p]

\* A process in do_waitpid is alive, and the child it waits for is its own.
WaitersKnow ==
    \A p \in Threads :
        /\ waiting[p] # Nobody => p_state[p] = PROC_RUNNING
        /\ waiting[p] \in Threads => waiting[p] \in Used /\ p_pproc[waiting[p]] = p

\* idle lives for ever and its only child is init.
Roots ==
    /\ p_state[First] = PROC_RUNNING /\ p_pproc[First] = NoProc /\ p_pid[First] = 0
    /\ \A p \in Threads : p_pproc[p] = First => p = InitProc
    /\ InitProc \in Used => p_pproc[InitProc] = First /\ p_pid[InitProc] = 1

\* Once init is reaped the machine shuts down: idle has the CPU and keeps it.
AfterInit ==
    InitProc \notin Used => self = First /\ sched.cpu = "run" /\ waiting[First] = Nobody

\* No process is its own ancestor: following p_pproc leaves every set of
\* processes.
Acyclic == \A S \in SUBSET (Used \ {First}) : S # {} => \E p \in S : p_pproc[p] \notin S

Children(p) == {c \in Used : p_pproc[c] = p}

ChildLists == \A p \in Threads : ListOf(p_children[p], Children(p))

ParentsRun ==
    \A p \in Used \ {First} :
        p_pproc[p] \in Threads /\ (p_pproc[p] = InitProc \/ p_state[p_pproc[p]] = PROC_RUNNING)

TreeInv == TypeOK /\ ChildLists /\ ParentsRun /\ Roots /\ Acyclic /\ PidsUnique

WaitInv == ThreadsMatch /\ OwnQueue /\ WaitersKnow /\ NoSleepOverZombie

Inv == (sched.asserts => SchedInv(sched)) /\ TreeInv /\ WaitInv /\ AfterInit

\* A list of nothing is empty, and a list of one item has that item only.
LEMMA ShortLists ==
    /\ \A list : ListOf(list, {}) => list = << >>
    /\ \A list, x : ListOf(list, {x}) => list = <<x>>
<1>1. ASSUME NEW list, ListOf(list, {}) PROVE list = << >>
  BY <1>1 DEF ListOf
<1>2. ASSUME NEW list, NEW x, ListOf(list, {x}) PROVE list = <<x>>
  <2>1. /\ list \in Seq({x}) /\ Len(list) \in Nat /\ \A i \in 1..Len(list) : list[i] = x
        /\ \A i, j \in 1..Len(list) : list[i] = list[j] => i = j
        /\ \E i \in 1..Len(list) : list[i] = x
    BY <1>2 DEF ListOf
  <2>2. Len(list) >= 1
    BY <2>1
  <2>3. Len(list) < 2
    <3> SUFFICES ASSUME Len(list) >= 2 PROVE FALSE
      BY <2>1
    <3>1. 1 \in 1..Len(list) /\ 2 \in 1..Len(list)
      BY <2>1
    <3>2. list[1] = x /\ list[2] = x
      BY <2>1, <3>1
    <3>3. 1 = 2
      BY <2>1, <3>1, <3>2
    <3> QED BY <3>3
  <2>0. Len(list) \in Nat
    BY <2>1
  <2>5. \A n \in Nat : n >= 1 /\ n < 2 => n = 1
    OBVIOUS
  <2>4. Len(list) = 1
    BY ONLY <2>0, <2>2, <2>3, <2>5, Zenon
  <2> QED BY <2>1, <2>4
<1> QED BY <1>1, <1>2

\* The invariant says what the properties of Proc say.
LEMMA InvImpliesProperties == Inv => TreeAgrees /\ PidsUnique /\ NoSleepOverZombie
<1> SUFFICES ASSUME Inv PROVE TreeAgrees /\ PidsUnique /\ NoSleepOverZombie
  OBVIOUS
<1>1. TypeOK /\ PidsUnique /\ NoSleepOverZombie
  BY DEF Inv, TreeInv, WaitInv
<1>2. \A p \in Threads : IsInjective(p_children[p]) /\ Range(p_children[p]) = Children(p)
  BY ListOfIsSet DEF Inv, TreeInv, ChildLists
<1>3. \A p \in Used \ {First} :
          p_pproc[p] = InitProc \/ (p_pproc[p] # NoProc /\ p_state[p_pproc[p]] = PROC_RUNNING)
  BY ProcAssumption DEF Inv, TreeInv, ParentsRun
<1>5. p_children[First] = IF InitProc \in Used THEN <<InitProc>> ELSE << >>
  <2>1. First \in Threads /\ ListOf(p_children[First], Children(First))
    BY FirstAssumption DEF Inv, TreeInv, ChildLists
  <2>2. Children(First) = IF InitProc \in Used THEN {InitProc} ELSE {}
    BY DEF Inv, TreeInv, Roots, Children, Used
  <2> QED BY <2>1, <2>2, ShortLists
<1>4. \A p, c \in Threads : c \in Range(p_children[p]) <=> c \in Used /\ p_pproc[c] = p
  BY <1>2 DEF Children
<1> QED BY <1>1, <1>2, <1>3, <1>4, <1>5 DEF TreeAgrees, Inv, AfterInit

\* Initially idle waits for init, which is on kt_runq.
LEMMA InitEstablishesInv == Init => Inv
<1> SUFFICES ASSUME Init PROVE Inv
  OBVIOUS
<1> USE ProcAssumption, FirstAssumption
<1>0. InitProc \in Threads /\ First \in Threads /\ InitProc # First
  OBVIOUS
<1>1. SchedInit.kt_state[InitProc] = KT_NO_STATE /\ SchedInv(SchedInit)
  BY <1>0, InitInv DEF SchedInit
<1>2. /\ SchedInv(sched) /\ NoNewSleeper(SchedInit, sched)
      /\ sched.kt_state = [SchedInit.kt_state EXCEPT ![InitProc] = KT_RUN]
  BY <1>0, <1>1, StartLives, Zenon DEF Init
<1>3. \A t \in Threads, q \in Queues : sched.kt_wchan[t] # q
  BY <1>2, QueueAssumption DEF NoNewSleeper, SchedInit
<1>4. \A t \in Threads : sched.kt_state[t] = IF t \in {First, InitProc} THEN KT_RUN ELSE KT_NO_STATE
  BY <1>0, <1>2 DEF SchedInit
<1>5. Used = {First, InitProc}
  BY <1>0 DEF Init, Used, Free, PROC_RUNNING
<1>6. TypeOK
  <2>1. sched \in SchedStates
    BY <1>2 DEF SchedInv
  <2>2. p_children \in [Threads -> Seq(Threads)]
    BY DEF Init
  <2>3. p_pid \in [Threads -> Pids] /\ next_pid \in Pids
    BY DEF Init, Pids
  <2> QED BY <2>1, <2>2, <2>3 DEF Init, TypeOK
<1>7. ChildLists
  <2> SUFFICES ASSUME NEW p \in Threads PROVE ListOf(p_children[p], Children(p))
    BY DEF ChildLists
  <2>1. CASE p = First
    <3>1. Children(p) = {InitProc} /\ p_children[p] = <<InitProc>>
      BY <1>0, <1>5, <2>1 DEF Init, Children
    <3> QED BY <1>0, <3>1 DEF ListOf, IsInjective, Range
  <2>2. CASE p # First
    <3>1. Children(p) = {} /\ p_children[p] = << >>
      BY <1>0, <1>5, <2>2 DEF Init, Children
    <3> QED BY <3>1 DEF ListOf, IsInjective, Range
  <2> QED BY <2>1, <2>2
<1>8. ParentsRun /\ Roots /\ PidsUnique
  <2>1. /\ p_state[First] = PROC_RUNNING /\ p_state[InitProc] = PROC_RUNNING
        /\ p_pproc[First] = NoProc /\ p_pid[First] = 0
        /\ p_pproc[InitProc] = First /\ p_pid[InitProc] = 1
        /\ \A p \in Threads \ {InitProc} : p_pproc[p] = NoProc
    BY <1>0 DEF Init
  <2> QED BY <1>0, <1>5, <2>1 DEF ParentsRun, Roots, PidsUnique
<1>9. Acyclic
  <2> SUFFICES ASSUME NEW S \in SUBSET (Used \ {First}), S # {}
               PROVE  \E p \in S : p_pproc[p] \notin S
    BY DEF Acyclic
  <2>1. InitProc \in S /\ First \notin S
    BY <1>5
  <2> QED BY <1>0, <2>1 DEF Init
<1>10. ThreadsMatch
  BY <1>0, <1>4 DEF Init, ThreadsMatch, Free, PROC_RUNNING, PROC_DEAD, KT_RUN, KT_NO_STATE, KT_EXITED
<1>11. OwnQueue /\ NoSleepOverZombie
  <2>1. \A p \in Threads : p_wait[p] \in Queues
    OBVIOUS
  <2>2. \A p \in Used : p \in Threads
    BY DEF Used
  <2> QED BY ONLY <1>3, <2>1, <2>2 DEF OwnQueue, NoSleepOverZombie
<1>12. WaitersKnow
  BY <1>0, <1>5 DEF Init, WaitersKnow, Nobody, AnyChild
<1>13. AfterInit
  BY <1>5 DEF AfterInit
<1> QED BY <1>2, <1>6, <1>7, <1>8, <1>9, <1>10, <1>11, <1>12, <1>13 DEF Inv, TreeInv, WaitInv

\* A step of the scheduler in which nobody is born, dies or falls asleep.
LEMMA SchedOnlyKeepsInv ==
    ASSUME Inv, InitProc \in Used, sched'.asserts => SchedInv(sched'), sched' \in SchedStates,
           SameLives(sched, sched'), NoNewSleeper(sched, sched'), ProcUnchanged,
           \A p \in Threads : waiting'[p] \in {waiting[p], Nobody},
           waiting' \in [Threads -> Threads \cup {Nobody, AnyChild}]
    PROVE  Inv'
<1> USE DEF ProcUnchanged
<1>1. TypeOK' /\ ParentsRun' /\ Roots' /\ PidsUnique'
  BY DEF Inv, TreeInv, TypeOK, ParentsRun, Roots, PidsUnique, Used, Pids
<1>2. ChildLists' /\ Acyclic'
  BY DEF Inv, TreeInv, ChildLists, Children, Acyclic, Used
<1>3. ThreadsMatch' /\ OwnQueue'
  BY DEF Inv, WaitInv, ThreadsMatch, OwnQueue, SameLives, NoNewSleeper
<1>4. WaitersKnow'
  BY ProcAssumption DEF Inv, WaitInv, WaitersKnow, Used
<1>5. NoSleepOverZombie'
  BY ProcAssumption DEF Inv, WaitInv, NoSleepOverZombie, NoNewSleeper, Used, Nobody, AnyChild
<1>6. AfterInit'
  BY DEF AfterInit, Used
<1> QED BY <1>1, <1>2, <1>3, <1>4, <1>5, <1>6 DEF Inv, TreeInv, WaitInv

\* What is known of the process that runs.
LEMMA RunningFacts ==
    ASSUME Inv, sched.asserts, sched.cpu = "run"
    PROVE  /\ SchedInv(sched)
           /\ self \in Threads
           /\ p_state[self] = PROC_RUNNING
           /\ sched.kt_wchan[self] = NoQueue
<1>1. SchedInv(sched)
  BY DEF Inv
<1>2. /\ self \in Threads
      /\ sched.kt_wchan[self] = NoQueue
      /\ sched.kt_state[self] \notin {KT_NO_STATE, KT_EXITED}
  BY <1>1, CurrentAlive DEF self
<1>3. p_state[self] \in {Free, PROC_RUNNING, PROC_DEAD}
  BY <1>2 DEF Inv, TreeInv, TypeOK
<1> QED BY <1>1, <1>2, <1>3 DEF Inv, WaitInv, ThreadsMatch

\* While any process but idle runs, init has not been reaped.
LEMMA InitExists ==
    ASSUME Inv, sched.asserts, sched.cpu = "run", self # First
    PROVE  InitProc \in Used /\ self \in Used \ {First}
<1>1. self \in Threads /\ p_state[self] = PROC_RUNNING
  BY RunningFacts
<1>2. self \in Used
  BY <1>1 DEF Used, Free, PROC_RUNNING
<1> QED BY <1>1, <1>2 DEF Inv, AfterInit
-----------------------------------------------------------------------------
(***************************************************************************)
(* Every step preserves Inv.                                               *)
(***************************************************************************)
\* do_waitpid goes to sleep: for any child when none is dead, or for one of
\* its children.
LEMMA SleepKeepsInv ==
    ASSUME Inv, InitProc \in Used, sched.asserts, sched.cpu = "run", NEW w,
           sched' = sched_sleep_on(sched, p_wait[self]),
           waiting' = [waiting EXCEPT ![self] = w], ProcUnchanged,
           \/ w = AnyChild /\ \A c \in Children(self) : p_state[c] # PROC_DEAD
           \/ w \in Children(self)
    PROVE  Inv'
<1> USE DEF ProcUnchanged
<1>0. /\ SchedInv(sched) /\ self \in Threads /\ p_state[self] = PROC_RUNNING
      /\ p_wait[self] \in Queues /\ sched \in SchedStates
  BY RunningFacts, ProcAssumption DEF SchedInv
<1>1. /\ SchedInv(sched') /\ SameLives(sched, sched')
      /\ sched'.kt_wchan = [sched.kt_wchan EXCEPT ![self] = p_wait[self]]
  BY <1>0, SleepLives DEF self
<1>2. \A t \in Threads : sched'.kt_wchan[t] = IF t = self THEN p_wait[self] ELSE sched.kt_wchan[t]
  BY <1>0, <1>1 DEF SchedStates
<1>3. /\ waiting \in [Threads -> Threads \cup {Nobody, AnyChild}]
      /\ w \in Threads \cup {Nobody, AnyChild}
      /\ \A t \in Threads : waiting'[t] = IF t = self THEN w ELSE waiting[t]
  BY <1>0 DEF Inv, TreeInv, TypeOK, Children, Used
<1>4. TypeOK' /\ ParentsRun' /\ Roots' /\ PidsUnique'
  <2>1. waiting' \in [Threads -> Threads \cup {Nobody, AnyChild}]
    BY <1>0, <1>3
  <2>2. TypeOK'
    BY <1>1, <2>1 DEF Inv, TreeInv, TypeOK, SchedInv
  <2>3. ParentsRun' /\ Roots'
    BY DEF Inv, TreeInv, ParentsRun, Roots, Used
  <2>4. PidsUnique'
    BY DEF Inv, TreeInv, PidsUnique, Used
  <2> QED BY <2>2, <2>3, <2>4
<1>5. ChildLists' /\ Acyclic'
  BY DEF Inv, TreeInv, ChildLists, Children, Acyclic, Used
<1>6. ThreadsMatch' /\ OwnQueue'
  BY <1>1, <1>2 DEF Inv, WaitInv, ThreadsMatch, OwnQueue, SameLives
<1>7. WaitersKnow'
  BY <1>0, <1>3, ProcAssumption DEF Inv, WaitInv, WaitersKnow, Used, Children
<1>8. NoSleepOverZombie'
  <2> SUFFICES ASSUME NEW p \in Used \ {InitProc}, waiting'[p] = AnyChild,
                      sched'.kt_wchan[p] = p_wait[p],
                      NEW c \in Range(p_children[p])
               PROVE  p_state[c] = PROC_RUNNING
    BY DEF NoSleepOverZombie, Used
  <2>0. p \in Threads
    BY DEF Used
  <2>1. CASE p # self
    BY <1>2, <1>3, <2>0, <2>1 DEF Inv, WaitInv, NoSleepOverZombie
  <2>2. CASE p = self
    <3>1. c \in Children(self)
      BY <2>0, <2>2, ListOfIsSet DEF Inv, TreeInv, ChildLists
    <3>2. AnyChild \notin Children(self)
      BY ProcAssumption DEF Children, Used
    <3>3. p_state[c] # PROC_DEAD /\ p_state[c] # Free /\ c \in Threads
      BY <1>3, <2>0, <2>2, <3>1, <3>2 DEF Children, Used
    <3> QED BY <3>3 DEF Inv, TreeInv, TypeOK
  <2> QED BY <2>1, <2>2
<1>9. AfterInit'
  BY DEF AfterInit, Used
<1> QED BY <1>1, <1>4, <1>5, <1>6, <1>7, <1>8, <1>9 DEF Inv, TreeInv, WaitInv

\* do_waitpid disposes of a dead child.
LEMMA ReapKeepsInv ==
    ASSUME Inv, sched.asserts, sched.cpu = "run",
           NEW c \in Children(self), p_state[c] = PROC_DEAD, reap(c),
           waiting' = [waiting EXCEPT ![self] = Nobody]
    PROVE  Inv'
<1> USE DEF reap
<1>0. /\ SchedInv(sched) /\ self \in Threads /\ p_state[self] = PROC_RUNNING
      /\ c \in Threads /\ c # self /\ c \in Used /\ p_pproc[c] = self /\ sched \in SchedStates
  BY RunningFacts DEF Children, Used, PROC_DEAD, PROC_RUNNING, SchedInv
<1>a. First \in Threads /\ InitProc \in Threads /\ First # InitProc /\ NoProc \notin Threads
  BY ProcAssumption, FirstAssumption
<1>b. TypeOK
  BY DEF Inv, TreeInv
<1>1. /\ SchedInv(sched') /\ sched'.kt_wchan = sched.kt_wchan
      /\ sched'.kt_state = [sched.kt_state EXCEPT ![c] = KT_NO_STATE]
  <2>1. sched.kt_state[c] = KT_EXITED
    BY <1>0 DEF Inv, WaitInv, ThreadsMatch
  <2> QED BY <1>0, <2>1, DestroyLives DEF self
<1>2. \A t \in Threads : sched'.kt_state[t] = IF t = c THEN KT_NO_STATE ELSE sched.kt_state[t]
  BY <1>0, <1>1 DEF SchedStates
<1>3. /\ \A t \in Threads : p_state'[t] = IF t = c THEN Free ELSE p_state[t]
      /\ \A t \in Threads : p_pproc'[t] = IF t = c THEN NoProc ELSE p_pproc[t]
      /\ \A t \in Threads : p_children'[t] = IF t = self THEN list_remove(p_children[self], c)
                                             ELSE p_children[t]
      /\ \A t \in Threads : waiting'[t] = IF t = self THEN Nobody ELSE waiting[t]
  BY <1>0, <1>b DEF TypeOK
<1>4. Used' = Used \ {c}
  BY <1>0, <1>3 DEF Used, Free
<1>5. \A p \in Threads : Children(p)' = Children(p) \ {c}
  BY <1>0, <1>3, <1>4 DEF Children, Used
<1>6. \A p \in Threads \ {self} : c \notin Children(p)
  BY <1>0 DEF Children
<1>7. ListOf(list_remove(p_children[self], c), Children(self) \ {c})
  BY <1>0, RemoveLink DEF Inv, TreeInv, ChildLists
<1>8. ChildLists'
  <2> SUFFICES ASSUME NEW p \in Threads PROVE ListOf(p_children'[p], Children(p)')
    BY DEF ChildLists
  <2>1. CASE p = self
    BY <1>3, <1>5, <1>7, <2>1
  <2>2. CASE p # self
    <3>1. Children(p)' = Children(p)
      BY <1>5, <1>6, <2>2
    <3> QED BY <1>3, <2>2, <3>1 DEF Inv, TreeInv, ChildLists
  <2> QED BY <2>1, <2>2
<1>9. TypeOK'
  <2>1. list_remove(p_children[self], c) \in Seq(Threads)
    <3>1. Children(self) \ {c} \subseteq Threads
      BY DEF Children, Used
    <3> QED BY <1>7, <3>1, ListOfThreads
  <2>2. p_children' \in [Threads -> Seq(Threads)]
    BY <1>0, <1>b, <2>1 DEF TypeOK
  <2> QED BY <1>0, <1>1, <1>b, <2>2 DEF TypeOK, SchedInv, Pids
<1>10. ParentsRun'
  <2> SUFFICES ASSUME NEW p \in Used' \ {First}
               PROVE  /\ p_pproc'[p] \in Threads
                      /\ p_pproc'[p] = InitProc \/ p_state'[p_pproc'[p]] = PROC_RUNNING
    BY DEF ParentsRun
  <2>1. p \in Used \ {First} /\ p # c /\ p \in Threads
    BY <1>4 DEF Used
  <2>2. /\ p_pproc'[p] = p_pproc[p] /\ p_pproc[p] \in Threads
        /\ p_pproc[p] = InitProc \/ p_state[p_pproc[p]] = PROC_RUNNING
    BY <1>3, <2>1 DEF Inv, TreeInv, ParentsRun
  <2> QED BY <1>3, <2>2 DEF PROC_RUNNING, PROC_DEAD
<1>11. Roots'
  <2>1. Roots
    BY DEF Inv, TreeInv
  <2>2. c # First
    BY <2>1 DEF Roots, PROC_RUNNING, PROC_DEAD
  <2>4. \A p \in Threads : p_pproc'[p] = First => p = InitProc
    BY <1>3, <1>a, <2>1 DEF Roots
  <2>5. InitProc \in Used' => p_pproc'[InitProc] = First /\ p_pid'[InitProc] = 1
    BY <1>3, <1>4, <1>a, <2>1 DEF Roots
  <2>6. p_state'[First] = PROC_RUNNING /\ p_pproc'[First] = NoProc /\ p_pid'[First] = 0
    BY <1>3, <1>a, <2>1, <2>2 DEF Roots
  <2> QED BY <2>4, <2>5, <2>6 DEF Roots
<1>12. Acyclic'
  <2> SUFFICES ASSUME NEW S \in SUBSET (Used' \ {First}), S # {}
               PROVE  \E p \in S : p_pproc'[p] \notin S
    BY DEF Acyclic
  <2>1. S \in SUBSET (Used \ {First}) /\ c \notin S /\ S \subseteq Threads
    BY <1>4 DEF Used
  <2>2. PICK p \in S : p_pproc[p] \notin S
    BY <2>1 DEF Inv, TreeInv, Acyclic
  <2> QED BY <1>3, <2>1, <2>2
<1>13. PidsUnique'
  BY <1>4 DEF Inv, TreeInv, PidsUnique
<1>14. ThreadsMatch' /\ OwnQueue'
  <2>1. ThreadsMatch'
    BY <1>2, <1>3 DEF Inv, WaitInv, ThreadsMatch, Free, PROC_DEAD, KT_NO_STATE, KT_EXITED
  <2>2. OwnQueue'
    BY <1>1 DEF Inv, WaitInv, OwnQueue
  <2> QED BY <2>1, <2>2
<1>15. WaitersKnow'
  <2> SUFFICES ASSUME NEW p \in Threads
               PROVE  /\ waiting'[p] # Nobody => p_state'[p] = PROC_RUNNING
                      /\ waiting'[p] \in Threads => waiting'[p] \in Used' /\ p_pproc'[waiting'[p]] = p
    BY DEF WaitersKnow
  <2>1. /\ waiting[p] # Nobody => p_state[p] = PROC_RUNNING
        /\ waiting[p] \in Threads => waiting[p] \in Used /\ p_pproc[waiting[p]] = p
    BY DEF Inv, WaitInv, WaitersKnow
  <2>2. CASE p = self
    BY <1>3, <2>2, ProcAssumption
  <2>3. CASE p # self
    <3>1. waiting'[p] = waiting[p] /\ waiting[p] # c
      BY <1>0, <1>3, <2>1, <2>3
    <3> QED BY <1>3, <1>4, <2>1, <3>1 DEF PROC_RUNNING, PROC_DEAD
  <2> QED BY <2>2, <2>3
<1>16. NoSleepOverZombie'
  <2> SUFFICES ASSUME NEW p \in Used' \ {InitProc}, waiting'[p] = AnyChild,
                      sched'.kt_wchan[p] = p_wait[p],
                      NEW d \in Range(p_children'[p])
               PROVE  p_state'[d] = PROC_RUNNING
    BY DEF NoSleepOverZombie
  <2>0. p \in Used \ {InitProc} /\ p \in Threads /\ waiting[p] = AnyChild
    <3>1. p \in Used \ {InitProc} /\ p \in Threads
      BY <1>4 DEF Used
    <3>2. waiting[p] = AnyChild
      BY ONLY <1>3, <3>1, waiting'[p] = AnyChild DEF Nobody, AnyChild
    <3> QED BY <3>1, <3>2
  <2>1. d \in Children(p) \ {c}
    BY <1>5, <1>8, <2>0, ListOfIsSet DEF ChildLists
  <2>2. d \in Range(p_children[p]) /\ d \in Threads
    BY <2>0, <2>1, ListOfIsSet DEF Inv, TreeInv, ChildLists, Children, Used
  <2>3. p_state[d] = PROC_RUNNING
    BY <1>1, <2>0, <2>2 DEF Inv, WaitInv, NoSleepOverZombie
  <2> QED BY <1>3, <2>1, <2>2, <2>3
<1>17. AfterInit'
  <2> SUFFICES ASSUME InitProc \notin Used'
               PROVE  sched'.curthr = First /\ sched'.cpu = "run" /\ waiting'[First] = Nobody
    BY DEF AfterInit, self
  <2>1. sched'.curthr = sched.curthr /\ sched'.cpu = "run"
    BY <1>0, Zenon DEF kthread_destroy, SchedStates
  <2>2. CASE c = InitProc
    BY <1>0, <1>3, <2>1, <2>2 DEF Inv, TreeInv, Roots, self
  <2>3. CASE c # InitProc
    <3>1. self = First /\ waiting[First] = Nobody
      BY <1>4, <2>3 DEF Inv, AfterInit
    <3> QED BY <1>0, <1>3, <2>1, <3>1 DEF self
  <2> QED BY <2>2, <2>3
<1> QED BY <1>1, <1>8, <1>9, <1>10, <1>11, <1>12, <1>13, <1>14, <1>15, <1>16, <1>17 DEF Inv, TreeInv, WaitInv

\* proc_create of p and the start of its thread.
LEMMA StartKeepsInv ==
    ASSUME Inv, NEW p \in Threads, start_proc(p)
    PROVE  Inv' /\ sched'.asserts
<1> DEFINE pid == _proc_getid
           n == sched_make_runnable(kthread_create(sched, p), p)
<1>0. /\ Executing /\ p \notin Used
      /\ sched' = [n EXCEPT !.asserts = @ /\ pid # 0 /\ (pid = 1 => self = First)]
      /\ p_state' = [p_state EXCEPT ![p] = PROC_RUNNING]
      /\ p_pproc' = [p_pproc EXCEPT ![p] = self]
      /\ p_children' = [p_children EXCEPT ![p] = << >>, ![self] = Append(@, p)]
      /\ p_pid' = [p_pid EXCEPT ![p] = pid]
      /\ next_pid' = (pid + 1) % PROC_MAX_COUNT
      /\ p_status' = [p_status EXCEPT ![p] = 0]
      /\ waiting' = waiting
  BY DEF start_proc
<1>1. sched.asserts /\ sched.cpu = "run" /\ waiting[self] = Nobody /\ self # First
  BY <1>0 DEF Executing
<1>2. /\ SchedInv(sched) /\ self \in Threads /\ p_state[self] = PROC_RUNNING
      /\ InitProc \in Used /\ self \in Used /\ sched \in SchedStates
  BY <1>1, RunningFacts, InitExists DEF SchedInv
<1>a. First \in Threads /\ InitProc \in Threads /\ First # InitProc /\ NoProc \notin Threads
  BY ProcAssumption, FirstAssumption
<1>b. TypeOK /\ Roots
  BY DEF Inv, TreeInv
<1>3. First \in Used /\ InitProc \in Used /\ p # First /\ p # InitProc /\ p # self
  BY <1>0, <1>2, <1>a, <1>b DEF Roots, Used, Free, PROC_RUNNING
<1>4. pid \in Pids /\ \A q \in Used : p_pid[q] # pid
  BY <1>0, <1>b, GetidIsFree DEF TypeOK
<1>5. pid # 0 /\ pid # 1
  BY <1>3, <1>4, <1>b DEF Roots
<1> HIDE DEF pid
<1>6. /\ SchedInv(n) /\ NoNewSleeper(sched, n)
      /\ n.kt_state = [sched.kt_state EXCEPT ![p] = KT_RUN]
  <2>1. p_state[p] = Free
    BY <1>0 DEF Used
  <2>2. sched.kt_state[p] = KT_NO_STATE
    BY <2>1 DEF Inv, WaitInv, ThreadsMatch
  <2> QED BY <1>2, <2>2, StartLives, Zenon
<1> HIDE DEF n
<1>7. sched' = n
  <2>1. n \in SchedStates /\ n.asserts
    BY <1>6 DEF SchedInv
  <2>2. (n.asserts /\ pid # 0 /\ (pid = 1 => self = First)) = n.asserts
    BY <2>1, <1>5 DEF SchedStates
  <2> QED BY <1>0, <2>1, <2>2, Zenon DEF SchedStates
<1>8. /\ \A t \in Threads : p_state'[t] = IF t = p THEN PROC_RUNNING ELSE p_state[t]
      /\ \A t \in Threads : p_pproc'[t] = IF t = p THEN self ELSE p_pproc[t]
      /\ \A t \in Threads : p_pid'[t] = IF t = p THEN pid ELSE p_pid[t]
      /\ \A t \in Threads : sched'.kt_state[t] = IF t = p THEN KT_RUN ELSE sched.kt_state[t]
  BY <1>0, <1>2, <1>6, <1>7, <1>b DEF TypeOK, SchedStates
<1>9. \A t \in Threads : p_children'[t] = IF t = p THEN << >>
                                         ELSE IF t = self THEN Append(p_children[self], p)
                                         ELSE p_children[t]
  BY <1>0, <1>2, <1>3, <1>b DEF TypeOK
<1>10. Used' = Used \cup {p}
  BY <1>8 DEF Used, Free, PROC_RUNNING
<1>11. Children(p) = {}
  BY <1>0, <1>3, <1>b, <1>a DEF Inv, TreeInv, ParentsRun, Children, Used, Roots, Free, PROC_RUNNING
<1>12. \A q \in Threads : Children(q)' = IF q = self THEN Children(q) \cup {p} ELSE Children(q)
  BY <1>0, <1>3, <1>8, <1>10 DEF Children, Used
<1>13. ListOf(Append(p_children[self], p), Children(self) \cup {p})
  <2>1. p \notin Children(self) /\ ListOf(p_children[self], Children(self))
    BY <1>0, <1>2 DEF Inv, TreeInv, ChildLists, Children
  <2> QED BY <2>1, AppendLink
<1>14. ChildLists'
  <2> SUFFICES ASSUME NEW q \in Threads PROVE ListOf(p_children'[q], Children(q)')
    BY DEF ChildLists
  <2>1. CASE q = self
    BY <1>3, <1>9, <1>12, <1>13, <2>1
  <2>2. CASE q = p
    <3>1. Children(q)' = {} /\ p_children'[q] = << >>
      BY <1>3, <1>9, <1>11, <1>12, <2>2
    <3> QED BY <3>1 DEF ListOf, IsInjective, Range
  <2>3. CASE q # self /\ q # p
    BY <1>9, <1>12, <2>3 DEF Inv, TreeInv, ChildLists
  <2> QED BY <2>1, <2>2, <2>3
<1>15. TypeOK'
  <2>2. p_children' \in [Threads -> Seq(Threads)]
    <3>1. p_children' = [t \in Threads |-> p_children'[t]]
      BY <1>0, <1>b DEF TypeOK
    <3>2. \A t \in Threads : p_children'[t] \in Seq(Threads)
      <4>1. \A t \in Threads : Children(t)' \subseteq Threads
        BY DEF Children, Used
      <4> QED BY <1>14, <4>1, ListOfThreads DEF ChildLists
    <3> QED BY <3>1, <3>2
  <2>3. next_pid' \in Pids
    <3>1. PROC_MAX_COUNT \in Nat \ {0} /\ pid + 1 \in Nat
      BY <1>4, ProcAssumption DEF Pids
    <3> QED BY <1>0, <3>1 DEF Pids
  <2>4. sched' \in SchedStates
    BY <1>6, <1>7 DEF SchedInv
  <2>5. p_pid' \in [Threads -> Pids']
    BY <1>0, <1>4, <1>b DEF TypeOK, Pids
  <2>6. p_status' \in [Threads -> Statuses]
    BY <1>0, <1>b, ProcAssumption DEF TypeOK
  <2> QED BY <1>0, <1>2, <1>b, <2>2, <2>3, <2>4, <2>5, <2>6 DEF TypeOK, Pids
<1>16. ParentsRun'
  <2> SUFFICES ASSUME NEW q \in Used' \ {First}
               PROVE  /\ p_pproc'[q] \in Threads
                      /\ p_pproc'[q] = InitProc \/ p_state'[p_pproc'[q]] = PROC_RUNNING
    BY DEF ParentsRun
  <2>1. CASE q = p
    BY <1>2, <1>8, <2>1
  <2>2. CASE q # p
    <3>1. q \in Used \ {First} /\ q \in Threads
      BY <1>10, <2>2 DEF Used
    <3>2. p_pproc[q] \in Threads /\ (p_pproc[q] = InitProc \/ p_state[p_pproc[q]] = PROC_RUNNING)
      BY <3>1 DEF Inv, TreeInv, ParentsRun
    <3> QED BY <1>8, <2>2, <3>1, <3>2
  <2> QED BY <2>1, <2>2
<1>17. Roots'
  <2>1. \A q \in Threads : p_pproc'[q] = First => q = InitProc
    BY <1>1, <1>8, <1>b DEF Roots
  <2>2. /\ p_pproc'[InitProc] = First /\ p_pid'[InitProc] = 1
        /\ p_state'[First] = PROC_RUNNING /\ p_pproc'[First] = NoProc /\ p_pid'[First] = 0
    BY <1>2, <1>3, <1>8, <1>a, <1>b DEF Roots
  <2> QED BY <2>1, <2>2 DEF Roots
<1>18. Acyclic'
  <2> SUFFICES ASSUME NEW S \in SUBSET (Used' \ {First}), S # {}
               PROVE  \E q \in S : p_pproc'[q] \notin S
    BY DEF Acyclic
  <2>0. S \subseteq Threads /\ S \subseteq Used \cup {p} /\ First \notin S
    BY <1>10 DEF Used
  <2>1. CASE S = {p}
    BY <1>3, <1>8, <2>1
  <2>2. CASE S # {p}
    <3>1. S \ {p} \in SUBSET (Used \ {First}) /\ S \ {p} # {}
      BY <2>0, <2>2
    <3>2. PICK q \in S \ {p} : p_pproc[q] \notin S \ {p}
      BY <3>1 DEF Inv, TreeInv, Acyclic
    <3>3. p_pproc[q] # p
      BY <1>11, <2>0, <3>2 DEF Children
    <3> QED BY <1>8, <2>0, <3>2, <3>3
  <2> QED BY <2>1, <2>2
<1>19. PidsUnique'
  <2>1. \A q, r \in Used : p_pid[q] = p_pid[r] => q = r
    BY DEF Inv, TreeInv, PidsUnique
  <2>2. Used \subseteq Threads
    BY DEF Used
  <2> QED BY <1>0, <1>4, <1>8, <1>10, <2>1, <2>2 DEF PidsUnique
<1>20. ThreadsMatch'
  BY <1>8 DEF Inv, WaitInv, ThreadsMatch, Free, PROC_DEAD, PROC_RUNNING, KT_NO_STATE, KT_EXITED, KT_RUN
<1>21. OwnQueue'
  BY <1>6, <1>7 DEF Inv, WaitInv, OwnQueue, NoNewSleeper
<1>22. WaitersKnow'
  <2> SUFFICES ASSUME NEW q \in Threads
               PROVE  /\ waiting[q] # Nobody => p_state'[q] = PROC_RUNNING
                      /\ waiting[q] \in Threads => waiting[q] \in Used' /\ p_pproc'[waiting[q]] = q
    BY <1>0 DEF WaitersKnow
  <2>1. /\ waiting[q] # Nobody => p_state[q] = PROC_RUNNING
        /\ waiting[q] \in Threads => waiting[q] \in Used /\ p_pproc[waiting[q]] = q
    BY DEF Inv, WaitInv, WaitersKnow
  <2> QED BY <1>0, <1>8, <1>10, <2>1
<1>23. NoSleepOverZombie'
  <2> SUFFICES ASSUME NEW q \in Used' \ {InitProc}, waiting[q] = AnyChild,
                      sched'.kt_wchan[q] = p_wait[q],
                      NEW d \in Range(p_children'[q])
               PROVE  p_state'[d] = PROC_RUNNING
    BY <1>0 DEF NoSleepOverZombie
  <2>0. q \in Threads
    BY <1>10 DEF Used
  <2>1. q # self /\ AnyChild # Nobody
    BY <1>1 DEF Nobody, AnyChild
  <2>2. q # p
    BY <1>0, <2>0, <2>1 DEF Inv, WaitInv, WaitersKnow, Used, Free, PROC_RUNNING
  <2>3. q \in Used \ {InitProc} /\ p_children'[q] = p_children[q]
    BY <1>9, <1>10, <2>0, <2>1, <2>2
  <2>4. sched.kt_wchan[q] = p_wait[q]
    BY <1>6, <1>7, <2>0, ProcAssumption DEF NoNewSleeper
  <2>5. d \in Threads
    <3>1. Range(p_children[q]) = Children(q)
      BY <2>3, ListOfIsSet DEF Inv, TreeInv, ChildLists, Used
    <3> QED BY <2>3, <3>1 DEF Children, Used
  <2>6. p_state[d] = PROC_RUNNING
    BY <2>3, <2>4 DEF Inv, WaitInv, NoSleepOverZombie
  <2> QED BY <1>8, <2>5, <2>6
<1>24. SchedInv(sched') /\ sched'.asserts
  BY <1>6, <1>7 DEF SchedInv
<1>25. AfterInit'
  BY <1>2, <1>10 DEF AfterInit
<1> QED BY <1>14, <1>15, <1>16, <1>17, <1>18, <1>19, <1>20, <1>21, <1>22, <1>23, <1>24, <1>25
        DEF Inv, TreeInv, WaitInv

\* A process exits.
LEMMA ExitKeepsInv ==
    ASSUME Inv, Executing, NEW status, proc_cleanup(status)
    PROVE  Inv'
<1> DEFINE parent == p_pproc[self]
           n == call_switch(sched_wakeup_on(kthread_exit(sched), p_wait[parent]))
           orphans == IF self = InitProc THEN {} ELSE Children(self)
<1>0. /\ p_children' = Reparented
      /\ p_pproc' = [p \in Threads |->
                        IF self # InitProc /\ p \in Range(p_children[self]) THEN InitProc
                        ELSE p_pproc[p]]
      /\ p_state' = [p_state EXCEPT ![self] = PROC_DEAD]
      /\ p_status' = [p_status EXCEPT ![self] = 0]
      /\ sched' = n
      /\ p_pid' = p_pid /\ next_pid' = next_pid /\ waiting' = waiting
  BY DEF proc_cleanup
<1>1. sched.asserts /\ sched.cpu = "run" /\ waiting[self] = Nobody /\ self # First
  BY DEF Executing
<1>2. /\ SchedInv(sched) /\ self \in Threads /\ p_state[self] = PROC_RUNNING
      /\ InitProc \in Used /\ self \in Used \ {First} /\ sched \in SchedStates
  BY <1>1, RunningFacts, InitExists DEF SchedInv
<1>a. First \in Threads /\ InitProc \in Threads /\ First # InitProc /\ NoProc \notin Threads
  BY ProcAssumption, FirstAssumption
<1>b. TypeOK /\ Roots
  BY DEF Inv, TreeInv
<1>c. InitProc \in Used /\ p_pproc[InitProc] = First
  BY <1>2, <1>a, <1>b DEF Roots, Used, Free, PROC_RUNNING
<1>3. parent \in Threads /\ p_wait[parent] \in Queues /\ parent # self
  <2>1. parent \in Threads
    BY <1>2 DEF Inv, TreeInv, ParentsRun
  <2>2. {self} \in SUBSET (Used \ {First}) /\ {self} # {}
    BY <1>2
  <2>3. \E p \in {self} : p_pproc[p] \notin {self}
    BY <2>2 DEF Inv, TreeInv, Acyclic
  <2> QED BY <2>1, <2>3, ProcAssumption
<1>4. /\ SchedInv(sched') /\ NoNewSleeper(sched, sched')
      /\ SameLives([sched EXCEPT !.kt_state[sched.curthr] = KT_EXITED], sched')
      /\ \A p \in Threads : (\A t \in Threads : sched.kt_wchan[t] = p_wait[parent] => t = p)
                            => sched'.kt_wchan[p] # p_wait[parent]
  BY <1>0, <1>1, <1>2, <1>3, ExitLives, Zenon
<1>5. Range(p_children[self]) = Children(self) /\ ListOf(p_children[self], Children(self))
      /\ ListOf(p_children[InitProc], Children(InitProc))
  BY <1>2, <1>a, ListOfIsSet DEF Inv, TreeInv, ChildLists
<1> HIDE DEF n
<1>7. /\ \A t \in Threads : p_state'[t] = IF t = self THEN PROC_DEAD ELSE p_state[t]
      /\ \A t \in Threads : p_pproc'[t] = IF t \in orphans THEN InitProc ELSE p_pproc[t]
  BY <1>0, <1>2, <1>5, <1>b DEF TypeOK
<1>8. Used' = Used
  BY <1>2, <1>7 DEF Used, Free, PROC_DEAD
<1>9. orphans \subseteq Used /\ self \notin orphans /\ First \notin orphans /\ InitProc \notin orphans
      /\ \A t \in Used \ orphans : p_pproc[t] = self => self = InitProc
  BY <1>1, <1>2, <1>3, <1>a, <1>b, <1>c DEF Children, Roots
<1>10. \A q \in Threads : Children(q)' = IF self # InitProc /\ q = self THEN {}
                                        ELSE IF q = InitProc THEN Children(q) \cup orphans
                                        ELSE Children(q)
  <2> SUFFICES ASSUME NEW q \in Threads, NEW t
               PROVE  t \in Children(q)' <=> t \in IF self # InitProc /\ q = self THEN {}
                                        ELSE IF q = InitProc THEN Children(q) \cup orphans
                                        ELSE Children(q)
    BY Zenon
  <2>1. t \in Children(q)' <=> t \in Used /\ p_pproc'[t] = q
    BY <1>8 DEF Children
  <2>2. t \in Children(q) <=> t \in Used /\ p_pproc[t] = q
    BY DEF Children
  <2>3. t \in Used => p_pproc'[t] = IF t \in orphans THEN InitProc ELSE p_pproc[t]
    BY <1>7 DEF Used
  <2>4. t \in orphans => t \in Used /\ p_pproc[t] = self /\ self # InitProc
    BY DEF Children
  <2> HIDE DEF orphans
  <2> QED BY <1>9, <2>1, <2>2, <2>3, <2>4
<1>11. ChildLists' /\ p_children' \in [Threads -> Seq(Threads)]
  <2>1. CASE self = InitProc
    <3>1. p_children' = p_children /\ \A q \in Threads : Children(q)' = Children(q)
      BY <1>0, <1>10, <2>1 DEF Reparented
    <3> QED BY <1>b, <3>1 DEF Inv, TreeInv, ChildLists, TypeOK
  <2>2. CASE self # InitProc
    <3>0. Children(InitProc) \cap Children(self) = {}
      BY <2>2 DEF Children
    <3>1. ListOf(p_children[InitProc] \o p_children[self], Children(InitProc) \cup Children(self))
      BY <1>5, <3>0, ConcatLinks
    <3> DEFINE f == [p_children EXCEPT ![self] = << >>]
    <3>2. f \in [Threads -> Seq(Threads)] /\ f[InitProc] = p_children[InitProc]
      BY <1>2, <1>a, <1>b, <2>2 DEF TypeOK
    <3>3. p_children' = [f EXCEPT ![InitProc] = f[InitProc] \o p_children[self]]
      BY <1>0, <2>2 DEF Reparented
    <3>4. p_children' \in [Threads -> Seq(Threads)]
      <4> HIDE DEF f
      <4>1. Children(InitProc) \cup Children(self) \subseteq Threads
        BY DEF Children, Used
      <4>2. p_children[InitProc] \o p_children[self] \in Seq(Threads)
        BY <3>1, <4>1, ListOfThreads
      <4> QED BY <1>a, <3>2, <3>3, <4>2
    <3>5. \A q \in Threads : p_children'[q] = IF q = InitProc THEN p_children[InitProc] \o p_children[self]
                                             ELSE IF q = self THEN << >>
                                             ELSE p_children[q]
      BY <1>a, <1>b, <3>2, <3>3 DEF TypeOK
    <3>6. ASSUME NEW q \in Threads PROVE ListOf(p_children'[q], Children(q)')
      <4>1. CASE q = InitProc
        BY <1>10, <2>2, <3>1, <3>5, <4>1
      <4>2. CASE q = self
        <5>1. p_children'[q] = << >> /\ Children(q)' = {}
          BY <1>10, <2>2, <3>5, <4>2
        <5> QED BY <5>1 DEF ListOf, IsInjective, Range
      <4>3. CASE q # InitProc /\ q # self
        BY <1>10, <3>5, <4>3 DEF Inv, TreeInv, ChildLists
      <4> QED BY <4>1, <4>2, <4>3
    <3> QED BY <3>4, <3>6 DEF ChildLists
  <2> QED BY <2>1, <2>2
<1>12. TypeOK'
  <2>1. p_pproc' \in [Threads -> Threads \cup {NoProc}]
    BY <1>0, <1>a, <1>b DEF TypeOK
  <2>2. p_status' \in [Threads -> Statuses]
    BY <1>0, <1>b, ProcAssumption DEF TypeOK
  <2> QED BY <1>0, <1>4, <1>11, <1>b, <2>1, <2>2 DEF TypeOK, SchedInv, Pids
<1> HIDE DEF orphans
<1>13. ParentsRun'
  <2> SUFFICES ASSUME NEW q \in Used \ {First}
               PROVE  /\ p_pproc'[q] \in Threads
                      /\ p_pproc'[q] = InitProc \/ p_state'[p_pproc'[q]] = PROC_RUNNING
    BY <1>8 DEF ParentsRun
  <2>0. q \in Threads
    BY DEF Used
  <2>1. CASE q \in orphans
    BY <1>7, <1>a, <2>0, <2>1
  <2>2. CASE q \notin orphans
    <3>1. /\ p_pproc[q] \in Threads
          /\ p_pproc[q] = InitProc \/ (p_state[p_pproc[q]] = PROC_RUNNING /\ p_pproc[q] # self)
      BY <1>9, <2>2 DEF Inv, TreeInv, ParentsRun
    <3> QED BY <1>7, <2>0, <2>2, <3>1
  <2> QED BY <2>1, <2>2
<1>14. Roots'
  <2>1. \A q \in Threads : p_pproc'[q] = First => q = InitProc
    BY <1>7, <1>a, <1>b DEF Roots
  <2>2. /\ p_pproc'[InitProc] = First /\ p_pid'[InitProc] = 1
        /\ p_state'[First] = PROC_RUNNING /\ p_pproc'[First] = NoProc /\ p_pid'[First] = 0
    BY <1>0, <1>1, <1>7, <1>9, <1>a, <1>b, <1>c DEF Roots
  <2> QED BY <1>8, <2>1, <2>2 DEF Roots
<1>15. Acyclic'
  <2> SUFFICES ASSUME NEW S \in SUBSET (Used \ {First}), S # {}
               PROVE  \E q \in S : p_pproc'[q] \notin S
    BY <1>8 DEF Acyclic
  <2>0. S \subseteq Threads /\ First \notin S
    BY DEF Used
  <2>1. CASE InitProc \in S
    BY <1>7, <1>9, <1>a, <1>c, <2>0, <2>1
  <2>2. CASE InitProc \notin S
    <3>1. PICK q \in S : p_pproc[q] \notin S
      BY DEF Inv, TreeInv, Acyclic
    <3> QED BY <1>7, <2>0, <2>2, <3>1
  <2> QED BY <2>1, <2>2
<1>16. PidsUnique'
  BY <1>0, <1>8 DEF Inv, TreeInv, PidsUnique
<1>17. ThreadsMatch'
  <2> DEFINE r == [sched EXCEPT !.kt_state[sched.curthr] = KT_EXITED]
  <2>1. \A t \in Threads : r.kt_state[t] = IF t = self THEN KT_EXITED ELSE sched.kt_state[t]
    BY <1>2 DEF self, SchedStates
  <2> HIDE DEF r
  <2>2. SameLives(r, sched')
    BY <1>4 DEF r
  <2> QED BY <1>7, <2>1, <2>2 DEF Inv, WaitInv, ThreadsMatch, SameLives, Free, PROC_DEAD, KT_EXITED, KT_NO_STATE
<1>18. OwnQueue'
  BY <1>4 DEF Inv, WaitInv, OwnQueue, NoNewSleeper
<1>19. WaitersKnow'
  <2> SUFFICES ASSUME NEW q \in Threads
               PROVE  /\ waiting[q] # Nobody => p_state'[q] = PROC_RUNNING
                      /\ waiting[q] \in Threads => waiting[q] \in Used /\ p_pproc'[waiting[q]] = q
    BY <1>0, <1>8 DEF WaitersKnow
  <2>1. /\ waiting[q] # Nobody => p_state[q] = PROC_RUNNING
        /\ waiting[q] \in Threads => waiting[q] \in Used /\ p_pproc[waiting[q]] = q
    BY DEF Inv, WaitInv, WaitersKnow
  <2>2. CASE q = self
    BY <1>1, <2>2, ProcAssumption
  <2>3. CASE q # self
    <3>1. waiting[q] \in Threads => waiting[q] \notin orphans
      BY <2>1, <2>3 DEF orphans, Children
    <3> QED BY <1>7, <2>1, <2>3, <3>1
  <2> QED BY <2>2, <2>3
<1>20. NoSleepOverZombie'
  <2> SUFFICES ASSUME NEW q \in Used \ {InitProc}, waiting[q] = AnyChild,
                      sched'.kt_wchan[q] = p_wait[q],
                      NEW d \in Range(p_children'[q])
               PROVE  p_state'[d] = PROC_RUNNING
    BY <1>0, <1>8 DEF NoSleepOverZombie
  <2>0. q \in Threads /\ p_wait[q] \in Queues
    BY ProcAssumption DEF Used
  <2>1. q # self
    BY <1>1 DEF Nobody, AnyChild
  <2>2. q # parent
    <3>1. \A t \in Threads : sched.kt_wchan[t] = p_wait[parent] => t = parent
      BY <1>3, ProcAssumption DEF Inv, WaitInv, OwnQueue
    <3> QED BY <1>3, <1>4, <3>1
  <2>3. Children(q)' = Children(q) /\ d \in Children(q)
    BY <1>10, <1>11, <2>0, <2>1, ListOfIsSet DEF ChildLists
  <2>4. d \in Threads /\ d # self
    BY <2>2, <2>3 DEF Children, Used
  <2>5. sched.kt_wchan[q] = p_wait[q]
    BY <1>4, <2>0 DEF NoNewSleeper
  <2>6. d \in Range(p_children[q])
    BY <2>0, <2>3, ListOfIsSet DEF Inv, TreeInv, ChildLists
  <2>7. p_state[d] = PROC_RUNNING
    BY <2>5, <2>6 DEF Inv, WaitInv, NoSleepOverZombie
  <2> QED BY <1>7, <2>4, <2>7
<1>21. AfterInit'
  BY <1>8, <1>c DEF AfterInit
<1> QED BY <1>4, <1>11, <1>12, <1>13, <1>14, <1>15, <1>16, <1>17, <1>18, <1>19, <1>20, <1>21
        DEF Inv, TreeInv, WaitInv

\* do_waitpid(-1) scans the children, reaps one or goes to sleep.
LEMMA WaitAnyKeepsInv ==
    ASSUME Inv, do_waitpid_any PROVE Inv'
<1> DEFINE children == p_children[self]
           dead(i) == p_state[children[i]] = PROC_DEAD
<1>1. sched.asserts /\ sched.cpu = "run" /\ waiting[self] \in {Nobody, AnyChild}
  BY DEF do_waitpid_any, Executing
<1>2. SchedInv(sched) /\ self \in Threads /\ TypeOK
  BY <1>1, RunningFacts DEF Inv, TreeInv
<1>3. Range(children) = Children(self) /\ children \in Seq(Threads)
  BY <1>2, ListOfIsSet DEF Inv, TreeInv, ChildLists, TypeOK
<1>0. InitProc \in Used
  BY DEF do_waitpid_any, Executing, Inv, AfterInit, Nobody, AnyChild
<1>4. CASE \E i \in 1..Len(children) : /\ dead(i) /\ reap(children[i])
                                      /\ waiting' = [waiting EXCEPT ![self] = Nobody]
  <2>1. PICK i \in 1..Len(children) : /\ dead(i) /\ reap(children[i])
                                      /\ waiting' = [waiting EXCEPT ![self] = Nobody]
    BY <1>4
  <2>2. children[i] \in Children(self)
    BY <1>3, <2>1 DEF Range
  <2> QED BY <1>1, <2>1, <2>2, ReapKeepsInv
<1>5. CASE /\ \A i \in 1..Len(children) : ~ dead(i)
           /\ sched' = sched_sleep_on(sched, p_wait[self])
           /\ waiting' = [waiting EXCEPT ![self] = AnyChild]
           /\ ProcUnchanged
  <2>1. ASSUME NEW c \in Children(self) PROVE p_state[c] # PROC_DEAD
    <3>1. PICK i \in 1..Len(children) : c = children[i]
      BY <1>3 DEF Range
    <3> QED BY <1>5, <3>1
  <2> QED BY <1>0, <1>1, <1>5, <2>1, SleepKeepsInv
<1> QED BY <1>4, <1>5 DEF do_waitpid_any

\* do_waitpid of one child goes to sleep.
LEMMA WaitPidKeepsInv ==
    ASSUME Inv, NEW c \in Threads, do_waitpid_pid(c) PROVE Inv'
<1>1. sched.asserts /\ sched.cpu = "run" /\ waiting[self] = Nobody /\ InitProc \in Used
  BY InitExists DEF do_waitpid_pid, Executing
<1>2. self \in Threads
  BY <1>1, RunningFacts
<1>3. c \in Children(self)
  BY <1>2, ListOfIsSet DEF do_waitpid_pid, Inv, TreeInv, ChildLists
<1> QED BY <1>1, <1>3, SleepKeepsInv DEF do_waitpid_pid

\* A thread wakes up in do_waitpid of one child.
LEMMA WaitPidReturnKeepsInv ==
    ASSUME Inv, waitpid_pid_return PROVE Inv'
<1> DEFINE c == waiting[self]
<1>1. /\ sched.asserts /\ sched.cpu = "run" /\ c \notin {Nobody, AnyChild}
      /\ waiting' = [waiting EXCEPT ![self] = Nobody]
  BY DEF waitpid_pid_return
<1>2. SchedInv(sched) /\ self \in Threads /\ TypeOK
  BY <1>1, RunningFacts DEF Inv, TreeInv
<1>3. c \in Threads
  BY <1>1, <1>2 DEF TypeOK
<1>0. InitProc \in Used
  BY <1>1 DEF Inv, AfterInit
<1>4. CASE sched.kt_state[c] = KT_EXITED /\ reap(c)
  <2>1. c \in Children(self)
    BY <1>2, <1>3 DEF Inv, WaitInv, WaitersKnow, Children
  <2>2. p_state[c] = PROC_DEAD
    BY <1>3, <1>4 DEF Inv, WaitInv, ThreadsMatch
  <2> QED BY <1>1, <1>4, <2>1, <2>2, ReapKeepsInv
<1>5. CASE sched' = [sched EXCEPT !.asserts = FALSE] /\ ProcUnchanged
  <2>1. /\ sched' \in SchedStates /\ ~ sched'.asserts
        /\ sched'.kt_state = sched.kt_state /\ sched'.kt_wchan = sched.kt_wchan
    BY <1>2, <1>5, Zenon DEF TypeOK, SchedStates
  <2>2. SameLives(sched, sched') /\ NoNewSleeper(sched, sched')
    BY <2>1 DEF SameLives, NoNewSleeper
  <2>3. /\ \A p \in Threads : waiting'[p] \in {waiting[p], Nobody}
        /\ waiting' \in [Threads -> Threads \cup {Nobody, AnyChild}]
    BY <1>1, <1>2 DEF TypeOK
  <2> QED BY <1>0, <1>5, <2>1, <2>2, <2>3, SchedOnlyKeepsInv
<1> QED BY <1>4, <1>5 DEF waitpid_pid_return

\* Every step keeps Inv.
LEMMA NextKeepsInv ==
    ASSUME Inv, [Next]_vars PROVE Inv'
<1>0. \A p \in Threads : waiting' = waiting => waiting'[p] \in {waiting[p], Nobody}
  OBVIOUS
<1>1. TypeOK
  BY DEF Inv, TreeInv
<1>2. ASSUME NEW p \in Threads, start_proc(p) PROVE Inv'
  BY <1>2, StartKeepsInv
<1>3. ASSUME NEW p \in Threads, do_waitpid_pid(p) PROVE Inv'
  BY <1>3, WaitPidKeepsInv
<1>4. ASSUME NEW status \in Statuses, do_exit(status) PROVE Inv'
  BY <1>4, ExitKeepsInv DEF do_exit
<1>5. CASE do_waitpid_any
  BY <1>5, WaitAnyKeepsInv
<1>6. CASE waitpid_pid_return
  BY <1>6, WaitPidReturnKeepsInv
<1>7. CASE proc_kill_all
  BY <1>7, ExitKeepsInv DEF proc_kill_all
<1>8. CASE Yield
  <2>1. /\ sched.asserts /\ sched.cpu = "run" /\ sched' = yield(sched) /\ ProcUnchanged
        /\ waiting' = waiting /\ InitProc \in Used
    BY <1>8, InitExists DEF Yield, Executing
  <2>2. SchedInv(sched') /\ SameLives(sched, sched') /\ NoNewSleeper(sched, sched')
    BY <2>1, YieldLives DEF Inv
  <2> QED BY <1>0, <1>1, <2>1, <2>2, SchedOnlyKeepsInv DEF TypeOK, SchedInv
<1>9. CASE Switch
  <2>1. sched.asserts /\ SwitchStep(sched, sched') /\ ProcUnchanged /\ waiting' = waiting
    BY <1>9 DEF Switch
  <2>3. InitProc \in Used
    BY <2>1 DEF Inv, AfterInit, SwitchStep
  <2>2. SchedInv(sched') /\ SameLives(sched, sched') /\ NoNewSleeper(sched, sched')
    BY <2>1, SwitchLives DEF Inv
  <2> QED BY <1>0, <1>1, <2>1, <2>2, <2>3, SchedOnlyKeepsInv DEF TypeOK, SchedInv
<1>10. ASSUME UNCHANGED vars PROVE Inv'
  <2>1. /\ sched' = sched /\ p_state' = p_state /\ p_pproc' = p_pproc /\ p_children' = p_children
        /\ p_pid' = p_pid /\ next_pid' = next_pid /\ p_status' = p_status /\ waiting' = waiting
    BY <1>10 DEF vars
  <2>2. Used' = Used /\ \A p : Children(p)' = Children(p)
    BY <2>1 DEF Used, Children
  <2>3. TypeOK' /\ ChildLists' /\ ParentsRun'
    BY <2>1, <2>2 DEF Inv, TreeInv, TypeOK, ChildLists, ParentsRun
  <2>4. Roots' /\ Acyclic' /\ PidsUnique'
    BY <2>1, <2>2 DEF Inv, TreeInv, Roots, Acyclic, PidsUnique
  <2>5. WaitInv'
    BY <2>1, <2>2 DEF Inv, WaitInv, ThreadsMatch, OwnQueue, WaitersKnow, NoSleepOverZombie
  <2>6. (sched.asserts => SchedInv(sched))'
    BY <2>1 DEF Inv
  <2>7. AfterInit'
    BY <2>1, <2>2 DEF Inv, AfterInit, self
  <2> QED BY <2>3, <2>4, <2>5, <2>6, <2>7 DEF Inv, TreeInv
<1>11. CASE Interrupt
  <2>1. sched.asserts /\ sched' = interrupt(sched, sched) /\ ProcUnchanged /\ waiting' = waiting
    BY <1>11 DEF Interrupt
  <2>2. SchedInv(sched') /\ SameLives(sched, sched') /\ NoNewSleeper(sched, sched')
    BY <2>1, InterruptLives DEF Inv
  <2>3. CASE InitProc \in Used
    BY <1>0, <1>1, <2>1, <2>2, <2>3, SchedOnlyKeepsInv DEF TypeOK, SchedInv
  <2>4. CASE InitProc \notin Used
    <3>1. sched' = sched
      BY <2>1, <2>4 DEF Inv, AfterInit, interrupt
    <3> QED BY <1>10, <2>1, <3>1 DEF vars, ProcUnchanged
  <2> QED BY <2>3, <2>4
<1> QED BY <1>2, <1>3, <1>4, <1>5, <1>6, <1>7, <1>8, <1>9, <1>10, <1>11 DEF Next
-----------------------------------------------------------------------------
\* The process table, the process tree, the pids and the sleepers in
\* do_waitpid stay consistent with each other and with the scheduler.
THEOREM InvHolds == Spec => []Inv
<1>1. Init => Inv
  BY InitEstablishesInv
<1>2. Inv /\ [Next]_vars => Inv'
  BY NextKeepsInv
<1> QED BY <1>1, <1>2, PTL DEF Spec

\* For any number of processes, p_children and p_pproc describe the same
\* tree after every creation, exit with reparenting to init and do_waitpid,
\* every process but idle has a running parent or is init's child, and idle
\* reaps nobody but init, after which it keeps the CPU.
THEOREM TreeAlwaysAgrees == Spec => []TreeAgrees
<1>1. Inv => TreeAgrees
  BY InvImpliesProperties
<1> QED BY <1>1, InvHolds, PTL

\* _proc_getid never gives out a pid in use, also when next_pid wraps
\* around, as long as there are no more processes than pids.
THEOREM PidsAlwaysUnique == Spec => []PidsUnique
<1>1. Inv => PidsUnique
  BY InvImpliesProperties
<1> QED BY <1>1, InvHolds, PTL

\* No process but init is asleep in do_waitpid(-1) over a dead child: the
\* wakeup in proc_cleanup reaches it wherever it is.
THEOREM NobodySleepsOverZombie == Spec => []NoSleepOverZombie
<1>1. Inv => NoSleepOverZombie
  BY InvImpliesProperties
<1> QED BY <1>1, InvHolds, PTL

\* proc_create never fails one of its assertions: the pid it gets is not
\* idle's, and is init's only while idle runs.
THEOREM CreationNeverPanics ==
    Spec => [][\A p \in Threads : start_proc(p) => sched'.asserts]_vars
<1> DEFINE OK == \A p \in Threads : start_proc(p) => sched'.asserts
<1>1. Inv /\ [Next]_vars => [OK]_vars
  BY StartKeepsInv
<1> QED BY <1>1, InvHolds, PTL DEF Spec
=============================================================================
