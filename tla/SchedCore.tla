------------------------------ MODULE SchedCore ------------------------------
(***************************************************************************)
(* The thread queues and scheduling primitives of kernel/proc/sched.c as   *)
(* operators on a scheduler state s, a record of                           *)
(*                                                                         *)
(*   kt_state, kt_wchan, kt_cancelled   the fields of every kthread_t      *)
(*   tq_list        the queues; kt_runq is the queue RunQ                  *)
(*   curthr         the current thread                                     *)
(*   cpu            where the CPU is inside (or outside) sched_switch      *)
(*   ipl            the interrupt priority level of the CPU                *)
(*   original_ipl   the local variable of each thread's sched_switch call  *)
(*   asserts        TRUE while no KASSERT has failed                       *)
(*                                                                         *)
(* Weenix runs one CPU without kernel preemption: only the current thread  *)
(* and interrupt handlers change this state.  Modules that model a client  *)
(* of the scheduler hold s in a variable and compose these operators.      *)
(* A queue is a sequence whose head is the tail of the C list, the end     *)
(* ktqueue_dequeue takes from.                                             *)
(***************************************************************************)
EXTENDS Lists

CONSTANTS
    Threads,      \* all kthread_t, those not yet created included
    Queues,       \* the wait queues (mutexes, p_wait, devices, ...)
    RunQ,         \* kt_runq
    NoQueue,      \* the NULL kt_wchan
    First         \* the thread that runs first

ASSUME QueueAssumption == RunQ \notin Queues /\ NoQueue \notin Queues \cup {RunQ}
ASSUME FirstAssumption == First \in Threads

AllQueues == Queues \cup {RunQ}

KT_NO_STATE == "KT_NO_STATE"
KT_RUN == "KT_RUN"
KT_SLEEP == "KT_SLEEP"
KT_SLEEP_CANCELLABLE == "KT_SLEEP_CANCELLABLE"
KT_EXITED == "KT_EXITED"
ThreadStates ==
    {KT_NO_STATE, KT_RUN, KT_SLEEP, KT_SLEEP_CANCELLABLE, KT_EXITED}
Sleeping == {KT_SLEEP, KT_SLEEP_CANCELLABLE}

IPL_LOW == "IPL_LOW"
IPL_HIGH == "IPL_HIGH"
\* original_ipl of a thread that has never called sched_switch.
Unstarted == "unstarted"

(***************************************************************************)
(* The stations of the CPU:                                                *)
(*   "run"     the current thread runs outside the scheduler               *)
(*   "enter"   it has called sched_switch, its own IPL still in force      *)
(*   "masked"  interrupts are masked, about to dequeue from kt_runq        *)
(*   "low"     kt_runq was empty and the IPL is low, not yet halted        *)
(*   "halt"    halted in intr_wait                                         *)
(***************************************************************************)
CpuStations == {"run", "enter", "masked", "low", "halt"}

SchedStates ==
    [kt_state     : [Threads -> ThreadStates],
     kt_wchan     : [Threads -> AllQueues \cup {NoQueue}],
     kt_cancelled : [Threads -> BOOLEAN],
     tq_list      : [AllQueues -> Seq(Threads)],
     curthr       : Threads,
     cpu          : CpuStations,
     ipl          : {IPL_LOW, IPL_HIGH},
     original_ipl : [Threads -> {IPL_LOW, IPL_HIGH, Unstarted}],
     asserts      : BOOLEAN]

\* The state in which bootstrap has made the first thread current.
SchedInit ==
    [kt_state     |-> [t \in Threads |-> IF t = First THEN KT_RUN ELSE KT_NO_STATE],
     kt_wchan     |-> [t \in Threads |-> NoQueue],
     kt_cancelled |-> [t \in Threads |-> FALSE],
     tq_list      |-> [q \in AllQueues |-> << >>],
     curthr       |-> First,
     cpu          |-> "run",
     ipl          |-> IPL_LOW,
     original_ipl |-> [t \in Threads |-> Unstarted],
     asserts      |-> TRUE]
-----------------------------------------------------------------------------
(***************************************************************************)
(* Queue manipulation.                                                     *)
(***************************************************************************)
sched_queue_empty(s, q) == s.tq_list[q] = << >>

\* Mutant: inserts at the end that is dequeued from.
ktqueue_enqueue_wrong_end(s, q, t) ==
    [s EXCEPT !.asserts = @ /\ s.kt_wchan[t] = NoQueue,
              !.tq_list[q] = <<t>> \o @,
              !.kt_wchan[t] = q]

ktqueue_enqueue(s, q, t) ==
    [s EXCEPT !.asserts = @ /\ s.kt_wchan[t] = NoQueue,
              !.tq_list[q] = Append(@, t),
              !.kt_wchan[t] = q]

\* Mutant: kt_wchan is not reset.
ktqueue_dequeue_keeps_wchan(s, q) == [s EXCEPT !.tq_list[q] = Tail(@)]

\* The queue is not empty; the thread dequeued is Head(s.tq_list[q]).
ktqueue_dequeue(s, q) ==
    [s EXCEPT !.tq_list[q] = Tail(@),
              !.kt_wchan[Head(s.tq_list[q])] = NoQueue]

\* ktqueue_remove(kthr->kt_wchan, kthr): the KASSERT is on the list link,
\* which is null exactly when the thread is on no queue.
ktqueue_remove(s, t) ==
    IF s.kt_wchan[t] = NoQueue
    THEN [s EXCEPT !.asserts = FALSE]
    ELSE [s EXCEPT !.tq_list[s.kt_wchan[t]] = list_remove(@, t),
                   !.kt_wchan[t] = NoQueue]
-----------------------------------------------------------------------------
(***************************************************************************)
(* Making threads runnable.                                                *)
(***************************************************************************)
sched_make_runnable(s, t) ==
    ktqueue_enqueue([s EXCEPT !.asserts = @ /\ s.kt_wchan[t] # RunQ,
                              !.kt_state[t] = KT_RUN], RunQ, t)

\* Mutant: the sleeper is dequeued and never put on kt_runq.
sched_wakeup_on_only_dequeues(s, q) ==
    IF sched_queue_empty(s, q) THEN s
    ELSE [ktqueue_dequeue(s, q) EXCEPT !.kt_state[Head(s.tq_list[q])] = KT_RUN]

sched_wakeup_on(s, q) ==
    IF sched_queue_empty(s, q) THEN s
    ELSE LET t == Head(s.tq_list[q])
         IN  sched_make_runnable(
                 [ktqueue_dequeue(s, q) EXCEPT
                     !.asserts = @ /\ s.kt_state[t] \in Sleeping,
                     !.kt_state[t] = KT_RUN], t)

\* The loop of sched_wakeup_on until the queue is empty: its threads move to
\* kt_runq in their order.
sched_broadcast_on(s, q) ==
    LET woken == {t \in Threads : \E i \in 1..Len(s.tq_list[q]) : s.tq_list[q][i] = t}
    IN  [s EXCEPT !.asserts = @ /\ \A t \in woken : s.kt_state[t] \in Sleeping,
                  !.tq_list = [s.tq_list EXCEPT ![RunQ] = @ \o s.tq_list[q], ![q] = << >>],
                  !.kt_wchan = [t \in Threads |-> IF t \in woken THEN RunQ ELSE s.kt_wchan[t]],
                  !.kt_state = [t \in Threads |-> IF t \in woken THEN KT_RUN ELSE s.kt_state[t]]]

\* Mutant: the sleeper is unlinked and never made runnable.
sched_cancel_only_unlinks(s, t) ==
    LET c == [s EXCEPT !.kt_cancelled[t] = TRUE]
    IN  IF s.kt_state[t] = KT_SLEEP_CANCELLABLE
        THEN ktqueue_remove([c EXCEPT !.kt_state[t] = KT_RUN], t)
        ELSE c

sched_cancel(s, t) ==
    LET c == [s EXCEPT !.kt_cancelled[t] = TRUE]
    IN  IF s.kt_state[t] = KT_SLEEP_CANCELLABLE
        THEN sched_make_runnable(ktqueue_remove([c EXCEPT !.kt_state[t] = KT_RUN], t), t)
        ELSE c

\* Mutant: wakes the sleeper without taking it off its wait queue.
kthread_cancel_wakes_in_place(s, t) ==
    IF s.kt_state[t] = KT_SLEEP_CANCELLABLE
    THEN sched_make_runnable([s EXCEPT !.kt_cancelled[t] = TRUE], t)
    ELSE s

\* kthread_cancel of a thread other than the current one.
kthread_cancel(s, t) ==
    IF s.kt_state[t] = KT_SLEEP_CANCELLABLE
    THEN [s EXCEPT !.kt_cancelled[t] = TRUE]
    ELSE s
-----------------------------------------------------------------------------
(***************************************************************************)
(* Leaving the CPU.  Each of these ends in a call of sched_switch.         *)
(***************************************************************************)
call_switch(s) == [s EXCEPT !.cpu = "enter"]

sched_sleep_on(s, q) ==
    call_switch(ktqueue_enqueue([s EXCEPT !.kt_state[s.curthr] = KT_SLEEP], q, s.curthr))

\* Whether sched_cancellable_sleep_on returns -EINTR at once.
cancelled_already(s) == s.kt_cancelled[s.curthr]

\* The early return leaves the thread running with kt_state
\* KT_SLEEP_CANCELLABLE.
sched_cancellable_sleep_on(s, q) ==
    LET c == [s EXCEPT !.kt_state[s.curthr] = KT_SLEEP_CANCELLABLE]
    IN  IF cancelled_already(s) THEN c
        ELSE call_switch(ktqueue_enqueue(c, q, s.curthr))

\* sched_make_runnable(curthr); sched_switch();
yield(s) == call_switch(sched_make_runnable(s, s.curthr))

\* kthread_exit up to the sched_switch at the end of proc_cleanup.
kthread_exit(s) ==
    [s EXCEPT !.kt_state[s.curthr] = KT_EXITED,
              !.asserts = @ /\ s.kt_wchan[s.curthr] = NoQueue]

\* kthread_create: runnable, but on no queue yet.
kthread_create(s, t) ==
    [s EXCEPT !.kt_state[t] = KT_RUN,
              !.kt_wchan[t] = NoQueue,
              !.kt_cancelled[t] = FALSE,
              !.original_ipl[t] = Unstarted]

\* kthread_destroy: the kthread_t goes back to its slab.
kthread_destroy(s, t) == [s EXCEPT !.kt_state[t] = KT_NO_STATE]
-----------------------------------------------------------------------------
(***************************************************************************)
(* sched_switch, one operator per step that interrupts can fall between.   *)
(* The IPL a thread had on entry is put back before the context switch,    *)
(* so the next thread starts with it.  A thread that runs for the first    *)
(* time lowers the IPL itself (__context_initial_func).                    *)
(***************************************************************************)
mask_interrupts(s) ==
    [s EXCEPT !.original_ipl[s.curthr] = s.ipl, !.ipl = IPL_HIGH, !.cpu = "masked"]

runq_empty(s) == [s EXCEPT !.ipl = IPL_LOW, !.cpu = "low"]

\* Mutant: waits in a loop that does not look at kt_runq again.
intr_wait_spins(s) == [s EXCEPT !.cpu = "low"]

intr_wait(s) == [s EXCEPT !.cpu = "halt"]

context_switch(s) ==
    [ktqueue_dequeue(s, RunQ) EXCEPT
        !.curthr = Head(s.tq_list[RunQ]),
        !.ipl = IF s.original_ipl[Head(s.tq_list[RunQ])] = Unstarted
                THEN IPL_LOW
                ELSE s.original_ipl[s.curthr],
        !.cpu = "run"]

\* The steps of the CPU inside sched_switch.
SwitchStep(s, n) ==
    \/ s.cpu = "enter" /\ n = mask_interrupts(s)
    \/ s.cpu = "masked" /\ sched_queue_empty(s, RunQ) /\ n = runq_empty(s)
    \/ s.cpu = "masked" /\ ~ sched_queue_empty(s, RunQ) /\ n = context_switch(s)
    \/ s.cpu = "low" /\ n = intr_wait(s)

\* An interrupt can be delivered.
InterruptsOpen(s) == s.ipl = IPL_LOW /\ s.cpu # "masked"

\* The handler runs; a halted CPU then leaves intr_wait and masks again.
interrupt(s, handled) ==
    IF s.cpu = "halt" THEN [handled EXCEPT !.ipl = IPL_HIGH, !.cpu = "masked"] ELSE handled
-----------------------------------------------------------------------------
(***************************************************************************)
(* What every operator above preserves.                                    *)
(***************************************************************************)
\* A thread is linked on the queue its kt_wchan names, once, and on no other.
Agree(tq, wchan) ==
    /\ \A q \in AllQueues : \A i \in 1..Len(tq[q]) : wchan[tq[q][i]] = q
    /\ \A q \in AllQueues : \A i, j \in 1..Len(tq[q]) : tq[q][i] = tq[q][j] => i = j
    /\ \A t \in Threads : wchan[t] # NoQueue => \E i \in 1..Len(tq[wchan[t]]) : tq[wchan[t]][i] = t

QueueAgreement(s) == Agree(s.tq_list, s.kt_wchan)

\* Runnable threads wait on kt_runq and sleepers on the other queues.
RightQueue(s) ==
    \A t \in Threads :
        /\ s.kt_wchan[t] = RunQ => s.kt_state[t] = KT_RUN
        /\ s.kt_wchan[t] \in Queues => s.kt_state[t] \in Sleeping

\* A live thread other than the current one is on some queue, unless it was
\* created and never made runnable: nothing else would ever run it again.
NoneLost(s) ==
    \A t \in Threads \ {s.curthr} :
        /\ s.kt_wchan[t] = NoQueue
        /\ s.kt_state[t] \notin {KT_NO_STATE, KT_EXITED}
        => s.kt_state[t] = KT_RUN /\ s.original_ipl[t] = Unstarted

\* The current thread is on no queue while it runs; once it has called
\* sched_switch it has exited or can be found on a queue.
CurrentThread(s) ==
    IF s.cpu = "run"
    THEN /\ s.kt_wchan[s.curthr] = NoQueue
         /\ s.kt_state[s.curthr] \in {KT_RUN, KT_SLEEP_CANCELLABLE}
    ELSE \/ s.kt_state[s.curthr] = KT_EXITED
         \/ s.kt_wchan[s.curthr] # NoQueue

\* Interrupts are masked exactly where kt_runq is being changed.
MaskedWhileDequeuing(s) ==
    /\ s.cpu = "masked" => s.ipl = IPL_HIGH /\ s.original_ipl[s.curthr] # Unstarted
    /\ s.cpu \in {"low", "halt"} => s.ipl = IPL_LOW /\ s.original_ipl[s.curthr] # Unstarted

SchedInv(s) ==
    /\ s \in SchedStates
    /\ s.asserts
    /\ QueueAgreement(s)
    /\ RightQueue(s)
    /\ NoneLost(s)
    /\ CurrentThread(s)
    /\ MaskedWhileDequeuing(s)
=============================================================================
