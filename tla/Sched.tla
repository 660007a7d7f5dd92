-------------------------------- MODULE Sched --------------------------------
(***************************************************************************)
(* The scheduler at work (kernel/proc/sched.c, kthread.c): threads that    *)
(* create, sleep, wake, cancel, yield, do device I/O and exit in any       *)
(* order, and device interrupts that arrive whenever the IPL lets them.    *)
(***************************************************************************)
EXTENDS SchedCore

CONSTANT Devices      \* the wait queues of device drivers
ASSUME DeviceAssumption == Devices \subseteq Queues

VARIABLES
    sched,     \* the scheduler state of SchedCore
    oldipl,    \* the IPL each thread saved before it blocked a device's
               \* interrupts, or NoIo while it does no I/O
    pending    \* the devices that owe an interrupt

vars == <<sched, oldipl, pending>>

NoIo == "no i/o"

Init ==
    /\ sched = SchedInit
    /\ oldipl = [t \in Threads |-> NoIo]
    /\ pending = {}

\* The current thread executes kernel code, outside a device driver.
Executing == sched.cpu = "run" /\ oldipl[sched.curthr] = NoIo

\* A scheduler call of the current thread that touches nothing else.
Call(s) == Executing /\ sched' = s /\ UNCHANGED <<oldipl, pending>>
-----------------------------------------------------------------------------
Create(t) == sched.kt_state[t] = KT_NO_STATE /\ Call(kthread_create(sched, t))

\* Mutant: a thread is made runnable whatever its state.
Start_any_state(t) ==
    /\ t # sched.curthr
    /\ sched.kt_wchan[t] = NoQueue
    /\ Call(sched_make_runnable(sched, t))

\* The first sched_make_runnable of a thread.
Start(t) ==
    /\ t # sched.curthr
    /\ sched.kt_state[t] = KT_RUN
    /\ sched.kt_wchan[t] = NoQueue
    /\ Call(sched_make_runnable(sched, t))

Sleep(q) == Call(sched_sleep_on(sched, q))

CancellableSleep(q) == Call(sched_cancellable_sleep_on(sched, q))

Wakeup(q) == Call(sched_wakeup_on(sched, q))

Broadcast(q) == Call(sched_broadcast_on(sched, q))

Yield == Call(yield(sched))

\* proc/faber_test.c is the only caller of sched_cancel.
SchedCancel(t) ==
    /\ t # sched.curthr
    /\ sched.kt_state[t] # KT_NO_STATE
    /\ Call(sched_cancel(sched, t))

KthreadCancel(t) ==
    /\ t # sched.curthr
    /\ sched.kt_state[t] # KT_NO_STATE
    /\ Call(kthread_cancel(sched, t))

\* The idle process never exits this way.
Exit == sched.curthr # First /\ Call(call_switch(kthread_exit(sched)))

Reap(t) ==
    /\ t # sched.curthr
    /\ sched.kt_state[t] = KT_EXITED
    /\ Call(kthread_destroy(sched, t))
-----------------------------------------------------------------------------
(***************************************************************************)
(* Device drivers: the caller raises the IPL, starts the transfer and      *)
(* sleeps; when it is woken it puts back the IPL it saved.  The driver     *)
(* lets one thread at a time use the device.                               *)
(***************************************************************************)
DeviceIo(d) ==
    /\ Executing
    /\ sched_queue_empty(sched, d)
    /\ oldipl' = [oldipl EXCEPT ![sched.curthr] = sched.ipl]
    /\ pending' = pending \cup {d}
    /\ sched' = sched_sleep_on([sched EXCEPT !.ipl = IPL_HIGH], d)

DeviceDone ==
    /\ sched.cpu = "run"
    /\ oldipl[sched.curthr] # NoIo
    /\ sched' = [sched EXCEPT !.ipl = oldipl[sched.curthr]]
    /\ oldipl' = [oldipl EXCEPT ![sched.curthr] = NoIo]
    /\ UNCHANGED pending

\* An interrupt of device d, asked for or not.
Interrupt(d) ==
    /\ InterruptsOpen(sched)
    /\ sched' = interrupt(sched, sched_wakeup_on(sched, d))
    /\ pending' = pending \ {d}
    /\ UNCHANGED oldipl

Switch == SwitchStep(sched, sched') /\ UNCHANGED <<oldipl, pending>>
-----------------------------------------------------------------------------
WaitQueues == Queues \ Devices

Next ==
    \/ \E t \in Threads : Create(t) \/ Start(t) \/ Reap(t)
    \/ \E q \in WaitQueues : Sleep(q) \/ CancellableSleep(q) \/ Wakeup(q) \/ Broadcast(q)
    \/ \E t \in Threads : SchedCancel(t) \/ KthreadCancel(t)
    \/ Yield \/ Exit
    \/ \E d \in Devices : DeviceIo(d) \/ Interrupt(d)
    \/ DeviceDone
    \/ Switch

Spec == Init /\ [][Next]_vars

(***************************************************************************)
(* The CPU keeps executing, the running thread always gives the CPU up     *)
(* sooner or later (a kernel thread that never calls sched_switch hangs    *)
(* Weenix by design), and a device completes the transfers it was given.   *)
(* Interrupts nobody asked for may never come.                             *)
(***************************************************************************)
GiveUpCpu ==
    \/ \E q \in WaitQueues : Sleep(q)
    \/ Yield \/ Exit
    \/ \E d \in Devices : DeviceIo(d)

Fairness ==
    /\ WF_vars(Switch)
    /\ WF_vars(DeviceDone)
    /\ WF_vars(GiveUpCpu)
    /\ \A d \in Devices : WF_vars(d \in pending /\ Interrupt(d))

FairSpec == Spec /\ Fairness
-----------------------------------------------------------------------------
\* The types of the scheduler's fields.
TypeOK ==
    /\ sched \in SchedStates
    /\ oldipl \in [Threads -> {IPL_LOW, IPL_HIGH, NoIo}]
    /\ pending \subseteq Devices

\* No KASSERT of sched.c or kthread.c fails, whatever the order of calls and
\* interrupts.
AssertsHold == sched.asserts

\* kt_wchan and the queues agree: every thread is linked on the queue its
\* kt_wchan names, once, and on no other (ktqueue_enqueue, _dequeue, _remove).
QueuesAgree == TypeOK /\ QueueAgreement(sched)

\* kt_runq holds runnable threads and the wait queues sleeping ones, also
\* after sched_cancel and interrupts.
QueuesHoldRightThreads == RightQueue(sched)

\* The rule in the comment of sched_cancel: a thread that is neither exited
\* nor running is on some queue, else it would never run again.
NoThreadLost == NoneLost(sched) /\ CurrentThread(sched)

\* kthread_exit is final: an exited thread stays exited until it is reaped
\* and is never made current again.
ExitedThreadsStayDown ==
    [][\A t \in Threads : sched.kt_state[t] = KT_EXITED =>
          /\ sched'.kt_state[t] \in {KT_EXITED, KT_NO_STATE}
          /\ sched'.curthr = t => sched.curthr = t]_vars

\* kt_runq is served in order: a thread waiting on it only ever moves
\* forward, by one place at each context switch.
RunQueueIsFifo ==
    [][\A i \in 1..Len(sched.tq_list[RunQ]) :
          LET t == sched.tq_list[RunQ][i]
          IN  \/ i <= Len(sched'.tq_list[RunQ]) /\ sched'.tq_list[RunQ][i] = t
              \/ i > 1 /\ sched'.tq_list[RunQ][i - 1] = t
              \/ i = 1 /\ sched'.curthr = t /\ sched'.cpu = "run"]_vars

\* A thread on kt_runq is run in the end, or the CPU halts in intr_wait.
RunnableRunsOrHalts ==
    \A t \in Threads :
        sched.kt_wchan[t] = RunQ ~> (sched.curthr = t /\ sched.cpu = "run") \/ sched.cpu = "halt"
-----------------------------------------------------------------------------
(***************************************************************************)
(* What the comments of the code promise and the code does not keep.       *)
(***************************************************************************)
\* interrupt.h says that an interrupt cannot slip in before the hlt and fail
\* to wake the CPU: a runnable thread is then always run in the end.
RunnableRuns ==
    \A t \in Threads : sched.kt_wchan[t] = RunQ ~> sched.curthr = t /\ sched.cpu = "run"

\* "The IPL is process specific": a thread leaves sched_switch with the IPL
\* it entered it with.
IplIsProcessSpecific ==
    [][sched.cpu = "masked" /\ sched'.cpu = "run"
          => sched.original_ipl[sched'.curthr] \in {sched'.ipl, Unstarted}]_vars

\* "If the thread's sleep is cancellable, cancelling the thread should wake
\* it up from sleep" (kthread_cancel).
CancelWakes ==
    [][\A t \in Threads :
          sched'.kt_cancelled[t] /\ ~ sched.kt_cancelled[t]
              /\ sched.kt_state[t] = KT_SLEEP_CANCELLABLE
          => sched'.kt_state[t] = KT_RUN]_vars
=============================================================================
