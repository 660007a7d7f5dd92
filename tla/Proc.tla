-------------------------------- MODULE Proc ---------------------------------
(***************************************************************************)
(* Processes (kernel/proc/proc.c) on top of the scheduler: creation with   *)
(* pid allocation, exit with reparenting to init, waitpid, kill all.       *)
(* Without MTP a process has one thread, so a process and its thread share *)
(* one name: the elements of Threads.                                      *)
(*                                                                         *)
(* The run starts where idleproc_run has made init runnable and calls      *)
(* do_waitpid(-1); when that call returns, the machine shuts down.  A      *)
(* failed KASSERT panics, so nothing happens after it.                     *)
(***************************************************************************)
EXTENDS SchedCore, FiniteSetsExt

CONSTANTS
    InitProc,           \* the init process; First is the idle process
    NoProc,             \* the NULL p_pproc
    PROC_MAX_COUNT,     \* pids are below this
    Statuses,           \* exit statuses
    p_wait              \* the wait queue of each process

Nobody == "nobody"
AnyChild == "any child"

ASSUME ProcAssumption ==
    /\ InitProc \in Threads \ {First}
    /\ {NoProc, Nobody, AnyChild} \cap Threads = {}
    /\ p_wait \in [Threads -> Queues]
    /\ \A p, q \in Threads : p_wait[p] = p_wait[q] => p = q
    /\ IsFiniteSet(Threads)
    /\ PROC_MAX_COUNT \in Nat /\ PROC_MAX_COUNT > 2
    /\ Cardinality(Threads) <= PROC_MAX_COUNT
    /\ 0 \in Statuses

VARIABLES
    sched,           \* the scheduler state of SchedCore
    p_state,         \* PROC_RUNNING, PROC_DEAD, or Free for an unused proc_t
    p_pproc,         \* the parent
    p_children,      \* the list of children
    p_pid, next_pid,
    p_status,
    waiting          \* the child do_waitpid waits for, AnyChild for -1, or Nobody
                     \* outside do_waitpid
vars == <<sched, p_state, p_pproc, p_children, p_pid, next_pid, p_status, waiting>>

Free == "free"
PROC_RUNNING == "PROC_RUNNING"
PROC_DEAD == "PROC_DEAD"

Used == {p \in Threads : p_state[p] # Free}       \* _proc_list
self == sched.curthr                              \* curproc

Init ==
    /\ sched = sched_make_runnable(kthread_create(SchedInit, InitProc), InitProc)
    /\ p_state = [p \in Threads |-> IF p \in {First, InitProc} THEN PROC_RUNNING ELSE Free]
    /\ p_pproc = [p \in Threads |-> IF p = InitProc THEN First ELSE NoProc]
    /\ p_children = [p \in Threads |-> IF p = First THEN <<InitProc>> ELSE << >>]
    /\ p_pid = [p \in Threads |-> IF p = InitProc THEN 1 ELSE 0]
    /\ next_pid = 2
    /\ p_status = [p \in Threads |-> 0]
    /\ waiting = [p \in Threads |-> IF p = First THEN AnyChild ELSE Nobody]

\* The current thread runs its own code, outside do_waitpid.
Executing ==
    /\ sched.asserts
    /\ sched.cpu = "run"
    /\ waiting[self] = Nobody
    /\ self # First

ProcUnchanged == UNCHANGED <<p_state, p_pproc, p_children, p_pid, next_pid, p_status>>
-----------------------------------------------------------------------------
Pids == 0 .. PROC_MAX_COUNT - 1

\* Mutant: takes the next pid without looking for it in _proc_list.
_proc_getid_unchecked == next_pid

\* The first pid from next_pid on, cyclically, that no process has.
_proc_getid ==
    LET free == {i \in Pids : \A p \in Used : p_pid[p] # (next_pid + i) % PROC_MAX_COUNT}
    IN  (next_pid + Min(free)) % PROC_MAX_COUNT

\* proc_create, kthread_create and sched_make_runnable, as start_proc calls
\* them: nothing else runs in between.
start_proc(p) ==
    LET pid == _proc_getid
    IN  /\ Executing
        /\ p \notin Used
        /\ sched' = [sched_make_runnable(kthread_create(sched, p), p) EXCEPT
                        !.asserts = @ /\ pid # 0 /\ (pid = 1 => self = First)]
        /\ p_state' = [p_state EXCEPT ![p] = PROC_RUNNING]
        /\ p_pproc' = [p_pproc EXCEPT ![p] = self]
        /\ p_children' = [p_children EXCEPT ![p] = << >>, ![self] = Append(@, p)]
        /\ p_pid' = [p_pid EXCEPT ![p] = pid]
        /\ next_pid' = (pid + 1) % PROC_MAX_COUNT
        /\ p_status' = [p_status EXCEPT ![p] = 0]
        /\ UNCHANGED waiting
-----------------------------------------------------------------------------
\* The children of the exiting process become init's.
Reparented ==
    IF self = InitProc THEN p_children
    ELSE [p_children EXCEPT ![self] = << >>, ![InitProc] = @ \o p_children[self]]

\* Mutant: the children stay with the dead process.
proc_cleanup_keeps_children(status) ==
    /\ p_state' = [p_state EXCEPT ![self] = PROC_DEAD]
    /\ p_status' = [p_status EXCEPT ![self] = 0]
    /\ sched' = call_switch(sched_wakeup_on(kthread_exit(sched), p_wait[p_pproc[self]]))
    /\ UNCHANGED <<p_pproc, p_children, p_pid, next_pid, waiting>>

\* Mutant: the parent is not woken.
proc_cleanup_wakes_nobody(status) ==
    /\ p_children' = Reparented
    /\ p_pproc' = [p \in Threads |->
                      IF self # InitProc /\ p \in Range(p_children[self]) THEN InitProc
                      ELSE p_pproc[p]]
    /\ p_state' = [p_state EXCEPT ![self] = PROC_DEAD]
    /\ p_status' = [p_status EXCEPT ![self] = 0]
    /\ sched' = call_switch(kthread_exit(sched))
    /\ UNCHANGED <<p_pid, next_pid, waiting>>

\* kthread_exit, proc_thread_exited and proc_cleanup, up to its sched_switch.
\* The status is not used.
proc_cleanup(status) ==
    /\ p_children' = Reparented
    /\ p_pproc' = [p \in Threads |->
                      IF self # InitProc /\ p \in Range(p_children[self]) THEN InitProc
                      ELSE p_pproc[p]]
    /\ p_state' = [p_state EXCEPT ![self] = PROC_DEAD]
    /\ p_status' = [p_status EXCEPT ![self] = 0]
    /\ sched' = call_switch(sched_wakeup_on(kthread_exit(sched), p_wait[p_pproc[self]]))
    /\ UNCHANGED <<p_pid, next_pid, waiting>>

\* The exit system call, or the return of the thread's function.
do_exit(status) == Executing /\ proc_cleanup(status)

\* proc_kill of any process but the caller runs over the caller's own thread
\* list and ends the caller; proc_kill of the caller is do_exit.
proc_kill_all ==
    /\ Executing
    /\ Used \ {First, InitProc} # {}
    /\ proc_cleanup(0)
-----------------------------------------------------------------------------

\* What do_waitpid does with the child it found: destroy its thread, unlink
\* it and free it.
reap(c) ==
    /\ p_state' = [p_state EXCEPT ![c] = Free]
    /\ p_pproc' = [p_pproc EXCEPT ![c] = NoProc]
    /\ p_children' = [p_children EXCEPT ![self] = list_remove(@, c)]
    /\ sched' = kthread_destroy(sched, c)
    /\ UNCHANGED <<p_pid, next_pid, p_status>>

\* do_waitpid(-1): scan the children, sleep when none is dead, scan again.
do_waitpid_any ==
    LET children == p_children[self]
        dead(i) == p_state[children[i]] = PROC_DEAD
    IN  /\ sched.asserts
        /\ sched.cpu = "run"
        /\ waiting[self] = AnyChild \/ (Executing /\ children # << >>)
        /\ \/ \E i \in 1..Len(children) :
                 /\ dead(i) /\ \A j \in 1..i-1 : ~ dead(j)
                 /\ reap(children[i])
                 /\ waiting' = [waiting EXCEPT ![self] = Nobody]
           \/ /\ \A i \in 1..Len(children) : ~ dead(i)
              /\ sched' = sched_sleep_on(sched, p_wait[self])
              /\ waiting' = [waiting EXCEPT ![self] = AnyChild]
              /\ ProcUnchanged

\* do_waitpid of one child sleeps once, whatever the state of the child ...
do_waitpid_pid(c) ==
    /\ Executing
    /\ c \in Range(p_children[self])
    /\ sched' = sched_sleep_on(sched, p_wait[self])
    /\ waiting' = [waiting EXCEPT ![self] = c]
    /\ ProcUnchanged

\* ... and takes the child to be dead when it wakes up.
waitpid_pid_return ==
    LET c == waiting[self]
    IN  /\ sched.asserts
        /\ sched.cpu = "run"
        /\ c \notin {Nobody, AnyChild}
        /\ waiting' = [waiting EXCEPT ![self] = Nobody]
        /\ \/ sched.kt_state[c] = KT_EXITED /\ reap(c)
           \/ /\ sched.kt_state[c] # KT_EXITED
              /\ sched' = [sched EXCEPT !.asserts = FALSE]
              /\ ProcUnchanged
-----------------------------------------------------------------------------
Yield == Executing /\ sched' = yield(sched) /\ ProcUnchanged /\ UNCHANGED waiting

Switch ==
    sched.asserts /\ SwitchStep(sched, sched') /\ ProcUnchanged /\ UNCHANGED waiting

\* A key is pressed that nobody waits for.
Interrupt ==
    /\ sched.asserts
    /\ InterruptsOpen(sched)
    /\ sched' = interrupt(sched, sched)
    /\ ProcUnchanged
    /\ UNCHANGED waiting

Next ==
    \/ \E p \in Threads : start_proc(p) \/ do_waitpid_pid(p)
    \/ \E status \in Statuses : do_exit(status)
    \/ do_waitpid_any \/ waitpid_pid_return \/ proc_kill_all
    \/ Yield \/ Switch \/ Interrupt

Spec == Init /\ [][Next]_vars

(***************************************************************************)
(* The CPU keeps executing: sched_switch and do_waitpid run on, and a      *)
(* process gives up the CPU sooner or later.                               *)
(***************************************************************************)
Fairness ==
    /\ WF_vars(Switch)
    /\ WF_vars(do_waitpid_any)
    /\ WF_vars(waitpid_pid_return)
    /\ WF_vars(Yield)

FairSpec == Spec /\ Fairness
-----------------------------------------------------------------------------
\* The types of the process table.
TypeOK ==
    /\ sched \in SchedStates
    /\ p_state \in [Threads -> {Free, PROC_RUNNING, PROC_DEAD}]
    /\ p_pproc \in [Threads -> Threads \cup {NoProc}]
    /\ p_children \in [Threads -> Seq(Threads)]
    /\ p_pid \in [Threads -> Pids]
    /\ next_pid \in Pids
    /\ p_status \in [Threads -> Statuses]
    /\ waiting \in [Threads -> Threads \cup {Nobody, AnyChild}]

\* p_children and p_pproc describe the same tree: each process is on its
\* parent's list, once, and on no other, through creation, reparenting in
\* proc_cleanup and reaping in do_waitpid; and every process but idle has a
\* parent that can wait for it, a running process or init.  Init exits like any
\* other process (halt and proc_kill_all end it with its children alive): from
\* then on its children, and those handed to it, have a dead parent, until idle
\* has reaped init and shuts the machine down, and idle never reaps another.
TreeAgrees ==
    /\ TypeOK
    /\ \A p \in Threads : IsInjective(p_children[p])
    /\ \A p, c \in Threads : c \in Range(p_children[p]) <=> c \in Used /\ p_pproc[c] = p
    /\ \A p \in Used \ {First} :
           p_pproc[p] = InitProc \/ (p_pproc[p] # NoProc /\ p_state[p_pproc[p]] = PROC_RUNNING)
    /\ p_children[First] = IF InitProc \in Used THEN <<InitProc>> ELSE << >>
    /\ InitProc \notin Used => self = First /\ sched.cpu = "run" /\ waiting[First] = Nobody

\* No two processes share a pid, also when next_pid has wrapped around.
PidsUnique == \A p, q \in Used : p_pid[p] = p_pid[q] => p = q

\* A process in do_waitpid(-1) does not sleep while one of its children is
\* dead, the wakeup in proc_cleanup is never missed.  (For init see
\* WaitBlocksOnlyWhileChildrenRun.)
NoSleepOverZombie ==
    \A p \in Used \ {InitProc} :
        waiting[p] = AnyChild /\ sched.kt_wchan[p] = p_wait[p]
        => \A c \in Range(p_children[p]) : p_state[c] = PROC_RUNNING

\* A process blocked in do_waitpid(-1) returns once one of its children
\* dies, unless init is gone and the machine shuts down.
WaitAnyReturns ==
    \A p \in Threads \ {InitProc} :
        (waiting[p] = AnyChild /\ \E c \in Range(p_children[p]) : p_state[c] = PROC_DEAD)
        ~> waiting[p] # AnyChild \/ ~ sched.asserts \/ p_state[InitProc] = Free
-----------------------------------------------------------------------------
(***************************************************************************)
(* What the comments and assertions of the code say and the code does not  *)
(* keep.                                                                   *)
(***************************************************************************)
\* No KASSERT fails, KASSERT(KT_EXITED == cur_thread->kt_state) in the pid
\* branch of do_waitpid included.
AssertsHold == sched.asserts

\* "the init process should not have any children at the time it exits"
\* (proc_cleanup), so that every process has a running parent to wait for it.
InitOutlivesItsChildren ==
    p_state[InitProc] # PROC_RUNNING => p_children[InitProc] = << >>

\* "if all children of this process are still running, then this function
\* blocks": a process asleep in do_waitpid(-1) has no dead child.
WaitBlocksOnlyWhileChildrenRun ==
    \A p \in Used :
        waiting[p] = AnyChild /\ sched.kt_wchan[p] = p_wait[p]
        => \A c \in Range(p_children[p]) : p_state[c] = PROC_RUNNING

\* "wait for the given pid to exit and dispose of it": a wait for a child
\* that is dead, or dies, ends.
WaitPidReturns ==
    \A p, c \in Threads :
        waiting[p] = c /\ p_state[c] = PROC_DEAD ~> waiting[p] # c \/ ~ sched.asserts

\* "status: the status to exit the process with" (proc_cleanup), which
\* do_waitpid returns.
ExitStatusKept ==
    [][\A status \in Statuses : do_exit(status) => p_status'[self] = status]_vars

\* "Stops another process from running again by cancelling all its threads"
\* (proc_kill), for every process proc_kill_all should kill.
KillAllCancelsOthers ==
    [][proc_kill_all => \A p \in Used \ {First, InitProc, self} :
                            p_state[p] = PROC_RUNNING => sched'.kt_cancelled[p]]_vars
=============================================================================
