---------------------------- MODULE SyscallProofs ----------------------------
(***************************************************************************)
(* Whatever system calls a program makes, and however they fail, it comes  *)
(* back with nothing held in the kernel, for any number of calls.          *)
(***************************************************************************)
EXTENDS Syscall, TLAPS

(***************************************************************************)
(* The scripts of the calls.                                               *)
(***************************************************************************)
\* The operations of a step.
StepOps == {"in", "out", "outok", "dup", "vecdup", "new", "page", "unpage", "call", "readuser", "mmap",
            "exec", "cleanup", "free", "nosys", "seterrno", "stub", "always", "yield"}

\* What a step takes from the kernel's memory, and what it gives back.
Takes(step, x) == step.op \in {"dup", "vecdup", "new", "page"} /\ step.name = x
Gives(step, x) == \/ step.op \in {"free", "unpage"} /\ step.name = x
                  \/ step.op = "cleanup" /\ x \in {"filename", "argv", "envp"}

\* x was taken by a step before step k, and not given back since.
Pending(steps, k, x) ==
    \E i \in 1 .. k - 1 : Takes(steps[i], x) /\ \A j \in i + 1 .. k - 1 : ~ Gives(steps[j], x)

\* The page that a failing read or write keeps.
Kept(call, x) == call \in {"read", "write"} /\ x = "buf"

\* Wherever the call can end, all that is pending is given back and a failure has its
\* errno; a goto is to the cleanup, which comes last.
TidyStep(call, steps, k) ==
    /\ steps[k].op \in StepOps
    /\ steps[k].op = "cleanup" => k = Len(steps) /\ \A x : Pending(steps, k, x) => Gives(steps[k], x)
    /\ steps[k].op = "stub" => call = "getdents" /\ \A x : ~ Pending(steps, k, x)
    /\ steps[k].fail = "goto" => /\ steps[Len(steps)].op = "cleanup"
                                 /\ \A j \in k .. Len(steps) - 1 : \A x : ~ Gives(steps[j], x)
    /\ steps[k].fail = "return" => /\ steps[k].errno # "ok"
                                   /\ \A x : Pending(steps, k, x) => x \in steps[k].undo \/ Kept(call, x)

Tidy(call, steps) ==
    /\ Len(steps) \in Nat
    /\ \A k \in 1 .. Len(steps) : TidyStep(call, steps, k)
    /\ \A x : ~ Pending(steps, Len(steps) + 1, x)

\* Every call of the dispatcher is tidy: most take nothing, sys_read and sys_write keep
\* their page only where they return from an error, and the others free what they have
\* duplicated on every way out.
LEMMA CallsAreTidy ==
    ASSUME NEW call \in DOMAIN syscall_dispatch
    PROVE  Tidy(call, syscall_dispatch[call])
<1> USE DEF StepOf, CopyIn, Dup, Do, FreeOf, Tidy, TidyStep, StepOps, Takes, Gives, Pending, Kept
<1>1. Tidy("close", sys_close)
  BY DEF sys_close
<1>2. Tidy("dup", sys_dup)
  BY DEF sys_dup
<1>3. Tidy("dup2", sys_dup2)
  BY DEF sys_dup2
<1>4. Tidy("lseek", sys_lseek)
  BY DEF sys_lseek
<1>5. Tidy("munmap", sys_munmap)
  BY DEF sys_munmap
<1>6. Tidy("mmap", sys_mmap)
  BY DEF sys_mmap
<1>7. Tidy("waitpid", sys_waitpid)
  BY DEF sys_waitpid
<1>8. Tidy("brk", sys_brk)
  BY DEF sys_brk
<1>9. Tidy("fork", sys_fork)
  BY DEF sys_fork
<1>10. Tidy("uname", sys_uname)
  BY DEF sys_uname
<1>11. Tidy("getdents", sys_getdents)
  BY DEF sys_getdents
<1>12. Tidy("read", sys_read)
  BY DEF sys_read
<1>13. Tidy("write", sys_write)
  BY DEF sys_write
<1>14. Tidy("link", sys_link)
  BY DEF sys_link
<1>15. Tidy("rename", sys_rename)
  BY DEF sys_rename
<1>16. Tidy("stat", sys_stat)
  BY DEF sys_stat
<1>17. Tidy("debug", sys_debug)
  BY DEF sys_debug
<1>18. Tidy("kshell", sys_kshell)
  BY DEF sys_kshell
<1>19. Tidy("execve", sys_execve)
  BY DEF sys_execve
<1>20. /\ Tidy("getpid", <<>>) /\ Tidy("errno", <<>>)
       /\ \A c : Tidy(c, <<StepOf("yield", "none", "continue", {}, "none")>>)
       /\ Tidy("set_errno", <<StepOf("seterrno", "none", "continue", {}, "none")>>)
       /\ Tidy("unknown", <<StepOf("nosys", "none", "return", {}, "ENOSYS")>>)
  OBVIOUS
<1>21. \A c \in {"mkdir", "rmdir", "unlink", "chdir", "open"} : Tidy(c, OnePath)
  BY DEF OnePath
<1> HIDE DEF StepOf, Tidy
<1> QED BY <1>1, <1>2, <1>3, <1>4, <1>5, <1>6, <1>7, <1>8, <1>9, <1>10, <1>11,
           <1>12, <1>13, <1>14, <1>15, <1>16, <1>17, <1>18, <1>19, <1>20, <1>21
        DEF syscall_dispatch, sys_mkdir, sys_rmdir, sys_unlink, sys_chdir, sys_open

(***************************************************************************)
(* The inductive invariant.                                                *)
(***************************************************************************)
\* The thread is a record with these fields.
IsThread(t) ==
    t = [mode |-> t.mode, call |-> t.call, steps |-> t.steps, at |-> t.at, err |-> t.err, errno |-> t.errno,
         ret |-> t.ret, held |-> t.held, cancelled |-> t.cancelled, late |-> t.late]

\* In a call, at one of its steps or at its end, with nothing but what is pending.
Running(t) ==
    /\ t.call \in DOMAIN syscall_dispatch /\ t.steps = syscall_dispatch[t.call]
    /\ t.at \in 1 .. Len(t.steps) + 1
    /\ \A x \in t.held : Pending(t.steps, t.at, x)

\* After a call.
LeftClean(t) ==
    /\ t.held = {} \/ (t.held = {"buf"} /\ t.ret = -1 /\ t.call \in {"read", "write"})
    /\ t.ret = -1 /\ t.call # "getdents" => t.errno # "ok"

Good(t) ==
    /\ IsThread(t)
    /\ t.mode = "kernel" => Running(t)
    /\ t.mode \in {"leaving", "user"} => LeftClean(t)
    /\ t.mode = "user" /\ t.cancelled => t.late

Inv == Good(sc)

\* n is the thread t later in the same call.
Continues(n, t, k) == IsThread(n) /\ n.mode = "kernel" /\ n.call = t.call /\ n.steps = t.steps /\ n.at = k

\* What a step has not given back is still pending at the next one.
LEMMA PendingNext ==
    ASSUME NEW steps, NEW k \in Nat \ {0}, NEW x
    PROVE  /\ Pending(steps, k, x) /\ ~ Gives(steps[k], x) => Pending(steps, k + 1, x)
           /\ Takes(steps[k], x) => Pending(steps, k + 1, x)
  BY DEF Pending

\* A thread goes on to its next step, with more or with less, or another errno.
LEMMA GoesOn ==
    ASSUME NEW t, IsThread(t), Running(t), t.at <= Len(t.steps), NEW n, Continues(n, t, t.at + 1),
           \A x \in n.held : \/ x \in t.held /\ ~ Gives(t.steps[t.at], x)
                             \/ Takes(t.steps[t.at], x)
    PROVE  Good(n)
<1>1. Len(t.steps) \in Nat /\ t.at \in Nat \ {0}
  BY CallsAreTidy DEF Running, Tidy
<1>2. \A x \in n.held : Pending(n.steps, n.at, x)
  <2>1. \A x \in n.held : Pending(t.steps, t.at + 1, x)
    BY <1>1, PendingNext DEF Running
  <2> QED BY <2>1 DEF Continues
<1> QED BY <1>1, <1>2 DEF Running, Good, Continues

\* A panic ends all.
LEMMA PanicsGood ==
    ASSUME NEW t, IsThread(t)
    PROVE  Good(Panics(t)) /\ Panics(t).mode = "panic" /\ IsThread(Panics(t))
  BY DEF IsThread, Panics, Good

\* A step that fails.
LEMMA FailsGood ==
    ASSUME NEW t, IsThread(t), Running(t), t.mode = "kernel", t.at <= Len(t.steps), NEW err,
           \A x : ~ Gives(t.steps[t.at], x)
    PROVE  Good(StepFails(t, t.steps[t.at], err))
<1> DEFINE step == t.steps[t.at]
           n == StepFails(t, step, err)
<1>1. /\ Tidy(t.call, t.steps) /\ TidyStep(t.call, t.steps, t.at)
      /\ Len(t.steps) \in Nat /\ t.at \in 1 .. Len(t.steps)
  BY CallsAreTidy DEF Running, Tidy
<1>2. CASE step.fail = "return"
  <2>1. n = Returns([FreeSet(t, step.undo) EXCEPT !.errno = step.errno], -1)
    BY <1>2 DEF StepFails
  <2>2. CASE ~ (step.undo \subseteq t.held)
    <3>1. IsThread(n) /\ n.mode = "panic"
      BY <2>1, <2>2 DEF FreeSet, Panics, Returns, IsThread
    <3> QED BY <3>1 DEF Good
  <2>3. CASE step.undo \subseteq t.held
    <3>1. /\ IsThread(n) /\ n.mode = "leaving" /\ n.call = t.call /\ n.ret = -1
          /\ n.errno = step.errno /\ n.held = t.held \ step.undo
      BY <2>1, <2>3 DEF FreeSet, Returns, IsThread
    <3>2. \A x \in n.held : Kept(t.call, x)
      BY <1>1, <1>2, <3>1 DEF TidyStep, Running
    <3>3. n.held = {} \/ (n.held = {"buf"} /\ n.call \in {"read", "write"})
      BY <3>1, <3>2 DEF Kept
    <3> QED BY <1>1, <1>2, <3>1, <3>3 DEF Good, LeftClean, TidyStep
  <2> QED BY <2>2, <2>3
<1>3. CASE step.fail = "goto"
  <2>1. Continues(n, t, Len(t.steps)) /\ n.held = t.held
    BY <1>3 DEF StepFails, Goto, IsThread, Continues
  <2>2. \A x \in n.held : Pending(t.steps, Len(t.steps), x)
    <3> SUFFICES ASSUME NEW x \in t.held
                 PROVE  Pending(t.steps, Len(t.steps), x)
      BY <2>1
    <3>1. PICK i \in 1 .. t.at - 1 : /\ Takes(t.steps[i], x)
                                     /\ \A j \in i + 1 .. t.at - 1 : ~ Gives(t.steps[j], x)
      BY DEF Running, Pending
    <3>2. \A j \in t.at .. Len(t.steps) - 1 : ~ Gives(t.steps[j], x)
      BY <1>1, <1>3 DEF TidyStep
    <3>3. /\ i \in 1 .. Len(t.steps) - 1
          /\ \A j \in i + 1 .. Len(t.steps) - 1 : j \in i + 1 .. t.at - 1 \/ j \in t.at .. Len(t.steps) - 1
      BY <1>1
    <3> QED BY <3>1, <3>2, <3>3 DEF Pending
  <2> QED BY <1>1, <2>1, <2>2 DEF Good, Running, Continues
<1>4. CASE step.fail \notin {"return", "goto"}
  <2>1. Continues(n, t, t.at + 1) /\ n.held = t.held
    BY <1>4 DEF StepFails, IsThread, Continues
  <2> QED BY <2>1, GoesOn
<1> QED BY <1>2, <1>3, <1>4

\* Whatever a step of a call does, the call goes on or ends in order.
LEMMA StepGood ==
    ASSUME NEW t, IsThread(t), Running(t), t.mode = "kernel", t.at <= Len(t.steps),
           NEW n \in Effects(t, t.steps[t.at])
    PROVE  Good(n)
<1> DEFINE step == t.steps[t.at]
<1>1. TidyStep(t.call, t.steps, t.at) /\ step.op \in StepOps
  <2>1. Tidy(t.call, t.steps) /\ t.at \in 1 .. Len(t.steps)
    BY CallsAreTidy DEF Running, Tidy
  <2>2. TidyStep(t.call, t.steps, t.at)
    BY <2>1 DEF Tidy
  <2> QED BY <2>2 DEF TidyStep
<1>2. ASSUME \A x : ~ Gives(step, x)
      PROVE  /\ Good(Done(t))
             /\ \A e : Good([Done(t) EXCEPT !.errno = e])
             /\ Takes(step, step.name) => Good([Done(t) EXCEPT !.held = @ \cup {step.name}])
  <2>0. Continues(Done(t), t, t.at + 1) /\ Done(t).held = t.held
    BY DEF Done, IsThread, Continues
  <2>1. Good(Done(t))
    BY <1>2, <2>0, GoesOn
  <2>2. ASSUME NEW e PROVE Good([Done(t) EXCEPT !.errno = e])
    <3> DEFINE d == [Done(t) EXCEPT !.errno = e]
    <3>1. Continues(d, t, t.at + 1) /\ d.held = t.held
      BY <2>0 DEF IsThread, Continues
    <3> HIDE DEF d
    <3>2. Good(d)
      BY <1>2, <3>1, GoesOn
    <3> QED BY <3>2 DEF d
  <2>3. ASSUME Takes(step, step.name) PROVE Good([Done(t) EXCEPT !.held = @ \cup {step.name}])
    <3> DEFINE h == Done(t).held \cup {step.name}
               d == [Done(t) EXCEPT !.held = h]
    <3> HIDE DEF h
    <3>1. Continues(d, t, t.at + 1) /\ d.held = h
      BY <2>0 DEF IsThread, Continues
    <3> HIDE DEF d
    <3>2. Good(d)
      BY <1>2, <2>0, <2>3, <3>1, GoesOn DEF h
    <3> QED BY <3>2 DEF d, h
  <2> QED BY <2>1, <2>2, <2>3
<1>3. ASSUME \A x : ~ Gives(step, x)
      PROVE  \A err : Good(StepFails(t, step, err))
  BY <1>3, FailsGood
<1>4. Good(Panics(t))
  BY PanicsGood
<1>5. CASE step.op \notin {"free", "unpage", "cleanup", "stub"}
  <2>1. \A x : ~ Gives(step, x)
    BY <1>5 DEF Gives
  <2>2. CASE step.op \in {"in", "out", "outok"}
    BY <1>2, <1>3, <1>4, <2>1, <2>2 DEF Effects
  <2>3. CASE step.op \in {"dup", "vecdup", "new", "page"}
    <3>1. Takes(step, step.name)
      BY <2>3 DEF Takes
    <3> QED BY <1>2, <1>3, <1>4, <2>1, <2>3, <3>1 DEF Effects, user_strdup, user_vecdup
  <2>4. CASE step.op \in {"call", "readuser", "mmap", "nosys", "always", "yield"}
    BY <1>2, <1>3, <1>4, <2>1, <2>4 DEF Effects
  <2>5. CASE step.op \in {"exec", "seterrno"}
    BY <1>2, <2>1, <2>5 DEF Effects
  <2> QED BY <1>1, <1>5, <2>2, <2>3, <2>4, <2>5 DEF StepOps
<1>6. CASE step.op \in {"free", "unpage"}
  <2>1. n = kfree_of(Done(t), step.name)
    BY <1>6 DEF Effects
  <2>2. CASE step.name \notin t.held
    <3>1. IsThread(n) /\ n.mode = "panic"
      BY <2>1, <2>2 DEF kfree_of, Done, Panics, IsThread
    <3> QED BY <3>1 DEF Good
  <2>3. CASE step.name \in t.held
    <3>1. Continues(n, t, t.at + 1) /\ n.held = t.held \ {step.name}
      BY <2>1, <2>3 DEF kfree_of, Done, IsThread, Continues
    <3>2. \A x : Gives(step, x) => x = step.name
      BY <1>6 DEF Gives
    <3> QED BY <3>1, <3>2, GoesOn
  <2> QED BY <2>2, <2>3
<1>7. CASE step.op = "cleanup"
  <2>1. n = ExecCleanup(t)
    BY <1>7 DEF Effects
  <2>2. /\ IsThread(n) /\ n.mode = "leaving" /\ n.call = t.call /\ n.errno = t.errno
        /\ n.held = t.held \ {"filename", "argv", "envp"} /\ n.ret = IF t.errno = "ok" THEN 0 ELSE -1
    BY <2>1 DEF ExecCleanup, Returns, IsThread
  <2>3. n.held = {}
    BY <1>1, <1>7, <2>2 DEF TidyStep, Gives, Running
  <2> QED BY <2>2, <2>3 DEF Good, LeftClean
<1>8. CASE step.op = "stub"
  <2>1. n = Returns(t, -1)
    BY <1>8 DEF Effects
  <2>2. IsThread(n) /\ n.mode = "leaving" /\ n.call = t.call /\ n.held = t.held
    BY <2>1 DEF Returns, IsThread
  <2> QED BY <1>1, <1>8, <2>2 DEF Good, LeftClean, TidyStep, Running
<1> QED BY <1>5, <1>6, <1>7, <1>8

\* A call whose steps are all done holds nothing.
LEMMA EndGood ==
    ASSUME NEW t, IsThread(t), Running(t), t.mode = "kernel", t.at > Len(t.steps)
    PROVE  Good(EndOfCall(t))
<1> DEFINE n == EndOfCall(t)
<1>1. t.held = {}
  <2>1. Tidy(t.call, t.steps) /\ Len(t.steps) \in Nat /\ t.at = Len(t.steps) + 1
    BY CallsAreTidy DEF Running, Tidy
  <2> QED BY <2>1 DEF Running, Tidy
<1>2. /\ IsThread(n) /\ n.mode = "leaving" /\ n.held = {}
      /\ n.ret = -1 => n.errno # "ok"
  <2>1. CASE t.err = "ok"
    <3>1. IsThread(n) /\ n.mode = "leaving" /\ n.held = {} /\ n.ret = 0
      BY <1>1, <2>1 DEF EndOfCall, Returns, IsThread
    <3> QED BY <3>1
  <2>2. CASE t.err # "ok"
    BY <1>1, <2>2 DEF EndOfCall, Returns, IsThread
  <2> QED BY <2>1, <2>2
<1> QED BY <1>2 DEF Good, LeftClean

-----------------------------------------------------------------------------
(***************************************************************************)
(* The theorem.                                                            *)
(***************************************************************************)
\* After any number of system calls, whatever fails in them and whenever the thread is
\* cancelled: nothing but the page of a read or write that failed is held, a call that
\* returned -1 left its errno, and a thread that was cancelled in a call is gone.
THEOREM NothingLeftBehind == SyscallSpec => []CallsLeaveNothingBehind
<1>1. SyscallInit => Inv
  BY DEF SyscallInit, Inv, Good, IsThread, LeftClean
<1>2. Inv /\ [SyscallNext]_syscallVars => Inv'
  <2> SUFFICES ASSUME Good(sc), [SyscallNext]_syscallVars
               PROVE  Good(sc')
    BY DEF Inv
  <2>1. ASSUME NEW call \in DOMAIN syscall_dispatch, syscall_handler(call)
        PROVE  Good(sc')
    <3>1. CASE sc.cancelled
      BY <2>1, <3>1 DEF syscall_handler, Good, IsThread
    <3>2. CASE ~ sc.cancelled
      <4>1. /\ IsThread(sc') /\ sc'.mode = "kernel" /\ sc'.call = call /\ sc'.at = 1 /\ sc'.held = {}
            /\ sc'.steps = syscall_dispatch[call]
        BY <2>1, <3>2 DEF syscall_handler, Good, IsThread
      <4>2. Len(sc'.steps) \in Nat
        BY <4>1, CallsAreTidy DEF Tidy
      <4> QED BY <4>1, <4>2 DEF Good, Running
    <3> QED BY <3>1, <3>2
  <2>2. CASE Exit
    BY <2>2 DEF Exit, Good, IsThread
  <2>3. CASE CallStep
    BY <2>3, StepGood DEF CallStep, Good
  <2>4. CASE CallEnd
    BY <2>4, EndGood DEF CallEnd, Good
  <2>5. CASE Leave
    BY <2>5 DEF Leave, Good, IsThread, LeftClean
  <2>6. CASE Cancel
    BY <2>6 DEF Cancel, Good, IsThread, LeftClean, Running
  <2>7. CASE UNCHANGED syscallVars
    BY <2>7 DEF syscallVars
  <2> QED BY <2>1, <2>2, <2>3, <2>4, <2>5, <2>6, <2>7 DEF SyscallNext
<1>3. Inv => CallsLeaveNothingBehind
  BY DEF Inv, Good, LeftClean, CallsLeaveNothingBehind
<1> QED BY <1>1, <1>2, <1>3, PTL DEF SyscallSpec

=============================================================================
