------------------------------ MODULE Syscall -------------------------------
(***************************************************************************)
(* The system call layer: api/syscall.c and the copies between user and    *)
(* kernel memory of api/access.c.                                          *)
(*                                                                         *)
(* A system call is the sequence of the things its sys_ function does: it  *)
(* copies its arguments in, duplicates strings and vectors into kernel     *)
(* memory, calls the kernel, frees what it duplicated and copies results   *)
(* out.  Each of these is one step; any of them but kfree can fail, and a  *)
(* copy or a call can block, and then another thread may cancel this one   *)
(* (kthread_cancel).                                                       *)
(*                                                                         *)
(* A null pointer given to kfree, a garbage pointer, and a read into or    *)
(* from user memory that has no translation end in a panic.                *)
(***************************************************************************)
EXTENDS Integers, Sequences

CONSTANT MaxSyscalls     \* bound: system calls made

VARIABLES sc,         \* the thread: its mode, its call and what the call holds
          ncalls

syscallVars == <<sc, ncalls>>

-----------------------------------------------------------------------------
(* The steps.  fail says what a failure does: "return" frees the names in  *)
(* undo and returns -1, "goto" goes to the call's cleanup, "continue"      *)
(* keeps the error for the end.  errno is what a failure that returns      *)
(* stores.                                                                 *)
StepOf(op, name, fail, undo, errno) ==
    [op |-> op, name |-> name, fail |-> fail, undo |-> undo, errno |-> errno]

CopyIn        == StepOf("in", "args", "return", {}, "EFAULT")
Dup(x, undo)  == StepOf("dup", x, "return", undo, "EINVAL")
Do            == StepOf("call", "none", "continue", {}, "none")
FreeOf(x)     == StepOf("free", x, "continue", {}, "none")

OnePath == <<CopyIn, Dup("path", {}), Do, FreeOf("path")>>

sys_read    == <<CopyIn, StepOf("page", "buf", "continue", {}, "none"),
                 StepOf("readuser", "none", "return", {}, "EIO"),
                 StepOf("out", "none", "return", {}, "EFAULT"),
                 StepOf("unpage", "buf", "continue", {}, "none")>>
sys_write   == <<CopyIn, StepOf("page", "buf", "continue", {}, "none"),
                 StepOf("readuser", "none", "return", {}, "EIO"),
                 StepOf("out", "none", "return", {}, "EFAULT"),
                 StepOf("unpage", "buf", "continue", {}, "none")>>
sys_close   == <<Do>>
sys_dup     == <<Do>>
sys_dup2    == <<CopyIn, Do>>
sys_mkdir   == OnePath
sys_rmdir   == OnePath
sys_unlink  == OnePath
sys_link    == <<CopyIn, Dup("to", {}), Dup("from", {"to"}), Do, FreeOf("to"), FreeOf("from")>>
sys_rename  == <<CopyIn, Dup("oldname", {}), Dup("newname", {"oldname"}), Do,
                 FreeOf("newname"), FreeOf("oldname")>>
sys_chdir   == OnePath
sys_lseek   == <<CopyIn, Do>>
sys_open    == OnePath
sys_munmap  == <<CopyIn, StepOf("always", "none", "continue", {}, "none")>>
sys_mmap    == <<CopyIn, StepOf("mmap", "none", "continue", {}, "none")>>
sys_waitpid == <<CopyIn, StepOf("call", "none", "return", {}, "ECHILD"),
                 StepOf("out", "none", "return", {}, "EFAULT")>>
sys_brk     == <<StepOf("always", "none", "continue", {}, "none")>>
sys_getdents == <<StepOf("stub", "none", "return", {}, "none")>>
sys_stat    == <<CopyIn, Dup("path", {}), Do, StepOf("outok", "none", "continue", {}, "none"),
                 FreeOf("path")>>
sys_uname   == [i \in 1 .. 5 |-> StepOf("out", "none", "return", {}, "EFAULT")]
sys_fork    == <<StepOf("always", "none", "continue", {}, "none")>>
sys_debug   == <<CopyIn, StepOf("dup", "message", "continue", {}, "none"), FreeOf("message")>>
sys_kshell  == <<StepOf("new", "kshell", "return", {}, "ENODEV"), Do, FreeOf("kshell")>>

(* user_strdup and user_vecdup set errno themselves; the cleanup frees     *)
(* what is not null and looks at errno for the result.                     *)
sys_execve  == <<StepOf("in", "args", "goto", {}, "EFAULT"),
                 StepOf("dup", "filename", "goto", {}, "ENOMEM"),
                 StepOf("vecdup", "argv", "goto", {}, "ENOMEM"),
                 StepOf("vecdup", "envp", "goto", {}, "ENOMEM"),
                 StepOf("exec", "none", "continue", {}, "none"),
                 StepOf("cleanup", "none", "continue", {}, "none")>>

syscall_dispatch ==
    [read |-> sys_read, write |-> sys_write, close |-> sys_close, dup |-> sys_dup,
     dup2 |-> sys_dup2, mkdir |-> sys_mkdir, rmdir |-> sys_rmdir, unlink |-> sys_unlink,
     link |-> sys_link, rename |-> sys_rename, chdir |-> sys_chdir, lseek |-> sys_lseek,
     open |-> sys_open, munmap |-> sys_munmap, mmap |-> sys_mmap, waitpid |-> sys_waitpid,
     brk |-> sys_brk, stat |-> sys_stat, uname |-> sys_uname, fork |-> sys_fork,
     execve |-> sys_execve, debug |-> sys_debug, kshell |-> sys_kshell,
     getdents |-> sys_getdents, getpid |-> <<>>, errno |-> <<>>,
     sync |-> <<StepOf("yield", "none", "continue", {}, "none")>>,
     thr_yield |-> <<StepOf("yield", "none", "continue", {}, "none")>>,
     set_errno |-> <<StepOf("seterrno", "none", "continue", {}, "none")>>,
     unknown |-> <<StepOf("nosys", "none", "return", {}, "ENOSYS")>>]

-----------------------------------------------------------------------------
(* Copies.                                                                 *)

(* Whether the page whose number is the word at vaddr has the permission.  *)
addr_perm == {0, 1}

range_perm(ret) == IF ret # 0 THEN ret ELSE -1

(* The test is for 0, which range_perm never returns; then vmmap_read or   *)
(* vmmap_write finds the areas, or does not.                               *)
copy_from_user ==
    UNION {IF range_perm(r) = 0 THEN {"EFAULT"} ELSE {"ok", "EFAULT", "panic"} : r \in addr_perm}

copy_to_user == copy_from_user

(* What a do_ function returns: ok, or an error, one standing for all.     *)
(* What it keeps itself when it fails is not seen here (see Vfs and Exec). *)
Outcomes == {"ok", "EIO"}

-----------------------------------------------------------------------------
(* The end of a call.                                                      *)

Panics(t) == [t EXCEPT !.mode = "panic"]

kfree_of(t, x) == IF x \in t.held THEN [t EXCEPT !.held = @ \ {x}] ELSE Panics(t)

FreeSet(t, xs) == IF xs \subseteq t.held THEN [t EXCEPT !.held = @ \ xs] ELSE Panics(t)

Returns(t, ret) == [t EXCEPT !.mode = IF @ = "panic" THEN @ ELSE "leaving", !.ret = ret]

Goto(t) == [t EXCEPT !.at = Len(t.steps)]

\* Mutant: what was duplicated before is not freed.
StepFails_frees_nothing(t, step, err) ==
    CASE step.fail = "return" -> Returns([t EXCEPT !.errno = step.errno], -1)
      [] step.fail = "goto"   -> Goto([t EXCEPT !.errno = step.errno])
      [] OTHER                -> [t EXCEPT !.err = err, !.at = @ + 1]

StepFails(t, step, err) ==
    CASE step.fail = "return" -> Returns([FreeSet(t, step.undo) EXCEPT !.errno = step.errno], -1)
      [] step.fail = "goto"   -> Goto([t EXCEPT !.errno = step.errno])
      [] OTHER                -> [t EXCEPT !.err = err, !.at = @ + 1]

Done(t) == [t EXCEPT !.at = @ + 1]

(* The last step is over: an error that was kept becomes errno and -1.     *)
EndOfCall(t) ==
    IF t.err = "ok" THEN Returns(t, 0) ELSE Returns([t EXCEPT !.errno = t.err], -1)

(* free_vector and the kfree of the name, of what sys_execve has.          *)
ExecCleanup(t) ==
    Returns([t EXCEPT !.held = @ \ {"filename", "argv", "envp"}],
            IF t.errno = "ok" THEN 0 ELSE -1)

-----------------------------------------------------------------------------
(* user_strdup: no memory, or a copy that fails and is freed.              *)
user_strdup(t, step) ==
    {StepFails(t, step, "ENOMEM"), [Done(t) EXCEPT !.held = @ \cup {step.name}], Panics(t)}

(* user_vecdup: without memory for the first vector it frees a null        *)
(* pointer; when the vector cannot be copied in it frees the pointers that *)
(* the new, unfilled vector happens to hold; a string that cannot be       *)
(* copied ends the vector, and those before it are freed.                  *)
user_vecdup(t, step) ==
    {Panics(t), StepFails(t, step, "ENOMEM"), [Done(t) EXCEPT !.held = @ \cup {step.name}],
     Done(t)}                                         \* no vector was given

(* What the step of a call can do.                                         *)
Effects(t, step) ==
    CASE step.op \in {"in", "out"} ->
             {CASE r = "ok" -> Done(t) [] r = "panic" -> Panics(t) [] OTHER -> StepFails(t, step, r)
                : r \in copy_from_user}
      [] step.op = "outok" -> IF t.err # "ok" THEN {Done(t)}
                              ELSE {CASE r = "ok" -> Done(t) [] r = "panic" -> Panics(t)
                                      [] OTHER -> StepFails(t, step, r) : r \in copy_to_user}
      [] step.op = "dup" -> user_strdup(t, step)
      [] step.op = "vecdup" -> user_vecdup(t, step)
      [] step.op = "new" -> {StepFails(t, step, "ENODEV"), [Done(t) EXCEPT !.held = @ \cup {step.name}]}
      [] step.op = "page" -> {Done(t), [Done(t) EXCEPT !.held = @ \cup {step.name}]}
      [] step.op = "unpage" -> {kfree_of(Done(t), step.name)}
      [] step.op = "call" -> {IF r = "ok" THEN Done(t) ELSE StepFails(t, step, r) : r \in Outcomes}
      [] step.op = "readuser" -> {Panics(t), Done(t), StepFails(t, step, "EIO")}
      [] step.op = "mmap" -> {Panics(t), Done(t)}
      [] step.op = "exec" -> {[Done(t) EXCEPT !.errno = r] : r \in Outcomes}
      [] step.op = "cleanup" -> {ExecCleanup(t)}
      [] step.op = "free" -> {kfree_of(Done(t), step.name)}
      [] step.op = "nosys" -> {StepFails(t, step, "ENOSYS")}
      [] step.op = "seterrno" -> {[Done(t) EXCEPT !.errno = r] : r \in {"ok", "EIO"}}
      [] step.op = "stub" -> {Returns(t, -1)}
      [] step.op \in {"always", "yield"} -> {Done(t)}

Blocks(step) == step.op \in {"in", "out", "outok", "dup", "vecdup", "call", "readuser", "exec", "yield"}

-----------------------------------------------------------------------------
SyscallInit ==
    /\ sc = [mode |-> "user", call |-> "none", steps |-> <<>>, at |-> 1, err |-> "ok", errno |-> "ok",
             ret |-> 0, held |-> {}, cancelled |-> FALSE, late |-> FALSE]
    /\ ncalls = 0

(* The trap: a thread that was cancelled exits before the call.            *)
syscall_handler(call) ==
    /\ sc.mode = "user" /\ ncalls < MaxSyscalls
    /\ ncalls' = ncalls + 1
    /\ sc' = IF sc.cancelled THEN [sc EXCEPT !.mode = "exited"]
             ELSE [sc EXCEPT !.mode = "kernel", !.call = call, !.at = 1, !.err = "ok", !.held = {},
                             !.steps = syscall_dispatch[call]]

(* exit, thr_exit and halt do not return: proc_kill_all cancels the        *)
(* caller's own thread or makes its process exit, whichever it meets first.*)
Exit ==
    /\ sc.mode = "user" /\ ncalls < MaxSyscalls
    /\ ncalls' = ncalls + 1
    /\ sc' = [sc EXCEPT !.mode = "exited"]

CallStep ==
    /\ sc.mode = "kernel" /\ sc.at <= Len(sc.steps)
    /\ \E new \in Effects(sc, sc.steps[sc.at]) : sc' = new
    /\ UNCHANGED ncalls

CallEnd ==
    /\ sc.mode = "kernel" /\ sc.at > Len(sc.steps)
    /\ sc' = EndOfCall(sc)
    /\ UNCHANGED ncalls

(* After the call: a thread that was cancelled in it exits.                *)
Leave ==
    /\ sc.mode = "leaving"
    /\ sc' = [sc EXCEPT !.mode = IF sc.cancelled THEN "exited" ELSE "user"]
    /\ UNCHANGED ncalls

(* Another thread cancels this one (kthread_cancel) while it is blocked in *)
(* its call, or in the read of a page fault, after which it goes back to   *)
(* the program.                                                            *)
Cancel ==
    /\ ~sc.cancelled
    /\ \/ /\ sc.mode = "kernel" /\ sc.at <= Len(sc.steps) /\ Blocks(sc.steps[sc.at])
          /\ sc' = [sc EXCEPT !.cancelled = TRUE]
       \/ /\ sc.mode = "user"
          /\ sc' = [sc EXCEPT !.cancelled = TRUE, !.late = TRUE]
    /\ UNCHANGED ncalls

SyscallNext ==
    \/ \E call \in DOMAIN syscall_dispatch : syscall_handler(call)
    \/ Exit \/ CallStep \/ CallEnd \/ Leave \/ Cancel

SyscallSpec == SyscallInit /\ [][SyscallNext]_syscallVars

-----------------------------------------------------------------------------
\* Back in the program after a system call, however it went: nothing that the call
\* itself duplicated or allocated in the kernel is still held, but for the page of a read
\* or write that failed (both return from their errors with it); a call that
\* returned -1 left the reason in errno, but for getdents; and the thread was not
\* cancelled during the call: only a page fault lets a cancelled thread go on, and
\* then its next call is its last (syscall_handler).
CallsLeaveNothingBehind ==
    sc.mode = "user" /\ ncalls > 0 =>
        /\ sc.held = {} \/ (sc.held = {"buf"} /\ sc.ret = -1 /\ sc.call \in {"read", "write"})
        /\ sc.ret = -1 /\ sc.call # "getdents" => sc.errno # "ok"
        /\ sc.cancelled => sc.late

=============================================================================
