---------------------------------- MODULE Sh ---------------------------------
(***************************************************************************)
(* The shell user/bin/sh.c: redirections, built-in commands, repeat,       *)
(* parallel, the check tests, and the processes it forks and waits for.    *)
(*                                                                         *)
(* A process is a record; pc is the function it is in.  A descriptor table *)
(* maps a descriptor to what it is open on, Closed when free, and open and *)
(* dup take the lowest free one.  A command line is a record of its        *)
(* redirections and its command; tokenising and messages are left out.     *)
(* Any system call that can fail may fail.                                 *)
(***************************************************************************)
EXTENDS Integers, SequencesExt

CONSTANTS
    NFILES,      \* descriptors of a process
    Lines,       \* command lines that may be typed
    MaxPids,     \* bound: processes forked in a session
    MaxShLines   \* bound: lines typed

Closed == ""
Shell == 1
Descriptors == 0 .. NFILES - 1

VARIABLES
    procs,    \* the processes by pid; a process that was waited for is gone
    tmp,      \* temporary files of the check tests that exist
    npids,    \* pids used
    nlines    \* lines read

shVars == <<procs, tmp, npids, nlines>>

NoLine == [redirs |-> <<>>, cmd |-> <<>>]

\* Descriptors, redirect map, the command being executed, what repeat returns to, steps
\* of a built-in left, descriptors and mappings it holds, the ioenv, children still to
\* wait for; lost has the descriptors no path will close any more, and stuck tells whether
\* a failed munmap of this line has left a mapping behind.
NewProcess(parent) ==
    [pc |-> "prompt", parent |-> parent, line |-> NoLine, redirs |-> <<>>,
     fds |-> [d \in Descriptors |-> IF d <= 2 THEN "tty" ELSE Closed], map |-> <<>>, cmd |-> <<>>,
     stack |-> <<>>, tests |-> <<>>, todo |-> <<>>, held |-> <<>>, mapped |-> FALSE, file |-> "",
     io |-> <<>>, waits |-> 0, lost |-> {}, stuck |-> FALSE]

Free(p) == {d \in Descriptors : p.fds[d] = Closed}
Set(pid, p) == procs' = [procs EXCEPT ![pid] = p]
Opened(p, what) == [p EXCEPT !.fds[Min(Free(p))] = what]
Close(p, d) == [p EXCEPT !.fds[d] = Closed]
Sources(map) == {map[i].sfd : i \in DOMAIN map}
-----------------------------------------------------------------------------
(***************************************************************************)
(* Reading a line.                                                         *)
(***************************************************************************)
\* main reads a line, or the end of the input and exits.
main(pid) ==
    /\ procs[pid].pc = "prompt"
    /\ \/ /\ nlines < MaxShLines
          /\ \E line \in Lines :
               Set(pid, [procs[pid] EXCEPT !.pc = "parse_redirects", !.line = line,
                                           !.redirs = line.redirs, !.map = <<>>, !.stuck = FALSE])
          /\ nlines' = nlines + 1
       \/ /\ Set(pid, [procs[pid] EXCEPT !.pc = "exited"])
          /\ UNCHANGED nlines
    /\ UNCHANGED <<tmp, npids>>

\* parse_redirect_dfd and redirect_default_fd: the descriptor written before the symbol.
Dfd(r) == IF r.dfd >= 0 THEN r.dfd ELSE IF r.type = "<" THEN 0 ELSE 1

add_redirect(p, sfd, dfd) == [p EXCEPT !.map = Append(@, [sfd |-> sfd, dfd |-> dfd])]

\* parse_redirect_dup duplicates the shell's own descriptor at once.
parse_redirect_dup(p, r) ==
    IF r.n \notin Descriptors \/ p.fds[r.n] = Closed \/ Free(p) = {} THEN {}
    ELSE {add_redirect(Opened(p, p.fds[r.n]), Min(Free(p)), Dfd(r))}

\* parse_redirect_norm opens the file; the caller may find it cannot be opened.
parse_redirect_norm(p, r) ==
    IF Free(p) = {} THEN {} ELSE {add_redirect(Opened(p, r.path), Min(Free(p)), Dfd(r))}

Redirected(p, r) == IF r.dup THEN parse_redirect_dup(p, r) ELSE parse_redirect_norm(p, r)

\* A line given up keeps what its redirections opened.
GiveUp(p) == [p EXCEPT !.pc = "prompt", !.lost = @ \cup Sources(p.map), !.map = <<>>]

parse_redirects(pid) ==
    LET p == procs[pid]
        r == Head(p.redirs)
        ok == Redirected(p, r)
    IN  /\ p.pc = "parse_redirects" /\ p.redirs # <<>>
        /\ \/ \E q \in ok : Set(pid, [q EXCEPT !.redirs = Tail(@)])
           \/ /\ ok = {} \/ ~r.dup
              /\ Set(pid, GiveUp(p))
        /\ UNCHANGED <<tmp, npids, nlines>>

\* parse: an empty command is given up as well.
parse(pid) ==
    LET p == procs[pid]
    IN  /\ p.pc = "parse_redirects" /\ p.redirs = <<>>
        /\ Set(pid, IF p.line.cmd = <<>> THEN GiveUp(p)
                    ELSE [p EXCEPT !.pc = "execute", !.cmd = p.line.cmd])
        /\ UNCHANGED <<tmp, npids, nlines>>
-----------------------------------------------------------------------------
(***************************************************************************)
(* Executing a command: <<name, argument, ...>>.                           *)
(***************************************************************************)
\* A built-in is the sequence of the calls it makes.  After a failed open it returns;
\* after a failed try it goes on with the next file; a failed use (a call or a
\* comparison) goes on with the clean-up that follows; a failed call changes nothing.
do_cp == <<"call">>
cat(files) ==
    IF files = <<>> THEN do_cp
    ELSE FlattenSeq([i \in DOMAIN files |-> <<"try">> \o do_cp \o <<"close">>])
cp == <<"open", "open2">> \o do_cp \o <<"close", "close">>
\* mv, rm, ln, mkdir, clear and rmdir hold nothing across a call.
OneCall == <<"call">>

chk_priv == <<"exists", "create", "use", "mmap", "use", "use", "use", "use", "use",
              "munmap", "close", "unlink">>
chk_null == <<"open", "use", "use", "close">>
chk_zero == <<"open", "use", "use", "mmap", "use", "use", "munmap", "close">>
chk_malloc == <<"use", "use">>
chk_sbrk == <<"use", "use", "use", "use">>
chk_wrnoent == <<"exists", "create", "remove", "gone", "use", "use", "use", "use", "close">>
chk_unlink == <<"exists", "create", "remove", "gone", "close">>
chk_sparse == <<"exists", "create", "use", "use", "use", "use", "use", "mmap", "munmap",
                "use", "use", "use", "close", "unlink">>

Builtins == {"?", "cat", "env", "cd", "check", "clear", "cp", "echo", "exit", "help", "ln", "mkdir",
             "mv", "quit", "rm", "rmdir", "sync", "repeat", "parallel"}
check_cmds == <<"null", "sbrk", "sparse", "unlink", "wrnoent", "zero", "priv", "malloc">>

Script(name, files) ==
    CASE name = "cat" -> cat(files)
      [] name = "cp" -> cp
      [] OTHER -> OneCall

\* An unknown test is passed over.
Test(name) ==
    CASE name = "priv" -> chk_priv
      [] name = "null" -> chk_null
      [] name = "zero" -> chk_zero
      [] name = "malloc" -> chk_malloc
      [] name = "sbrk" -> chk_sbrk
      [] name = "wrnoent" -> chk_wrnoent
      [] name = "unlink" -> chk_unlink
      [] name = "sparse" -> chk_sparse
      [] OTHER -> <<>>

CleanUp == {"munmap", "close", "unlink"}

\* Mutant: the first redirection of a stream wins.
build_ioenv_first(map) ==
    [d \in 0 .. 2 |->
        LET named == {i \in DOMAIN map : map[i].dfd = d}
        IN  IF named = {} THEN d ELSE map[Min(named)].sfd]

\* build_ioenv: where the built-in finds the standard streams.
build_ioenv(map) ==
    [d \in 0 .. 2 |->
        LET named == {i \in DOMAIN map : map[i].dfd = d}
        IN  IF named = {} THEN d ELSE map[Max(named)].sfd]

\* A new process with its parent's descriptors.
Child(pid, p, pc) ==
    [p EXCEPT !.pc = pc, !.parent = pid, !.stack = <<>>, !.waits = 0]

fork(pid, p, child) ==
    \/ /\ npids < MaxPids
       /\ npids' = npids + 1
       /\ procs' = [procs EXCEPT ![pid] = p] @@ (npids + 1 :> child)
    \/ /\ Set(pid, p)
       /\ UNCHANGED npids

Entered(p) ==
    CASE p.cmd[1] \in {"repeat", "parallel"} -> [p EXCEPT !.pc = p.cmd[1], !.todo = Tail(p.cmd)]
      [] p.cmd[1] = "check" -> [p EXCEPT !.pc = "builtin", !.todo = <<>>, !.tests =
                                   IF p.cmd = <<"check", "all">> THEN check_cmds ELSE Tail(p.cmd)]
      [] p.cmd[1] \in {"exit", "quit"} -> [p EXCEPT !.pc = "exited"]
      [] OTHER -> [p EXCEPT !.pc = "builtin", !.todo = Script(p.cmd[1], Tail(p.cmd))]

\* execute: a built-in runs in the shell, anything else in a child.
execute_builtin(pid) ==
    /\ procs[pid].pc = "execute" /\ procs[pid].cmd[1] \in Builtins
    /\ Set(pid, Entered([procs[pid] EXCEPT !.io = build_ioenv(procs[pid].map)]))
    /\ UNCHANGED <<tmp, npids, nlines>>

execute(pid) ==
    LET p == procs[pid]
    IN  /\ p.pc = "execute" /\ p.cmd[1] \notin Builtins
        /\ fork(pid, [p EXCEPT !.pc = "wait", !.waits = 1,
                               !.fds = [d \in Descriptors |-> IF d \in Sources(p.map) THEN Closed
                                                              ELSE @[d]], !.map = <<>>],
                Child(pid, p, "do_redirect"))
        /\ UNCHANGED <<tmp, nlines>>

\* do_redirect in the child: one dup2 and close after the other.
RECURSIVE Dup2All(_, _)
Dup2All(fds, map) ==
    IF map = <<>> THEN fds
    ELSE IF Head(map).dfd \notin Descriptors \/ fds[Head(map).sfd] = Closed THEN <<>>
    ELSE Dup2All([[fds EXCEPT ![Head(map).dfd] = fds[Head(map).sfd]]
                      EXCEPT ![Head(map).sfd] = Closed], Tail(map))

\* The child redirects and becomes the program, or exits: no descriptor, no such file.
do_redirect(pid) ==
    LET p == procs[pid]
        fds == Dup2All(p.fds, p.map)
    IN  /\ p.pc = "do_redirect"
        /\ \/ fds # <<>> /\ Set(pid, [p EXCEPT !.pc = "program", !.fds = fds])
           \/ Set(pid, [p EXCEPT !.pc = "exited"])
        /\ UNCHANGED <<tmp, npids, nlines>>

\* External: the program comes to its end.
Program(pid) ==
    /\ procs[pid].pc = "program"
    /\ Set(pid, [procs[pid] EXCEPT !.pc = "exited"])
    /\ UNCHANGED <<tmp, npids, nlines>>

\* execute returns: to repeat, to the prompt, or to the exit of a child of parallel.
Return(p) ==
    IF p.stack # <<>>
    THEN [p EXCEPT !.pc = "repeat", !.todo = Last(p.stack).todo, !.map = Last(p.stack).map,
                   !.io = Last(p.stack).io, !.cmd = Last(p.stack).cmd, !.stack = Front(@)]
    ELSE [p EXCEPT !.pc = IF p.parent = 0 THEN "prompt" ELSE "exited", !.map = <<>>]

\* Mutant: the sources stay open.
cleanup_redirects_none(p) == p

cleanup_redirects(p) ==
    [p EXCEPT !.fds = [d \in Descriptors |-> IF d \in Sources(p.map) THEN Closed ELSE @[d]]]

\* A built-in returns: execute closes the sources of the redirections.
EndBuiltin(p) == Return(cleanup_redirects([p EXCEPT !.todo = <<>>, !.held = <<>>, !.file = ""]))

Kids(pid) == {k \in DOMAIN procs : procs[k].parent = pid}
Waited(p) == IF p.waits > 1 THEN [p EXCEPT !.waits = @ - 1]
             ELSE IF p.cmd[1] = "parallel" THEN EndBuiltin([p EXCEPT !.waits = 0])
             ELSE Return([p EXCEPT !.waits = 0])

\* wait takes any child that has exited, and fails at once when there is no child.
wait(pid) ==
    /\ procs[pid].pc = "wait"
    /\ \/ \E k \in Kids(pid) :
            /\ procs[k].pc = "exited"
            /\ procs' = [q \in DOMAIN procs \ {k} |->
                            IF q = pid THEN Waited(procs[pid]) ELSE procs[q]]
       \/ Kids(pid) = {} /\ Set(pid, Waited(procs[pid]))
    /\ UNCHANGED <<tmp, npids, nlines>>
-----------------------------------------------------------------------------
(***************************************************************************)
(* The built-ins.                                                          *)
(***************************************************************************)
\* What is left of a script when a step fails.
Rest(p) == SelectSeq(p.todo, LAMBDA s : s \in CleanUp /\ (s = "munmap" => p.mapped))
Failed(p) == IF p.held = <<>> THEN <<>> ELSE Rest([p EXCEPT !.todo = Tail(@)])
Next1(p) == [p EXCEPT !.todo = Tail(@)]
Hold(p) == [Opened(p, "file") EXCEPT !.held = Append(@, Min(Free(p)))]
\* cp forgets its source when the destination cannot be opened.
Forgotten(p) == [p EXCEPT !.todo = <<>>, !.held = <<>>, !.lost = @ \cup ToSet(p.held)]

\* One call of cat, cp or a test.  ok: it does what the built-in hopes for.
Step(p, s, ok) ==
    CASE s \in {"open", "create"} -> IF ok THEN Hold(Next1(p)) ELSE [p EXCEPT !.todo = <<>>]
      [] s = "try"    -> IF ok THEN Hold(Next1(p)) ELSE [p EXCEPT !.todo = SubSeq(@, 4, Len(@))]
      [] s = "open2"  -> IF ok THEN Hold(Next1(p)) ELSE Forgotten(p)
      [] s = "mmap"   -> IF ok THEN [Next1(p) EXCEPT !.mapped = TRUE]
                         ELSE [p EXCEPT !.todo = Failed(p)]
      [] s = "call"   -> Next1(p)
      [] s = "munmap" -> [Next1(p) EXCEPT !.mapped = FALSE, !.stuck = @ \/ ~ok]
      [] s = "close"  -> [Close(Next1(p), Head(p.held)) EXCEPT !.held = Tail(@)]
      [] s = "gone"   -> IF ok THEN Next1(p)
                         ELSE [Opened(p, "file") EXCEPT !.todo = Failed(p),
                                                        !.lost = @ \cup {Min(Free(p))}]
      [] s \in {"exists", "use", "remove", "unlink"} ->
            IF ok THEN Next1(p) ELSE [p EXCEPT !.todo = Failed(p)]

\* What the file system lets the call do.
Possible(p, s, ok) ==
    CASE s \in {"open", "open2", "try", "create"} -> ok => Free(p) # {}
      [] s = "exists" -> ~ok => Free(p) # {} /\ p.file \in tmp
      [] s = "gone" -> ~ok => Free(p) # {} /\ p.file \in tmp
      [] s \in {"close", "call"} -> ok
      [] OTHER -> TRUE

builtin(pid) ==
    LET p == procs[pid]
        s == Head(p.todo)
    IN  /\ p.pc = "builtin" /\ p.todo # <<>>
        /\ \E ok \in BOOLEAN :
             /\ Possible(p, s, ok)
             /\ Set(pid, Step(p, s, ok))
             /\ tmp' = IF ~ok THEN tmp
                       ELSE IF s = "create" THEN tmp \cup {p.file}
                       ELSE IF s \in {"remove", "unlink"} THEN tmp \ {p.file} ELSE tmp
        /\ UNCHANGED <<npids, nlines>>

\* check goes on with its next test.
check_run_one(p) ==
    [p EXCEPT !.file = Head(p.tests), !.todo = Test(Head(p.tests)), !.tests = Tail(@)]

EndOfBuiltin(pid) ==
    LET p == procs[pid]
    IN  /\ p.pc = "builtin" /\ p.todo = <<>>
        /\ Set(pid, IF p.tests = <<>> THEN EndBuiltin(p) ELSE check_run_one(p))
        /\ UNCHANGED <<tmp, npids, nlines>>

\* Duplicates of the three streams as the redirect map of a nested command.
RECURSIVE DupStreams(_, _, _)
DupStreams(p, io, d) ==
    IF d > 2 \/ Free(p) = {} THEN p
    ELSE DupStreams(add_redirect(Opened(p, p.fds[io[d]]), Min(Free(p)), d), io, d + 1)

Nested(p) == DupStreams([p EXCEPT !.map = <<>>], p.io, 0)

\* repeat <n> command: todo is <<n, command>>.  When a dup fails it returns, and leaves
\* the duplicates it has made.
Again(p, q) ==
    IF Len(q.map) < 3 THEN EndBuiltin([q EXCEPT !.lost = @ \cup Sources(q.map), !.map = p.map])
    ELSE [q EXCEPT !.pc = "execute", !.cmd = p.todo[2],
                   !.stack = Append(@, [todo |-> <<p.todo[1] - 1, p.todo[2]>>, map |-> p.map,
                                        io |-> p.io, cmd |-> p.cmd])]

repeat(pid) ==
    LET p == procs[pid]
    IN  /\ p.pc = "repeat"
        /\ Set(pid, IF p.todo[1] <= 0 THEN EndBuiltin(p) ELSE Again(p, Nested(p)))
        /\ UNCHANGED <<tmp, npids, nlines>>

\* parallel returns at once when a command is empty.  It forks a child for each, which
\* executes it and exits, and then waits as often as it called fork.
ParallelChild(pid, p) ==
    LET q == Child(pid, Nested(p), "execute")
    IN  IF Len(q.map) < 3 THEN [q EXCEPT !.pc = "exited"] ELSE [q EXCEPT !.cmd = Head(p.todo)]

parallel(pid) ==
    LET p == procs[pid]
    IN  /\ p.pc = "parallel"
        /\ IF p.waits = 0 /\ (p.todo = <<>> \/ <<>> \in ToSet(p.todo))
           THEN Set(pid, EndBuiltin(p)) /\ UNCHANGED npids
           ELSE IF p.todo = <<>>
           THEN Set(pid, [p EXCEPT !.pc = "wait"]) /\ UNCHANGED npids
           ELSE fork(pid, [p EXCEPT !.todo = Tail(@), !.waits = @ + 1], ParallelChild(pid, p))
        /\ UNCHANGED <<tmp, nlines>>
-----------------------------------------------------------------------------
ShInit ==
    /\ procs = (Shell :> NewProcess(0))
    /\ tmp = {}
    /\ npids = 1
    /\ nlines = 0

ShNext ==
    \/ \E pid \in DOMAIN procs : main(pid) \/ parse_redirects(pid) \/ parse(pid)
    \/ \E pid \in DOMAIN procs : execute_builtin(pid) \/ execute(pid) \/ wait(pid)
    \/ \E pid \in DOMAIN procs : do_redirect(pid) \/ Program(pid)
    \/ \E pid \in DOMAIN procs : builtin(pid) \/ EndOfBuiltin(pid) \/ repeat(pid) \/ parallel(pid)
-----------------------------------------------------------------------------
(***************************************************************************)
(* Properties.                                                             *)
(***************************************************************************)
\* At the prompt the shell has its three standard streams as they were, no mapping (but
\* those that munmap refused to take away), no child left to wait for, and no other
\* descriptor but the ones given up: those of a line rejected after its first redirection
\* or without a command, the source of a cp whose destination cannot be opened, and the
\* duplicates of a repeat that runs out of descriptors.
PromptIsClean ==
    LET p == procs[Shell]
    IN  (Shell \in DOMAIN procs /\ p.pc = "prompt") =>
            /\ \A d \in 0 .. 2 : p.fds[d] = "tty"
            /\ \A d \in 3 .. NFILES - 1 : p.fds[d] # Closed <=> d \in p.lost
            /\ ~p.mapped /\ p.held = <<>> /\ p.stack = <<>>
            /\ Kids(Shell) = {}

\* Known deviation: a check that fails to unmap keeps its mapping for good.
NoMappingStays == ~procs[Shell].stuck

\* Lines that name the descriptors 0 to 2 only.
Plain(line) ==
    \A i \in DOMAIN line.redirs : Dfd(line.redirs[i]) <= 2 /\ (line.redirs[i].dup => line.redirs[i].n <= 2)
\* What the line names for a standard stream.
Named(line, d) ==
    LET rs == {i \in DOMAIN line.redirs : Dfd(line.redirs[i]) = d}
    IN  IF rs = {} \/ line.redirs[Max(rs)].dup THEN "tty" ELSE line.redirs[Max(rs)].path

\* A program, and a built-in through its ioenv, finds on each standard stream what the
\* last redirection of that stream names, the terminal when there is none, also below
\* repeat and parallel and whatever the order of the redirections: do_redirect never
\* overwrites a source it still needs.  Of plain lines only.
StreamsAreTheNamedOnes ==
    \A pid \in DOMAIN procs :
        LET p == procs[pid]
        IN  Plain(p.line) =>
                /\ p.pc = "program" => /\ \A d \in 0 .. 2 : p.fds[d] = Named(p.line, d)
                                       /\ \A d \in Sources(p.map) : p.fds[d] = Closed
                /\ p.pc = "builtin" => \A d \in 0 .. 2 : p.fds[p.io[d]] = Named(p.line, d)
=============================================================================
