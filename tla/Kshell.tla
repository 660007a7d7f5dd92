------------------------------- MODULE Kshell --------------------------------
(***************************************************************************)
(* The kernel shell (test/kshell): tokens, redirection, the argument       *)
(* vector, the lookup of commands by prefix, and the descriptors it opens  *)
(* and closes around each command.                                         *)
(*                                                                         *)
(* The line is parsed in place: a redirection is overwritten with spaces   *)
(* and arguments are ended with null bytes, so a line is a sequence of     *)
(* characters here.  Contents of files are left out.                       *)
(***************************************************************************)
EXTENDS Integers, SequencesExt

CONSTANTS KSH_BUF_SIZE, KSH_MAX_ARGS,
          KshNFILES,        \* descriptors of the process
          KshCommands,      \* kshell_commands_list: [name, func], in order of registration
          KshLines,         \* lines that can be typed, without the newline
          KshOpen,          \* sets of descriptors in use before the shell is made
          MaxKshLines       \* bound: lines read

(* The line discipline hands over lines much shorter than either limit.    *)
ASSUME LineAssumption ==
    \A line \in KshLines : Len(line) < KSH_BUF_SIZE /\ Len(line) < 2 * KSH_MAX_ARGS

VARIABLES ksh, kfds, nksh

kshVars == <<ksh, kfds, nksh>>

-----------------------------------------------------------------------------
(* Tokens.                                                                 *)
EOL == "EOL"
IsBlank(c) == c = " "
CharAt(buf, i) == IF i <= Len(buf) THEN buf[i] ELSE EOL

RECURSIVE SkipBlanks(_, _)
SkipBlanks(buf, i) == IF IsBlank(CharAt(buf, i)) THEN SkipBlanks(buf, i + 1) ELSE i

RECURSIVE EndOfWord(_, _)
EndOfWord(buf, i) ==
    IF IsBlank(CharAt(buf, i)) \/ CharAt(buf, i) \in {"<", ">", EOL} THEN i ELSE EndOfWord(buf, i + 1)

KToken(type, text, len, count) == [type |-> type, text |-> text, len |-> len, count |-> count]

(* count is what the caller advances by.  For a redirection it leaves out  *)
(* the blanks before it.                                                   *)
TokenFrom(buf, at, i) ==
    CASE CharAt(buf, i) = EOL -> KToken("EOL", i, 0, 0)
      [] CharAt(buf, i) = "<" -> KToken("IN", i, 1, 1)
      [] CharAt(buf, i) = ">" /\ CharAt(buf, i + 1) = ">" -> KToken("APPEND", i, 2, 2)
      [] CharAt(buf, i) = ">" /\ CharAt(buf, i + 1) # ">" -> KToken("OUT", i, 1, 1)
      [] OTHER -> KToken("WORD", i, EndOfWord(buf, i) - i, EndOfWord(buf, i) - at)

kshell_next_token(buf, at) == TokenFrom(buf, at, SkipBlanks(buf, at))

\* Mutant: the last character of a token stays.
kshell_scrub_token_short(buf, t) ==
    [i \in DOMAIN buf |-> IF t.text <= i /\ i < t.text + t.len - 1 THEN " " ELSE buf[i]]

kshell_scrub_token(buf, t) ==
    [i \in DOMAIN buf |-> IF t.text <= i /\ i < t.text + t.len THEN " " ELSE buf[i]]

-----------------------------------------------------------------------------
(* Redirections: names of the files, the last one of each kind counts.     *)
NoRedirects == [rin |-> <<>>, rout |-> <<>>, append |-> FALSE, error |-> FALSE]

WithRedirect(red, type, name) ==
    IF type = "IN" THEN [red EXCEPT !.rin = name]
    ELSE [red EXCEPT !.rout = name, !.append = (type = "APPEND")]

RECURSIVE FindRedirection(_, _, _)
FindAfter(buf, at, op, word, red) ==
    IF word.type # "WORD" THEN [buf |-> buf, red |-> [red EXCEPT !.error = TRUE]]
    ELSE FindRedirection(kshell_scrub_token(buf, word), at,
                         WithRedirect(red, op.type, SubSeq(buf, word.text, word.text + word.len - 1)))
FindWith(buf, at, t, red) ==
    CASE t.type = "EOL"  -> [buf |-> buf, red |-> red]
      [] t.type = "WORD" -> FindRedirection(buf, at + t.count, red)
      [] OTHER -> LET scrubbed == kshell_scrub_token(buf, t)
                  IN FindAfter(scrubbed, at + t.count, t,
                               kshell_next_token(scrubbed, at + t.count), red)
FindRedirection(buf, at, red) == FindWith(buf, at, kshell_next_token(buf, at), red)

kshell_find_redirection(line) == FindRedirection(line, 1, NoRedirects)

-----------------------------------------------------------------------------
(* The arguments.  ok is FALSE when an assertion of kshell_find_next_arg   *)
(* fails or an argument goes past the vector.                              *)
RECURSIVE ArgsFrom(_, _, _)
NextArg(buf, t, args) ==
    CASE t.type = "EOL" -> [args |-> args, ok |-> TRUE]
      [] t.type # "WORD" \/ Len(args) >= KSH_MAX_ARGS -> [args |-> args, ok |-> FALSE]
      [] OTHER -> ArgsFrom([i \in DOMAIN buf |-> IF i = t.text + t.len THEN EOL ELSE buf[i]],
                           t.text + t.len + 1,
                           Append(args, SubSeq(buf, t.text, t.text + t.len - 1)))
ArgsFrom(buf, at, args) == NextArg(buf, kshell_next_token(buf, at), args)

kshell_get_args(buf) == ArgsFrom(buf, 1, <<>>)

(* strncmp over the length of what was typed: any start of a name will do. *)
kshell_lookup_command(name) ==
    LET found == {i \in DOMAIN KshCommands : IsPrefix(name, KshCommands[i].name)}
    IN IF found = {} THEN "none" ELSE KshCommands[Min(found)].func

ExitName == LET i == CHOOSE i \in DOMAIN KshCommands : KshCommands[i].func = "exit"
            IN KshCommands[i].name

-----------------------------------------------------------------------------
(* The file calls, as the shell uses them: the lowest free descriptor or   *)
(* an error (-1).  do_open for writing unlinks a file and makes it again,  *)
(* even for >> (O_CREAT and O_APPEND together are neither to it); when one *)
(* of the two fails it puts the file of a descriptor that has none yet,    *)
(* and the assertion of fput stops the kernel (Stop).                      *)
FreeFds(fds) == (0 .. KshNFILES - 1) \ fds
Stop == -2

ksh_open(fds) ==
    {[fd |-> -1, fds |-> fds]} \cup
        (IF FreeFds(fds) = {} THEN {} ELSE {[fd |-> Min(FreeFds(fds)), fds |-> fds \cup {Min(FreeFds(fds))}]})

ksh_open_out(fds) ==
    ksh_open(fds) \cup (IF FreeFds(fds) = {} THEN {} ELSE {[fd |-> Stop, fds |-> fds]})

ksh_close(fds, fd) == fds \ {fd}

(* What a command leaves: its result (ok is any from 0 up) and the open    *)
(* descriptors.                                                            *)
CmdResult(ret, fds) == [ret |-> ret, fds |-> fds]

(* Every command prints, the answer or a complaint.  kshell_write panics   *)
(* when only part is written: a terminal takes all of it, a file only what *)
(* is left of its page (ramfs_write).                                      *)
kshell_write(k, fds, results) ==
    results \cup (IF k.out # k.fd THEN {CmdResult("stopped", fds)} ELSE {})

kshell_help(fds)  == {CmdResult("ok", fds)}
kshell_echo(fds)  == {CmdResult("ok", fds)}
kshell_exit(fds)  == {CmdResult("panic", fds)}

(* A file that cannot be opened is skipped, an error in it is reported.    *)
RECURSIVE kshell_cat(_, _)
kshell_cat(fds, files) ==
    IF files <= 0 THEN {CmdResult("ok", fds)}
    ELSE UNION {kshell_cat(IF o.fd = -1 THEN o.fds ELSE ksh_close(o.fds, o.fd), files - 1)
                  : o \in ksh_open(fds)}

(* With two directories the assertion argc == 1 fails; an error of stat    *)
(* other than ENOENT, or of reading the directory, is returned.            *)
kshell_ls(fds, argc) ==
    CASE argc > 3 -> {CmdResult("ok", fds)}
      [] argc = 3 -> {CmdResult("panic", fds)}
      [] OTHER    -> (IF argc = 2 THEN {CmdResult("error", fds), CmdResult("ok", fds)} ELSE {}) \cup
                     UNION {IF o.fd = -1 THEN {CmdResult("ok", o.fds)}
                            ELSE {CmdResult(r, ksh_close(o.fds, o.fd)) : r \in {"ok", "error"}}
                              : o \in ksh_open(fds)}

(* cd, rm and link report an error and return 0; rmdir, mkdir and stat     *)
(* return 1 for one.  None of them opens a file.                           *)
kshell_cd(fds)    == {CmdResult("ok", fds)}
kshell_rm(fds)    == {CmdResult("ok", fds)}
kshell_link(fds)  == {CmdResult("ok", fds)}
kshell_rmdir(fds) == {CmdResult("ok", fds)}
kshell_mkdir(fds) == {CmdResult("ok", fds)}
kshell_stat(fds)  == {CmdResult("ok", fds)}

kc_cmd_func(func, fds, argc) ==
    CASE func = "none"  -> {CmdResult("ok", fds)}
      [] func = "help"  -> kshell_help(fds)
      [] func = "echo"  -> kshell_echo(fds)
      [] func = "exit"  -> kshell_exit(fds)
      [] func = "cat"   -> kshell_cat(fds, argc - 1)
      [] func = "ls"    -> kshell_ls(fds, argc)
      [] func = "cd"    -> kshell_cd(fds)
      [] func = "rm"    -> kshell_rm(fds)
      [] func = "link"  -> kshell_link(fds)
      [] func = "rmdir" -> kshell_rmdir(fds)
      [] func = "mkdir" -> kshell_mkdir(fds)
      [] func = "stat"  -> kshell_stat(fds)

-----------------------------------------------------------------------------

kshell_undirect(k, fds) ==
    [k   |-> [k EXCEPT !.in = k.fd, !.out = k.fd],
     fds |-> fds \ ({k.in, k.out} \ {k.fd})]

(* how it went: ok, error or stopped.                                      *)
HowOpened(fd) == CASE fd = -1 -> "error" [] fd = Stop -> "stopped" [] OTHER -> "ok"

RedirectIn(k, fds) ==
    IF k.red.rin = <<>> THEN {[k |-> k, fds |-> fds, how |-> "ok"]}
    ELSE {[k |-> IF o.fd < 0 THEN k ELSE [k EXCEPT !.in = o.fd], fds |-> o.fds, how |-> HowOpened(o.fd)]
            : o \in ksh_open(fds)}

RedirectOut(k, fds) ==
    IF k.red.rout = <<>> THEN {[k |-> k, fds |-> fds, how |-> "ok"]}
    ELSE {[k |-> IF o.fd < 0 THEN k ELSE [k EXCEPT !.out = o.fd], fds |-> o.fds, how |-> HowOpened(o.fd)]
            : o \in ksh_open_out(fds)}

kshell_redirect(k, fds) ==
    UNION {IF i.how = "ok" THEN RedirectOut(i.k, i.fds) ELSE {i} : i \in RedirectIn(k, fds)}

-----------------------------------------------------------------------------
NoKshLine == [line |-> <<>>, buf |-> <<>>, red |-> NoRedirects, args |-> <<>>, ok |-> TRUE, next |-> "prompt"]

KshellInit ==
    /\ kfds \in KshOpen
    /\ ksh = NoKshLine @@ [pc |-> "none", fd |-> -1, in |-> -1, out |-> -1, before |-> kfds]
    /\ nksh = 0

kshell_create ==
    /\ ksh.pc = "none"
    /\ \E o \in ksh_open(kfds) :
          /\ kfds' = o.fds
          /\ ksh' = IF o.fd = -1 THEN [ksh EXCEPT !.pc = "gone"]
                    ELSE [ksh EXCEPT !.pc = "prompt", !.fd = o.fd, !.in = o.fd, !.out = o.fd]
    /\ UNCHANGED nksh

kshell_destroy ==
    /\ ksh.pc = "ended"
    /\ kfds' = ksh_close(kfds, ksh.fd)
    /\ ksh' = [ksh EXCEPT !.pc = "gone"]
    /\ UNCHANGED nksh

(* kshell_execute_next: an empty line is read again, end of file or an     *)
(* error ends the shell, and otherwise the redirections are found.         *)
kshell_read ==
    /\ ksh.pc = "prompt"
    /\ \/ /\ ksh' = [ksh EXCEPT !.pc = "ended"]
          /\ UNCHANGED nksh
       \/ /\ nksh < MaxKshLines /\ nksh' = nksh + 1
          /\ \E line \in KshLines :
                ksh' = IF line = <<>> THEN ksh
                       ELSE LET f == kshell_find_redirection(line)
                            IN [ksh EXCEPT !.pc = IF f.red.error THEN "done" ELSE "redirect",
                                           !.line = line, !.buf = f.buf, !.red = f.red]
    /\ UNCHANGED kfds

redirect ==
    /\ ksh.pc = "redirect"
    /\ \E r \in kshell_redirect(ksh, kfds) :
          \/ /\ r.how = "ok"
             /\ ksh' = [r.k EXCEPT !.pc = "command", !.args = kshell_get_args(r.k.buf).args,
                                   !.ok = kshell_get_args(r.k.buf).ok]
             /\ kfds' = r.fds
          \/ /\ r.how = "error"
             /\ LET u == kshell_undirect(r.k, r.fds)
                IN ksh' = [u.k EXCEPT !.pc = "done"] /\ kfds' = u.fds
          \/ /\ r.how = "stopped"
             /\ ksh' = [r.k EXCEPT !.pc = "stopped"] /\ kfds' = r.fds
    /\ UNCHANGED nksh

(* exit, and a command that fails, end the shell; a panic, of a command or *)
(* of what it calls (stopped), ends everything.                            *)
Executed(k, fds) ==
    CASE k.args = <<>> -> {CmdResult("ok", fds)}
      [] k.args # <<>> /\ IsPrefix(k.args[1], ExitName) -> {CmdResult("exit", fds)}
      [] OTHER -> kshell_write(k, fds, kc_cmd_func(kshell_lookup_command(k.args[1]), fds, Len(k.args)))

command ==
    /\ ksh.pc = "command"
    /\ \E r \in Executed(ksh, kfds) :
          /\ ksh' = [ksh EXCEPT !.pc = IF r.ret \in {"panic", "stopped"} THEN r.ret ELSE "done",
                               !.next = IF r.ret = "ok" THEN "prompt" ELSE "ended"]
          /\ kfds' = r.fds
    /\ UNCHANGED nksh

(* done: whatever happened, the streams are the terminal again.            *)
done ==
    /\ ksh.pc = "done"
    /\ LET u == kshell_undirect(ksh, kfds)
       IN ksh' = NoKshLine @@ [u.k EXCEPT !.pc = ksh.next] /\ kfds' = u.fds
    /\ UNCHANGED nksh

KshellNext == kshell_create \/ kshell_destroy \/ kshell_read \/ redirect \/ command \/ done

-----------------------------------------------------------------------------
(* The tokens of a line, by their places: a word is a longest run of other *)
(* characters, and a > is the first of an operator if an even number of    *)
(* them come right before it.                                              *)
Words(s) == {w \in (DOMAIN s) \X (DOMAIN s) :
                /\ w[1] <= w[2]
                /\ \A i \in w[1] .. w[2] : s[i] \notin {" ", "<", ">"}
                /\ w[1] > 1 => s[w[1] - 1] \in {" ", "<", ">"}
                /\ w[2] < Len(s) => s[w[2] + 1] \in {" ", "<", ">"}}

Operators(s) == {i \in DOMAIN s :
                    \/ s[i] = "<"
                    \/ s[i] = ">" /\ LET run == {j \in 0 .. i - 1 : \A k \in j + 1 .. i - 1 : s[k] = ">"}
                                     IN (i - 1 - Min(run)) % 2 = 0}

(* The word right after an operator, if a word is next.                    *)
TargetsOf(s, words, ops, op) ==
    {w \in words : /\ w[1] > op
                   /\ ~\E v \in words : op < v[1] /\ v[1] < w[1]
                   /\ ~\E o \in ops : op < o /\ o < w[1]}

TextOf(s, w) == SubSeq(s, w[1], w[2])

LastTarget(s, words, ops) ==
    IF ops = {} THEN <<>>
    ELSE TextOf(s, CHOOSE w \in words : w[1] > Max(ops) /\ ~\E v \in words : Max(ops) < v[1] /\ v[1] < w[1])

(* A typed line means what it says: when every operator is followed by a   *)
(* word, the last target of each kind is where input and output go (and    *)
(* what comes last decides whether output is appended), the                *)
(* other words are the arguments in their order, and no assertion of the   *)
(* argument scan fails; else the line is refused and nothing is opened.    *)
LineMeansWhatItSays ==
    ksh.pc \in {"redirect", "command", "done"} /\ ksh.line # <<>> =>
        LET s       == ksh.line
            words   == Words(s)
            ops     == Operators(s)
            targets == UNION {TargetsOf(s, words, ops, op) : op \in ops}
        IN /\ ksh.red.error = (\E op \in ops : TargetsOf(s, words, ops, op) = {})
           /\ ksh.ok
           /\ ~ksh.red.error =>
                 /\ ksh.red.rin = LastTarget(s, words, {op \in ops : s[op] = "<"})
                 /\ ksh.red.rout = LastTarget(s, words, {op \in ops : s[op] = ">"})
                 /\ ksh.red.rout # <<>> =>
                       ksh.red.append = (CharAt(s, Max({op \in ops : s[op] = ">"}) + 1) = ">")
           /\ ksh.pc = "command" =>
                 ksh.args = LET rest == SetToSortSeq(words \ targets, LAMBDA v, w : v[1] < w[1])
                            IN [i \in DOMAIN rest |-> TextOf(s, rest[i])]


(* Known deviation: a shell never stops the kernel.                        *)
ShellNeverPanics == ksh.pc \notin {"panic", "stopped"}

=============================================================================
