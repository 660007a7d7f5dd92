----------------------------- MODULE MCServices -----------------------------
(***************************************************************************)
(* Instances of the parts that have no state in common: the user programs  *)
(* and the C library, and the kernel's loader, system call layer, shell,   *)
(* terminals, libraries and vnode cache.  A behaviour exercises one part;  *)
(* the others stay in an initial state.                                    *)
(***************************************************************************)
EXTENDS Malloc, Ed, Sh, Quad, Virtterm, Exec, Syscall, Printf, Kshell, Vnode

VARIABLE part

vars == <<part, mallocVars, edVars, shVars, quadVars, termVars, execVars, syscallVars,
          printfVars, kshVars, vnodeVars>>

-----------------------------------------------------------------------------
\* malloc: a chunk, a chunk of half a page, two pages, and a size whose last page
\* would be past the end of the address space.
MCMallocSizes == {3, 8, 20, 250}

-----------------------------------------------------------------------------
\* ed: commands, with addresses built from tokens.
Tok(t) == [t |-> t, n |-> 0, re |-> <<>>, x |-> "a"]
Num(n) == [Tok("num") EXCEPT !.n = n]
Lookup(t, re) == [Tok(t) EXCEPT !.re = re]
On(toks) == <<[toks |-> toks, sep |-> ""]>>
FromTo(from, sep, to) == <<[toks |-> from, sep |-> sep], [toks |-> to, sep |-> ""]>>
Line1 == <<Num(1)>>
Dollar == <<Tok("$")>>

EdCmd(c) == [NoCommand EXCEPT !.c = c]
EdCmdOn(c, a) == [NoCommand EXCEPT !.c = c, !.a = a]
TwoLines == <<<<"x", "y">>, <<"y", "x", "x">>>>

MCFirstFiles == "f" :> <<<<"x">>, <<"y", "x">>, <<>>>>

MCPatterns == { <<"x">>, <<"x", "*", "y">>, <<"^", "y">>, <<".", "$">>,
                <<"\\", "(", "x", "*", "\\", ")", "y", "*", "x">>, <<"[", "^", "x", "]">> }

MCCommands ==
    { [EdCmd("a") EXCEPT !.text = TwoLines],
      [EdCmdOn("a", On(<<Num(0)>>)) EXCEPT !.text = <<<<"y">>>>],
      [EdCmdOn("c", On(Dollar)) EXCEPT !.text = TwoLines],
      EdCmd("d"), [EdCmdOn("d", On(Line1)) EXCEPT !.p = TRUE],
      [EdCmd("e") EXCEPT !.f = "f"], [EdCmd("f") EXCEPT !.f = "g"],
      [EdCmdOn("i", On(Line1)) EXCEPT !.text = <<<<"x">>>>],
      [EdCmdOn("k", On(Dollar)) EXCEPT !.x = "a"], EdCmdOn("p", On(<<Tok("'")>>)),
      EdCmd(""), EdCmdOn("", On(<<Tok("-")>>)),
      EdCmd("q"), EdCmd("r"), EdCmd("w"), EdCmd("="), EdCmd("!"),
      EdCmdOn("p", On(<<Lookup("?", <<"y">>), Tok("+")>>)) }
    \cup {[EdCmdOn(c, a) EXCEPT !.to = to] :
            c \in {"m", "t"},
            a \in {On(Line1), FromTo(<<Num(2)>>, ",", Dollar), FromTo(Line1, ",", <<Num(2)>>),
                   FromTo(<<Lookup("/", <<"x">>)>>, ";", <<Tok("+")>>)},
            to \in {<<Num(0)>>, Dollar, <<Tok("."), Num(1)>>}}
    \cup {[EdCmdOn("s", FromTo(Line1, ",", Dollar)) EXCEPT !.re = re, !.rhs = rhs, !.g = g] :
            re \in MCPatterns, rhs \in {<<"y", "&">>, <<"x", "\n", "\\1">>}, g \in BOOLEAN}
    \cup {[EdCmd(c) EXCEPT !.re = re, !.cmds = <<cmd>>] :
            c \in {"g", "v"}, re \in {<<"x">>, <<"^", "y">>},
            cmd \in {EdCmd("d"), [EdCmd("m") EXCEPT !.to = <<Num(0)>>],
                     [EdCmd("t") EXCEPT !.to = Dollar],
                     [EdCmdOn("d", On(<<Tok("+")>>)) EXCEPT !.p = TRUE],
                     [EdCmd("s") EXCEPT !.re = <<"x">>, !.rhs = <<"\n">>]}}

-----------------------------------------------------------------------------
\* sh: redirections to files and to descriptors, and commands.
ToFile(type, dfd, path) == [type |-> type, dfd |-> dfd, dup |-> FALSE, n |-> 0, path |-> path]
ToFd(dfd, n) == [type |-> ">", dfd |-> dfd, dup |-> TRUE, n |-> n, path |-> ""]

MCRedirs == { <<>>,
              <<ToFile("<", -1, "a"), ToFile(">", 2, "b"), ToFd(-1, 2)>>,
              <<ToFile(">", 4, "a"), ToFile(">", -1, "b")>>,
              <<ToFd(2, 1), ToFile(">", -1, "a"), ToFile(">", 1, "b")>>,
              <<ToFile(">", -1, "a"), ToFd(2, 9)>> }

MCShCmds == { <<>>, <<"prog">>, <<"cat">>, <<"cat", "f", "g">>, <<"cp", "f", "g">>, <<"mv", "f", "g">>,
              <<"exit">>, <<"check", "all">>, <<"check", "unlink", "none", "unlink">>,
              <<"repeat", 2, <<"prog">>>>, <<"repeat", 2, <<"cat", "f">>>>,
              <<"parallel", <<"prog">>, <<"check", "unlink">>, <<"check", "unlink">>>>,
              <<"parallel", <<"prog">>, <<>>>>, <<"parallel", <<"repeat", 1, <<"prog">>>>, <<"prog">>>> }

\* All the tests of check only without redirections.
MCLines == {line \in [redirs : MCRedirs, cmd : MCShCmds] :
                line.cmd = <<"check", "all">> => line.redirs = <<>>}

-----------------------------------------------------------------------------
\* exec: programs with and without data, with interpreters, and what is none.
Seg(vaddr, off, filesz, memsz, w) ==
    [vaddr |-> vaddr, off |-> off, filesz |-> filesz, memsz |-> memsz, write |-> w,
     align |-> PAGE_SIZE]
ProgramOf(segs, interps) == [kind |-> "reg", elf |-> TRUE, segs |-> segs, interps |-> interps,
                            cut |-> {}]
NoProgram(kind) == [kind |-> kind, elf |-> FALSE, segs |-> <<>>, interps |-> <<>>, cut |-> {}]
Cut(file, parts) == [file EXCEPT !.cut = parts]
TextSeg == Seg(128, 0, 20, 20, FALSE)

MCFiles ==
    ("hello" :> ProgramOf(<<TextSeg>>, <<>>)) @@
    ("data"  :> ProgramOf(<<TextSeg, Seg(168, 24, 4, 40, TRUE)>>, <<>>)) @@
    ("dyn"   :> ProgramOf(<<TextSeg, Seg(192, 32, 0, 8, TRUE)>>, <<"ld">>)) @@
    ("ld"    :> ProgramOf(<<Seg(64, 0, 16, 16, FALSE)>>, <<>>)) @@
    ("nest"  :> ProgramOf(<<TextSeg>>, <<"dyn">>)) @@
    ("odd"   :> ProgramOf(<<TextSeg, Seg(132, 4, 4, 4, TRUE)>>, <<"ld", "ld">>)) @@
    ("over"  :> ProgramOf(<<TextSeg, Seg(112, 0, 64, 64, TRUE)>>, <<>>)) @@
    ("script" :> ProgramOf(<<TextSeg>>, <<"txt">>)) @@
    ("void"  :> Cut(NoProgram("reg"), {"header", "table", "name"})) @@
    ("torn"  :> Cut(ProgramOf(<<TextSeg>>, <<"void">>), {"table"})) @@
    ("shorn" :> Cut(ProgramOf(<<TextSeg>>, <<"ld">>), {"name"})) @@
    ("hollow" :> ProgramOf(<<TextSeg>>, <<"void">>)) @@ ("broken" :> ProgramOf(<<TextSeg>>, <<"torn">>)) @@
    ("txt"   :> NoProgram("reg")) @@ ("dir" :> NoProgram("dir")) @@ ("tty" :> NoProgram("chr"))

MCArgLists == { [argv |-> <<>>, envp |-> <<>>], [argv |-> <<2, 1>>, envp |-> <<1>>],
                [argv |-> <<2, 6, 9>>, envp |-> <<9>>] }

-----------------------------------------------------------------------------
\* printf: every combination of flags, width, precision and qualifier, with the
\* numbers at the limits of the widths.
Item(flags, width, precision, qualifier, conv) ==
    [flags |-> flags, width |-> width, star |-> FALSE, precision |-> precision,
     qualifier |-> qualifier, conv |-> conv, ch |-> ""]
Lit(c) == [Item({}, -1, -1, "", "lit") EXCEPT !.ch = c]
PlainItem(conv) == Item({}, -1, -1, "", conv)
Numbers == {0, 1, 7, 8, 9, 15, 31, 32, 63}

MCConversions ==
    {[fmt |-> <<Item(f, w, p, q, c)>>, args |-> <<v>>] :
        f \in SUBSET {"LEFT", "PLUS", "SPACE", "SPECIAL", "ZEROPAD"}, w \in {-1, 3}, p \in {-1, 2},
        q \in {"", "h", "l", "L", "Z"}, c \in {"d", "i", "u", "o", "x", "X"}, v \in Numbers}
    \cup {[fmt |-> <<PlainItem("s"), Lit(" "), PlainItem("d")>>, args |-> <<<<"a", "b">>, 0, v>>] :
            v \in Numbers}
    \cup {[fmt |-> <<Item(f, 3, -1, q, "x"), Lit(" "), Item(g, 3, p, "", c)>>, args |-> <<v, 0, 63 - v>>] :
            f, g \in {{}, {"ZEROPAD"}, {"LEFT"}}, p \in {-1, 2}, q \in {"", "L"},
            c \in {"d", "u", "p"}, v \in {7, 32}}
    \cup {[fmt |-> <<[PlainItem("d") EXCEPT !.star = TRUE, !.width = w], Lit(" "), PlainItem("u")>>,
           args |-> <<v, 0, v>>] : w \in {-2, 3}, v \in Numbers}
    \cup {[fmt |-> <<Item({}, 2, -1, "", "c"), PlainItem("n"), Lit("a"), PlainItem("%")>>,
           args |-> <<"a", 0, 0, 0>>]}

MCFormats ==
    {[fmt |-> <<Lit("a"), PlainItem("%"), PlainItem("n"), PlainItem("?")>>, args |-> <<0, 0, 0, 0>>],
     [fmt |-> <<PlainItem("p")>>, args |-> <<9>>],
     [fmt |-> <<Item({"LEFT"}, 2, -1, "", "c")>>, args |-> <<"a">>],
     [fmt |-> <<[Item({}, -3, -1, "", "s") EXCEPT !.star = TRUE]>>, args |-> <<<<"a", "b">>>>],
     [fmt |-> <<Item({}, -1, 1, "", "s")>>, args |-> <<NulChar>>],
     [fmt |-> <<Item({"ZEROPAD"}, 3, -1, "", "d")>>, args |-> <<15>>],
     [fmt |-> <<>>, args |-> <<>>]}

-----------------------------------------------------------------------------
\* virtual terminals: new ones, and one whose full buffer the cursor went back over.
MCFirstTexts == { <<>>, [i \in 1 .. 12 |-> IF i <= 5 THEN "nl" ELSE "bs"] }

\* kshell: commands whose names are prefixes of others, all short lines, and longer
\* ones with two blanks or two redirections.
KshCmd(name, func) == [name |-> name, func |-> func]
MCKshCommands ==
    <<KshCmd(<<"h">>, "help"), KshCmd(<<"e", "c">>, "echo"), KshCmd(<<"c">>, "cat"),
      KshCmd(<<"l">>, "ls"), KshCmd(<<"c", "e">>, "cd"), KshCmd(<<"c", "c">>, "rm"),
      KshCmd(<<"l", "e">>, "link"), KshCmd(<<"l", "c">>, "rmdir"), KshCmd(<<"l", "l">>, "mkdir"),
      KshCmd(<<"c", "l">>, "stat"), KshCmd(<<"e", "e">>, "exit")>>

KshChars == {" ", "<", ">", "e", "c", "l"}
MCKshLines ==
    UNION {[1 .. n -> KshChars] : n \in 0 .. 4}
    \cup {<<a, " ", b, " ", c>> : a, b, c \in KshChars \cup {"h"}}
    \cup {<<a, ">", " ", "e", b, "<", c>> : a, b, c \in KshChars}

MCKshOpen == {{}, {0, 1, 2}, {0, 2}}

-----------------------------------------------------------------------------
Parts == {"malloc", "ed", "sh", "quad", "virtterm", "exec", "syscall", "printf", "kshell", "vnode"}

Init ==
    /\ part \in Parts
    /\ MallocInit /\ ShInit /\ TermInit /\ ExecInit /\ SyscallInit /\ PrintfInit
    /\ part # "virtterm" => paper[0].far = 0
    /\ IF part = "ed" THEN EdInit ELSE ed = NewEditor("") /\ ncommands = 0
    /\ IF part = "quad" THEN QuadInit ELSE args = [a |-> 0, b |-> 1] /\ result = <<>>
    /\ VnodeInit /\ KshellInit /\ (part = "kshell" \/ kfds = {})

Next ==
    /\ UNCHANGED part
    /\ IF part = "malloc" THEN MallocNext ELSE UNCHANGED mallocVars
    /\ IF part = "ed" THEN EdNext ELSE UNCHANGED edVars
    /\ IF part = "sh" THEN ShNext ELSE UNCHANGED shVars
    /\ IF part = "quad" THEN QuadNext ELSE UNCHANGED quadVars
    /\ IF part = "virtterm" THEN TermNext ELSE UNCHANGED termVars
    /\ IF part = "exec" THEN ExecNext ELSE UNCHANGED execVars
    /\ IF part = "syscall" THEN SyscallNext ELSE UNCHANGED syscallVars
    /\ IF part = "printf" THEN PrintfNext ELSE UNCHANGED printfVars
    /\ IF part = "kshell" THEN KshellNext ELSE UNCHANGED kshVars
    /\ IF part = "vnode" THEN VnodeNext ELSE UNCHANGED vnodeVars

Spec == Init /\ [][Next]_vars
=============================================================================
