---------------------------------- MODULE Ed ---------------------------------
(***************************************************************************)
(* The text editor user/bin/ed.c: its buffer of lines, addresses, regular  *)
(* expressions and commands.                                               *)
(*                                                                         *)
(* The editor is one record, ed; an operator of the source's name maps an  *)
(* editor to the editor it leaves.  A pointer into the array of lines is   *)
(* its index (zero is 0) and NoAddr is the null pointer.  A line is the    *)
(* number tl under which putline stored its text; the mark bit 01 is       *)
(* membership in marked.  The text of a session fits one block of the      *)
(* temporary file.  What append adds to the word two ints below the array  *)
(* through corep, and meant for endcore, goes to whatever the linker put     *)
(* there and is left out.  errfunc prints ? and, with reset commented out, *)
(* lets the command go on with what it rejected, outside the array in many *)
(* cases; the model follows a session up to its first ?.                   *)
(***************************************************************************)
EXTENDS Integers, SequencesExt

CONSTANTS
    Commands,     \* the command lines typed, as records (see NoCommand)
    FileNames,    \* files that may be read and written
    FirstFiles,   \* what they hold at first: a function to sequences of lines
    NBRA,         \* bracketed subexpressions of a pattern
    MaxLines,     \* bound: lines of the buffer
    MaxCommands   \* bound: commands of a session

NoAddr == -100
Letters == {"a", "b"}

\* A command line: letter, addresses with what follows each (a comma or a semicolon),
\* pattern, replacement and its g, address of m and t, typed text, file name, mark,
\* whether p follows, and the command list of g and v.
NoCommand == [c |-> "p", a |-> <<>>, re |-> <<>>, rhs |-> <<>>, g |-> FALSE,
              to |-> <<>>, text |-> <<>>, f |-> "", x |-> "a", p |-> FALSE, cmds |-> <<>>]

VARIABLES
    ed,         \* the editor, and the files it reads and writes
    ncommands   \* commands given so far

edVars == <<ed, ncommands>>

Nothing == [c |-> "", ids |-> <<>>, text |-> <<>>, a1 |-> 0, a2 |-> 0, to |-> 0,
            marked |-> {}, ran |-> <<>>]

NewEditor(saved) ==
    [buf |-> <<>>, dot |-> 0, core |-> 0, text |-> <<>>, tline |-> 0, marked |-> {},
     names |-> [x \in Letters |-> -1], savedfile |-> saved, prog |-> <<>>, circfl |-> FALSE,
     addr1 |-> NoAddr, addr2 |-> NoAddr, inglob |-> FALSE, erred |-> FALSE, quit |-> FALSE,
     files |-> FirstFiles, last |-> Nothing, ran |-> <<>>]

error(e) == [e EXCEPT !.erred = TRUE]
Check(e, ok) == IF ok THEN e ELSE error(e)
dol(e) == Len(e.buf)
Texts(e) == [i \in DOMAIN e.buf |-> e.text[e.buf[i]]]
\* The array slot before the first line is never written and holds 0.
Slot(e, i) == IF i = 0 THEN 0 ELSE e.buf[i]
-----------------------------------------------------------------------------
(***************************************************************************)
(* Regular expressions.  expbuf is a sequence of elements.                 *)
(***************************************************************************)
El(op, c, set, n) == [op |-> op, c |-> c, set |-> set, n |-> n, star |-> FALSE]
BadPattern == <<>>

Star(prog) ==
    IF prog = <<>> \/ Last(prog).op \in {"CBRA", "CKET"} THEN BadPattern
    ELSE [prog EXCEPT ![Len(prog)].star = TRUE]

RECURSIVE Comp(_, _, _, _, _)

\* The class after a [ at i, negated when a ^ follows.
CompClass(p, i, from, prog, nbra, open) ==
    LET ends == {j \in from + 1 .. Len(p) : p[j] = "]"}
    IN  IF ends = {} THEN BadPattern
        ELSE Comp(p, Min(ends) + 1,
                  Append(prog, El(IF from = i + 1 THEN "CCL" ELSE "NCCL", "",
                                  {p[j] : j \in from .. Min(ends) - 1}, 0)), nbra, open)

CompEscape(p, c, i, prog, nbra, open) ==
    CASE c = "(" -> IF nbra >= NBRA THEN BadPattern
                    ELSE Comp(p, i + 2, Append(prog, El("CBRA", "", {}, nbra)), nbra + 1,
                              <<nbra>> \o open)
      [] c = ")" -> IF open = <<>> THEN BadPattern
                    ELSE Comp(p, i + 2, Append(prog, El("CKET", "", {}, Head(open))), nbra,
                              Tail(open))
      [] c \notin {"(", ")"} -> Comp(p, i + 2, Append(prog, El("CCHR", c, {}, 0)), nbra, open)

Comp(p, i, prog, nbra, open) ==
    IF i > Len(p) THEN Append(prog, El("CEOF", "", {}, 0))
    ELSE CASE p[i] = "\\" -> CompEscape(p, p[i + 1], i, prog, nbra, open)
           [] p[i] = "*"  -> IF Star(prog) = BadPattern THEN BadPattern
                             ELSE Comp(p, i + 1, Star(prog), nbra, open)
           [] p[i] = "["  -> CompClass(p, i, IF p[i + 1] = "^" THEN i + 2 ELSE i + 1,
                                       prog, nbra, open)
           [] p[i] = "."  -> Comp(p, i + 1, Append(prog, El("CDOT", "", {}, 0)), nbra, open)
           [] p[i] = "$" /\ i = Len(p) ->
                Comp(p, i + 1, Append(prog, El("CDOL", "", {}, 0)), nbra, open)
           [] OTHER -> Comp(p, i + 1, Append(prog, El("CCHR", p[i], {}, 0)), nbra, open)

\* An empty pattern is the last one.
Compiled(e, prog, circ) ==
    Check([e EXCEPT !.prog = prog, !.circfl = circ], prog # BadPattern)

compile(e, p) ==
    IF p = <<>> THEN Check(e, e.prog # BadPattern)
    ELSE IF p[1] = "^" THEN Compiled(e, Comp(p, 2, <<>>, 0, <<>>), TRUE)
    ELSE Compiled(e, Comp(p, 1, <<>>, 0, <<>>), FALSE)

\* Does one character of line, the one at lp, match el?  The end of the line is none.
One(line, lp, el) ==
    /\ lp <= Len(line)
    /\ CASE el.op = "CCHR" -> line[lp] = el.c
         [] el.op = "CDOT" -> TRUE
         [] el.op = "CCL"  -> line[lp] \in el.set
         [] el.op = "NCCL" -> line[lp] \notin el.set

\* How far a starred element can run from lp.
Run(line, lp, el) ==
    Max({q \in lp .. Len(line) + 1 : \A i \in lp .. q - 1 : One(line, i, el)})

NoMatch == [loc2 |-> 0, bra |-> <<>>]

\* Match the elements from k on at lp: where the match ends, and the brackets.  A star
\* takes as much as lets the rest match, and never nothing at locs.
RECURSIVE advance(_, _, _, _, _, _)
\* Mutant: the longest run or nothing.
BestOf_no_backtracking(found) ==
    IF DOMAIN found = {} THEN NoMatch ELSE found[Max(DOMAIN found)]

BestOf(found) ==
    IF \E q \in DOMAIN found : found[q] # NoMatch
    THEN found[Max({q \in DOMAIN found : found[q] # NoMatch})] ELSE NoMatch

advance(line, lp, prog, k, bra, locs) ==
    LET el == prog[k]
    IN  CASE el.op = "CEOF" -> [loc2 |-> lp, bra |-> bra]
          [] el.op = "CDOL" -> IF lp > Len(line) THEN advance(line, lp, prog, k + 1, bra, locs)
                               ELSE NoMatch
          [] el.op = "CBRA" -> advance(line, lp, prog, k + 1, [bra EXCEPT ![el.n].s = lp], locs)
          [] el.op = "CKET" -> advance(line, lp, prog, k + 1, [bra EXCEPT ![el.n].e = lp], locs)
          [] el.star -> BestOf([q \in (lp .. Run(line, lp, el)) \ {locs} |->
                                   advance(line, q, prog, k + 1, bra, locs)])
          [] OTHER -> IF One(line, lp, el) THEN advance(line, lp + 1, prog, k + 1, bra, locs)
                      ELSE NoMatch

NoBrackets == [n \in 0 .. NBRA - 1 |-> [s |-> 1, e |-> 1]]

\* The first match of the compiled pattern at or after from, a repeated search when
\* locs is not 0; loc1 = 0 when there is none.
Found(starts, ends) ==
    IF starts = {} THEN [loc1 |-> 0, loc2 |-> 0, bra |-> NoBrackets]
    ELSE [loc1 |-> Min(starts), loc2 |-> ends[Min(starts)].loc2, bra |-> ends[Min(starts)].bra]

FoundIn(ends) == Found({i \in DOMAIN ends : ends[i] # NoMatch}, ends)

Search(e, line, from, locs) ==
    FoundIn([i \in IF e.circfl THEN {from} ELSE from .. Len(line) + 1 |->
                advance(line, i, e.prog, 1, NoBrackets, locs)])

re_execute(e, i) == i # 0 /\ Search(e, e.text[e.buf[i]], 1, 0).loc1 # 0
-----------------------------------------------------------------------------
(***************************************************************************)
(* Addresses: a sequence of tokens [t, n, re, x].                          *)
(***************************************************************************)
\* Search forwards or backwards from dot, around the end and through line zero.
Around(e, forward) ==
    LET size == dol(e) + 1
        At(k) == IF forward THEN (e.dot + k) % size ELSE (e.dot + size - k) % size
        hits == {k \in 1 .. size : re_execute(e, At(k))}
    IN  IF hits = {} THEN NoAddr ELSE At(Min(hits))

MarkedBy(e, x) ==
    LET hits == {i \in 0 .. dol(e) : e.names[x] = Slot(e, i)}
    IN  IF hits = {} THEN dol(e) + 1 ELSE Min(hits)

\* One token: a1 and the pending signs in s.  Only the first token may be a place.
Place(s, a1) == [s EXCEPT !.a1 = a1, !.bad = @ \/ s.a1 # NoAddr \/ s.minus # 0 \/ a1 = NoAddr]

Token(e, s, tok) ==
    CASE tok.t = "num" -> [s EXCEPT !.a1 = (IF @ = NoAddr THEN 0 ELSE @)
                                            + (IF s.minus < 0 THEN -tok.n ELSE tok.n),
                                    !.minus = 0]
      [] tok.t = "+"   -> [s EXCEPT !.a1 = IF @ = NoAddr THEN e.dot ELSE @, !.minus = @ + 1]
      [] tok.t = "-"   -> [s EXCEPT !.a1 = IF @ = NoAddr THEN e.dot ELSE @, !.minus = @ - 1]
      [] tok.t = "/"   -> Place(s, Around(e, TRUE))
      [] tok.t = "?"   -> Place(s, Around(e, FALSE))
      [] tok.t = "$"   -> Place(s, dol(e))
      [] tok.t = "."   -> Place(s, e.dot)
      [] tok.t = "'"   -> Place(s, MarkedBy(e, tok.x))

\* The patterns of an address are compiled as they are met.
CompileIn(e, toks) ==
    FoldLeft(LAMBDA d, tok : IF tok.t \in {"/", "?"} THEN compile(d, tok.re) ELSE d, e, toks)

Total(s) == IF s.a1 = NoAddr THEN NoAddr ELSE s.a1 + s.minus

Located(e, toks) ==
    FoldLeft(LAMBDA s, tok : Token(e, s, tok), [a1 |-> NoAddr, minus |-> 0, bad |-> FALSE], toks)

\* The address in addr2; addr1 is left alone.
Addressed(e, s) ==
    IF Total(s) = NoAddr THEN e
    ELSE Check([e EXCEPT !.addr2 = Total(s)], ~s.bad /\ Total(s) \in 0 .. dol(e))

address(e, toks) == IF e.erred THEN e ELSE Addressed(e, Located(e, toks))

\* The addresses in front of a command: the last two count, and dot moves at a ;.
NextAddress(e, a) ==
    LET d == address([CompileIn(e, a.toks) EXCEPT !.addr1 = e.addr2], a.toks)
    IN  IF a.sep = ";" THEN [d EXCEPT !.dot = d.addr2] ELSE d

Addresses(e, list) ==
    LET d == FoldLeft(NextAddress, [e EXCEPT !.addr1 = NoAddr, !.addr2 = NoAddr], list)
    IN  IF d.addr1 = NoAddr THEN [d EXCEPT !.addr1 = d.addr2] ELSE d

setdot(e) ==
    LET d == IF e.addr2 = NoAddr THEN [e EXCEPT !.addr1 = e.dot, !.addr2 = e.dot] ELSE e
    IN  Check(d, d.addr1 <= d.addr2)

setall(e) ==
    setdot(IF e.addr2 # NoAddr THEN e
           ELSE [e EXCEPT !.addr1 = IF dol(e) = 0 THEN 0 ELSE 1, !.addr2 = dol(e)])

setnoaddr(e) == Check(e, e.addr2 = NoAddr)
nonzero(e) == Check(e, e.addr1 > 0 /\ e.addr2 <= dol(e))
-----------------------------------------------------------------------------
(***************************************************************************)
(* The commands.                                                           *)
(***************************************************************************)
\* Store a text: tline goes up by its length with the end, in two-byte units, even.
putline(e, line) ==
    [e EXCEPT !.text = (e.tline :> line) @@ @,
              !.tline = @ + 2 * ((Len(line) + 4) \div 4)]

\* Put lines behind line a; dot follows the last one.  endcore lies below the array and
\* is never moved, so every line asks for 1024 bytes more, 256 ints: core counts those.
append(e, lines, a) ==
    FoldLeft(LAMBDA d, line : [putline(d, line) EXCEPT !.buf = InsertAt(@, d.dot + 1, d.tline),
                                                      !.dot = @ + 1, !.core = @ + 256],
             [e EXCEPT !.dot = a], lines)

DeleteRange(e) ==
    [e EXCEPT !.buf = SubSeq(@, 1, e.addr1 - 1) \o SubSeq(@, e.addr2 + 1, Len(@)),
              !.dot = Min({e.addr1, dol(e) - (e.addr2 - e.addr1 + 1)})]

delete(e) == LET d == nonzero(setdot(e)) IN IF d.erred THEN d ELSE DeleteRange(d)

\* Mutant: the last line stays where it is.
reverse_but_last(buf, i, j) ==
    [k \in DOMAIN buf |-> IF i <= k /\ k < j - 1 THEN buf[i + j - 2 - k] ELSE buf[k]]

\* reverse the lines i .. j - 1.
reverse(buf, i, j) == [k \in DOMAIN buf |-> IF i <= k /\ k < j THEN buf[i + j - 1 - k] ELSE buf[k]]

\* Move lines ad1 .. ad2 - 1 behind line adt, with three reversals.
MoveRange(e, adt, ad1, ad2) ==
    IF adt + 1 = ad1 THEN [e EXCEPT !.dot = adt + (ad2 - ad1)]
    ELSE IF adt < ad1
    THEN [e EXCEPT !.dot = adt + (ad2 - ad1),
                   !.buf = reverse(reverse(reverse(@, adt + 1, ad1), ad1, ad2), adt + 1, ad2)]
    ELSE IF adt >= ad2
    THEN [e EXCEPT !.dot = adt,
                   !.buf = reverse(reverse(reverse(@, ad1, ad2), ad2, adt + 1), ad1, adt + 1)]
    ELSE error(e)

\* t copies the lines to the end of the buffer and moves the copies.
CopyRange(e, adt, size) ==
    MoveRange(append(e, SubSeq(Texts(e), e.addr1, e.addr2), size), adt, size + 1,
              size + (e.addr2 - e.addr1) + 2)

MoveTo(e, d, adt, cflag) ==
    IF adt = NoAddr \/ e.erred THEN error(e)
    ELSE IF cflag THEN CopyRange(d, adt, dol(d)) ELSE MoveRange(d, adt, d.addr1, d.addr2 + 1)

move(e, to, cflag) ==
    LET d == nonzero(setdot(e))
        f == address([CompileIn(d, to) EXCEPT !.addr2 = NoAddr], to)
    IN  IF d.erred THEN d
        ELSE MoveTo(f, [f EXCEPT !.addr1 = d.addr1, !.addr2 = d.addr2], f.addr2, cflag)

\* The replacement with what & and \1 stand for.
Replacement(line, m, rhs) ==
    FoldLeft(LAMBDA s, c :
        s \o CASE c = "&"   -> SubSeq(line, m.loc1, m.loc2 - 1)
               [] c = "\\1" -> SubSeq(line, m.bra[0].s, m.bra[0].e - 1)
               [] OTHER     -> <<c>>, <<>>, rhs)

\* dosub, and with g again on what follows; a pattern anchored to the start only once.
RECURSIVE Subst(_, _, _, _, _)
SubAgain(e, line, loc2, rhs, gsubf) ==
    IF gsubf /\ loc2 <= Len(line) /\ ~e.circfl
    THEN Subst(e, line, Search(e, line, loc2, loc2), rhs, gsubf) ELSE line

dosub(e, line, m, rhs, gsubf, new) ==
    SubAgain(e, SubSeq(line, 1, m.loc1 - 1) \o new \o SubSeq(line, m.loc2, Len(line)),
          m.loc1 + Len(new), rhs, gsubf)

Subst(e, line, m, rhs, gsubf) ==
    IF m.loc1 = 0 THEN line ELSE dosub(e, line, m, rhs, gsubf, Replacement(line, m, rhs))

\* Every newline in a replacement splits the line: putline stops at the first and leaves
\* the rest in linebp, from which getsub hands it to the next putline.
RECURSIVE SplitLine(_)
SplitLine(line) ==
    LET at == SelectInSeq(line, LAMBDA c : c = "\n")
    IN  IF at = 0 THEN <<line>>
        ELSE <<SubSeq(line, 1, at - 1)>> \o SplitLine(SubSeq(line, at + 1, Len(line)))

\* The first piece takes the place of line i, the rest goes behind it.
PutPieces(e, i, ls) ==
    append([putline(e, ls[1]) EXCEPT !.buf[i] = e.tline], Tail(ls), i)

RECURSIVE SubstLines(_, _, _, _, _)
SubstOne(e, i, last, rhs, gsubf, ls) ==
    SubstLines([PutPieces(e, i, ls) EXCEPT !.inglob = TRUE], i + Len(ls), last + Len(ls) - 1,
               rhs, gsubf)

SubstLines(e, i, last, rhs, gsubf) ==
    IF i > last THEN e
    ELSE IF ~re_execute(e, i) THEN SubstLines(e, i + 1, last, rhs, gsubf)
    ELSE LET line == e.text[e.buf[i]]
         IN  SubstOne(e, i, last, rhs, gsubf,
                      SplitLine(Subst(e, line, Search(e, line, 1, 0), rhs, gsubf)))

\* inglob: a command of g need not match.
substitute(e, cmd) ==
    LET d == compile(nonzero(setdot(e)), cmd.re)
        s == SubstLines(d, d.addr1, d.addr2, cmd.rhs, cmd.g)
    IN  IF d.erred THEN d
        ELSE [Check(s, s.inglob) EXCEPT !.inglob = e.inglob]

\* filename: the name given, or the one remembered.
NameOf(e, cmd) == IF cmd.f = "" THEN e.savedfile ELSE cmd.f
filename(e, cmd) ==
    Check([e EXCEPT !.savedfile = IF @ = "" THEN cmd.f ELSE @], NameOf(e, cmd) # "")

read(e, cmd) ==
    LET d == setall(filename(e, cmd))
    IN  IF d.erred \/ NameOf(e, cmd) \notin DOMAIN d.files THEN error(d)
        ELSE append(d, d.files[NameOf(e, cmd)], d.addr2)

write(e, cmd) ==
    LET d == filename(nonzero(setall(e)), cmd)
    IN  IF d.erred THEN d
        ELSE [d EXCEPT !.files = (NameOf(e, cmd) :> SubSeq(Texts(d), d.addr1, d.addr2)) @@ @]

\* init empties the buffer and starts the temporary file over; the marks stay.
init(e) == [e EXCEPT !.buf = <<>>, !.dot = 0, !.core = 0, !.text = <<>>, !.tline = 0,
                     !.marked = {}]

edit(e, cmd) ==
    read([init([setnoaddr(e) EXCEPT !.savedfile = ""]) EXCEPT !.addr1 = 0, !.addr2 = 0], cmd)

mark(e, x) ==
    LET d == nonzero(setdot(e)) IN IF d.erred THEN d ELSE [d EXCEPT !.names[x] = d.buf[d.addr2]]

show(e) == LET d == nonzero(setdot(e)) IN IF d.erred THEN d ELSE [d EXCEPT !.dot = d.addr2]

\* A bare newline prints the line addressed, or the next one.
ShowNext(e) ==
    show(LET a == IF e.addr2 = NoAddr THEN e.dot + 1 ELSE e.addr2
         IN  [e EXCEPT !.addr1 = a, !.addr2 = a])

insert(e, text) ==
    LET d == nonzero(setdot(e)) IN IF d.erred THEN d ELSE append(d, text, d.addr2 - 1)

change(e, text) ==
    LET d == delete(e) IN IF d.erred THEN d ELSE append(d, text, d.addr1 - 1)

addlines(e, text) == LET d == setdot(e) IN IF d.erred THEN d ELSE append(d, text, d.addr2)

RECURSIVE global(_, _, _)

Command(e, cmd) ==
    CASE cmd.c = "a" -> addlines(e, cmd.text)
      [] cmd.c = "c" -> change(e, cmd.text)
      [] cmd.c = "d" -> delete(e)
      [] cmd.c = "e" -> edit(e, cmd)
      [] cmd.c = "f" -> [setnoaddr(e) EXCEPT !.savedfile = IF cmd.f = "" THEN @ ELSE cmd.f]
      [] cmd.c = "g" -> global(e, cmd, TRUE)
      [] cmd.c = "v" -> global(e, cmd, FALSE)
      [] cmd.c = "i" -> insert(e, cmd.text)
      [] cmd.c = "k" -> mark(e, cmd.x)
      [] cmd.c = "m" -> move(e, cmd.to, FALSE)
      [] cmd.c = "t" -> move(e, cmd.to, TRUE)
      [] cmd.c = "p" -> show(e)
      [] cmd.c = ""  -> ShowNext(e)
      [] cmd.c = "q" -> [setnoaddr(e) EXCEPT !.quit = TRUE]
      [] cmd.c = "r" -> read(e, cmd)
      [] cmd.c = "s" -> substitute(e, cmd)
      [] cmd.c = "w" -> write(e, cmd)
      [] cmd.c = "=" -> setall(e)
      [] cmd.c = "!" -> setnoaddr(e)

\* One turn of commands(): the addresses, the command, and a p after it prints dot.
Printed(e, p) ==
    IF p /\ ~e.erred THEN show([e EXCEPT !.addr1 = e.dot, !.addr2 = e.dot]) ELSE e

Obeyed(e, cmd) == IF e.erred THEN e ELSE Printed(Command(e, cmd), cmd.p)
Turn(e, cmd) == IF e.erred THEN e ELSE Obeyed(Addresses(e, cmd.a), cmd)

\* Mark the lines of the range that match (do not match, for v), then give the command
\* list to the first marked line until none is left, from the start each time.
Marked(e, k) ==
    [e EXCEPT !.marked = {e.buf[i] : i \in {j \in e.addr1 .. e.addr2 : re_execute(e, j) = k}}]

RECURSIVE EachMarked(_, _)
MarkedLine(e, i, cmds) ==
    EachMarked(FoldLeft(Turn, [e EXCEPT !.marked = @ \ {e.buf[i]}, !.dot = i,
                                        !.ran = Append(@, e.buf[i])], cmds), cmds)

EachMarked(e, cmds) ==
    LET at == SelectInSeq(e.buf, LAMBDA tl : tl \in e.marked)
    IN  IF at = 0 \/ e.erred \/ e.quit THEN e ELSE MarkedLine(e, at, cmds)

GlobalEnd(e, marked) == [e EXCEPT !.inglob = FALSE, !.last.marked = marked]

GlobalFrom(e, cmds) == GlobalEnd(EachMarked(e, cmds), e.marked)

global(e, cmd, k) ==
    LET d == compile(nonzero(setall(Check(e, ~e.inglob))), cmd.re)
    IN  IF d.erred THEN d ELSE GlobalFrom([Marked(d, k) EXCEPT !.inglob = TRUE], cmd.cmds)
-----------------------------------------------------------------------------
\* main: with a file named on the command line the first command is r.
EdInit ==
    /\ \E saved \in {""} \cup FileNames :
         ed = IF saved = "" THEN NewEditor(saved) ELSE Turn(NewEditor(saved), [NoCommand EXCEPT !.c = "r"])
    /\ ncommands = 0

\* What the command found, for the properties.
Before(e, cmd) ==
    [e EXCEPT !.ran = <<>>,
              !.last = [Nothing EXCEPT !.c = cmd.c, !.ids = e.buf, !.text = Texts(e)]]

Target(d, to) == address([d EXCEPT !.addr2 = NoAddr], to).addr2

Forget(e, d, to) ==
    [e EXCEPT !.last.a1 = d.addr1, !.last.a2 = d.addr2, !.last.to = Target(d, to),
              !.addr1 = NoAddr, !.addr2 = NoAddr]

commands(cmd) ==
    /\ ~ed.erred /\ ~ed.quit /\ ncommands < MaxCommands
    /\ ed' = Forget(Turn(Before(ed, cmd), cmd), setdot(Addresses(ed, cmd.a)), cmd.to)
    /\ Len(ed'.buf) <= MaxLines
    /\ ncommands' = ncommands + 1

EdNext == \E cmd \in Commands : commands(cmd)
-----------------------------------------------------------------------------
(***************************************************************************)
(* Properties, of sessions without an error so far.                        *)
(***************************************************************************)
\* The lines of the buffer are texts of the temporary file, no line stands in it twice
\* (a mark and g would find the wrong one), no text overlaps another, and dot is a line
\* of the buffer or zero: what append, delete, reverse and s do to the array never
\* loses an entry or copies one.  No text has a newline in it, and the array of lines
\* stays below the break.
BufferIsSound ==
    /\ ed.dot \in 0 .. dol(ed)
    /\ dol(ed) > 0 => dol(ed) + 1 <= ed.core
    /\ \A tl \in DOMAIN ed.text : "\n" \notin ToSet(ed.text[tl])
    /\ \A i, j \in DOMAIN ed.buf : ed.buf[i] = ed.buf[j] => i = j
    /\ \A i \in DOMAIN ed.buf : ed.buf[i] \in DOMAIN ed.text
    /\ \A tl \in DOMAIN ed.text :
         /\ tl + (Len(ed.text[tl]) + 2) \div 2 <= ed.tline
         /\ \A u \in DOMAIN ed.text :
              u > tl => tl + (Len(ed.text[tl]) + 2) \div 2 <= u

\* block put into rest behind place to.
Spliced(block, rest, to) == SubSeq(rest, 1, to) \o block \o SubSeq(rest, to + 1, Len(rest))

\* m puts the lines addressed behind the target line, and t copies of them, in their
\* order, and leaves the others in theirs (move and its three reversals); dot is the last
\* line moved.
MoveAndCopyAreExact ==
    LET l == ed.last
        n == l.a2 - l.a1 + 1
        block(s) == SubSeq(s, l.a1, l.a2)
        others(s) == SubSeq(s, 1, l.a1 - 1) \o SubSeq(s, l.a2 + 1, Len(s))
        to == IF l.to < l.a1 THEN l.to ELSE l.to - n
    IN  /\ l.c = "m" => /\ ed.buf = Spliced(block(l.ids), others(l.ids), to)
                        /\ ed.dot = to + n
        /\ l.c = "t" => /\ Texts(ed) = Spliced(block(l.text), l.text, l.to)
                        /\ ed.dot = l.to + n

\* g and v give their command list exactly once to every line they marked that the list
\* has not deleted or replaced before its turn, to no other line, and leave no line
\* marked, although the list adds, moves, deletes and replaces lines while global scans
\* the array.
GlobalVisitsEachLineOnce ==
    ed.last.c \in {"g", "v"} =>
        /\ \A i, j \in DOMAIN ed.ran : ed.ran[i] = ed.ran[j] => i = j
        /\ ToSet(ed.ran) \subseteq ed.last.marked
        /\ (ed.last.marked \ ToSet(ed.ran)) \cap ToSet(ed.buf) = {}
        /\ ed.marked \cap ToSet(ed.buf) = {}

\* Whatever commands were given before, the buffer holds each line once, m and t splice
\* exactly, and a global command visits each of its lines exactly once.
EditsAreExact ==
    ~ed.erred => BufferIsSound /\ MoveAndCopyAreExact /\ GlobalVisitsEachLineOnce

\* Where a match of the elements from k on that starts at i can end, from the meaning of
\* the elements alone.  In a repeated search a starred element at locs may not be empty.
RECURSIVE Ends(_, _, _, _, _)
Ends(line, i, prog, k, locs) ==
    LET el == prog[k]
    IN  CASE el.op = "CEOF" -> {i}
          [] el.op \in {"CBRA", "CKET"} -> Ends(line, i, prog, k + 1, locs)
          [] el.op = "CDOL" -> IF i = Len(line) + 1 THEN Ends(line, i, prog, k + 1, locs) ELSE {}
          [] OTHER -> (IF el.star /\ i # locs THEN Ends(line, i, prog, k + 1, locs) ELSE {})
                      \cup (IF One(line, i, el)
                            THEN Ends(line, i + 1, prog, IF el.star THEN k ELSE k + 1, locs)
                            ELSE {})

\* The search of line finds what Ends allows: the leftmost, with an end it can have.
FindsLeftmost(line, locs, ends(_)) ==
    LET from == Max({1, locs})
        m == Search(ed, line, from, locs)
        starts == {i \in IF ed.circfl THEN {from} ELSE from .. Len(line) + 1 : ends(i) # {}}
    IN  /\ m.loc1 = IF starts = {} THEN 0 ELSE Min(starts)
        /\ starts # {} => m.loc2 \in ends(m.loc1)

\* Every text that was stored.
Searched == IF ed.erred \/ ed.prog = <<>> THEN {} ELSE {ed.text[tl] : tl \in DOMAIN ed.text}
\* Where a repeated search can start: substitute tests *loc2 and execute circfl.
Restarts(line) == IF ed.circfl THEN {} ELSE DOMAIN line

\* The first search of a line finds a match whenever there is one, the leftmost, and ends
\* it where the pattern can end: greedy stars with backtracking lose no match.  The
\* repeated search of s///g, from the end of the last replacement on, does the same for
\* the matches in which no starred element is empty at its start (locs in advance): it
\* never finds an empty match there, which would make substitute loop, and loses none
\* further on.
SearchFindsLeftmost ==
    \A line \in Searched : \A locs \in {0} \cup Restarts(line) :
        FindsLeftmost(line, locs, LAMBDA i : Ends(line, i, ed.prog, 1, locs))

\* Known deviation: s/x*y/z/g leaves the second y of yy, although x*y matches it: the
\* x* in front may not be empty at locs.
RepeatedSearchLosesNoMatch ==
    \A line \in Searched : \A locs \in Restarts(line) :
        FindsLeftmost(line, locs, LAMBDA i : Ends(line, i, ed.prog, 1, 0) \ {locs})
=============================================================================
