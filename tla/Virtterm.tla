------------------------------ MODULE Virtterm ------------------------------
(***************************************************************************)
(* The virtual terminals: drivers/tty/virtterm.c, with the screen it draws *)
(* on (screen.c) and the keyboard that drives it (keyboard.c).             *)
(*                                                                         *)
(* A terminal keeps its text in a circular buffer of some screens; head,   *)
(* tail and top are the beginnings of rows in it.  When a character comes, *)
(* the driver repaints the whole screen only if the top of it moved, and   *)
(* otherwise puts one cell.  The line discipline and the tty device above  *)
(* are not in this tree; what they do to a terminal is provide characters. *)
(*                                                                         *)
(* Every step is a whole handler: the tty device calls the driver with the *)
(* keyboard interrupt blocked (vt_block_io), and the keyboard handler      *)
(* runs to its end.                                                        *)
(*                                                                         *)
(* paper is not a variable of the code.  It is the text each terminal was  *)
(* ever given, on a roll with no end, where position p of the roll lies in *)
(* cell p % SCROLL_BUFSIZE of the buffer.  Nor is screen.stray, which tells *)
(* that since the last repaint a character was drawn below the last row.   *)
(***************************************************************************)
EXTENDS Integers, SequencesExt

CONSTANTS DISPLAY_WIDTH,
          DISPLAY_HEIGHT,
          ScrollScreens,   \* the buffer holds 5 screens
          NTERMS,
          Glyphs,     \* the displayable characters that are provided
          FirstTexts, \* what the first terminal may have been given at boot
          MaxChars    \* bound: characters provided to all the terminals

ASSUME DisplayAssumption == /\ DISPLAY_WIDTH \in Nat \ {0}
                            /\ DISPLAY_HEIGHT \in Nat \ {0}
                            /\ ScrollScreens \in Nat \ {0, 1}
                            /\ NTERMS \in Nat \ {0}

VARIABLES terms,     \* vt_terms
          curterm,   \* vt_curterm
          screen,    \* the video memory and the hardware cursor
          curmask,   \* the keyboard's modifiers that are down: ctrl
          paper,     \* history: the text of each terminal
          nchars

termVars == <<terms, curterm, screen, curmask, paper, nchars>>

NUL == "nul"
DISPLAY_SIZE == DISPLAY_WIDTH * DISPLAY_HEIGHT
SCROLL_BUFSIZE == ScrollScreens * DISPLAY_SIZE
Terminals == 0 .. NTERMS - 1

circ_dist(to, from) == (to - from + SCROLL_BUFSIZE) % SCROLL_BUFSIZE

next_row(i) == ((i \div DISPLAY_WIDTH + 1) * DISPLAY_WIDTH) % SCROLL_BUFSIZE

buf_add(ptr, amt) == (ptr + amt + SCROLL_BUFSIZE) % SCROLL_BUFSIZE

-----------------------------------------------------------------------------
(* The screen.                                                             *)

(* vt_redraw copies at most a screen, from top to the tail, in one piece   *)
(* or in two when the text wraps round the end of the buffer.              *)
FirstPart(vt) ==
    IF vt.top <= vt.tail THEN Min({vt.tail - vt.top, DISPLAY_SIZE})
                         ELSE Min({SCROLL_BUFSIZE - vt.top, DISPLAY_SIZE})

SecondPart(vt) ==
    IF vt.top <= vt.tail THEN 0
                         ELSE Min({vt.tail, DISPLAY_SIZE - FirstPart(vt)})

tempbuf(vt, first, second) ==
    [i \in 0 .. DISPLAY_SIZE - 1 |->
        IF i < first THEN vt.buf[vt.top + i]
        ELSE IF i < first + second THEN vt.buf[i - first]
        ELSE NUL]

screen_move_cursor(vt) == circ_dist(vt.cursor, vt.top)

vt_redraw(vt) ==
    [cells  |-> tempbuf(vt, FirstPart(vt), SecondPart(vt)),
     cursor |-> screen_move_cursor(vt),
     stray  |-> FALSE]

(* One character at its place.  A place below the last row is in video     *)
(* memory that is not shown.                                               *)
screen_putchar(cells, c, at) ==
    IF at \in DOMAIN cells THEN [cells EXCEPT ![at] = c] ELSE cells

-----------------------------------------------------------------------------
(* A character for a terminal.                                             *)

(* If the cursor is not on the screen, the screen is moved so that its     *)
(* last row is the cursor's.                                               *)
ShowCursor(vt) ==
    IF circ_dist(vt.cursor, vt.top) >= DISPLAY_SIZE
    THEN [vt EXCEPT !.top = buf_add(next_row(vt.cursor), -DISPLAY_SIZE)]
    ELSE vt

(* The cells between the old and the new tail.                             *)
Acquired(vt, new_tail) ==
    IF vt.tail <= new_tail THEN vt.tail .. new_tail - 1
    ELSE (vt.tail .. SCROLL_BUFSIZE - 1) \cup (0 .. new_tail - 1)

(* The tail moves past the cursor; a full buffer gives up the rows near    *)
(* its head.                                                               *)
AdvanceTail(vt, new_tail) ==
    [vt EXCEPT
        !.tail = new_tail,
        !.head = IF circ_dist(vt.tail, vt.head) >= circ_dist(vt.tail, new_tail)
                 THEN next_row(new_tail) ELSE @,
        !.buf  = [i \in DOMAIN vt.buf |->
                     IF i \in Acquired(vt, new_tail) THEN NUL ELSE vt.buf[i]]]

handle_tail(vt, new_cursor) ==
    IF circ_dist(new_cursor, vt.cursor) >= circ_dist(vt.tail, vt.cursor)
    THEN [AdvanceTail(vt, next_row(new_cursor)) EXCEPT !.cursor = new_cursor]
    ELSE [vt EXCEPT !.cursor = new_cursor]

vt_handle_char(vt, c) ==
    CASE c = "bs" -> IF vt.cursor # vt.head
                     THEN [vt EXCEPT !.cursor = buf_add(@, -1)] ELSE vt
      [] c = "cr" -> [vt EXCEPT !.cursor = (@ \div DISPLAY_WIDTH) * DISPLAY_WIDTH]
      [] c = "nl" -> handle_tail(vt, next_row(vt.cursor))
      [] OTHER    -> handle_tail([vt EXCEPT !.buf[vt.cursor] = c],
                                 buf_add(vt.cursor, 1))

(* One cell and the cursor; old is the terminal before the character and   *)
(* vt the terminal after it.                                               *)
DrawCell(old, vt, c, on) ==
    LET at == circ_dist(old.cursor, vt.top)
    IN  [cells  |-> IF c \in Glyphs THEN screen_putchar(on.cells, c, at) ELSE on.cells,
         cursor |-> screen_move_cursor(vt),
         stray  |-> on.stray \/ (c \in Glyphs /\ at >= circ_dist(old.tail, vt.top))]

\* Mutant: the screen is not repainted when the top moved.
DrawChar_one_cell(old, vt, c, on) == DrawCell(old, vt, c, on)

(* The screen is repainted only when the top moved.                        *)
DrawChar(old, vt, c, on) ==
    IF old.top # vt.top THEN vt_redraw(vt) ELSE DrawCell(old, vt, c, on)

-----------------------------------------------------------------------------
(* The roll of paper: what each character means, with no buffer.  stop is  *)
(* how far back a backspace may go.                                        *)
Typed(p, c, stop) ==
    CASE c = "bs" -> IF p.at # stop THEN [p EXCEPT !.at = @ - 1] ELSE p
      [] c = "cr" -> [p EXCEPT !.at = (@ \div DISPLAY_WIDTH) * DISPLAY_WIDTH]
      [] c = "nl" -> [p EXCEPT !.at  = (@ \div DISPLAY_WIDTH + 1) * DISPLAY_WIDTH,
                               !.far = Max({@, (p.at \div DISPLAY_WIDTH + 1) * DISPLAY_WIDTH})]
      [] OTHER    -> [p EXCEPT !.at = @ + 1, !.far = Max({@, p.at + 1}),
                               !.text = (p.at :> c) @@ @]

(* The first position after the last row of the roll.                      *)
EndOfPaper(p) == (p.far \div DISPLAY_WIDTH + 1) * DISPLAY_WIDTH

KeptFrom(vt, p) == EndOfPaper(p) - circ_dist(vt.tail, vt.head)

-----------------------------------------------------------------------------
(* The operations.                                                         *)

GivenTo(vt, c) == vt_handle_char(ShowCursor(vt), c)

(* What a character for terminal t makes of the terminals, the screen and  *)
(* the roll, all in s, when terminal cur is shown.                         *)
Provided(s, cur, t, c) ==
    LET old == s.terms[t]
        new == GivenTo(old, c)
    IN  [terms  |-> [s.terms EXCEPT ![t] = new],
         screen |-> IF t = cur THEN DrawChar(old, new, c, s.screen) ELSE s.screen,
         paper  |-> [s.paper EXCEPT ![t] = Typed(@, c, KeptFrom(old, @))]]

vt_init ==
    LET vt == [buf |-> [i \in 0 .. SCROLL_BUFSIZE - 1 |-> NUL],
               top |-> 0, cursor |-> 0, head |-> 0, tail |-> DISPLAY_WIDTH]
    IN  [terms  |-> [t \in Terminals |-> vt],
         screen |-> vt_redraw(vt),
         paper  |-> [t \in Terminals |-> [text |-> <<>>, at |-> 0, far |-> 0]]]

TermInit ==
    /\ \E text \in FirstTexts :
          LET s == FoldLeft(LAMBDA u, c : Provided(u, 0, 0, c), vt_init, text)
          IN  terms = s.terms /\ screen = s.screen /\ paper = s.paper
    /\ curterm = 0
    /\ curmask = {}
    /\ nchars = 0

provide_char(t, c) ==
    /\ nchars < MaxChars
    /\ nchars' = nchars + 1
    /\ LET s == Provided([terms |-> terms, screen |-> screen, paper |-> paper], curterm, t, c)
       IN  terms' = s.terms /\ screen' = s.screen /\ paper' = s.paper

(* A process writes a character to a terminal that need not be shown.      *)
vt_provide_char(t, c) ==
    /\ provide_char(t, c)
    /\ UNCHANGED <<curterm, curmask>>

ScrolledUp(vt, lines) ==
    IF circ_dist(vt.top, vt.head) < lines * DISPLAY_WIDTH THEN vt.head
    ELSE buf_add(vt.top, -lines * DISPLAY_WIDTH)

ScrolledDown(vt, lines) ==
    IF circ_dist(vt.tail, vt.top) < (lines + 1) * DISPLAY_WIDTH
    THEN buf_add(vt.tail, -DISPLAY_WIDTH)
    ELSE buf_add(vt.top, lines * DISPLAY_WIDTH)

vt_scroll(new_top) ==
    LET vt == [terms[curterm] EXCEPT !.top = new_top]
    IN  /\ terms' = [terms EXCEPT ![curterm] = vt]
        /\ screen' = vt_redraw(vt)
        /\ UNCHANGED <<curterm, paper, nchars>>

vt_switch(term) ==
    IF term \in Terminals
    THEN /\ curterm' = term
         /\ screen' = vt_redraw(terms[term])
         /\ UNCHANGED <<terms, paper, nchars>>
    ELSE UNCHANGED <<terms, curterm, screen, paper, nchars>>

(* A scancode: the press or the release of a key.  The escape codes 0xe0   *)
(* and 0xe1 have the break bit set, so the handler takes them for releases *)
(* of keys that do not matter.  The line discipline echoes a character to  *)
(* the terminal that is shown.  Shift changes only which letter is sent;   *)
(* with ctrl a letter is a control character, of which H, J and M are the  *)
(* backspace, the newline and the carriage return.                         *)
keyboard_intr_handler(key, break_code) ==
    IF break_code
    THEN /\ curmask' = curmask \ {key.kind}
         /\ UNCHANGED <<terms, curterm, screen, paper, nchars>>
    ELSE \/ /\ key.kind = "ctrl"
            /\ curmask' = curmask \cup {key.kind}
            /\ UNCHANGED <<terms, curterm, screen, paper, nchars>>
         \/ /\ key.kind = "function"
            /\ vt_switch(key.n)
            /\ UNCHANGED curmask
         \/ /\ key.kind = "nl" /\ "ctrl" \in curmask
            /\ vt_scroll(ScrolledDown(terms[curterm], DISPLAY_HEIGHT))
            /\ UNCHANGED curmask
         \/ /\ key.kind = "bs" /\ "ctrl" \in curmask
            /\ vt_scroll(ScrolledUp(terms[curterm], DISPLAY_HEIGHT))
            /\ UNCHANGED curmask
         \/ /\ key.kind \in Glyphs \cup {"nl", "bs"} /\ "ctrl" \notin curmask
            /\ provide_char(curterm, key.kind)
            /\ UNCHANGED <<curterm, curmask>>
         \/ /\ key.kind \in Glyphs /\ "ctrl" \in curmask
            /\ \E c \in Glyphs \cup {"bs", "cr", "nl"} : provide_char(curterm, c)
            /\ UNCHANGED <<curterm, curmask>>

(* n tells the function keys apart; one of them has no terminal.           *)
Keys == [kind : Glyphs \cup {"nl", "bs", "ctrl"}, n : {0}]
        \cup [kind : {"function"}, n : 0 .. NTERMS]

TermNext ==
    \/ \E t \in Terminals, c \in Glyphs \cup {"bs", "cr", "nl"} : vt_provide_char(t, c)
    \/ \E key \in Keys, break_code \in BOOLEAN : keyboard_intr_handler(key, break_code)

-----------------------------------------------------------------------------
\* The text a terminal still holds, from its head to its tail, is the end of the
\* text it was given, and it gives up old rows only when fewer than two of the
\* buffer's rows are free.
TerminalKeepsItsText(vt, p, kept) ==
    /\ vt.tail = EndOfPaper(p) % SCROLL_BUFSIZE
    /\ vt.cursor = p.at % SCROLL_BUFSIZE
    /\ p.at \in kept .. EndOfPaper(p) - 1
    /\ kept <= Max({0, EndOfPaper(p) - (SCROLL_BUFSIZE - 2 * DISPLAY_WIDTH)})
    /\ \A i \in Max({0, kept}) .. EndOfPaper(p) - 1 :
           vt.buf[i % SCROLL_BUFSIZE] = IF i \in DOMAIN p.text THEN p.text[i] ELSE NUL

\* The screen shows the terminal from its top row on, blank after the last row,
\* and the cursor at its place.  The exception: when a cursor that went back over
\* a nearly full buffer is shown below the last row, round the end of the buffer,
\* the characters typed there appear one by one among the blanks.
ScreenShows(vt) ==
    /\ \A i \in 0 .. DISPLAY_SIZE - 1 :
           LET here == vt.buf[(vt.top + i) % SCROLL_BUFSIZE]
           IN  IF i < circ_dist(vt.tail, vt.top) THEN screen.cells[i] = here
               ELSE screen.cells[i] = NUL \/ (screen.stray /\ screen.cells[i] = here)
    /\ screen.cursor = circ_dist(vt.cursor, vt.top)

\* Every terminal keeps the end of its text: moving the tail over the end of the
\* buffer and clearing what it gains never touches the text (vt_handle_char).
\* The screen shows the current one, although vt_provide_char mostly draws one
\* cell and not the screen, and whatever was scrolled and switched before.
ScreenShowsTheText ==
    /\ \A t \in Terminals : TerminalKeepsItsText(terms[t], paper[t], KeptFrom(terms[t], paper[t]))
    /\ ScreenShows(terms[curterm])

\* Known deviation: vt_provide_char and vt_scroll may put the top so near the tail,
\* or on it, that the cursor comes below the last row of the screen's text.
TypesIntoTheText == ~ screen.stray
=============================================================================
