------------------------------- MODULE Screen -------------------------------
(***************************************************************************)
(* The text screen (terminal.c).  The program in front prints through      *)
(* terminal_write and terminal_read, which run with interrupts enabled;    *)
(* between any two of their statements keyboard_handler may echo the line  *)
(* being typed from the place where the last output ended, clear the       *)
(* screen, or bring another terminal to the front.  scroll and the handler *)
(* run with interrupts off or with the keyboard still in service, and are  *)
(* single steps.  Rows and columns count from 0; the page of video memory  *)
(* is an array of cells, WIDTH to a row, with a few cells below the screen.*)
(***************************************************************************)
EXTENDS Integers, Sequences, FiniteSets

CONSTANTS
    WIDTH, HEIGHT,  \* terminal.h
    PAGE,           \* cells of the 4 KB page of video memory
    BUFF_LEN,       \* terminal.h
    Terminals,
    Typed,          \* characters of the key tables
    Texts,          \* what programs write: sequences of characters
    TORN_MAX,       \* bound on terminal switches inside a write or a read
    EVENTS_MAX      \* bound on keys and calls together

NUL == "nul"
NL == "nl"
BLANK == " "
BS == "bs"
Chars(w) == {w[n] : n \in 1 .. Len(w)}
Printable == (Typed \cup UNION {Chars(w) : w \in Texts} \cup {BLANK}) \ {NUL, NL, BS}
Cells == 0 .. PAGE - 1

ASSUME ScreenAssumption ==
    /\ WIDTH \in Nat \ {0} /\ HEIGHT \in Nat \ {0, 1}
    /\ PAGE \in Nat /\ PAGE >= WIDTH * HEIGHT
    /\ BUFF_LEN \in Nat /\ TORN_MAX \in Nat /\ EVENTS_MAX \in Nat /\ 0 \in Terminals
    /\ BS \notin Typed

VARIABLES
    page,           \* video memory at terminal_ptr
    memory,         \* by terminal: terminal_memory, its page while hidden
    csr_x, csr_y,   \* by terminal: the cursor
    line_beginning, \* by terminal: column where the line being typed starts
    line_y,         \* by terminal: its row
    buffer,         \* by terminal: the first buffer_len of terminal_buffer
    curr_terminal, enter_flag,
    pc, text,       \* the program's call, and what it has still to write
    where,          \* putch: the cell computed for the character
    echo, k,        \* keyboard_handler: "print" or "erase" while print_buffer
                    \* runs, and its loop counter
    shown,          \* history, by terminal: echoed, and no output since
    events,         \* history: keys and calls so far
    torn,           \* history: switches inside a write or a read
    quiet, base     \* history: no key since the write began; page and cursor then

cursor == <<csr_x, csr_y>>
start == <<line_beginning, line_y>>
call == <<pc, text, where>>
hidden == <<memory, curr_terminal>>
vars == <<page, hidden, cursor, start, buffer, enter_flag, call, echo, k, events, shown, torn, quiet, base>>

Blank == [n \in Cells |-> BLANK]
NoBase == [page |-> Blank, x |-> 0, y |-> 0, text |-> << >>]

\* terminal_open: everything is zeroed, and clear_screen blanks the rows of
\* the front terminal; the others' pages are blanked whole.
Init ==
    /\ page = Blank /\ memory = [t \in Terminals |-> Blank]
    /\ csr_x = [t \in Terminals |-> 0] /\ csr_y = [t \in Terminals |-> 0]
    /\ line_beginning = [t \in Terminals |-> 0] /\ line_y = [t \in Terminals |-> 0]
    /\ buffer = [t \in Terminals |-> << >>]
    /\ curr_terminal = 0 /\ enter_flag = 0
    /\ pc = "user" /\ text = << >> /\ where = 0 /\ echo = "none" /\ k = 0
    /\ shown = [t \in Terminals |-> TRUE] /\ torn = 0 /\ events = 0
    /\ quiet = FALSE /\ base = NoBase

-----------------------------------------------------------------------------
(* The display as a value, for the code that runs as one step: the page,   *)
(* and the cursor, line start and buffer of the terminal in front.         *)

Display ==
    [page |-> page, x |-> csr_x[curr_terminal], y |-> csr_y[curr_terminal],
     lb |-> line_beginning[curr_terminal], ly |-> line_y[curr_terminal],
     buffer |-> buffer[curr_terminal]]

SetDisplay(d) ==
    /\ page' = d.page
    /\ csr_x' = [csr_x EXCEPT ![curr_terminal] = d.x]
    /\ csr_y' = [csr_y EXCEPT ![curr_terminal] = d.y]
    /\ line_beginning' = [line_beginning EXCEPT ![curr_terminal] = d.lb]
    /\ line_y' = [line_y EXCEPT ![curr_terminal] = d.ly]
    /\ buffer' = [buffer EXCEPT ![curr_terminal] = d.buffer]

\* The rows move up by one, and the last is blanked.  The variant forgets it.
ScrolledUp_keep(p) ==
    [n \in Cells |-> IF n < (HEIGHT - 1) * WIDTH THEN p[n + WIDTH] ELSE p[n]]
ScrolledUp(p) ==
    [n \in Cells |-> IF n < (HEIGHT - 1) * WIDTH THEN p[n + WIDTH]
                     ELSE IF n < HEIGHT * WIDTH THEN BLANK ELSE p[n]]

\* scroll.  The variant leaves the line start where it was.
scroll_line(d) ==
    IF d.y >= HEIGHT
    THEN [d EXCEPT !.page = ScrolledUp(@), !.y = HEIGHT - 1, !.x = 0]
    ELSE d
scroll(d) ==
    IF d.y >= HEIGHT
    THEN [d EXCEPT !.page = ScrolledUp(@), !.y = HEIGHT - 1, !.ly = HEIGHT - 2, !.x = 0]
    ELSE d

\* new_line(TRUE).
new_line(d) ==
    LET s == scroll([d EXCEPT !.y = @ + 1, !.x = 0])
    IN  [s EXCEPT !.ly = s.y, !.buffer = << >>]

\* The end of putch: from the last column to the next row, then scroll.
edge(d) == scroll(IF d.x >= WIDTH THEN [d EXCEPT !.x = 0, !.y = @ + 1] ELSE d)

Cell(d) == d.y * WIDTH + d.x

\* putch.
putch(d, c) ==
    CASE c = NL  -> edge(new_line(d))
      [] c = BS  -> edge([d EXCEPT !.x = IF @ # 0 THEN @ - 1 ELSE @])
      [] c = NUL -> d
      [] OTHER   -> IF Cell(d) >= PAGE THEN d
                    ELSE edge([d EXCEPT !.page[Cell(d)] = c, !.x = @ + 1])

add_to_buffer(d, c) ==
    IF Len(d.buffer) < BUFF_LEN THEN [d EXCEPT !.buffer = Append(@, c)] ELSE d

\* clear_screen: line_beginning stays.
clear_screen(d) ==
    [d EXCEPT !.page = [n \in Cells |-> IF n < HEIGHT * WIDTH THEN BLANK ELSE d.page[n]],
              !.buffer = << >>, !.x = 0, !.y = 0, !.ly = 0]

-----------------------------------------------------------------------------
(* keyboard_handler.  It runs to its end before the program goes on, one   *)
(* putch at a time here.                                                   *)

\* print_buffer begins: the cursor goes back to where the line starts.
Reprint(d, mode) ==
    /\ SetDisplay([d EXCEPT !.x = d.lb, !.y = d.ly])
    /\ echo' = mode /\ k' = 0

\* History: a key or a call comes.
Event == events < EVENTS_MAX /\ events' = events + 1

\* History: a key disturbs a write in progress.
Disturbed == quiet' = FALSE /\ base' = NoBase

KeyChar(c) ==
    /\ Event /\ echo = "none" /\ Reprint(add_to_buffer(Display, c), "print")
    /\ Disturbed
    /\ UNCHANGED <<hidden, enter_flag, call, shown, torn>>

\* Enter is not echoed; terminal_read moves to the next row.
KeyEnter ==
    /\ Event /\ echo = "none" /\ SetDisplay(add_to_buffer(Display, NL)) /\ enter_flag' = 1
    /\ UNCHANGED <<hidden, call, shown, torn, quiet, base, echo, k>>

\* backspace prints the line with its last character blanked, shortens it,
\* and the handler prints it once more.  With a newline still in the buffer
\* buffer_len wraps, which TerminalLine models and this module leaves out.
KeyBackspace ==
    /\ Event /\ echo = "none" /\ NL \notin Chars(Display.buffer)
    /\ IF Display.buffer = << >> THEN Reprint(Display, "print")
       ELSE Reprint([Display EXCEPT !.buffer[Len(Display.buffer)] = BLANK], "erase")
    /\ Disturbed
    /\ UNCHANGED <<hidden, enter_flag, call, shown, torn>>

\* Ctrl-L.
KeyClear ==
    /\ Event /\ echo = "none" /\ Reprint(clear_screen(Display), "print")
    /\ Disturbed
    /\ UNCHANGED <<hidden, enter_flag, call, shown, torn>>

\* One round of print_buffer's loop; a newline empties the buffer and ends it.
EchoPut ==
    /\ echo # "none" /\ k < Len(Display.buffer)
    /\ SetDisplay(putch(Display, Display.buffer[k + 1])) /\ k' = k + 1
    /\ UNCHANGED <<hidden, enter_flag, call, shown, torn, quiet, base, echo, events>>

\* The end of backspace.
EchoErased ==
    /\ echo = "erase" /\ k >= Len(Display.buffer)
    /\ Reprint([Display EXCEPT !.buffer = SubSeq(@, 1, Len(@) - 1)], "print")
    /\ UNCHANGED <<hidden, enter_flag, call, shown, torn, quiet, base, events>>

EchoDone ==
    /\ echo = "print" /\ k >= Len(Display.buffer)
    /\ echo' = "none" /\ k' = 0
    /\ shown' = [shown EXCEPT ![curr_terminal] = TRUE]
    /\ UNCHANGED <<page, hidden, cursor, start, buffer, enter_flag, call, torn, quiet, base, events>>

\* switch_terminal: the page is saved, and the other terminal's brought in.
KeySwitch(t) ==
    /\ Event /\ echo = "none" /\ t # curr_terminal
    /\ torn' = IF pc \in {"user", "wait"} THEN torn ELSE torn + 1
    /\ torn' =< TORN_MAX
    /\ memory' = [memory EXCEPT ![curr_terminal] = page] /\ page' = memory[t]
    /\ curr_terminal' = t
    /\ Disturbed
    /\ UNCHANGED <<cursor, start, buffer, enter_flag, call, shown, echo, k>>

-----------------------------------------------------------------------------
(* terminal_write and terminal_read, a statement at a time.  Each statement*)
(* looks up the terminal in front anew.                                    *)

\* A statement of the program's call: it takes the display to d.
Statement(from, to, d) ==
    /\ echo = "none" /\ pc = from /\ pc' = to
    /\ SetDisplay(d)
    /\ shown' = [shown EXCEPT ![curr_terminal] = FALSE]
    /\ UNCHANGED <<hidden, torn, echo, k, base, events>>

WriteCall(w) ==
    /\ Event /\ echo = "none" /\ pc = "user"
    /\ pc' = "next" /\ text' = w
    /\ quiet' = TRUE
    /\ base' = [page |-> page, x |-> Display.x, y |-> Display.y, text |-> w]
    /\ UNCHANGED <<page, hidden, cursor, start, buffer, enter_flag, where, shown, torn, echo, k>>

\* The loop of terminal_write calls putch for the next character.
PutNewLine ==
    /\ text # << >> /\ Head(text) = NL
    /\ Statement("next", "nl_row", Display)
    /\ UNCHANGED <<text, where, enter_flag, quiet>>

PutBack ==
    /\ text # << >> /\ Head(text) = BS
    /\ Statement("next", "edge", [Display EXCEPT !.x = IF @ # 0 THEN @ - 1 ELSE @])
    /\ UNCHANGED <<text, where, enter_flag, quiet>>

PutNothing ==
    /\ text # << >> /\ Head(text) = NUL
    /\ Statement("next", "next", Display)
    /\ text' = Tail(text)
    /\ UNCHANGED <<where, enter_flag, quiet>>

\* The cell is computed, and tested against the end of the page.  The
\* variant has no test.
PutWhere_unchecked ==
    /\ text # << >> /\ Head(text) \in Printable
    /\ Statement("next", "store", Display) /\ where' = Cell(Display) /\ text' = text
    /\ UNCHANGED <<enter_flag, quiet>>

PutWhere ==
    /\ text # << >> /\ Head(text) \in Printable
    /\ IF Cell(Display) >= PAGE
       THEN Statement("next", "next", Display) /\ where' = 0 /\ text' = Tail(text)
       ELSE Statement("next", "store", Display) /\ where' = Cell(Display) /\ text' = text
    /\ UNCHANGED <<enter_flag, quiet>>

PutStore ==
    /\ Statement("store", "right", [Display EXCEPT !.page[where] = Head(text)])
    /\ where' = 0
    /\ UNCHANGED <<text, enter_flag, quiet>>

PutRight ==
    /\ Statement("right", "edge", [Display EXCEPT !.x = @ + 1])
    /\ UNCHANGED <<text, where, enter_flag, quiet>>

PutEdge ==
    /\ Statement("edge", IF Display.x >= WIDTH THEN "wrap" ELSE "scroll", Display)
    /\ UNCHANGED <<text, where, enter_flag, quiet>>

PutWrap ==
    /\ Statement("wrap", "row", [Display EXCEPT !.x = 0])
    /\ UNCHANGED <<text, where, enter_flag, quiet>>

PutRow ==
    /\ Statement("row", "scroll", [Display EXCEPT !.y = @ + 1])
    /\ UNCHANGED <<text, where, enter_flag, quiet>>

PutScroll ==
    /\ Statement("scroll", "next", scroll(Display))
    /\ text' = Tail(text)
    /\ UNCHANGED <<where, enter_flag, quiet>>

\* line_beginning and then line_y are set to the cursor.
WriteEnd ==
    /\ text = << >>
    /\ Statement("next", "end", [Display EXCEPT !.lb = Display.x])
    /\ UNCHANGED <<text, where, enter_flag, quiet>>

WriteReturn ==
    /\ echo = "none" /\ pc = "end" /\ pc' = "user"
    /\ SetDisplay([Display EXCEPT !.ly = Display.y])
    /\ shown' = [shown EXCEPT ![curr_terminal] = FALSE]
    /\ Disturbed
    /\ UNCHANGED <<hidden, torn, echo, k, text, where, enter_flag, events>>

\* new_line(TRUE), called by putch or by terminal_read.
LineRow ==
    /\ Statement("nl_row", "nl_col", [Display EXCEPT !.y = @ + 1])
    /\ UNCHANGED <<text, where, enter_flag, quiet>>

LineCol ==
    /\ Statement("nl_col", "nl_scroll", [Display EXCEPT !.x = 0])
    /\ UNCHANGED <<text, where, enter_flag, quiet>>

LineScroll ==
    /\ Statement("nl_scroll", "nl_line", scroll(Display))
    /\ UNCHANGED <<text, where, enter_flag, quiet>>

LineStart ==
    /\ Statement("nl_line", "nl_clear", [Display EXCEPT !.ly = Display.y])
    /\ UNCHANGED <<text, where, enter_flag, quiet>>

LineClear ==
    /\ Statement("nl_clear", IF text = << >> THEN "flag" ELSE "edge",
                 [Display EXCEPT !.buffer = << >>])
    /\ UNCHANGED <<text, where, enter_flag, quiet>>

\* terminal_read: what it copies is TerminalLine's; here it is its new_line.
ReadCall ==
    /\ Event /\ echo = "none" /\ pc = "user" /\ pc' = "wait"
    /\ UNCHANGED <<page, hidden, cursor, start, buffer, enter_flag, text, where,
                   shown, torn, quiet, base, echo, k>>

ReadWake ==
    /\ enter_flag # 0
    /\ Statement("wait", "nl_row", Display)
    /\ UNCHANGED <<text, where, enter_flag, quiet>>

ReadReturn ==
    /\ echo = "none" /\ pc = "flag" /\ pc' = "user" /\ enter_flag' = 0
    /\ UNCHANGED <<page, hidden, cursor, start, buffer, text, where,
                   shown, torn, quiet, base, echo, k, events>>

Next ==
    \/ \E c \in Typed : KeyChar(c)
    \/ KeyEnter \/ KeyBackspace \/ KeyClear
    \/ \E t \in Terminals : KeySwitch(t)
    \/ EchoPut \/ EchoErased \/ EchoDone
    \/ \E w \in Texts : WriteCall(w)
    \/ PutNewLine \/ PutBack \/ PutNothing \/ PutWhere \/ PutStore \/ PutRight
    \/ PutEdge \/ PutWrap \/ PutRow \/ PutScroll
    \/ WriteEnd \/ WriteReturn
    \/ LineRow \/ LineCol \/ LineScroll \/ LineStart \/ LineClear
    \/ ReadCall \/ ReadWake \/ ReadReturn

Spec == Init /\ [][Next]_vars

-----------------------------------------------------------------------------
\* The page of a terminal, in video memory or saved.
PageOf(t) == IF t = curr_terminal THEN page ELSE memory[t]

\* The characters of a line that print, by index: those before an Enter.
Prints(b) == {i \in 1 .. Len(b) : b[i] # NUL /\ \A j \in 1 .. i : b[j] # NL}

\* How many of them come before character i.
Before(b, i) == Cardinality({j \in Prints(b) : j < i})

\* Every terminal, in front or hidden, shows the line as typed and edited, and
\* its cursor right behind it, from the handler's echo until a program prints
\* on it, also when the echo scrolls the screen (print_buffer, backspace,
\* scroll, switch_terminal).  It is so for lines that end on the second row
\* they touch, and if no switch came inside a write.
EchoShown ==
    torn = 0 /\ echo = "none" =>
        \A t \in Terminals :
            LET b == buffer[t]
                n == Cardinality(Prints(b))
                first == line_y[t] * WIDTH + line_beginning[t]
            IN  shown[t] /\ n > 0 /\ line_beginning[t] + n < 2 * WIDTH =>
                    /\ \A i \in Prints(b) : PageOf(t)[first + Before(b, i)] = b[i]
                    /\ csr_y[t] * WIDTH + csr_x[t] = first + n

\* putch stores in the page of video memory, wherever a switch left a cursor;
\* and, if none came inside a write, on the screen itself, so that no
\* character is dropped, whatever is echoed between its statements.
StoresOnScreen ==
    pc = "store" => where \in Cells /\ (torn = 0 => where < WIDTH * HEIGHT)
=============================================================================
