---------------------------- MODULE TerminalLine ----------------------------
(***************************************************************************)
(* The line discipline (terminal.c, keyboard.c): the keyboard handler      *)
(* edits the buffer of the terminal in front, Enter raises enter_flag, and *)
(* terminal_read, which runs with interrupts enabled, waits for the flag,  *)
(* copies the line, clears the buffer and lowers the flag.  The echo of a  *)
(* newline, typed or printed by a program, also clears the buffer.         *)
(***************************************************************************)
EXTENDS Integers, Sequences

CONSTANTS
    BUFF_LEN,     \* terminal.h BUFF_LEN, keyboard.h BUFFER_MAX_SIZE
    UINT16_MAX,   \* the largest buffer_len
    Terminals,
    Letters,      \* characters of the key tables
    Counts        \* counts passed to read()

NUL == 0
NL == 1
SPACE == 2
Chars == Letters \cup {NUL, NL, SPACE}
Points == {"user", "wait", "copy", "newline", "flag"}

ASSUME LineAssumption ==
    /\ BUFF_LEN \in Nat \ {0} /\ UINT16_MAX \in Nat /\ BUFF_LEN < UINT16_MAX
    /\ Letters \subseteq Nat \ {NUL, NL, SPACE}
    /\ Counts \subseteq Nat

VARIABLES
    line,           \* by terminal: text is terminal_buffer, len is buffer_len
    curr_terminal,
    enter_flag,
    pc, count, i,   \* terminal_read
    buf,            \* what it has stored for the program
    typed,          \* history, by terminal: the line as typed and edited so far
    entered,        \* history: the line Enter was last pressed on, until a read returns
    pressed,        \* history: Enter was pressed and no read has returned since
    orderly         \* history: the read began on the line as typed, and no key
                    \* and no switch came between Enter and the end of its copy

read_vars == <<pc, count, i, buf>>
vars == <<line, curr_terminal, enter_flag, read_vars, typed, entered, pressed, orderly>>

-----------------------------------------------------------------------------
\* clear_buffer.
Empty == [text |-> [k \in 0 .. BUFF_LEN - 1 |-> NUL], len |-> 0]

\* add_to_buffer.
add_to_buffer(b, c) ==
    IF b.len < BUFF_LEN THEN [text |-> [b.text EXCEPT ![b.len] = c], len |-> b.len + 1] ELSE b

\* print_buffer, as far as the buffer goes: the first newline printed clears
\* it.  A length past the array prints the memory behind it, which may hold
\* a newline or not.
print_buffer(b) ==
    IF \E k \in 0 .. BUFF_LEN - 1 : k < b.len /\ b.text[k] = NL THEN {Empty}
    ELSE IF b.len =< BUFF_LEN THEN {b} ELSE {b, Empty}

\* buffer_len--, on an unsigned 16-bit length; the variant is signed.
Shorter_signed(b) == [b EXCEPT !.len = @ - 1]
Shorter(b) == [b EXCEPT !.len = IF @ = 0 THEN UINT16_MAX ELSE @ - 1]

\* backspace: the last character is blanked, the line printed, and the
\* length decremented.  The variant leaves the length.
backspace_stay(b) ==
    IF b.len = 0 THEN {b} ELSE print_buffer([b EXCEPT !.text[b.len - 1] = SPACE])
backspace(b) ==
    IF b.len = 0 THEN {b}
    ELSE {Shorter(r) : r \in print_buffer([b EXCEPT !.text[b.len - 1] = SPACE])}

Init ==
    /\ line = [t \in Terminals |-> Empty]
    /\ curr_terminal \in Terminals
    /\ enter_flag = 0
    /\ pc = "user" /\ count = 0 /\ i = 0 /\ buf = << >>
    /\ typed = [t \in Terminals |-> << >>] /\ entered = << >> /\ pressed = FALSE
    /\ orderly = FALSE

-----------------------------------------------------------------------------
(* keyboard_handler, which runs to its end before terminal_read goes on.   *)

\* History: a key that edits the line after Enter disturbs the read.
KeyPressed == orderly' = (orderly /\ enter_flag = 0)

SetLine(results) == \E r \in results : line' = [line EXCEPT ![curr_terminal] = r]

KeyChar(c) ==
    /\ KeyPressed
    /\ SetLine(print_buffer(add_to_buffer(line[curr_terminal], c)))
    /\ typed' = [typed EXCEPT ![curr_terminal] =
                    IF Len(@) < BUFF_LEN THEN Append(@, c) ELSE @]
    /\ UNCHANGED <<curr_terminal, enter_flag, read_vars, entered, pressed>>

\* The variant raises the flag only for a newline that fits.
KeyEnter_fits ==
    /\ KeyPressed
    /\ line' = [line EXCEPT ![curr_terminal] = add_to_buffer(@, NL)]
    /\ enter_flag' = IF line[curr_terminal].len < BUFF_LEN THEN 1 ELSE enter_flag
    /\ entered' = typed[curr_terminal] /\ pressed' = TRUE
    /\ typed' = [typed EXCEPT ![curr_terminal] = << >>]
    /\ UNCHANGED <<curr_terminal, read_vars>>

KeyEnter ==
    /\ KeyPressed
    /\ line' = [line EXCEPT ![curr_terminal] = add_to_buffer(@, NL)]
    /\ enter_flag' = 1
    /\ entered' = typed[curr_terminal] /\ pressed' = TRUE
    /\ typed' = [typed EXCEPT ![curr_terminal] = << >>]
    /\ UNCHANGED <<curr_terminal, read_vars>>

\* backspace(), then print_buffer() once more.
KeyBackspace ==
    /\ KeyPressed
    /\ SetLine(UNION {print_buffer(r) : r \in backspace(line[curr_terminal])})
    /\ typed' = [typed EXCEPT ![curr_terminal] = SubSeq(@, 1, Len(@) - 1)]
    /\ UNCHANGED <<curr_terminal, enter_flag, read_vars, entered, pressed>>

\* Ctrl-L: clear_screen clears the buffer too.
KeyClear ==
    /\ KeyPressed
    /\ line' = [line EXCEPT ![curr_terminal] = Empty]
    /\ typed' = [typed EXCEPT ![curr_terminal] = << >>]
    /\ UNCHANGED <<curr_terminal, enter_flag, read_vars, entered, pressed>>

KeySwitch(t) ==
    /\ t # curr_terminal
    /\ curr_terminal' = t /\ orderly' = FALSE
    /\ UNCHANGED <<line, enter_flag, read_vars, typed, entered, pressed>>

-----------------------------------------------------------------------------
(* terminal_read and terminal_write.                                       *)

\* The buffer b holds the text w and no Enter.
Holds(b, w) == b.len = Len(w) /\ \A k \in 1 .. Len(w) : b.text[k - 1] = w[k]

ReadCall(n) ==
    /\ pc = "user"
    /\ pc' = "wait" /\ count' = n /\ i' = 0 /\ buf' = << >>
    /\ orderly' = (enter_flag = 0 /\ Holds(line[curr_terminal], typed[curr_terminal]))
    /\ UNCHANGED <<line, curr_terminal, enter_flag, typed, entered, pressed>>

\* while(!enter_flag){}
ReadWake ==
    /\ pc = "wait" /\ enter_flag # 0
    /\ pc' = "copy"
    /\ UNCHANGED <<line, curr_terminal, enter_flag, count, i, buf, typed, entered, pressed, orderly>>

\* The loop's condition, on the buffer of the terminal now in front.
MoreToCopy ==
    i < count /\ i < BUFF_LEN /\ line[curr_terminal].text[i] \notin {NUL, NL}

ReadCopy ==
    /\ pc = "copy" /\ MoreToCopy
    /\ buf' = Append(buf, line[curr_terminal].text[i])
    /\ i' = i + 1
    /\ UNCHANGED <<line, curr_terminal, enter_flag, pc, count, typed, entered, pressed, orderly>>

\* The newline stored after the loop.
ReadTerminate ==
    /\ pc = "copy" /\ ~MoreToCopy
    /\ buf' = Append(buf, NL)
    /\ pc' = "newline"
    /\ UNCHANGED <<line, curr_terminal, enter_flag, count, i, typed, entered, pressed, orderly>>

\* new_line(TRUE).
ReadNewLine ==
    /\ pc = "newline"
    /\ line' = [line EXCEPT ![curr_terminal] = Empty]
    /\ pc' = "flag"
    /\ UNCHANGED <<curr_terminal, enter_flag, count, i, buf, typed, entered, pressed, orderly>>

\* enter_flag = 0 and the return; the locals are gone.
ReadReturn ==
    /\ pc = "flag"
    /\ enter_flag' = 0 /\ pressed' = FALSE /\ entered' = << >> /\ orderly' = FALSE
    /\ pc' = "user" /\ count' = 0 /\ i' = 0 /\ buf' = << >>
    /\ UNCHANGED <<line, curr_terminal, typed>>

\* A program writes a newline: putch calls new_line(TRUE).
WriteNewLine ==
    /\ pc = "user"
    /\ line' = [line EXCEPT ![curr_terminal] = Empty]
    /\ UNCHANGED <<curr_terminal, enter_flag, read_vars, typed, entered, pressed, orderly>>

ReadStep == ReadWake \/ ReadCopy \/ ReadTerminate \/ ReadNewLine \/ ReadReturn

Next ==
    \/ \E c \in Letters : KeyChar(c)
    \/ KeyEnter \/ KeyBackspace \/ KeyClear
    \/ \E t \in Terminals : KeySwitch(t)
    \/ \E n \in Counts : ReadCall(n)
    \/ ReadWake \/ ReadCopy \/ ReadTerminate \/ ReadNewLine \/ ReadReturn
    \/ WriteNewLine

Spec == Init /\ [][Next]_vars

\* A read in progress is run: the processor goes on with it after every key.
FairSpec == Spec /\ WF_vars(ReadStep)

-----------------------------------------------------------------------------
\* Every variable stays in its type; buffer_len wraps, but stays unsigned.
TypeOK ==
    /\ line \in [Terminals -> [text : [0 .. BUFF_LEN - 1 -> Chars], len : 0 .. UINT16_MAX]]
    /\ curr_terminal \in Terminals /\ enter_flag \in {0, 1}
    /\ pc \in Points /\ count \in {0} \cup Counts /\ i \in 0 .. BUFF_LEN
    /\ buf \in Seq(Chars) /\ entered \in Seq(Letters)
    /\ typed \in [Terminals -> Seq(Letters)] /\ pressed \in BOOLEAN
    /\ orderly \in BOOLEAN

\* What read() is to store: the line Enter was pressed on, cut at the count
\* asked for, and a newline.
LineRead == Append(SubSeq(entered, 1, IF Len(entered) < count THEN Len(entered) ELSE count), NL)

\* A read that no key disturbs stores the line as typed and edited before
\* Enter, also what was typed before the call (terminal_read, backspace).
LineFaithful == pc = "newline" /\ orderly => buf = LineRead

\* A read that waits when Enter has been pressed returns, whatever is typed
\* and however terminals are switched meanwhile (terminal_read).
EnterAnswered == pc = "wait" /\ pressed ~> pc = "user"
=============================================================================
