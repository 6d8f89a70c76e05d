---------------------------- MODULE ScreenOutput ----------------------------
(***************************************************************************)
(* What terminal_write leaves on the screen, as a window on an endless     *)
(* sheet of rows.                                                          *)
(***************************************************************************)
EXTENDS Screen, SequencesExt

\* Where a text that starts at the cursor p takes it on an endless sheet.
After(p, w) ==
    LET advance(q, c) ==
            CASE c = NL  -> [x |-> 0, y |-> q.y + 1]
              [] c = NUL -> q
              [] c = BS  -> [q EXCEPT !.x = IF @ = 0 THEN 0 ELSE @ - 1]
              [] OTHER   -> IF q.x + 1 = WIDTH THEN [x |-> 0, y |-> q.y + 1]
                            ELSE [q EXCEPT !.x = @ + 1]
    IN  FoldLeft(advance, p, w)

\* What the endless sheet has at row r and column c once w is written from p on.
Sheet(p, w, r, c) ==
    LET hits == {n \in 1 .. Len(w) : w[n] \in Printable
                                     /\ After(p, SubSeq(w, 1, n - 1)) = [x |-> c, y |-> r]}
    IN  IF hits # {} THEN w[Max(hits)]
        ELSE IF r < HEIGHT THEN base.page[r * WIDTH + c] ELSE BLANK

\* A write that no key disturbs leaves its text on the screen: the screen is
\* the window on the lowest rows of a sheet that holds what was there and the
\* text, wrapped at the last column (terminal_write, putch, scroll).
OutputShown ==
    pc = "next" /\ quiet /\ torn = 0 =>
        LET w == SubSeq(base.text, 1, Len(base.text) - Len(text))
            p == [x |-> base.x, y |-> base.y]
            q == After(p, w)
            up == Max({0, q.y - (HEIGHT - 1)})
        IN  /\ \A r \in 0 .. HEIGHT - 1, c \in 0 .. WIDTH - 1 :
                    page[r * WIDTH + c] = Sheet(p, w, r + up, c)
            /\ Display.x = q.x /\ Display.y = q.y - up
=============================================================================
