---------------------------- MODULE ScreenProofs ----------------------------
(***************************************************************************)
(* putch stores on the screen, and the echo shows the line being typed,    *)
(* for every screen size, every number of terminals, any typing and any    *)
(* text.  The first invariant bounds cursor and line start: the cursor of  *)
(* the terminal in front may be one column or one row too far only between *)
(* the statements of putch and new_line that put it right, and never       *)
(* inside the keyboard handler.  The second says how much of the line      *)
(* print_buffer has put on the page.  What putch makes of a display and of *)
(* a line comes first, then the two invariants; the facts about counting   *)
(* that the second rests on are at the end.                                *)
(***************************************************************************)
EXTENDS Screen, TLAPS

\* The obligations are large: the provers are given more than their usual time.
USE SMTT(20), ZenonT(20)

-----------------------------------------------------------------------------
(* A display, field by field, *)
D(p, x, y, lb, ly, b) ==
    [page |-> p, x |-> x, y |-> y, lb |-> lb, ly |-> ly, buffer |-> b]

(* with natural coordinates, and with cursor and line start on the screen. *)
IsDisplay(d) == d.x \in Nat /\ d.y \in Nat /\ d.lb \in Nat /\ d.ly \in Nat
OnScreen(d) == d.x < WIDTH /\ d.y < HEIGHT /\ d.lb < WIDTH /\ d.ly < HEIGHT

(* A page is a function on the cells. *)
IsPage(p) == p = [n \in Cells |-> p[n]]

(* A display with line b, on a page if it comes from a page p, and on the  *)
(* screen if ok holds.                                                     *)
Within(d, p, b, ok) ==
    \E q : \E x, y, lb, ly \in Nat :
        /\ d = D(q, x, y, lb, ly, b) /\ (IsPage(p) => IsPage(q))
        /\ ok => x < WIDTH /\ y < HEIGHT /\ lb < WIDTH /\ ly < HEIGHT

\* The fields of a display record.
LEMMA DisplayFields ==
    ASSUME NEW p, NEW b, NEW x, NEW y, NEW lb, NEW ly
    PROVE  /\ D(p, x, y, lb, ly, b).page = p /\ D(p, x, y, lb, ly, b).buffer = b
           /\ D(p, x, y, lb, ly, b).x = x /\ D(p, x, y, lb, ly, b).y = y
           /\ D(p, x, y, lb, ly, b).lb = lb /\ D(p, x, y, lb, ly, b).ly = ly
BY DEF D

\* What Within says of each field.
LEMMA WithinFields ==
    ASSUME NEW d, NEW p, NEW b, NEW ok, Within(d, p, b, ok)
    PROVE  /\ IsDisplay(d) /\ d.buffer = b
           /\ ok => OnScreen(d)
           /\ IsPage(p) => IsPage(d.page)
<1>1. PICK q : \E x, y, lb, ly \in Nat :
        /\ d = D(q, x, y, lb, ly, b) /\ (IsPage(p) => IsPage(q))
        /\ ok => x < WIDTH /\ y < HEIGHT /\ lb < WIDTH /\ ly < HEIGHT
  BY Zenon DEF Within
<1>2. PICK x, y, lb, ly \in Nat :
        /\ d = D(q, x, y, lb, ly, b) /\ (IsPage(p) => IsPage(q))
        /\ ok => x < WIDTH /\ y < HEIGHT /\ lb < WIDTH /\ ly < HEIGHT
  BY <1>1, Zenon
<1>3. /\ d.page = q /\ d.x = x /\ d.y = y /\ d.lb = lb /\ d.ly = ly /\ d.buffer = b
  BY <1>2, DisplayFields
<1> QED BY <1>2, <1>3, Zenon DEF IsDisplay, OnScreen

\* Within passes to a weaker condition and to the page before.
LEMMA Weaker ==
    ASSUME NEW d, NEW p, NEW q, NEW b, NEW ok, NEW okk, Within(d, q, b, ok),
           IsPage(p) => IsPage(q), okk => ok
    PROVE  Within(d, p, b, okk)
<1>1. PICK r : \E x, y, lb, ly \in Nat :
        /\ d = D(r, x, y, lb, ly, b) /\ (IsPage(q) => IsPage(r))
        /\ ok => x < WIDTH /\ y < HEIGHT /\ lb < WIDTH /\ ly < HEIGHT
  BY Zenon DEF Within
<1> QED BY <1>1, Zenon DEF Within

(* A display with one field replaced. *)
SetX(d, v) == [d EXCEPT !.x = v]
SetY(d, v) == [d EXCEPT !.y = v]
SetLb(d, v) == [d EXCEPT !.lb = v]
SetLy(d, v) == [d EXCEPT !.ly = v]
SetBuffer(d, v) == [d EXCEPT !.buffer = v]
SetPage(d, v) == [d EXCEPT !.page = v]

\* One assignment to a field of a display.
LEMMA DisplayUpdate ==
    ASSUME NEW p, NEW b, NEW x, NEW y, NEW lb, NEW ly, NEW v
    PROVE  /\ SetX(D(p, x, y, lb, ly, b), v) = D(p, v, y, lb, ly, b)
           /\ SetY(D(p, x, y, lb, ly, b), v) = D(p, x, v, lb, ly, b)
           /\ SetLb(D(p, x, y, lb, ly, b), v) = D(p, x, y, v, ly, b)
           /\ SetLy(D(p, x, y, lb, ly, b), v) = D(p, x, y, lb, v, b)
           /\ SetBuffer(D(p, x, y, lb, ly, b), v) = D(p, x, y, lb, ly, v)
           /\ SetPage(D(p, x, y, lb, ly, b), v) = D(v, x, y, lb, ly, b)
BY DEF D, SetX, SetY, SetLb, SetLy, SetBuffer, SetPage

-----------------------------------------------------------------------------
(* scroll brings the cursor back to the last row, and the line start to a  *)
(* row of the screen.                                                      *)
LEMMA ScrollValue ==
    ASSUME NEW p, NEW b, NEW x, NEW y, NEW lb, NEW ly
    PROVE  scroll(D(p, x, y, lb, ly, b)) =
             IF y >= HEIGHT THEN D(ScrolledUp(p), 0, HEIGHT - 1, lb, HEIGHT - 2, b)
             ELSE D(p, x, y, lb, ly, b)
<1>1. y >= HEIGHT => scroll(D(p, x, y, lb, ly, b)) =
                       D(ScrolledUp(p), 0, HEIGHT - 1, lb, HEIGHT - 2, b)
  BY Zenon DEF scroll, D
<1>2. ~(y >= HEIGHT) => scroll(D(p, x, y, lb, ly, b)) = D(p, x, y, lb, ly, b)
  BY DEF scroll, D
<1> QED BY <1>1, <1>2, Zenon

\* scroll() keeps the cursor on the page when its column and its line are.
LEMMA ScrollWithin ==
    ASSUME NEW p, NEW b, NEW x \in Nat, NEW y \in Nat, NEW lb \in Nat, NEW ly \in Nat
    PROVE  Within(scroll(D(p, x, y, lb, ly, b)), p, b, x < WIDTH /\ lb < WIDTH /\ ly < HEIGHT)
<1>1. IsPage(ScrolledUp(p))
  BY DEF IsPage, ScrolledUp
<1>2. /\ 0 \in Nat /\ HEIGHT - 1 \in Nat /\ HEIGHT - 2 \in Nat
      /\ 0 < WIDTH /\ HEIGHT - 1 < HEIGHT /\ HEIGHT - 2 < HEIGHT
  BY ScreenAssumption
<1>3. CASE y >= HEIGHT
  <2>1. scroll(D(p, x, y, lb, ly, b)) = D(ScrolledUp(p), 0, HEIGHT - 1, lb, HEIGHT - 2, b)
    BY <1>3, ScrollValue
  <2> QED BY <1>1, <1>2, <2>1, Zenon DEF Within
<1>4. CASE ~(y >= HEIGHT)
  <2>1. scroll(D(p, x, y, lb, ly, b)) = D(p, x, y, lb, ly, b)
    BY <1>4, ScrollValue, Zenon
  <2>2. y < HEIGHT
    BY <1>4, ScreenAssumption
  <2> QED BY <2>1, <2>2, Zenon DEF Within
<1> QED BY <1>3, <1>4

(* The end of putch brings any cursor back. *)
LEMMA EdgeValue ==
    ASSUME NEW p, NEW b, NEW x, NEW y, NEW lb, NEW ly
    PROVE  edge(D(p, x, y, lb, ly, b)) =
             IF x >= WIDTH THEN scroll(D(p, 0, y + 1, lb, ly, b))
             ELSE scroll(D(p, x, y, lb, ly, b))
<1> DEFINE d == D(p, x, y, lb, ly, b)
<1>1. edge(d) = scroll(IF d.x >= WIDTH THEN SetY(SetX(d, 0), d.y + 1) ELSE d)
  BY DEF edge, SetX, SetY
<1>2. SetY(SetX(d, 0), d.y + 1) = D(p, 0, y + 1, lb, ly, b) /\ d.x = x
  BY DisplayFields, DisplayUpdate
<1> HIDE DEF d
<1> QED BY <1>1, <1>2, Zenon DEF d

\* putc()'s test of the right edge brings the cursor back on the page.
LEMMA EdgeWithin ==
    ASSUME NEW p, NEW b, NEW x \in Nat, NEW y \in Nat, NEW lb \in Nat, NEW ly \in Nat
    PROVE  Within(edge(D(p, x, y, lb, ly, b)), p, b, lb < WIDTH /\ ly < HEIGHT)
<1>1. 0 \in Nat /\ y + 1 \in Nat /\ 0 < WIDTH /\ (x >= WIDTH \/ x < WIDTH)
  BY ScreenAssumption
<1>2. CASE x >= WIDTH
  <2>1. edge(D(p, x, y, lb, ly, b)) = scroll(D(p, 0, y + 1, lb, ly, b))
    BY <1>2, EdgeValue, Zenon
  <2>2. Within(scroll(D(p, 0, y + 1, lb, ly, b)), p, b, 0 < WIDTH /\ lb < WIDTH /\ ly < HEIGHT)
    BY <1>1, ScrollWithin, Zenon
  <2> QED BY <1>1, <2>1, <2>2, Weaker, Zenon
<1>3. CASE ~(x >= WIDTH)
  <2>1. edge(D(p, x, y, lb, ly, b)) = scroll(D(p, x, y, lb, ly, b))
    BY <1>3, EdgeValue, Zenon
  <2>2. Within(scroll(D(p, x, y, lb, ly, b)), p, b, x < WIDTH /\ lb < WIDTH /\ ly < HEIGHT)
    BY ScrollWithin, Zenon
  <2> QED BY <1>1, <1>3, <2>1, <2>2, Weaker, Zenon
<1> QED BY <1>2, <1>3

\* enter() and new_line() bring the cursor back on the page.
LEMMA NewLineWithin ==
    ASSUME NEW p, NEW b, NEW x \in Nat, NEW y \in Nat, NEW lb \in Nat, NEW ly \in Nat
    PROVE  Within(new_line(D(p, x, y, lb, ly, b)), p, << >>, lb < WIDTH /\ ly < HEIGHT)
<1> DEFINE d == D(p, x, y, lb, ly, b)
           s == scroll(SetX(SetY(d, d.y + 1), 0))
<1>1. new_line(d) = SetBuffer(SetLy(s, s.y), << >>)
  BY DEF new_line, SetX, SetY, SetLy, SetBuffer
<1>2. s = scroll(D(p, 0, y + 1, lb, ly, b))
  BY DisplayFields, DisplayUpdate
<1>3. y + 1 \in Nat /\ 0 \in Nat /\ 0 < WIDTH
  BY ScreenAssumption
<1> HIDE DEF s, d
<1>4. Within(s, p, b, 0 < WIDTH /\ lb < WIDTH /\ ly < HEIGHT)
  BY <1>2, <1>3, ScrollWithin, Zenon
<1>5. PICK q : \E xx, yy, lbb, lyy \in Nat :
        /\ s = D(q, xx, yy, lbb, lyy, b) /\ (IsPage(p) => IsPage(q))
        /\ lb < WIDTH /\ ly < HEIGHT => xx < WIDTH /\ yy < HEIGHT /\ lbb < WIDTH
  BY <1>3, <1>4, Zenon DEF Within
<1>6. PICK xx, yy, lbb, lyy \in Nat :
        /\ s = D(q, xx, yy, lbb, lyy, b) /\ (IsPage(p) => IsPage(q))
        /\ lb < WIDTH /\ ly < HEIGHT => xx < WIDTH /\ yy < HEIGHT /\ lbb < WIDTH
  BY <1>5, Zenon
<1>7. new_line(d) = D(q, xx, yy, lbb, yy, << >>)
  BY <1>1, <1>6, DisplayFields, DisplayUpdate
<1> QED BY <1>6, <1>7, Zenon DEF Within, d

(* putch keeps a display on the screen, whatever the character. *)
LEMMA PutchWithin ==
    ASSUME NEW p, NEW b, NEW x \in Nat, NEW y \in Nat, NEW lb \in Nat, NEW ly \in Nat, NEW c
    PROVE  Within(putch(D(p, x, y, lb, ly, b), c), p, IF c = NL THEN << >> ELSE b,
                  x < WIDTH /\ y < HEIGHT /\ lb < WIDTH /\ ly < HEIGHT)
<1> DEFINE d == D(p, x, y, lb, ly, b)
<1>1. CASE c = NL
  <2>1. putch(d, c) = edge(new_line(d))
    BY <1>1 DEF putch, NL, BS, NUL
  <2>0. Within(new_line(d), p, << >>, lb < WIDTH /\ ly < HEIGHT)
    BY NewLineWithin
  <2> HIDE DEF d
  <2>2. PICK q : \E xx, yy, lbb, lyy \in Nat :
          /\ new_line(d) = D(q, xx, yy, lbb, lyy, << >>) /\ (IsPage(p) => IsPage(q))
          /\ lb < WIDTH /\ ly < HEIGHT => lbb < WIDTH /\ lyy < HEIGHT
    BY <2>0, Zenon DEF Within
  <2>3. PICK xx, yy, lbb, lyy \in Nat :
          /\ new_line(d) = D(q, xx, yy, lbb, lyy, << >>) /\ (IsPage(p) => IsPage(q))
          /\ lb < WIDTH /\ ly < HEIGHT => lbb < WIDTH /\ lyy < HEIGHT
    BY <2>2, Zenon
  <2>4. Within(edge(D(q, xx, yy, lbb, lyy, << >>)), q, << >>, lbb < WIDTH /\ lyy < HEIGHT)
    BY EdgeWithin, Zenon
  <2>5. Within(putch(d, c), p, << >>, x < WIDTH /\ y < HEIGHT /\ lb < WIDTH /\ ly < HEIGHT)
    BY <2>1, <2>3, <2>4, Weaker, Zenon
  <2> QED BY <1>1, <2>5, Zenon DEF d
<1>2. CASE c = BS
  <2>1. putch(d, c) = edge(SetX(d, IF d.x # 0 THEN d.x - 1 ELSE d.x)) /\ c # NL
    BY <1>2 DEF putch, NL, BS, NUL, SetX
  <2>2. PICK xx \in Nat : xx = IF x # 0 THEN x - 1 ELSE x
    OBVIOUS
  <2>3. SetX(d, IF d.x # 0 THEN d.x - 1 ELSE d.x) = D(p, xx, y, lb, ly, b)
    BY <2>2, DisplayFields, DisplayUpdate
  <2> HIDE DEF d
  <2>4. Within(edge(D(p, xx, y, lb, ly, b)), p, b, lb < WIDTH /\ ly < HEIGHT)
    BY EdgeWithin, Zenon
  <2> QED BY <2>1, <2>3, <2>4, Weaker, Zenon DEF d
<1>3. CASE c = NUL
  <2>1. putch(d, c) = d /\ c # NL
    BY <1>3 DEF putch, NL, BS, NUL
  <2> QED BY <2>1, Zenon DEF Within
<1>4. CASE c \notin {NL, BS, NUL}
  <2> DEFINE q == [d.page EXCEPT ![Cell(d)] = c]
  <2>1. putch(d, c) = IF Cell(d) >= PAGE THEN d ELSE edge(SetX(SetPage(d, q), d.x + 1))
    BY <1>4 DEF putch, SetX, SetPage
  <2>2. IsPage(p) => IsPage(q)
    <3>1. d.page = p
      BY DisplayFields
    <3> HIDE DEF d
    <3> QED BY <3>1 DEF IsPage
  <2> HIDE DEF q
  <2>3. SetX(SetPage(d, q), d.x + 1) = D(q, x + 1, y, lb, ly, b)
    BY DisplayFields, DisplayUpdate
  <2>4. x + 1 \in Nat
    OBVIOUS
  <2>5. Within(edge(D(q, x + 1, y, lb, ly, b)), q, b, lb < WIDTH /\ ly < HEIGHT)
    BY <2>4, EdgeWithin, Zenon
  <2>6. CASE Cell(d) >= PAGE
    BY <1>4, <2>1, <2>6, Zenon DEF Within
  <2>7. CASE ~(Cell(d) >= PAGE)
    <3> HIDE DEF d
    <3> QED BY <1>4, <2>1, <2>2, <2>3, <2>5, <2>7, Weaker, Zenon DEF d
  <2> QED BY <2>6, <2>7
<1> QED BY <1>1, <1>2, <1>3, <1>4

(* clear_screen keeps line_beginning, and puts the rest to the corner. *)
LEMMA ClearValue ==
    ASSUME NEW p, NEW b, NEW x, NEW y, NEW lb, NEW ly
    PROVE  \E q : IsPage(q) /\ clear_screen(D(p, x, y, lb, ly, b)) = D(q, 0, 0, lb, 0, << >>)
<1> DEFINE d == D(p, x, y, lb, ly, b)
           q == [n \in Cells |-> IF n < HEIGHT * WIDTH THEN BLANK ELSE d.page[n]]
<1>1. clear_screen(d) = SetLy(SetY(SetX(SetBuffer(SetPage(d, q), << >>), 0), 0), 0)
  BY DEF clear_screen, SetLy, SetY, SetX, SetBuffer, SetPage
<1>2. IsPage(q)
  BY DEF IsPage
<1> HIDE DEF q
<1>3. clear_screen(d) = D(q, 0, 0, lb, 0, << >>)
  BY <1>1, DisplayUpdate
<1> QED BY <1>2, <1>3

(* add_to_buffer appends, or leaves a full buffer alone. *)
LEMMA AddValue ==
    ASSUME NEW p, NEW b, NEW x, NEW y, NEW lb, NEW ly, NEW c
    PROVE  \/ add_to_buffer(D(p, x, y, lb, ly, b), c) = D(p, x, y, lb, ly, b)
           \/ add_to_buffer(D(p, x, y, lb, ly, b), c) = D(p, x, y, lb, ly, Append(b, c))
<1> DEFINE d == D(p, x, y, lb, ly, b)
<1>1. add_to_buffer(d, c) = IF Len(d.buffer) < BUFF_LEN THEN SetBuffer(d, Append(d.buffer, c)) ELSE d
  BY DEF add_to_buffer, SetBuffer
<1>2. d.buffer = b /\ SetBuffer(d, Append(b, c)) = D(p, x, y, lb, ly, Append(b, c))
  BY DisplayFields, DisplayUpdate
<1> HIDE DEF d
<1> QED BY <1>1, <1>2, Zenon DEF d

-----------------------------------------------------------------------------
(* Cells. *)
LEMMA CellOnScreen ==
    ASSUME NEW x \in Nat, NEW y \in Nat
    PROVE  /\ y * WIDTH + x \in Nat
           /\ (x < WIDTH /\ y < HEIGHT) => y * WIDTH + x < WIDTH * HEIGHT
<1> WIDTH \in Nat /\ HEIGHT \in Nat
  BY ScreenAssumption
<1>1. y * WIDTH \in Nat
  OBVIOUS
<1>2. y < HEIGHT => (y + 1) * WIDTH <= HEIGHT * WIDTH
  <2> SUFFICES ASSUME y < HEIGHT PROVE (y + 1) * WIDTH <= HEIGHT * WIDTH
    OBVIOUS
  <2>1. PICK n \in Nat : HEIGHT = y + 1 + n
    <3> HEIGHT - (y + 1) \in Nat
      OBVIOUS
    <3> QED OBVIOUS
  <2>2. HEIGHT * WIDTH = (y + 1) * WIDTH + n * WIDTH
    BY <2>1
  <2>3. n * WIDTH \in Nat
    OBVIOUS
  <2> QED BY <2>2, <2>3
<1>3. (y + 1) * WIDTH = y * WIDTH + WIDTH /\ HEIGHT * WIDTH = WIDTH * HEIGHT
  OBVIOUS
<1> QED BY <1>1, <1>2, <1>3

(* The row below starts WIDTH cells further. *)
LEMMA RowBelow ==
    ASSUME NEW r \in Int
    PROVE  r * WIDTH \in Int /\ (r + 1) * WIDTH = r * WIDTH + WIDTH
BY ScreenAssumption

(* (x, y) is n places behind (lb, ly), on the same row or the next. *)
At(x, y, lb, ly, n) ==
    IF lb + n < WIDTH THEN x = lb + n /\ y = ly ELSE x = lb + n - WIDTH /\ y = ly + 1

\* The cursor stands n cells behind the start of the line, rows counted through.
LEMMA CellBehind ==
    ASSUME NEW x \in Nat, NEW y \in Nat, NEW lb \in Nat, NEW ly \in Nat, NEW n \in Nat,
           At(x, y, lb, ly, n)
    PROVE  y * WIDTH + x = ly * WIDTH + lb + n
<1> DEFINE m == ly * WIDTH
<1>1. WIDTH \in Nat /\ m \in Int /\ (ly + 1) * WIDTH = m + WIDTH
  BY RowBelow, ScreenAssumption
<1>2. \/ x = lb + n /\ y * WIDTH = m
      \/ x = lb + n - WIDTH /\ y * WIDTH = m + WIDTH
  BY <1>1, Zenon DEF At
<1> HIDE DEF m
<1>3. y * WIDTH + x = m + lb + n
  BY <1>1, <1>2
<1> QED BY <1>3 DEF m

(* putch of a character that prints, with the cursor on the screen: the    *)
(* next column, the next row, or the last row after a scroll.              *)
LEMMA PutchPrints ==
    ASSUME NEW p, NEW b, NEW x \in Nat, NEW y \in Nat, NEW lb \in Nat, NEW ly \in Nat, NEW c,
           c \notin {NL, BS, NUL}, x < WIDTH, y < HEIGHT
    PROVE  LET q == [p EXCEPT ![y * WIDTH + x] = c]
           IN  putch(D(p, x, y, lb, ly, b), c) =
                 IF x + 1 < WIDTH THEN D(q, x + 1, y, lb, ly, b)
                 ELSE IF y + 1 < HEIGHT THEN D(q, 0, y + 1, lb, ly, b)
                 ELSE D(ScrolledUp(q), 0, HEIGHT - 1, lb, HEIGHT - 2, b)
<1> DEFINE d == D(p, x, y, lb, ly, b)
           q == [p EXCEPT ![y * WIDTH + x] = c]
<1>1. Cell(d) = y * WIDTH + x /\ d.page = p /\ d.x = x
  BY DisplayFields DEF Cell
<1>2. ~(Cell(d) >= PAGE)
  <2>1. y * WIDTH + x \in Nat /\ y * WIDTH + x < WIDTH * HEIGHT
    BY CellOnScreen
  <2>2. WIDTH * HEIGHT \in Nat /\ PAGE \in Nat /\ PAGE >= WIDTH * HEIGHT
    BY ScreenAssumption
  <2> HIDE DEF d
  <2> QED BY <1>1, <2>1, <2>2
<1>3. putch(d, c) = IF Cell(d) >= PAGE THEN d
                    ELSE edge(SetX(SetPage(d, [d.page EXCEPT ![Cell(d)] = c]), d.x + 1))
  BY DEF putch, SetX, SetPage
<1> HIDE DEF q
<1>4. SetX(SetPage(d, q), x + 1) = D(q, x + 1, y, lb, ly, b)
  BY DisplayUpdate
<1> HIDE DEF d
<1>5. putch(d, c) = edge(D(q, x + 1, y, lb, ly, b))
  BY <1>1, <1>2, <1>3, <1>4, Zenon DEF q
<1>6. x + 1 \in Nat /\ y + 1 \in Nat /\ WIDTH \in Nat /\ HEIGHT \in Nat
  BY ScreenAssumption
<1>7. CASE x + 1 < WIDTH
  <2>1. ~(x + 1 >= WIDTH) /\ ~(y >= HEIGHT)
    BY <1>6, <1>7
  <2>2. edge(D(q, x + 1, y, lb, ly, b)) = D(q, x + 1, y, lb, ly, b)
    BY <1>6, <2>1, EdgeValue, ScrollValue
  <2> QED BY <1>5, <1>7, <2>2 DEF d, q
<1>8. CASE ~(x + 1 < WIDTH) /\ y + 1 < HEIGHT
  <2>1. x + 1 >= WIDTH /\ ~(y + 1 >= HEIGHT)
    BY <1>6, <1>8
  <2>2. edge(D(q, x + 1, y, lb, ly, b)) = D(q, 0, y + 1, lb, ly, b)
    BY <1>6, <2>1, EdgeValue, ScrollValue
  <2> QED BY <1>5, <1>8, <2>2 DEF d, q
<1>9. CASE ~(x + 1 < WIDTH) /\ ~(y + 1 < HEIGHT)
  <2>1. x + 1 >= WIDTH /\ y + 1 >= HEIGHT
    BY <1>6, <1>9
  <2>2. edge(D(q, x + 1, y, lb, ly, b)) = D(ScrolledUp(q), 0, HEIGHT - 1, lb, HEIGHT - 2, b)
    BY <1>6, <2>1, EdgeValue, ScrollValue
  <2> QED BY <1>5, <1>9, <2>2 DEF d, q
<1> QED BY <1>7, <1>8, <1>9

-----------------------------------------------------------------------------
(* A line is a sequence of what the handler puts in the buffer. *)
LineChars == Typed \cup {NL, BLANK}

(* The characters of a line that print are numbered in their order. *)
Numbers(b) ==
    /\ Before(b, 1) = 0 /\ Cardinality(Prints(b)) \in Nat
    /\ Prints(b) = {} => Cardinality(Prints(b)) = 0
    /\ \A i : Before(b, i) \in Nat
    /\ \A i \in 1 .. Len(b) :
          Before(b, i + 1) = IF i \in Prints(b) THEN Before(b, i) + 1 ELSE Before(b, i)
    /\ \A i \in Prints(b) : \A j \in Nat : i < j => Before(b, i) < Before(b, j)

(* The first j characters of line b, which starts at (lb, ly), are on page *)
(* p with the cursor (x, y) behind them, if they end on the second row.    *)
Written(p, x, y, lb, ly, b, j) ==
    LET n == Before(b, j + 1)
    IN  lb + n < 2 * WIDTH =>
          /\ \A i \in Prints(b) : i <= j => p[ly * WIDTH + lb + Before(b, i)] = b[i]
          /\ At(x, y, lb, ly, n)

(* Line b ends on the second row at the latest. *)
Fits(lb, b) == lb + Cardinality(Prints(b)) < 2 * WIDTH

(* All of line b is on page p, and the cursor is behind it. *)
LineOn(p, x, y, lb, ly, b) ==
    /\ \A i \in Prints(b) : p[ly * WIDTH + lb + Before(b, i)] = b[i]
    /\ y * WIDTH + x = ly * WIDTH + lb + Cardinality(Prints(b))

\* Typing, erasing and Enter keep a line a line.
LEMMA LineType ==
    ASSUME NEW b \in Seq(LineChars)
    PROVE  /\ Append(b, NL) \in Seq(LineChars)
           /\ \A c \in Typed : Append(b, c) \in Seq(LineChars)
           /\ SubSeq(b, 1, Len(b) - 1) \in Seq(LineChars)
           /\ b # << >> => [b EXCEPT ![Len(b)] = BLANK] \in Seq(LineChars)
<1>1. NL \in LineChars /\ BLANK \in LineChars /\ Typed \subseteq LineChars
  BY DEF LineChars
<1> QED BY <1>1

\* The places of a buffer that reach the screen are among its places.
LEMMA PrintsType ==
    ASSUME NEW S, NEW b \in Seq(S)
    PROVE  /\ Len(b) \in Nat /\ Prints(b) \subseteq 1 .. Len(b) /\ Prints(b) \subseteq Nat
           /\ Before(b, Len(b) + 1) = Cardinality(Prints(b))
<1>1. Prints(b) \subseteq 1 .. Len(b) /\ Len(b) \in Nat
  BY DEF Prints
<1>2. Prints(b) \subseteq Nat /\ {j \in Prints(b) : j < Len(b) + 1} = Prints(b)
  BY <1>1
<1> QED BY <1>1, <1>2, Zenon DEF Before

(* Before the first character, with the cursor at the start of the line. *)
LEMMA NoneWritten ==
    ASSUME NEW b \in Seq(LineChars), Numbers(b), NEW p, NEW lb \in Nat, NEW ly, lb < WIDTH
    PROVE  Written(p, lb, ly, lb, ly, b, 0)
<1>1. Before(b, 0 + 1) = 0
  BY DEF Numbers
<1>2. \A i \in Prints(b) : ~(i <= 0)
  BY PrintsType
<1>3. lb + 0 < WIDTH /\ lb = lb + 0
  OBVIOUS
<1> QED BY <1>1, <1>2, <1>3, Zenon DEF Written, At

(* A full line and the cursor behind it. *)
LEMMA AllWritten ==
    ASSUME NEW b \in Seq(LineChars), Numbers(b), NEW p, NEW x \in Nat, NEW y \in Nat,
           NEW lb \in Nat, NEW ly \in Nat, Written(p, x, y, lb, ly, b, Len(b)), Fits(lb, b)
    PROVE  LineOn(p, x, y, lb, ly, b)
<1> DEFINE n == Cardinality(Prints(b))
<1>1. Before(b, Len(b) + 1) = n /\ n \in Nat
  BY PrintsType, Zenon DEF Numbers
<1>2. \A i \in Prints(b) : i <= Len(b)
  BY PrintsType
<1> HIDE DEF n
<1>3. lb + n < 2 * WIDTH
  BY DEF Fits, n
<1>4. At(x, y, lb, ly, n)
  BY <1>1, <1>3, Zenon DEF Written
<1>5. \A i \in Prints(b) : p[ly * WIDTH + lb + Before(b, i)] = b[i]
  BY <1>1, <1>2, <1>3, Zenon DEF Written
<1>6. y * WIDTH + x = ly * WIDTH + lb + n
  BY <1>1, <1>4, CellBehind
<1> QED BY <1>5, <1>6, Zenon DEF LineOn, n

(* Enter adds nothing to what is shown. *)
LEMMA EnterPrints ==
    ASSUME NEW S, NEW b \in Seq(S)
    PROVE  /\ Prints(Append(b, NL)) = Prints(b)
           /\ \A i : Before(Append(b, NL), i) = Before(b, i)
           /\ \A i \in Prints(b) : Append(b, NL)[i] = b[i]
           /\ Len(Append(b, NL)) = Len(b) + 1
<1> DEFINE c == Append(b, NL)
<1>1. Len(c) = Len(b) + 1 /\ \A i \in 1 .. Len(b) : c[i] = b[i]
  OBVIOUS
<1>2. c[Len(b) + 1] = NL /\ Len(b) \in Nat
  OBVIOUS
<1> HIDE DEF c
<1>3. Prints(c) = Prints(b)
  BY <1>1, <1>2 DEF Prints
<1>4. \A i \in Prints(b) : c[i] = b[i]
  BY <1>1 DEF Prints
<1> QED BY <1>1, <1>3, <1>4, Zenon DEF Before, c

\* The newline Enter appends prints nothing, so the line stays written.
LEMMA EnterWritten ==
    ASSUME NEW b \in Seq(LineChars), NEW bb \in {b, Append(b, NL)},
           NEW p, NEW x, NEW y, NEW lb, NEW ly
    PROVE  /\ Prints(bb) = Prints(b)
           /\ Written(p, x, y, lb, ly, b, Len(b)) => Written(p, x, y, lb, ly, bb, Len(bb))
<1>1. CASE bb = b
  BY <1>1, Zenon
<1>2. CASE bb = Append(b, NL)
  <2>1. /\ Prints(bb) = Prints(b)
        /\ \A i \in Prints(b) : bb[i] = b[i] /\ Before(bb, i) = Before(b, i)
    BY <1>2, EnterPrints, Zenon
  <2>2. bb \in Seq(LineChars)
    BY <1>2, LineType
  <2>3. Before(bb, Len(bb) + 1) = Before(b, Len(b) + 1)
    BY <2>1, <2>2, PrintsType, Zenon
  <2>4. \A i \in Prints(b) : i <= Len(b) /\ i <= Len(bb)
    BY <2>1, <2>2, PrintsType
  <2> QED BY <2>1, <2>3, <2>4, Zenon DEF Written
<1> QED BY <1>1, <1>2, Zenon

(* A character that does not print leaves things as they are. *)
LEMMA SkipWritten ==
    ASSUME NEW b \in Seq(LineChars), Numbers(b), NEW p, NEW x, NEW y, NEW lb, NEW ly,
           NEW h \in Nat, h + 1 \in 1 .. Len(b), h + 1 \notin Prints(b),
           Written(p, x, y, lb, ly, b, h)
    PROVE  Written(p, x, y, lb, ly, b, h + 1)
<1>1. Before(b, h + 1 + 1) = Before(b, h + 1)
  BY Zenon DEF Numbers
<1>2. \A i \in Prints(b) : i <= h + 1 => i <= h
  BY PrintsType
<1> QED BY <1>1, <1>2, Zenon DEF Written

(* One more character of the line is put on the page behind the others.    *)
(* When that scrolls the screen, the line started on the last row, and     *)
(* scroll moves page and line start by the same row.                       *)
LEMMA OneMore ==
    ASSUME NEW b \in Seq(LineChars), Numbers(b), NEW p, IsPage(p),
           NEW x \in Nat, NEW y \in Nat, NEW lb \in Nat, NEW ly \in Nat,
           x < WIDTH, y < HEIGHT, lb < WIDTH, ly < HEIGHT,
           NEW j \in 1 .. Len(b), j \in Prints(b), b[j] \notin {NL, BS, NUL},
           NEW h \in Nat, j = h + 1, Written(p, x, y, lb, ly, b, h)
    PROVE  LET e == putch(D(p, x, y, lb, ly, b), b[j])
           IN  Written(e.page, e.x, e.y, e.lb, e.ly, b, j)
<1> DEFINE e == putch(D(p, x, y, lb, ly, b), b[j])
           q == [p EXCEPT ![y * WIDTH + x] = b[j]]
           n == Before(b, j)
           first == ly * WIDTH + lb
<1>0. e = IF x + 1 < WIDTH THEN D(q, x + 1, y, lb, ly, b)
          ELSE IF y + 1 < HEIGHT THEN D(q, 0, y + 1, lb, ly, b)
          ELSE D(ScrolledUp(q), 0, HEIGHT - 1, lb, HEIGHT - 2, b)
  BY PutchPrints
<1>1. Before(b, j + 1) = n + 1 /\ n \in Nat
  BY Zenon DEF Numbers
<1>2. \A i \in Prints(b) : i < j => Before(b, i) \in Nat /\ Before(b, i) < n
  BY PrintsType, Zenon DEF Numbers
<1>3. SUFFICES ASSUME lb + (n + 1) < 2 * WIDTH
               PROVE  Written(e.page, e.x, e.y, e.lb, e.ly, b, j)
  <2>1. e.lb = lb
    <3>1. PICK pp, xx, yy, lyy : e = D(pp, xx, yy, lb, lyy, b)
      <4> HIDE DEF e, q
      <4> QED BY <1>0, Zenon
    <3> HIDE DEF e
    <3> QED BY <3>1, Zenon DEF D
  <2> HIDE DEF e, n
  <2> QED BY <1>1, <2>1, Zenon DEF Written, e, n
<1>4. /\ WIDTH \in Nat /\ HEIGHT \in Nat /\ WIDTH > 0 /\ HEIGHT > 1 /\ PAGE \in Nat
      /\ PAGE >= WIDTH * HEIGHT /\ WIDTH * HEIGHT = HEIGHT * WIDTH /\ HEIGHT * WIDTH \in Nat
  BY ScreenAssumption
<1> HIDE DEF n, q, e
<1>5. At(x, y, lb, ly, n) /\ \A i \in Prints(b) : i <= h => p[first + Before(b, i)] = b[i]
  <2>1. h + 1 = j /\ lb + n < 2 * WIDTH
    BY <1>1, <1>3, <1>4
  <2> QED BY <2>1, Zenon DEF Written, n
<1>6. first \in Nat /\ y * WIDTH + x = first + n
  <2>1. first \in Nat
    BY CellOnScreen, Zenon
  <2>2. n \in Nat /\ At(x, y, lb, ly, n)
    BY <1>1, <1>5, Zenon
  <2>3. y * WIDTH + x = ly * WIDTH + lb + n
    BY <2>2, CellBehind
  <2> QED BY <2>1, <2>3, Zenon
<1> HIDE DEF first
<1>7. first + n \in Cells
  <2>1. y * WIDTH + x \in Nat /\ y * WIDTH + x < WIDTH * HEIGHT
    BY CellOnScreen
  <2> QED BY <1>4, <1>6, <2>1 DEF Cells
<1>8. \A i \in Prints(b) : i <= j => q[first + Before(b, i)] = b[i]
  <2> SUFFICES ASSUME NEW i \in Prints(b), i <= j PROVE q[first + Before(b, i)] = b[i]
    OBVIOUS
  <2>1. q = [p EXCEPT ![first + n] = b[j]]
    BY <1>6, Zenon DEF q
  <2>2. CASE i = j
    BY <1>7, <2>1, <2>2 DEF IsPage, n
  <2>3. CASE i # j
    <3>1. i <= h /\ i < j
      BY <2>3, PrintsType
    <3>2. Before(b, i) \in Nat /\ Before(b, i) < n /\ p[first + Before(b, i)] = b[i]
      BY <1>2, <1>5, <3>1, Zenon
    <3>3. first \in Nat /\ n \in Nat /\ PAGE \in Nat
      BY <1>1, <1>4, <1>6, Zenon
    <3>4. first + Before(b, i) \in Cells /\ first + Before(b, i) # first + n
      BY <1>7, <3>2, <3>3 DEF Cells
    <3> QED BY <2>1, <3>2, <3>4 DEF IsPage
  <2> QED BY <2>2, <2>3
<1>9. \A i \in Prints(b) : i <= j => Before(b, i) \in Nat /\ Before(b, i) <= n
  <2> SUFFICES ASSUME NEW i \in Prints(b), i <= j PROVE Before(b, i) \in Nat /\ Before(b, i) <= n
    OBVIOUS
  <2>1. i \in Nat /\ (i = j \/ i < j)
    BY PrintsType
  <2> QED BY <1>1, <1>2, <2>1 DEF n
<1>11. CASE x + 1 < WIDTH
  <2>1. e = D(q, x + 1, y, lb, ly, b)
    BY <1>0, <1>11
  <2>2. e.page = q /\ e.x = x + 1 /\ e.y = y /\ e.lb = lb /\ e.ly = ly
    BY <2>1, Zenon DEF D
  <2>3. At(x + 1, y, lb, ly, n + 1)
    BY <1>1, <1>4, <1>5, <1>11 DEF At
  <2> QED BY <1>1, <1>8, <2>2, <2>3 DEF Written, first
<1>12. CASE ~(x + 1 < WIDTH) /\ y + 1 < HEIGHT
  <2>1. e = D(q, 0, y + 1, lb, ly, b)
    BY <1>0, <1>12
  <2>2. e.page = q /\ e.x = 0 /\ e.y = y + 1 /\ e.lb = lb /\ e.ly = ly
    BY <2>1, Zenon DEF D
  <2>3. At(0, y + 1, lb, ly, n + 1)
    BY <1>1, <1>3, <1>4, <1>5, <1>12 DEF At
  <2> QED BY <1>1, <1>8, <2>2, <2>3 DEF Written, first
<1>13. CASE ~(x + 1 < WIDTH) /\ ~(y + 1 < HEIGHT)
  <2>1. e = D(ScrolledUp(q), 0, HEIGHT - 1, lb, HEIGHT - 2, b)
    BY <1>0, <1>13
  <2>2. e.page = ScrolledUp(q) /\ e.x = 0 /\ e.y = HEIGHT - 1 /\ e.lb = lb /\ e.ly = HEIGHT - 2
    BY <2>1, Zenon DEF D
  <2>3. ~(lb + (n + 1) < WIDTH) /\ 0 = lb + (n + 1) - WIDTH /\ HEIGHT - 1 = HEIGHT - 2 + 1
        /\ ly = HEIGHT - 1
    BY <1>1, <1>3, <1>4, <1>5, <1>13 DEF At
  <2> DEFINE r == (HEIGHT - 2) * WIDTH
  <2>4. /\ r \in Nat /\ (HEIGHT - 1) * WIDTH = r + WIDTH
        /\ HEIGHT * WIDTH = (HEIGHT - 1) * WIDTH + WIDTH
    <3>1. /\ HEIGHT - 2 \in Nat /\ HEIGHT - 2 \in Int /\ HEIGHT - 1 \in Int
          /\ HEIGHT - 2 + 1 = HEIGHT - 1 /\ HEIGHT - 1 + 1 = HEIGHT
      BY <1>4
    <3>2. r \in Nat
      BY <1>4, <3>1
    <3>3. (HEIGHT - 2 + 1) * WIDTH = r + WIDTH
      BY <3>1, RowBelow, Zenon
    <3>4. (HEIGHT - 1 + 1) * WIDTH = (HEIGHT - 1) * WIDTH + WIDTH
      BY <3>1, RowBelow, Zenon
    <3> QED BY <3>1, <3>2, <3>3, <3>4, Zenon
  <2>5. first = r + WIDTH + lb
    BY <2>3, <2>4 DEF first
  <2> HIDE DEF r
  <2>6. ASSUME NEW i \in Prints(b), i <= j
        PROVE  ScrolledUp(q)[r + lb + Before(b, i)] = b[i]
    <3> DEFINE m == r + lb + Before(b, i)
    <3>0. Before(b, i) \in Nat /\ Before(b, i) <= n
      BY <1>9, <2>6, Zenon
    <3>1. r \in Nat /\ n \in Nat /\ WIDTH \in Nat /\ 0 = lb + (n + 1) - WIDTH
      BY <1>1, <1>4, <2>3, <2>4, Zenon
    <3>2. m \in Nat /\ m < r + WIDTH /\ m + WIDTH = first + Before(b, i)
      BY <2>5, <3>0, <3>1
    <3> HIDE DEF m
    <3>3. m < (HEIGHT - 1) * WIDTH
      BY <2>4, <3>2, Zenon
    <3>4. m \in Cells
      BY <1>4, <2>4, <3>1, <3>2 DEF Cells
    <3>5. ScrolledUp(q)[m] = q[m + WIDTH]
      BY <3>3, <3>4 DEF ScrolledUp
    <3> QED BY <1>8, <2>6, <3>2, <3>5, Zenon DEF m
  <2>7. At(0, HEIGHT - 1, lb, HEIGHT - 2, n + 1)
    BY <2>3, Zenon DEF At
  <2> QED BY <1>1, <2>2, <2>6, <2>7, Zenon DEF Written, r
<1> QED BY <1>11, <1>12, <1>13, Zenon DEF e

(* putch of the next character of a line in which no newline came yet. *)
LEMMA PutWritten ==
    ASSUME NEW b \in Seq(LineChars), Numbers(b), NEW p, IsPage(p),
           NEW x \in Nat, NEW y \in Nat, NEW lb \in Nat, NEW ly \in Nat,
           x < WIDTH, y < HEIGHT, lb < WIDTH, ly < HEIGHT,
           NEW h \in Nat, h + 1 \in 1 .. Len(b), b[h + 1] # NL, \A i \in 1 .. h : b[i] # NL,
           Written(p, x, y, lb, ly, b, h)
    PROVE  LET e == putch(D(p, x, y, lb, ly, b), b[h + 1])
           IN  Written(e.page, e.x, e.y, e.lb, e.ly, b, h + 1)
<1> DEFINE c == b[h + 1]
           d == D(p, x, y, lb, ly, b)
<1>1. CASE c = NUL
  <2>1. putch(d, c) = d
    BY <1>1 DEF putch, NL, BS, NUL
  <2>2. d.page = p /\ d.x = x /\ d.y = y /\ d.lb = lb /\ d.ly = ly
    BY DisplayFields
  <2>3. h + 1 \notin Prints(b)
    BY <1>1 DEF Prints
  <2>4. Written(p, x, y, lb, ly, b, h + 1)
    BY <2>3, SkipWritten, Zenon
  <2> HIDE DEF d
  <2> QED BY <2>1, <2>2, <2>4, Zenon DEF d
<1>2. CASE c # NUL
  <2>1. c \notin {NL, BS, NUL}
    <3>1. c \in LineChars
      OBVIOUS
    <3> QED BY <1>2, <3>1, ScreenAssumption, Zenon DEF LineChars, NL, BS, BLANK
  <2>2. h + 1 \in Prints(b)
    <3>1. \A i \in 1 .. h + 1 : b[i] # NL
      OBVIOUS
    <3> QED BY <1>2, <3>1 DEF Prints
  <2> QED BY <2>1, <2>2, OneMore, Zenon
<1> QED BY <1>1, <1>2, Zenon

-----------------------------------------------------------------------------
(* Where the cursor and the start of the line may be. *)
Columns == 0 .. WIDTH - 1
Rows == 0 .. HEIGHT - 1

(* How far the statements of the call in progress may have moved the       *)
(* cursor.                                                                 *)
XMax == IF echo = "none" /\ pc \in {"edge", "wrap"} THEN WIDTH ELSE WIDTH - 1
YMax == IF echo = "none" /\ pc \in {"nl_col", "nl_scroll", "scroll"} THEN HEIGHT ELSE HEIGHT - 1

Typed4 ==
    /\ curr_terminal \in Terminals /\ torn \in Nat
    /\ csr_x \in [Terminals -> Nat] /\ csr_y \in [Terminals -> Nat]
    /\ line_beginning \in [Terminals -> Nat] /\ line_y \in [Terminals -> Nat]
    /\ pc = "store" => where \in Cells

Bounded ==
    /\ \A t \in Terminals : line_beginning[t] \in Columns /\ line_y[t] \in Rows
    /\ \A t \in Terminals : t # curr_terminal => csr_x[t] \in Columns /\ csr_y[t] \in Rows
    /\ csr_x[curr_terminal] <= XMax /\ csr_y[curr_terminal] <= YMax
    /\ pc = "store" => where < WIDTH * HEIGHT

SInv == Typed4 /\ (torn = 0 => Bounded)

(* The display of a state that satisfies the invariant. *)
LEMMA DisplayBounds ==
    ASSUME SInv
    PROVE  /\ Display = D(page, csr_x[curr_terminal], csr_y[curr_terminal],
                          line_beginning[curr_terminal], line_y[curr_terminal],
                          buffer[curr_terminal])
           /\ csr_x[curr_terminal] \in Nat /\ csr_y[curr_terminal] \in Nat
           /\ line_beginning[curr_terminal] \in Nat /\ line_y[curr_terminal] \in Nat
           /\ torn = 0 => /\ csr_x[curr_terminal] <= XMax /\ csr_y[curr_terminal] <= YMax
                          /\ line_beginning[curr_terminal] < WIDTH
                          /\ line_y[curr_terminal] < HEIGHT
<1>1. Display = D(page, csr_x[curr_terminal], csr_y[curr_terminal],
                  line_beginning[curr_terminal], line_y[curr_terminal], buffer[curr_terminal])
  BY DEF Display, D
<1>2. /\ csr_x[curr_terminal] \in Nat /\ csr_y[curr_terminal] \in Nat
      /\ line_beginning[curr_terminal] \in Nat /\ line_y[curr_terminal] \in Nat
  BY DEF SInv, Typed4
<1>3. ASSUME torn = 0
      PROVE  line_beginning[curr_terminal] < WIDTH /\ line_y[curr_terminal] < HEIGHT
  BY <1>2, <1>3, ScreenAssumption DEF SInv, Typed4, Bounded, Columns, Rows
<1>4. torn = 0 => csr_x[curr_terminal] <= XMax /\ csr_y[curr_terminal] <= YMax
  BY DEF SInv, Bounded
<1> QED BY <1>1, <1>2, <1>3, <1>4

(* A step that sets the display of the terminal in front to d, and leaves  *)
(* that terminal in front, keeps the invariant if d is within the bounds   *)
(* of the control point it leads to.                                       *)
LEMMA StepKeeps ==
    ASSUME SInv, NEW d, IsDisplay(d), SetDisplay(d),
           curr_terminal' = curr_terminal, torn' = torn,
           pc' = "store" => where' \in Cells /\ (torn = 0 => where' < WIDTH * HEIGHT),
           torn = 0 => d.x <= XMax' /\ d.y <= YMax' /\ d.lb < WIDTH /\ d.ly < HEIGHT
    PROVE  SInv'
<1>1. d.x \in Nat /\ d.y \in Nat /\ d.lb \in Nat /\ d.ly \in Nat
  BY DEF IsDisplay
<1>2. /\ csr_x' = [csr_x EXCEPT ![curr_terminal] = d.x]
      /\ csr_y' = [csr_y EXCEPT ![curr_terminal] = d.y]
      /\ line_beginning' = [line_beginning EXCEPT ![curr_terminal] = d.lb]
      /\ line_y' = [line_y EXCEPT ![curr_terminal] = d.ly]
  BY DEF SetDisplay
<1>3. Typed4'
  BY <1>1, <1>2 DEF SInv, Typed4
<1>4. ASSUME torn' = 0 PROVE Bounded'
  <2>1. \A t \in Terminals : line_beginning'[t] \in Columns /\ line_y'[t] \in Rows
    BY <1>1, <1>2, <1>4, ScreenAssumption DEF SInv, Typed4, Bounded, Columns, Rows
  <2>2. \A t \in Terminals : t # curr_terminal' => csr_x'[t] \in Columns /\ csr_y'[t] \in Rows
    BY <1>2, <1>4 DEF SInv, Typed4, Bounded, Columns, Rows
  <2>3. csr_x'[curr_terminal'] <= XMax' /\ csr_y'[curr_terminal'] <= YMax'
    BY <1>2, <1>4 DEF SInv, Typed4
  <2> QED BY <1>4, <2>1, <2>2, <2>3 DEF Bounded, Columns, Rows
<1> QED BY <1>3, <1>4 DEF SInv

\* At boot every display is blank with its cursor in the corner.
LEMMA InitSInv == Init => SInv
<1> SUFFICES ASSUME Init PROVE SInv
  OBVIOUS
<1>1. Typed4
  BY ScreenAssumption DEF Init, Typed4
<1>2. Bounded
  BY ScreenAssumption DEF Init, Bounded, Columns, Rows, XMax, YMax
<1> QED BY <1>1, <1>2 DEF SInv

-----------------------------------------------------------------------------
(* keyboard_handler. *)
LEMMA ReprintKeeps ==
    ASSUME SInv, NEW p, NEW b, NEW x \in Nat, NEW y \in Nat, NEW lb \in Nat, NEW ly \in Nat,
           NEW mode, mode # "none",
           torn = 0 => lb < WIDTH /\ ly < HEIGHT,
           Reprint(D(p, x, y, lb, ly, b), mode),
           UNCHANGED <<hidden, call, torn>>
    PROVE  SInv'
<1> DEFINE d == D(p, x, y, lb, ly, b)
           e == D(p, lb, ly, lb, ly, b)
<1>1. SetDisplay(SetY(SetX(d, d.lb), d.ly)) /\ echo' = mode
  BY DEF Reprint, SetX, SetY
<1>2. SetY(SetX(d, d.lb), d.ly) = e
  BY DisplayFields, DisplayUpdate
<1>3. IsDisplay(e) /\ e.x = lb /\ e.y = ly /\ e.lb = lb /\ e.ly = ly
  BY DisplayFields DEF IsDisplay
<1> HIDE DEF d, e
<1>4. XMax' = WIDTH - 1 /\ YMax' = HEIGHT - 1
  BY <1>1 DEF XMax, YMax
<1>5. SetDisplay(e)
  BY <1>1, <1>2
<1>6. curr_terminal' = curr_terminal /\ torn' = torn /\ pc' = pc /\ where' = where
  BY DEF hidden, call
<1>7. pc' = "store" => where' \in Cells /\ (torn = 0 => where' < WIDTH * HEIGHT)
  BY <1>6 DEF SInv, Typed4, Bounded
<1>8. torn = 0 => e.x <= XMax' /\ e.y <= YMax' /\ e.lb < WIDTH /\ e.ly < HEIGHT
  BY <1>3, <1>4, ScreenAssumption
<1> QED BY <1>3, <1>5, <1>6, <1>7, <1>8, StepKeeps

\* The keyboard handler's branches keep every cursor on its page.
LEMMA HandlerKeeps ==
    ASSUME SInv,
           \/ \E c \in Typed : KeyChar(c)
           \/ KeyEnter \/ KeyBackspace \/ KeyClear \/ EchoPut \/ EchoErased
    PROVE  SInv'
<1> DEFINE x == csr_x[curr_terminal]
           y == csr_y[curr_terminal]
           lb == line_beginning[curr_terminal]
           ly == line_y[curr_terminal]
           b == buffer[curr_terminal]
           d == D(page, x, y, lb, ly, b)
<1>1. /\ Display = d
      /\ x \in Nat /\ y \in Nat /\ lb \in Nat /\ ly \in Nat
      /\ torn = 0 => x <= XMax /\ y <= YMax /\ lb < WIDTH /\ ly < HEIGHT
  BY DisplayBounds
<1> HIDE DEF x, y, lb, ly, b
<1> USE <1>1
<1>2. ASSUME NEW c \in Typed, KeyChar(c) PROVE SInv'
  <2>1. PICK bb : add_to_buffer(Display, c) = D(page, x, y, lb, ly, bb)
    BY AddValue
  <2>2. Reprint(D(page, x, y, lb, ly, bb), "print") /\ UNCHANGED <<hidden, call, torn>>
    BY <1>2, <2>1 DEF KeyChar
  <2> QED BY <2>2, ReprintKeeps
<1>3. ASSUME KeyEnter PROVE SInv'
  <2>1. PICK bb : add_to_buffer(Display, NL) = D(page, x, y, lb, ly, bb)
    BY AddValue
  <2>2. SetDisplay(D(page, x, y, lb, ly, bb))
        /\ UNCHANGED <<curr_terminal, torn, pc, where, echo>>
    BY <1>3, <2>1 DEF KeyEnter, hidden, call
  <2>3. XMax' = XMax /\ YMax' = YMax
    BY <2>2 DEF XMax, YMax
  <2>4. pc' = "store" => where' \in Cells /\ (torn = 0 => where' < WIDTH * HEIGHT)
    BY <2>2 DEF SInv, Typed4, Bounded
  <2> DEFINE e == D(page, x, y, lb, ly, bb)
  <2>5. IsDisplay(e) /\ e.x = x /\ e.y = y /\ e.lb = lb /\ e.ly = ly
    BY DisplayFields DEF IsDisplay
  <2> HIDE DEF e
  <2>6. torn = 0 => e.x <= XMax' /\ e.y <= YMax' /\ e.lb < WIDTH /\ e.ly < HEIGHT
    BY <2>3, <2>5
  <2> QED BY <2>2, <2>4, <2>5, <2>6, StepKeeps DEF e
<1>4. ASSUME KeyBackspace PROVE SInv'
  <2> DEFINE bb == [Display.buffer EXCEPT ![Len(Display.buffer)] = BLANK]
  <2>1. SetBuffer(Display, bb) = D(page, x, y, lb, ly, bb)
    BY DisplayUpdate
  <2>2. Reprint(Display, "print") \/ Reprint(SetBuffer(Display, bb), "erase")
    BY <1>4 DEF KeyBackspace, SetBuffer
  <2>3. UNCHANGED <<hidden, call, torn>>
    BY <1>4 DEF KeyBackspace
  <2> HIDE DEF bb
  <2> QED BY <2>1, <2>2, <2>3, ReprintKeeps
<1>5. ASSUME KeyClear PROVE SInv'
  <2>1. PICK q : clear_screen(Display) = D(q, 0, 0, lb, 0, << >>)
    BY ClearValue
  <2>2. Reprint(D(q, 0, 0, lb, 0, << >>), "print") /\ UNCHANGED <<hidden, call, torn>>
    BY <1>5, <2>1 DEF KeyClear
  <2>3. torn = 0 => lb < WIDTH /\ 0 < HEIGHT
    BY ScreenAssumption
  <2> QED BY <2>2, <2>3, ReprintKeeps
<1>6. ASSUME EchoErased PROVE SInv'
  <2>1. /\ Reprint(SetBuffer(Display, SubSeq(Display.buffer, 1, Len(Display.buffer) - 1)), "print")
        /\ UNCHANGED <<hidden, call, torn>>
    BY <1>6 DEF EchoErased, SetBuffer
  <2> DEFINE bb == SubSeq(Display.buffer, 1, Len(Display.buffer) - 1)
  <2>2. Reprint(SetBuffer(Display, bb), "print") /\ UNCHANGED <<hidden, call, torn>>
    BY <2>1, Zenon
  <2> HIDE DEF bb
  <2>3. SetBuffer(Display, bb) = D(page, x, y, lb, ly, bb)
    BY DisplayUpdate
  <2> QED BY <2>2, <2>3, ReprintKeeps
<1>7. ASSUME EchoPut PROVE SInv'
  <2>0. /\ SetDisplay(putch(Display, Display.buffer[k + 1]))
        /\ UNCHANGED <<curr_terminal, torn, pc, where, echo>> /\ echo # "none"
    BY <1>7 DEF EchoPut, hidden, call
  <2> DEFINE c == Display.buffer[k + 1]
             e == putch(d, c)
  <2>1. SetDisplay(e)
    BY <2>0, Zenon
  <2> HIDE DEF e
  <2>2. XMax = WIDTH - 1 /\ YMax = HEIGHT - 1 /\ XMax' = WIDTH - 1 /\ YMax' = HEIGHT - 1
    BY <2>0 DEF XMax, YMax
  <2>3. pc' = "store" => where' \in Cells /\ (torn = 0 => where' < WIDTH * HEIGHT)
    BY <2>0 DEF SInv, Typed4, Bounded
  <2>4. torn = 0 => x < WIDTH /\ y < HEIGHT
    BY <2>2, ScreenAssumption
  <2> HIDE DEF c
  <2>5. Within(e, page, IF c = NL THEN << >> ELSE b,
               x < WIDTH /\ y < HEIGHT /\ lb < WIDTH /\ ly < HEIGHT)
    BY PutchWithin DEF e
  <2>6. IsDisplay(e) /\ (torn = 0 => OnScreen(e))
    BY <2>4, <2>5, WithinFields, Zenon
  <2>7. torn = 0 => e.x <= XMax' /\ e.y <= YMax' /\ e.lb < WIDTH /\ e.ly < HEIGHT
    BY <2>2, <2>6, ScreenAssumption DEF IsDisplay, OnScreen
  <2> QED BY <2>0, <2>1, <2>3, <2>6, <2>7, StepKeeps
<1> QED BY <1>2, <1>3, <1>4, <1>5, <1>6, <1>7

(* A switch is only counted in torn when it comes inside a call; elsewhere *)
(* the cursor it leaves behind is on the screen.                           *)
LEMMA SwitchKeeps == ASSUME SInv, NEW t \in Terminals, KeySwitch(t) PROVE SInv'
<1>1. /\ echo = "none" /\ echo' = echo /\ pc' = pc /\ where' = where
      /\ UNCHANGED <<csr_x, csr_y, line_beginning, line_y>> /\ curr_terminal' = t
      /\ torn' = IF pc \in {"user", "wait"} THEN torn ELSE torn + 1
  BY DEF KeySwitch, call, cursor, start
<1>2. Typed4'
  BY <1>1 DEF SInv, Typed4
<1>3. ASSUME torn' = 0 PROVE Bounded'
  <2>1. pc \in {"user", "wait"} /\ torn = 0
    BY <1>1, <1>3 DEF SInv, Typed4
  <2>2. XMax = WIDTH - 1 /\ YMax = HEIGHT - 1 /\ XMax' = WIDTH - 1 /\ YMax' = HEIGHT - 1
    BY <1>1, <2>1 DEF XMax, YMax
  <2>3. \A u \in Terminals : csr_x[u] \in Columns /\ csr_y[u] \in Rows
    BY <2>1, <2>2, ScreenAssumption DEF SInv, Typed4, Bounded, Columns, Rows
  <2> QED BY <1>1, <2>1, <2>2, <2>3, ScreenAssumption DEF SInv, Typed4, Bounded, Columns, Rows
<1> QED BY <1>2, <1>3 DEF SInv

(* Steps that leave cursors and line starts alone. *)
LEMMA OthersKeep ==
    ASSUME SInv,
           \/ EchoDone \/ ReadCall \/ ReadReturn
           \/ \E w \in Texts : WriteCall(w)
           \/ UNCHANGED vars
    PROVE  SInv'
<1>1. UNCHANGED <<csr_x, csr_y, line_beginning, line_y, curr_terminal, torn, where>>
  BY DEF EchoDone, ReadCall, ReadReturn, WriteCall, vars, call, cursor, start, hidden
<1>2. pc' = "store" => pc = "store"
  BY DEF EchoDone, ReadCall, ReadReturn, WriteCall, vars, call
<1>3. /\ echo' # echo => echo # "none" /\ pc' = pc
      /\ pc' # pc => pc \in {"user", "flag"}
  BY DEF EchoDone, ReadCall, ReadReturn, WriteCall, vars, call
<1>4. XMax <= XMax' /\ YMax <= YMax'
  BY <1>3, ScreenAssumption DEF XMax, YMax
<1>5. XMax \in Int /\ YMax \in Int /\ XMax' \in Int /\ YMax' \in Int
  BY ScreenAssumption DEF XMax, YMax
<1>6. Typed4'
  BY <1>1, <1>2, Zenon DEF SInv, Typed4
<1>7. ASSUME torn' = 0 PROVE Bounded'
  <2>1. csr_x'[curr_terminal'] <= XMax' /\ csr_y'[curr_terminal'] <= YMax'
    BY <1>1, <1>4, <1>5, <1>7 DEF SInv, Typed4, Bounded
  <2> QED BY <1>1, <1>2, <1>7, <2>1 DEF SInv, Bounded, Columns, Rows
<1> QED BY <1>6, <1>7 DEF SInv

-----------------------------------------------------------------------------
(* terminal_write and terminal_read.  A statement keeps the invariant if   *)
(* the display it makes is within the bounds of the next one.              *)
XAt(at) == IF at \in {"edge", "wrap"} THEN WIDTH ELSE WIDTH - 1
YAt(at) == IF at \in {"nl_col", "nl_scroll", "scroll"} THEN HEIGHT ELSE HEIGHT - 1

\* One statement of putc() or of the newline path, interrupted anywhere after it.
LEMMA StatementKeeps ==
    ASSUME SInv, NEW from, NEW to, NEW d, IsDisplay(d), Statement(from, to, d),
           to = "store" => where' \in Cells /\ (torn = 0 => where' < WIDTH * HEIGHT),
           torn = 0 => d.x <= XAt(to) /\ d.y <= YAt(to) /\ d.lb < WIDTH /\ d.ly < HEIGHT
    PROVE  SInv'
<1>1. SetDisplay(d) /\ curr_terminal' = curr_terminal /\ torn' = torn /\ pc' = to
      /\ echo' = "none"
  BY DEF Statement, hidden
<1>2. XMax' = XAt(to) /\ YMax' = YAt(to)
  BY <1>1 DEF XMax, YMax, XAt, YAt
<1> QED BY <1>1, <1>2, StepKeeps

\* The same for a statement that does not compute the cell to store to.
LEMMA PutKeeps ==
    ASSUME SInv, NEW from, NEW to, NEW p, NEW b,
           NEW x \in Nat, NEW y \in Nat, NEW lb \in Nat, NEW ly \in Nat,
           Statement(from, to, D(p, x, y, lb, ly, b)), to # "store",
           torn = 0 => x <= XAt(to) /\ y <= YAt(to) /\ lb < WIDTH /\ ly < HEIGHT
    PROVE  SInv'
<1> DEFINE d == D(p, x, y, lb, ly, b)
<1>1. IsDisplay(d) /\ d.x = x /\ d.y = y /\ d.lb = lb /\ d.ly = ly
  BY DisplayFields DEF IsDisplay
<1>2. Statement(from, to, d)
  OBVIOUS
<1> HIDE DEF d
<1> QED BY <1>1, <1>2, StatementKeeps

(* The bounds of the display at the control point where a statement starts. *)
LEMMA FromBounds ==
    ASSUME SInv, NEW from, NEW to, NEW d, Statement(from, to, d), torn = 0
    PROVE  csr_x[curr_terminal] <= XAt(from) /\ csr_y[curr_terminal] <= YAt(from)
<1>1. echo = "none" /\ pc = from
  BY DEF Statement
<1>2. XMax = XAt(from) /\ YMax = YAt(from)
  BY <1>1 DEF XMax, YMax, XAt, YAt
<1> QED BY <1>2, DisplayBounds

\* Every statement but the store address and the scrolls, one by one.
LEMMA StatementsKeep ==
    ASSUME SInv,
           \/ PutNewLine \/ PutBack \/ PutNothing \/ PutStore \/ PutRight
           \/ PutEdge \/ PutWrap \/ PutRow \/ WriteEnd
           \/ LineRow \/ LineCol \/ LineStart \/ LineClear \/ ReadWake
    PROVE  SInv'
<1> DEFINE x == csr_x[curr_terminal]
           y == csr_y[curr_terminal]
           lb == line_beginning[curr_terminal]
           ly == line_y[curr_terminal]
           b == buffer[curr_terminal]
<1>1. /\ Display = D(page, x, y, lb, ly, b)
      /\ x \in Nat /\ y \in Nat /\ lb \in Nat /\ ly \in Nat
      /\ torn = 0 => lb < WIDTH /\ ly < HEIGHT
  BY DisplayBounds
<1>2. \A from, to, d : Statement(from, to, d) /\ torn = 0 => x <= XAt(from) /\ y <= YAt(from)
  BY FromBounds
<1>3. Display.x = x /\ Display.y = y
  BY <1>1, DisplayFields
<1>4. WIDTH \in Nat \ {0} /\ HEIGHT \in Nat \ {0}
  BY ScreenAssumption
<1> HIDE DEF x, y, lb, ly, b
<1> USE <1>1, <1>4
<1>5. ASSUME PutNewLine PROVE SInv'
  <2>1. Statement("next", "nl_row", Display)
    BY <1>5 DEF PutNewLine
  <2>3. torn = 0 => x <= XAt("nl_row") /\ y <= YAt("nl_row") /\ lb < WIDTH /\ ly < HEIGHT
    BY <1>2, <2>1 DEF XAt, YAt
  <2> QED BY <2>1, <2>3, PutKeeps
<1>6. ASSUME PutNothing PROVE SInv'
  <2>1. Statement("next", "next", Display)
    BY <1>6 DEF PutNothing
  <2>3. torn = 0 => x <= XAt("next") /\ y <= YAt("next") /\ lb < WIDTH /\ ly < HEIGHT
    BY <1>2, <2>1 DEF XAt, YAt
  <2> QED BY <2>1, <2>3, PutKeeps
<1>7. ASSUME ReadWake PROVE SInv'
  <2>1. Statement("wait", "nl_row", Display)
    BY <1>7 DEF ReadWake
  <2>3. torn = 0 => x <= XAt("nl_row") /\ y <= YAt("nl_row") /\ lb < WIDTH /\ ly < HEIGHT
    BY <1>2, <2>1 DEF XAt, YAt
  <2> QED BY <2>1, <2>3, PutKeeps
<1>8. ASSUME PutRight PROVE SInv'
  <2>1. Statement("right", "edge", SetX(Display, Display.x + 1))
    BY <1>8 DEF PutRight, SetX
  <2>2. SetX(Display, Display.x + 1) = D(page, x + 1, y, lb, ly, b)
    BY <1>3, DisplayUpdate
  <2>3. torn = 0 => x + 1 <= XAt("edge") /\ y <= YAt("edge") /\ lb < WIDTH /\ ly < HEIGHT
    BY <1>2, <2>1 DEF XAt, YAt
  <2> QED BY <2>1, <2>2, <2>3, PutKeeps
<1>9. ASSUME PutWrap PROVE SInv'
  <2>1. Statement("wrap", "row", SetX(Display, 0))
    BY <1>9 DEF PutWrap, SetX
  <2>2. SetX(Display, 0) = D(page, 0, y, lb, ly, b)
    BY <1>3, DisplayUpdate
  <2>3. torn = 0 => 0 <= XAt("row") /\ y <= YAt("row") /\ lb < WIDTH /\ ly < HEIGHT
    BY <1>2, <2>1 DEF XAt, YAt
  <2> QED BY <2>1, <2>2, <2>3, PutKeeps
<1>10. ASSUME PutRow PROVE SInv'
  <2>1. Statement("row", "scroll", SetY(Display, Display.y + 1))
    BY <1>10 DEF PutRow, SetY
  <2>2. SetY(Display, Display.y + 1) = D(page, x, y + 1, lb, ly, b)
    BY <1>3, DisplayUpdate
  <2>3. torn = 0 => x <= XAt("scroll") /\ y + 1 <= YAt("scroll") /\ lb < WIDTH /\ ly < HEIGHT
    BY <1>2, <2>1 DEF XAt, YAt
  <2> QED BY <2>1, <2>2, <2>3, PutKeeps
<1>11. ASSUME WriteEnd PROVE SInv'
  <2>1. Statement("next", "end", SetLb(Display, Display.x))
    BY <1>11 DEF WriteEnd, SetLb
  <2>2. SetLb(Display, Display.x) = D(page, x, y, x, ly, b)
    BY <1>3, DisplayUpdate
  <2>3. torn = 0 => x <= XAt("end") /\ y <= YAt("end") /\ x < WIDTH /\ ly < HEIGHT
    BY <1>2, <2>1 DEF XAt, YAt
  <2> QED BY <2>1, <2>2, <2>3, PutKeeps
<1>12. ASSUME LineRow PROVE SInv'
  <2>1. Statement("nl_row", "nl_col", SetY(Display, Display.y + 1))
    BY <1>12 DEF LineRow, SetY
  <2>2. SetY(Display, Display.y + 1) = D(page, x, y + 1, lb, ly, b)
    BY <1>3, DisplayUpdate
  <2>3. torn = 0 => x <= XAt("nl_col") /\ y + 1 <= YAt("nl_col") /\ lb < WIDTH /\ ly < HEIGHT
    BY <1>2, <2>1 DEF XAt, YAt
  <2> QED BY <2>1, <2>2, <2>3, PutKeeps
<1>13. ASSUME LineCol PROVE SInv'
  <2>1. Statement("nl_col", "nl_scroll", SetX(Display, 0))
    BY <1>13 DEF LineCol, SetX
  <2>2. SetX(Display, 0) = D(page, 0, y, lb, ly, b)
    BY <1>3, DisplayUpdate
  <2>3. torn = 0 => 0 <= XAt("nl_scroll") /\ y <= YAt("nl_scroll") /\ lb < WIDTH /\ ly < HEIGHT
    BY <1>2, <2>1 DEF XAt, YAt
  <2> QED BY <2>1, <2>2, <2>3, PutKeeps
<1>14. ASSUME LineStart PROVE SInv'
  <2>1. Statement("nl_line", "nl_clear", SetLy(Display, Display.y))
    BY <1>14 DEF LineStart, SetLy
  <2>2. SetLy(Display, Display.y) = D(page, x, y, lb, y, b)
    BY <1>3, DisplayUpdate
  <2>3. torn = 0 => x <= XAt("nl_clear") /\ y <= YAt("nl_clear") /\ lb < WIDTH /\ y < HEIGHT
    BY <1>2, <2>1 DEF XAt, YAt
  <2> QED BY <2>1, <2>2, <2>3, PutKeeps
<1>15. ASSUME PutBack PROVE SInv'
  <2>1. PICK xx \in Nat : xx = (IF x # 0 THEN x - 1 ELSE x) /\ xx <= x
    OBVIOUS
  <2>2. Statement("next", "edge", SetX(Display, IF Display.x # 0 THEN Display.x - 1 ELSE Display.x))
    BY <1>15 DEF PutBack, SetX
  <2>3. SetX(Display, IF Display.x # 0 THEN Display.x - 1 ELSE Display.x) = D(page, xx, y, lb, ly, b)
    BY <1>3, <2>1, DisplayUpdate
  <2>4. torn = 0 => xx <= XAt("edge") /\ y <= YAt("edge") /\ lb < WIDTH /\ ly < HEIGHT
    BY <1>2, <2>1, <2>2 DEF XAt, YAt
  <2> QED BY <2>1, <2>2, <2>3, <2>4, PutKeeps
<1>16. ASSUME PutStore PROVE SInv'
  <2> DEFINE q == [Display.page EXCEPT ![where] = Head(text)]
  <2>1. Statement("store", "right", SetPage(Display, q))
    BY <1>16 DEF PutStore, SetPage
  <2> HIDE DEF q
  <2>2. SetPage(Display, q) = D(q, x, y, lb, ly, b)
    BY DisplayUpdate
  <2>3. torn = 0 => x <= XAt("right") /\ y <= YAt("right") /\ lb < WIDTH /\ ly < HEIGHT
    BY <1>2, <2>1 DEF XAt, YAt
  <2> QED BY <2>1, <2>2, <2>3, PutKeeps
<1>17. ASSUME PutEdge PROVE SInv'
  <2>0. Statement("edge", IF Display.x >= WIDTH THEN "wrap" ELSE "scroll", Display)
    BY <1>17, Zenon DEF PutEdge
  <2> DEFINE to == IF Display.x >= WIDTH THEN "wrap" ELSE "scroll"
  <2>1. Statement("edge", to, Display)
    BY <2>0, Zenon
  <2>2. torn = 0 => x <= XAt(to) /\ y <= YAt(to) /\ lb < WIDTH /\ ly < HEIGHT
    BY <1>2, <1>3, <2>1 DEF XAt, YAt
  <2>3. to # "store"
    OBVIOUS
  <2> HIDE DEF to
  <2> QED BY <2>1, <2>2, <2>3, PutKeeps
<1>18. ASSUME LineClear PROVE SInv'
  <2>0. Statement("nl_clear", IF text = << >> THEN "flag" ELSE "edge", SetBuffer(Display, << >>))
    BY <1>18 DEF LineClear, SetBuffer
  <2> DEFINE to == IF text = << >> THEN "flag" ELSE "edge"
  <2>1. Statement("nl_clear", to, SetBuffer(Display, << >>))
    BY <2>0, Zenon
  <2>2. SetBuffer(Display, << >>) = D(page, x, y, lb, ly, << >>)
    BY DisplayUpdate
  <2>3. torn = 0 => x <= XAt(to) /\ y <= YAt(to) /\ lb < WIDTH /\ ly < HEIGHT
    BY <1>2, <2>1 DEF XAt, YAt
  <2>4. to # "store"
    OBVIOUS
  <2> HIDE DEF to
  <2> QED BY <2>1, <2>2, <2>3, <2>4, PutKeeps
<1> QED BY <1>5, <1>6, <1>7, <1>8, <1>9, <1>10, <1>11, <1>12, <1>13, <1>14, <1>15, <1>16, <1>17, <1>18

(* The statements that call scroll. *)
LEMMA ScrollsKeep == ASSUME SInv, PutScroll \/ LineScroll PROVE SInv'
<1> DEFINE x == csr_x[curr_terminal]
           y == csr_y[curr_terminal]
           lb == line_beginning[curr_terminal]
           ly == line_y[curr_terminal]
           b == buffer[curr_terminal]
           d == scroll(Display)
<1>1. /\ Display = D(page, x, y, lb, ly, b)
      /\ x \in Nat /\ y \in Nat /\ lb \in Nat /\ ly \in Nat
      /\ torn = 0 => lb < WIDTH /\ ly < HEIGHT
  BY DisplayBounds
<1>2. PICK from \in {"scroll", "nl_scroll"}, to \in {"next", "nl_line"} : Statement(from, to, d)
  BY DEF PutScroll, LineScroll
<1> HIDE DEF d
<1>3. torn = 0 => x <= XAt(from)
  BY <1>2, FromBounds, Zenon
<1> HIDE DEF x, y, lb, ly, b
<1>4. torn = 0 => x < WIDTH
  BY <1>1, <1>3, ScreenAssumption DEF XAt
<1>5. Within(d, page, b, x < WIDTH /\ lb < WIDTH /\ ly < HEIGHT)
  BY <1>1, ScrollWithin DEF d
<1>6. IsDisplay(d) /\ (torn = 0 => OnScreen(d))
  BY <1>1, <1>4, <1>5, WithinFields, Zenon
<1>7. torn = 0 => d.x <= XAt(to) /\ d.y <= YAt(to) /\ d.lb < WIDTH /\ d.ly < HEIGHT
  BY <1>6, ScreenAssumption DEF IsDisplay, OnScreen, XAt, YAt
<1> QED BY <1>2, <1>6, <1>7, StatementKeeps

(* The cell putch computes is tested against the end of the page, and it   *)
(* is on the screen because the cursor is.                                 *)
LEMMA WhereKeeps == ASSUME SInv, PutWhere PROVE SInv'
<1> DEFINE x == csr_x[curr_terminal]
           y == csr_y[curr_terminal]
           lb == line_beginning[curr_terminal]
           ly == line_y[curr_terminal]
           b == buffer[curr_terminal]
<1>1. /\ Display = D(page, x, y, lb, ly, b)
      /\ x \in Nat /\ y \in Nat /\ lb \in Nat /\ ly \in Nat
      /\ torn = 0 => lb < WIDTH /\ ly < HEIGHT
  BY DisplayBounds
<1>2. PICK to \in {"next", "store"} :
        /\ Statement("next", to, Display)
        /\ to = "store" => where' = Cell(Display) /\ ~(Cell(Display) >= PAGE)
  BY DEF PutWhere
<1>2a. torn = 0 => x <= XAt("next") /\ y <= YAt("next")
  BY <1>2, FromBounds, Zenon
<1> HIDE DEF x, y, lb, ly, b
<1>3. torn = 0 => x < WIDTH /\ y < HEIGHT
  BY <1>1, <1>2a, ScreenAssumption DEF XAt, YAt
<1>4. /\ IsDisplay(Display) /\ Display.x = x /\ Display.y = y
      /\ Display.lb = lb /\ Display.ly = ly
  BY <1>1, DisplayFields DEF IsDisplay
<1>5. Cell(Display) = y * WIDTH + x
  BY <1>4, Zenon DEF Cell
<1>6. Cell(Display) \in Nat /\ (torn = 0 => Cell(Display) < WIDTH * HEIGHT)
  BY <1>1, <1>3, <1>5, CellOnScreen
<1>7. to = "store" => where' \in Cells /\ (torn = 0 => where' < WIDTH * HEIGHT)
  BY <1>2, <1>6, ScreenAssumption DEF Cells
<1>8. torn = 0 => /\ Display.x <= XAt(to) /\ Display.y <= YAt(to)
                  /\ Display.lb < WIDTH /\ Display.ly < HEIGHT
  BY <1>1, <1>3, <1>4, ScreenAssumption DEF XAt, YAt
<1> QED BY <1>2, <1>4, <1>7, <1>8, StatementKeeps

(* terminal_write returns. *)
LEMMA ReturnKeeps == ASSUME SInv, WriteReturn PROVE SInv'
<1> DEFINE x == csr_x[curr_terminal]
           y == csr_y[curr_terminal]
           lb == line_beginning[curr_terminal]
           ly == line_y[curr_terminal]
           b == buffer[curr_terminal]
           d == D(page, x, y, lb, y, b)
<1>1. /\ Display = D(page, x, y, lb, ly, b)
      /\ x \in Nat /\ y \in Nat /\ lb \in Nat /\ ly \in Nat
      /\ torn = 0 => x <= XMax /\ y <= YMax /\ lb < WIDTH
  BY DisplayBounds
<1> HIDE DEF x, y, lb, ly, b
<1>2. /\ SetDisplay(SetLy(Display, Display.y))
      /\ echo = "none" /\ echo' = "none" /\ pc = "end" /\ pc' = "user"
      /\ curr_terminal' = curr_terminal /\ torn' = torn
  BY DEF WriteReturn, SetLy, hidden
<1>3. SetLy(Display, Display.y) = d
  BY <1>1, DisplayFields, DisplayUpdate
<1>4. IsDisplay(d) /\ d.x = x /\ d.y = y /\ d.lb = lb /\ d.ly = y
  BY <1>1, DisplayFields DEF IsDisplay
<1> HIDE DEF d
<1>5. XMax = WIDTH - 1 /\ YMax = HEIGHT - 1 /\ XMax' = WIDTH - 1 /\ YMax' = HEIGHT - 1
  BY <1>2 DEF XMax, YMax
<1>6. torn = 0 => d.x <= XMax' /\ d.y <= YMax' /\ d.lb < WIDTH /\ d.ly < HEIGHT
  <2>1. y \in Nat /\ (torn = 0 => x <= WIDTH - 1 /\ y <= HEIGHT - 1 /\ lb < WIDTH)
    BY <1>1, <1>5, Zenon
  <2>2. y <= HEIGHT - 1 => y < HEIGHT
    BY <2>1, ScreenAssumption
  <2> QED BY <1>4, <1>5, <2>1, <2>2, Zenon
<1> QED BY <1>2, <1>3, <1>4, <1>6, StepKeeps

\* Every step keeps every cursor on its page.
LEMMA NextSInv == ASSUME SInv, [Next]_vars PROVE SInv'
<1>1. CASE Next
  BY <1>1, HandlerKeeps, SwitchKeeps, OthersKeep, StatementsKeep, ScrollsKeep, WhereKeeps,
     ReturnKeeps DEF Next
<1>2. CASE UNCHANGED vars
  BY <1>2, OthersKeep
<1> QED BY <1>1, <1>2

(* putch stores inside the page of video memory, and on the screen unless  *)
(* the terminal was switched inside a call, for every size of screen and   *)
(* page, any number of terminals, any typing and any output.               *)
THEOREM StoresSafe == Spec => []StoresOnScreen
<1>1. SInv => StoresOnScreen
  BY DEF SInv, Typed4, Bounded, StoresOnScreen
<1> QED BY <1>1, InitSInv, NextSInv, PTL DEF Spec

-----------------------------------------------------------------------------
(* How much of the line is on the page.  The lines are numbered, which     *)
(* PlacesNumbered proves.                                                  *)
Numbered == \A b \in Seq(LineChars) : Numbers(b)

EchoTypes ==
    /\ IsPage(page) /\ memory = [t \in Terminals |-> memory[t]]
    /\ \A t \in Terminals : IsPage(memory[t])
    /\ buffer \in [Terminals -> Seq(LineChars)] /\ shown \in [Terminals -> BOOLEAN]
    /\ echo \in {"none", "print", "erase"} /\ k \in Nat

(* A terminal that was echoed shows its line, *)
Echoed(t) ==
    shown[t] /\ Prints(buffer[t]) # {} =>
        Written(PageOf(t), csr_x[t], csr_y[t], line_beginning[t], line_y[t], buffer[t],
                Len(buffer[t]))

(* and while print_buffer runs, the characters it has been through are     *)
(* there; if one was a newline, it has emptied the buffer.                 *)
Echoing ==
    LET t == curr_terminal
        b == buffer[t]
    IN  b # << >> =>
          /\ k <= Len(b) /\ \A i \in 1 .. k : b[i] # NL
          /\ Written(page, csr_x[t], csr_y[t], line_beginning[t], line_y[t], b, k)

EInv ==
    /\ EchoTypes
    /\ torn = 0 =>
         /\ \A t \in Terminals : t # curr_terminal \/ echo = "none" => Echoed(t)
         /\ echo = "print" => Echoing

-----------------------------------------------------------------------------
(* The display of a state that satisfies both invariants. *)
LEMMA FrontTypes ==
    ASSUME SInv, EInv
    PROVE  /\ IsPage(Display.page) /\ Display.page = page
           /\ Display.buffer = buffer[curr_terminal]
           /\ curr_terminal \in Terminals /\ Display.buffer \in Seq(LineChars)
           /\ << >> \in Seq(LineChars)
<1>1. Display.page = page /\ Display.buffer = buffer[curr_terminal]
  BY DEF Display
<1>2. curr_terminal \in Terminals
  BY DEF SInv, Typed4
<1> QED BY <1>1, <1>2 DEF EInv, EchoTypes

(* SetDisplay sets the cursor, the line and the page in front. *)
LEMMA FrontSet ==
    ASSUME SInv, EInv, NEW d, SetDisplay(d), NEW t, t = curr_terminal
    PROVE  /\ page' = d.page /\ csr_x'[t] = d.x /\ csr_y'[t] = d.y
           /\ line_beginning'[t] = d.lb /\ line_y'[t] = d.ly /\ buffer'[t] = d.buffer
<1>1. /\ t \in Terminals /\ csr_x \in [Terminals -> Nat] /\ csr_y \in [Terminals -> Nat]
      /\ line_beginning \in [Terminals -> Nat] /\ line_y \in [Terminals -> Nat]
      /\ buffer \in [Terminals -> Seq(LineChars)]
  BY Zenon DEF SInv, Typed4, EInv, EchoTypes
<1> QED BY <1>1 DEF SetDisplay

(* Changing the display of the terminal in front leaves the others as they *)
(* are, and all of them pages and lines.                                   *)
LEMMA OthersEchoed ==
    ASSUME SInv, EInv, NEW d, SetDisplay(d), IsPage(d.page), d.buffer \in Seq(LineChars),
           UNCHANGED <<hidden, torn>>,
           shown' \in [Terminals -> BOOLEAN],
           \A t \in Terminals : t # curr_terminal => shown'[t] = shown[t],
           echo' \in {"none", "print", "erase"}, k' \in Nat
    PROVE  /\ EchoTypes'
           /\ torn = 0 => \A t \in Terminals : t # curr_terminal => Echoed(t)'
<1>1. /\ page' = d.page
      /\ csr_x' = [csr_x EXCEPT ![curr_terminal] = d.x]
      /\ csr_y' = [csr_y EXCEPT ![curr_terminal] = d.y]
      /\ line_beginning' = [line_beginning EXCEPT ![curr_terminal] = d.lb]
      /\ line_y' = [line_y EXCEPT ![curr_terminal] = d.ly]
      /\ buffer' = [buffer EXCEPT ![curr_terminal] = d.buffer]
      /\ memory' = memory /\ curr_terminal' = curr_terminal
  BY DEF SetDisplay, hidden
<1>2. EchoTypes'
  BY <1>1, Zenon DEF EInv, EchoTypes, IsPage
<1>3. ASSUME torn = 0, NEW t \in Terminals, t # curr_terminal PROVE Echoed(t)'
  <2>1. Echoed(t)
    BY <1>3 DEF EInv
  <2>2. /\ csr_x'[t] = csr_x[t] /\ csr_y'[t] = csr_y[t]
        /\ line_beginning'[t] = line_beginning[t] /\ line_y'[t] = line_y[t]
        /\ buffer'[t] = buffer[t] /\ shown'[t] = shown[t]
    BY <1>1, <1>3 DEF SInv, Typed4, EInv, EchoTypes
  <2>3. PageOf(t)' = PageOf(t)
    BY <1>1, <1>3, Zenon DEF PageOf
  <2> QED BY <2>1, <2>2, <2>3, Zenon DEF Echoed
<1> QED BY <1>2, <1>3

(* A statement of a program's call makes the terminal count as not echoed. *)
LEMMA StatementEchoes ==
    ASSUME SInv, EInv, NEW d, SetDisplay(d), IsPage(d.page), d.buffer \in Seq(LineChars),
           echo = "none", UNCHANGED <<hidden, torn, echo, k>>,
           shown' = [shown EXCEPT ![curr_terminal] = FALSE]
    PROVE  EInv'
<1>1. shown' \in [Terminals -> BOOLEAN] /\ k' \in Nat /\ shown'[curr_terminal] = FALSE
      /\ \A t \in Terminals : t # curr_terminal => shown'[t] = shown[t]
  BY DEF EInv, EchoTypes, SInv, Typed4
<1>2. EchoTypes' /\ (torn = 0 => \A t \in Terminals : t # curr_terminal => Echoed(t)')
  BY <1>1, OthersEchoed
<1>3. Echoed(curr_terminal)'
  <2>1. curr_terminal' = curr_terminal
    BY DEF hidden
  <2> QED BY <1>1, <2>1, Zenon DEF Echoed
<1>4. curr_terminal' = curr_terminal /\ torn' = torn /\ echo' = "none"
  BY DEF hidden
<1> QED BY <1>2, <1>3, <1>4 DEF EInv

\* The statements of a call in progress do not disturb the echo.
LEMMA CallEchoes ==
    ASSUME SInv, EInv,
           \/ PutNewLine \/ PutBack \/ PutNothing \/ PutWhere \/ PutStore \/ PutRight
           \/ PutEdge \/ PutWrap \/ PutRow \/ WriteEnd \/ WriteReturn
           \/ LineRow \/ LineCol \/ LineStart \/ LineClear \/ ReadWake
    PROVE  EInv'
<1> DEFINE Goes(d) == /\ SetDisplay(d) /\ echo = "none" /\ UNCHANGED <<hidden, torn, echo, k>>
                      /\ shown' = [shown EXCEPT ![curr_terminal] = FALSE]
<1>1. IsPage(Display.page) /\ Display.buffer \in Seq(LineChars) /\ << >> \in Seq(LineChars)
  BY FrontTypes
<1>2. \A from, to, d : Statement(from, to, d) => Goes(d)
  BY DEF Statement
<1>3. SUFFICES \E d : Goes(d) /\ IsPage(d.page) /\ d.buffer \in Seq(LineChars)
  BY StatementEchoes
<1> HIDE DEF Goes
<1>4. CASE PutNewLine \/ PutNothing \/ PutWhere \/ PutEdge \/ ReadWake
  <2>1. Goes(Display)
    BY <1>2, <1>4 DEF PutNewLine, PutNothing, PutWhere, PutEdge, ReadWake
  <2> QED BY <1>1, <2>1
<1>5. ASSUME NEW x, Goes([Display EXCEPT !.x = x])
      PROVE  \E d : Goes(d) /\ IsPage(d.page) /\ d.buffer \in Seq(LineChars)
  <2>1. /\ [Display EXCEPT !.x = x].page = Display.page
        /\ [Display EXCEPT !.x = x].buffer = Display.buffer
    BY DEF Display
  <2> QED BY <1>1, <1>5, <2>1, Zenon
<1>6. ASSUME NEW y, Goes([Display EXCEPT !.y = y])
      PROVE  \E d : Goes(d) /\ IsPage(d.page) /\ d.buffer \in Seq(LineChars)
  <2>1. /\ [Display EXCEPT !.y = y].page = Display.page
        /\ [Display EXCEPT !.y = y].buffer = Display.buffer
    BY DEF Display
  <2> QED BY <1>1, <1>6, <2>1, Zenon
<1>7. CASE PutBack
  <2>1. Goes([Display EXCEPT !.x = IF @ # 0 THEN @ - 1 ELSE @])
    BY <1>2, <1>7 DEF PutBack
  <2> QED BY <1>5, <2>1, Zenon
<1>8. CASE PutRight
  <2>1. Goes([Display EXCEPT !.x = @ + 1])
    BY <1>2, <1>8 DEF PutRight
  <2> QED BY <1>5, <2>1, Zenon
<1>9. CASE PutWrap \/ LineCol
  <2>1. Goes([Display EXCEPT !.x = 0])
    BY <1>2, <1>9 DEF PutWrap, LineCol
  <2> QED BY <1>5, <2>1, Zenon
<1>10. CASE PutRow \/ LineRow
  <2>1. Goes([Display EXCEPT !.y = @ + 1])
    BY <1>2, <1>10 DEF PutRow, LineRow
  <2> QED BY <1>6, <2>1, Zenon
<1>11. CASE WriteEnd
  <2> DEFINE e == [Display EXCEPT !.lb = Display.x]
  <2>1. Goes(e)
    BY <1>2, <1>11 DEF WriteEnd
  <2>2. e.page = Display.page /\ e.buffer = Display.buffer
    BY DEF Display
  <2> QED BY <1>1, <2>1, <2>2, Zenon
<1>12. CASE LineStart \/ WriteReturn
  <2> DEFINE e == [Display EXCEPT !.ly = Display.y]
  <2>1. Goes(e)
    BY <1>2, <1>12 DEF LineStart, WriteReturn, Goes
  <2>2. e.page = Display.page /\ e.buffer = Display.buffer
    BY DEF Display
  <2> QED BY <1>1, <2>1, <2>2, Zenon
<1>13. CASE LineClear
  <2> DEFINE e == [Display EXCEPT !.buffer = << >>]
  <2>1. Goes(e)
    BY <1>2, <1>13 DEF LineClear
  <2>2. e.page = Display.page /\ e.buffer = << >>
    BY DEF Display
  <2> QED BY <1>1, <2>1, <2>2, Zenon
<1>14. CASE PutStore
  <2> DEFINE q == [Display.page EXCEPT ![where] = Head(text)]
             e == [Display EXCEPT !.page = q]
  <2>1. Goes(e)
    BY <1>2, <1>14 DEF PutStore
  <2>2. IsPage(q)
    BY <1>1 DEF IsPage
  <2> HIDE DEF q
  <2>3. e.page = q /\ e.buffer = Display.buffer
    BY DEF Display
  <2> QED BY <1>1, <2>1, <2>2, <2>3, Zenon
<1> QED BY <1>4, <1>7, <1>8, <1>9, <1>10, <1>11, <1>12, <1>13, <1>14

\* A scroll moves the line and its start up together.
LEMMA ScrollEchoes == ASSUME SInv, EInv, PutScroll \/ LineScroll PROVE EInv'
<1> DEFINE d == scroll(Display)
<1>1. IsPage(page) /\ buffer[curr_terminal] \in Seq(LineChars)
  BY FrontTypes, Zenon
<1>2. d.buffer = buffer[curr_terminal] /\ (IsPage(page) => IsPage(d.page))
  <2>1. PICK x \in Nat, y \in Nat, lb \in Nat, ly \in Nat :
          Display = D(page, x, y, lb, ly, buffer[curr_terminal])
    BY DisplayBounds, Zenon
  <2>2. Within(d, page, buffer[curr_terminal], x < WIDTH /\ lb < WIDTH /\ ly < HEIGHT)
    BY <2>1, ScrollWithin
  <2> HIDE DEF d
  <2> QED BY <2>2, WithinFields, Zenon
<1>3. /\ SetDisplay(d) /\ echo = "none" /\ UNCHANGED <<hidden, torn, echo, k>>
      /\ shown' = [shown EXCEPT ![curr_terminal] = FALSE]
  BY DEF PutScroll, LineScroll, Statement
<1> HIDE DEF d
<1> QED BY <1>1, <1>2, <1>3, StatementEchoes, Zenon

-----------------------------------------------------------------------------
(* print_buffer starts with the cursor at the start of the line. *)
LEMMA ReprintEchoes ==
    ASSUME SInv, EInv, Numbered, NEW p, NEW b, NEW x, NEW y, NEW lb \in Nat, NEW ly \in Nat,
           IsPage(p), b \in Seq(LineChars), torn = 0 => lb < WIDTH,
           NEW mode \in {"print", "erase"},
           Reprint(D(p, x, y, lb, ly, b), mode),
           UNCHANGED <<hidden, shown, torn>>
    PROVE  EInv'
<1> DEFINE d == D(p, x, y, lb, ly, b)
           e == D(p, lb, ly, lb, ly, b)
<1>1. SetDisplay(SetY(SetX(d, d.lb), d.ly)) /\ echo' = mode /\ k' = 0
  BY DEF Reprint, SetX, SetY
<1>2. SetY(SetX(d, d.lb), d.ly) = e
  <2>1. d.lb = lb /\ d.ly = ly
    BY Zenon DEF D
  <2>2. SetX(d, lb) = D(p, lb, y, lb, ly, b)
    BY DisplayUpdate
  <2>3. SetY(D(p, lb, y, lb, ly, b), ly) = e
    BY DisplayUpdate
  <2> QED BY <2>1, <2>2, <2>3, Zenon
<1>3. e.page = p /\ e.buffer = b /\ e.x = lb /\ e.y = ly /\ e.lb = lb /\ e.ly = ly
  BY Zenon DEF D
<1> HIDE DEF d, e
<1>4. SetDisplay(e)
  BY <1>1, <1>2, Zenon
<1>5. shown' \in [Terminals -> BOOLEAN] /\ k' \in Nat
      /\ \A t \in Terminals : t # curr_terminal => shown'[t] = shown[t]
  BY <1>1 DEF EInv, EchoTypes
<1>6. EchoTypes' /\ (torn = 0 => \A t \in Terminals : t # curr_terminal => Echoed(t)')
  BY <1>1, <1>3, <1>4, <1>5, OthersEchoed
<1>7. curr_terminal' = curr_terminal /\ torn' = torn
  BY DEF hidden
<1>8. ASSUME torn = 0 PROVE Echoing'
  <2>1. /\ page' = p /\ csr_x'[curr_terminal] = lb /\ csr_y'[curr_terminal] = ly
        /\ line_beginning'[curr_terminal] = lb /\ line_y'[curr_terminal] = ly
        /\ buffer'[curr_terminal] = b
    BY <1>3, <1>4, FrontSet, Zenon
  <2>2. Written(p, lb, ly, lb, ly, b, 0)
    BY <1>8, NoneWritten, Zenon DEF Numbered
  <2>3. 0 <= Len(b) /\ \A i \in 1 .. 0 : b[i] # NL
    OBVIOUS
  <2> QED BY <1>1, <1>7, <2>1, <2>2, <2>3, Zenon DEF Echoing
<1> QED BY <1>1, <1>6, <1>7, <1>8 DEF EInv

\* Typing a character, erasing one and clearing keep the line on the screen.
LEMMA KeyEchoes ==
    ASSUME SInv, EInv, Numbered,
           (\E c \in Typed : KeyChar(c)) \/ KeyBackspace \/ KeyClear \/ EchoErased
    PROVE  EInv'
<1> DEFINE x == csr_x[curr_terminal]
           y == csr_y[curr_terminal]
           lb == line_beginning[curr_terminal]
           ly == line_y[curr_terminal]
           b == buffer[curr_terminal]
<1>1. /\ Display = D(page, x, y, lb, ly, b)
      /\ x \in Nat /\ y \in Nat /\ lb \in Nat /\ ly \in Nat
      /\ torn = 0 => lb < WIDTH
  BY DisplayBounds, Zenon
<1>2. IsPage(page) /\ b \in Seq(LineChars) /\ Display.buffer = b /\ << >> \in Seq(LineChars)
  BY FrontTypes
<1> HIDE DEF x, y, lb, ly, b
<1>3. ASSUME NEW c \in Typed, KeyChar(c) PROVE EInv'
  <2>0. \/ add_to_buffer(D(page, x, y, lb, ly, b), c) = D(page, x, y, lb, ly, b)
        \/ add_to_buffer(D(page, x, y, lb, ly, b), c) = D(page, x, y, lb, ly, Append(b, c))
    BY AddValue
  <2>1. PICK bb \in {b, Append(b, c)} : add_to_buffer(Display, c) = D(page, x, y, lb, ly, bb)
    BY <1>1, <2>0, Zenon
  <2>2. bb \in Seq(LineChars)
    BY <1>2, LineType, Zenon
  <2>3. Reprint(D(page, x, y, lb, ly, bb), "print") /\ UNCHANGED <<hidden, shown, torn>>
    BY <1>3, <2>1, Zenon DEF KeyChar
  <2> QED BY <1>1, <1>2, <2>2, <2>3, ReprintEchoes
<1>4. ASSUME KeyBackspace PROVE EInv'
  <2> DEFINE bb == [b EXCEPT ![Len(b)] = BLANK]
  <2>1. /\ \/ Reprint(Display, "print")
           \/ /\ Display.buffer # << >>
              /\ Reprint(SetBuffer(Display,
                           [Display.buffer EXCEPT ![Len(Display.buffer)] = BLANK]), "erase")
        /\ UNCHANGED <<hidden, shown, torn>>
    BY <1>4 DEF KeyBackspace, SetBuffer
  <2>2. Reprint(Display, "print") \/ (b # << >> /\ Reprint(SetBuffer(Display, bb), "erase"))
    BY <1>2, <2>1, Zenon
  <2>3. ASSUME b # << >> PROVE bb \in Seq(LineChars)
    BY <1>2, <2>3, LineType, Zenon
  <2> HIDE DEF bb
  <2>4. SetBuffer(Display, bb) = D(page, x, y, lb, ly, bb)
    BY <1>1, DisplayUpdate
  <2>5. UNCHANGED <<hidden, shown, torn>>
    BY <2>1, Zenon
  <2> QED BY <1>1, <1>2, <2>2, <2>3, <2>4, <2>5, ReprintEchoes, Zenon
<1>5. ASSUME KeyClear PROVE EInv'
  <2>0. \E q : IsPage(q) /\ clear_screen(D(page, x, y, lb, ly, b)) = D(q, 0, 0, lb, 0, << >>)
    BY ClearValue
  <2>1. PICK q : IsPage(q) /\ clear_screen(Display) = D(q, 0, 0, lb, 0, << >>)
    BY <1>1, <2>0, Zenon
  <2>2. Reprint(D(q, 0, 0, lb, 0, << >>), "print") /\ UNCHANGED <<hidden, shown, torn>>
    BY <1>5, <2>1, Zenon DEF KeyClear
  <2> QED BY <1>1, <1>2, <2>1, <2>2, ReprintEchoes, Zenon
<1>6. ASSUME EchoErased PROVE EInv'
  <2> DEFINE bb == SubSeq(b, 1, Len(b) - 1)
  <2>1. /\ Reprint(SetBuffer(Display, SubSeq(Display.buffer, 1, Len(Display.buffer) - 1)), "print")
        /\ UNCHANGED <<hidden, shown, torn>>
    BY <1>6 DEF EchoErased, SetBuffer
  <2>2. Reprint(SetBuffer(Display, bb), "print")
    BY <1>2, <2>1, Zenon
  <2>3. bb \in Seq(LineChars)
    BY <1>2, LineType
  <2> HIDE DEF bb
  <2>4. SetBuffer(Display, bb) = D(page, x, y, lb, ly, bb)
    BY <1>1, DisplayUpdate
  <2> QED BY <1>1, <1>2, <2>1, <2>2, <2>3, <2>4, ReprintEchoes, Zenon
<1> QED BY <1>3, <1>4, <1>5, <1>6

(* Enter puts a newline in the buffer, and changes nothing on the screen. *)
LEMMA EnterEchoes == ASSUME SInv, EInv, KeyEnter PROVE EInv'
<1>0. PICK t \in Terminals : t = curr_terminal
  BY FrontTypes, Zenon
<1> DEFINE b == buffer[t]
           x == csr_x[t]
           y == csr_y[t]
           lb == line_beginning[t]
           ly == line_y[t]
<1>1. IsPage(page) /\ b \in Seq(LineChars)
  BY <1>0, FrontTypes, Zenon
<1>2. Display = D(page, x, y, lb, ly, b)
  BY <1>0, DisplayBounds, Zenon
<1> HIDE DEF b, x, y, lb, ly
<1>3. \/ add_to_buffer(D(page, x, y, lb, ly, b), NL) = D(page, x, y, lb, ly, b)
      \/ add_to_buffer(D(page, x, y, lb, ly, b), NL) = D(page, x, y, lb, ly, Append(b, NL))
  BY AddValue
<1> DEFINE e == add_to_buffer(Display, NL)
<1>4. PICK bb \in {b, Append(b, NL)} : e = D(page, x, y, lb, ly, bb)
  BY <1>2, <1>3, Zenon
<1>5. SetDisplay(e) /\ UNCHANGED <<hidden, torn, shown, echo, k>> /\ echo = "none"
  BY Zenon DEF KeyEnter
<1> HIDE DEF e
<1>6. /\ e.page = page /\ e.buffer = bb /\ e.x = x /\ e.y = y /\ e.lb = lb /\ e.ly = ly
  BY <1>4, Zenon DEF D
<1>7. bb \in Seq(LineChars)
  BY <1>1, <1>4, LineType, Zenon
<1>8. EchoTypes' /\ (torn = 0 => \A u \in Terminals : u # curr_terminal => Echoed(u)')
  BY <1>0, <1>1, <1>5, <1>6, <1>7, OthersEchoed, Zenon DEF EInv, EchoTypes
<1>9. ASSUME torn = 0 PROVE Echoed(t)'
  <2>1. /\ page' = page /\ csr_x'[t] = x /\ csr_y'[t] = y
        /\ line_beginning'[t] = lb /\ line_y'[t] = ly /\ buffer'[t] = bb
    BY <1>0, <1>5, <1>6, FrontSet, Zenon
  <2>2. shown' = shown /\ curr_terminal' = t
    BY <1>0, <1>5, Zenon DEF hidden
  <2>3. Echoed(t)
    BY <1>1, <1>5, <1>9, Zenon DEF EInv
  <2>4. /\ Prints(bb) = Prints(b)
        /\ Written(page, x, y, lb, ly, b, Len(b)) => Written(page, x, y, lb, ly, bb, Len(bb))
    BY <1>1, EnterWritten, Zenon
  <2>5. PageOf(t)' = page /\ PageOf(t) = page
    BY <1>0, <2>1, <2>2, Zenon DEF PageOf
  <2> QED BY <2>1, <2>2, <2>3, <2>4, <2>5, Zenon DEF Echoed, b, x, y, lb, ly
<1>10. torn' = torn /\ echo' = "none" /\ curr_terminal' = curr_terminal
  BY <1>5 DEF hidden
<1>11. \A u \in Terminals : torn = 0 => Echoed(u)'
  BY <1>0, <1>8, <1>9, Zenon
<1> QED BY <1>8, <1>10, <1>11, Zenon DEF EInv

(* A round of print_buffer puts one more character of the line on the      *)
(* page; a newline empties the buffer instead.                             *)
LEMMA PutEchoes == ASSUME SInv, EInv, Numbered, EchoPut PROVE EInv'
<1>0. PICK t \in Terminals : t = curr_terminal
  BY FrontTypes, Zenon
<1> DEFINE b == buffer[t]
           x == csr_x[t]
           y == csr_y[t]
           lb == line_beginning[t]
           ly == line_y[t]
           c == b[k + 1]
           e == putch(Display, c)
<1>1. /\ Display = D(page, x, y, lb, ly, b)
      /\ x \in Nat /\ y \in Nat /\ lb \in Nat /\ ly \in Nat
      /\ torn = 0 => x <= XMax /\ y <= YMax /\ lb < WIDTH /\ ly < HEIGHT
  BY <1>0, DisplayBounds, Zenon
<1>2. /\ IsPage(page) /\ b \in Seq(LineChars) /\ Display.buffer = b
      /\ << >> \in Seq(LineChars)
  BY <1>0, FrontTypes, Zenon
<1>3. /\ SetDisplay(putch(Display, Display.buffer[k + 1]))
      /\ UNCHANGED <<hidden, torn, shown, echo>> /\ echo # "none"
      /\ k < Len(Display.buffer) /\ k' = k + 1
  BY Zenon DEF EchoPut
<1>4. ASSUME torn = 0, echo = "print", b # << >>
      PROVE  (\A i \in 1 .. k : b[i] # NL) /\ Written(page, x, y, lb, ly, b, k)
  BY <1>0, <1>4, Zenon DEF EInv, Echoing
<1> HIDE DEF b, x, y, lb, ly
<1>5. SetDisplay(e) /\ k < Len(b)
  BY <1>2, <1>3, Zenon
<1>6. k \in Nat /\ Len(b) \in Nat /\ k + 1 \in 1 .. Len(b)
  <2>1. k \in Nat
    BY DEF EInv, EchoTypes
  <2> QED BY <1>2, <1>5, <2>1
<1>7. c \in LineChars
  BY <1>2, <1>6
<1> HIDE DEF c
<1>8. IsPage(e.page) /\ e.buffer = IF c = NL THEN << >> ELSE b
  <2>1. Within(e, page, IF c = NL THEN << >> ELSE b,
               x < WIDTH /\ y < HEIGHT /\ lb < WIDTH /\ ly < HEIGHT)
    <3>1. Within(putch(D(page, x, y, lb, ly, b), c), page, IF c = NL THEN << >> ELSE b,
                 x < WIDTH /\ y < HEIGHT /\ lb < WIDTH /\ ly < HEIGHT)
      BY <1>1, PutchWithin, Zenon
    <3> QED BY <1>1, <3>1, Zenon
  <2> HIDE DEF e
  <2> QED BY <1>2, <2>1, WithinFields, Zenon
<1> HIDE DEF e
<1>9. e.buffer \in Seq(LineChars)
  BY <1>2, <1>8
<1>10. EchoTypes' /\ (torn = 0 => \A u \in Terminals : u # curr_terminal => Echoed(u)')
  <2>1. /\ shown' \in [Terminals -> BOOLEAN] /\ k' \in Nat
        /\ \A u \in Terminals : u # curr_terminal => shown'[u] = shown[u]
        /\ echo' \in {"none", "print", "erase"}
    BY <1>3, <1>6 DEF EInv, EchoTypes
  <2>2. UNCHANGED <<hidden, torn>>
    BY <1>3, Zenon
  <2> QED BY <1>5, <1>8, <1>9, <2>1, <2>2, OthersEchoed, Zenon
<1>11. ASSUME torn = 0, echo = "print" PROVE Echoing'
  <2>1. /\ page' = e.page /\ csr_x'[t] = e.x /\ csr_y'[t] = e.y
        /\ line_beginning'[t] = e.lb /\ line_y'[t] = e.ly
        /\ buffer'[t] = e.buffer
    BY <1>0, <1>5, FrontSet, Zenon
  <2>2. curr_terminal' = t
    BY <1>0, <1>3, Zenon DEF hidden
  <2>3. CASE c = NL
    <3>1. e.buffer = << >>
      BY <1>8, <2>3
    <3> QED BY <2>1, <2>2, <3>1, Zenon DEF Echoing
  <2>4. CASE c # NL
    <3>1. e.buffer = b
      BY <1>8, <2>4
    <3>2. Len(b) # 0
      BY <1>6
    <3>3. (\A i \in 1 .. k : b[i] # NL) /\ Written(page, x, y, lb, ly, b, k)
      BY <1>4, <1>11, <3>2
    <3>4. x < WIDTH /\ y < HEIGHT /\ lb < WIDTH /\ ly < HEIGHT
      <4>1. XMax = WIDTH - 1 /\ YMax = HEIGHT - 1
        BY <1>3, Zenon DEF XMax, YMax
      <4> QED BY <1>1, <1>11, <4>1, ScreenAssumption
    <3>5. Written(e.page, e.x, e.y, e.lb, e.ly, b, k + 1)
      <4>1. Numbers(b)
        BY <1>2, Zenon DEF Numbered
      <4>2. b[k + 1] # NL /\ e = putch(D(page, x, y, lb, ly, b), b[k + 1])
        BY <1>1, <2>4, Zenon DEF e, c
      <4> QED BY <1>1, <1>2, <1>6, <3>3, <3>4, <4>1, <4>2, PutWritten, Zenon
    <3>6. k + 1 <= Len(b) /\ \A i \in 1 .. k + 1 : b[i] # NL
      BY <1>6, <2>4, <3>3 DEF c
    <3> QED BY <1>3, <2>1, <2>2, <3>1, <3>5, <3>6, Zenon DEF Echoing
  <2> QED BY <2>3, <2>4
<1>12. torn' = torn /\ echo' = echo /\ curr_terminal' = curr_terminal
  BY <1>3 DEF hidden
<1> QED BY <1>3, <1>10, <1>11, <1>12, Zenon DEF EInv

(* print_buffer is through the line. *)
LEMMA DoneEchoes == ASSUME SInv, EInv, EchoDone PROVE EInv'
<1> DEFINE t == curr_terminal
           b == buffer[t]
<1>1. b \in Seq(LineChars) /\ t \in Terminals /\ Display.buffer = b
  BY FrontTypes
<1>2. /\ UNCHANGED <<page, memory, csr_x, csr_y, line_beginning, line_y, buffer, curr_terminal, torn>>
      /\ echo = "print" /\ echo' = "none" /\ k' = 0 /\ k >= Len(b)
      /\ shown' = [shown EXCEPT ![t] = TRUE]
  BY <1>1 DEF EchoDone, hidden, cursor, start
<1>3. EchoTypes'
  BY <1>2, Zenon DEF EInv, EchoTypes
<1>4. ASSUME torn = 0, NEW u \in Terminals PROVE Echoed(u)'
  <2>1. CASE u # t
    <3>1. Echoed(u)
      BY <1>4, <2>1 DEF EInv
    <3>2. shown'[u] = shown[u] /\ PageOf(u)' = PageOf(u)
      BY <1>2, <2>1 DEF PageOf, EInv, EchoTypes
    <3> QED BY <1>2, <3>1, <3>2, Zenon DEF Echoed
  <2>2. CASE u = t
    <3>1. ASSUME Prints(b) # {}
          PROVE  Written(page, csr_x[t], csr_y[t], line_beginning[t], line_y[t], b, Len(b))
      <4>1. b # << >>
        BY <3>1 DEF Prints
      <4>2. k <= Len(b) /\ Written(page, csr_x[t], csr_y[t], line_beginning[t], line_y[t], b, k)
        BY <1>2, <1>4, <4>1, Zenon DEF EInv, Echoing
      <4>3. k = Len(b)
        BY <1>1, <1>2, <4>2 DEF EInv, EchoTypes
      <4> QED BY <4>2, <4>3
    <3>2. PageOf(u)' = page
      BY <1>2, <2>2 DEF PageOf
    <3> QED BY <1>2, <2>2, <3>1, <3>2, Zenon DEF Echoed
  <2> QED BY <2>1, <2>2
<1> QED BY <1>2, <1>3, <1>4 DEF EInv

(* A terminal takes its page along when it is hidden or brought back. *)
LEMMA SwitchEchoes == ASSUME SInv, EInv, NEW u \in Terminals, KeySwitch(u) PROVE EInv'
<1>1. /\ echo = "none" /\ u # curr_terminal /\ curr_terminal' = u
      /\ memory' = [memory EXCEPT ![curr_terminal] = page] /\ page' = memory[u]
      /\ UNCHANGED <<csr_x, csr_y, line_beginning, line_y, buffer, shown, echo, k>>
      /\ torn' = IF pc \in {"user", "wait"} THEN torn ELSE torn + 1
  BY DEF KeySwitch, cursor, start
<1>2. curr_terminal \in Terminals /\ torn \in Nat
  BY DEF SInv, Typed4
<1>3. EchoTypes'
  BY <1>1, <1>2 DEF EInv, EchoTypes
<1>4. ASSUME torn' = 0, NEW t \in Terminals PROVE Echoed(t)'
  <2>1. Echoed(t)
    BY <1>1, <1>2, <1>4 DEF EInv
  <2>2. PageOf(t)' = PageOf(t)
    BY <1>1, <1>2 DEF PageOf, EInv, EchoTypes
  <2> QED BY <1>1, <2>1, <2>2, Zenon DEF Echoed
<1> QED BY <1>1, <1>3, <1>4 DEF EInv

\* Entering and leaving the calls writes nothing.
LEMMA RestEchoes ==
    ASSUME SInv, EInv,
           ReadCall \/ ReadReturn \/ (\E w \in Texts : WriteCall(w)) \/ UNCHANGED vars
    PROVE  EInv'
<1>1. UNCHANGED <<page, memory, csr_x, csr_y, line_beginning, line_y, buffer, curr_terminal,
                  torn, shown, echo, k>>
  BY DEF ReadCall, ReadReturn, WriteCall, vars, cursor, start, hidden
<1>2. \A t \in Terminals : Echoed(t)' = Echoed(t)
  BY <1>1, Zenon DEF Echoed, PageOf
<1>3. Echoing' = Echoing /\ EchoTypes' = EchoTypes
  BY <1>1 DEF Echoing, EchoTypes
<1> QED BY <1>1, <1>2, <1>3, Zenon DEF EInv

\* At boot no line has been typed.
LEMMA InitEInv == Init => EInv
<1> SUFFICES ASSUME Init PROVE EInv
  OBVIOUS
<1>1. EchoTypes
  BY DEF Init, EchoTypes, IsPage, Blank
<1>2. \A t \in Terminals : Prints(buffer[t]) = {}
  BY DEF Init, Prints
<1> QED BY <1>1, <1>2 DEF EInv, Echoed, Init

\* Every step keeps the line being edited on the screen.
LEMMA NextEInv == ASSUME SInv, EInv, Numbered, [Next]_vars PROVE EInv'
<1>1. CASE Next
  BY <1>1, CallEchoes, ScrollEchoes, KeyEchoes, EnterEchoes, PutEchoes, DoneEchoes,
     SwitchEchoes, RestEchoes DEF Next
<1>2. CASE UNCHANGED vars
  BY <1>2, RestEchoes
<1> QED BY <1>1, <1>2

(* A terminal that was echoed has its line on the page. *)
LEMMA EchoedShows == ASSUME SInv, EInv, Numbered PROVE EchoShown
<1> SUFFICES ASSUME torn = 0, echo = "none", NEW t \in Terminals, shown[t],
                    Cardinality(Prints(buffer[t])) > 0,
                    line_beginning[t] + Cardinality(Prints(buffer[t])) < 2 * WIDTH
             PROVE  LET b == buffer[t]
                        first == line_y[t] * WIDTH + line_beginning[t]
                    IN  /\ \A i \in Prints(b) : PageOf(t)[first + Before(b, i)] = b[i]
                        /\ csr_y[t] * WIDTH + csr_x[t] = first + Cardinality(Prints(b))
  BY Zenon DEF EchoShown
<1> DEFINE b == buffer[t]
           x == csr_x[t]
           y == csr_y[t]
           lb == line_beginning[t]
           ly == line_y[t]
<1>1. b \in Seq(LineChars) /\ lb \in Nat /\ ly \in Nat /\ x \in Nat /\ y \in Nat
  BY DEF EInv, EchoTypes, SInv, Typed4
<1>2. Prints(b) # {}
  <2>1. Prints(b) = {} => Cardinality(Prints(b)) = 0
    BY <1>1, Zenon DEF Numbered, Numbers
  <2> QED BY <2>1
<1>3. Written(PageOf(t), x, y, lb, ly, b, Len(b))
  BY <1>2, Zenon DEF EInv, Echoed
<1>4. Fits(lb, b)
  BY Zenon DEF Fits
<1>5. LineOn(PageOf(t), x, y, lb, ly, b)
  <2>1. Numbers(b)
    BY <1>1, Zenon DEF Numbered
  <2> HIDE DEF b, x, y, lb, ly
  <2> QED BY <1>1, <1>3, <1>4, <2>1, AllWritten, Zenon
<1> QED BY <1>5, Zenon DEF LineOn

-----------------------------------------------------------------------------
(* The numbering, by counting. *)
INSTANCE FiniteSetTheorems

\* A buffer has finitely many characters that print.
LEMMA PrintsFinite ==
    ASSUME NEW S, NEW b \in Seq(S)
    PROVE  IsFiniteSet(Prints(b)) /\ Cardinality(Prints(b)) \in Nat
<1>1. Prints(b) \in SUBSET (1 .. Len(b)) /\ IsFiniteSet(1 .. Len(b))
  BY PrintsType, FS_Interval
<1>2. IsFiniteSet(Prints(b))
  BY <1>1, FS_Subset
<1> QED BY <1>2, FS_CardinalityType

\* The number of cells before a place is a number.
LEMMA PlaceType ==
    ASSUME NEW S, NEW b \in Seq(S), NEW i
    PROVE  Before(b, i) \in Nat /\ IsFiniteSet({j \in Prints(b) : j < i})
<1>1. {j \in Prints(b) : j < i} \in SUBSET Prints(b)
  OBVIOUS
<1>2. IsFiniteSet({j \in Prints(b) : j < i})
  BY <1>1, PrintsFinite, FS_Subset
<1> QED BY <1>2, FS_CardinalityType DEF Before

\* No cell comes before the first place.
LEMMA PlaceFirst == ASSUME NEW S, NEW b \in Seq(S) PROVE Before(b, 1) = 0
<1>1. {j \in Prints(b) : j < 1} = {}
  BY DEF Prints
<1> QED BY <1>1, FS_EmptySet, Zenon DEF Before

\* A character that prints takes one cell, any other none.
LEMMA PlaceNext ==
    ASSUME NEW S, NEW b \in Seq(S), NEW i \in 1 .. Len(b)
    PROVE  Before(b, i + 1) = IF i \in Prints(b) THEN Before(b, i) + 1 ELSE Before(b, i)
<1>1. Prints(b) \subseteq Nat
  BY PrintsType
<1>2. CASE i \in Prints(b)
  <2>1. {j \in Prints(b) : j < i + 1} = {j \in Prints(b) : j < i} \cup {i}
    BY <1>1, <1>2
  <2>2. i \notin {j \in Prints(b) : j < i}
    OBVIOUS
  <2>3. IsFiniteSet({j \in Prints(b) : j < i})
    BY PlaceType, Zenon
  <2> QED BY <1>2, <2>1, <2>2, <2>3, FS_AddElement, Zenon DEF Before
<1>3. CASE i \notin Prints(b)
  <2>1. {j \in Prints(b) : j < i + 1} = {j \in Prints(b) : j < i}
    BY <1>1, <1>3
  <2> QED BY <1>3, <2>1, Zenon DEF Before
<1> QED BY <1>2, <1>3

\* A character that prints comes before every later one.
LEMMA PlaceOrder ==
    ASSUME NEW S, NEW b \in Seq(S), NEW i \in Prints(b), NEW j \in Nat, i < j
    PROVE  Before(b, i) \in Nat /\ Before(b, i) < Before(b, j)
<1>1. i \in 1 .. Len(b) /\ i + 1 <= j
  BY PrintsType
<1>2. Before(b, i + 1) = Before(b, i) + 1
  BY <1>1, PlaceNext
<1>3. {m \in Prints(b) : m < i + 1} \subseteq {m \in Prints(b) : m < j}
  BY <1>1, PrintsType
<1>4. Before(b, i + 1) <= Before(b, j)
  BY <1>3, PlaceType, FS_Subset DEF Before
<1>5. Before(b, i) \in Nat /\ Before(b, j) \in Nat
  BY PlaceType, Zenon
<1> QED BY <1>2, <1>4, <1>5

\* Together: the cells of a line are numbered without a gap.
LEMMA PlacesNumbered == Numbered
<1> SUFFICES ASSUME NEW b \in Seq(LineChars) PROVE Numbers(b)
  BY Zenon DEF Numbered
<1>1. Before(b, 1) = 0 /\ Cardinality(Prints(b)) \in Nat /\ \A i : Before(b, i) \in Nat
  BY PlaceFirst, PrintsFinite, PlaceType, Zenon
<1>2. Prints(b) = {} => Cardinality(Prints(b)) = 0
  BY FS_EmptySet, Zenon
<1>3. \A i \in 1 .. Len(b) :
        Before(b, i + 1) = IF i \in Prints(b) THEN Before(b, i) + 1 ELSE Before(b, i)
  BY PlaceNext, Zenon
<1>4. \A i \in Prints(b) : \A j \in Nat : i < j => Before(b, i) < Before(b, j)
  BY PlaceOrder, Zenon
<1> QED BY <1>1, <1>2, <1>3, <1>4, Zenon DEF Numbers

(* Every terminal shows its line as typed and edited from the echo until a *)
(* program prints on it, for every size of screen and buffer, any number   *)
(* of terminals and any typing, if no switch came inside a write.          *)
THEOREM LinesEchoed == Spec => []EchoShown
<1>1. SInv /\ EInv => EchoShown
  BY PlacesNumbered, EchoedShows
<1>2. Init => SInv /\ EInv
  BY InitSInv, InitEInv
<1>3. SInv /\ EInv /\ [Next]_vars => (SInv /\ EInv)'
  BY PlacesNumbered, NextSInv, NextEInv
<1> QED BY <1>1, <1>2, <1>3, PTL DEF Spec
=============================================================================
