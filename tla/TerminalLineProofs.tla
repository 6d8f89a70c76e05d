------------------------- MODULE TerminalLineProofs -------------------------
(***************************************************************************)
(* Proofs about TerminalLine, for every length of the buffer, any number   *)
(* of terminals, all letters and all counts.                               *)
(***************************************************************************)
EXTENDS TerminalLine, SequenceTheorems, TLAPS

Buffer == [text : [0 .. BUFF_LEN - 1 -> Chars], len : 0 .. UINT16_MAX]

\* What a buffer starts with.
Begins(b, w) == \A k \in 1 .. Len(w) : b.text[k - 1] = w[k]

\* A read nobody has disturbed: before Enter the buffer holds what was typed,
\* and after it the line Enter was pressed on with its newline, if that fits.
InFront == line[curr_terminal]

Waiting == pc = "wait" /\ orderly /\ enter_flag = 0 => Holds(InFront, typed[curr_terminal])

LineComplete ==
    pc \in {"wait", "copy"} /\ orderly /\ enter_flag = 1 =>
        /\ Len(entered) =< BUFF_LEN /\ Begins(InFront, entered)
        /\ Len(entered) < BUFF_LEN => InFront.text[Len(entered)] = NL

Copying ==
    /\ pc \in {"copy", "newline", "flag"} => enter_flag = 1
    /\ pc \in {"wait", "copy"} =>
         /\ i =< count /\ Len(buf) = i
         /\ pc = "wait" => i = 0
         /\ orderly => i =< Len(entered) \/ i = 0
         /\ orderly => \A k \in 1 .. i : buf[k] = entered[k]

LInv ==
    /\ TypeOK
    /\ \A t \in Terminals : Len(typed[t]) =< BUFF_LEN
    /\ Waiting /\ LineComplete /\ Copying /\ LineFaithful

-----------------------------------------------------------------------------
\* What the assumption on the constants says of them.
LEMMA Numbers ==
    /\ BUFF_LEN \in Nat /\ BUFF_LEN > 0 /\ UINT16_MAX \in Nat /\ BUFF_LEN < UINT16_MAX
    /\ NUL \in Chars /\ NL \in Chars /\ SPACE \in Chars /\ Letters \subseteq Chars
    /\ Counts \subseteq Nat
    /\ \A c \in Letters : c # NUL /\ c # NL /\ c # SPACE
BY LineAssumption DEF Chars

\* The operations on a buffer return buffers.
LEMMA Buffers ==
    /\ Empty \in Buffer
    /\ \A b \in Buffer, c \in Chars : add_to_buffer(b, c) \in Buffer
    /\ \A b \in Buffer : print_buffer(b) \subseteq {b, Empty}
    /\ \A b \in Buffer : Shorter(b) \in Buffer
    /\ \A b \in Buffer : backspace(b) \subseteq Buffer
<1>1. Empty \in Buffer
  BY Numbers DEF Empty, Buffer
<1>2. \A b \in Buffer, c \in Chars : add_to_buffer(b, c) \in Buffer
  BY Numbers DEF add_to_buffer, Buffer
<1>3. \A b : print_buffer(b) \subseteq {b, Empty}
  BY DEF print_buffer
<1>4. \A b \in Buffer : Shorter(b) \in Buffer
  BY Numbers DEF Shorter, Buffer
<1>5. \A b \in Buffer : [b EXCEPT !.text[b.len - 1] = SPACE] \in Buffer
  BY Numbers DEF Buffer
<1>6. \A b \in Buffer : backspace(b) \subseteq Buffer
  BY <1>1, <1>3, <1>4, <1>5 DEF backspace
<1> QED
  BY <1>1, <1>2, <1>3, <1>4, <1>6

\* A buffer that holds letters is printed as it is.
LEMMA LettersPrinted ==
    ASSUME NEW b \in Buffer, NEW w \in Seq(Letters), Len(w) =< BUFF_LEN, Holds(b, w)
    PROVE  print_buffer(b) = {b}
<1>1. b.len = Len(w) /\ Len(w) \in Nat /\ \A k \in 1 .. Len(w) : b.text[k - 1] # NL
  BY Numbers DEF Holds
<1>2. \A k \in 0 .. BUFF_LEN - 1 : k < b.len => b.text[k] # NL
  <2> SUFFICES ASSUME NEW k \in 0 .. BUFF_LEN - 1, k < b.len PROVE b.text[k] # NL
    OBVIOUS
  <2>1. k + 1 \in 1 .. Len(w) /\ (k + 1) - 1 = k
    BY <1>1
  <2> QED
    BY <1>1, <2>1
<1> QED
  BY <1>1, <1>2 DEF print_buffer

\* A typed character appears in the buffer, unless the line is full.
LEMMA CharTyped ==
    ASSUME NEW b \in Buffer, NEW w \in Seq(Letters), Len(w) =< BUFF_LEN, Holds(b, w),
           NEW c \in Letters
    PROVE  LET v == IF Len(w) < BUFF_LEN THEN Append(w, c) ELSE w
           IN  /\ v \in Seq(Letters) /\ Len(v) =< BUFF_LEN
               /\ Holds(add_to_buffer(b, c), v)
<1>1. b.len = Len(w) /\ Len(w) \in Nat
  BY DEF Holds
<1>2. CASE Len(w) < BUFF_LEN
  <2> DEFINE v == Append(w, c)
  <2>1. /\ v \in Seq(Letters) /\ Len(v) = Len(w) + 1 /\ v[Len(w) + 1] = c
        /\ \A k \in 1 .. Len(w) : v[k] = w[k]
    BY <1>1
  <2>2. add_to_buffer(b, c).len = Len(w) + 1
    BY <1>1, <1>2 DEF add_to_buffer
  <2>3. \A k \in 0 .. BUFF_LEN - 1 :
          add_to_buffer(b, c).text[k] = IF k = Len(w) THEN c ELSE b.text[k]
    BY <1>1, <1>2, Zenon DEF add_to_buffer, Buffer
  <2>4. \A k \in 1 .. Len(w) + 1 : add_to_buffer(b, c).text[k - 1] = v[k]
    <3> SUFFICES ASSUME NEW k \in 1 .. Len(w) + 1
                 PROVE  add_to_buffer(b, c).text[k - 1] = v[k]
      OBVIOUS
    <3>1. k - 1 \in 0 .. BUFF_LEN - 1
      BY <1>1, <1>2, Numbers
    <3>2. CASE k = Len(w) + 1
      BY <3>1, <3>2, <2>1, <2>3, <1>1
    <3>3. CASE k \in 1 .. Len(w)
      BY <3>1, <3>3, <2>1, <2>3, <1>1 DEF Holds
    <3> QED
      BY <3>2, <3>3, <1>1
  <2> HIDE DEF v
  <2>5. Holds(add_to_buffer(b, c), v)
    BY <2>1, <2>2, <2>4 DEF Holds
  <2> QED
    BY <1>1, <1>2, <2>1, <2>5, Numbers DEF v
<1>3. CASE ~(Len(w) < BUFF_LEN)
  BY <1>1, <1>3, Numbers DEF add_to_buffer
<1> QED
  BY <1>2, <1>3

\* Enter completes the line.
LEMMA LineEntered ==
    ASSUME NEW b \in Buffer, NEW w \in Seq(Letters), Len(w) =< BUFF_LEN, Holds(b, w)
    PROVE  /\ Begins(add_to_buffer(b, NL), w)
           /\ Len(w) < BUFF_LEN => add_to_buffer(b, NL).text[Len(w)] = NL
<1>1. b.len = Len(w) /\ Len(w) \in Nat
  BY DEF Holds
<1>2. CASE Len(w) < BUFF_LEN
  <2>1. \A k \in 0 .. BUFF_LEN - 1 :
          add_to_buffer(b, NL).text[k] = IF k = Len(w) THEN NL ELSE b.text[k]
    BY <1>1, <1>2, Zenon DEF add_to_buffer, Buffer
  <2>2. \A k \in 1 .. Len(w) : k - 1 \in 0 .. BUFF_LEN - 1 /\ k - 1 # Len(w)
    BY <1>1, <1>2, Numbers
  <2>3. Len(w) \in 0 .. BUFF_LEN - 1
    BY <1>1, <1>2, Numbers
  <2> QED
    BY <2>1, <2>2, <2>3 DEF Begins, Holds
<1>3. CASE ~(Len(w) < BUFF_LEN)
  BY <1>1, <1>3 DEF add_to_buffer, Begins, Holds
<1> QED
  BY <1>2, <1>3

\* A line without its last character.
LEMMA Shortened ==
    ASSUME NEW w \in Seq(Letters)
    PROVE  LET v == SubSeq(w, 1, Len(w) - 1)
           IN  /\ v \in Seq(Letters)
               /\ Len(v) = IF Len(w) = 0 THEN 0 ELSE Len(w) - 1
               /\ \A k \in 1 .. Len(w) - 1 : v[k] = w[k]
<1> DEFINE v == SubSeq(w, 1, Len(w) - 1)
<1>1. /\ Len(w) \in Nat /\ 1 \in Int /\ Len(w) - 1 \in Int
      /\ \A k \in 1 .. Len(w) - 1 : w[k] \in Letters
  OBVIOUS
<1>2. /\ v \in Seq(Letters)
      /\ Len(v) = IF 1 <= Len(w) - 1 THEN (Len(w) - 1) - 1 + 1 ELSE 0
      /\ \A k \in 1 .. (Len(w) - 1) - 1 + 1 : v[k] = w[1 + k - 1]
  BY <1>1, SubSeqProperties
<1> HIDE DEF v
<1>3. \A n \in Nat :
        /\ 1 <= n - 1 => n # 0 /\ n - 1 = (n - 1) - 1 + 1
        /\ ~(1 <= n - 1) => n = 0 \/ n - 1 = 0
  OBVIOUS
<1>4. Len(v) = IF Len(w) = 0 THEN 0 ELSE Len(w) - 1
  <2> DEFINE n == Len(w)
  <2>1. n \in Nat /\ Len(v) = IF 1 <= n - 1 THEN (n - 1) - 1 + 1 ELSE 0
    BY <1>1, <1>2
  <2> HIDE DEF n
  <2>2. Len(v) = IF n = 0 THEN 0 ELSE n - 1
    BY <1>3, <2>1, Zenon
  <2> QED
    BY <2>2 DEF n
<1>5. (Len(w) - 1) - 1 + 1 = Len(w) - 1 /\ \A k \in 1 .. Len(w) - 1 : 1 + k - 1 = k
  BY <1>1
<1>6. ASSUME NEW k \in 1 .. Len(w) - 1 PROVE v[k] = w[k]
  <2>1. v[k] = w[1 + k - 1]
    BY <1>2, <1>5, Zenon
  <2> QED
    BY <2>1, <1>5
<1> QED
  BY <1>2, <1>4, <1>6 DEF v

\* Backspace takes the last character off, also through the two echoes.
LEMMA CharErased ==
    ASSUME NEW b \in Buffer, NEW w \in Seq(Letters), Len(w) =< BUFF_LEN, Holds(b, w)
    PROVE  LET v == SubSeq(w, 1, Len(w) - 1)
           IN  /\ v \in Seq(Letters) /\ Len(v) =< BUFF_LEN
               /\ \A r \in UNION {print_buffer(x) : x \in backspace(b)} : Holds(r, v)
<1> DEFINE v == SubSeq(w, 1, Len(w) - 1)
<1>1. b.len = Len(w) /\ Len(w) \in Nat
  BY DEF Holds
<1>2. CASE Len(w) = 0
  <2>1. w = << >> /\ v = << >>
    BY <1>2
  <2>2. backspace(b) = {b} /\ print_buffer(b) = {b}
    BY <1>1, <1>2, LettersPrinted, Zenon DEF backspace
  <2> QED
    BY <2>1, <2>2, Numbers, Zenon
<1>3. CASE Len(w) > 0
  <2>1. /\ v \in Seq(Letters) /\ Len(v) = Len(w) - 1
        /\ \A k \in 1 .. Len(w) - 1 : v[k] = w[k]
    <3>1. /\ v \in Seq(Letters) /\ Len(v) = IF Len(w) = 0 THEN 0 ELSE Len(w) - 1
          /\ \A k \in 1 .. Len(w) - 1 : v[k] = w[k]
      BY Shortened, Zenon
    <3> HIDE DEF v
    <3>2. Len(w) # 0
      BY <1>1, <1>3
    <3> QED
      BY <3>1, <3>2, Zenon
  <2> HIDE DEF v
  <2> DEFINE x == [b EXCEPT !.text[b.len - 1] = SPACE]
  <2>2. x \in Buffer /\ x.len = b.len
    BY Numbers, Zenon DEF Buffer
  <2>3. \A k \in 0 .. BUFF_LEN - 1 : x.text[k] = IF k = b.len - 1 THEN SPACE ELSE b.text[k]
    BY <1>1, <1>3, Numbers DEF Buffer
  <2> HIDE DEF x
  <2>4. \A k \in 1 .. Len(w) : k - 1 \in 0 .. BUFF_LEN - 1
    BY <1>1, Numbers
  <2>5. \A k \in 0 .. BUFF_LEN - 1 : k < x.len => x.text[k] # NL
    <3> SUFFICES ASSUME NEW k \in 0 .. BUFF_LEN - 1, k < x.len PROVE x.text[k] # NL
      OBVIOUS
    <3>1. k + 1 \in 1 .. Len(w) /\ (k + 1) - 1 = k
      BY <1>1, <2>2
    <3>2. b.text[k] = w[k + 1] /\ w[k + 1] \in Letters
      BY <3>1 DEF Holds
    <3> QED
      BY <3>2, <2>3, Numbers DEF SPACE, NL
  <2>6. print_buffer(x) = {x}
    BY <1>1, <2>2, <2>5 DEF print_buffer
  <2>7. backspace(b) = {Shorter(x)}
    BY <1>1, <1>3, <2>6 DEF backspace, x
  <2>8. Shorter(x).len = Len(w) - 1 /\ Shorter(x).text = x.text /\ Shorter(x) \in Buffer
    <3>1. Shorter(x) = [x EXCEPT !.len = Len(w) - 1]
      BY <1>1, <1>3, <2>2 DEF Shorter
    <3>2. Shorter(x) \in Buffer
      BY <2>2, Buffers
    <3> QED
      BY <2>2, <3>1, <3>2 DEF Buffer
  <2>9. Holds(Shorter(x), v)
    <3>1. \A k \in 1 .. Len(v) : x.text[k - 1] = v[k]
      <4> SUFFICES ASSUME NEW k \in 1 .. Len(v) PROVE x.text[k - 1] = v[k]
        OBVIOUS
      <4>1. k \in 1 .. Len(w) /\ k \in 1 .. Len(w) - 1 /\ k - 1 # b.len - 1
        BY <1>1, <2>1
      <4> QED
        BY <4>1, <2>1, <2>3, <2>4 DEF Holds
    <3> QED
      BY <2>1, <2>8, <3>1 DEF Holds
  <2>10. print_buffer(Shorter(x)) = {Shorter(x)}
    <3>1. Len(v) =< BUFF_LEN
      BY <1>1, <2>1, Numbers
    <3> QED
      BY <2>1, <2>8, <2>9, <3>1, LettersPrinted
  <2> QED
    BY <1>1, <2>1, <2>7, <2>9, <2>10, Numbers DEF v
<1> QED
  BY <1>1, <1>2, <1>3

-----------------------------------------------------------------------------
\* Initially nothing is typed and no read is in progress.
LEMMA InitLInv == Init => LInv
<1> SUFFICES ASSUME Init PROVE LInv
  OBVIOUS
<1>1. TypeOK
  <2>1. line \in [Terminals -> Buffer]
    BY Buffers DEF Init
  <2>2. << >> \in Seq(Letters) /\ << >> \in Seq(Chars)
    OBVIOUS
  <2>3. typed \in [Terminals -> Seq(Letters)]
    BY <2>2, Zenon DEF Init
  <2> QED
    <3>1. 0 \in 0 .. BUFF_LEN /\ enter_flag \in {0, 1} /\ pc \in Points /\ count \in {0} \cup Counts
      BY Numbers DEF Init, Points
    <3>2. i \in 0 .. BUFF_LEN /\ buf \in Seq(Chars) /\ entered \in Seq(Letters)
      BY <2>2, <3>1, Zenon DEF Init
    <3>3. pressed \in BOOLEAN /\ orderly \in BOOLEAN /\ curr_terminal \in Terminals
      BY Zenon DEF Init
    <3> QED
      BY <2>1, <2>3, <3>1, <3>2, <3>3, Zenon DEF TypeOK, Buffer
<1>2. \A t \in Terminals : Len(typed[t]) =< BUFF_LEN
  BY Numbers DEF Init
<1> QED
  BY <1>1, <1>2 DEF Init, LInv, Waiting, LineComplete, Copying, LineFaithful

\* A key that edits the line in front leaves every variable in its type, and
\* the typed lines no longer than the buffer.
LEMMA EditTypes ==
    ASSUME LInv, (\E c \in Letters : KeyChar(c)) \/ KeyEnter \/ KeyBackspace \/ KeyClear
    PROVE  TypeOK' /\ \A t \in Terminals : Len(typed'[t]) =< BUFF_LEN
<1> DEFINE b == InFront
           w == typed[curr_terminal]
<1>0. /\ line \in [Terminals -> Buffer] /\ curr_terminal \in Terminals
      /\ typed \in [Terminals -> Seq(Letters)] /\ b \in Buffer /\ w \in Seq(Letters)
      /\ Len(w) \in Nat /\ Len(w) =< BUFF_LEN
  BY DEF LInv, TypeOK, Buffer, InFront
<1>1. PICK r, v : /\ r \in Buffer /\ line' = [line EXCEPT ![curr_terminal] = r]
                  /\ v \in Seq(Letters) /\ typed' = [typed EXCEPT ![curr_terminal] = v]
                  /\ Len(v) =< BUFF_LEN
  <2>1. ASSUME NEW c \in Letters, KeyChar(c)
        PROVE  /\ \E r \in Buffer : line' = [line EXCEPT ![curr_terminal] = r]
               /\ \E v \in Seq(Letters) : /\ typed' = [typed EXCEPT ![curr_terminal] = v]
                                          /\ Len(v) =< BUFF_LEN
    <3>1. \E r \in Buffer : line' = [line EXCEPT ![curr_terminal] = r]
      <4>1. add_to_buffer(b, c) \in Buffer
        BY <1>0, Buffers, Numbers
      <4>2. print_buffer(add_to_buffer(b, c)) \subseteq Buffer
        BY <4>1, Buffers
      <4> QED
        BY <2>1, <4>2, Zenon DEF KeyChar, SetLine, InFront
    <3> DEFINE v == IF Len(w) < BUFF_LEN THEN Append(w, c) ELSE w
    <3>2. v \in Seq(Letters) /\ Len(v) =< BUFF_LEN
      BY <1>0, Numbers
    <3>3. typed' = [typed EXCEPT ![curr_terminal] = v]
      BY <2>1 DEF KeyChar
    <3> QED
      BY <3>1, <3>2, <3>3, Zenon
  <2>2. ASSUME KeyEnter \/ KeyClear
        PROVE  /\ \E r \in Buffer : line' = [line EXCEPT ![curr_terminal] = r]
               /\ \E v \in Seq(Letters) : /\ typed' = [typed EXCEPT ![curr_terminal] = v]
                                          /\ Len(v) =< BUFF_LEN
    <3>1. add_to_buffer(b, NL) \in Buffer /\ Empty \in Buffer
      BY <1>0, Buffers, Numbers
    <3>2. << >> \in Seq(Letters) /\ Len(<< >>) =< BUFF_LEN
      BY Numbers
    <3> QED
      BY <2>2, <3>1, <3>2, Zenon DEF KeyEnter, KeyClear, InFront
  <2>3. ASSUME KeyBackspace
        PROVE  /\ \E r \in Buffer : line' = [line EXCEPT ![curr_terminal] = r]
               /\ \E v \in Seq(Letters) : /\ typed' = [typed EXCEPT ![curr_terminal] = v]
                                          /\ Len(v) =< BUFF_LEN
    <3>1. UNION {print_buffer(x) : x \in backspace(b)} \subseteq Buffer
      BY <1>0, Buffers
    <3>2. \E r \in Buffer : line' = [line EXCEPT ![curr_terminal] = r]
      BY <2>3, <3>1, Zenon DEF KeyBackspace, SetLine, InFront
    <3> DEFINE v == SubSeq(w, 1, Len(w) - 1)
    <3>3. v \in Seq(Letters) /\ Len(v) = IF Len(w) = 0 THEN 0 ELSE Len(w) - 1
      BY <1>0, Shortened
    <3>4. typed' = [typed EXCEPT ![curr_terminal] = v]
      BY <2>3 DEF KeyBackspace
    <3> HIDE DEF v
    <3>5. Len(v) =< BUFF_LEN
      BY <1>0, <3>3, Numbers
    <3> QED
      BY <3>2, <3>3, <3>4, <3>5, Zenon
  <2> QED
    BY <2>1, <2>2, <2>3
<1>2. /\ line' \in [Terminals -> Buffer] /\ typed' \in [Terminals -> Seq(Letters)]
      /\ \A t \in Terminals : Len(typed'[t]) =< BUFF_LEN
  BY <1>0, <1>1 DEF LInv
<1>3. /\ UNCHANGED <<curr_terminal, read_vars>> /\ orderly' \in BOOLEAN
      /\ enter_flag' \in {0, 1} /\ pressed' \in BOOLEAN /\ entered' \in Seq(Letters)
  BY <1>0, Zenon DEF LInv, TypeOK, KeyChar, KeyEnter, KeyBackspace, KeyClear, KeyPressed
<1> QED
  BY <1>2, <1>3 DEF LInv, TypeOK, Buffer, read_vars

\* A key keeps the invariant: until Enter the buffer follows what is typed,
\* and an Enter makes the line complete; a later key is no orderly one.
LEMMA EditKeeps ==
    ASSUME LInv, (\E c \in Letters : KeyChar(c)) \/ KeyEnter \/ KeyBackspace \/ KeyClear
    PROVE  LInv'
<1> DEFINE b == InFront
           w == typed[curr_terminal]
<1>0. /\ line \in [Terminals -> Buffer] /\ curr_terminal \in Terminals
      /\ typed \in [Terminals -> Seq(Letters)] /\ b \in Buffer /\ w \in Seq(Letters)
      /\ Len(w) =< BUFF_LEN /\ enter_flag \in {0, 1} /\ pc \in Points
  BY DEF LInv, TypeOK, Buffer, InFront
<1>1. /\ UNCHANGED <<curr_terminal, pc, count, i, buf>>
      /\ orderly' = (orderly /\ enter_flag = 0)
  BY DEF KeyChar, KeyEnter, KeyBackspace, KeyClear, KeyPressed, read_vars
<1>2. orderly' => pc \in {"user", "wait"}
  <2>1. orderly' => enter_flag = 0
    BY <1>1, Zenon
  <2>2. enter_flag = 0 => pc \in {"user", "wait"}
    BY <1>0 DEF LInv, Copying, Points
  <2> QED
    BY <2>1, <2>2
<1>3. Copying' /\ LineFaithful'
  <2>1. enter_flag = 1 => enter_flag' = 1
    BY <1>0 DEF KeyChar, KeyEnter, KeyBackspace, KeyClear
  <2>2. i' = i /\ count' = count /\ buf' = buf /\ pc' = pc
    BY <1>1
  <2>3. ASSUME pc \in {"wait", "copy"}
        PROVE  /\ i =< count /\ Len(buf) = i /\ (pc = "wait" => i = 0)
               /\ (orderly' => i = 0)
    BY <2>3, <1>1, <1>2 DEF LInv, Copying
  <2>4. i = 0 => 1 .. i = {}
    OBVIOUS
  <2> QED
    BY <1>2, <2>1, <2>2, <2>3, <2>4 DEF LInv, Copying, LineFaithful
<1>4. ASSUME pc = "wait", orderly, enter_flag = 0
      PROVE  /\ enter_flag' = 0 => Holds(InFront', typed'[curr_terminal])
             /\ enter_flag' = 1 =>
                  /\ Len(entered') =< BUFF_LEN /\ Begins(InFront', entered')
                  /\ Len(entered') < BUFF_LEN => InFront'.text[Len(entered')] = NL
  <2>0. Holds(b, w)
    BY <1>4 DEF LInv, Waiting
  <2>1. ASSUME NEW c \in Letters, KeyChar(c)
        PROVE  enter_flag' = 0 /\ Holds(InFront', typed'[curr_terminal])
    <3> DEFINE v == IF Len(w) < BUFF_LEN THEN Append(w, c) ELSE w
               a == add_to_buffer(b, c)
    <3>1. v \in Seq(Letters) /\ Len(v) =< BUFF_LEN /\ Holds(a, v)
      BY <1>0, <2>0, <2>1, CharTyped
    <3>2. a \in Buffer
      BY <1>0, Buffers, Numbers
    <3>3. typed'[curr_terminal] = v
      BY <1>0, <2>1 DEF KeyChar
    <3>4. PICK r \in print_buffer(a) : line' = [line EXCEPT ![curr_terminal] = r]
      BY <2>1, Zenon DEF KeyChar, SetLine, InFront
    <3> HIDE DEF v, a
    <3>5. r = a
      BY <3>1, <3>2, <3>4, LettersPrinted
    <3>6. InFront' = a
      BY <1>0, <1>1, <3>4, <3>5 DEF InFront
    <3> QED
      BY <1>4, <2>1, <3>1, <3>3, <3>6, Zenon DEF KeyChar
  <2>2. ASSUME KeyEnter
        PROVE  /\ enter_flag' = 1 /\ Len(entered') =< BUFF_LEN
               /\ Begins(InFront', entered')
               /\ Len(entered') < BUFF_LEN => InFront'.text[Len(entered')] = NL
    <3>1. InFront' = add_to_buffer(b, NL) /\ entered' = w /\ enter_flag' = 1
      BY <1>0, <1>1, <2>2 DEF KeyEnter, InFront
    <3>2. /\ Begins(add_to_buffer(b, NL), w)
          /\ Len(w) < BUFF_LEN => add_to_buffer(b, NL).text[Len(w)] = NL
      BY <1>0, <2>0, LineEntered
    <3> QED
      BY <1>0, <3>1, <3>2
  <2>3. ASSUME KeyBackspace
        PROVE  enter_flag' = 0 /\ Holds(InFront', typed'[curr_terminal])
    <3> DEFINE v == SubSeq(w, 1, Len(w) - 1)
    <3>1. \A r \in UNION {print_buffer(x) : x \in backspace(b)} : Holds(r, v)
      BY <1>0, <2>0, CharErased
    <3>2. typed'[curr_terminal] = v
      BY <1>0, <2>3 DEF KeyBackspace
    <3>3. PICK r \in UNION {print_buffer(x) : x \in backspace(b)} :
             line' = [line EXCEPT ![curr_terminal] = r]
      BY <2>3, Zenon DEF KeyBackspace, SetLine, InFront
    <3> HIDE DEF v
    <3>4. InFront' = r
      BY <1>0, <1>1, <3>3 DEF InFront
    <3> QED
      BY <1>4, <2>3, <3>1, <3>2, <3>3, <3>4, Zenon DEF KeyBackspace
  <2>4. ASSUME KeyClear
        PROVE  enter_flag' = 0 /\ Holds(InFront', typed'[curr_terminal])
    <3>1. InFront' = Empty /\ typed'[curr_terminal] = << >> /\ enter_flag' = 0
      BY <1>0, <1>1, <1>4, <2>4 DEF KeyClear, InFront
    <3> QED
      BY <3>1 DEF Holds, Empty
  <2> QED
    BY <2>1, <2>2, <2>3, <2>4
<1>5. Waiting' /\ LineComplete'
  BY <1>1, <1>2, <1>4, Zenon DEF Waiting, LineComplete
<1> QED
  BY <1>3, <1>5, EditTypes DEF LInv

\* A switch of terminals disturbs every read in progress.
LEMMA SwitchKeeps == ASSUME LInv, NEW t \in Terminals, KeySwitch(t) PROVE LInv'
BY Zenon DEF LInv, TypeOK, KeySwitch, read_vars, Waiting, LineComplete, Copying, LineFaithful

\* read() starts with nothing stored.
LEMMA CallKeeps == ASSUME LInv, NEW n \in Counts, ReadCall(n) PROVE LInv'
<1>1. /\ n \in Nat /\ 0 \in 0 .. BUFF_LEN /\ << >> \in Seq(Chars) /\ Len(<< >>) = 0
      /\ 1 .. 0 = {} /\ "wait" \in Points
  BY Numbers DEF Points
<1>2. TypeOK'
  BY <1>1 DEF LInv, TypeOK, ReadCall
<1>3. Waiting' /\ LineComplete'
  <2>1. /\ orderly' => enter_flag = 0 /\ Holds(line[curr_terminal], typed[curr_terminal])
        /\ UNCHANGED <<line, curr_terminal, enter_flag, typed>>
    BY Zenon DEF ReadCall
  <2>2. Waiting'
    BY <2>1, Zenon DEF Waiting, InFront
  <2>3. enter_flag' = 1 => enter_flag # 0
    BY <2>1
  <2> QED
    BY <2>1, <2>2, <2>3, Zenon DEF LineComplete
<1>4. Copying' /\ LineFaithful'
  BY <1>1 DEF ReadCall, Copying, LineFaithful
<1> QED
  BY <1>2, <1>3, <1>4 DEF LInv, ReadCall

\* The waiting read sees the flag.
LEMMA WakeKeeps == ASSUME LInv, ReadWake PROVE LInv'
<1>1. TypeOK' /\ enter_flag = 1
  BY DEF LInv, TypeOK, ReadWake, Points
<1> QED
  BY <1>1 DEF LInv, ReadWake, Waiting, LineComplete, Copying, LineFaithful, InFront

\* The index of an undisturbed copy is inside the line, or the character it
\* looks at ends the line.
LEMMA CopyInside ==
    ASSUME LInv, pc = "copy", orderly
    PROVE  /\ i \in Nat /\ Len(entered) \in Nat /\ i =< Len(entered)
           /\ i < Len(entered) => InFront.text[i] = entered[i + 1] /\ entered[i + 1] \in Letters
           /\ i = Len(entered) /\ i < BUFF_LEN => InFront.text[i] = NL
<1>1. /\ i \in Nat /\ entered \in Seq(Letters) /\ Len(entered) \in Nat
      /\ i =< Len(entered) \/ i = 0
      /\ Begins(InFront, entered)
      /\ Len(entered) < BUFF_LEN => InFront.text[Len(entered)] = NL
  BY Numbers DEF LInv, TypeOK, Copying, LineComplete
<1>2. i =< Len(entered)
  BY <1>1
<1>3. i < Len(entered) => i + 1 \in 1 .. Len(entered) /\ (i + 1) - 1 = i
  BY <1>1
<1>4. i < Len(entered) => InFront.text[i] = entered[i + 1] /\ entered[i + 1] \in Letters
  BY <1>1, <1>3 DEF Begins
<1> QED
  BY <1>1, <1>2, <1>4

\* One character is copied.
LEMMA CopyKeeps == ASSUME LInv, ReadCopy PROVE LInv'
<1> DEFINE ch == InFront.text[i]
<1>1. /\ i \in Nat /\ i < BUFF_LEN /\ i < count /\ count \in Nat /\ buf \in Seq(Chars)
      /\ Len(buf) = i /\ pc = "copy" /\ ch \notin {NUL, NL} /\ BUFF_LEN \in Nat
      /\ entered \in Seq(Letters)
  BY Numbers DEF LInv, TypeOK, ReadCopy, MoreToCopy, Copying, InFront
<1>2. ch \in Chars
  BY <1>1 DEF LInv, TypeOK, InFront
<1> HIDE DEF ch
<1>3. /\ Append(buf, ch) \in Seq(Chars) /\ Len(Append(buf, ch)) = i + 1
      /\ Append(buf, ch)[i + 1] = ch /\ \A k \in 1 .. i : Append(buf, ch)[k] = buf[k]
  BY <1>1, <1>2
<1>4. buf' = Append(buf, ch) /\ i' = i + 1 /\ i + 1 \in 0 .. BUFF_LEN
  BY <1>1 DEF ReadCopy, ch, InFront
<1>5. TypeOK'
  BY <1>3, <1>4 DEF LInv, TypeOK, ReadCopy
<1>6. ASSUME orderly PROVE i + 1 =< Len(entered) /\ ch = entered[i + 1]
  <2>1. i < Len(entered) /\ Len(entered) \in Nat
    BY <1>1, <1>6, CopyInside DEF ch
  <2> QED
    BY <1>1, <1>6, <2>1, CopyInside DEF ch
<1>7. ASSUME orderly PROVE \A k \in 1 .. i + 1 : Append(buf, ch)[k] = entered[k]
  <2> SUFFICES ASSUME NEW k \in 1 .. i + 1 PROVE Append(buf, ch)[k] = entered[k]
    BY Zenon
  <2>1. CASE k = i + 1
    BY <2>1, <1>3, <1>6, <1>7
  <2>2. CASE k \in 1 .. i
    BY <2>2, <1>1, <1>3, <1>7 DEF LInv, Copying
  <2> QED
    BY <1>1, <2>1, <2>2
<1>8. Copying'
  <2>1. i + 1 =< count
    BY <1>1
  <2> QED
    BY <1>1, <1>3, <1>4, <1>6, <1>7, <2>1 DEF LInv, Copying, ReadCopy
<1>9. Waiting' /\ LineComplete' /\ LineFaithful'
  BY <1>1 DEF LInv, Waiting, LineComplete, LineFaithful, ReadCopy, InFront
<1> QED
  BY <1>5, <1>8, <1>9 DEF LInv, ReadCopy

\* The copy ends with the line or the count, and with a newline.
LEMMA TerminateKeeps == ASSUME LInv, ReadTerminate PROVE LInv'
<1>1. /\ i \in 0 .. BUFF_LEN /\ count \in Nat /\ i =< count /\ buf \in Seq(Chars)
      /\ Len(buf) = i /\ pc = "copy" /\ BUFF_LEN \in Nat /\ entered \in Seq(Letters)
      /\ enter_flag = 1
  BY Numbers DEF LInv, TypeOK, ReadTerminate, Copying
<1>2. TypeOK'
  <2>1. Append(buf, NL) \in Seq(Chars) /\ "newline" \in Points
    BY <1>1, Numbers DEF Points
  <2> QED
    BY <2>1 DEF LInv, TypeOK, ReadTerminate
<1>3. ASSUME orderly PROVE buf = SubSeq(entered, 1, IF Len(entered) < count THEN Len(entered) ELSE count)
  <2> DEFINE n == IF Len(entered) < count THEN Len(entered) ELSE count
             s == SubSeq(entered, 1, n)
  <2>1. /\ i \in Nat /\ Len(entered) \in Nat /\ i =< Len(entered)
        /\ i < Len(entered) => InFront.text[i] \in Letters
        /\ Len(entered) =< BUFF_LEN
    BY <1>1, <1>3, CopyInside DEF LInv, LineComplete
  <2>2. i < Len(entered) => ~(i < count)
    <3>1. i < Len(entered) => InFront.text[i] \notin {NUL, NL} /\ i < BUFF_LEN
      BY <2>1, Numbers
    <3> QED
      BY <3>1 DEF ReadTerminate, MoreToCopy, InFront
  <2>3. n = i
    BY <1>1, <2>1, <2>2
  <2>4. /\ s = SubSeq(entered, 1, i) /\ s \in Seq(Letters) /\ Len(s) = i
        /\ \A k \in 1 .. i : s[k] = entered[k]
    <3>1. s = SubSeq(entered, 1, i)
      BY <2>3, Zenon
    <3>2. \A k \in 1 .. i : entered[k] \in Letters
      BY <1>1, <2>1
    <3> HIDE DEF n, s
    <3>3. /\ s \in Seq(Letters)
          /\ Len(s) = IF 1 <= i THEN i - 1 + 1 ELSE 0
          /\ \A k \in 1 .. i - 1 + 1 : s[k] = entered[1 + k - 1]
      BY <1>1, <2>1, <3>1, <3>2, SubSeqProperties
    <3>4. (IF 1 <= i THEN i - 1 + 1 ELSE 0) = i /\ i - 1 + 1 = i
      BY <2>1
    <3>5. \A k \in 1 .. i : 1 + k - 1 = k
      BY <2>1
    <3>6. ASSUME NEW k \in 1 .. i PROVE s[k] = entered[k]
      <4>1. s[k] = entered[1 + k - 1]
        BY <3>3, <3>4
      <4> QED
        BY <4>1, <3>5
    <3> QED
      BY <3>1, <3>3, <3>4, <3>6, Zenon
  <2>5. \A k \in 1 .. i : buf[k] = entered[k]
    BY <1>1, <1>3 DEF LInv, Copying
  <2> HIDE DEF n, s
  <2>6. buf = s
    BY <1>1, <2>4, <2>5, SeqEqual
  <2> QED
    BY <2>6 DEF s, n
<1>4. LineFaithful'
  BY <1>3, Zenon DEF ReadTerminate, LineFaithful, LineRead
<1>5. Waiting' /\ LineComplete' /\ Copying'
  BY <1>1 DEF ReadTerminate, Waiting, LineComplete, Copying
<1> QED
  BY <1>2, <1>4, <1>5 DEF LInv, ReadTerminate

\* What follows the copy, and what a program prints, concerns no waiting read.
LEMMA OtherKeeps == ASSUME LInv, ReadNewLine \/ ReadReturn \/ WriteNewLine PROVE LInv'
<1>1. ASSUME ReadNewLine \/ WriteNewLine PROVE line' \in [Terminals -> Buffer]
  BY <1>1, Buffers, Zenon DEF LInv, TypeOK, Buffer, ReadNewLine, WriteNewLine
<1>2. /\ << >> \in Seq(Letters) /\ << >> \in Seq(Chars) /\ 0 \in 0 .. BUFF_LEN
      /\ "flag" \in Points /\ "user" \in Points
  BY Numbers DEF Points
<1>3. TypeOK'
  <2>1. CASE ReadNewLine
    BY <1>1, <1>2, <2>1 DEF LInv, TypeOK, Buffer, ReadNewLine
  <2>2. CASE WriteNewLine
    BY <1>1, <1>2, <2>2 DEF LInv, TypeOK, Buffer, WriteNewLine, read_vars
  <2>3. CASE ReadReturn
    BY <1>2, <2>3, Zenon DEF LInv, TypeOK, ReadReturn
  <2> QED
    BY <2>1, <2>2, <2>3
<1>4. Waiting' /\ LineComplete' /\ Copying' /\ LineFaithful'
  BY DEF LInv, ReadNewLine, ReadReturn, WriteNewLine, read_vars,
         Waiting, LineComplete, Copying, LineFaithful
<1>5. typed' = typed
  BY DEF ReadNewLine, ReadReturn, WriteNewLine
<1> QED
  BY <1>3, <1>4, <1>5 DEF LInv

\* A step that changes nothing.
LEMMA StutterKeeps == ASSUME LInv, UNCHANGED vars PROVE LInv'
BY DEF LInv, TypeOK, vars, read_vars, Waiting, LineComplete, Copying, LineFaithful,
       LineRead, InFront

\* The invariant is inductive.
LEMMA SpecLInv == Spec => []LInv
<1>1. LInv /\ [Next]_vars => LInv'
  BY EditKeeps, SwitchKeeps, CallKeeps, WakeKeeps, CopyKeeps, TerminateKeeps, OtherKeeps,
     StutterKeeps DEF Next
<1> QED
  BY <1>1, InitLInv, PTL DEF Spec

\* Every variable of the line discipline stays in its type: the index never
\* passes the buffer and buffer_len, though it wraps, stays unsigned.
THEOREM TypeCorrect == Spec => []TypeOK
<1>1. LInv => TypeOK
  BY DEF LInv
<1> QED
  BY <1>1, SpecLInv, PTL

\* A read no key disturbs stores the line as typed and edited before Enter,
\* for every length of the buffer and every count (terminal_read, backspace).
THEOREM LineDelivered == Spec => []LineFaithful
<1>1. LInv => LineFaithful
  BY DEF LInv
<1> QED
  BY <1>1, SpecLInv, PTL
=============================================================================
