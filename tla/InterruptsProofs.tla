-------------------------- MODULE InterruptsProofs --------------------------
(***************************************************************************)
(* For any keys, any number of waiting codes and any depth of handlers:    *)
(* interrupts go through their gates, none is left unacknowledged, and the *)
(* keyboard handler implements the one-step handler of Keyboard, whose     *)
(* flags follow the keys.  The timer ticks only once the vectors are set,  *)
(* and keys are pressed only once the flags are (BootOrder).               *)
(***************************************************************************)
EXTENDS Interrupts, SequenceTheorems, TLAPS

BeforeVectors == {"print", "idt", "pic"}
BeforeKeys == StageSet \ {"sti", "up"}
BootOrder == TimerStages \cap BeforeVectors = {} /\ KeyStages \subseteq {"sti", "up"}

Codes == [key : Keys \cup {"c"}, make : BOOLEAN]
Places == {"entry", "body", "eoi", "sti", "iret"}
Frames == [irq : Lines, at : Places, code : Codes]

Types == queue \in Seq(Codes) /\ stack \in Seq(Frames)

\* Only a keyboard handler that has let interrupts in again lies below
\* another one, and a handler that has a code in hand has not.
Nesting ==
    /\ \A i \in 1 .. Len(stack) - 1 :
         stack[i].irq = KEYBOARD_IRQ /\ stack[i].at \in {"eoi", "sti", "iret"}
    /\ stack # <<>> =>
         /\ Top.irq # KEYBOARD_IRQ => Top.at = "entry"
         /\ Top.at \in {"entry", "body"} => ~if_flag

\* The two halves of NothingStuck, at every stage.
Owed(q) == \E i \in 1 .. Len(stack) :
             q \in InService(stack[i].irq) /\ stack[i].at \in {"entry", "body", "eoi"}
Acknowledged == \A q \in isr : Owed(q)
Pending ==
    /\ queue # <<>> =>
         \/ KEYBOARD_IRQ \in irr
         \/ \E i \in 1 .. Len(stack) : stack[i].irq = KEYBOARD_IRQ /\ stack[i].at = "entry"
    /\ rtc_flag => RTC_IRQ \in irr \/ \E i \in 1 .. Len(stack) : stack[i].irq = RTC_IRQ

\* What boot has set up so far, and that nothing has come too early.
Booted ==
    /\ stage \in StageSet /\ ~lost
    /\ stage \in BeforeVectors => irr = {} /\ ~rtc_flag /\ stack = <<>>
    /\ stage \notin {"print", "idt"} => idt_set
    /\ stage \notin BeforeVectors => remapped
    /\ stage \in BeforeKeys =>
         /\ queue = <<>> /\ KEYBOARD_IRQ \notin irr
         /\ \A i \in 1 .. Len(stack) : stack[i].irq # KEYBOARD_IRQ
         /\ ctrl_flag = 0 /\ cap_flag = 0 /\ alt_flag = 0 /\ curr_terminal = 0

IInv == Types /\ Nesting /\ Acknowledged /\ Pending /\ Booted

-----------------------------------------------------------------------------
\* The stages of entry().
LEMMA StagesFacts ==
    StageSet = {"print", "idt", "pic", "rtc", "pit", "unmask_keys", "keyboard_init",
                "terminal_open", "sti", "up"}
<1>1. Len(Stages) = 10
  BY DEF Stages
<1>2. 1 .. 10 = {1, 2, 3, 4, 5, 6, 7, 8, 9, 10}
  OBVIOUS
<1> QED BY <1>1, <1>2 DEF Stages, StageSet

\* The line of the master on which a line comes in.
LEMMA LinesFacts ==
    /\ InService(PIT_IRQ) = {0} /\ InService(KEYBOARD_IRQ) = {1} /\ InService(RTC_IRQ) = {8, 2}
    /\ Lines = {0, 1, 8} /\ PIT_IRQ = 0 /\ KEYBOARD_IRQ = 1 /\ RTC_IRQ = 8
BY DEF InService, MasterLine, PIT_IRQ, KEYBOARD_IRQ, RTC_IRQ, SLAVE_IRQ, Lines

\* The value a frame holds before its handler has read port 0x60 is a code.
LEMMA NoCodeType == NoCode \in Codes
BY DEF NoCode, Codes, Keyboard!Make

\* A sequence with another last element, and one without its last element.
LEMMA LastReplaced ==
    ASSUME NEW S, NEW s \in Seq(S), s # <<>>, NEW f \in S
    PROVE  LET t == [s EXCEPT ![Len(s)] = f]
           IN  /\ t \in Seq(S) /\ Len(t) = Len(s) /\ t # <<>> /\ t[Len(s)] = f
               /\ \A i \in 1 .. Len(s) - 1 : t[i] = s[i]
<1> DEFINE t == [s EXCEPT ![Len(s)] = f]
<1>1. Len(s) \in Nat /\ Len(s) >= 1 /\ Len(s) \in 1 .. Len(s)
  OBVIOUS
<1>2. /\ t \in Seq(S) /\ Len(t) = Len(s)
      /\ \A j \in 1 .. Len(s) : t[j] = IF j = Len(s) THEN f ELSE s[j]
  BY <1>1, ExceptSeq
<1> HIDE DEF t
<1>3. t # <<>>
  BY <1>1, <1>2
<1>4. \A i \in 1 .. Len(s) - 1 : i \in 1 .. Len(s) /\ i # Len(s)
  BY <1>1
<1> QED BY <1>1, <1>2, <1>3, <1>4, Zenon DEF t

\* Popping the last frame leaves the frames below it as they were.
LEMMA LastDropped ==
    ASSUME NEW S, NEW s \in Seq(S), s # <<>>
    PROVE  LET t == SubSeq(s, 1, Len(s) - 1)
           IN  /\ t \in Seq(S) /\ Len(t) = Len(s) - 1
               /\ \A i \in 1 .. Len(s) - 1 : t[i] = s[i]
<1> DEFINE t == SubSeq(s, 1, Len(s) - 1)
<1>1. /\ Len(s) \in Nat /\ Len(s) >= 1 /\ 1 \in Int /\ Len(s) - 1 \in Int
      /\ \A k \in 1 .. Len(s) - 1 : s[k] \in S
  OBVIOUS
<1>2. /\ t \in Seq(S)
      /\ Len(t) = IF 1 <= Len(s) - 1 THEN (Len(s) - 1) - 1 + 1 ELSE 0
      /\ \A k \in 1 .. (Len(s) - 1) - 1 + 1 : t[k] = s[1 + k - 1]
  BY <1>1, SubSeqProperties
<1> HIDE DEF t
<1> DEFINE n == Len(s)
<1>3. n \in Nat /\ n >= 1 /\ Len(t) = IF 1 <= n - 1 THEN (n - 1) - 1 + 1 ELSE 0
  BY <1>1, <1>2
<1>4. (n - 1) - 1 + 1 = n - 1 /\ \A k \in 1 .. n - 1 : 1 + k - 1 = k
  BY <1>1
<1> HIDE DEF n
<1>5. ~(1 <= n - 1) => n - 1 = 0
  BY <1>3
<1>6. Len(t) = n - 1
  BY <1>3, <1>4, <1>5, Zenon
<1>7. ASSUME NEW k \in 1 .. Len(s) - 1 PROVE t[k] = s[k]
  <2>1. t[k] = s[1 + k - 1]
    BY <1>2, <1>4, Zenon DEF n
  <2> QED BY <2>1, <1>4 DEF n
<1> QED BY <1>2, <1>6, <1>7 DEF t, n

\* The handler on top moves on to another statement.
Moving(s, a, c) == [s EXCEPT ![Len(s)].at = a, ![Len(s)].code = c]

IsMoved(s, t, a, c) ==
    /\ t \in Seq(Frames) /\ Len(t) = Len(s) /\ t # <<>>
    /\ \A i \in 1 .. Len(s) - 1 : t[i] = s[i]
    /\ t[Len(s)].irq = s[Len(s)].irq /\ t[Len(s)].at = a /\ t[Len(s)].code = c

\* A statement of a handler changes the top frame only.
LEMMA Moved ==
    ASSUME NEW s \in Seq(Frames), s # <<>>, NEW a \in Places, NEW c \in Codes
    PROVE  IsMoved(s, Moving(s, a, c), a, c)
<1> DEFINE f == [s[Len(s)] EXCEPT !.at = a, !.code = c]
<1>1. Len(s) \in 1 .. Len(s) /\ s[Len(s)] \in Frames /\ DOMAIN s = 1 .. Len(s)
  OBVIOUS
<1>2. Moving(s, a, c) = [s EXCEPT ![Len(s)] = f]
  BY <1>1, Zenon DEF Moving
<1>3. f \in Frames /\ f.irq = s[Len(s)].irq /\ f.at = a /\ f.code = c
  BY <1>1, Zenon DEF Frames
<1> HIDE DEF f
<1> DEFINE t == [s EXCEPT ![Len(s)] = f]
<1>4. /\ t \in Seq(Frames) /\ Len(t) = Len(s) /\ t # <<>> /\ t[Len(s)] = f
      /\ \A i \in 1 .. Len(s) - 1 : t[i] = s[i]
  BY <1>3, LastReplaced
<1> HIDE DEF t
<1>5. IsMoved(s, t, a, c)
  BY <1>3, <1>4 DEF IsMoved
<1> QED BY <1>2, <1>5, Zenon DEF t

\* A handler is entered.
LEMMA Entered ==
    ASSUME NEW s \in Seq(Frames), NEW f \in Frames
    PROVE  LET t == Append(s, f)
           IN  /\ t \in Seq(Frames) /\ Len(t) = Len(s) + 1 /\ t # <<>> /\ t[Len(t)] = f
               /\ \A i \in 1 .. Len(s) : t[i] = s[i]
OBVIOUS

-----------------------------------------------------------------------------
\* At power-on no handler runs and nothing is masked or in service.
LEMMA InitIInv == Init => IInv
<1> SUFFICES ASSUME Init PROVE IInv
  OBVIOUS
<1>1. stack = <<>> /\ queue = <<>> /\ isr = {} /\ irr = {} /\ rtc_flag = FALSE
      /\ stage = "print" /\ lost = FALSE
      /\ ctrl_flag = 0 /\ cap_flag = 0 /\ alt_flag = 0 /\ curr_terminal = 0
  BY DEF Init, Keyboard!Init
<1>2. Types /\ Nesting /\ Acknowledged /\ Pending
  BY <1>1 DEF Types, Nesting, Acknowledged, Pending
<1>3. Booted
  BY <1>1, StagesFacts DEF Booted, BeforeVectors, BeforeKeys
<1> QED BY <1>2, <1>3 DEF IInv

\* entry() moves on: no handler is running, and nothing has come in that
\* was not to come yet.
LEMMA BootKeeps == ASSUME IInv, Boot PROVE IInv'
<1>1. stack = <<>> /\ stack' = stack /\ ~lost /\ lost' = lost /\ queue' = queue /\ rtc_flag' = rtc_flag
  BY DEF Boot, BootPrint, idt_init, i8259_init, BootUnmask, BootFlags, BootTerminal, BootSti,
         At, Goto
<1>2. \/ irr' = irr /\ isr' = isr
      \/ stage = "pic" /\ irr' = {} /\ isr' = {}
  BY DEF Boot, BootPrint, idt_init, i8259_init, BootUnmask, BootFlags, BootTerminal, BootSti,
         enable_irq, pic, At
<1>3. Types' /\ Nesting'
  BY <1>1 DEF IInv, Types, Nesting
<1>4. Acknowledged'
  BY <1>1, <1>2 DEF IInv, Acknowledged, Owed
<1>5. Pending'
  BY <1>1, <1>2, StagesFacts DEF IInv, Pending, Booted, BeforeVectors, BeforeKeys
<1>6. Booted'
  <2>1. CASE BootPrint \/ idt_init
    BY <1>1, <1>2, <2>1, StagesFacts
    DEF IInv, Booted, BootPrint, idt_init, BeforeVectors, BeforeKeys, At, Goto, flags, pic
  <2>2. CASE i8259_init
    BY <1>1, <1>2, <2>2, StagesFacts
    DEF IInv, Booted, i8259_init, BeforeVectors, BeforeKeys, At, Goto, flags
  <2>3. CASE \/ BootUnmask(RTC_IRQ, "rtc", "pit")
             \/ BootUnmask(PIT_IRQ, "pit", "unmask_keys")
             \/ BootUnmask(KEYBOARD_IRQ, "unmask_keys", "keyboard_init")
    BY <1>1, <1>2, <2>3, StagesFacts
    DEF IInv, Booted, BootUnmask, enable_irq, BeforeVectors, BeforeKeys, At, Goto, flags
  <2>4. CASE BootFlags \/ BootTerminal \/ BootSti
    BY <1>1, <1>2, <2>4, StagesFacts
    DEF IInv, Booted, BootFlags, BootTerminal, BootSti, BeforeVectors, BeforeKeys, At, Goto,
        flags, pic
  <2> QED BY <2>1, <2>2, <2>3, <2>4 DEF Boot
<1> QED BY <1>3, <1>4, <1>5, <1>6 DEF IInv

\* What a key sends.
LEMMA SentFacts ==
    ASSUME queue \in Seq(Codes),
           \/ \E k \in Keys : Keyboard!Press(k)
           \/ \E k \in Repeats : Keyboard!Repeat(k)
           \/ \E k \in Keys : Keyboard!Release(k)
    PROVE  /\ queue' \in Seq(Codes) /\ queue' # <<>>
           /\ \E c \in Codes : queue' = Append(queue, c)
           /\ UNCHANGED flags
<1>1. \A k \in Keys : Keyboard!Make(k) \in Codes /\ Keyboard!Break(k) \in Codes
  BY DEF Codes, Keyboard!Make, Keyboard!Break
<1>2. PICK c \in Codes : queue' = Append(queue, c) /\ UNCHANGED flags
  BY <1>1, InterruptsAssumption
  DEF Keyboard!Press, Keyboard!Repeat, Keyboard!Release, Keyboard!Send, Keyboard!driver, flags
<1> QED BY <1>2

\* The devices raise their lines.
LEMMA KeyEventKeeps == ASSUME IInv, BootOrder, KeyEvent PROVE IInv'
<1>1. queue \in Seq(Codes)
  BY DEF IInv, Types
<1>2. queue' \in Seq(Codes) /\ queue' # <<>> /\ UNCHANGED flags
  BY <1>1, SentFacts DEF KeyEvent
<1>3. /\ stage \in {"sti", "up"} /\ stage' = stage /\ stack' = stack /\ lost' = lost
      /\ if_flag' = if_flag /\ idt_set' = idt_set /\ rtc_flag' = rtc_flag
      /\ isr' = isr /\ remapped' = remapped
      /\ IF queue = <<>> THEN irr' = irr \cup {KEYBOARD_IRQ} ELSE irr' = irr
  BY DEF KeyEvent, BootOrder, Latch, pic, cpu
<1>4. Types' /\ Nesting' /\ Acknowledged'
  BY <1>2, <1>3 DEF IInv, Types, Nesting, Acknowledged, Owed, Top
<1>5. Pending'
  BY <1>2, <1>3 DEF IInv, Pending
<1>6. Booted'
  BY <1>3 DEF IInv, Booted, BeforeVectors, BeforeKeys
<1> QED BY <1>4, <1>5, <1>6 DEF IInv

\* The PIT and the RTC raise their lines and touch no frame.
LEMMA TickKeeps == ASSUME IInv, BootOrder, PitTick \/ RtcTick PROVE IInv'
<1>1. /\ stage \notin BeforeVectors /\ stage' = stage /\ stack' = stack /\ lost' = lost
      /\ if_flag' = if_flag /\ idt_set' = idt_set /\ queue' = queue /\ UNCHANGED flags
      /\ isr' = isr /\ remapped' = remapped
      /\ \/ irr' = irr \cup {PIT_IRQ} /\ rtc_flag' = rtc_flag
         \/ irr' = irr \cup {RTC_IRQ} /\ rtc_flag' = TRUE
  BY DEF PitTick, RtcTick, BootOrder, Latch, cpu
<1>2. Types' /\ Nesting' /\ Acknowledged'
  BY <1>1 DEF IInv, Types, Nesting, Acknowledged, Owed, Top
<1>3. Pending'
  BY <1>1 DEF IInv, Pending
<1>4. Booted'
  BY <1>1, LinesFacts DEF IInv, Booted, BeforeKeys, BeforeVectors, flags
<1> QED BY <1>2, <1>3, <1>4 DEF IInv

\* The processor takes an interrupt: with IF set every handler on the stack
\* is a keyboard handler past its code, and boot has come past the vectors.
LEMMA DeliverKeeps == ASSUME IInv, NEW q \in Lines, Deliver(q) PROVE IInv'
<1> DEFINE f == [irq |-> q, at |-> "entry", code |-> NoCode]
<1>1. if_flag /\ q \in irr /\ irr' = irr \ {q} /\ isr' = isr \cup InService(q) /\ ~if_flag'
      /\ queue' = queue /\ UNCHANGED flags /\ remapped' = remapped /\ rtc_flag' = rtc_flag
      /\ stage' = stage /\ idt_set' = idt_set
  BY DEF Deliver, Ready
<1>2. stage \notin BeforeVectors /\ idt_set /\ remapped /\ ~lost
  BY <1>1 DEF IInv, Booted, BeforeVectors
<1>3. VectorOf(q) \in DOMAIN Gates /\ Gates[VectorOf(q)] = HandlerName[q]
  BY <1>2, LinesFacts DEF VectorOf, Gates, HandlerName
<1>4. stack' = Append(stack, f) /\ ~lost'
  BY <1>2, <1>3 DEF Deliver
<1>5. stack \in Seq(Frames) /\ f \in Frames
  BY NoCodeType DEF IInv, Types, Frames, Places
<1> HIDE DEF f
<1>6. /\ stack' \in Seq(Frames) /\ Len(stack') = Len(stack) + 1 /\ stack' # <<>>
      /\ stack'[Len(stack) + 1] = f /\ Len(stack) \in Nat
      /\ \A i \in 1 .. Len(stack) : stack'[i] = stack[i]
  BY <1>4, <1>5, Entered
<1>7. f.irq = q /\ f.at = "entry"
  BY DEF f
<1>8. \A i \in 1 .. Len(stack) : stack[i].irq = KEYBOARD_IRQ /\ stack[i].at \in {"eoi", "sti", "iret"}
  <2>1. stack # <<>> => Top.irq = KEYBOARD_IRQ /\ Top.at \in {"eoi", "sti", "iret"}
    <3>1. stack # <<>> => Top \in Frames
      BY <1>5 DEF Top
    <3> QED BY <1>1, <3>1 DEF IInv, Nesting, Frames, Places
  <2> QED BY <2>1, <1>6 DEF IInv, Nesting, Top
<1>9. Types'
  BY <1>1, <1>6 DEF IInv, Types
<1>10. Nesting'
  <2>1. \A i \in 1 .. Len(stack') - 1 :
          stack'[i].irq = KEYBOARD_IRQ /\ stack'[i].at \in {"eoi", "sti", "iret"}
    BY <1>6, <1>8
  <2>2. Top'.at = "entry"
    BY <1>6, <1>7 DEF Top
  <2> QED BY <1>1, <2>1, <2>2 DEF Nesting
<1>11. Acknowledged'
  <2> SUFFICES ASSUME NEW p \in isr' PROVE Owed(p)'
    BY DEF Acknowledged
  <2>1. CASE p \in isr
    <3>1. PICK i \in 1 .. Len(stack) :
            p \in InService(stack[i].irq) /\ stack[i].at \in {"entry", "body", "eoi"}
      BY <2>1 DEF IInv, Acknowledged, Owed
    <3>2. i \in 1 .. Len(stack') /\ stack'[i] = stack[i]
      BY <1>6
    <3> QED BY <3>1, <3>2 DEF Owed, InService, MasterLine
  <2>2. CASE p \in InService(q)
    BY <1>6, <1>7, <2>2 DEF Owed, InService, MasterLine
  <2> QED BY <1>1, <2>1, <2>2
<1>12. Pending'
  <2>1. Len(stack) + 1 \in 1 .. Len(stack') /\ stack'[Len(stack) + 1].irq = q
        /\ stack'[Len(stack) + 1].at = "entry"
    BY <1>6, <1>7
  <2>2. KEYBOARD_IRQ \in irr /\ q # KEYBOARD_IRQ => KEYBOARD_IRQ \in irr'
    BY <1>1
  <2>3. RTC_IRQ \in irr /\ q # RTC_IRQ => RTC_IRQ \in irr'
    BY <1>1
  <2>4. queue' # <<>> => KEYBOARD_IRQ \in irr
    BY <1>1, <1>8 DEF IInv, Pending
  <2>5. rtc_flag' => RTC_IRQ \in irr
    BY <1>1, <1>8, LinesFacts DEF IInv, Pending
  <2> QED BY <2>1, <2>2, <2>3, <2>4, <2>5 DEF Pending
<1>13. Booted'
  <2>1. stage \in BeforeKeys => \A i \in 1 .. Len(stack') : stack'[i].irq # KEYBOARD_IRQ
    <3>1. stage \in BeforeKeys => q # KEYBOARD_IRQ
      BY <1>1 DEF IInv, Booted
    <3>2. stage \in BeforeKeys => \A i \in 1 .. Len(stack) : stack[i].irq # KEYBOARD_IRQ
      BY DEF IInv, Booted
    <3> QED BY <1>6, <1>7, <3>1, <3>2
  <2> QED BY <1>1, <1>2, <1>4, <2>1 DEF IInv, Booted, flags
<1> QED BY <1>9, <1>10, <1>11, <1>12, <1>13 DEF IInv

\* A handler returns to what it interrupted, having acknowledged its line.
LEMMA ReturnKeeps ==
    ASSUME IInv, pit_handler \/ rtc_handler \/ KeyReturn
    PROVE  IInv'
<1>1. /\ stack \in Seq(Frames) /\ stack # <<>> /\ Leave /\ ~lost /\ lost' = lost
      /\ queue' = queue /\ UNCHANGED flags /\ irr' = irr /\ remapped' = remapped
      /\ stage' = stage /\ idt_set' = idt_set
  BY DEF IInv, Types, pit_handler, rtc_handler, KeyReturn, Running, pic
<1>2. /\ stack' \in Seq(Frames) /\ Len(stack') = Len(stack) - 1
      /\ \A i \in 1 .. Len(stack) - 1 : stack'[i] = stack[i]
  BY <1>1, LastDropped DEF Leave
<1>3. Len(stack) \in Nat /\ Len(stack) >= 1
  BY <1>1
<1>4. \/ Top.irq = PIT_IRQ /\ isr' = isr \ InService(PIT_IRQ) /\ rtc_flag' = rtc_flag
      \/ Top.irq = RTC_IRQ /\ isr' = isr \ InService(RTC_IRQ) /\ rtc_flag' = FALSE
      \/ Top.irq = KEYBOARD_IRQ /\ Top.at = "iret" /\ isr' = isr /\ rtc_flag' = rtc_flag
  BY DEF pit_handler, rtc_handler, KeyReturn, Running, send_eoi, EoiOf, pic
<1>5. Types'
  BY <1>1, <1>2 DEF IInv, Types
<1>6. Nesting'
  <2>1. \A i \in 1 .. Len(stack) - 1 :
          stack'[i].irq = KEYBOARD_IRQ /\ stack'[i].at \in {"eoi", "sti", "iret"}
    BY <1>2 DEF IInv, Nesting
  <2>2. stack' # <<>> => Top' = stack'[Len(stack) - 1] /\ Len(stack) - 1 \in 1 .. Len(stack) - 1
    BY <1>2, <1>3 DEF Top
  <2>3. \A i \in 1 .. Len(stack') - 1 : i \in 1 .. Len(stack) - 1
    BY <1>2, <1>3
  <2> QED BY <2>1, <2>2, <2>3 DEF Nesting
<1>7. Acknowledged'
  <2> SUFFICES ASSUME NEW p \in isr' PROVE Owed(p)'
    BY DEF Acknowledged
  <2>1. p \in isr
    BY <1>4
  <2>2. PICK i \in 1 .. Len(stack) :
          p \in InService(stack[i].irq) /\ stack[i].at \in {"entry", "body", "eoi"}
    BY <2>1 DEF IInv, Acknowledged, Owed
  <2>3. i # Len(stack)
    BY <1>4, <2>2 DEF Top
  <2>4. i \in 1 .. Len(stack') /\ stack'[i] = stack[i]
    BY <1>2, <1>3, <2>3
  <2> QED BY <2>2, <2>4 DEF Owed, InService, MasterLine
<1>8. Pending'
  <2>1. \A i \in 1 .. Len(stack) : i # Len(stack) => i \in 1 .. Len(stack') /\ stack'[i] = stack[i]
    BY <1>2, <1>3
  <2>2. Top = stack[Len(stack)]
    BY DEF Top
  <2>3. ASSUME queue' # <<>>, KEYBOARD_IRQ \notin irr'
        PROVE  \E i \in 1 .. Len(stack') : stack'[i].irq = KEYBOARD_IRQ /\ stack'[i].at = "entry"
    <3>1. PICK i \in 1 .. Len(stack) : stack[i].irq = KEYBOARD_IRQ /\ stack[i].at = "entry"
      BY <1>1, <2>3 DEF IInv, Pending
    <3> QED BY <1>4, <2>1, <2>2, <3>1, LinesFacts
  <2>4. ASSUME rtc_flag', RTC_IRQ \notin irr'
        PROVE  \E i \in 1 .. Len(stack') : stack'[i].irq = RTC_IRQ
    <3>1. PICK i \in 1 .. Len(stack) : stack[i].irq = RTC_IRQ
      BY <1>1, <1>4, <2>4, Zenon DEF IInv, Pending
    <3>2. Top.irq = PIT_IRQ \/ Top.irq = KEYBOARD_IRQ
      BY <1>4, <2>4, Zenon
    <3> QED BY <2>1, <2>2, <3>1, <3>2, LinesFacts
  <2> QED BY <2>3, <2>4 DEF Pending
<1>9. Booted'
  <2>1. (\A i \in 1 .. Len(stack) : stack[i].irq # KEYBOARD_IRQ)
          => \A i \in 1 .. Len(stack') : stack'[i].irq # KEYBOARD_IRQ
    BY <1>2, <1>3
  <2>2. stage \notin BeforeVectors
    BY <1>1 DEF IInv, Booted
  <2> QED BY <1>1, <2>1, <2>2 DEF IInv, Booted, flags
<1> QED BY <1>5, <1>6, <1>7, <1>8, <1>9 DEF IInv

\* Facts about a keyboard handler that is on top.
LEMMA KeyboardRuns ==
    ASSUME IInv, NEW a, Running(KEYBOARD_IRQ, a)
    PROVE  /\ stack \in Seq(Frames) /\ stack # <<>> /\ Len(stack) \in Nat /\ Len(stack) >= 1
           /\ Top = stack[Len(stack)] /\ Top.irq = KEYBOARD_IRQ /\ Top.at = a
           /\ \A i \in 1 .. Len(stack) : stack[i].irq = KEYBOARD_IRQ
           /\ \A i \in 1 .. Len(stack) - 1 : stack[i].at \in {"eoi", "sti", "iret"}
           /\ stage \notin BeforeKeys /\ stage \notin BeforeVectors
<1>1. /\ stack \in Seq(Frames) /\ stack # <<>> /\ Len(stack) \in Nat /\ Len(stack) >= 1
      /\ Top = stack[Len(stack)] /\ Top.irq = KEYBOARD_IRQ /\ Top.at = a
  BY DEF IInv, Types, Running, Top
<1>2. /\ \A i \in 1 .. Len(stack) : stack[i].irq = KEYBOARD_IRQ
      /\ \A i \in 1 .. Len(stack) - 1 : stack[i].at \in {"eoi", "sti", "iret"}
  BY <1>1 DEF IInv, Nesting
<1>3. stage \notin BeforeKeys
  BY <1>1, <1>2 DEF IInv, Booted
<1>4. stage \notin BeforeVectors
  BY <1>1 DEF IInv, Booted
<1> QED BY <1>1, <1>2, <1>3, <1>4

\* The code is read with IF off, and the next one raises the line again.
LEMMA KeyReadKeeps == ASSUME IInv, KeyRead PROVE IInv'
<1>1. /\ stack \in Seq(Frames) /\ stack # <<>> /\ Len(stack) \in Nat /\ Len(stack) >= 1
      /\ Top = stack[Len(stack)] /\ Top.irq = KEYBOARD_IRQ /\ Top.at = "entry"
      /\ \A i \in 1 .. Len(stack) : stack[i].irq = KEYBOARD_IRQ
      /\ \A i \in 1 .. Len(stack) - 1 : stack[i].at \in {"eoi", "sti", "iret"}
      /\ stage \notin BeforeKeys /\ stage \notin BeforeVectors
  BY KeyboardRuns DEF KeyRead
<1>2. queue \in Seq(Codes) /\ queue # <<>> /\ queue' = Tail(queue)
  BY DEF KeyRead, IInv, Types
<1>3. Head(queue) \in Codes /\ queue' \in Seq(Codes)
  BY <1>2
<1>4. stack' = Moving(stack, "body", Head(queue))
  BY DEF KeyRead, Moving
<1>5. /\ stack' \in Seq(Frames) /\ Len(stack') = Len(stack) /\ stack' # <<>>
      /\ \A i \in 1 .. Len(stack) - 1 : stack'[i] = stack[i]
      /\ stack'[Len(stack)].irq = stack[Len(stack)].irq /\ stack'[Len(stack)].at = "body"
  <2>1. "body" \in Places /\ stack \in Seq(Frames) /\ stack # <<>> /\ Head(queue) \in Codes
    BY <1>1, <1>3 DEF Places
  <2>2. IsMoved(stack, stack', "body", Head(queue))
    BY <1>4, <2>1, Moved, Zenon
  <2> QED BY <2>2 DEF IsMoved
<1>6. /\ isr' = isr /\ irr \subseteq irr' /\ (queue' # <<>> => KEYBOARD_IRQ \in irr')
      /\ rtc_flag' = rtc_flag /\ if_flag' = if_flag /\ stage' = stage /\ lost' = lost
      /\ idt_set' = idt_set /\ remapped' = remapped
  BY DEF KeyRead
<1>7. Types'
  BY <1>3, <1>5 DEF Types
<1>8. Nesting'
  <2>1. ~if_flag'
    BY <1>1, <1>6 DEF IInv, Nesting
  <2> QED BY <1>1, <1>5, <2>1 DEF Nesting, Top
<1>9. Acknowledged'
  <2> SUFFICES ASSUME NEW p \in isr PROVE Owed(p)'
    BY <1>6 DEF Acknowledged
  <2>1. p = KEYBOARD_IRQ
    BY <1>1, LinesFacts DEF IInv, Acknowledged, Owed
  <2>2. Len(stack) \in 1 .. Len(stack') /\ stack'[Len(stack)].irq = KEYBOARD_IRQ
    BY <1>1, <1>5
  <2> QED BY <1>5, <2>1, <2>2, LinesFacts DEF Owed, InService, MasterLine
<1>10. Pending'
  BY <1>1, <1>6, LinesFacts DEF IInv, Pending
<1>11. Booted'
  BY <1>1, <1>6 DEF IInv, Booted
<1> QED BY <1>7, <1>8, <1>9, <1>10, <1>11 DEF IInv

\* The rest of the handler: its effect, its EOI, its sti.
LEMMA KeyMoveKeeps ==
    ASSUME IInv, KeyFlags \/ KeySwitch \/ KeySwitchLimit \/ KeyEoi \/ KeySti
    PROVE  IInv'
<1>1. PICK a \in {"body", "eoi", "sti"}, b \in {"eoi", "sti", "iret"} :
        /\ Running(KEYBOARD_IRQ, a) /\ Move(b)
        /\ \/ isr' = isr /\ (a = "sti" \/ b = "eoi")
           \/ isr' = isr \ InService(KEYBOARD_IRQ)
  BY DEF KeyFlags, KeySwitch, KeySwitchLimit, KeyEoi, KeySti, send_eoi, EoiOf, pic
<1>2. /\ stack \in Seq(Frames) /\ stack # <<>> /\ Len(stack) \in Nat /\ Len(stack) >= 1
      /\ Top = stack[Len(stack)] /\ Top.irq = KEYBOARD_IRQ /\ Top.at = a
      /\ \A i \in 1 .. Len(stack) : stack[i].irq = KEYBOARD_IRQ
      /\ \A i \in 1 .. Len(stack) - 1 : stack[i].at \in {"eoi", "sti", "iret"}
      /\ stage \notin BeforeKeys /\ stage \notin BeforeVectors
  BY <1>1, KeyboardRuns
<1>3. /\ stack' \in Seq(Frames) /\ Len(stack') = Len(stack) /\ stack' # <<>>
      /\ \A i \in 1 .. Len(stack) - 1 : stack'[i] = stack[i]
      /\ stack'[Len(stack)].irq = stack[Len(stack)].irq /\ stack'[Len(stack)].at = b
  <2>1. stack' = Moving(stack, b, NoCode)
    BY <1>1 DEF Move, Moving
  <2>2. b \in Places /\ stack \in Seq(Frames) /\ stack # <<>>
    BY <1>2 DEF Places
  <2>3. IsMoved(stack, stack', b, NoCode)
    BY <2>1, <2>2, NoCodeType, Moved, Zenon
  <2> QED BY <2>3 DEF IsMoved
<1>4. /\ queue' = queue /\ irr' = irr /\ rtc_flag' = rtc_flag /\ stage' = stage /\ lost' = lost
      /\ idt_set' = idt_set /\ remapped' = remapped
  BY DEF KeyFlags, KeySwitch, KeySwitchLimit, KeyEoi, KeySti, pic
<1>5. Types'
  BY <1>3, <1>4 DEF IInv, Types
<1>6. Nesting'
  BY <1>1, <1>2, <1>3 DEF Nesting, Top
<1>7. Acknowledged'
  <2> SUFFICES ASSUME NEW p \in isr' PROVE Owed(p)'
    BY DEF Acknowledged
  <2>1. p \in isr
    BY <1>1
  <2>2. PICK i \in 1 .. Len(stack) :
          p \in InService(stack[i].irq) /\ stack[i].at \in {"entry", "body", "eoi"}
    BY <2>1 DEF IInv, Acknowledged, Owed
  <2>3. p \in InService(KEYBOARD_IRQ)
    BY <1>2, <2>2
  <2>4. a = "sti" \/ b = "eoi"
    BY <1>1, <2>3
  <2>5. CASE i = Len(stack)
    <3>1. b = "eoi"
      BY <1>2, <2>2, <2>4, <2>5
    <3>2. i \in 1 .. Len(stack') /\ stack'[i].irq = KEYBOARD_IRQ /\ stack'[i].at = "eoi"
      BY <1>2, <1>3, <2>5, <3>1
    <3> QED BY <2>3, <3>2 DEF Owed, InService, MasterLine
  <2>6. CASE i # Len(stack)
    <3>1. i \in 1 .. Len(stack') /\ stack'[i] = stack[i]
      BY <1>2, <1>3, <2>6
    <3> QED BY <2>2, <3>1 DEF Owed, InService, MasterLine
  <2> QED BY <2>5, <2>6
<1>8. Pending'
  <2>1. queue' # <<>> => KEYBOARD_IRQ \in irr'
    <3>1. \A i \in 1 .. Len(stack) : stack[i].at # "entry"
      BY <1>2
    <3> QED BY <1>4, <3>1 DEF IInv, Pending
  <2>2. rtc_flag' => RTC_IRQ \in irr'
    BY <1>2, <1>4, LinesFacts DEF IInv, Pending
  <2> QED BY <2>1, <2>2 DEF Pending
<1>9. Booted'
  BY <1>2, <1>4 DEF IInv, Booted
<1> QED BY <1>5, <1>6, <1>7, <1>8, <1>9 DEF IInv

\* Ctrl-C and a new shell give up every handler on the stack; all are
\* keyboard handlers, and the one EOI is for their line.
LEMMA KeyGivesUpKeeps == ASSUME IInv, KeySwitchShell \/ KeyHalt PROVE IInv'
<1>1. Running(KEYBOARD_IRQ, "body") /\ stack' = <<>> /\ isr' = isr \ InService(KEYBOARD_IRQ)
      /\ queue' = queue /\ irr' = irr /\ rtc_flag' = rtc_flag /\ stage' = stage /\ lost' = lost
      /\ idt_set' = idt_set /\ remapped' = remapped
  BY DEF KeySwitchShell, KeyHalt, send_eoi, EoiOf
<1>2. /\ Len(stack) \in Nat /\ Top = stack[Len(stack)] /\ Top.at = "body"
      /\ \A i \in 1 .. Len(stack) : stack[i].irq = KEYBOARD_IRQ
      /\ \A i \in 1 .. Len(stack) - 1 : stack[i].at \in {"eoi", "sti", "iret"}
      /\ stage \notin BeforeKeys /\ stage \notin BeforeVectors
  BY <1>1, KeyboardRuns
<1>3. Types' /\ Nesting'
  BY <1>1 DEF IInv, Types, Nesting
<1>4. Acknowledged'
  BY <1>1, <1>2 DEF IInv, Acknowledged, Owed
<1>5. Pending'
  <2>1. \A i \in 1 .. Len(stack) : stack[i].at # "entry"
    BY <1>2
  <2> QED BY <1>1, <1>2, <2>1, LinesFacts DEF IInv, Pending
<1>6. Booted'
  BY <1>1, <1>2 DEF IInv, Booted
<1> QED BY <1>3, <1>4, <1>5, <1>6 DEF IInv

\* The cli and sti of the code below the handlers run with no handler on the stack.
LEMMA BelowKeeps == ASSUME IInv, BelowCli \/ BelowSti PROVE IInv'
<1>1. /\ stack = <<>> /\ stack' = stack /\ isr' \subseteq isr /\ queue' = queue /\ UNCHANGED flags
      /\ irr' = irr /\ rtc_flag' = rtc_flag /\ stage' = stage /\ lost' = lost
      /\ idt_set' = idt_set /\ remapped' = remapped
  BY DEF BelowCli, BelowSti, At, send_eoi, pic
<1>2. Types' /\ Nesting' /\ Acknowledged' /\ Pending'
  BY <1>1 DEF IInv, Types, Nesting, Acknowledged, Owed, Pending
<1>3. Booted'
  BY <1>1 DEF IInv, Booted, flags
<1> QED BY <1>2, <1>3 DEF IInv

\* Every step keeps the frames, the interrupt flag and the in-service lines together.
LEMMA NextIInv == ASSUME IInv, BootOrder, [Next]_vars PROVE IInv'
<1>1. CASE UNCHANGED vars
  BY <1>1 DEF vars, user, flags, pic, cpu, IInv, Types, Nesting, Acknowledged, Owed, Pending,
              Booted, Top, InService, MasterLine
<1>2. CASE pit_handler \/ rtc_handler
  BY <1>2, ReturnKeeps
<1>3. CASE keyboard_handler
  BY <1>3, KeyReadKeeps, KeyMoveKeeps, KeyGivesUpKeeps, ReturnKeeps DEF keyboard_handler
<1>4. CASE KeyEvent \/ PitTick \/ RtcTick
  BY <1>4, KeyEventKeeps, TickKeeps
<1>5. CASE \E q \in Lines : Deliver(q)
  BY <1>5, DeliverKeeps
<1> QED BY <1>1, <1>2, <1>3, <1>4, <1>5, BootKeeps, BelowKeeps DEF Next

\* However the handlers nest, the stack of handlers, the controllers and the
\* stage of entry() fit together as IInv says.
THEOREM Handled == ASSUME BootOrder PROVE Spec => []IInv
<1>1. Init => IInv
  BY InitIInv
<1>2. IInv /\ [Next]_vars => IInv'
  BY NextIInv
<1> QED BY <1>1, <1>2, PTL DEF Spec

\* Once the timer ticks only after the vectors are set, an interrupt is never
\* taken through a gate that is not its line's: entry() sets up table, vectors
\* and masks in time.
THEOREM GatesAreSet == ASSUME BootOrder PROVE Spec => []GateFound
<1>1. IInv => GateFound
  BY DEF IInv, Booted, GateFound
<1> QED BY <1>1, Handled, PTL

\* No line stays in service without a handler that will acknowledge it, and
\* no code and no RTC interrupt waits without its line being raised.
THEOREM NothingStuckThm == ASSUME BootOrder PROVE Spec => []NothingStuck
<1>1. IInv => NothingStuck
  BY DEF IInv, Acknowledged, Owed, Pending, NothingStuck, Unacknowledged
<1> QED BY <1>1, Handled, PTL

-----------------------------------------------------------------------------
(***************************************************************************)
(* The handler as one step.  A code takes effect when the handler that has *)
(* it in hand goes on; every other step leaves keys, flags and the codes   *)
(* not yet in effect as they are.                                          *)
(***************************************************************************)
LEMMA InHandFacts ==
    ASSUME IInv
    PROVE  /\ InHand \in Seq(Codes) /\ queue \in Seq(Codes) /\ Unread \in Seq(Codes)
           /\ Len(InHand) \in {0, 1}
           /\ (stack = <<>> \/ Top.at # "body") => InHand = <<>> /\ Unread = queue
<1>1. queue \in Seq(Codes) /\ stack \in Seq(Frames)
  BY DEF IInv, Types
<1>2. stack # <<>> => Top \in Frames
  BY <1>1 DEF Top
<1>3. stack # <<>> => Top.code \in Codes
  BY <1>2 DEF Frames
<1>4. InHand \in Seq(Codes) /\ Len(InHand) \in {0, 1}
  BY <1>3 DEF InHand
<1>5. (stack = <<>> \/ Top.at # "body") => InHand = <<>>
  BY DEF InHand
<1>6. <<>> \o queue = queue
  BY <1>1, ConcatEmptySeq
<1> QED BY <1>1, <1>4, <1>5, <1>6 DEF Unread

\* A key adds its code to those not yet in effect.
LEMMA KeySent ==
    ASSUME NEW p \in Seq(Codes), NEW q \in Seq(Codes), NEW c \in Codes
    PROVE  p \o Append(q, c) = Append(p \o q, c)
OBVIOUS

\* The code in hand is the next of them.
LEMMA OneInHand ==
    ASSUME NEW q \in Seq(Codes), NEW c \in Codes
    PROVE  /\ <<c>> \o q # <<>> /\ Head(<<c>> \o q) = c /\ Tail(<<c>> \o q) = q
           /\ \A r \in Seq(Codes) : r # <<>> => <<Head(r)>> \o Tail(r) = r
<1>1. <<c>> \o q # <<>> /\ Head(<<c>> \o q) = c
  OBVIOUS
<1>2. Tail(<<c>> \o q) = q
  OBVIOUS
<1>3. ASSUME NEW r \in Seq(Codes), r # <<>> PROVE <<Head(r)>> \o Tail(r) = r
  BY <1>3
<1> QED BY <1>1, <1>2, <1>3

\* A key event of the composed machine is one of the handler specification.
LEMMA KeyEventStep == ASSUME IInv, KeyEvent PROVE Handler!Next
<1>1. /\ InHand \in Seq(Codes) /\ queue \in Seq(Codes) /\ Len(InHand) \in {0, 1}
      /\ stack' = stack /\ UNCHANGED flags
  BY InHandFacts, SentFacts DEF KeyEvent, cpu
<1>2. InHand' = InHand
  BY <1>1 DEF InHand, Top
<1>3. ASSUME NEW c \in Codes, Keyboard!Send(c) PROVE Handler!Send(c)
  <2>1. Len(queue) < QUEUE_MAX /\ queue' = Append(queue, c)
    BY <1>3 DEF Keyboard!Send
  <2>2. Len(InHand \o queue) = Len(InHand) + Len(queue) /\ Len(queue) \in Nat
    BY <1>1, ConcatProperties
  <2>3. Len(Unread) < QUEUE_MAX + 1
    <3> DEFINE m == Len(InHand)
               n == Len(queue)
    <3>1. m \in {0, 1} /\ n \in Nat /\ n < QUEUE_MAX /\ Len(Unread) = m + n
      BY <1>1, <2>1, <2>2 DEF Unread
    <3> HIDE DEF m, n
    <3> QED BY <3>1, InterruptsAssumption
  <2>4. Unread' = Append(Unread, c)
    BY <1>1, <1>2, <2>1, KeySent DEF Unread
  <2> QED BY <2>3, <2>4 DEF Handler!Send
<1>4. \A k \in Keys : Keyboard!Make(k) \in Codes /\ Keyboard!Break(k) \in Codes
  BY DEF Codes, Keyboard!Make, Keyboard!Break
<1>5. \A k : Keyboard!Make(k) = Handler!Make(k) /\ Keyboard!Break(k) = Handler!Break(k)
  BY DEF Keyboard!Make, Keyboard!Break, Handler!Make, Handler!Break
<1>6. ASSUME NEW k \in Keys, Keyboard!Press(k) PROVE Handler!Press(k)
  <2>1. Handler!Send(Handler!Make(k))
    BY <1>3, <1>4, <1>5, <1>6 DEF Keyboard!Press
  <2> QED BY <1>1, <1>6, <2>1
          DEF Keyboard!Press, Handler!Press, Keyboard!FunctionKeys, Handler!FunctionKeys,
              Keyboard!TerminalOf, Handler!TerminalOf, Handler!driver, flags
<1>7. ASSUME NEW k \in Repeats, Keyboard!Repeat(k) PROVE Handler!Repeat(k)
  <2>1. Handler!Send(Handler!Make(k))
    BY <1>3, <1>4, <1>5, <1>7, InterruptsAssumption DEF Keyboard!Repeat
  <2> QED BY <1>1, <1>7, <2>1 DEF Keyboard!Repeat, Handler!Repeat, Handler!driver, flags
<1>8. ASSUME NEW k \in Keys, Keyboard!Release(k) PROVE Handler!Release(k)
  <2>1. Handler!Send(Handler!Break(k))
    BY <1>3, <1>4, <1>5, <1>8 DEF Keyboard!Release
  <2> QED BY <1>1, <1>8, <2>1 DEF Keyboard!Release, Handler!Release, Handler!driver, flags
<1> QED BY <1>6, <1>7, <1>8 DEF KeyEvent, Handler!Next

\* The steps in which the code in hand takes effect.
LEMMA KeyBodyStep ==
    ASSUME IInv, IInv',
           KeyFlags \/ KeySwitch \/ KeySwitchLimit \/ KeySwitchShell \/ KeyHalt
    PROVE  Handler!keyboard_handler
<1>1. Running(KEYBOARD_IRQ, "body") /\ queue' = queue /\ UNCHANGED user
  BY DEF KeyFlags, KeySwitch, KeySwitchLimit, KeySwitchShell, KeyHalt
<1>2. stack \in Seq(Frames) /\ stack # <<>> /\ Top = stack[Len(stack)] /\ Top.at = "body"
  BY <1>1, KeyboardRuns
<1>3. Top.code \in Codes /\ queue \in Seq(Codes)
  <2>1. Top \in Frames
    BY <1>2
  <2> QED BY <2>1 DEF Frames, IInv, Types
<1>4. Unread = <<Code>> \o queue
  BY <1>2 DEF Unread, InHand, Code
<1>5. Unread # <<>> /\ Head(Unread) = Code /\ Tail(Unread) = queue
  BY <1>3, <1>4, OneInHand DEF Code
<1>6. Unread' = queue
  <2>1. stack' = <<>> \/ Top'.at # "body"
    <3>1. CASE KeySwitchShell \/ KeyHalt
      BY <3>1 DEF KeySwitchShell, KeyHalt
    <3>2. CASE KeyFlags \/ KeySwitch \/ KeySwitchLimit
      <4>1. stack' = Moving(stack, "eoi", NoCode)
        BY <3>2 DEF KeyFlags, KeySwitch, KeySwitchLimit, Move, Moving
      <4>2. "eoi" \in Places
        BY DEF Places
      <4>3. IsMoved(stack, stack', "eoi", NoCode)
        BY <1>2, <4>1, <4>2, NoCodeType, Moved, Zenon
      <4> QED BY <4>3 DEF IsMoved, Top
    <3> QED BY <3>1, <3>2
  <2>2. InHand' = <<>>
    BY <2>1 DEF InHand
  <2>3. <<>> \o queue = queue
    BY <1>3, ConcatEmptySeq
  <2> QED BY <1>1, <2>2, <2>3 DEF Unread
<1>7. /\ ctrl_flag' = Handler!ctrl_after(Code) /\ alt_flag' = Handler!alt_after(Code)
      /\ cap_flag' = Handler!cap_after(Code) /\ curr_terminal' = Handler!terminal_after(Code)
  <2>1. CASE KeyHalt
    <3>1. UNCHANGED flags /\ Code.key = "c" /\ Code.make
      BY <2>1 DEF KeyHalt, CtrlC, Keyboard!Make
    <3> QED BY <3>1 DEF flags, Handler!ctrl_after, Handler!alt_after, Handler!cap_after,
                        Handler!terminal_after, Handler!Shifts, Handler!FunctionKeys
  <2> QED BY <2>1 DEF KeyFlags, KeySwitch, KeySwitchLimit, KeySwitchShell, SetFlags
<1> QED BY <1>1, <1>5, <1>6, <1>7 DEF Handler!keyboard_handler, user

\* Reading a code off the port puts it in hand.
LEMMA KeyReadStutters == ASSUME IInv, KeyRead PROVE UNCHANGED Handler!vars
<1>1. Running(KEYBOARD_IRQ, "entry") /\ queue # <<>> /\ queue' = Tail(queue)
      /\ UNCHANGED <<user, flags>> /\ stack' = Moving(stack, "body", Head(queue))
  BY DEF KeyRead, Moving
<1>2. stack \in Seq(Frames) /\ stack # <<>> /\ Top.at = "entry"
  BY <1>1, KeyboardRuns, Zenon
<1>3. queue \in Seq(Codes) /\ Head(queue) \in Codes /\ "body" \in Places
  BY <1>1 DEF IInv, Types, Places
<1>4. IsMoved(stack, stack', "body", Head(queue))
  BY <1>1, <1>2, <1>3, Moved, Zenon
<1>5. InHand' = <<Head(queue)>>
  BY <1>4 DEF IsMoved, InHand, Top
<1>6. Unread = queue
  BY <1>2, InHandFacts
<1>7. Unread' = queue
  BY <1>1, <1>3, <1>5, OneInHand DEF Unread
<1> QED BY <1>1, <1>6, <1>7 DEF Handler!vars, Handler!driver, user, flags

\* Other steps neither take a code in hand nor leave one.
LEMMA RestStutters ==
    ASSUME IInv, IInv',
           \/ Boot \/ BelowCli \/ BelowSti \/ PitTick \/ RtcTick \/ UNCHANGED vars
           \/ (\E q \in Lines : Deliver(q))
           \/ pit_handler \/ rtc_handler \/ KeyReturn \/ KeyEoi \/ KeySti
    PROVE  UNCHANGED Handler!vars
<1>1. UNCHANGED <<user, queue, flags>>
  <2>1. CASE Boot
    <3>1. CASE BootFlags \/ BootTerminal
      BY <3>1, StagesFacts DEF BootFlags, BootTerminal, At, IInv, Booted, BeforeKeys, flags
    <3> QED BY <2>1, <3>1 DEF Boot, BootPrint, idt_init, i8259_init, BootUnmask, BootSti
  <2>2. CASE ~Boot
    BY <2>2, Zenon DEF BelowCli, BelowSti, PitTick, RtcTick, vars, Deliver, pit_handler, rtc_handler,
                KeyReturn, KeyEoi, KeySti
  <2> QED BY <2>1, <2>2
<1>2. InHand' = InHand
  <2>1. CASE Boot \/ BelowCli \/ BelowSti
    <3>1. stack' = stack
      BY <2>1, Zenon DEF Boot, BootPrint, idt_init, i8259_init, BootUnmask, BootFlags, BootTerminal,
                  BootSti, At, Goto, BelowCli, BelowSti
    <3> QED BY <3>1 DEF InHand, Top
  <2>2. CASE PitTick \/ RtcTick \/ UNCHANGED vars
    BY <2>2 DEF PitTick, RtcTick, vars, cpu, InHand, Top
  <2>3. ASSUME NEW q \in Lines, Deliver(q) PROVE InHand' = InHand
    <3> DEFINE f == [irq |-> q, at |-> "entry", code |-> NoCode]
    <3>1. InHand = <<>>
      BY <2>3 DEF Deliver, IInv, Nesting, InHand
    <3>2. stack' = Append(stack, f) \/ stack' = stack
      BY <2>3 DEF Deliver
    <3>3. stack \in Seq(Frames) /\ f \in Frames
      BY NoCodeType DEF IInv, Types, Frames, Places
    <3>4. f.at = "entry"
      OBVIOUS
    <3> HIDE DEF f
    <3>5. CASE stack' = Append(stack, f)
      <4>1. stack'[Len(stack')] = f
        BY <3>3, <3>5, Entered
      <4> QED BY <3>1, <3>4, <4>1 DEF InHand, Top
    <3>6. CASE stack' = stack
      BY <3>6 DEF InHand, Top
    <3> QED BY <3>2, <3>5, <3>6
  <2>4. CASE pit_handler \/ rtc_handler \/ KeyReturn
    <3>1. /\ stack \in Seq(Frames) /\ stack # <<>> /\ Leave /\ Top.at \in {"entry", "iret"}
      BY <2>4 DEF IInv, Types, pit_handler, rtc_handler, KeyReturn, Running
    <3>2. /\ stack' \in Seq(Frames) /\ Len(stack') = Len(stack) - 1
          /\ \A i \in 1 .. Len(stack) - 1 : stack'[i] = stack[i]
      BY <3>1, LastDropped DEF Leave
    <3>3. stack' # <<>> => Top' = stack[Len(stack) - 1] /\ Len(stack) - 1 \in 1 .. Len(stack) - 1
      BY <3>1, <3>2 DEF Top
    <3>4. stack' # <<>> => Top'.at # "body"
      BY <3>3 DEF IInv, Nesting
    <3> QED BY <3>1, <3>4 DEF InHand
  <2>5. CASE KeyEoi \/ KeySti
    <3>1. PICK a \in {"eoi", "sti"}, b \in {"sti", "iret"} :
            Running(KEYBOARD_IRQ, a) /\ stack' = Moving(stack, b, NoCode)
      BY <2>5 DEF KeyEoi, KeySti, Move, Moving
    <3>2. stack \in Seq(Frames) /\ stack # <<>> /\ Top.at = a /\ b \in Places
      BY <3>1, KeyboardRuns DEF Places
    <3>3. IsMoved(stack, stack', b, NoCode)
      BY <3>1, <3>2, NoCodeType, Moved, Zenon
    <3> QED BY <3>2, <3>3 DEF IsMoved, InHand, Top
  <2> QED BY <2>1, <2>2, <2>3, <2>4, <2>5
<1> QED BY <1>1, <1>2 DEF Handler!vars, Handler!driver, Unread, user, flags

\* Every step is a step of the handler specification or leaves its state alone.
LEMMA StepIsHandlerStep ==
    ASSUME IInv, IInv', [Next]_vars PROVE [Handler!Next]_(Handler!vars)
<1>1. CASE KeyFlags \/ KeySwitch \/ KeySwitchLimit \/ KeySwitchShell \/ KeyHalt
  BY <1>1, KeyBodyStep DEF Handler!Next
<1>2. CASE KeyEvent
  BY <1>2, KeyEventStep
<1> QED BY <1>1, <1>2, KeyReadStutters, RestStutters DEF Next, keyboard_handler

\* The interruptible handler implements the one of Keyboard, which reads a
\* code and acts on it in one step: no interrupt, and no nested handler,
\* comes between a code and its effect, and codes take effect in order.
THEOREM ActsOneByOne == ASSUME BootOrder PROVE Spec => OneByOne
<1>1. Init => Handler!Init
  BY DEF Init, Keyboard!Init, Handler!Init, Unread, InHand
<1>2. IInv /\ IInv' /\ [Next]_vars => [Handler!Next]_(Handler!vars)
  BY StepIsHandlerStep
<1> QED BY <1>1, <1>2, Handled, PTL DEF Spec, OneByOne, Handler!Spec

-----------------------------------------------------------------------------
(***************************************************************************)
(* The flags and the keys.  Between the flags as they are and those that   *)
(* the user's keys ask for lie the codes not yet in effect: from the one   *)
(* to the other leads a path with a step of the handler for every code.    *)
(* This needs what InOrder says of the keys: of the two shifts only one is *)
(* used, and no toggling key and no function key is held until it repeats. *)
(***************************************************************************)
InOrder ==
    /\ ~(Handler!Shifts \subseteq Keys)
    /\ Repeats \cap (Handler!Shifts \cup {"caps"} \cup Handler!FunctionKeys) = {}

Modes == [ctrl : {0, 1}, cap : {0, 1}, alt : {0, 1}, terminal : 0 .. 2]

Shown == [ctrl |-> ctrl_flag, cap |-> cap_flag, alt |-> alt_flag, terminal |-> curr_terminal]

ShiftHeld == \E k \in Handler!Shifts : k \in down
Capitals == (caps_lock /\ ~ShiftHeld) \/ (~caps_lock /\ ShiftHeld)
Asked ==
    [ctrl |-> IF "ctrl" \in down THEN 1 ELSE 0,
     cap |-> IF Capitals THEN 1 ELSE 0,
     alt |-> IF "alt" \in down THEN 1 ELSE 0,
     terminal |-> wanted]

\* What the handler makes of mode m when it acts on code c.
After(m, c) ==
    [ctrl |-> IF c.key # "ctrl" THEN m.ctrl ELSE IF c.make THEN 1 ELSE 0,
     cap |-> IF c.key \in Handler!Shifts \/ (c.key = "caps" /\ c.make) THEN 1 - m.cap ELSE m.cap,
     alt |-> IF c.key # "alt" THEN m.alt ELSE IF c.make THEN 1 ELSE 1 - m.alt,
     terminal |-> IF c.make /\ c.key \in Handler!FunctionKeys /\ m.alt = 1
                  THEN Handler!TerminalOf[c.key] ELSE m.terminal]

Leads(q, a, b) ==
    \E path \in [0 .. Len(q) -> Modes] :
        /\ path[0] = a /\ path[Len(q)] = b
        /\ \A i \in 1 .. Len(q) : path[i] = After(path[i - 1], q[i])

UserTypes == down \subseteq Keys /\ caps_lock \in BOOLEAN /\ wanted \in 0 .. 2
CatchUp == UserTypes /\ Shown \in Modes /\ Leads(Unread, Shown, Asked)

\* What keyboard_interrupt_handler makes of a mode is a mode.
LEMMA AfterType == ASSUME NEW m \in Modes, NEW c \in Codes PROVE After(m, c) \in Modes
<1>1. /\ m.ctrl \in {0, 1} /\ m.cap \in {0, 1} /\ m.alt \in {0, 1} /\ m.terminal \in 0 .. 2
      /\ c.make \in BOOLEAN
  BY DEF Modes, Codes
<1>2. c.key \in Handler!FunctionKeys => Handler!TerminalOf[c.key] \in 0 .. 2
  BY DEF Handler!FunctionKeys, Handler!TerminalOf
<1>3. 1 - m.cap \in {0, 1} /\ 1 - m.alt \in {0, 1}
  BY <1>1
<1> QED BY <1>1, <1>2, <1>3 DEF After, Modes

\* The mode the keys held down ask for is a mode.
LEMMA AskedType == ASSUME UserTypes PROVE Asked \in Modes
BY DEF UserTypes, Asked, Modes

\* A path goes on with the next code, and loses its first step when the
\* first code takes effect.
LEMMA LeadsOn ==
    ASSUME NEW q \in Seq(Codes), NEW a, NEW b \in Modes, NEW c \in Codes, Leads(q, a, b)
    PROVE  Leads(Append(q, c), a, After(b, c))
<1> DEFINE n == Len(q)
           r == Append(q, c)
<1>1. PICK path \in [0 .. n -> Modes] :
        /\ path[0] = a /\ path[n] = b
        /\ \A i \in 1 .. n : path[i] = After(path[i - 1], q[i])
  BY DEF Leads
<1>2. /\ n \in Nat /\ Len(r) = n + 1 /\ r[n + 1] = c
      /\ \A i \in 1 .. n : r[i] = q[i]
  BY AppendProperties
<1> HIDE DEF n, r
<1> DEFINE longer == [i \in 0 .. n + 1 |-> IF i = n + 1 THEN After(b, c) ELSE path[i]]
<1>3. longer \in [0 .. n + 1 -> Modes]
  BY <1>1, <1>2, AfterType
<1>4. longer[0] = a /\ longer[n + 1] = After(b, c) /\ \A i \in 0 .. n : longer[i] = path[i]
  BY <1>1, <1>2
<1> HIDE DEF longer
<1>5. ASSUME NEW i \in 1 .. n + 1 PROVE longer[i] = After(longer[i - 1], r[i])
  <2>1. CASE i = n + 1
    <3>1. n \in 0 .. n /\ i - 1 = n
      BY <1>2, <2>1
    <3> QED BY <1>1, <1>2, <1>4, <2>1, <3>1, Zenon
  <2>2. CASE i # n + 1
    <3>1. i \in 1 .. n /\ i \in 0 .. n /\ i - 1 \in 0 .. n
      BY <1>2, <2>2
    <3> QED BY <1>1, <1>2, <1>4, <3>1, Zenon
  <2> QED BY <2>1, <2>2, Zenon
<1>6. Leads(r, a, After(b, c))
  BY <1>2, <1>3, <1>4, <1>5 DEF Leads
<1> QED BY <1>6 DEF r

\* The codes after the first lead on from the mode the first one leaves.
LEMMA LeadsFrom ==
    ASSUME NEW q \in Seq(Codes), q # <<>>, NEW a, NEW b, Leads(q, a, b)
    PROVE  Leads(Tail(q), After(a, Head(q)), b)
<1> DEFINE n == Len(q)
           r == Tail(q)
<1>1. PICK path \in [0 .. n -> Modes] :
        /\ path[0] = a /\ path[n] = b
        /\ \A i \in 1 .. n : path[i] = After(path[i - 1], q[i])
  BY DEF Leads
<1>2. /\ n \in Nat /\ n >= 1 /\ Len(r) = n - 1
      /\ \A i \in 1 .. n - 1 : r[i] = q[i + 1]
  BY HeadTailProperties
<1>3. Head(q) = q[1]
  OBVIOUS
<1> HIDE DEF n, r
<1> DEFINE shorter == [i \in 0 .. n - 1 |-> path[i + 1]]
<1>4. shorter \in [0 .. n - 1 -> Modes]
  BY <1>1, <1>2
<1>5. \A i \in 0 .. n - 1 : shorter[i] = path[i + 1]
  OBVIOUS
<1>6. shorter[0] = After(a, Head(q)) /\ shorter[n - 1] = b
  <2>1. path[1] = After(path[1 - 1], q[1])
    BY <1>1, <1>2
  <2>2. shorter[0] = path[1] /\ shorter[n - 1] = path[n]
    BY <1>2
  <2> QED BY <1>1, <1>3, <2>1, <2>2
<1>7. ASSUME NEW i \in 1 .. n - 1 PROVE shorter[i] = After(shorter[i - 1], r[i])
  <2>1. i + 1 \in 1 .. n /\ (i + 1) - 1 = i /\ i \in 0 .. n - 1 /\ i - 1 \in 0 .. n - 1
        /\ (i - 1) + 1 = i
    BY <1>2
  <2>2. path[i + 1] = After(path[i], q[i + 1])
    BY <1>1, <2>1
  <2> QED BY <1>2, <1>5, <2>1, <2>2
<1> HIDE DEF shorter
<1>8. Leads(r, After(a, Head(q)), b)
  BY <1>2, <1>4, <1>6, <1>7, Zenon DEF Leads
<1> QED BY <1>8 DEF r

\* With no key pressed yet the handler has nothing to catch up with.
LEMMA InitCatchUp == ASSUME Init, IInv PROVE CatchUp
<1>1. /\ down = {} /\ caps_lock = FALSE /\ wanted = 0 /\ queue = <<>> /\ stack = <<>>
      /\ ctrl_flag = 0 /\ cap_flag = 0 /\ alt_flag = 0 /\ curr_terminal = 0
  BY DEF Init, Keyboard!Init
<1>2. Unread = <<>>
  BY <1>1, InHandFacts
<1>3. UserTypes /\ Shown \in Modes /\ Asked = Shown
  <2>1. ~ShiftHeld /\ "ctrl" \notin down /\ "alt" \notin down
    BY <1>1 DEF ShiftHeld
  <2>2. ~Capitals
    BY <1>1, <2>1 DEF Capitals
  <2>3. down \subseteq Keys /\ caps_lock \in BOOLEAN
    BY <1>1, Zenon
  <2>4. wanted \in 0 .. 2
    BY <1>1
  <2>5. Shown = Asked
    BY <1>1, <2>1, <2>2 DEF Shown, Asked
  <2>6. UserTypes
    BY <2>3, <2>4 DEF UserTypes
  <2> QED BY <2>5, <2>6, AskedType
<1>4. Leads(<<>>, Shown, Shown)
  <2> DEFINE path == [i \in 0 .. 0 |-> Shown]
  <2>1. path \in [0 .. 0 -> Modes] /\ path[0] = Shown /\ Len(<<>>) = 0
    BY <1>3
  <2> HIDE DEF path
  <2> QED BY <2>1 DEF Leads
<1> QED BY <1>2, <1>3, <1>4 DEF CatchUp

\* What the user asks for, and what the handler makes of a mode, field by field.
LEMMA AskedFields ==
    /\ Asked.ctrl = IF "ctrl" \in down THEN 1 ELSE 0
    /\ Asked.cap = IF Capitals THEN 1 ELSE 0
    /\ Asked.alt = IF "alt" \in down THEN 1 ELSE 0
    /\ Asked.terminal = wanted
BY Zenon DEF Asked

\* The same fields after a step.
LEMMA AskedNext ==
    /\ Asked'.ctrl = IF "ctrl" \in down' THEN 1 ELSE 0
    /\ Asked'.cap = IF Capitals' THEN 1 ELSE 0
    /\ Asked'.alt = IF "alt" \in down' THEN 1 ELSE 0
    /\ Asked'.terminal = wanted'
BY Zenon DEF Asked

\* The handler's branches, field by field: ctrl, caps and shift, alt, and the F keys.
LEMMA AfterFields ==
    ASSUME NEW m, NEW c
    PROVE  /\ After(m, c).ctrl = IF c.key # "ctrl" THEN m.ctrl ELSE IF c.make THEN 1 ELSE 0
           /\ After(m, c).cap = IF c.key \in Handler!Shifts \/ (c.key = "caps" /\ c.make)
                                THEN 1 - m.cap ELSE m.cap
           /\ After(m, c).alt = IF c.key # "alt" THEN m.alt ELSE IF c.make THEN 1 ELSE 1 - m.alt
           /\ After(m, c).terminal = IF c.make /\ c.key \in Handler!FunctionKeys /\ m.alt = 1
                                     THEN Handler!TerminalOf[c.key] ELSE m.terminal
BY Zenon DEF After

\* Modes that agree in every field are equal.
LEMMA AskedAfter ==
    ASSUME NEW m, NEW c,
           Asked'.ctrl = After(m, c).ctrl, Asked'.cap = After(m, c).cap,
           Asked'.alt = After(m, c).alt, Asked'.terminal = After(m, c).terminal
    PROVE  Asked' = After(m, c)
BY Zenon DEF Asked, After

\* Every key asks for what its code will do.
LEMMA PressAsks ==
    ASSUME UserTypes, InOrder, NEW k \in Keys, Handler!Press(k)
    PROVE  UserTypes' /\ Asked' = After(Asked, Handler!Make(k))
<1>1. /\ k \notin down /\ down' = down \cup {k}
      /\ caps_lock' = IF k = "caps" THEN ~caps_lock ELSE caps_lock
      /\ wanted' = IF k \in Handler!FunctionKeys /\ "alt" \in down
                   THEN Handler!TerminalOf[k] ELSE wanted
  BY Zenon DEF Handler!Press
<1>2. UserTypes'
  <2>1. k \in Handler!FunctionKeys => Handler!TerminalOf[k] \in 0 .. 2
    BY DEF Handler!FunctionKeys, Handler!TerminalOf
  <2>2. down' \subseteq Keys /\ caps_lock' \in BOOLEAN
    BY <1>1, Zenon DEF UserTypes
  <2>3. wanted' \in 0 .. 2
    BY <1>1, <2>1, Zenon DEF UserTypes
  <2> QED BY <2>2, <2>3, Zenon DEF UserTypes
<1>3. Handler!Make(k).key = k /\ Handler!Make(k).make
  BY DEF Handler!Make
<1> DEFINE m == After(Asked, Handler!Make(k))
<1>4. /\ m.ctrl = IF k # "ctrl" THEN Asked.ctrl ELSE 1
      /\ m.cap = IF k \in Handler!Shifts \/ k = "caps" THEN 1 - Asked.cap ELSE Asked.cap
      /\ m.alt = IF k # "alt" THEN Asked.alt ELSE 1
      /\ m.terminal = IF k \in Handler!FunctionKeys /\ Asked.alt = 1
                      THEN Handler!TerminalOf[k] ELSE Asked.terminal
  BY <1>3, AfterFields
<1> HIDE DEF m
<1>5. Asked'.ctrl = m.ctrl /\ Asked'.alt = m.alt
  BY <1>1, <1>4, AskedFields, AskedNext
<1>6. Asked'.terminal = m.terminal
  BY <1>1, <1>4, AskedFields, AskedNext
<1>7. Asked'.cap = m.cap
  <2>1. CASE k \in Handler!Shifts
    <3>1. ~ShiftHeld /\ ShiftHeld' /\ caps_lock' = caps_lock
      BY <1>1, <2>1 DEF InOrder, UserTypes, ShiftHeld, Handler!Shifts
    <3>2. Capitals' <=> ~Capitals
      BY <3>1, Zenon DEF Capitals
    <3> QED BY <1>4, <2>1, <3>2, AskedFields, AskedNext
  <2>2. CASE k = "caps"
    <3>1. (ShiftHeld' <=> ShiftHeld) /\ (caps_lock' <=> ~caps_lock)
      BY <1>1, <2>2, Zenon DEF ShiftHeld, Handler!Shifts
    <3>2. Capitals' <=> ~Capitals
      BY <3>1, Zenon DEF Capitals
    <3> QED BY <1>4, <2>2, <3>2, AskedFields, AskedNext
  <2>3. CASE k \notin Handler!Shifts /\ k # "caps"
    <3>1. (ShiftHeld' <=> ShiftHeld) /\ caps_lock' = caps_lock
      BY <1>1, <2>3, Zenon DEF ShiftHeld
    <3>2. Capitals' <=> Capitals
      BY <3>1, Zenon DEF Capitals
    <3> QED BY <1>4, <2>3, <3>2, AskedFields, AskedNext
  <2> QED BY <2>1, <2>2, <2>3, Zenon
<1> QED BY <1>2, <1>5, <1>6, <1>7, AskedAfter, Zenon DEF m

\* The code of a key that repeats does what holding it asks for.
LEMMA RepeatAsks ==
    ASSUME UserTypes, InOrder, NEW k \in Repeats, Handler!Repeat(k)
    PROVE  UserTypes' /\ Asked' = After(Asked, Handler!Make(k))
<1>1. k \in down /\ UNCHANGED <<down, caps_lock, wanted>>
  BY Zenon DEF Handler!Repeat
<1>2. UserTypes' /\ Asked' = Asked
  BY <1>1, Zenon DEF UserTypes, Asked, Capitals, ShiftHeld
<1>3. Handler!Make(k).key = k /\ Handler!Make(k).make
  BY DEF Handler!Make
<1>4. After(Asked, Handler!Make(k)) = Asked
  BY <1>1, <1>3 DEF After, Asked, InOrder
<1> QED BY <1>2, <1>4, Zenon

\* The break code of a key does what releasing it asks for.
LEMMA ReleaseAsks ==
    ASSUME UserTypes, InOrder, NEW k \in Keys, Handler!Release(k)
    PROVE  UserTypes' /\ Asked' = After(Asked, Handler!Break(k))
<1>1. k \in down /\ down' = down \ {k} /\ caps_lock' = caps_lock /\ wanted' = wanted
  BY Zenon DEF Handler!Release
<1>2. UserTypes'
  BY <1>1, Zenon DEF UserTypes
<1>3. Handler!Break(k).key = k /\ ~Handler!Break(k).make
  BY DEF Handler!Break
<1> DEFINE m == After(Asked, Handler!Break(k))
<1>4. /\ m.ctrl = IF k # "ctrl" THEN Asked.ctrl ELSE 0
      /\ m.cap = IF k \in Handler!Shifts THEN 1 - Asked.cap ELSE Asked.cap
      /\ m.alt = IF k # "alt" THEN Asked.alt ELSE 1 - Asked.alt
      /\ m.terminal = Asked.terminal
  BY <1>3, AfterFields, Zenon
<1> HIDE DEF m
<1>5. Asked'.ctrl = m.ctrl /\ Asked'.alt = m.alt
  BY <1>1, <1>4, AskedFields, AskedNext
<1>6. Asked'.terminal = m.terminal
  BY <1>1, <1>4, AskedFields, AskedNext, Zenon
<1>7. Asked'.cap = m.cap
  <2>1. CASE k \in Handler!Shifts
    <3>1. ShiftHeld /\ ~ShiftHeld'
      BY <1>1, <2>1 DEF InOrder, UserTypes, ShiftHeld, Handler!Shifts
    <3>2. Capitals' <=> ~Capitals
      BY <1>1, <3>1, Zenon DEF Capitals
    <3> QED BY <1>4, <2>1, <3>2, AskedFields, AskedNext
  <2>2. CASE k \notin Handler!Shifts
    <3>1. ShiftHeld' <=> ShiftHeld
      BY <1>1, <2>2, Zenon DEF ShiftHeld
    <3>2. Capitals' <=> Capitals
      BY <1>1, <3>1, Zenon DEF Capitals
    <3> QED BY <1>4, <2>2, <3>2, AskedFields, AskedNext
  <2> QED BY <2>1, <2>2, Zenon
<1> QED BY <1>2, <1>5, <1>6, <1>7, AskedAfter, Zenon DEF m

\* Every step keeps the pending codes leading to what the keys ask for.
LEMMA NextCatchUp ==
    ASSUME InOrder, IInv, CatchUp, [Handler!Next]_(Handler!vars)
    PROVE  CatchUp'
<1>1. Unread \in Seq(Codes) /\ UserTypes /\ Shown \in Modes /\ Asked \in Modes
      /\ Leads(Unread, Shown, Asked)
  BY InHandFacts, AskedType DEF CatchUp
<1>2. CASE UNCHANGED Handler!vars
  <2>1. UserTypes' /\ Shown' = Shown /\ Asked' = Asked /\ Unread' = Unread
    BY <1>1, <1>2, Zenon DEF Handler!vars, Handler!driver, UserTypes, Shown, Asked, Capitals, ShiftHeld
  <2> QED BY <1>1, <2>1, Zenon DEF CatchUp
<1>3. ASSUME NEW c \in Codes, Unread' = Append(Unread, c), Shown' = Shown, UserTypes',
             Asked' = After(Asked, c)
      PROVE  CatchUp'
  <2>1. Leads(Append(Unread, c), Shown, After(Asked, c))
    BY <1>1, LeadsOn
  <2>2. Leads(Unread', Shown', Asked')
    BY <1>3, <2>1, Zenon
  <2> QED BY <1>1, <1>3, <2>2, Zenon DEF CatchUp
<1>4. \A k \in Keys : Handler!Make(k) \in Codes /\ Handler!Break(k) \in Codes
  BY DEF Codes, Handler!Make, Handler!Break
<1>5. CASE \E k \in Keys : Handler!Press(k)
  <2>1. PICK k \in Keys : Handler!Press(k)
    BY <1>5, Zenon
  <2>2. Unread' = Append(Unread, Handler!Make(k)) /\ Shown' = Shown
    BY <2>1, Zenon DEF Handler!Press, Handler!Send, Handler!driver, Shown
  <2> QED BY <1>1, <1>3, <1>4, <2>1, <2>2, PressAsks, Zenon
<1>6. CASE \E k \in Repeats : Handler!Repeat(k)
  <2>1. PICK k \in Repeats : Handler!Repeat(k)
    BY <1>6, Zenon
  <2>2. Unread' = Append(Unread, Handler!Make(k)) /\ Shown' = Shown
    BY <2>1, Zenon DEF Handler!Repeat, Handler!Send, Handler!driver, Shown
  <2> QED BY <1>1, <1>3, <1>4, <2>1, <2>2, RepeatAsks, InterruptsAssumption, Zenon
<1>7. CASE \E k \in Keys : Handler!Release(k)
  <2>1. PICK k \in Keys : Handler!Release(k)
    BY <1>7, Zenon
  <2>2. Unread' = Append(Unread, Handler!Break(k)) /\ Shown' = Shown
    BY <2>1, Zenon DEF Handler!Release, Handler!Send, Handler!driver, Shown
  <2> QED BY <1>1, <1>3, <1>4, <2>1, <2>2, ReleaseAsks, Zenon
<1>8. CASE Handler!keyboard_handler
  <2>1. /\ Unread # <<>> /\ Unread' = Tail(Unread) /\ UNCHANGED <<down, caps_lock, wanted>>
    BY <1>8, Zenon DEF Handler!keyboard_handler
  <2>2. Shown' = After(Shown, Head(Unread))
    BY <1>8 DEF Handler!keyboard_handler, Shown, After, Handler!ctrl_after, Handler!alt_after,
                Handler!cap_after, Handler!terminal_after
  <2>3. UserTypes' /\ Asked' = Asked
    BY <1>1, <2>1, Zenon DEF UserTypes, Asked, Capitals, ShiftHeld
  <2>4. Shown' \in Modes
    BY <1>1, <2>1, <2>2, AfterType
  <2>5. Leads(Tail(Unread), After(Shown, Head(Unread)), Asked)
    BY <1>1, <2>1, LeadsFrom
  <2>6. Leads(Unread', Shown', Asked')
    BY <2>1, <2>2, <2>3, <2>5, Zenon
  <2> QED BY <2>3, <2>4, <2>6, Zenon DEF CatchUp
<1> QED BY <1>2, <1>5, <1>6, <1>7, <1>8 DEF Handler!Next

\* The codes not yet in effect lead from the flags as they are to those that
\* the keys ask for, at every moment.
THEOREM CatchesUp == ASSUME BootOrder, InOrder PROVE Spec => []CatchUp
<1>1. Init /\ IInv => CatchUp
  BY InitCatchUp
<1>2. IInv /\ IInv' /\ CatchUp /\ [Next]_vars => CatchUp'
  BY NextCatchUp, StepIsHandlerStep
<1> QED BY <1>1, <1>2, Handled, PTL DEF Spec

\* With no code left the path has no step: the flags are what is asked for.
LEMMA CaughtUp == ASSUME CatchUp, Unread = <<>> PROVE Shown = Asked
BY DEF CatchUp, Leads

\* Whatever interrupts, nested handlers, Ctrl-C and new shells come between,
\* once no code is waiting the flags say which modifiers are held, and shift
\* inverts Caps Lock.
THEOREM FlagsFollowKeysThm == ASSUME BootOrder, InOrder PROVE Spec => []FlagsFollowKeys
<1>1. ASSUME CatchUp PROVE FlagsFollowKeys
  <2> SUFFICES ASSUME Unread = <<>>
               PROVE  /\ ctrl_flag = 1 <=> "ctrl" \in down
                      /\ alt_flag = 1 <=> "alt" \in down
                      /\ cap_flag = 1 <=> (caps_lock # (down \cap Handler!Shifts # {}))
    BY DEF FlagsFollowKeys, Handler!FlagsFollowKeys
  <2>1. Shown = Asked
    BY <1>1, CaughtUp
  <2>2. /\ ctrl_flag = IF "ctrl" \in down THEN 1 ELSE 0
        /\ alt_flag = IF "alt" \in down THEN 1 ELSE 0
        /\ cap_flag = IF Capitals THEN 1 ELSE 0
    BY <2>1 DEF Shown, Asked
  <2>3. (down \cap Handler!Shifts # {}) = ShiftHeld
    BY Zenon DEF ShiftHeld
  <2>4. caps_lock \in BOOLEAN
    BY <1>1 DEF CatchUp, UserTypes
  <2>5. (caps_lock # (down \cap Handler!Shifts # {})) <=> Capitals
    BY <2>3, <2>4, Zenon DEF Capitals
  <2> QED BY <2>2, <2>5
<1> QED BY <1>1, CatchesUp, PTL

\* And the terminal in front is the one last asked for.
THEOREM SwitchesAsAskedThm == ASSUME BootOrder, InOrder PROVE Spec => []SwitchesAsAsked
<1>1. ASSUME CatchUp PROVE SwitchesAsAsked
  BY <1>1, CaughtUp DEF SwitchesAsAsked, Handler!SwitchesAsAsked, Shown, Asked
<1> QED BY <1>1, CatchesUp, PTL
=============================================================================
