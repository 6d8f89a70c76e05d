----------------------------- MODULE Interrupts -----------------------------
(***************************************************************************)
(* Hardware interrupts: the two 8259 controllers (i8259.c), the gates of   *)
(* idt_init, the boot sequence of entry() that sets them up, the EFLAGS.IF *)
(* bit, and the handlers of timer, keyboard and RTC as they nest on the    *)
(* stack.  The keyboard handler clears IF at once, but scroll() sets it    *)
(* again in its middle, and it acknowledges its interrupt before it        *)
(* returns; it never returns from Ctrl-C or from starting a shell.         *)
(***************************************************************************)
EXTENDS Integers, Sequences, FiniteSets

CONSTANTS
    Keys, Repeats, QUEUE_MAX,    \* see Keyboard
    DEPTH_MAX,                   \* bound on the handlers active at once
    TimerStages,                 \* boot stages at which timer and RTC may tick
    KeyStages                    \* boot stages at which keys are pressed

PIT_IRQ == 0
KEYBOARD_IRQ == 1
SLAVE_IRQ == 2
RTC_IRQ == 8
Lines == {PIT_IRQ, KEYBOARD_IRQ, RTC_IRQ}

(* The statements of entry() that matter here; "up" is after its sti().    *)
Stages == <<"print", "idt", "pic", "rtc", "pit", "unmask_keys", "keyboard_init",
            "terminal_open", "sti", "up">>
StageSet == {Stages[i] : i \in 1 .. Len(Stages)}

ASSUME InterruptsAssumption ==
    /\ Keys \subseteq {"f1", "f2", "f3", "lshift", "rshift", "caps", "ctrl", "alt", "c"}
    /\ Repeats \subseteq Keys /\ QUEUE_MAX \in Nat /\ DEPTH_MAX \in Nat \ {0}
    /\ TimerStages \subseteq StageSet /\ KeyStages \subseteq StageSet

VARIABLES
    down, caps_lock, wanted, queue,                       \* see Keyboard
    ctrl_flag, cap_flag, alt_flag, curr_terminal,
    irr, isr, mask,      \* the controllers' registers, both in one set each
    remapped,            \* i8259_init has set the vectors
    idt_set,             \* idt_init has filled the table
    rtc_flag,            \* the RTC asserts its line until register C is read
    if_flag,
    stack,               \* handlers entered and not left, the running one last
    stage, busy,         \* of entry(); busy: the code below has IF off
    lost                 \* an interrupt was taken through a wrong gate

user == <<down, caps_lock, wanted>>
flags == <<ctrl_flag, cap_flag, alt_flag, curr_terminal>>
pic == <<irr, isr, mask, remapped>>
cpu == <<if_flag, stack, stage, busy, lost, idt_set>>
vars == <<user, queue, flags, pic, rtc_flag, cpu>>

Top == stack[Len(stack)]

(* The code read from the port whose effect is still to come, and those not *)
(* yet read.  Interrupts are off between the two, so no handler runs above  *)
(* one that has a code in hand.                                             *)
InHand == IF stack # <<>> /\ Top.at = "body" THEN <<Top.code>> ELSE <<>>
Unread == InHand \o queue

Handler == INSTANCE Keyboard WITH queue <- Unread, QUEUE_MAX <- QUEUE_MAX + 1
Keyboard == INSTANCE Keyboard

-----------------------------------------------------------------------------
Init ==
    /\ Keyboard!Init
    /\ irr = {} /\ isr = {} /\ mask = {} /\ remapped = FALSE
    /\ idt_set = FALSE /\ rtc_flag = FALSE
    /\ if_flag = FALSE /\ stack = <<>> /\ stage = "print" /\ busy = FALSE
    /\ lost = FALSE

(* Boot.  A handler on the stack suspends the code below it. *)
At(s) == stage = s /\ stack = <<>> /\ ~lost
Goto(s) == stage' = s /\ UNCHANGED <<stack, busy, lost>>

(* entry() prints what the boot loader told it; a newline ends in scroll(), *)
(* and scroll() ends with sti().                                            *)
BootPrint ==
    /\ At("print") /\ Goto("idt") /\ if_flag' = TRUE
    /\ UNCHANGED <<user, queue, flags, pic, rtc_flag, idt_set>>

Exceptions == 0 .. 18
VectorOf(q) ==
    IF remapped THEN 32 + q ELSE IF q < 8 THEN 8 + q ELSE 104 + q

(* idt_init: exceptions, the three lines and the system call.  The variant  *)
(* gives the RTC the vector of line 9.                                      *)
Gates_off ==
    [v \in Exceptions \cup {32, 33, 41, 128} |->
        IF v = 32 THEN "pit" ELSE IF v = 33 THEN "keyboard" ELSE IF v = 41 THEN "rtc"
        ELSE "other"]
Gates ==
    [v \in Exceptions \cup {32, 33, 40, 128} |->
        IF v = 32 THEN "pit" ELSE IF v = 33 THEN "keyboard" ELSE IF v = 40 THEN "rtc"
        ELSE "other"]

idt_init ==
    /\ At("idt") /\ Goto("pic") /\ idt_set' = TRUE
    /\ UNCHANGED <<user, queue, flags, pic, rtc_flag, if_flag>>

(* i8259_init: new vectors, nothing pending or in service, all lines but    *)
(* the cascade masked.                                                      *)
i8259_init ==
    /\ At("pic") /\ Goto("rtc")
    /\ irr' = {} /\ isr' = {} /\ mask' = Lines /\ remapped' = TRUE
    /\ UNCHANGED <<user, queue, flags, rtc_flag, idt_set, if_flag>>

enable_irq(q) == mask' = mask \ {q} /\ UNCHANGED <<irr, isr, remapped>>

(* rtc_init, rtc_write and enable_irq; pit_init and enable_irq; the first   *)
(* half of keyboard_init.                                                   *)
BootUnmask(q, from, to) ==
    /\ At(from) /\ Goto(to) /\ enable_irq(q)
    /\ UNCHANGED <<user, queue, flags, rtc_flag, idt_set, if_flag>>

(* The rest of keyboard_init, and the assignments of terminal_open.         *)
BootFlags ==
    /\ At("keyboard_init") /\ Goto("terminal_open")
    /\ ctrl_flag' = 0 /\ cap_flag' = 0 /\ alt_flag' = 0
    /\ UNCHANGED <<user, queue, curr_terminal, pic, rtc_flag, idt_set, if_flag>>

BootTerminal ==
    /\ At("terminal_open") /\ Goto("sti") /\ curr_terminal' = 0
    /\ UNCHANGED <<user, queue, ctrl_flag, cap_flag, alt_flag, pic, rtc_flag, idt_set, if_flag>>

BootSti ==
    /\ At("sti") /\ Goto("up") /\ if_flag' = TRUE
    /\ UNCHANGED <<user, queue, flags, pic, rtc_flag, idt_set>>

Boot ==
    \/ BootPrint \/ idt_init \/ i8259_init
    \/ BootUnmask(RTC_IRQ, "rtc", "pit")
    \/ BootUnmask(PIT_IRQ, "pit", "unmask_keys")
    \/ BootUnmask(KEYBOARD_IRQ, "unmask_keys", "keyboard_init")
    \/ BootFlags \/ BootTerminal \/ BootSti

-----------------------------------------------------------------------------
(* Devices.  The keyboard controller raises its line when a code becomes    *)
(* the next to be read, the RTC once until its register C is read; the      *)
(* timer's period of 10ms is longer than its handler.                       *)
Latch(q) == irr' = irr \cup {q} /\ UNCHANGED <<isr, mask, remapped>>

KeyEvent ==
    /\ stage \in KeyStages
    /\ \/ \E k \in Keys : Keyboard!Press(k)
       \/ \E k \in Repeats : Keyboard!Repeat(k)
       \/ \E k \in Keys : Keyboard!Release(k)
    /\ IF queue = <<>> THEN Latch(KEYBOARD_IRQ) ELSE UNCHANGED pic
    /\ UNCHANGED <<rtc_flag, cpu>>

PitTick ==
    /\ stage \in TimerStages /\ PIT_IRQ \notin irr \cup isr /\ Latch(PIT_IRQ)
    /\ UNCHANGED <<user, queue, flags, rtc_flag, cpu>>

RtcTick ==
    /\ stage \in TimerStages /\ ~rtc_flag /\ rtc_flag' = TRUE /\ Latch(RTC_IRQ)
    /\ UNCHANGED <<user, queue, flags, cpu>>

(* External: the controllers pass on the highest request that is not masked *)
(* and that nothing at least as urgent in service holds back; a request of  *)
(* the slave comes in on line 2 of the master.                              *)
MasterLine(q) == IF q >= 8 THEN SLAVE_IRQ ELSE q
InService(q) == {q, MasterLine(q)}
Ready(q) ==
    /\ q \in irr \ mask
    /\ \A s \in isr : MasterLine(q) < MasterLine(s)
    /\ \A r \in irr \ mask : MasterLine(q) <= MasterLine(r)

HandlerName == [q \in Lines |->
    IF q = PIT_IRQ THEN "pit" ELSE IF q = KEYBOARD_IRQ THEN "keyboard" ELSE "rtc"]

NoCode == Keyboard!Make("c")

(* The processor takes the interrupt through an interrupt gate, which       *)
(* clears IF.                                                               *)
Deliver(q) ==
    /\ if_flag /\ ~lost /\ Len(stack) < DEPTH_MAX /\ Ready(q)
    /\ irr' = irr \ {q} /\ isr' = isr \cup InService(q)
    /\ IF idt_set /\ VectorOf(q) \in DOMAIN Gates /\ Gates[VectorOf(q)] = HandlerName[q]
       THEN /\ stack' = Append(stack, [irq |-> q, at |-> "entry", code |-> NoCode])
            /\ UNCHANGED lost
       ELSE lost' = TRUE /\ UNCHANGED stack
    /\ if_flag' = FALSE
    /\ UNCHANGED <<user, queue, flags, mask, remapped, rtc_flag, stage, busy, idt_set>>

-----------------------------------------------------------------------------
(* Handlers. *)
Running(q, at) == stack # <<>> /\ ~lost /\ Top.irq = q /\ Top.at = at
Move(at) == stack' = [stack EXCEPT ![Len(stack)].at = at, ![Len(stack)].code = NoCode]
Leave == stack' = SubSeq(stack, 1, Len(stack) - 1)

(* send_eoi: the specific EOI, for a line of the slave to both controllers. *)
(* The variant forgets the master.                                          *)
EoiOf_slave(q) == {q}
EoiOf(q) == InService(q)
send_eoi(q) == isr' = isr \ EoiOf(q)

(* pit_handler: nothing but its EOI, with IF off. *)
pit_handler ==
    /\ Running(PIT_IRQ, "entry")
    /\ send_eoi(PIT_IRQ) /\ Leave /\ if_flag' = TRUE
    /\ UNCHANGED <<user, queue, flags, irr, mask, remapped, rtc_flag, stage, busy, lost, idt_set>>

(* rtc_handler: EOI, then register C, with IF off. *)
rtc_handler ==
    /\ Running(RTC_IRQ, "entry")
    /\ send_eoi(RTC_IRQ) /\ rtc_flag' = FALSE /\ Leave /\ if_flag' = TRUE
    /\ UNCHANGED <<user, queue, flags, irr, mask, remapped, stage, busy, lost, idt_set>>

(* keyboard_handler.  cli and the read of the port; the controller presents *)
(* the next code, if any.  The variant acknowledges the interrupt at once.  *)
KeyRead_eoi ==
    /\ Running(KEYBOARD_IRQ, "entry") /\ queue # <<>>
    /\ stack' = [stack EXCEPT ![Len(stack)].at = "body", ![Len(stack)].code = Head(queue)]
    /\ queue' = Tail(queue)
    /\ irr' = IF queue' = <<>> THEN irr ELSE irr \cup {KEYBOARD_IRQ}
    /\ send_eoi(KEYBOARD_IRQ) /\ if_flag' = TRUE
    /\ UNCHANGED <<user, flags, mask, remapped, rtc_flag, stage, busy, lost, idt_set>>

KeyRead ==
    /\ Running(KEYBOARD_IRQ, "entry") /\ queue # <<>>
    /\ stack' = [stack EXCEPT ![Len(stack)].at = "body", ![Len(stack)].code = Head(queue)]
    /\ queue' = Tail(queue)
    /\ irr' = IF queue' = <<>> THEN irr ELSE irr \cup {KEYBOARD_IRQ}
    /\ UNCHANGED <<user, flags, isr, mask, remapped, rtc_flag, if_flag, stage, busy, lost, idt_set>>

Code == Top.code
CtrlC == Code = Keyboard!Make("c") /\ ctrl_flag = 1
Switch ==
    /\ Code.make /\ Code.key \in Keyboard!FunctionKeys /\ alt_flag = 1
    /\ Keyboard!TerminalOf[Code.key] # curr_terminal
Prints ==
    /\ Code.make
    /\ Code.key = "c" \/ (Code.key \in Keyboard!FunctionKeys /\ alt_flag = 0)

SetFlags ==
    /\ ctrl_flag' = Handler!ctrl_after(Code) /\ alt_flag' = Handler!alt_after(Code)
    /\ cap_flag' = Handler!cap_after(Code)
    /\ curr_terminal' = Handler!terminal_after(Code)

(* A code that prints may set IF through scroll(); others leave it clear.   *)
KeyFlags ==
    /\ Running(KEYBOARD_IRQ, "body") /\ ~CtrlC /\ ~Switch
    /\ SetFlags /\ Move("eoi")
    /\ \/ UNCHANGED if_flag
       \/ Prints /\ if_flag' = TRUE
    /\ UNCHANGED <<user, queue, pic, rtc_flag, stage, busy, lost, idt_set>>

(* switch_terminal to a terminal with a process returns to the handler.     *)
KeySwitch ==
    /\ Running(KEYBOARD_IRQ, "body") /\ Switch
    /\ SetFlags /\ Move("eoi")
    /\ UNCHANGED <<user, queue, pic, rtc_flag, if_flag, stage, busy, lost, idt_set>>

(* To one without, it calls execute(), which acknowledges the interrupt:    *)
(* at the process limit it prints and comes back with IF set ...            *)
KeySwitchLimit ==
    /\ Running(KEYBOARD_IRQ, "body") /\ Switch
    /\ SetFlags /\ Move("eoi") /\ send_eoi(KEYBOARD_IRQ) /\ if_flag' = TRUE
    /\ UNCHANGED <<user, queue, irr, mask, remapped, rtc_flag, stage, busy, lost, idt_set>>

(* ... otherwise the shell runs, and the handlers below are given up.       *)
KeySwitchShell ==
    /\ Running(KEYBOARD_IRQ, "body") /\ Switch
    /\ SetFlags /\ stack' = <<>> /\ send_eoi(KEYBOARD_IRQ)
    /\ if_flag' = TRUE /\ busy' = FALSE
    /\ UNCHANGED <<user, queue, irr, mask, remapped, rtc_flag, stage, lost, idt_set>>

(* Ctrl-C: EOI and halt(), with IF clear until halt() returns to a user.    *)
(* The variant is without the EOI.                                          *)
KeyHalt_no_eoi ==
    /\ Running(KEYBOARD_IRQ, "body") /\ CtrlC
    /\ stack' = <<>> /\ if_flag' = FALSE /\ busy' = TRUE
    /\ UNCHANGED <<user, queue, flags, pic, rtc_flag, stage, lost, idt_set>>

KeyHalt ==
    /\ Running(KEYBOARD_IRQ, "body") /\ CtrlC
    /\ stack' = <<>> /\ send_eoi(KEYBOARD_IRQ) /\ if_flag' = FALSE /\ busy' = TRUE
    /\ UNCHANGED <<user, queue, flags, irr, mask, remapped, rtc_flag, stage, lost, idt_set>>

KeyEoi ==
    /\ Running(KEYBOARD_IRQ, "eoi") /\ send_eoi(KEYBOARD_IRQ) /\ Move("sti")
    /\ UNCHANGED <<user, queue, flags, irr, mask, remapped, rtc_flag, if_flag, stage, busy,
                   lost, idt_set>>

KeySti ==
    /\ Running(KEYBOARD_IRQ, "sti") /\ if_flag' = TRUE /\ Move("iret")
    /\ UNCHANGED <<user, queue, flags, pic, rtc_flag, stage, busy, lost, idt_set>>

(* The wrapper's iret. *)
KeyReturn ==
    /\ Running(KEYBOARD_IRQ, "iret") /\ Leave /\ if_flag' = TRUE
    /\ UNCHANGED <<user, queue, flags, pic, rtc_flag, stage, busy, lost, idt_set>>

keyboard_handler ==
    \/ KeyRead \/ KeyFlags \/ KeySwitch \/ KeySwitchLimit \/ KeySwitchShell \/ KeyHalt
    \/ KeyEoi \/ KeySti \/ KeyReturn

-----------------------------------------------------------------------------
(* The code below the handlers: a system call that clears IF for a while,   *)
(* as execute() does after an EOI for the keyboard, and sets it again.      *)
BelowCli ==
    /\ At("up") /\ ~busy /\ busy' = TRUE /\ if_flag' = FALSE /\ send_eoi(KEYBOARD_IRQ)
    /\ UNCHANGED <<user, queue, flags, irr, mask, remapped, rtc_flag, stack, stage, lost, idt_set>>

BelowSti ==
    /\ At("up") /\ busy /\ busy' = FALSE /\ if_flag' = TRUE
    /\ UNCHANGED <<user, queue, flags, pic, rtc_flag, stack, stage, lost, idt_set>>

Next ==
    \/ Boot \/ pit_handler \/ rtc_handler \/ keyboard_handler \/ BelowCli \/ BelowSti
    \/ KeyEvent \/ PitTick \/ RtcTick \/ \E q \in Lines : Deliver(q)

Spec == Init /\ [][Next]_vars

(* The processor goes on with what it is in, and interrupts are slower than *)
(* their handlers: what they keep putting off happens in the end.           *)
FairSpec ==
    /\ Spec
    /\ WF_vars(pit_handler) /\ WF_vars(rtc_handler)
    /\ SF_vars(keyboard_handler) /\ SF_vars(BelowSti)
    /\ SF_vars(Deliver(PIT_IRQ)) /\ SF_vars(Deliver(KEYBOARD_IRQ))

-----------------------------------------------------------------------------
(* However timer, keyboard and RTC nest, the keyboard handler implements    *)
(* the handler of Keyboard, which is one step: codes take effect one by one *)
(* and in the order of the keys.                                            *)
OneByOne == Handler!Spec

(* The flags follow the keys and terminals are switched as asked once the   *)
(* handler has caught up.                                                   *)
FlagsFollowKeys == Handler!FlagsFollowKeys
SwitchesAsAsked == Handler!SwitchesAsAsked

(* Every interrupt that is taken goes through the gate of its line: boot    *)
(* sets up gates, vectors and masks before an interrupt can come.           *)
GateFound == ~lost

(* No line waits for a handler that is not coming: a line is in service     *)
(* only for a handler that is still to acknowledge it, also when handlers   *)
(* are given up by Ctrl-C or a new shell, a code that can be read has its   *)
(* interrupt pending or taken, and so does an RTC that waits to be read.    *)
Unacknowledged == {i \in 1 .. Len(stack) : stack[i].at \in {"entry", "body", "eoi"}}
NothingStuck ==
    /\ isr \subseteq UNION {InService(stack[i].irq) : i \in Unacknowledged}
    /\ stage \in KeyStages /\ queue # <<>> =>
         \/ KEYBOARD_IRQ \in irr
         \/ \E i \in 1 .. Len(stack) : stack[i].irq = KEYBOARD_IRQ /\ stack[i].at = "entry"
    /\ stage \in TimerStages /\ rtc_flag =>
         RTC_IRQ \in irr \/ \E i \in 1 .. Len(stack) : stack[i].irq = RTC_IRQ

(* A key that was pressed is read. *)
KeysRead == KEYBOARD_IRQ \in irr ~> KEYBOARD_IRQ \notin irr
=============================================================================
