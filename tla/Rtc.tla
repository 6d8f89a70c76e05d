-------------------------------- MODULE Rtc --------------------------------
(***************************************************************************)
(* The RTC driver: rtc_read and rtc_write as the statements of a system    *)
(* call that runs with interrupts on, the handler that may interrupt it    *)
(* between any two of them, and CTRL+C or the start of a shell on another  *)
(* terminal, which abandon the system call where it stands.                *)
(***************************************************************************)
EXTENDS Integers

CONSTANTS
    Freqs,          \* frequencies the programs ask rtc_write for
    AbandonPoints   \* control points at which a key press ends the call

(* "run" is any code outside the driver.  The read_ points are those of    *)
(* rtc_read: the wait loop and the two assignments after it.  The write_   *)
(* points are those of rtc_write from disable_irq to enable_irq.  Opening  *)
(* the RTC is in Descriptors: open_file calls no operation of the driver.  *)
PCs == {"run", "read_wait", "read_sync", "read_flag", "write_mask",
        "write_addr", "write_get", "write_addr_again", "write_put", "write_unmask"}

Settings == 6..15               \* rate bits of register A

ASSUME FreqsAssumption ==
    Freqs \subseteq Nat /\ AbandonPoints \subseteq PCs

VARIABLES
    rtc_read_flag, rtc_sync_flag,
    rate,           \* rate bits of register A
    index,          \* register that the address port 0x70 selects
    saveA,          \* register that the value in saveA was read from
    masked,         \* IRQ 8 is masked on the slave PIC
    c_flag,         \* register C holds an interrupt the handler has not read
    irr,            \* the PIC holds a request of IRQ 8
    pc, new_freq,   \* control point and the argument of rtc_write
    credit          \* ticks handled minus reads returned, at most Slack

flags  == <<rtc_read_flag, rtc_sync_flag>>
device == <<rate, index, saveA, masked, c_flag, irr>>
vars   == <<flags, device, pc, new_freq, credit>>

(* Ticks that earlier reads did not use are forgotten beyond this number.  *)
Slack == 2

-----------------------------------------------------------------------------
(* entry() after rtc_init, rtc_write of 2 and enable_irq: interrupts were  *)
(* off until now, and a tick may be pending.                               *)
Init ==
    /\ rtc_read_flag = 0 /\ rtc_sync_flag = 0
    /\ rate = 15
    /\ index = "A" /\ saveA = "A"
    /\ masked = FALSE
    /\ c_flag \in BOOLEAN /\ irr = c_flag
    /\ pc = "run" /\ new_freq = 2
    /\ credit = 0

-----------------------------------------------------------------------------
ReadCall ==
    /\ pc = "run"
    /\ rtc_read_flag' = 1
    /\ pc' = "read_wait"
    /\ UNCHANGED <<rtc_sync_flag, device, new_freq, credit>>

ReadLeaveLoop ==
    /\ pc = "read_wait"
    /\ rtc_sync_flag = 1
    /\ pc' = "read_sync"
    /\ UNCHANGED <<flags, device, new_freq, credit>>

ReadClearSync_dropped ==
    /\ pc = "read_sync"
    /\ pc' = "read_flag"
    /\ UNCHANGED <<flags, device, new_freq, credit>>

ReadClearSync ==
    /\ pc = "read_sync"
    /\ rtc_sync_flag' = 0
    /\ pc' = "read_flag"
    /\ UNCHANGED <<rtc_read_flag, device, new_freq, credit>>

ReadReturn ==
    /\ pc = "read_flag"
    /\ rtc_read_flag' = 0
    /\ pc' = "run" /\ credit' = credit - 1
    /\ UNCHANGED <<rtc_sync_flag, device, new_freq>>

-----------------------------------------------------------------------------
(* rtc_write of more than 1024 returns -1, anything else sets the rate.    *)
WriteCall(f) ==
    /\ pc = "run"
    /\ f <= 1024
    /\ pc' = "write_mask" /\ new_freq' = f
    /\ UNCHANGED <<flags, device, credit>>

WriteRefused(f) == pc = "run" /\ f > 1024 /\ UNCHANGED vars

(* The chain of comparisons that turns a frequency into rate bits. *)
rtc_freq_down(f) ==
    CASE f >= 1024 -> 6 [] f >= 512 -> 7 [] f >= 256 -> 8 [] f >= 128 -> 9
      [] f >= 64 -> 10 [] f >= 32 -> 11 [] f >= 16 -> 12 [] f >= 8 -> 13
      [] f >= 4 -> 14 [] OTHER -> 15

rtc_freq(f) ==
    CASE f > 512 -> 6
      [] f <= 512 /\ f > 256 -> 7
      [] f <= 256 /\ f > 128 -> 8
      [] f <= 128 /\ f > 64 -> 9
      [] f <= 64 /\ f > 32 -> 10
      [] f <= 32 /\ f > 16 -> 11
      [] f <= 16 /\ f > 8 -> 12
      [] f <= 8 /\ f > 4 -> 13
      [] f <= 4 /\ f > 2 -> 14
      [] f <= 2 -> 15

WriteMask_dropped ==
    /\ pc = "write_mask" /\ pc' = "write_addr"
    /\ UNCHANGED <<flags, device, new_freq, credit>>

(* disable_irq(RTC_IRQ_NUM) *)
WriteMask ==
    /\ pc = "write_mask" /\ pc' = "write_addr"
    /\ masked' = TRUE
    /\ UNCHANGED <<flags, rate, index, saveA, c_flag, irr, new_freq, credit>>

(* outb(REG_A_NMI, RTC_ADDRESS), before the read and before the write *)
WriteAddr(from, to) ==
    /\ pc = from /\ pc' = to
    /\ index' = "A"
    /\ UNCHANGED <<flags, rate, saveA, masked, c_flag, irr, new_freq, credit>>

WriteGet ==
    /\ pc = "write_get" /\ pc' = "write_addr_again"
    /\ saveA' = index
    /\ UNCHANGED <<flags, rate, index, masked, c_flag, irr, new_freq, credit>>

(* The rate changes only if the data port still selects register A.        *)
WritePut ==
    /\ pc = "write_put" /\ pc' = "write_unmask"
    /\ rate' = (IF index = "A" THEN rtc_freq(new_freq) ELSE rate)
    /\ UNCHANGED <<flags, index, saveA, masked, c_flag, irr, new_freq, credit>>

(* enable_irq(RTC_IRQ_NUM) *)
WriteUnmask ==
    /\ pc = "write_unmask" /\ pc' = "run"
    /\ masked' = FALSE
    /\ UNCHANGED <<flags, rate, index, saveA, c_flag, irr, new_freq, credit>>

-----------------------------------------------------------------------------
(* The clock ticks.  It raises its interrupt line only if register C was   *)
(* read since the last time.                                               *)
Tick ==
    /\ ~c_flag
    /\ c_flag' = TRUE /\ irr' = TRUE
    /\ UNCHANGED <<flags, rate, index, saveA, masked, pc, new_freq, credit>>

RtcHandler_no_c ==
    /\ irr /\ ~masked
    /\ irr' = FALSE
    /\ rtc_sync_flag' = IF rtc_read_flag = 1 THEN 1 ELSE rtc_sync_flag
    /\ index' = "C"
    /\ credit' = IF credit < Slack THEN credit + 1 ELSE Slack
    /\ UNCHANGED <<rtc_read_flag, rate, saveA, masked, c_flag, pc, new_freq>>

(* rtc_handler, an interrupt gate: it runs to its end undisturbed. *)
RtcHandler ==
    /\ irr /\ ~masked
    /\ irr' = FALSE
    /\ rtc_sync_flag' = IF rtc_read_flag = 1 THEN 1 ELSE rtc_sync_flag
    /\ index' = "C" /\ c_flag' = FALSE
    /\ credit' = IF credit < Slack THEN credit + 1 ELSE Slack
    /\ UNCHANGED <<rtc_read_flag, rate, saveA, masked, pc, new_freq>>

(* CTRL+C halts the process, or ALT+Fn starts a shell on an empty          *)
(* terminal: nobody returns to the interrupted call.                       *)
Abandon ==
    /\ pc \in AbandonPoints /\ pc # "run"
    /\ pc' = "run"
    /\ UNCHANGED <<flags, device, new_freq, credit>>

-----------------------------------------------------------------------------
DriverStep ==
    \/ ReadLeaveLoop \/ ReadClearSync \/ ReadReturn
    \/ WriteMask \/ WriteGet \/ WritePut \/ WriteUnmask
    \/ WriteAddr("write_addr", "write_get")
    \/ WriteAddr("write_addr_again", "write_put")

Next ==
    \/ ReadCall
    \/ \E f \in Freqs : WriteCall(f) \/ WriteRefused(f)
    \/ DriverStep \/ Tick \/ RtcHandler \/ Abandon

Spec == Init /\ [][Next]_vars

(* The CPU executes the driver, takes pending interrupts, and the clock    *)
(* keeps ticking.                                                          *)
FairSpec == Spec /\ WF_vars(DriverStep) /\ WF_vars(RtcHandler) /\ WF_vars(Tick)

-----------------------------------------------------------------------------
(***************************************************************************)
(* Properties.  A definition above whose name extends that of its          *)
(* neighbour is a faulty variant of it, which no action uses.              *)
(***************************************************************************)
(* Every variable has its type. *)
TypeOK ==
    /\ rtc_read_flag \in {0, 1} /\ rtc_sync_flag \in {0, 1}
    /\ rate \in Settings
    /\ index \in {"A", "C"} /\ saveA \in {"A", "C"}
    /\ masked \in BOOLEAN /\ c_flag \in BOOLEAN /\ irr \in BOOLEAN
    /\ pc \in PCs /\ new_freq \in Nat
    /\ credit \in Int /\ credit <= Slack

(* A program that paces itself with rtc_read cannot run ahead of the clock:*)
(* over any stretch of time the reads that return are at most Slack more   *)
(* than the ticks the handler has seen, whatever calls were abandoned and  *)
(* whichever flags they left behind.                                       *)
ReadsPaced == credit >= 0

(* rtc_write reads and writes register A although the handler selects      *)
(* register C through the same address port: IRQ 8 is masked meanwhile.    *)
RegisterASelected == pc \in {"write_get", "write_put"} => index = "A"

Hz(s) == 2^(16 - s)

(* rtc_write rounds up: it programs the slowest available rate that is at  *)
(* least the requested one (rtc.c: "Rounds UP to the closest available     *)
(* power of 2").                                                           *)
RateRoundsUp ==
    [][WritePut => /\ Hz(rate') >= new_freq
                   /\ \A s \in Settings : Hz(s) >= new_freq => Hz(s) >= Hz(rate')]_vars

(* rtc_read does not block for ever: the clock's next tick reaches the     *)
(* waiting reader (the dead lock of the bug log).                          *)
ReadReturns == pc = "read_wait" ~> pc # "read_wait"
=============================================================================
