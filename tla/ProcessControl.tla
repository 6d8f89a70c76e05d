--------------------------- MODULE ProcessControl ---------------------------
(***************************************************************************)
(* The process table of kudOS and the machine state that must agree with   *)
(* it: pcbs[], the per-terminal bookkeeping, CR3, tss.esp0, the saved      *)
(* execute() frames, the 4MB user images and the open files.               *)
(*                                                                         *)
(* There is one CPU and one thread of control.  System calls enter through *)
(* trap gates, so the interrupt flag stays set while they run, and a       *)
(* keyboard interrupt (ALT+F1..F3 or CTRL+C) may land between two of their *)
(* statements; the keyboard handler itself runs with interrupts off.  The  *)
(* constants SwitchPoints and CtrlCPoints name the control points at which *)
(* the user's key presses land: the theorems and the passing runs say for  *)
(* which points the kernel keeps its invariants.                           *)
(***************************************************************************)
EXTENDS Naturals, FiniteSets

CONSTANTS
    MAX_PROCESSES,   \* length of pcbs[]; slot 0 is never given to a process
    MAX_TERMINALS,   \* number of terminals
    FD_MAX_IDX,      \* descriptors FD_MIN_IDX..FD_MAX_IDX can be opened
    Programs,        \* executables of the file system, "shell" among them
    WORD,            \* stands for 2^32: where unsigned counters wrap
    StackReach,      \* how many more 8kB kernel stacks than the one in use
                     \* copy_file_image's buffer for a program extends over
    SwitchPoints,    \* control points at which ALT+Fn may arrive
    CtrlCPoints      \* control points at which CTRL+C may arrive

FD_MIN_IDX == 2

Slots     == 0..(MAX_PROCESSES - 1)
Procs     == 1..(MAX_PROCESSES - 1)
Terminals == 0..(MAX_TERMINALS - 1)
FDs       == FD_MIN_IDX..FD_MAX_IDX

(***************************************************************************)
(* Control points.  "boot" is the colour prompt of entry(), "user" is user *)
(* mode, "blocked" a read or write system call in progress, "exception"    *)
(* the endless loop of an exception handler.  "execute" and "relaunch" are *)
(* execute() before its cli (called by a system call, by switch_terminal   *)
(* or by entry(); and by halt()).  The halt_ points follow the statements  *)
(* of halt().  "idle" is the hlt loop of entry(); "crashed" is a triple    *)
(* fault.                                                                  *)
(***************************************************************************)
PCs == {"boot", "user", "blocked", "exception", "execute", "relaunch",
        "halt", "halt_base", "halt_base_destroy",
        "halt_nested", "halt_close", "halt_destroy", "halt_reload",
        "idle", "crashed"}

NoTerminal == MAX_TERMINALS          \* process_terminal = -1
Commands   == Programs \cup {"leading_space", "not_executable"}

ASSUME ConstantsAssumption ==
    /\ MAX_PROCESSES \in Nat /\ MAX_PROCESSES >= 2
    /\ MAX_TERMINALS \in Nat /\ MAX_TERMINALS >= 1
    /\ FD_MAX_IDX \in Nat
    /\ WORD \in Nat /\ WORD > MAX_PROCESSES
    /\ "shell" \in Programs
    /\ {"leading_space", "not_executable"} \cap Programs = {}
    /\ StackReach \in [Programs -> Nat]
    /\ SwitchPoints \subseteq PCs /\ CtrlCPoints \subseteq PCs

VARIABLES
    \* pcb_t pcbs[MAX_PROCESSES], one function per field
    program_id, parent_id, process_terminal, cmd_name,
    esp,                 \* slot on whose kernel stack execute()'s frame lies
    smashed,             \* slots whose execute() frame has been overwritten
    file_array,          \* descriptors >= FD_MIN_IDX with flags = FILE_IN_USE
    process_number, current_pcb, curr_terminal,
    top_process_id, num_process,          \* terminal_info[]
    cr3, tss_esp0,       \* slot whose page directory / kernel stack is loaded
    image,               \* what the 4MB user page of each slot contains
    pc, if_flag,         \* control point and EFLAGS.IF
    kstack,              \* kernel stack in use; 0 in user mode
    isr,                 \* the PIC has an unacknowledged keyboard interrupt
    cmd, ret,            \* execute()'s argument and where it returns to
    frame_ok             \* the frame halt() loaded ESP and EBP for is intact

pcbVars  == <<program_id, parent_id, process_terminal, cmd_name, esp, smashed,
              file_array>>
termVars == <<process_number, current_pcb, curr_terminal, top_process_id, num_process>>
memVars  == <<cr3, tss_esp0, image>>
cpuVars  == <<pc, if_flag, kstack, isr, cmd, ret, frame_ok>>
vars     == <<pcbVars, termVars, memVars, cpuVars>>

-----------------------------------------------------------------------------
(* Unsigned 32-bit counters. *)
Inc(n) == IF n = WORD - 1 THEN 0 ELSE n + 1
Dec(n) == IF n = 0 THEN WORD - 1 ELSE n - 1

Live      == {p \in Procs : program_id[p] # 0}
LiveOn(t) == {p \in Live : process_terminal[p] = t}

(* find_free_pcb: the first slot from 1 whose program_id is 0. *)
FreeSlots == {p \in Procs : program_id[p] = 0}
find_free_pcb_next == process_number + 1
find_free_pcb_last == CHOOSE p \in FreeSlots : \A q \in FreeSlots : p >= q
find_free_pcb == CHOOSE p \in FreeSlots : \A q \in FreeSlots : p <= q

(* The stack an interrupt or system call taken now runs on. *)
EntryStack == IF pc = "user" THEN tss_esp0 ELSE kstack

-----------------------------------------------------------------------------
(* entry() at its colour prompt: interrupts are on, the boot code runs on  *)
(* the stack at 0x800000, which is also get_kernel_stack_ptr(1), and       *)
(* page_directories[0], the directory of slot 1, is loaded.  current_pcb   *)
(* is still NULL; like slot 0 it is no process.                            *)
Init ==
    /\ program_id = [p \in Slots |-> 0]
    /\ parent_id = [p \in Slots |-> 0]
    /\ process_terminal = [p \in Slots |-> 0]
    /\ cmd_name = [p \in Slots |-> "none"]
    /\ esp = [p \in Slots |-> 0]
    /\ smashed = {}
    /\ file_array = [p \in Slots |-> {}]
    /\ process_number = 0
    /\ current_pcb = 0
    /\ curr_terminal = 0
    /\ top_process_id = [t \in Terminals |-> 0]
    /\ num_process = [t \in Terminals |-> 0]
    /\ cr3 = 1
    /\ tss_esp0 = 1
    /\ image = [p \in Procs |-> "none"]
    /\ pc = "boot"
    /\ if_flag = TRUE
    /\ kstack = 1
    /\ isr = FALSE
    /\ cmd = "none"
    /\ ret = "idle"
    /\ frame_ok = TRUE

-----------------------------------------------------------------------------
(* entry(), after the colour prompt: execute("shell"). *)
BootShell ==
    /\ pc = "boot"
    /\ pc' = "execute" /\ cmd' = "shell" /\ ret' = "idle"
    /\ UNCHANGED <<pcbVars, termVars, memVars, if_flag, kstack, isr, frame_ok>>

(* A system call leaves user mode on the stack tss.esp0 names. *)
ExecuteSyscall(c) ==
    /\ pc = "user"
    /\ pc' = "execute" /\ cmd' = c /\ ret' = "user" /\ kstack' = tss_esp0
    /\ UNCHANGED <<pcbVars, termVars, memVars, if_flag, isr, frame_ok>>

ProcessLimit_early == Inc(process_number) >= MAX_PROCESSES - 1
ProcessLimit == Inc(process_number) >= MAX_PROCESSES

(* send_eoi(KEYBOARD_IRQ_NUM), the first statement of execute(). *)
send_eoi_dropped == UNCHANGED isr
send_eoi == isr' = FALSE

(* execute(), process limit reached: prints and returns 0.  The newline    *)
(* goes through scroll(), which ends with sti().                           *)
ExecuteLimit ==
    /\ pc \in {"execute", "relaunch"}
    /\ ProcessLimit
    /\ pc' = ret /\ if_flag' = TRUE /\ send_eoi
    /\ kstack' = (IF ret = "user" THEN 0 ELSE kstack)
    /\ cmd' = "none" /\ ret' = "idle"
    /\ UNCHANGED <<pcbVars, termVars, memVars, frame_ok>>

(* execute() of a bad command: pcb_init, then check_command (which writes  *)
(* cmd_name unless the command starts with a space) or check_executable    *)
(* fails, and pcb_destroy undoes the initialisation.  Accounting shows     *)
(* that a slot is free whenever the limit is not reached.                  *)
ExecuteFails ==
    /\ pc \in {"execute", "relaunch"}
    /\ ~ProcessLimit
    /\ FreeSlots # {}
    /\ cmd \notin Programs
    /\ LET new == find_free_pcb
           parent == program_id[current_pcb]
       IN /\ process_terminal' = [process_terminal EXCEPT ![new] = NoTerminal]
          /\ cmd_name' = [cmd_name EXCEPT ![new] =
                            IF cmd = "leading_space" THEN @ ELSE cmd]
          /\ top_process_id' = [top_process_id EXCEPT ![curr_terminal] = parent]
          /\ current_pcb' = parent
    /\ pc' = ret /\ if_flag' = TRUE /\ send_eoi
    /\ kstack' = (IF ret = "user" THEN 0 ELSE kstack)
    /\ cmd' = "none" /\ ret' = "idle"
    /\ UNCHANGED <<program_id, parent_id, esp, smashed, file_array, process_number,
                   curr_terminal, num_process, memVars, frame_ok>>

(* copy_file_image holds the whole program in an array on the kernel stack *)
(* in use.  Stacks are 8kB apart, that of slot p + 1 right below that of   *)
(* slot p, so a large program overwrites the frames on the stacks below.   *)
Overrun(k, c) == {p \in Live : esp[p] \in (k + 1)..(k + StackReach[c])}

(* execute() of a program: pcb_init, parent_id, new_task_pd (which loads   *)
(* CR3), copy_file_image into the page CR3 maps, the saved frame, tss.esp0 *)
(* and iret.  Descriptors >= FD_MIN_IDX keep what the slot held before.    *)
ExecuteRuns ==
    /\ pc \in {"execute", "relaunch"}
    /\ ~ProcessLimit
    /\ FreeSlots # {}
    /\ cmd \in Programs
    /\ LET new == find_free_pcb
       IN /\ program_id' = [program_id EXCEPT ![new] = new]
          /\ parent_id' = [parent_id EXCEPT ![new] = program_id[current_pcb]]
          /\ process_terminal' = [process_terminal EXCEPT ![new] = curr_terminal]
          /\ cmd_name' = [cmd_name EXCEPT ![new] = cmd]
          /\ smashed' = (smashed \cup Overrun(kstack, cmd)) \ {new}
          /\ esp' = [esp EXCEPT ![new] = kstack]
          /\ num_process' = [num_process EXCEPT ![curr_terminal] = Inc(@)]
          /\ top_process_id' = [top_process_id EXCEPT ![curr_terminal] = new]
          /\ current_pcb' = new
          /\ cr3' = new
          /\ image' = [image EXCEPT ![cr3'] = cmd]
          /\ tss_esp0' = new
    /\ process_number' = Inc(process_number)
    /\ pc' = "user" /\ if_flag' = TRUE /\ send_eoi /\ kstack' = 0
    /\ cmd' = "none" /\ ret' = "idle"
    /\ UNCHANGED <<file_array, curr_terminal, frame_ok>>

-----------------------------------------------------------------------------
HaltSyscall ==
    /\ pc = "user"
    /\ pc' = "halt" /\ kstack' = tss_esp0
    /\ UNCHANGED <<pcbVars, termVars, memVars, if_flag, isr, cmd, ret, frame_ok>>

(* (num_process - 1) <= 0 on an unsigned: true exactly for 1. *)
HaltTest_zero ==
    /\ pc = "halt"
    /\ pc' = IF num_process[curr_terminal] = 0 THEN "halt_base" ELSE "halt_nested"
    /\ UNCHANGED <<pcbVars, termVars, memVars, if_flag, kstack, isr, cmd, ret, frame_ok>>

HaltTest ==
    /\ pc = "halt"
    /\ pc' = IF num_process[curr_terminal] = 1 THEN "halt_base" ELSE "halt_nested"
    /\ UNCHANGED <<pcbVars, termVars, memVars, if_flag, kstack, isr, cmd, ret, frame_ok>>

(* ESP and EBP from current_pcb; slot 0 holds 0, and the next push faults. *)
HaltLoadFrame ==
    /\ pc = "halt_nested"
    /\ IF current_pcb = 0
       THEN pc' = "crashed" /\ UNCHANGED <<kstack, frame_ok>>
       ELSE /\ pc' = "halt_close" /\ kstack' = esp[current_pcb]
            /\ frame_ok' = (current_pcb \notin smashed)
    /\ UNCHANGED <<pcbVars, termVars, memVars, if_flag, isr, cmd, ret>>

(* for (i = 0; i <= FD_MAX_IDX; i++) close(i) *)
HaltClose_less(from, to) ==
    /\ pc = from
    /\ file_array' = [file_array EXCEPT ![current_pcb] = @ \cap {FD_MAX_IDX}]
    /\ pc' = to
    /\ UNCHANGED <<program_id, parent_id, process_terminal, cmd_name, esp, smashed,
                   termVars, memVars, if_flag, kstack, isr, cmd, ret, frame_ok>>

HaltClose(from, to) ==
    /\ pc = from
    /\ file_array' = [file_array EXCEPT ![current_pcb] = {}]
    /\ pc' = to
    /\ UNCHANGED <<program_id, parent_id, process_terminal, cmd_name, esp, smashed,
                   termVars, memVars, if_flag, kstack, isr, cmd, ret, frame_ok>>

ClearSlot(p) ==
    /\ process_terminal' = [process_terminal EXCEPT ![p] = NoTerminal]
    /\ program_id' = [program_id EXCEPT ![p] = 0]
    /\ parent_id' = [parent_id EXCEPT ![p] = 0]
    /\ esp' = [esp EXCEPT ![p] = 0]
    /\ smashed' = smashed \ {p}
    /\ UNCHANGED <<cmd_name, file_array, curr_terminal>>

pcb_destroy_leak(p) ==
    /\ num_process' = [num_process EXCEPT ![curr_terminal] = Dec(@)]
    /\ top_process_id' = [top_process_id EXCEPT ![curr_terminal] = parent_id[p]]
    /\ current_pcb' = parent_id[p]
    /\ ClearSlot(p)
    /\ UNCHANGED process_number

pcb_destroy_stay(p) ==
    /\ process_number' = Dec(process_number)
    /\ num_process' = [num_process EXCEPT ![curr_terminal] = Dec(@)]
    /\ top_process_id' = [top_process_id EXCEPT ![curr_terminal] = parent_id[p]]
    /\ ClearSlot(p)
    /\ UNCHANGED current_pcb

(* pcb_destroy: the counters, the parent becomes top and current process,  *)
(* and the slot is cleared, except for its descriptors and its name.       *)
pcb_destroy(p) ==
    /\ process_number' = Dec(process_number)
    /\ num_process' = [num_process EXCEPT ![curr_terminal] = Dec(@)]
    /\ top_process_id' = [top_process_id EXCEPT ![curr_terminal] = parent_id[p]]
    /\ current_pcb' = parent_id[p]
    /\ ClearSlot(p)

HaltBaseDestroy ==
    /\ pc = "halt_base_destroy"
    /\ pcb_destroy(current_pcb)
    /\ pc' = "relaunch" /\ cmd' = "shell" /\ ret' = "halt_nested"
    /\ UNCHANGED <<memVars, if_flag, kstack, isr, frame_ok>>

HaltNestedDestroy ==
    /\ pc = "halt_destroy"
    /\ pcb_destroy(current_pcb)
    /\ pc' = "halt_reload"
    /\ UNCHANGED <<memVars, if_flag, kstack, isr, cmd, ret, frame_ok>>

(* tss.esp0 and CR3 of the parent, then exec_halt: execute() returns 0 and *)
(* the system call returns.  For slot 0, CR3 becomes page_directories[-1], *)
(* which maps nothing; from an overwritten frame the return address is     *)
(* part of a program image, and the machine is lost.                       *)
HaltReload_no_tss ==
    /\ pc = "halt_reload"
    /\ IF current_pcb = 0 \/ ~frame_ok
       THEN pc' = "crashed" /\ UNCHANGED <<cr3, if_flag, kstack>>
       ELSE /\ cr3' = program_id[current_pcb]
            /\ pc' = "user" /\ if_flag' = TRUE /\ kstack' = 0
    /\ UNCHANGED <<pcbVars, termVars, tss_esp0, image, isr, cmd, ret, frame_ok>>

HaltReload ==
    /\ pc = "halt_reload"
    /\ IF current_pcb = 0 \/ ~frame_ok
       THEN pc' = "crashed" /\ UNCHANGED <<cr3, tss_esp0, if_flag, kstack>>
       ELSE /\ tss_esp0' = program_id[current_pcb]
            /\ cr3' = program_id[current_pcb]
            /\ pc' = "user" /\ if_flag' = TRUE /\ kstack' = 0
    /\ UNCHANGED <<pcbVars, termVars, image, isr, cmd, ret, frame_ok>>

-----------------------------------------------------------------------------
(* Descriptors of the running process.  open_file takes the first free     *)
(* one; close accepts any that is in use.                                  *)
FreeFDs == FDs \ file_array[current_pcb]
find_free_fd == CHOOSE fd \in FreeFDs : \A g \in FreeFDs : fd <= g

OpenSyscall ==
    /\ pc = "user" /\ FreeFDs # {}
    /\ file_array' = [file_array EXCEPT ![current_pcb] = @ \cup {find_free_fd}]
    /\ UNCHANGED <<program_id, parent_id, process_terminal, cmd_name, esp, smashed,
                   termVars, memVars, cpuVars>>

CloseSyscall(fd) ==
    /\ pc = "user" /\ fd \in file_array[current_pcb]
    /\ file_array' = [file_array EXCEPT ![current_pcb] = @ \ {fd}]
    /\ UNCHANGED <<program_id, parent_id, process_terminal, cmd_name, esp, smashed,
                   termVars, memVars, cpuVars>>

(* read() and write() leave this state alone but may run for long, as      *)
(* terminal_read and rtc_read do, with interrupts on.                      *)
Block ==
    /\ pc = "user"
    /\ pc' = "blocked" /\ kstack' = tss_esp0
    /\ UNCHANGED <<pcbVars, termVars, memVars, if_flag, isr, cmd, ret, frame_ok>>

Unblock ==
    /\ pc = "blocked"
    /\ pc' = "user" /\ kstack' = 0
    /\ UNCHANGED <<pcbVars, termVars, memVars, if_flag, isr, cmd, ret, frame_ok>>

(* An exception handler prints (scroll() sets IF again) and loops forever. *)
UserException ==
    /\ pc = "user"
    /\ pc' = "exception" /\ kstack' = tss_esp0
    /\ UNCHANGED <<pcbVars, termVars, memVars, if_flag, isr, cmd, ret, frame_ok>>

-----------------------------------------------------------------------------
(* The keyboard interrupt is taken with IF set and no keyboard interrupt   *)
(* in service.                                                             *)
KeyboardAt(points) == pc \in points /\ if_flag /\ ~isr

(* CTRL+C: EOI, then halt(0) with interrupts off. *)
CtrlC_sti ==
    /\ KeyboardAt(CtrlCPoints)
    /\ pc' = "halt" /\ if_flag' = TRUE /\ kstack' = EntryStack
    /\ UNCHANGED <<pcbVars, termVars, memVars, isr, cmd, ret, frame_ok>>

CtrlC ==
    /\ KeyboardAt(CtrlCPoints)
    /\ pc' = "halt" /\ if_flag' = FALSE /\ kstack' = EntryStack
    /\ UNCHANGED <<pcbVars, termVars, memVars, isr, cmd, ret, frame_ok>>

(* ALT+Fn to a terminal with a process: CR3 and tss.esp0 follow, the       *)
(* handler sends its EOI and the interrupted code goes on.                 *)
SwitchLive(t) ==
    /\ KeyboardAt(SwitchPoints)
    /\ t # curr_terminal
    /\ program_id[top_process_id[t]] # 0
    /\ curr_terminal' = t
    /\ current_pcb' = top_process_id[t]
    /\ cr3' = program_id[current_pcb']
    /\ tss_esp0' = program_id[current_pcb']
    /\ UNCHANGED <<pcbVars, process_number, top_process_id, num_process,
                   image, cpuVars>>

(* ALT+Fn to an empty terminal: execute("shell") from within the handler,  *)
(* interrupts off and the keyboard interrupt in service.                   *)
SwitchEmpty(t) ==
    /\ KeyboardAt(SwitchPoints)
    /\ t # curr_terminal
    /\ program_id[top_process_id[t]] = 0
    /\ ~ProcessLimit
    /\ curr_terminal' = t
    /\ current_pcb' = top_process_id[t]
    /\ pc' = "execute" /\ cmd' = "shell" /\ ret' = "idle"
    /\ if_flag' = FALSE /\ isr' = TRUE /\ kstack' = EntryStack
    /\ UNCHANGED <<pcbVars, process_number, top_process_id, num_process,
                   memVars, frame_ok>>

(* ... when execute() finds the process limit reached: it returns, and so  *)
(* does the handler.                                                       *)
SwitchEmptyLimit(t) ==
    /\ KeyboardAt(SwitchPoints)
    /\ t # curr_terminal
    /\ program_id[top_process_id[t]] = 0
    /\ ProcessLimit
    /\ curr_terminal' = t
    /\ current_pcb' = top_process_id[t]
    /\ UNCHANGED <<pcbVars, process_number, top_process_id, num_process,
                   memVars, cpuVars>>

(* A triple fault resets the machine: this run of the kernel is over. *)
Reset == pc = "crashed" /\ UNCHANGED vars

-----------------------------------------------------------------------------
(* Steps the kernel takes by itself once it was entered. *)
KernelStep ==
    \/ BootShell \/ ExecuteLimit \/ ExecuteFails \/ ExecuteRuns
    \/ HaltTest \/ HaltLoadFrame \/ HaltNestedDestroy \/ HaltReload
    \/ HaltClose("halt_base", "halt_base_destroy") \/ HaltBaseDestroy
    \/ HaltClose("halt_close", "halt_destroy")

UserStep ==
    \/ \E c \in Commands : ExecuteSyscall(c)
    \/ HaltSyscall
    \/ OpenSyscall
    \/ \E fd \in FDs : CloseSyscall(fd)
    \/ Block \/ Unblock \/ UserException

KeyboardStep ==
    \/ CtrlC
    \/ \E t \in Terminals : SwitchLive(t) \/ SwitchEmpty(t) \/ SwitchEmptyLimit(t)

Next == KernelStep \/ UserStep \/ KeyboardStep \/ Reset

Spec == Init /\ [][Next]_vars

(* The CPU executes kernel code while it is there. *)
FairSpec == Spec /\ WF_vars(KernelStep)

-----------------------------------------------------------------------------
(***************************************************************************)
(* Properties.  A definition above whose name extends that of its          *)
(* neighbour (pcb_destroy_leak and the like) is a faulty variant of it; no *)
(* action uses it, and a property is sensitive to it.                      *)
(***************************************************************************)
(* Every variable has its type: the fields of pcbs[], the terminals' book- *)
(* keeping, the machine registers and the control point.                   *)
TypeOK ==
    /\ program_id \in [Slots -> Slots]
    /\ parent_id \in [Slots -> Slots]
    /\ process_terminal \in [Slots -> Terminals \cup {NoTerminal}]
    /\ cmd_name \in [Slots -> Commands \cup {"none"}]
    /\ esp \in [Slots -> Slots]
    /\ smashed \in SUBSET Procs
    /\ file_array \in [Slots -> SUBSET FDs]
    /\ process_number \in 0..(WORD - 1)
    /\ current_pcb \in Slots
    /\ curr_terminal \in Terminals
    /\ top_process_id \in [Terminals -> Slots]
    /\ num_process \in [Terminals -> 0..(WORD - 1)]
    /\ cr3 \in Procs /\ tss_esp0 \in Procs
    /\ image \in [Procs -> Programs \cup {"none"}]
    /\ pc \in PCs
    /\ if_flag \in BOOLEAN /\ isr \in BOOLEAN
    /\ kstack \in Slots
    /\ cmd \in Commands \cup {"none"}
    /\ ret \in {"user", "idle", "halt_nested"}
    /\ frame_ok \in BOOLEAN

(* Where a terminal switch leaves all invariants standing: not between     *)
(* execute()'s entry and its cli, nor inside halt() once it has read       *)
(* num_process.                                                            *)
SafeSwitchPoints == {"boot", "user", "blocked", "exception", "halt"}

(* Points at which the kernel has put the machine in order for the user.   *)
Settled == {"user", "blocked", "exception"}

(* process_number counts the slots in use, and behind the limit test of    *)
(* execute() find_free_pcb never returns -1 (pcbs[-1] would be             *)
(* initialised); current_pcb is the top process of the terminal on the     *)
(* screen.                                                                 *)
Accounting ==
    /\ process_number = Cardinality(Live)
    /\ ~ProcessLimit => FreeSlots # {}
    /\ \A p \in Slots : program_id[p] \in {0, p}
    /\ current_pcb = top_process_id[curr_terminal]

(* The processes of a terminal form one chain from the base shell to the   *)
(* top process, each the parent of the next, num_process long: destroying  *)
(* the top process therefore uncovers its parent, and num_process = 1 says *)
(* that the top process is the base shell.                                 *)
ChainOf(t, f) ==
    LET n == num_process[t]
    IN /\ \A i \in 1..n : parent_id[f[i]] = IF i = 1 THEN 0 ELSE f[i - 1]
       /\ \A i, j \in 1..n : f[i] = f[j] => i = j
       /\ \A p \in LiveOn(t) : \E i \in 1..n : f[i] = p
       /\ top_process_id[t] = IF n = 0 THEN 0 ELSE f[n]

TerminalChains ==
    \A t \in Terminals : \E f \in [1..num_process[t] -> LiveOn(t)] : ChainOf(t, f)

(* Whenever user code can run, CR3 is the page directory and tss.esp0 the  *)
(* kernel stack of current_pcb, after every execute, halt and terminal     *)
(* switch (the page fault and the wrong kernel stack of the bug log).      *)
AddressSpaceMatches ==
    pc \in Settled /\ current_pcb # 0 => cr3 = current_pcb /\ tss_esp0 = current_pcb

(* The user page of every process holds the program it was started with:   *)
(* no other execute() has copied an image over it.                         *)
ImagesIntact == \A p \in Live : image[p] = cmd_name[p]

(* No program image reaches beyond the kernel stack it is copied through.  *)
ImagesFit == \A c \in Programs : StackReach[c] = 0

(* The frame to which halting a nested process returns lies on its         *)
(* parent's kernel stack; no interrupt is taken on that stack and no       *)
(* copy_file_image has overwritten it while the process lives, so the      *)
(* frame is intact when halt() jumps to it.                                *)
SavedFramesIntact ==
    \A p \in Live : parent_id[p] # 0 =>
        esp[p] = parent_id[p] /\ tss_esp0 # esp[p] /\ p \notin smashed

(* When halt() is about to return to user mode it runs on the kernel stack *)
(* of the very process it made current.                                    *)
HaltResumesParent == pc = "halt_reload" => kstack = current_pcb

(* A free slot has no open descriptor, so a new process starts with stdin  *)
(* and stdout only although pcb_init clears no other descriptor.           *)
ClosedOnExit == \A p \in Procs \ Live : file_array[p] = {}

(* The keyboard works whenever user code runs: interrupts are on and the   *)
(* last keyboard interrupt was acknowledged, also when the handler never   *)
(* returned because it started a shell or halted a process.                *)
KeyboardAlive == pc \in Settled \cup {"boot"} => if_flag /\ ~isr

(* After boot, user code runs without a process only when the table was    *)
(* full as the user switched to an empty terminal.                         *)
NoProcessOnlyWhenFull ==
    pc \in Settled /\ current_pcb = 0 => process_number = MAX_PROCESSES - 1

(* The only way to a triple fault is halt() on a terminal with no process; *)
(* in particular execute() never runs out of slots behind its limit test.  *)
CrashOnlyWithoutProcess ==
    [][pc' = "crashed" => current_pcb = 0 /\ num_process[curr_terminal] = 0]_vars
=============================================================================
