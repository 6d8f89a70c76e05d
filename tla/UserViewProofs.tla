--------------------------- MODULE UserViewProofs ---------------------------
(***************************************************************************)
(* What the user sees of process control, for tables and terminals of      *)
(* every size: the stacks of programs (ProcessStacks), the registers of    *)
(* the process that runs (UserContext) and its pages (Paging).  All three  *)
(* rest on the invariant of ProcessControlProofs.                          *)
(***************************************************************************)
EXTENDS ProcessStacks, Paging, ProcessControlProofs, SequenceTheorems

-----------------------------------------------------------------------------
(***************************************************************************)
(* The page directories.                                                   *)
(***************************************************************************)

\* A directory into which create_vidmap has put its table, and that table.
VidmapDirectory(id) ==
    [i \in {VIDEO_OFFSET, KERNEL_OFFSET, PROGRAM_OFFSET, VIDMAP_OFFSET} |->
        IF i = VIDMAP_OFFSET THEN TableEntry("page_table_vidmap")
        ELSE TaskDirectory(id)[i]]

VidmapTable ==
    [j \in {n \in 0..(ENTRIES - 1) : n * PAGE_SIZE_4KB = VIDEO_MEM} |-> VIDEO_MEM]

\* The directory of every process is one of two; those of free slots may be
\* anything, left by the last process.
Directories ==
    /\ DOMAIN page_directories = Procs
    /\ \A p \in Live : page_directories[p] =
         IF p \in mapped THEN VidmapDirectory(p - 1) ELSE TaskDirectory(p - 1)
    /\ mapped # {} => page_table_vidmap = VidmapTable

PInv == IInv /\ Directories

-----------------------------------------------------------------------------
\* Process control takes its own steps under paging.
LEMMA PagingSteps == [PNext]_pvars => [Next]_vars
<1>1. CASE ExecuteMaps
  BY <1>1 DEF ExecuteMaps, UserEntry, Next, KernelStep
<1>2. CASE VidmapSyscall
  BY <1>2 DEF VidmapSyscall, uvars
<1>3. CASE KeepDirectories
  BY <1>3 DEF KeepDirectories, AdoptFrame, KeepRegisters, Next, KernelStep
<1>4. CASE UNCHANGED pvars
  BY <1>4 DEF pvars, uvars
<1> QED
  BY <1>1, <1>2, <1>3, <1>4 DEF PNext

\* Only execute() makes a slot live.
LEMMA LiveShrinks ==
    ASSUME IInv, AdoptFrame \/ KeepRegisters
    PROVE  Live' \subseteq Live
<1>1. CASE UNCHANGED program_id
  BY <1>1 DEF Live
<1>2. CASE HaltBaseDestroy \/ HaltNestedDestroy
  <2>1. program_id' = [program_id EXCEPT ![current_pcb] = 0]
    BY <1>2 DEF HaltBaseDestroy, HaltNestedDestroy, pcb_destroy, ClearSlot
  <2>2. program_id \in [Slots -> Slots] /\ current_pcb \in Slots /\ Procs \subseteq Slots
    BY SlotsFacts DEF IInv, TypeOK
  <2> QED
    BY <2>1, <2>2 DEF Live
<1>3. CASE AdoptFrame
  BY <1>3, <1>1 DEF AdoptFrame, HaltLoadFrame, pcbVars
<1>4. CASE UserStep
  BY <1>4, <1>1 DEF UserStep, ExecuteSyscall, HaltSyscall, OpenSyscall, CloseSyscall,
                    Block, Unblock, UserException, pcbVars
<1>5. CASE KeyboardStep
  BY <1>5, <1>1, Zenon DEF KeyboardStep, CtrlC, SwitchLive, SwitchEmpty, SwitchEmptyLimit, pcbVars
<1>6. CASE \/ BootShell \/ ExecuteLimit \/ ExecuteFails \/ HaltTest \/ HaltReload
           \/ HaltClose("halt_base", "halt_base_destroy")
           \/ HaltClose("halt_close", "halt_destroy") \/ Reset
  BY <1>6, <1>1 DEF BootShell, ExecuteLimit, ExecuteFails, HaltTest, HaltReload,
                    HaltClose, Reset, pcbVars, vars
<1> QED
  BY <1>2, <1>3, <1>4, <1>5, <1>6 DEF KeepRegisters

\* The directories after paging_init: no process is live.
LEMMA InitDirectories == PInit => PInv
<1> SUFFICES ASSUME PInit PROVE PInv
  OBVIOUS
<1>1. IInv
  BY InitIInv DEF PInit, UInit
<1>2. Live = {}
  BY SlotsFacts DEF PInit, UInit, Init, Live
<1> QED
  BY <1>1, <1>2 DEF PInv, Directories, PInit, paging_init

\* new_task_pd makes the directory of the slot it is given, and no other.
LEMMA ExecuteKeeps ==
    ASSUME PInv, ExecuteMaps
    PROVE  Directories'
<1> DEFINE new == find_free_pcb
<1>1. ExecuteRuns /\ new \in Procs /\ new \notin Live
  BY FreeSlot DEF PInv, IInv, ExecuteMaps, UserEntry, ExecuteRuns, FreeSlots, Live
<1>2. current_pcb' = new /\ Live' = Live \cup {new}
  <2>1. program_id \in [Slots -> Slots] /\ Procs \subseteq Slots /\ 0 \notin Procs
    BY SlotsFacts DEF PInv, IInv, TypeOK
  <2>2. current_pcb' = new /\ program_id' = [program_id EXCEPT ![new] = new]
    BY <1>1 DEF ExecuteRuns
  <2> QED
    BY <1>1, <2>1, <2>2 DEF Live
<1>3. (new - 1) + 1 = new
  BY <1>1, SlotsFacts
<1>4. page_directories' = [page_directories EXCEPT ![new] = TaskDirectory(new - 1)]
  BY <1>2, <1>3, Zenon DEF ExecuteMaps, new_task_pd
<1>5. mapped' = mapped \ {new} /\ page_table_vidmap' = page_table_vidmap
  BY <1>2 DEF ExecuteMaps
<1>6. DOMAIN page_directories' = Procs
  BY <1>4 DEF PInv, Directories
<1>7. \A p \in Live' : page_directories'[p] =
        IF p \in mapped' THEN VidmapDirectory(p - 1) ELSE TaskDirectory(p - 1)
  <2> TAKE p \in Live'
  <2>1. CASE p = new
    BY <2>1, <1>1, <1>4, <1>5 DEF PInv, Directories
  <2>2. CASE p # new
    <3>1. p \in Live /\ p \in Procs
      BY <2>2, <1>2, SlotsFacts
    <3>2. page_directories'[p] = page_directories[p] /\ (p \in mapped' <=> p \in mapped)
      BY <3>1, <2>2, <1>4, <1>5 DEF PInv, Directories
    <3> QED
      BY <3>1, <3>2 DEF PInv, Directories
  <2> QED
    BY <2>1, <2>2
<1> QED
  BY <1>5, <1>6, <1>7 DEF PInv, Directories, VidmapTable

\* create_vidmap adds its table to the directory of the calling process.
LEMMA VidmapKeeps ==
    ASSUME PInv, VidmapSyscall
    PROVE  Directories'
<1>1. /\ current_pcb \in Live /\ current_pcb \in Procs
      /\ program_id[current_pcb] = current_pcb /\ Live' = Live
  <2>1. current_pcb \in Slots /\ current_pcb # 0 /\ program_id' = program_id
    BY DEF PInv, IInv, TypeOK, VidmapSyscall, uvars, vars, pcbVars
  <2>2. program_id[current_pcb] = current_pcb
    <3>1. curr_terminal \in Terminals /\ current_pcb = top_process_id[curr_terminal]
      BY DEF PInv, IInv, TypeOK, Table
    <3> QED
      BY <3>1, CurrentLive DEF PInv, IInv
  <2> QED
    BY <2>1, <2>2, SlotsFacts DEF Live
<1> DEFINE d == page_directories[current_pcb]
<1>2. d = VidmapDirectory(current_pcb - 1) \/ d = TaskDirectory(current_pcb - 1)
  BY <1>1 DEF PInv, Directories
<1>3. [i \in DOMAIN d \cup {VIDMAP_OFFSET} |->
          IF i = VIDMAP_OFFSET THEN TableEntry("page_table_vidmap") ELSE d[i]]
        = VidmapDirectory(current_pcb - 1)
  <2> DEFINE id == current_pcb - 1
  <2> HIDE DEF id
  <2>1. CASE d = VidmapDirectory(id)
    BY <2>1 DEF VidmapDirectory, VIDMAP_OFFSET, VIDEO_OFFSET, KERNEL_OFFSET, PROGRAM_OFFSET, id
  <2>2. CASE d = TaskDirectory(id)
    <3>1. DOMAIN d = {VIDEO_OFFSET, KERNEL_OFFSET, PROGRAM_OFFSET}
      BY <2>2 DEF TaskDirectory
    <3> QED
      BY <2>2, <3>1 DEF VidmapDirectory, VIDMAP_OFFSET, VIDEO_OFFSET, KERNEL_OFFSET,
                        PROGRAM_OFFSET, id
  <2> QED
    BY <1>2, <2>1, <2>2 DEF id
<1>4. page_directories' =
        [page_directories EXCEPT ![current_pcb] = VidmapDirectory(current_pcb - 1)]
  BY <1>1, <1>3, Zenon DEF VidmapSyscall, create_vidmap
<1>5. mapped' = mapped \cup {current_pcb} /\ page_table_vidmap' = VidmapTable
  BY DEF VidmapSyscall, create_vidmap, VidmapTable
<1>6. DOMAIN page_directories' = Procs
  BY <1>4 DEF PInv, Directories
<1>7. \A p \in Live' : page_directories'[p] =
        IF p \in mapped' THEN VidmapDirectory(p - 1) ELSE TaskDirectory(p - 1)
  <2> TAKE p \in Live'
  <2>1. p \in Live /\ p \in Procs
    BY <1>1, SlotsFacts
  <2>2. CASE p = current_pcb
    BY <2>1, <2>2, <1>4, <1>5, Zenon DEF PInv, Directories
  <2>3. CASE p # current_pcb
    <3>1. page_directories'[p] = page_directories[p] /\ (p \in mapped' <=> p \in mapped)
      BY <2>1, <2>3, <1>4, <1>5 DEF PInv, Directories
    <3> QED
      BY <2>1, <3>1 DEF PInv, Directories
  <2> QED
    BY <2>2, <2>3
<1> QED
  BY <1>5, <1>6, <1>7 DEF Directories, VidmapTable

\* Every step keeps the directories of the processes.
LEMMA NextDirectories ==
    ASSUME SwitchPoints \subseteq SafeSwitchPoints, PInv, [PNext]_pvars
    PROVE  PInv'
<1>1. IInv'
  BY PagingSteps, NextIInv DEF PInv
<1>2. ASSUME KeepDirectories PROVE Directories'
  <2>1. Live' \subseteq Live /\ UNCHANGED <<page_directories, page_table_vidmap, mapped>>
    BY <1>2, LiveShrinks DEF PInv, KeepDirectories, pageVars
  <2> QED
    BY <2>1 DEF PInv, Directories, VidmapTable
<1>3. ASSUME UNCHANGED pvars PROVE Directories'
  <2>1. Live' = Live /\ UNCHANGED <<page_directories, page_table_vidmap, mapped>>
    BY <1>3 DEF pvars, uvars, vars, pcbVars, pageVars, Live
  <2> QED
    BY <2>1 DEF PInv, Directories, VidmapTable
<1> QED
  BY <1>1, <1>2, <1>3, ExecuteKeeps, VidmapKeeps DEF PNext, PInv

-----------------------------------------------------------------------------
\* What the MMU makes of the two directories, address by address.
LEMMA Walks ==
    ASSUME Directories, NEW p \in Live, p \in Nat
    PROVE  SpaceOf(p, {0, 72 * PAGE_SIZE_4KB, PAGE_SIZE_4MB - 1})
<1> DEFINE d == page_directories[p]
<1>1. d = IF p \in mapped THEN VidmapDirectory(p - 1) ELSE TaskDirectory(p - 1)
  BY DEF Directories
<1>2. /\ {VIDEO_OFFSET, KERNEL_OFFSET, PROGRAM_OFFSET} \subseteq DOMAIN d
      /\ VIDMAP_OFFSET \in DOMAIN d <=> p \in mapped
  BY <1>1 DEF VidmapDirectory, TaskDirectory, VIDMAP_OFFSET, VIDEO_OFFSET, KERNEL_OFFSET,
              PROGRAM_OFFSET
<1>3. /\ d[VIDEO_OFFSET] = TableEntry("page_table")
      /\ d[KERNEL_OFFSET] = BigPage(PAGE_SIZE_4MB)
      /\ d[PROGRAM_OFFSET] = BigPage(USER_PAGE_8MB + (p - 1) * PAGE_SIZE_4MB)
      /\ p \in mapped => d[VIDMAP_OFFSET] = TableEntry("page_table_vidmap")
  BY <1>1 DEF VidmapDirectory, TaskDirectory, BootDirectory, ProgramPage, VIDMAP_OFFSET,
              VIDEO_OFFSET, KERNEL_OFFSET, PROGRAM_OFFSET
<1> HIDE DEF d
<1> DEFINE offsets == {0, 72 * PAGE_SIZE_4KB, PAGE_SIZE_4MB - 1}
<1>4. \A o \in offsets :
        /\ o \in Nat /\ o < 4194304
        /\ (PAGE_VIRT_ADDR + o) \div PAGE_SIZE_4MB = PROGRAM_OFFSET
        /\ (PAGE_VIRT_ADDR + o) % PAGE_SIZE_4MB = o
        /\ (PAGE_SIZE_4MB + o) \div PAGE_SIZE_4MB = KERNEL_OFFSET
        /\ (PAGE_SIZE_4MB + o) % PAGE_SIZE_4MB = o
        /\ o \div PAGE_SIZE_4MB = VIDEO_OFFSET
        /\ o % PAGE_SIZE_4MB = o
  BY SMTT(30) DEF PAGE_VIRT_ADDR, PAGE_SIZE_4MB, PAGE_SIZE_4KB, PROGRAM_OFFSET, KERNEL_OFFSET,
         VIDEO_OFFSET
<1>5. \A o \in offsets : Translate(d, PAGE_VIRT_ADDR + o) = (p + 1) * PAGE_SIZE_4MB + o
  <2> TAKE o \in offsets
  <2>1. Translate(d, PAGE_VIRT_ADDR + o)
          = USER_PAGE_8MB + (p - 1) * PAGE_SIZE_4MB + o
    BY SMTT(30), <1>2, <1>3, <1>4 DEF Translate, BigPage
  <2> QED
    BY SMTT(30), <2>1, <1>4 DEF USER_PAGE_8MB, PAGE_SIZE_4MB, PAGE_SIZE_4KB
<1>6. \A o \in offsets : Translate(d, PAGE_SIZE_4MB + o) = PAGE_SIZE_4MB + o
  BY SMTT(30), <1>2, <1>3, <1>4 DEF Translate, BigPage
<1>7. \A o \in offsets : Translate(d, o) = o
  <2> TAKE o \in offsets
  <2>1. /\ o \div PAGE_SIZE_4KB \in 0..(ENTRIES - 1)
        /\ (o \div PAGE_SIZE_4KB) * PAGE_SIZE_4KB + (o % PAGE_SIZE_4KB) = o
    BY SMTT(30), <1>4 DEF PAGE_SIZE_4KB, ENTRIES
  <2>2. /\ o \div PAGE_SIZE_4KB \in DOMAIN page_table
        /\ page_table[o \div PAGE_SIZE_4KB] + (o % PAGE_SIZE_4KB) = o
    BY SMTT(30), <2>1 DEF page_table
  <2> QED
    BY SMTT(30), <2>2, <1>2, <1>3, <1>4 DEF Translate, TableEntry
<1>8. Translate(d, VIDMAP) = IF p \in mapped THEN VIDEO_MEM ELSE -1
  <2>1. VIDMAP \div PAGE_SIZE_4MB = VIDMAP_OFFSET /\ VIDMAP % PAGE_SIZE_4MB = VIDEO_MEM
    BY SMTT(30) DEF VIDMAP, VIDEO_MEM, PAGE_SIZE_4MB, PAGE_SIZE_4KB, VIDMAP_OFFSET
  <2>2. VIDEO_MEM \div PAGE_SIZE_4KB = 184 /\ VIDMAP % PAGE_SIZE_4KB = 0
    BY SMTT(30) DEF VIDMAP, VIDEO_MEM, PAGE_SIZE_4MB, PAGE_SIZE_4KB
  <2>3. 184 \in DOMAIN VidmapTable /\ VidmapTable[184] + 0 = VIDEO_MEM
    BY SMTT(30) DEF VidmapTable, VIDEO_MEM, PAGE_SIZE_4KB, ENTRIES
  <2>4. CASE p \in mapped
    <3>1. page_table_vidmap = VidmapTable
      BY <2>4 DEF Directories
    <3> QED
      BY SMTT(30), <2>4, <2>1, <2>2, <2>3, <3>1, <1>2, <1>3 DEF Translate, TableEntry
  <2>5. CASE p \notin mapped
    BY SMTT(30), <2>5, <2>1, <1>2 DEF Translate
  <2> QED
    BY <2>4, <2>5
<1> QED
  BY <1>5, <1>6, <1>7, <1>8 DEF SpaceOf, d

\* Every process has the address space it was promised (execute() through
\* new_task_pd, the vidmap system call through create_vidmap), for any number
\* of processes and terminals: slots and the vidmap table are reused and
\* shared, and no process sees the video page of another's call.
THEOREM PagesOwned ==
    ASSUME SwitchPoints \subseteq SafeSwitchPoints
    PROVE  PSpec => []OwnPages
<1>1. PInit => PInv
  BY InitDirectories
<1>2. PInv /\ [PNext]_pvars => PInv'
  BY NextDirectories
<1>3. PInv => OwnPages
  BY Walks, SlotsFacts DEF PInv, OwnPages
<1> QED
  BY <1>1, <1>2, <1>3, PTL DEF PSpec

-----------------------------------------------------------------------------
(***************************************************************************)
(* The registers: without terminal switches they are those of current_pcb, *)
(* with CTRL+C anywhere.                                                   *)
(***************************************************************************)

\* The obligations are many: the provers are given more than their usual time.
USE SMTT(20), ZenonT(20)

NoSwitch ==
    /\ SwitchPoints \subseteq SafeSwitchPoints
    /\ SwitchPoints = {} \/ MAX_TERMINALS = 1

\* The frame of a nested process holds the registers of its parent.
SavedRegs ==
    /\ DOMAIN saved_regs = Slots
    /\ \A p \in Live : parent_id[p] # 0 => saved_regs[p] = parent_id[p]

\* Whose registers are in use at each control point; between the saved frame
\* and pcb_destroy they are those of the parent already.
HeldRegs ==
    /\ pc \in Settled \cup {"execute", "halt_reload"} /\ current_pcb # 0 =>
         regs = current_pcb
    /\ pc \in {"halt_close", "halt_destroy"} => regs = parent_id[current_pcb]

RInv == IInv /\ SavedRegs /\ HeldRegs

-----------------------------------------------------------------------------
\* Process control takes its own steps under UserContext.
LEMMA ContextSteps == [UNext]_uvars => [Next]_vars
BY DEF UNext, UserEntry, AdoptFrame, KeepRegisters, Next, KernelStep, uvars

\* current_pcb is the top process of its terminal: 0, or live and knowing its
\* own slot.
LEMMA Current ==
    ASSUME IInv
    PROVE  /\ curr_terminal \in Terminals /\ current_pcb = top_process_id[curr_terminal]
           /\ current_pcb # 0 => current_pcb \in Live
           /\ program_id[current_pcb] = current_pcb
<1>1. curr_terminal \in Terminals /\ current_pcb = top_process_id[curr_terminal]
  BY DEF IInv, TypeOK, Table
<1> QED
  BY <1>1, CurrentLive DEF IInv

\* At the colour prompt there is no process.
LEMMA InitRInv == UInit => RInv
<1> SUFFICES ASSUME UInit PROVE RInv
  OBVIOUS
<1>1. IInv /\ Live = {}
  BY InitIInv, SlotsFacts DEF UInit, Init, Live
<1> QED
  BY <1>1 DEF RInv, SavedRegs, HeldRegs, UInit, Init, Settled

\* execute() stores the caller's registers in the frame of the new process.
LEMMA EntryKeeps ==
    ASSUME RInv, UserEntry
    PROVE  SavedRegs' /\ HeldRegs'
<1> DEFINE new == find_free_pcb
<1>1. new \in Procs /\ new \notin Live /\ new \in Slots /\ new # 0
  BY FreeSlot, SlotsFacts DEF RInv, IInv, UserEntry, ExecuteRuns, FreeSlots, Live
<1>2. /\ current_pcb' = new /\ pc' = "user"
      /\ program_id' = [program_id EXCEPT ![new] = new]
      /\ parent_id' = [parent_id EXCEPT ![new] = program_id[current_pcb]]
      /\ saved_regs' = [saved_regs EXCEPT ![new] = regs] /\ regs' = new
  BY DEF UserEntry, ExecuteRuns
<1>3. Live' = Live \cup {new}
  <2>1. program_id \in [Slots -> Slots] /\ Procs \subseteq Slots
    BY SlotsFacts DEF RInv, IInv, TypeOK
  <2> QED
    BY <1>1, <1>2, <2>1, Zenon DEF Live
<1>4. HeldRegs'
  BY <1>2 DEF HeldRegs, Settled
<1>5. current_pcb # 0 => regs = current_pcb
  BY DEF RInv, IInv, HeldRegs, InExecute, UserEntry, ExecuteRuns
<1>6. program_id[current_pcb] = current_pcb
  BY Current DEF RInv
<1>7. \A p \in Live' : parent_id'[p] # 0 => saved_regs'[p] = parent_id'[p]
  <2> SUFFICES ASSUME NEW p \in Live', parent_id'[p] # 0
               PROVE  saved_regs'[p] = parent_id'[p]
    OBVIOUS
  <2>1. parent_id \in [Slots -> Slots] /\ DOMAIN saved_regs = Slots
    BY DEF RInv, IInv, TypeOK, SavedRegs
  <2>2. CASE p = new
    BY <2>1, <2>2, <1>1, <1>2, <1>5, <1>6, Zenon
  <2>3. CASE p # new
    <3>1. p \in Live /\ p \in Slots
      BY <2>3, <1>3, SlotsFacts
    <3>2. parent_id'[p] = parent_id[p] /\ saved_regs'[p] = saved_regs[p]
      BY <3>1, <2>1, <2>3, <1>1, <1>2, Zenon
    <3> QED
      BY <3>1, <3>2 DEF RInv, SavedRegs
  <2> QED
    BY <2>2, <2>3
<1>8. DOMAIN saved_regs' = Slots
  BY <1>2 DEF RInv, SavedRegs
<1> QED
  BY <1>4, <1>7, <1>8, Zenon DEF SavedRegs

\* halt() adopts the registers in the frame of a process that has a parent.
LEMMA AdoptKeeps ==
    ASSUME RInv, AdoptFrame
    PROVE  SavedRegs' /\ HeldRegs'
<1>1. /\ pc = "halt_nested" /\ regs' = saved_regs[current_pcb] /\ saved_regs' = saved_regs
      /\ UNCHANGED <<program_id, parent_id, current_pcb>>
      /\ pc' = "crashed" \/ (pc' = "halt_close" /\ current_pcb # 0)
  BY DEF AdoptFrame, HaltLoadFrame, pcbVars, termVars
<1>2. Live' = Live
  BY <1>1 DEF Live
<1>3. current_pcb # 0 => current_pcb \in Live /\ parent_id[current_pcb] # 0
  <2>1. current_pcb # 0 => num_process[curr_terminal] > 1
    BY <1>1, Current, ChainFacts DEF RInv, IInv, InHalt
  <2> QED
    BY <2>1, Current, ChainFacts, Zenon DEF RInv, IInv
<1> QED
  BY <1>1, <1>2, <1>3 DEF RInv, SavedRegs, HeldRegs, Settled

\* pcb_destroy uncovers the parent, whose registers they are.
LEMMA DestroyKeeps ==
    ASSUME RInv, HaltBaseDestroy \/ HaltNestedDestroy, UNCHANGED <<regs, saved_regs>>
    PROVE  SavedRegs' /\ HeldRegs'
<1>1. /\ parent_id' = [parent_id EXCEPT ![current_pcb] = 0]
      /\ program_id' = [program_id EXCEPT ![current_pcb] = 0]
      /\ current_pcb' = parent_id[current_pcb]
      /\ \/ pc = "halt_base_destroy" /\ pc' = "relaunch"
         \/ pc = "halt_destroy" /\ pc' = "halt_reload"
  BY DEF HaltBaseDestroy, HaltNestedDestroy, pcb_destroy, ClearSlot
<1>2. /\ program_id \in [Slots -> Slots] /\ parent_id \in [Slots -> Slots]
      /\ current_pcb \in Slots /\ Live \subseteq Slots
  BY SlotsFacts DEF RInv, IInv, TypeOK
<1>3. \A p \in Live' : p \in Live /\ p # current_pcb /\ parent_id'[p] = parent_id[p]
  BY <1>1, <1>2, SlotsFacts, Zenon DEF Live
<1> QED
  BY <1>1, <1>2, <1>3, Zenon DEF RInv, SavedRegs, HeldRegs, Settled

\* A step that changes neither the registers nor which process is current
\* keeps the invariant if the control points it joins agree.
LEMMA SameProcess ==
    ASSUME RInv, UNCHANGED <<regs, saved_regs, program_id, parent_id, current_pcb>>,
           \/ pc' \notin Settled \cup {"execute", "halt_reload", "halt_close", "halt_destroy"}
           \/ pc' = pc
           \/ pc \in Settled \cup {"execute", "halt_reload"} /\ pc' \in Settled \cup {"execute"}
           \/ pc = "halt_close" /\ pc' = "halt_destroy"
           \/ current_pcb = 0 /\ pc' \in Settled \cup {"execute"}
    PROVE  SavedRegs' /\ HeldRegs'
<1>1. Live' = Live
  BY DEF Live
<1>2. SavedRegs'
  BY <1>1 DEF RInv, SavedRegs
<1>3. HeldRegs'
  BY DEF RInv, HeldRegs, Settled
<1> QED
  BY <1>2, <1>3

\* No terminal switch happens.
LEMMA SwitchesOut ==
    ASSUME NoSwitch, IInv, KeyboardStep
    PROVE  CtrlC
<1>1. ASSUME NEW t \in Terminals, t # curr_terminal, KeyboardAt(SwitchPoints)
      PROVE  FALSE
  <2>1. SwitchPoints # {}
    BY <1>1 DEF KeyboardAt
  <2>2. MAX_TERMINALS = 1 /\ curr_terminal \in Terminals
    BY <2>1, Current DEF NoSwitch
  <2> QED
    BY <1>1, <2>2 DEF Terminals
<1> QED
  BY <1>1 DEF KeyboardStep, SwitchLive, SwitchEmpty, SwitchEmptyLimit

\* The steps without a change of registers.
LEMMA OthersKeep ==
    ASSUME NoSwitch, RInv, KeepRegisters
    PROVE  SavedRegs' /\ HeldRegs'
<1>0. UNCHANGED <<regs, saved_regs>>
  BY DEF KeepRegisters
<1>1. CASE HaltBaseDestroy \/ HaltNestedDestroy
  BY <1>0, <1>1, DestroyKeeps, Zenon
<1>2. CASE BootShell
  <2>1. current_pcb = 0
    BY <1>2, Current DEF RInv, IInv, InExecute, BootShell
  <2> QED
    BY <1>0, <1>2, <2>1, SameProcess, Zenon DEF BootShell, pcbVars, termVars
<1>3. CASE ExecuteLimit \/ ExecuteFails
  <2>1. UNCHANGED <<program_id, parent_id, current_pcb>> /\ pc' = ret
    BY <1>3, Current, Zenon DEF RInv, ExecuteLimit, ExecuteFails, pcbVars, termVars
  <2>2. pc = "execute" \/ (pc = "relaunch" /\ current_pcb = 0)
    BY <1>3 DEF RInv, IInv, InExecute, ExecuteLimit, ExecuteFails
  <2>3. ret \in {"user", "idle", "halt_nested"}
    BY DEF RInv, IInv, TypeOK
  <2> QED
    BY <1>0, <2>1, <2>2, <2>3, SameProcess, Zenon DEF Settled
<1>4. CASE HaltTest \/ HaltReload
  <2>1. /\ UNCHANGED <<program_id, parent_id, current_pcb>>
        /\ \/ pc' \in {"halt_base", "halt_nested", "crashed"}
           \/ pc = "halt_reload" /\ pc' = "user"
    BY <1>4 DEF HaltTest, HaltReload, pcbVars, termVars
  <2> QED
    BY <1>0, <2>1, SameProcess, Zenon DEF Settled
<1>5. CASE \/ HaltClose("halt_base", "halt_base_destroy")
           \/ HaltClose("halt_close", "halt_destroy")
  <2>1. /\ UNCHANGED <<program_id, parent_id, current_pcb>>
        /\ pc' = "halt_base_destroy" \/ (pc = "halt_close" /\ pc' = "halt_destroy")
    BY <1>5 DEF HaltClose, termVars
  <2> QED
    BY <1>0, <2>1, SameProcess, Zenon DEF Settled
<1>6. CASE UserStep
  <2>1. UNCHANGED <<program_id, parent_id, current_pcb>>
    BY <1>6, Zenon DEF UserStep, ExecuteSyscall, HaltSyscall, OpenSyscall, CloseSyscall, Block,
                Unblock, UserException, pcbVars, termVars
  <2>2. /\ pc \in Settled
        /\ pc' \in Settled \cup {"execute", "halt"}
    BY <1>6 DEF UserStep, ExecuteSyscall, HaltSyscall, OpenSyscall, CloseSyscall, Block,
                Unblock, UserException, cpuVars, Settled
  <2> QED
    BY <1>0, <2>1, <2>2, SameProcess, Zenon DEF Settled
<1>7. CASE KeyboardStep
  <2>1. UNCHANGED <<program_id, parent_id, current_pcb>> /\ pc' = "halt"
    BY <1>7, SwitchesOut, Zenon DEF RInv, CtrlC, pcbVars, termVars
  <2> QED
    BY <1>0, <2>1, SameProcess, Zenon DEF Settled
<1>8. CASE Reset
  BY <1>0, <1>8, SameProcess, Zenon DEF Reset, vars, pcbVars, termVars, cpuVars
<1> QED
  BY <1>1, <1>2, <1>3, <1>4, <1>5, <1>6, <1>7, <1>8, Zenon DEF KeepRegisters

\* Every step keeps the registers where they belong.
LEMMA NextRInv ==
    ASSUME NoSwitch, RInv, [UNext]_uvars
    PROVE  RInv'
<1>1. IInv'
  BY ContextSteps, NextIInv, Zenon DEF RInv, NoSwitch
<1>2. ASSUME UNCHANGED uvars PROVE SavedRegs' /\ HeldRegs'
  BY <1>2, SameProcess DEF uvars, vars, pcbVars, termVars, cpuVars
<1> QED
  BY <1>1, <1>2, EntryKeeps, AdoptKeeps, OthersKeep, Zenon DEF UNext, RInv

\* With one terminal, or without ALT+Fn, user code runs with the registers of
\* current_pcb, however deep execute() nests and wherever CTRL+C strikes
\* halt(), execute() or another call.
THEOREM RegistersKept ==
    ASSUME NoSwitch
    PROVE  USpec => []RegistersOfCurrent
<1>1. UInit => RInv
  BY InitRInv
<1>2. RInv /\ [UNext]_uvars => RInv'
  BY NextRInv
<1>3. RInv => RegistersOfCurrent
  BY DEF RInv, HeldRegs, RegistersOfCurrent
<1> QED
  BY <1>1, <1>2, <1>3, PTL DEF USpec

-----------------------------------------------------------------------------
(***************************************************************************)
(* The stacks.  The chain of parents that the invariant knows of is the    *)
(* lineage that the stack of a terminal names; execute() lengthens and     *)
(* pcb_destroy shortens it by one process.                                 *)
(***************************************************************************)

\* The parents lead down from the top process along one way only.
LEMMA OneLineage ==
    ASSUME NEW n \in Nat, NEW par, NEW top,
           NEW v \in [1..n -> Procs], IsLineage(par, top, n, v),
           NEW w \in [1..n -> Procs], IsLineage(par, top, n, w)
    PROVE  v = w
<1> DEFINE S == {k \in 0..(n - 1) : v[n - k] # w[n - k]}
<1>1. CASE S # {}
  <2>1. PICK k \in S : \A m \in S : k <= m
    <3>1. S \subseteq Nat
      OBVIOUS
    <3> QED
      BY <1>1, <3>1, LeastElement, Zenon
  <2>2. k \in 0..(n - 1) /\ v[n - k] # w[n - k]
    BY <2>1
  <2>3. k # 0
    <3>1. ASSUME k = 0 PROVE FALSE
      <4>1. n # 0 /\ v[n] = top /\ w[n] = top /\ n - k = n
        BY <2>2, <3>1 DEF IsLineage
      <4> QED
        BY <2>2, <4>1
    <3> QED
      BY <3>1
  <2>4. k - 1 \in 0..(n - 1) /\ ~(k <= k - 1)
    BY <2>2, <2>3
  <2>5. v[n - (k - 1)] = w[n - (k - 1)]
    BY <2>1, <2>4
  <2>6. PICK i : i = n - (k - 1)
    OBVIOUS
  <2>7. i \in 1..n /\ i # 1 /\ i - 1 = n - k
    BY <2>2, <2>3, <2>6
  <2>8. par[v[i]] = v[i - 1] /\ par[w[i]] = w[i - 1]
    BY <2>7 DEF IsLineage
  <2> QED
    BY <2>2, <2>5, <2>6, <2>7, <2>8, Zenon
<1>2. CASE S = {}
  <2>1. ASSUME NEW i \in 1..n PROVE v[i] = w[i]
    <3>1. n - i \in 0..(n - 1) /\ n - (n - i) = i
      OBVIOUS
    <3> QED
      BY <1>2, <3>1, Zenon
  <2> QED
    BY <2>1
<1> QED
  BY <1>1, <1>2, Zenon

\* Lineage finds it.
LEMMA LineageFound ==
    ASSUME NEW n \in Nat, NEW par, NEW top,
           NEW w \in [1..n -> Procs], IsLineage(par, top, n, w)
    PROVE  Lineage(par, top, n) = w /\ Len(w) = n
<1>1. \E v \in [1..n -> Procs] : IsLineage(par, top, n, v)
  OBVIOUS
<1>2. \A v \in [1..n -> Procs] : IsLineage(par, top, n, v) => v = w
  BY OneLineage
<1>3. Lineage(par, top, n) = w
  BY <1>1, <1>2, Zenon DEF Lineage
<1>4. w \in Seq(Procs) /\ DOMAIN w = 1..n
  BY IsASeq
<1> QED
  BY <1>3, <1>4, LenProperties

\* num_process stays below the width of its word.
LEMMA IncBelow ==
    ASSUME NEW n \in Nat, n <= MAX_PROCESSES - 1
    PROVE  Inc(n) = n + 1
  BY ConstantsAssumption DEF Inc

\* The positions of a lineage and of the one that is longer by one.
LEMMA Longer ==
    ASSUME NEW n \in Nat, NEW m, m = n + 1
    PROVE  /\ m \in Nat /\ m # 0 /\ m \in 1..m /\ m - 1 = n /\ (m = 1 <=> n = 0)
           /\ n # 0 => n \in 1..n
           /\ \A i \in 1..m : i = m \/ i \in 1..n
           /\ \A i \in 1..n : i # m /\ i \in 1..m /\ (i # 1 => i - 1 \in 1..n)
  OBVIOUS

\* The programs named by a lineage.
NamesOf(names, w, n) == [i \in 1..n |-> names[w[i]]]

\* The processes of a terminal from the base shell up.
Line(t) == Lineage(parent_id, top_process_id[t], num_process[t])

\* The chain of a terminal is its lineage.
LEMMA LineFacts ==
    ASSUME TypeOK, Table, TerminalChains, NEW t \in Terminals
    PROVE  /\ Line(t) \in [1..num_process[t] -> LiveOn(t)] /\ ChainOf(t, Line(t))
           /\ num_process[t] \in Nat /\ LiveOn(t) \subseteq Live
           /\ StackOf(t) = NamesOf(cmd_name, Line(t), num_process[t])
<1>1. PICK f \in [1..num_process[t] -> LiveOn(t)] : ChainOf(t, f)
  BY DEF TerminalChains
<1>2. LiveOn(t) \subseteq Live /\ LiveOn(t) \subseteq Procs
  BY SlotsFacts, Zenon DEF LiveOn
<1>3. num_process[t] \in Nat /\ f \in [1..num_process[t] -> Procs]
  BY <1>1, <1>2, ChainFacts, Zenon
<1>4. IsLineage(parent_id, top_process_id[t], num_process[t], f)
  BY <1>1, Zenon DEF ChainOf, IsLineage
<1>5. Line(t) = f /\ Len(f) = num_process[t]
  BY <1>3, <1>4, LineageFound, Zenon DEF Line
<1>6. StackOf(t) = NamesOf(cmd_name, f, num_process[t])
  BY <1>5, Zenon DEF StackOf, NamesOf, Line
<1> QED
  BY <1>1, <1>2, <1>3, <1>5, <1>6, Zenon

\* The stack after a step, from the lineage after it.
LEMMA StackAfter ==
    ASSUME NEW t \in Terminals, NEW n \in Nat, NEW w \in [1..n -> Procs],
           num_process'[t] = n, IsLineage(parent_id', top_process_id'[t], n, w)
    PROVE  StackOf(t)' = NamesOf(cmd_name', w, n)
<1>1. Lineage(parent_id', top_process_id'[t], n) = w /\ Len(w) = n
  BY LineageFound, Zenon
<1> QED
  BY <1>1, Zenon DEF StackOf, NamesOf

\* A step that leaves the processes of a terminal alone keeps its stack.
LEMMA StackUnchanged ==
    ASSUME TypeOK, Table, TerminalChains, NEW t \in Terminals,
           \A p \in LiveOn(t) : parent_id'[p] = parent_id[p] /\ cmd_name'[p] = cmd_name[p],
           num_process'[t] = num_process[t],
           top_process_id'[t] = top_process_id[t]
    PROVE  StackOf(t)' = StackOf(t)
<1> DEFINE w == Line(t)
           n == num_process[t]
<1>1. /\ w \in [1..n -> LiveOn(t)] /\ ChainOf(t, w)
      /\ n \in Nat /\ LiveOn(t) \subseteq Live /\ StackOf(t) = NamesOf(cmd_name, w, n)
  BY LineFacts
<1>2. w \in [1..n -> Procs]
  BY <1>1, SlotsFacts, Zenon
<1>3. \A i \in 1..n : parent_id'[w[i]] = parent_id[w[i]] /\ cmd_name'[w[i]] = cmd_name[w[i]]
  BY <1>1, Zenon
<1>4. IsLineage(parent_id', top_process_id'[t], n, w)
  BY <1>1, <1>3, Zenon DEF IsLineage, ChainOf
<1> HIDE DEF w, n
<1>5. StackOf(t)' = NamesOf(cmd_name', w, n)
  BY <1>1, <1>2, <1>4, StackAfter, Zenon DEF n
<1> QED
  BY <1>1, <1>3, <1>5, Zenon DEF NamesOf

\* What Append does to n elements.
LEMMA Appended ==
    ASSUME NEW n \in Nat, NEW s, s = [i \in 1..n |-> s[i]], NEW c, NEW m, m = n + 1
    PROVE  Append(s, c) = [i \in 1..m |-> IF i = m THEN c ELSE s[i]]
<1> DEFINE S == {s[i] : i \in 1..n} \cup {c}
           q == Append(s, c)
<1>1. c \in S /\ \A i \in 1..n : s[i] \in S
  OBVIOUS
<1>2. s \in Seq(S) /\ Len(s) = n
  <2> HIDE DEF S
  <2>1. s \in Seq(S) /\ DOMAIN s = 1..n
    BY <1>1
  <2> QED
    BY <2>1, LenProperties
<1>3. /\ q \in Seq(S) /\ Len(q) = m /\ q[m] = c
      /\ \A i \in 1..n : q[i] = s[i]
  <2> HIDE DEF S
  <2> QED
    BY <1>1, <1>2, AppendProperties
<1> HIDE DEF S, q
<1>4. q = [i \in 1..m |-> q[i]]
  BY <1>3, LenProperties, Zenon
<1>5. \A i \in 1..m : i = m \/ (i \in 1..n /\ i # m)
  OBVIOUS
<1>6. \A i \in 1..m : q[i] = IF i = m THEN c ELSE s[i]
  BY <1>3, <1>5, Zenon
<1> QED
  BY <1>4, <1>6, Zenon DEF q

\* execute() appends the program it starts to the stack on the screen.
LEMMA StackPushed ==
    ASSUME TypeOK, Table, TerminalChains, NEW new \in Procs \ Live, Pushed(new),
           NEW c, cmd_name' = [cmd_name EXCEPT ![new] = c]
    PROVE  /\ StackOf(curr_terminal)' = Append(StackOf(curr_terminal), c)
           /\ \A t \in Terminals \ {curr_terminal} : StackOf(t)' = StackOf(t)
<1>1. /\ new \in Slots /\ curr_terminal' = curr_terminal /\ curr_terminal \in Terminals
      /\ \A p \in Live : parent_id'[p] = parent_id[p] /\ cmd_name'[p] = cmd_name[p]
      /\ cmd_name'[new] = c
  BY SlotsFacts, Zenon DEF Pushed, TypeOK
<1>2. ASSUME NEW t \in Terminals \ {curr_terminal} PROVE StackOf(t)' = StackOf(t)
  <2>1. num_process'[t] = num_process[t] /\ top_process_id'[t] = top_process_id[t]
    BY Zenon DEF Pushed, TypeOK
  <2> QED
    BY <1>1, <2>1, LineFacts, StackUnchanged, Zenon
<1>3. ASSUME NEW t \in Terminals, t = curr_terminal
      PROVE  StackOf(t)' = Append(StackOf(t), c)
  <2>1. PICK n, w : n = num_process[t] /\ w = Line(t)
    OBVIOUS
  <2>2. /\ w \in [1..n -> LiveOn(t)] /\ ChainOf(t, w)
        /\ n \in Nat /\ LiveOn(t) \subseteq Live /\ StackOf(t) = NamesOf(cmd_name, w, n)
    BY <2>1, LineFacts, Zenon
  <2>3. n <= MAX_PROCESSES - 1
    BY <2>1, ChainFacts, Zenon
  <2>4. num_process'[t] = n + 1 /\ top_process_id'[t] = new
    <3>1. num_process'[t] = Inc(num_process[t]) /\ top_process_id'[t] = new
      BY <1>3, Zenon DEF Pushed, TypeOK
    <3> QED
      BY <2>1, <2>2, <2>3, <3>1, IncBelow, Zenon
  <2>5. parent_id'[new] = IF n = 0 THEN 0 ELSE w[n]
    <3>1. parent_id'[new] = program_id[current_pcb]
      BY <1>1, Zenon DEF Pushed, TypeOK
    <3>2. program_id[current_pcb] = current_pcb /\ current_pcb = top_process_id[t]
      BY <1>3, CurrentLive, Zenon DEF Table
    <3> QED
      BY <3>1, <3>2, <2>1, <2>2, Zenon DEF ChainOf
  <2>6. PICK m : m = n + 1
    OBVIOUS
  <2>v. PICK v : v = [i \in 1..m |-> IF i = m THEN new ELSE w[i]]
    BY Zenon
  <2>m. /\ m \in Nat /\ m # 0 /\ m \in 1..m /\ m - 1 = n /\ (m = 1 <=> n = 0)
        /\ n # 0 => n \in 1..n
        /\ \A i \in 1..m : i = m \/ i \in 1..n
        /\ \A i \in 1..n : i # m /\ i \in 1..m /\ (i # 1 => i - 1 \in 1..n)
    BY <2>2, <2>6, Longer, Zenon
  <2>w. \A i \in 1..n : w[i] \in Live /\ w[i] \in Procs /\ i # m /\ i \in 1..m
    BY <2>2, <2>m, SlotsFacts, Zenon
  <2>7. /\ v \in [1..m -> Procs] /\ v[m] = new
        /\ \A i \in 1..n : v[i] = w[i] /\ w[i] \in Live
    BY <2>v, <2>m, <2>w, Zenon
  <2>8. ASSUME NEW i \in 1..m
        PROVE  parent_id'[v[i]] = IF i = 1 THEN 0 ELSE v[i - 1]
    <3>1. CASE i = m
      <4>1. CASE n = 0
        BY <2>5, <2>7, <2>m, <3>1, <4>1, Zenon
      <4>2. CASE n # 0
        <5>1. v[n] = w[n]
          BY <2>7, <2>m, <4>2, Zenon
        <5> QED
          BY <2>5, <2>7, <2>m, <3>1, <4>2, <5>1, Zenon
      <4> QED
        BY <4>1, <4>2, Zenon
    <3>2. CASE i # m
      <4>1. i \in 1..n /\ (i # 1 => i - 1 \in 1..n)
        BY <2>m, <3>2, Zenon
      <4>2. parent_id[w[i]] = IF i = 1 THEN 0 ELSE w[i - 1]
        BY <4>1, <2>1, <2>2, Zenon DEF ChainOf
      <4> QED
        BY <4>1, <4>2, <2>7, <1>1, Zenon
    <3> QED
      BY <3>1, <3>2, Zenon
  <2>9. IsLineage(parent_id', top_process_id'[t], m, v)
    BY <2>4, <2>7, <2>8, <2>m, Zenon DEF IsLineage
  <2>10. StackOf(t)' = NamesOf(cmd_name', v, m)
    BY <2>4, <2>6, <2>7, <2>9, <2>m, StackAfter, Zenon
  <2>11. Append(StackOf(t), c) = [i \in 1..m |-> IF i = m THEN c ELSE StackOf(t)[i]]
    BY <2>2, <2>6, Appended DEF NamesOf
  <2>12. \A i \in 1..n : StackOf(t)[i] = cmd_name[w[i]]
    BY <2>2, Zenon DEF NamesOf
  <2>13. \A i \in 1..m : cmd_name'[v[i]] = IF i = m THEN c ELSE StackOf(t)[i]
    <3> SUFFICES ASSUME NEW i \in 1..m
                 PROVE  cmd_name'[v[i]] = IF i = m THEN c ELSE StackOf(t)[i]
      BY Zenon
    <3>1. CASE i = m
      BY <1>1, <2>7, <3>1, Zenon
    <3>2. CASE i # m
      <4>1. i \in 1..n /\ v[i] = w[i] /\ w[i] \in Live
        BY <2>7, <2>m, <3>2, Zenon
      <4> QED
        BY <1>1, <2>12, <3>2, <4>1, Zenon
    <3> QED
      BY <3>1, <3>2, Zenon
  <2> QED
    BY <2>10, <2>11, <2>13, Zenon DEF NamesOf
<1> QED
  BY <1>1, <1>2, <1>3, Zenon

\* The first m elements of a sequence.
LEMMA FrontOf ==
    ASSUME NEW m \in Nat, NEW s
    PROVE  SubSeq(s, 1, m) = [i \in 1..m |-> s[i]]
<1> DEFINE S == {s[i] : i \in 1..m}
           q == SubSeq(s, 1, m)
<1>1. m \in Int /\ 1 \in Int /\ \A i \in 1..m : s[i] \in S
  OBVIOUS
<1>2. /\ q \in Seq(S) /\ Len(q) = IF 1 <= m THEN m - 1 + 1 ELSE 0
      /\ \A i \in 1..(m - 1 + 1) : q[i] = s[1 + i - 1]
  <2> HIDE DEF S
  <2> QED
    BY <1>1, SubSeqProperties
<1> HIDE DEF S, q
<1>3. Len(q) = m /\ m - 1 + 1 = m /\ \A i \in 1..m : 1 + i - 1 = i
  BY <1>2
<1>4. \A i \in 1..m : q[i] = s[i]
  BY <1>2, <1>3
<1>5. q = [i \in 1..m |-> q[i]]
  BY <1>2, <1>3, LenProperties, Zenon
<1> QED
  BY <1>4, <1>5, Zenon DEF q

\* pcb_destroy uncovers the program below the one that ends.
LEMMA StackPopped ==
    ASSUME TypeOK, Table, TerminalChains, current_pcb # 0, pcb_destroy(current_pcb)
    PROVE  /\ StackOf(curr_terminal) # <<>>
           /\ StackOf(curr_terminal)' =
                SubSeq(StackOf(curr_terminal), 1, Len(StackOf(curr_terminal)) - 1)
           /\ \A t \in Terminals \ {curr_terminal} : StackOf(t)' = StackOf(t)
<1>1. PICK c : c = current_pcb
  OBVIOUS
<1>2. /\ c \in Live /\ c \in Slots /\ c \in LiveOn(curr_terminal)
      /\ c = top_process_id[curr_terminal] /\ c # 0
      /\ curr_terminal' = curr_terminal /\ curr_terminal \in Terminals
  BY <1>1, PopLive, SlotsFacts, Zenon DEF LiveOn, Table, TypeOK, pcb_destroy, ClearSlot
<1>3. \A p \in Live : /\ p # c => parent_id'[p] = parent_id[p]
                      /\ cmd_name'[p] = cmd_name[p]
  BY <1>1, <1>2, SlotsFacts, Zenon DEF pcb_destroy, ClearSlot, TypeOK
<1>4. ASSUME NEW t \in Terminals \ {curr_terminal} PROVE StackOf(t)' = StackOf(t)
  <2>1. num_process'[t] = num_process[t] /\ top_process_id'[t] = top_process_id[t]
    BY DEF pcb_destroy, ClearSlot, TypeOK
  <2>2. c \notin LiveOn(t) /\ LiveOn(t) \subseteq Live
    BY <1>2, Zenon DEF LiveOn
  <2> QED
    BY <1>3, <2>1, <2>2, StackUnchanged, Zenon
<1>5. ASSUME NEW t \in Terminals, t = curr_terminal
      PROVE  StackOf(t) # <<>> /\ StackOf(t)' = SubSeq(StackOf(t), 1, Len(StackOf(t)) - 1)
  <2>1. PICK n, w : n = num_process[t] /\ w = Line(t)
    OBVIOUS
  <2>2. /\ w \in [1..n -> LiveOn(t)] /\ ChainOf(t, w)
        /\ n \in Nat /\ LiveOn(t) \subseteq Live /\ StackOf(t) = NamesOf(cmd_name, w, n)
    BY <2>1, LineFacts, Zenon
  <2>3. /\ n # 0 /\ n \in 1..n /\ w[n] = c
        /\ \A i \in 1..n : parent_id[w[i]] = IF i = 1 THEN 0 ELSE w[i - 1]
        /\ \A i, j \in 1..n : w[i] = w[j] => i = j
    <3>1. /\ \A i \in 1..n : parent_id[w[i]] = IF i = 1 THEN 0 ELSE w[i - 1]
          /\ \A i, j \in 1..n : w[i] = w[j] => i = j
          /\ c = IF n = 0 THEN 0 ELSE w[n]
      BY <1>2, <1>5, <2>1, <2>2, Zenon DEF ChainOf
    <3>2. n # 0 /\ w[n] = c
      BY <1>2, <3>1, Zenon
    <3>3. n \in 1..n
      BY <2>2, <3>2, Longer, Zenon
    <3> QED
      BY <3>1, <3>2, <3>3, Zenon
  <2>4. num_process'[t] = n - 1 /\ top_process_id'[t] = parent_id[c]
    BY <1>1, <1>5, <2>1, <2>2, <2>3, Zenon DEF pcb_destroy, ClearSlot, TypeOK, Dec
  <2>5. PICK v, m : m = n - 1 /\ v = [i \in 1..m |-> w[i]]
    BY Zenon
  <2>6. /\ m \in Nat /\ n - 1 = m /\ (n = 1 <=> m = 0) /\ (m # 0 => m \in 1..m)
        /\ \A i \in 1..m : i \in 1..n /\ i # n /\ (i # 1 => i - 1 \in 1..m)
    <3>1. m \in Nat /\ n = m + 1
      BY <2>2, <2>3, <2>5
    <3> QED
      BY <3>1, Longer, Zenon
  <2>7. v \in [1..m -> Procs] /\ \A i \in 1..m : v[i] = w[i] /\ w[i] # c /\ w[i] \in Live
    BY <2>2, <2>3, <2>5, <2>6, SlotsFacts, Zenon
  <2>8. \A i \in 1..m : parent_id'[v[i]] = IF i = 1 THEN 0 ELSE v[i - 1]
    <3> SUFFICES ASSUME NEW i \in 1..m
                 PROVE  parent_id'[v[i]] = IF i = 1 THEN 0 ELSE v[i - 1]
      BY Zenon
    <3>1. v[i] = w[i] /\ parent_id'[w[i]] = parent_id[w[i]]
      BY <1>3, <2>7, Zenon
    <3>2. parent_id[w[i]] = IF i = 1 THEN 0 ELSE w[i - 1]
      BY <2>3, <2>6, Zenon
    <3>3. i # 1 => v[i - 1] = w[i - 1]
      BY <2>6, <2>7, Zenon
    <3> QED
      BY <3>1, <3>2, <3>3, Zenon
  <2>9. top_process_id'[t] = IF m = 0 THEN 0 ELSE v[m]
    <3>1. parent_id[c] = IF n = 1 THEN 0 ELSE w[n - 1]
      BY <2>3, Zenon
    <3>2. m # 0 => v[m] = w[m]
      BY <2>6, <2>7, Zenon
    <3> QED
      BY <2>4, <2>6, <3>1, <3>2, Zenon
  <2>10. IsLineage(parent_id', top_process_id'[t], m, v)
    BY <2>8, <2>9 DEF IsLineage
  <2>11. StackOf(t)' = NamesOf(cmd_name', v, m)
    BY <2>4, <2>5, <2>6, <2>7, <2>10, StackAfter, Zenon
  <2>12. PICK s : s = NamesOf(cmd_name, w, n)
    OBVIOUS
  <2>13. s # <<>> /\ Len(s) = n /\ \A i \in 1..n : s[i] = cmd_name[w[i]]
    <3>1. s \in Seq({cmd_name[w[i]] : i \in 1..n}) /\ DOMAIN s = 1..n
      BY <2>2, <2>12 DEF NamesOf
    <3>2. Len(s) = n
      BY <2>2, <3>1, LenProperties
    <3> QED
      BY <2>2, <2>3, <2>12, <3>1, <3>2, Zenon DEF NamesOf
  <2>14. SubSeq(s, 1, Len(s) - 1) = [i \in 1..m |-> s[i]]
    <3>1. SubSeq(s, 1, m) = [i \in 1..m |-> s[i]]
      BY <2>6, FrontOf, Zenon
    <3> QED
      BY <3>1, <2>5, <2>13, Zenon
  <2>15. \A i \in 1..m : cmd_name'[v[i]] = s[i]
    <3> SUFFICES ASSUME NEW i \in 1..m PROVE cmd_name'[v[i]] = s[i]
      BY Zenon
    <3>1. i \in 1..n /\ v[i] = w[i] /\ w[i] \in Live
      BY <2>6, <2>7, Zenon
    <3> QED
      BY <1>3, <2>13, <3>1, Zenon
  <2>16. StackOf(t)' = [i \in 1..m |-> s[i]]
    BY <2>11, <2>15, Zenon DEF NamesOf
  <2>17. StackOf(t) = s
    BY <2>2, <2>12, Zenon
  <2> QED
    BY <2>13, <2>14, <2>16, <2>17, Zenon
<1> QED
  BY <1>2, <1>4, <1>5, Zenon

\* The stacks are as long as num_process says.
LEMMA StackLength ==
    ASSUME TypeOK, Table, TerminalChains, NEW t \in Terminals
    PROVE  Len(StackOf(t)) = num_process[t]
<1>1. num_process[t] \in Nat /\ StackOf(t) = NamesOf(cmd_name, Line(t), num_process[t])
  BY LineFacts
<1>2. PICK s, n : s = StackOf(t) /\ n = num_process[t]
  OBVIOUS
<1>3. s \in Seq({s[i] : i \in 1..n}) /\ DOMAIN s = 1..n
  BY <1>1, <1>2 DEF NamesOf
<1> QED
  BY <1>1, <1>2, <1>3, LenProperties

\* A process has one place in its terminal's line.
LEMMA LineOnce ==
    ASSUME TypeOK, Table, TerminalChains, NEW t \in Terminals,
           NEW i \in 1..num_process[t], NEW j \in 1..num_process[t], Line(t)[i] = Line(t)[j]
    PROVE  i = j
<1>1. ChainOf(t, Line(t))
  BY LineFacts, Zenon
<1>2. \A k, l \in 1..num_process[t] : Line(t)[k] = Line(t)[l] => k = l
  BY <1>1, Zenon DEF ChainOf
<1> QED
  BY <1>2, Zenon

\* All stacks together hold at most as many programs as there are processes.
LEMMA RunningLive ==
    ASSUME TypeOK, Table, TerminalChains
    PROVE  IsFiniteSet(Stacks!Running) /\ Cardinality(Stacks!Running) <= Cardinality(Live)
<1> DEFINE R == Stacks!Running
           h == [r \in R |-> Line(r[1])[r[2]]]
<1>1. ASSUME NEW r \in R
      PROVE  \E t \in Terminals : \E i \in 1..num_process[t] : r = <<t, i>>
  <2>1. PICK t \in Terminals : r \in {<<t, i>> : i \in 1..Len(StackOf(t))}
    BY Zenon DEF Stacks!Running
  <2> QED
    BY <2>1, StackLength, Zenon
<1>2. ASSUME NEW r \in R
      PROVE  h[r] \in LiveOn(r[1]) /\ h[r] \in Live /\ process_terminal[h[r]] = r[1]
  <2>0. PICK t \in Terminals : \E i \in 1..num_process[t] : r = <<t, i>>
    BY <1>1
  <2>1. PICK i \in 1..num_process[t] : r = <<t, i>>
    BY <2>0
  <2>2. Line(t)[i] \in LiveOn(t)
    BY <2>1, LineFacts, Zenon
  <2>3. h[r] = Line(t)[i] /\ r[1] = t
    BY <2>1, Zenon
  <2> QED
    BY <2>2, <2>3, Zenon DEF LiveOn
<1>3. ASSUME NEW r \in R, NEW q \in R, h[r] = h[q]
      PROVE  r = q
  <2>0. PICK t \in Terminals : \E i \in 1..num_process[t] : r = <<t, i>>
    BY <1>1, Zenon
  <2>1. PICK i \in 1..num_process[t] : r = <<t, i>>
    BY <2>0, Zenon
  <2>u. PICK u \in Terminals : \E j \in 1..num_process[u] : q = <<u, j>>
    BY <1>1, Zenon
  <2>2. PICK j \in 1..num_process[u] : q = <<u, j>>
    BY <2>u, Zenon
  <2>3. t = u
    BY <1>2, <1>3, <2>1, <2>2, Zenon
  <2>4. Line(t)[i] = Line(t)[j]
    BY <1>3, <2>1, <2>2, <2>3, Zenon
  <2>5. i = j
    BY <2>1, <2>2, <2>3, <2>4, LineOnce, Zenon
  <2> QED
    BY <2>1, <2>2, <2>3, <2>5, Zenon
<1> HIDE DEF R
<1>4. h \in [R -> Live]
  BY <1>2
<1> HIDE DEF h
<1>5. h \in Injection(R, Live)
  BY <1>3, <1>4, Zenon DEF Injection, IsInjective
<1> QED
  BY <1>5, SlotsFacts, FS_Injection, Zenon DEF R

stackVars == <<parent_id, top_process_id, num_process, cmd_name>>

\* What a step that leaves the stacks alone does to them: at most, it changes
\* which one is on the screen.
LEMMA StacksKept ==
    ASSUME IInv, curr_terminal' \in Terminals,
           \A t \in Terminals : StackOf(t)' = StackOf(t)
    PROVE  [Stacks!Next]_(Stacks!svars)
BY Zenon DEF Stacks!Next, Stacks!Show, Stacks!svars

\* A step that leaves the process table alone leaves every terminal's stack alone.
LEMMA StackVarsKept ==
    ASSUME IInv, curr_terminal' \in Terminals, UNCHANGED stackVars
    PROVE  [Stacks!Next]_(Stacks!svars)
BY StacksKept DEF StackOf, stackVars

\* A started program.
LEMMA RunsPush ==
    ASSUME IInv, ExecuteRuns
    PROVE  \E c \in Programs : Stacks!Start(c)
<1>1. TypeOK /\ Table /\ TerminalChains
  BY DEF IInv
<1>2. PICK new : new = find_free_pcb
  BY Zenon
<1>3. ~ProcessLimit /\ cmd \in Programs /\ Pushed(new)
      /\ cmd_name' = [cmd_name EXCEPT ![new] = cmd]
  BY <1>2 DEF ExecuteRuns, Pushed
<1>4. new \in Procs \ Live /\ process_number < MAX_PROCESSES - 1
  BY <1>1, <1>2, <1>3, FreeSlot, Zenon
<1>5. /\ StackOf(curr_terminal)' = Append(StackOf(curr_terminal), cmd)
      /\ \A t \in Terminals \ {curr_terminal} : StackOf(t)' = StackOf(t)
  BY <1>1, <1>3, <1>4, StackPushed, Zenon
<1>6. Cardinality(Stacks!Running) < MAX_PROCESSES - 1
  <2>1. Cardinality(Stacks!Running) <= process_number /\ process_number \in Nat
    BY <1>1, <1>3, RunningLive, FreeSlot, Zenon DEF Table
  <2>2. Cardinality(Stacks!Running) \in Nat
    BY <1>1, RunningLive, FS_CardinalityType, Zenon
  <2> QED
    BY <1>4, <2>1, <2>2, ConstantsAssumption
<1>7. curr_terminal' = curr_terminal /\ curr_terminal \in Terminals
  BY <1>1, <1>3, Zenon DEF Pushed, TypeOK
<1>8. [t \in Terminals |-> StackOf(t)]' =
        [[t \in Terminals |-> StackOf(t)] EXCEPT ![curr_terminal] = Append(@, cmd)]
  BY <1>5, <1>7, Zenon
<1>9. Stacks!Cardinality(Stacks!Running) = Cardinality(Stacks!Running)
  BY DEF Stacks!Cardinality, Cardinality
<1> QED
  BY <1>3, <1>6, <1>7, <1>8, <1>9, Zenon DEF Stacks!Start

\* A terminal whose base shell runs is in front with a process.
LEMMA BaseRuns ==
    ASSUME TypeOK, Table, TerminalChains, curr_terminal \in Terminals,
           num_process[curr_terminal] = 1
    PROVE  current_pcb # 0
<1>1. top_process_id[curr_terminal] # 0
  <2>1. num_process[curr_terminal] # 0
    OBVIOUS
  <2> QED
    BY <2>1, ChainFacts, Zenon
<1> QED
  BY <1>1, Zenon DEF Table

\* A program that ends.
LEMMA DestroyPops ==
    ASSUME IInv, HaltBaseDestroy \/ HaltNestedDestroy
    PROVE  Stacks!Exit
<1>1. TypeOK /\ Table /\ TerminalChains /\ InHalt
  BY DEF IInv
<1>2. pcb_destroy(current_pcb)
  BY DEF HaltBaseDestroy, HaltNestedDestroy
<1>3. current_pcb # 0
  <2>1. CASE HaltNestedDestroy
    BY <1>1, <2>1, Zenon DEF HaltNestedDestroy, InHalt
  <2>2. CASE HaltBaseDestroy
    <3>1. num_process[curr_terminal] = 1 /\ curr_terminal \in Terminals
      BY <1>1, <2>2, Zenon DEF HaltBaseDestroy, InHalt, TypeOK
    <3> QED
      BY <1>1, <3>1, BaseRuns, Zenon
  <2> QED
    BY <2>1, <2>2, Zenon
<1>4. /\ StackOf(curr_terminal) # <<>>
      /\ StackOf(curr_terminal)' =
           SubSeq(StackOf(curr_terminal), 1, Len(StackOf(curr_terminal)) - 1)
      /\ \A t \in Terminals \ {curr_terminal} : StackOf(t)' = StackOf(t)
  BY <1>1, <1>2, <1>3, StackPopped, Zenon
<1>5. curr_terminal' = curr_terminal /\ curr_terminal \in Terminals
  BY <1>1, <1>2, Zenon DEF pcb_destroy, ClearSlot, TypeOK
<1> QED
  BY <1>4, <1>5, Zenon DEF Stacks!Exit

\* An execute() of a bad command leaves the stacks as they were.
LEMMA FailsKeeps ==
    ASSUME IInv, ExecuteFails
    PROVE  [Stacks!Next]_(Stacks!svars)
<1>1. TypeOK /\ Table /\ TerminalChains
  BY DEF IInv
<1>2. PICK new : new = find_free_pcb
  OBVIOUS
<1>3. new \in Procs \ Live
  BY <1>1, <1>2, FreeSlot, Zenon DEF ExecuteFails
<1>4. /\ parent_id' = parent_id /\ num_process' = num_process
      /\ curr_terminal' = curr_terminal /\ curr_terminal \in Terminals
      /\ \A p \in Live : cmd_name'[p] = cmd_name[p]
  BY <1>1, <1>2, <1>3, SlotsFacts, Zenon DEF ExecuteFails, TypeOK
<1>5. top_process_id' = top_process_id
  <2>1. program_id[current_pcb] = top_process_id[curr_terminal]
    BY <1>1, <1>4, CurrentLive, Zenon DEF Table
  <2> QED
    BY <1>1, <2>1, Zenon DEF ExecuteFails, TypeOK
<1>6. ASSUME NEW t \in Terminals PROVE StackOf(t)' = StackOf(t)
  BY <1>1, <1>4, <1>5, StackUnchanged, Zenon DEF LiveOn
<1> QED
  BY <1>4, <1>6, StacksKept, Zenon

\* Every step of process control is a step of the stacks, or leaves them
\* alone.
LEMMA NextStacks ==
    ASSUME IInv, [Next]_vars
    PROVE  [Stacks!Next]_(Stacks!svars)
<1>0. curr_terminal \in Terminals
  BY DEF IInv, TypeOK
<1>1. CASE ExecuteRuns
  BY <1>1, RunsPush DEF Stacks!Next
<1>2. CASE HaltBaseDestroy \/ HaltNestedDestroy
  BY <1>2, DestroyPops DEF Stacks!Next
<1>3. CASE ExecuteFails
  BY <1>3, FailsKeeps, Zenon
<1>4. CASE BootShell \/ ExecuteLimit \/ HaltTest \/ HaltLoadFrame \/ HaltReload
  <2>1. UNCHANGED <<stackVars, curr_terminal>>
    BY <1>4, Zenon DEF BootShell, ExecuteLimit, HaltTest, HaltLoadFrame, HaltReload,
                pcbVars, termVars, stackVars
  <2> QED
    BY <1>0, <2>1, StackVarsKept, Zenon
<1>5. CASE \/ HaltClose("halt_base", "halt_base_destroy")
           \/ HaltClose("halt_close", "halt_destroy")
  <2>1. UNCHANGED <<stackVars, curr_terminal>>
    BY <1>5, Zenon DEF HaltClose, termVars, stackVars
  <2> QED
    BY <1>0, <2>1, StackVarsKept
<1>6. CASE UserStep
  <2>1. UNCHANGED <<stackVars, curr_terminal>>
    BY <1>6, Zenon DEF UserStep, ExecuteSyscall, HaltSyscall, OpenSyscall, CloseSyscall, Block,
                Unblock, UserException, pcbVars, termVars, stackVars
  <2> QED
    BY <1>0, <2>1, StackVarsKept
<1>7. CASE KeyboardStep
  <2>1. UNCHANGED stackVars /\ curr_terminal' \in Terminals
    BY <1>0, <1>7, Zenon DEF KeyboardStep, CtrlC, SwitchLive, SwitchEmpty, SwitchEmptyLimit,
                pcbVars, termVars, stackVars
  <2> QED
    BY <2>1, StackVarsKept, Zenon
<1>8. CASE UNCHANGED vars
  <2>1. UNCHANGED <<stackVars, curr_terminal>>
    BY <1>8, Zenon DEF vars, pcbVars, termVars, stackVars
  <2> QED
    BY <1>0, <2>1, StackVarsKept
<1> QED
  BY <1>1, <1>2, <1>3, <1>4, <1>5, <1>6, <1>7, <1>8, Zenon DEF Next, KernelStep, Reset

\* Before the first shell every stack is empty.
LEMMA InitStacks == Init => Stacks!Init
<1> SUFFICES ASSUME Init PROVE Stacks!Init
  OBVIOUS
<1>1. TypeOK /\ Table /\ TerminalChains
  BY InitIInv, Zenon DEF IInv
<1>2. ASSUME NEW t \in Terminals PROVE StackOf(t) = <<>>
  <2>1. num_process[t] = 0
    BY Zenon DEF Init
  <2>2. StackOf(t) = NamesOf(cmd_name, Line(t), 0)
    BY <1>1, <2>1, LineFacts, Zenon
  <2> QED
    BY <2>2 DEF NamesOf
<1>3. curr_terminal \in Terminals
  BY <1>1 DEF TypeOK
<1> QED
  BY <1>2, <1>3, Zenon DEF Stacks!Init

\* Process control implements the stacks of programs.
THEOREM StacksImplemented ==
    ASSUME SwitchPoints \subseteq SafeSwitchPoints
    PROVE  Spec => ImplementsStacks
<1>1. Init => Stacks!Init
  BY InitStacks
<1>2. IInv /\ [Next]_vars => [Stacks!Next]_(Stacks!svars)
  BY NextStacks
<1> QED
  BY <1>1, <1>2, Inductive, PTL DEF Spec, ImplementsStacks, Stacks!Spec
=============================================================================
