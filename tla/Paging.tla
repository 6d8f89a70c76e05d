------------------------------- MODULE Paging -------------------------------
(***************************************************************************)
(* The address spaces behind CR3 (paging.c): one page directory per slot,  *)
(* the table of the low 4MB they share, and the table that the vidmap      *)
(* system call puts into the directory of its caller.  Addresses and       *)
(* indices are those of the code; entries that are not present are left    *)
(* out of the functions that stand for directories and tables.             *)
(***************************************************************************)
EXTENDS UserContext, Integers

PAGE_SIZE_4KB == 4096
PAGE_SIZE_4MB == 1024 * PAGE_SIZE_4KB
ENTRIES == 1024
VIDEO_OFFSET == 0
KERNEL_OFFSET == 1
PROGRAM_OFFSET == 32
VIDMAP_OFFSET == 33
VIDEO_MEM == 184 * PAGE_SIZE_4KB                        \* 0xB8000
PAGE_VIRT_ADDR == 32 * PAGE_SIZE_4MB                    \* 0x8000000
VIDMAP == 33 * PAGE_SIZE_4MB + VIDEO_MEM                \* 0x84B8000
USER_PAGE_8MB == 2 * PAGE_SIZE_4MB

VARIABLES
    page_directories,    \* of the slots; the code's index is one less
    page_table_vidmap,
    mapped               \* history: slots that called vidmap since execute()

pageVars == <<page_directories, page_table_vidmap, mapped>>
pvars    == <<uvars, pageVars>>

(* Entries: a 4MB page with its physical base, or one of the two tables.   *)
BigPage(base)    == [table |-> "none", base |-> base]
TableEntry(name) == [table |-> name, base |-> 0]

(* page_table after paging_init: the low 4MB, mapped to themselves. *)
page_table == [j \in 0..(ENTRIES - 1) |-> j * PAGE_SIZE_4KB]

(* External: the walk the MMU makes for address va from directory d; -1 is *)
(* a page fault.                                                           *)
Translate(d, va) ==
    LET i == va \div PAGE_SIZE_4MB
        j == (va % PAGE_SIZE_4MB) \div PAGE_SIZE_4KB
        t == IF d[i].table = "page_table" THEN page_table ELSE page_table_vidmap
    IN  IF i \notin DOMAIN d THEN -1
        ELSE IF d[i].table = "none" THEN d[i].base + (va % PAGE_SIZE_4MB)
        ELSE IF j \notin DOMAIN t THEN -1
        ELSE t[j] + (va % PAGE_SIZE_4KB)

(* paging_init's directory, which is that of slot 1 as well. *)
BootDirectory ==
    [i \in {VIDEO_OFFSET, KERNEL_OFFSET} |->
        IF i = VIDEO_OFFSET THEN TableEntry("page_table") ELSE BigPage(PAGE_SIZE_4MB)]

paging_init ==
    /\ page_directories = [p \in Procs |-> IF p = 1 THEN BootDirectory ELSE <<>>]
    /\ page_table_vidmap = <<>>
    /\ mapped = {}

(* new_task_pd, with program_id already reduced by one: a directory of its *)
(* own with the program's page, and nothing left of the slot's last        *)
(* process.  Its test refuses nothing: MAX_TASKS is MAX_PROCESSES - 1.     *)
(* The variant clears no entry.                                            *)
ProgramPage(id) == BigPage(USER_PAGE_8MB + id * PAGE_SIZE_4MB)

TaskDirectory(id) ==
    [i \in {VIDEO_OFFSET, KERNEL_OFFSET, PROGRAM_OFFSET} |->
        IF i = PROGRAM_OFFSET THEN ProgramPage(id) ELSE BootDirectory[i]]

new_task_pd_kept(id) ==
    page_directories' = [page_directories EXCEPT ![id + 1] =
        [i \in DOMAIN @ \cup DOMAIN TaskDirectory(id) |->
            IF i \in DOMAIN TaskDirectory(id) THEN TaskDirectory(id)[i] ELSE @[i]]]

new_task_pd(id) ==
    page_directories' = [page_directories EXCEPT ![id + 1] = TaskDirectory(id)]

(* execute(): the directory is made for the slot that current_pcb now is.  *)
ExecuteMaps ==
    /\ UserEntry
    /\ new_task_pd(current_pcb' - 1)
    /\ mapped' = mapped \ {current_pcb'}
    /\ UNCHANGED page_table_vidmap

(* create_vidmap: the table with its one present page, in the directory of *)
(* the calling process.                                                    *)
create_vidmap ==
    /\ page_table_vidmap' =
        [j \in {n \in 0..(ENTRIES - 1) : n * PAGE_SIZE_4KB = VIDEO_MEM} |-> VIDEO_MEM]
    /\ page_directories' = [page_directories EXCEPT ![program_id[current_pcb]] =
        [i \in DOMAIN @ \cup {VIDMAP_OFFSET} |->
            IF i = VIDMAP_OFFSET THEN TableEntry("page_table_vidmap") ELSE @[i]]]

(* vidmap with a pointer inside the program's page; any other pointer is   *)
(* refused and changes nothing.  Without a process it would write outside  *)
(* page_directories, which is not modelled.                                *)
VidmapSyscall ==
    /\ pc = "user" /\ current_pcb # 0
    /\ create_vidmap
    /\ mapped' = mapped \cup {current_pcb}
    /\ UNCHANGED uvars

(* Every other step leaves the directories alone. *)
KeepDirectories == (AdoptFrame \/ KeepRegisters) /\ UNCHANGED pageVars

PInit == UInit /\ paging_init
PNext == ExecuteMaps \/ VidmapSyscall \/ KeepDirectories
PSpec == PInit /\ [][PNext]_pvars

-----------------------------------------------------------------------------
(* The address space of slot p: the program's 4MB at a place no other slot *)
(* uses, the kernel and the low 4MB at their own addresses, and text video *)
(* memory at VIDMAP from the process's own call of vidmap on.              *)
SpaceOf(p, offsets) ==
    LET d == page_directories[p]
    IN  /\ \A o \in offsets :
             /\ Translate(d, PAGE_VIRT_ADDR + o) = (p + 1) * PAGE_SIZE_4MB + o
             /\ Translate(d, PAGE_SIZE_4MB + o) = PAGE_SIZE_4MB + o
             /\ Translate(d, o) = o
        /\ Translate(d, VIDMAP) = IF p \in mapped THEN VIDEO_MEM ELSE -1

(* Every process has the address space it was promised: directories are    *)
(* reused and the vidmap table is shared, but no process inherits the      *)
(* video page of the one that had its slot before, or loses its own.  The  *)
(* offsets are the ends of a page and where copy_file_image starts.        *)
OwnPages == \A p \in Live : SpaceOf(p, {0, 72 * PAGE_SIZE_4KB, PAGE_SIZE_4MB - 1})
=============================================================================
