---------------------------- MODULE Descriptors ----------------------------
(***************************************************************************)
(* A process's file_array, statement by statement: open_file, close,       *)
(* close_file and remove_fd (filesystem.c, syscall.c, pcb.c), cut short by *)
(* Ctrl-C (whose handler halts the process) and crossed by terminal        *)
(* switches (which move current_pcb).  The kernel is built without         *)
(* optimisation, so the statements take effect in source order.            *)
(* file_position is FileRead's subject and is left out here.               *)
(***************************************************************************)
EXTENDS Integers, FiniteSets

CONSTANTS
    Procs,         \* the pcb in front on each terminal
    FD_MIN_IDX, FD_MAX_IDX,
    CtrlCPoints,   \* control points at which Ctrl-C may arrive
    SwitchPoints   \* control points at which the terminal may be switched

FDs == FD_MIN_IDX .. FD_MAX_IDX
Types == {"rtc", "dir", "reg"}    \* ftype of a directory entry
NULL == "null"
None == "none"
Points == {"user", "open_ops", "open_inode", "open_flags",
           "close_call", "close_ops", "close_inode", "close_flags", "close_remove"}

ASSUME FDAssumption == FD_MIN_IDX \in Nat /\ FD_MAX_IDX \in Nat /\ FD_MIN_IDX =< FD_MAX_IDX
ASSUME PointsAssumption == CtrlCPoints \subseteq Points /\ SwitchPoints \subseteq Points

VARIABLES
    current_pcb,
    file_ops, inode_ptr, flags,   \* file_array, by process and descriptor
    pc,                           \* the next statement
    fd, ftype, pcb_ptr,           \* locals of the call in progress
    opened                        \* history: the type behind each descriptor open() returned

files == <<file_ops, inode_ptr, flags>>
vars == <<current_pcb, files, pc, fd, ftype, pcb_ptr, opened>>

Init ==
    /\ current_pcb \in Procs
    /\ file_ops = [p \in Procs |-> [d \in FDs |-> NULL]]
    /\ inode_ptr = [p \in Procs |-> [d \in FDs |-> NULL]]
    /\ flags = [p \in Procs |-> [d \in FDs |-> 0]]
    /\ opened = [p \in Procs |-> [d \in FDs |-> None]]
    /\ pc = "user" /\ fd = FD_MIN_IDX /\ ftype = "reg" /\ pcb_ptr = current_pcb

-----------------------------------------------------------------------------
\* find_free_fd: the descriptors whose file_ops is null.
FreeFDs(p) == {d \in FDs : file_ops[p][d] = NULL}

\* open_file of an existing name of type t: the lowest free descriptor.
OpenFind(t) ==
    /\ pc = "user" /\ FreeFDs(current_pcb) # {}
    /\ fd' \in FreeFDs(current_pcb)
    /\ \A d \in FreeFDs(current_pcb) : fd' =< d
    /\ ftype' = t /\ pc' = "open_ops"
    /\ UNCHANGED <<current_pcb, files, pcb_ptr, opened>>

\* open_file returns -1 when no descriptor is free.
OpenFull ==
    /\ pc = "user" /\ FreeFDs(current_pcb) = {}
    /\ UNCHANGED vars

\* What open_file stores for each type.
OpsOf(t) == IF t = "rtc" THEN "rtc" ELSE "file"
InodeOf(t) == IF t = "reg" THEN "inode" ELSE NULL

OpenOps ==
    /\ pc = "open_ops"
    /\ file_ops' = [file_ops EXCEPT ![current_pcb][fd] = OpsOf(ftype)]
    /\ pc' = "open_inode"
    /\ UNCHANGED <<current_pcb, inode_ptr, flags, fd, ftype, pcb_ptr, opened>>

OpenInode ==
    /\ pc = "open_inode"
    /\ inode_ptr' = [inode_ptr EXCEPT ![current_pcb][fd] = InodeOf(ftype)]
    /\ pc' = "open_flags"
    /\ UNCHANGED <<current_pcb, file_ops, flags, fd, ftype, pcb_ptr, opened>>

\* The last statement; open() returns fd.
OpenFlags ==
    /\ pc = "open_flags"
    /\ flags' = [flags EXCEPT ![current_pcb][fd] = 1]
    /\ opened' = [opened EXCEPT ![current_pcb][fd] = ftype]
    /\ pc' = "user"
    /\ UNCHANGED <<current_pcb, file_ops, inode_ptr, fd, ftype, pcb_ptr>>

-----------------------------------------------------------------------------
\* The variant leaves the flag to close_file, which clears it last.
CloseTest_late(d) ==
    /\ pc = "user" /\ flags[current_pcb][d] # 0
    /\ pcb_ptr' = current_pcb /\ fd' = d
    /\ opened' = [opened EXCEPT ![current_pcb][d] = None]
    /\ pc' = "close_call"
    /\ UNCHANGED <<current_pcb, files, ftype>>

\* close() of a descriptor in use: pcb_ptr is set and the flag cleared.
CloseTest(d) ==
    /\ pc = "user" /\ flags[current_pcb][d] # 0
    /\ pcb_ptr' = current_pcb /\ fd' = d
    /\ flags' = [flags EXCEPT ![current_pcb][d] = 0]
    /\ opened' = [opened EXCEPT ![current_pcb][d] = None]
    /\ pc' = "close_call"
    /\ UNCHANGED <<current_pcb, file_ops, inode_ptr, ftype>>

\* file_ops->closeptr(fd): rtc_close does nothing, close_file clears.
CloseCall ==
    /\ pc = "close_call"
    /\ pc' = IF file_ops[pcb_ptr][fd] = "rtc" THEN "close_remove" ELSE "close_ops"
    /\ UNCHANGED <<current_pcb, files, fd, ftype, pcb_ptr, opened>>

\* close_file works on current_pcb, not on pcb_ptr.
CloseOps ==
    /\ pc = "close_ops"
    /\ file_ops' = [file_ops EXCEPT ![current_pcb][fd] = NULL]
    /\ pc' = "close_inode"
    /\ UNCHANGED <<current_pcb, inode_ptr, flags, fd, ftype, pcb_ptr, opened>>

CloseInode ==
    /\ pc = "close_inode"
    /\ inode_ptr' = [inode_ptr EXCEPT ![current_pcb][fd] = NULL]
    /\ pc' = "close_flags"
    /\ UNCHANGED <<current_pcb, file_ops, flags, fd, ftype, pcb_ptr, opened>>

CloseFlags ==
    /\ pc = "close_flags"
    /\ flags' = [flags EXCEPT ![current_pcb][fd] = 0]
    /\ pc' = "close_remove"
    /\ UNCHANGED <<current_pcb, file_ops, inode_ptr, fd, ftype, pcb_ptr, opened>>

\* remove_fd(pcb_ptr, fd); the variant forgets to call it.
CloseRemove_dropped ==
    /\ pc = "close_remove" /\ pc' = "user"
    /\ UNCHANGED <<current_pcb, files, fd, ftype, pcb_ptr, opened>>

CloseRemove ==
    /\ pc = "close_remove"
    /\ file_ops' = [file_ops EXCEPT ![pcb_ptr][fd] = NULL]
    /\ pc' = "user"
    /\ UNCHANGED <<current_pcb, inode_ptr, flags, fd, ftype, pcb_ptr, opened>>

-----------------------------------------------------------------------------
\* halt(), by system call or from the Ctrl-C handler in the middle of
\* another call: close() of every descriptor in use, and the pcb goes to the
\* next process as it is.  The variant skips the closes.
Halt_keeps ==
    /\ pc \in CtrlCPoints \cup {"user"}
    /\ opened' = [opened EXCEPT ![current_pcb] = [d \in FDs |-> None]]
    /\ pc' = "user"
    /\ UNCHANGED <<current_pcb, files, fd, ftype, pcb_ptr>>

Halt ==
    /\ pc \in CtrlCPoints \cup {"user"}
    /\ LET open == {d \in FDs : flags[current_pcb][d] # 0}
       IN  /\ flags' = [flags EXCEPT ![current_pcb] = [d \in FDs |-> 0]]
           /\ file_ops' = [file_ops EXCEPT ![current_pcb] =
                             [d \in FDs |-> IF d \in open THEN NULL ELSE @[d]]]
           /\ inode_ptr' = [inode_ptr EXCEPT ![current_pcb] =
                             [d \in FDs |-> IF d \in open /\ file_ops[current_pcb][d] = "file"
                                            THEN NULL ELSE @[d]]]
    /\ opened' = [opened EXCEPT ![current_pcb] = [d \in FDs |-> None]]
    /\ pc' = "user"
    /\ UNCHANGED <<current_pcb, fd, ftype, pcb_ptr>>

\* switch_terminal, seen from here.
SwitchTerminal(p) ==
    /\ pc \in SwitchPoints /\ p # current_pcb
    /\ current_pcb' = p
    /\ UNCHANGED <<files, pc, fd, ftype, pcb_ptr, opened>>

Next ==
    \/ \E t \in Types : OpenFind(t)
    \/ OpenFull \/ OpenOps \/ OpenInode \/ OpenFlags
    \/ \E d \in FDs : CloseTest(d)
    \/ CloseCall \/ CloseOps \/ CloseInode \/ CloseFlags \/ CloseRemove
    \/ Halt
    \/ \E p \in Procs : SwitchTerminal(p)

Spec == Init /\ [][Next]_vars

-----------------------------------------------------------------------------
\* Every variable stays in its type.
TypeOK ==
    /\ current_pcb \in Procs /\ pcb_ptr \in Procs
    /\ file_ops \in [Procs -> [FDs -> {NULL, "file", "rtc"}]]
    /\ inode_ptr \in [Procs -> [FDs -> {NULL, "inode"}]]
    /\ flags \in [Procs -> [FDs -> {0, 1}]]
    /\ opened \in [Procs -> [FDs -> Types \cup {None}]]
    /\ pc \in Points /\ fd \in FDs /\ ftype \in Types

\* A descriptor open() returned, and no one else's, is in use, and leads to
\* the operations and the inode of the file that was opened, whatever calls
\* Ctrl-C has cut short in this process and in earlier users of its pcb.
DescriptorsAgree ==
    \A p \in Procs, d \in FDs :
        /\ flags[p][d] = 1 <=> opened[p][d] # None
        /\ opened[p][d] # None =>
             file_ops[p][d] = OpsOf(opened[p][d]) /\ inode_ptr[p][d] = InodeOf(opened[p][d])

\* read(), write() and close() never call through a null file_ops: whenever
\* the flag they test is set (or close has just cleared it), the pointer is.
NullNeverCalled ==
    /\ \A p \in Procs, d \in FDs : flags[p][d] = 1 => file_ops[p][d] # NULL
    /\ pc = "close_call" => file_ops[pcb_ptr][fd] # NULL

\* Between calls a descriptor that is not in use is free for open().
NoLeak ==
    pc = "user" => \A p \in Procs, d \in FDs : flags[p][d] = 0 => file_ops[p][d] = NULL
=============================================================================
