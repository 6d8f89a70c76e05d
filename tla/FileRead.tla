------------------------------ MODULE FileRead ------------------------------
(***************************************************************************)
(* The read side of the file system (student-distrib/filesystem.c): one    *)
(* open descriptor per process, read_file, read_dir and the byte loop of   *)
(* read_data_one.  The loop runs with interrupts enabled, so a key press   *)
(* that switches terminals moves current_pcb (and the page directory)      *)
(* between two of its iterations; SwitchPoints says where the run allows   *)
(* that.  A data byte is its address <<block, offset>>.                    *)
(***************************************************************************)
EXTENDS Integers, Sequences

CONSTANTS
    BLOCK_SIZE,       \* filesystem.h BLOCK_SIZE
    Files,            \* regular files (inodes)
    Length,           \* inode length in bytes, by file
    Blocks,           \* data_blocks of the inode, by file: a sequence of block numbers
    num_dir_entries,  \* of the boot block
    Procs,            \* the top process of each terminal
    Sizes,            \* values user programs pass as nbytes, by file
    SwitchPoints      \* control points at which the terminal may be switched

Dir == "dir"
Closed == "closed"
DirEntry == -1      \* marks a directory entry among data bytes
Points == {"user", "dir", "loop"}

ASSUME BlockSizeAssumption == BLOCK_SIZE \in Nat \ {0}
ASSUME FilesAssumption == Dir \notin Files /\ Closed \notin Files
ASSUME LayoutAssumption ==
    /\ Length \in [Files -> Nat]
    /\ Blocks \in [Files -> Seq(Nat)]
    /\ \A f \in Files : Length[f] =< BLOCK_SIZE * Len(Blocks[f])
ASSUME EntriesAssumption == num_dir_entries \in Nat
ASSUME SizesAssumption == Sizes \in [Files -> SUBSET Nat] /\ SwitchPoints \subseteq Points

VARIABLES
    current_pcb,    \* the process whose pcb and page directory are loaded
    inode_ptr,      \* what each process's descriptor names
    file_position,  \* by process
    delivered,      \* history: what reads put in the process's memory since it opened the file
    pc,             \* where the call in progress is
    caller,         \* history: the process that made the call
    start,          \* history: its file_position at the call
    n_bytes, offset, f_size, datablock_number, cur_offset, bytes_read   \* locals

locals == <<n_bytes, offset, f_size, datablock_number, cur_offset, bytes_read>>
vars == <<current_pcb, inode_ptr, file_position, delivered, pc, caller, start, locals>>

\* inodes_array[f].data_blocks[i]; the entries past the file's own are zero.
data_blocks(f, i) == IF i < Len(Blocks[f]) THEN Blocks[f][i + 1] ELSE 0

Init ==
    /\ current_pcb \in Procs
    /\ inode_ptr = [p \in Procs |-> Closed]
    /\ file_position = [p \in Procs |-> 0]
    /\ delivered = [p \in Procs |-> << >>]
    /\ pc = "user" /\ caller = current_pcb /\ start = 0
    /\ n_bytes = 0 /\ offset = 0 /\ f_size = 0
    /\ datablock_number = 0 /\ cur_offset = 0 /\ bytes_read = 0

\* open(): a directory has a null inode_ptr, a regular file its inode.
OpenFile(f) ==
    /\ pc = "user" /\ inode_ptr[current_pcb] = Closed
    /\ inode_ptr' = [inode_ptr EXCEPT ![current_pcb] = f]
    /\ file_position' = [file_position EXCEPT ![current_pcb] = 0]
    /\ delivered' = [delivered EXCEPT ![current_pcb] = << >>]
    /\ UNCHANGED <<current_pcb, pc, caller, start, locals>>

\* close(): close_file clears the descriptor.
CloseFile ==
    /\ pc = "user" /\ inode_ptr[current_pcb] # Closed
    /\ inode_ptr' = [inode_ptr EXCEPT ![current_pcb] = Closed]
    /\ file_position' = [file_position EXCEPT ![current_pcb] = 0]
    /\ delivered' = [delivered EXCEPT ![current_pcb] = << >>]
    /\ UNCHANGED <<current_pcb, pc, caller, start, locals>>

\* read() on a directory whose position is past the last entry returns 0.
ReadDirEnd ==
    /\ pc = "user" /\ inode_ptr[current_pcb] = Dir
    /\ file_position[current_pcb] >= num_dir_entries
    /\ UNCHANGED vars

\* read() on a directory: the test of file_position.
ReadDirTest ==
    /\ pc = "user" /\ inode_ptr[current_pcb] = Dir
    /\ file_position[current_pcb] < num_dir_entries
    /\ pc' = "dir" /\ caller' = current_pcb /\ start' = file_position[current_pcb]
    /\ UNCHANGED <<current_pcb, inode_ptr, file_position, delivered, locals>>

\* The name copied and the position advanced, both through current_pcb.
ReadDirCopy ==
    /\ pc = "dir"
    /\ delivered' = [delivered EXCEPT ![current_pcb] =
                        Append(@, <<DirEntry, file_position[current_pcb]>>)]
    /\ file_position' = [file_position EXCEPT ![current_pcb] = @ + 1]
    /\ pc' = "user"
    /\ UNCHANGED <<current_pcb, inode_ptr, caller, start, locals>>

\* cur_datablock, the index in the file of the block that holds offset o;
\* the variant rounds up.
cur_datablock_up(o) == (o + BLOCK_SIZE - 1) \div BLOCK_SIZE
cur_datablock(o) == o \div BLOCK_SIZE

\* read() on a regular file: read_data_one's locals are set from the descriptor.
ReadDataOne(f, n) ==
    /\ pc = "user" /\ inode_ptr[current_pcb] = f
    /\ LET o == file_position[current_pcb]
       IN  /\ caller' = current_pcb /\ start' = o
           /\ n_bytes' = n /\ offset' = o /\ f_size' = Length[f]
           /\ datablock_number' = data_blocks(f, cur_datablock(o))
           /\ cur_offset' = o % BLOCK_SIZE
    /\ bytes_read' = 0
    /\ pc' = "loop"
    /\ UNCHANGED <<current_pcb, inode_ptr, file_position, delivered>>

\* Variants of the loop's condition: stops a byte early, runs a byte late.
MoreToRead_early == bytes_read < n_bytes /\ offset + 1 < f_size
MoreToRead_late == bytes_read < n_bytes /\ offset =< f_size

\* The loop's condition; i counts with bytes_read.
MoreToRead == bytes_read < n_bytes /\ offset < f_size

\* The end of an iteration: the next byte of the block, or the first byte
\* of the block with the next number.
AdvanceInBlock ==
    LET wraps == (cur_offset + 1) % BLOCK_SIZE = 0
    IN  /\ cur_offset' = IF wraps THEN 0 ELSE cur_offset + 1
        /\ datablock_number' = IF wraps THEN datablock_number + 1 ELSE datablock_number

\* One iteration: a byte goes to the caller's virtual address in the page
\* directory now loaded, and the position now current is advanced.
CopyByte ==
    /\ pc = "loop" /\ MoreToRead
    /\ delivered' = [delivered EXCEPT ![current_pcb] =
                        Append(@, <<datablock_number, cur_offset>>)]
    /\ file_position' = [file_position EXCEPT ![current_pcb] = @ + 1]
    /\ offset' = offset + 1
    /\ bytes_read' = bytes_read + 1
    /\ AdvanceInBlock
    /\ UNCHANGED <<current_pcb, inode_ptr, pc, caller, start, n_bytes, f_size>>

ReturnCount ==
    /\ pc = "loop" /\ ~MoreToRead
    /\ pc' = "user"
    /\ UNCHANGED <<current_pcb, inode_ptr, file_position, delivered, caller, start, locals>>

\* switch_terminal, seen from here: another terminal's process is current.
SwitchTerminal(p) ==
    /\ pc \in SwitchPoints /\ p # current_pcb
    /\ current_pcb' = p
    /\ UNCHANGED <<inode_ptr, file_position, delivered, pc, caller, start, locals>>

Next ==
    \/ \E f \in Files \cup {Dir} : OpenFile(f)
    \/ CloseFile
    \/ ReadDirEnd \/ ReadDirTest \/ ReadDirCopy
    \/ \E f \in Files : \E n \in Sizes[f] : ReadDataOne(f, n)
    \/ CopyByte \/ ReturnCount
    \/ \E p \in Procs : SwitchTerminal(p)

Spec == Init /\ [][Next]_vars

-----------------------------------------------------------------------------
\* What byte k of an open file is: the reference that reads are held to.
Content(f, k) ==
    IF f = Dir THEN <<DirEntry, k>>
    ELSE <<data_blocks(f, k \div BLOCK_SIZE), k % BLOCK_SIZE>>

\* Consecutive blocks of a file have consecutive numbers.
Contiguous ==
    \A f \in Files : \A i \in 1 .. Len(Blocks[f]) - 1 : Blocks[f][i + 1] = Blocks[f][i] + 1

\* Every variable stays in its type.
TypeOK ==
    /\ current_pcb \in Procs /\ caller \in Procs
    /\ inode_ptr \in [Procs -> Files \cup {Dir, Closed}]
    /\ file_position \in [Procs -> Nat]
    /\ delivered \in [Procs -> Seq(Int \X Nat)]
    /\ pc \in Points
    /\ start \in Nat /\ n_bytes \in Nat /\ offset \in Nat /\ f_size \in Nat
    /\ datablock_number \in Nat /\ bytes_read \in Nat
    /\ cur_offset \in 0 .. BLOCK_SIZE - 1

\* What reads have put in a process's memory since it opened its file is
\* the file's beginning, each byte (or directory entry) once and in order,
\* however the reads are cut up (read_data_one, read_dir).
FileContents ==
    \A p \in Procs : inode_ptr[p] # Closed =>
        delivered[p] = [k \in 1 .. file_position[p] |-> Content(inode_ptr[p], k - 1)]

\* The count a read will return is the distance its caller's position has
\* moved, and no position moves past the end of its file.
PositionTracksCount ==
    /\ pc = "loop" => file_position[caller] = start + bytes_read
    /\ \A p \in Procs :
         /\ inode_ptr[p] \in Files => file_position[p] =< Length[inode_ptr[p]]
         /\ inode_ptr[p] = Dir => file_position[p] =< num_dir_entries

\* A read returns fewer bytes than asked only at the end of the caller's
\* file, so a reader that stops at 0 (cat) has seen all of it.
ShortOnlyAtEnd ==
    pc = "loop" /\ ~MoreToRead =>
        bytes_read = n_bytes \/ file_position[caller] = Length[inode_ptr[caller]]
=============================================================================
