------------------------------ MODULE FileImage ------------------------------
(***************************************************************************)
(* How execute() finds and loads a program: read_dentry_by_name,           *)
(* check_executable, read_data and copy_file_image, over every small       *)
(* directory, inode and block layout.  A data byte is its address          *)
(* <<block, offset>>; a byte of the image that was never written is Junk.  *)
(***************************************************************************)
EXTENDS Integers, Sequences, SequencesExt, FiniteSets, FiniteSetsExt

CONSTANTS
    BLOCK_SIZE, MAX_FNAME_LENGTH, ELF_HEADER_SIZE,   \* filesystem.h
    Chars,         \* characters of names; NUL is 0
    Lengths,       \* lengths in bytes of the program file
    BlockNumbers,  \* data blocks of the file system
    Entries,       \* entry addresses found in headers
    PAGE_VIRT_ADDR, PAGE_END  \* first byte of the program page, first byte after it

NUL == 0
Junk == <<-1, -1>>
Names(n) == UNION {[1 .. k -> Chars] : k \in 0 .. n}
BlocksOf(len) == (len + BLOCK_SIZE - 1) \div BLOCK_SIZE

ASSUME ScaleAssumption ==
    /\ 1 < ELF_HEADER_SIZE /\ ELF_HEADER_SIZE < BLOCK_SIZE
    /\ NUL \notin Chars

VARIABLES
    dir_entries,   \* the directory: names and inode numbers
    program,       \* inodes_array[1]: length, data_blocks, and the header in its first bytes
    command,       \* the name execute() was given
    pc,            \* "check", then "copy" and "loaded", or "refused"
    inode,         \* inode of the name, or -1
    entry_addr,    \* where the program will be entered
    image          \* bytes at IMAGE_START

vars == <<dir_entries, program, command, pc, inode, entry_addr, image>>

Headers == [magic : BOOLEAN, entry : Entries]

\* Inode 0 is a text file; inode 1 is the program, of any length, scattered
\* over the disk as createfs scatters it.
Init ==
    /\ \E a, b \in Names(MAX_FNAME_LENGTH) \ {<< >>} :
         a # b /\ dir_entries = <<[fname |-> a, inode |-> 0], [fname |-> b, inode |-> 1]>>
    /\ \E len \in Lengths, h \in Headers :
         \E bl \in [1 .. BlocksOf(len) -> BlockNumbers] :
           /\ \A i, j \in DOMAIN bl : i # j => bl[i] # bl[j]
           /\ program = [length |-> len, data_blocks |-> bl, header |-> h]
    /\ command \in Names(MAX_FNAME_LENGTH + 1)
    /\ pc = "check" /\ inode = -1 /\ entry_addr = 0 /\ image = << >>

-----------------------------------------------------------------------------
\* Character i of a string; the terminator and the padding are NUL.
Char(s, i) == IF i =< Len(s) THEN s[i] ELSE NUL

\* strncmp(s, t, n) = 0: the first i with a difference or a NUL, if there
\* is one within n, is a NUL in both.
strncmp_prefix(s, t, n) == \A i \in 1 .. n : i =< Len(s) => Char(s, i) = Char(t, i)
strncmp(s, t, n) ==
    LET stops == {i \in 1 .. n : Char(s, i) # Char(t, i) \/ Char(s, i) = NUL}
    IN  stops = {} \/ Char(s, Min(stops)) = Char(t, Min(stops))

\* read_dentry_by_name: the inode of the last entry that matches, or -1.
read_dentry_by_name(fname) ==
    LET hits == {i \in DOMAIN dir_entries :
                    strncmp(fname, dir_entries[i].fname, MAX_FNAME_LENGTH)}
    IN  IF hits = {} THEN -1 ELSE dir_entries[Max(hits)].inode

\* data_blocks[i] of the program's inode.  Index -1 is the word before the
\* array, the length; the words past the file's own are zero.
data_blocks(i) ==
    IF i = -1 THEN program.length
    ELSE IF i < Len(program.data_blocks) THEN program.data_blocks[i + 1] ELSE 0

\* n bytes of the data area from byte k of block b on.
Bytes(b, k, n) ==
    [j \in 1 .. n |-> <<b + ((k + j - 1) \div BLOCK_SIZE), (k + j - 1) % BLOCK_SIZE>>]

\* The loop that counts the blocks of the range in num_data_blocks; the
\* variant counts the blocks whose last byte is in the range.
CountBlocks_whole(offset, length) ==
    Cardinality({a \in offset .. offset + length - 1 : (a + 1) % BLOCK_SIZE = 0})
CountBlocks(offset, length) ==
    Cardinality({a \in offset .. offset + length - 1 : a > 0 /\ (a - 1) % BLOCK_SIZE = 0})

\* read_data: the bytes written to buf, in order.  Nothing is written when
\* the range is past the end of the file.
read_data(offset, length) ==
    LET partial == offset % BLOCK_SIZE # 0
        first == (offset \div BLOCK_SIZE)
                   - (IF offset > 0 /\ ~partial THEN 1 ELSE 0)
        start == first + (IF partial THEN 1 ELSE 0)
        num == CountBlocks(offset, length) - (IF partial THEN 1 ELSE 0)
        head == IF partial
                THEN Bytes(data_blocks(first), offset, BLOCK_SIZE - (offset % BLOCK_SIZE))
                ELSE << >>
        whole == [i \in 1 .. Max({0, num - 1 - start}) |->
                    Bytes(data_blocks(start + i - 1), 0, BLOCK_SIZE)]
        last == Bytes(data_blocks(start + num - 1), 0, (offset + length) % BLOCK_SIZE)
    IN  IF offset + length > program.length THEN << >>
        ELSE head \o FlattenSeq(whole) \o last

-----------------------------------------------------------------------------
\* check_executable's tests of the header.
GoodHeader(h) == h.magic /\ h.entry >= PAGE_VIRT_ADDR /\ h.entry =< PAGE_END

\* The header check_executable sees: the program's, or, when the file is
\* shorter than a header, whatever the stack held.
elf_header ==
    IF Len(read_data(0, ELF_HEADER_SIZE)) = ELF_HEADER_SIZE
    THEN {program.header} ELSE Headers

Refuse ==
    /\ pc = "check"
    /\ inode' = read_dentry_by_name(command)
    /\ inode' \in {-1, 0} \/ \E h \in elf_header : ~GoodHeader(h)
    /\ pc' = "refused"
    /\ UNCHANGED <<dir_entries, program, command, entry_addr, image>>

Accept ==
    /\ pc = "check"
    /\ inode' = read_dentry_by_name(command)
    /\ inode' \notin {-1, 0}
    /\ \E h \in elf_header : GoodHeader(h) /\ entry_addr' = h.entry
    /\ pc' = "copy"
    /\ UNCHANGED <<dir_entries, program, command, image>>

\* copy_file_image: the buffer on the stack is copied whole to IMAGE_START.
copy_file_image ==
    /\ pc = "copy"
    /\ LET buf == read_data(0, program.length)
       IN  image' = [k \in 1 .. program.length |-> IF k =< Len(buf) THEN buf[k] ELSE Junk]
    /\ pc' = "loaded"
    /\ UNCHANGED <<dir_entries, program, command, inode, entry_addr>>

\* The next command names any file.
NextCommand ==
    /\ pc \in {"refused", "loaded"}
    /\ command' \in Names(MAX_FNAME_LENGTH + 1)
    /\ pc' = "check" /\ inode' = -1 /\ entry_addr' = 0 /\ image' = << >>
    /\ UNCHANGED <<dir_entries, program>>

Next == Refuse \/ Accept \/ copy_file_image \/ NextCommand

Spec == Init /\ [][Next]_vars

-----------------------------------------------------------------------------
\* Byte k of the program file.
FileByte(k) == <<program.data_blocks[(k \div BLOCK_SIZE) + 1], k % BLOCK_SIZE>>

\* A name finds an entry exactly when it is that entry's name, up to the
\* length of a directory's names (read_dentry_by_name, strncmp).
LookupExact ==
    LET short == SubSeq(command, 1, Min({Len(command), MAX_FNAME_LENGTH}))
        named == {e \in Range(dir_entries) : e.fname = short}
    IN  read_dentry_by_name(command) = IF named = {} THEN -1 ELSE (CHOOSE e \in named : TRUE).inode

\* Only an executable is loaded, it is entered where its header says, and
\* its image is the file, byte for byte (check_executable, copy_file_image).
ImageLoaded ==
    /\ pc \in {"copy", "loaded"} => program.header.magic /\ entry_addr = program.header.entry
    /\ pc = "loaded" => image = [k \in 1 .. program.length |-> FileByte(k - 1)]
=============================================================================
