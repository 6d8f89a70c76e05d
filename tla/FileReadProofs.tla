--------------------------- MODULE FileReadProofs ---------------------------
(***************************************************************************)
(* For every block size, file and layout: a read returns what its caller's *)
(* position moved by and is short only at the end of the file; and when    *)
(* the blocks of each file are consecutive, reads deliver the file.  All   *)
(* of it for terminals switched only while no read is in progress.         *)
(***************************************************************************)
EXTENDS FileRead, TLAPS

SwitchAtUser == SwitchPoints \subseteq {"user"}

-----------------------------------------------------------------------------
\* Quotient and remainder by BLOCK_SIZE.
LEMMA DivMod ==
    ASSUME NEW B \in Nat \ {0}, NEW k \in Nat
    PROVE  /\ k % B \in 0 .. B - 1 /\ k \div B \in Nat
           /\ k = B * (k \div B) + (k % B)
<1>1. k % B \in 0 .. B - 1
  OBVIOUS
<1>2. k \div B \in Int
  OBVIOUS
<1>3. k \div B >= 0
  OBVIOUS
<1>4. k = B * (k \div B) + (k % B)
  OBVIOUS
<1> QED BY <1>1, <1>2, <1>3, <1>4

\* They are unique.
LEMMA DivUnique ==
    ASSUME NEW B \in Nat \ {0},
           NEW q \in Int, NEW r \in 0 .. B - 1,
           NEW p \in Int, NEW s \in 0 .. B - 1,
           B * q + r = B * p + s
    PROVE  p = q /\ r = s
<1>1. CASE p > q
  <2>1. B * p >= B * q + B
    BY <1>1
  <2> QED BY <2>1
<1>2. CASE p < q
  <2>1. B * q >= B * p + B
    BY <1>2
  <2> QED BY <2>1
<1> QED BY <1>1, <1>2

\* How they change from one offset to the next (the end of an iteration).
LEMMA DivStep ==
    ASSUME NEW B \in Nat \ {0}, NEW k \in Nat
    PROVE  /\ (k % B) + 1 < B => (k + 1) % B = (k % B) + 1 /\ (k + 1) \div B = k \div B
           /\ (k % B) + 1 = B => (k + 1) % B = 0 /\ (k + 1) \div B = (k \div B) + 1
<1> DEFINE q == k \div B
           r == k % B
           p == (k + 1) \div B
           s == (k + 1) % B
<1>1. r \in 0 .. B - 1 /\ q \in Nat /\ k = B * q + r
  BY DivMod, Zenon
<1>2. s \in 0 .. B - 1 /\ p \in Nat /\ k + 1 = B * p + s
  <2>1. k + 1 \in Nat
    OBVIOUS
  <2> QED BY <2>1, DivMod, Zenon
<1> SUFFICES /\ r + 1 < B => s = r + 1 /\ p = q
             /\ r + 1 = B => s = 0 /\ p = q + 1
  OBVIOUS
<1> HIDE DEF q, r, p, s
<1>3. CASE r + 1 < B
  <2>1. r + 1 \in 0 .. B - 1
    BY <1>1, <1>3
  <2>2. B * q + (r + 1) = B * p + s
    BY <1>1, <1>2
  <2>3. p = q /\ r + 1 = s
    BY <1>1, <1>2, <2>1, <2>2, DivUnique
  <2> QED BY <1>3, <2>3
<1>4. CASE r + 1 = B
  <2>1. 0 \in 0 .. B - 1
    BY <1>1
  <2>2. B * (q + 1) + 0 = B * p + s
    BY <1>1, <1>2, <1>4
  <2>3. p = q + 1 /\ 0 = s
    BY <1>1, <1>2, <2>1, <2>2, DivUnique
  <2> QED BY <1>4, <2>3
<1> QED BY <1>1, <1>3, <1>4

\* The test (cur_offset + 1) % BLOCK_SIZE = 0 finds the end of the block.
LEMMA WrapTest ==
    ASSUME NEW B \in Nat \ {0}, NEW r \in 0 .. B - 1
    PROVE  (r + 1) % B = 0 <=> r + 1 = B
<1>0. r \in Nat
  OBVIOUS
<1>1. r % B \in 0 .. B - 1 /\ r \div B \in Nat /\ r = B * (r \div B) + (r % B)
  BY <1>0, DivMod, Zenon
<1>2. B * 0 + r = B * (r \div B) + (r % B)
  BY <1>1
<1>3. r % B = r
  BY <1>1, <1>2, DivUnique
<1> QED BY <1>0, <1>3, DivStep

\* An offset below the blocks' capacity lies in one of them.
LEMMA DivBelow ==
    ASSUME NEW B \in Nat \ {0}, NEW k \in Nat, NEW n \in Nat, k < B * n
    PROVE  k \div B < n
<1> DEFINE q == k \div B
<1>1. q \in Nat /\ B * q =< k
  BY DivMod
<1> HIDE DEF q
<1>2. CASE q >= n
  <2>1. B * q >= B * n
    BY <1>1, <1>2
  <2> QED BY <1>1, <2>1
<1> QED BY <1>1, <1>2 DEF q

-----------------------------------------------------------------------------
(* The inductive invariant.  While a read is in progress its caller is     *)
(* current, and the locals agree with the descriptor they were set from.   *)

LoopInv ==
    pc = "loop" =>
        /\ caller = current_pcb /\ inode_ptr[caller] \in Files
        /\ f_size = Length[inode_ptr[caller]]
        /\ offset = file_position[caller] /\ offset = start + bytes_read
        /\ bytes_read =< n_bytes /\ offset =< f_size
        /\ cur_offset = offset % BLOCK_SIZE

DirInv == pc = "dir" =>
    inode_ptr[current_pcb] = Dir /\ file_position[current_pcb] < num_dir_entries

Bounded == \A p \in Procs :
    /\ inode_ptr[p] \in Files => file_position[p] =< Length[inode_ptr[p]]
    /\ inode_ptr[p] = Dir => file_position[p] =< num_dir_entries

PInv == TypeOK /\ LoopInv /\ DirInv /\ Bounded

\* data_blocks returns a block number for every index.
LEMMA BlocksType ==
    ASSUME NEW f \in Files, NEW i \in Nat
    PROVE  data_blocks(f, i) \in Nat
BY LayoutAssumption DEF data_blocks

\* Initially no file is open and no read in progress.
LEMMA InitPInv == Init => PInv
<1> SUFFICES ASSUME Init PROVE PInv
  OBVIOUS
<1>1. TypeOK
  BY BlockSizeAssumption DEF Init, TypeOK, Points
<1>2. LoopInv /\ DirInv
  BY DEF Init, LoopInv, DirInv
<1>3. Bounded
  BY FilesAssumption DEF Init, Bounded, Closed, Dir
<1> QED BY <1>1, <1>2, <1>3 DEF PInv

\* Every step keeps PInv when terminals are switched only between reads.
LEMMA NextPInv == ASSUME SwitchAtUser, PInv, [Next]_vars PROVE PInv'
<1> USE BlockSizeAssumption, FilesAssumption, LayoutAssumption, EntriesAssumption
<1> USE DEF PInv, Points
<1>1. ASSUME NEW f \in Files \cup {Dir}, OpenFile(f) PROVE PInv'
  BY <1>1 DEF OpenFile, TypeOK, LoopInv, DirInv, Bounded, locals
<1>2. CASE CloseFile
  BY <1>2 DEF CloseFile, TypeOK, LoopInv, DirInv, Bounded, locals
<1>3. CASE ReadDirEnd
  BY <1>3 DEF ReadDirEnd, TypeOK, LoopInv, DirInv, Bounded, vars, locals
<1>4. CASE ReadDirTest
  BY <1>4 DEF ReadDirTest, TypeOK, LoopInv, DirInv, Bounded, locals
<1>5. CASE ReadDirCopy
  BY <1>5 DEF ReadDirCopy, TypeOK, LoopInv, DirInv, Bounded, locals, DirEntry
<1>6. ASSUME NEW f \in Files, NEW n \in Sizes[f], ReadDataOne(f, n) PROVE PInv'
  <2> DEFINE o == file_position[current_pcb]
  <2>1. f \in Files /\ o \in Nat /\ n \in Nat
    BY <1>6, SizesAssumption DEF ReadDataOne, TypeOK
  <2>2. o \div BLOCK_SIZE \in Nat /\ o % BLOCK_SIZE \in 0 .. BLOCK_SIZE - 1
    BY <2>1, DivMod, Zenon
  <2>3. data_blocks(f, cur_datablock(o)) \in Nat
    BY <2>1, <2>2, BlocksType DEF cur_datablock
  <2>4. TypeOK'
    BY <1>6, <2>1, <2>2, <2>3 DEF ReadDataOne, TypeOK
  <2>5. Bounded'
    BY <1>6 DEF ReadDataOne, Bounded
  <2>6. LoopInv'
    <3>1. Length[f] \in Nat /\ o =< Length[f]
      BY <1>6, <2>1 DEF ReadDataOne, Bounded, TypeOK
    <3> QED BY <1>6, <2>1, <3>1 DEF ReadDataOne, TypeOK, LoopInv
  <2>7. DirInv'
    BY <1>6 DEF ReadDataOne, DirInv
  <2> QED BY <2>4, <2>5, <2>6, <2>7
<1>7. CASE CopyByte
  <2>1. offset \in Nat /\ cur_offset = offset % BLOCK_SIZE /\ cur_offset \in 0 .. BLOCK_SIZE - 1
    BY <1>7 DEF CopyByte, LoopInv, TypeOK
  <2>2. (cur_offset + 1) % BLOCK_SIZE = 0 <=> cur_offset + 1 = BLOCK_SIZE
    BY <2>1, WrapTest, Zenon
  <2>3. cur_offset' = (offset + 1) % BLOCK_SIZE /\ cur_offset' \in 0 .. BLOCK_SIZE - 1
    <3>1. /\ cur_offset + 1 < BLOCK_SIZE => (offset + 1) % BLOCK_SIZE = cur_offset + 1
          /\ cur_offset + 1 = BLOCK_SIZE => (offset + 1) % BLOCK_SIZE = 0
      BY <2>1, DivStep, Zenon
    <3>2. cur_offset' = IF cur_offset + 1 = BLOCK_SIZE THEN 0 ELSE cur_offset + 1
      BY <1>7, <2>2 DEF CopyByte, AdvanceInBlock
    <3> QED BY <2>1, <3>1, <3>2
  <2>4. datablock_number' \in Nat
    BY <1>7 DEF CopyByte, AdvanceInBlock, TypeOK
  <2>5. TypeOK'
    BY <1>7, <2>3, <2>4 DEF CopyByte, TypeOK
  <2>6. LoopInv'
    BY <1>7, <2>3 DEF CopyByte, MoreToRead, TypeOK, LoopInv
  <2>7. DirInv'
    BY <1>7 DEF CopyByte, DirInv
  <2>8. Bounded'
    <3>1. /\ inode_ptr[current_pcb] \in Files /\ inode_ptr[current_pcb] # Dir
          /\ file_position[current_pcb] + 1 =< Length[inode_ptr[current_pcb]]
      <4>1. Length[inode_ptr[current_pcb]] \in Nat /\ file_position[current_pcb] \in Nat
        BY <1>7 DEF CopyByte, TypeOK, LoopInv
      <4> QED BY <1>7, <4>1 DEF CopyByte, MoreToRead, LoopInv
    <3>2. /\ inode_ptr' = inode_ptr
          /\ \A p \in Procs : file_position'[p] =
                IF p = current_pcb THEN file_position[p] + 1 ELSE file_position[p]
      BY <1>7 DEF CopyByte, TypeOK
    <3> QED BY <3>1, <3>2, Zenon DEF Bounded
  <2> QED BY <2>5, <2>6, <2>7, <2>8
<1>8. CASE ReturnCount
  BY <1>8 DEF ReturnCount, TypeOK, LoopInv, DirInv, Bounded, locals
<1>9. ASSUME NEW p \in Procs, SwitchTerminal(p) PROVE PInv'
  BY <1>9 DEF SwitchAtUser, SwitchTerminal, TypeOK, LoopInv, DirInv, Bounded, locals
<1>10. CASE UNCHANGED vars
  BY <1>10 DEF TypeOK, LoopInv, DirInv, Bounded, vars, locals
<1> QED BY <1>1, <1>2, <1>3, <1>4, <1>5, <1>6, <1>7, <1>8, <1>9, <1>10 DEF Next

\* The count returned and the end of the file: PositionTracksCount and
\* ShortOnlyAtEnd follow from PInv, for every layout.
THEOREM Positions ==
    ASSUME SwitchAtUser
    PROVE  Spec => [](TypeOK /\ PositionTracksCount /\ ShortOnlyAtEnd)
<1>1. PInv => TypeOK /\ PositionTracksCount /\ ShortOnlyAtEnd
  <2> SUFFICES ASSUME PInv PROVE TypeOK /\ PositionTracksCount /\ ShortOnlyAtEnd
    OBVIOUS
  <2>1. PositionTracksCount
    BY DEF PInv, PositionTracksCount, LoopInv, Bounded
  <2>2. ShortOnlyAtEnd
    BY DEF PInv, TypeOK, ShortOnlyAtEnd, LoopInv, MoreToRead
  <2> QED BY <2>1, <2>2 DEF PInv
<1> QED BY <1>1, InitPInv, NextPInv, PTL DEF Spec

-----------------------------------------------------------------------------
(* Contents: the block number the loop has reached is the one the inode    *)
(* lists for the offset, which is where consecutive blocks are needed.     *)

BlockInv == pc = "loop" /\ offset < f_size =>
    datablock_number = data_blocks(inode_ptr[caller], offset \div BLOCK_SIZE)

CInv == PInv /\ BlockInv /\ FileContents

\* A file's beginning of length n, followed by byte n, is its beginning of
\* length n + 1.
LEMMA ExtendPrefix ==
    ASSUME NEW f, NEW n \in Nat, NEW d,
           d = [k \in 1 .. n |-> Content(f, k - 1)]
    PROVE  Append(d, Content(f, n)) = [k \in 1 .. n + 1 |-> Content(f, k - 1)]
<1> DEFINE S == {Content(f, k) : k \in Nat}
<1>1. d \in Seq(S)
  <2>1. \A k \in 1 .. n : Content(f, k - 1) \in S
    OBVIOUS
  <2> HIDE DEF S
  <2> QED BY <2>1
<1>2. Len(d) = n /\ Content(f, n) \in S
  BY <1>1
<1> HIDE DEF S
<1>3. Append(d, Content(f, n)) = [k \in 1 .. n + 1 |-> IF k = n + 1 THEN Content(f, n) ELSE d[k]]
  BY <1>1, <1>2
<1>4. \A k \in 1 .. n + 1 : (IF k = n + 1 THEN Content(f, n) ELSE d[k]) = Content(f, k - 1)
  <2> SUFFICES ASSUME NEW k \in 1 .. n + 1
               PROVE  (IF k = n + 1 THEN Content(f, n) ELSE d[k]) = Content(f, k - 1)
    OBVIOUS
  <2>1. CASE k = n + 1
    <3>1. k - 1 = n
      BY <2>1
    <3> QED BY <2>1, <3>1
  <2>2. CASE k # n + 1
    BY <2>2
  <2> QED BY <2>1, <2>2
<1> QED BY <1>3, <1>4

\* The next offset below the end is in the same block or in the block with
\* the next number.
LEMMA NextBlock ==
    ASSUME Contiguous, NEW f \in Files, NEW o \in Nat, o + 1 < Length[f]
    PROVE  data_blocks(f, (o + 1) \div BLOCK_SIZE) =
             IF (o % BLOCK_SIZE) + 1 = BLOCK_SIZE
             THEN data_blocks(f, o \div BLOCK_SIZE) + 1
             ELSE data_blocks(f, o \div BLOCK_SIZE)
<1> DEFINE q == o \div BLOCK_SIZE
           p == (o + 1) \div BLOCK_SIZE
<1>1. q \in Nat /\ o % BLOCK_SIZE \in 0 .. BLOCK_SIZE - 1
  BY BlockSizeAssumption, DivMod, Zenon
<1>2. /\ (o % BLOCK_SIZE) + 1 < BLOCK_SIZE => p = q
      /\ (o % BLOCK_SIZE) + 1 = BLOCK_SIZE => p = q + 1
  BY BlockSizeAssumption, DivStep, Zenon
<1>3. p < Len(Blocks[f])
  <2>1. Len(Blocks[f]) \in Nat /\ Length[f] \in Nat /\ o + 1 \in Nat
    BY LayoutAssumption
  <2>2. o + 1 < BLOCK_SIZE * Len(Blocks[f])
    BY <2>1, LayoutAssumption, BlockSizeAssumption
  <2> QED BY <2>1, <2>2, BlockSizeAssumption, DivBelow, Zenon
<1> HIDE DEF q, p
<1>4. CASE (o % BLOCK_SIZE) + 1 = BLOCK_SIZE
  <2>1. p = q + 1 /\ q + 1 \in 1 .. Len(Blocks[f]) - 1
    BY <1>1, <1>2, <1>3, <1>4, LayoutAssumption
  <2>2. Blocks[f][(q + 1) + 1] = Blocks[f][q + 1] + 1
    BY <2>1 DEF Contiguous
  <2>3. data_blocks(f, p) = data_blocks(f, q) + 1
    BY <1>1, <2>1, <2>2, LayoutAssumption DEF data_blocks
  <2> QED BY <1>4, <2>3 DEF p, q
<1>5. CASE (o % BLOCK_SIZE) + 1 # BLOCK_SIZE
  <2>1. (o % BLOCK_SIZE) + 1 < BLOCK_SIZE
    BY <1>1, <1>5, BlockSizeAssumption
  <2>2. p = q
    BY <1>2, <2>1
  <2> QED BY <1>5, <2>2 DEF p, q
<1> QED BY <1>4, <1>5

\* Initially every descriptor is closed.
LEMMA InitCInv == Init => CInv
<1>1. Init => BlockInv
  BY DEF Init, BlockInv
<1>2. Init => FileContents
  BY DEF Init, FileContents
<1> QED BY <1>1, <1>2, InitPInv DEF CInv

\* Every step keeps CInv when blocks are consecutive.
LEMMA NextCInv == ASSUME SwitchAtUser, Contiguous, CInv, [Next]_vars PROVE CInv'
<1> USE FilesAssumption DEF CInv
<1> SUFFICES BlockInv' /\ FileContents'
  BY NextPInv
<1>1. ASSUME NEW f \in Files \cup {Dir}, OpenFile(f) PROVE BlockInv' /\ FileContents'
  <2>1. BlockInv'
    BY <1>1 DEF OpenFile, BlockInv
  <2>2. ASSUME NEW p \in Procs, (inode_ptr[p])' # Closed
        PROVE  delivered'[p] = [k \in 1 .. file_position'[p] |-> Content(inode_ptr'[p], k - 1)]
    <3>1. CASE p = current_pcb
      BY <1>1, <3>1 DEF OpenFile, PInv, TypeOK
    <3>2. CASE p # current_pcb
      BY <1>1, <2>2, <3>2 DEF OpenFile, PInv, TypeOK, FileContents
    <3> QED BY <3>1, <3>2
  <2> QED BY <2>1, <2>2 DEF FileContents, Content, data_blocks
<1>2. CASE CloseFile
  <2>1. BlockInv'
    BY <1>2 DEF CloseFile, BlockInv
  <2>2. ASSUME NEW p \in Procs, inode_ptr'[p] # Closed
        PROVE  delivered'[p] = [k \in 1 .. file_position'[p] |-> Content(inode_ptr'[p], k - 1)]
    <3>1. p # current_pcb
      BY <1>2, <2>2 DEF CloseFile, PInv, TypeOK
    <3> QED BY <1>2, <2>2, <3>1 DEF CloseFile, PInv, TypeOK, FileContents
  <2> QED BY <2>1, <2>2 DEF FileContents, Content, data_blocks
<1>3. CASE ReadDirEnd
  BY <1>3 DEF ReadDirEnd, vars, locals, BlockInv, FileContents, Content, data_blocks
<1>4. CASE ReadDirTest
  BY <1>4 DEF ReadDirTest, locals, BlockInv, FileContents, Content, data_blocks
<1>5. CASE ReadDirCopy
  <2> DEFINE c == current_pcb
             n == file_position[c]
  <2>1. c \in Procs /\ n \in Nat /\ inode_ptr[c] = Dir /\ Dir # Closed
    BY <1>5 DEF ReadDirCopy, PInv, TypeOK, DirInv, Dir, Closed
  <2>2. delivered[c] = [k \in 1 .. n |-> Content(Dir, k - 1)]
    BY <2>1, Zenon DEF FileContents
  <2>3. <<DirEntry, n>> = Content(Dir, n)
    BY DEF Content
  <2>4. Append(delivered[c], <<DirEntry, n>>) = [k \in 1 .. n + 1 |-> Content(Dir, k - 1)]
    BY <2>1, <2>2, <2>3, ExtendPrefix
  <2>5. BlockInv'
    BY <1>5 DEF ReadDirCopy, BlockInv
  <2>6. ASSUME NEW p \in Procs, inode_ptr'[p] # Closed
        PROVE  delivered'[p] = [k \in 1 .. file_position'[p] |-> Content(inode_ptr'[p], k - 1)]
    <3>1. CASE p = c
      <4>1. inode_ptr'[p] = Dir /\ file_position'[p] = n + 1
        BY <1>5, <2>1, <3>1 DEF ReadDirCopy, PInv, TypeOK
      <4>2. delivered'[p] = Append(delivered[c], <<DirEntry, n>>)
        BY <1>5, <2>1, <3>1 DEF ReadDirCopy, PInv, TypeOK
      <4> QED BY <2>4, <4>1, <4>2, Zenon
    <3>2. CASE p # c
      BY <1>5, <2>6, <3>2 DEF ReadDirCopy, PInv, TypeOK, FileContents
    <3> QED BY <3>1, <3>2
  <2> QED BY <2>5, <2>6 DEF FileContents, Content, data_blocks
<1>6. ASSUME NEW f \in Files, NEW n \in Sizes[f], ReadDataOne(f, n) PROVE BlockInv' /\ FileContents'
  <2>1. BlockInv'
    BY <1>6 DEF ReadDataOne, BlockInv, cur_datablock, data_blocks
  <2>2. FileContents'
    BY <1>6 DEF ReadDataOne, FileContents, Content, data_blocks
  <2> QED BY <2>1, <2>2
<1>7. CASE CopyByte
  <2> DEFINE c == current_pcb
             f == inode_ptr[c]
             n == file_position[c]
  <2>1. /\ c \in Procs /\ n \in Nat /\ f \in Files /\ f # Closed /\ f # Dir
        /\ caller = c /\ offset = n /\ offset < f_size /\ f_size = Length[f]
        /\ cur_offset = n % BLOCK_SIZE /\ cur_offset \in 0 .. BLOCK_SIZE - 1
    BY <1>7 DEF CopyByte, MoreToRead, PInv, TypeOK, LoopInv
  <2>2. datablock_number = data_blocks(f, n \div BLOCK_SIZE)
    BY <1>7, <2>1 DEF CopyByte, BlockInv
  <2>3. delivered[c] = [k \in 1 .. n |-> Content(f, k - 1)]
    BY <2>1, Zenon DEF FileContents
  <2>4. <<datablock_number, cur_offset>> = Content(f, n)
    BY <2>1, <2>2 DEF Content
  <2>5. Append(delivered[c], <<datablock_number, cur_offset>>)
          = [k \in 1 .. n + 1 |-> Content(f, k - 1)]
    BY <2>1, <2>3, <2>4, ExtendPrefix
  <2>6. BlockInv'
    <3> SUFFICES ASSUME n + 1 < Length[f]
                 PROVE  datablock_number' = data_blocks(f, (n + 1) \div BLOCK_SIZE)
      BY <1>7, <2>1 DEF CopyByte, BlockInv, data_blocks
    <3>1. datablock_number' =
            IF cur_offset + 1 = BLOCK_SIZE THEN datablock_number + 1 ELSE datablock_number
      BY <1>7, <2>1, BlockSizeAssumption, WrapTest DEF CopyByte, AdvanceInBlock
    <3> QED BY <2>1, <2>2, <3>1, NextBlock
  <2>7. ASSUME NEW p \in Procs, inode_ptr'[p] # Closed
        PROVE  delivered'[p] = [k \in 1 .. file_position'[p] |-> Content(inode_ptr'[p], k - 1)]
    <3>1. CASE p = c
      <4>1. inode_ptr'[p] = f /\ file_position'[p] = n + 1
        BY <1>7, <2>1, <3>1 DEF CopyByte, PInv, TypeOK
      <4>2. delivered'[p] = Append(delivered[c], <<datablock_number, cur_offset>>)
        BY <1>7, <2>1, <3>1 DEF CopyByte, PInv, TypeOK
      <4> QED BY <2>5, <4>1, <4>2, Zenon
    <3>2. CASE p # c
      BY <1>7, <2>7, <3>2 DEF CopyByte, PInv, TypeOK, FileContents
    <3> QED BY <3>1, <3>2
  <2> QED BY <2>6, <2>7 DEF FileContents, Content, data_blocks
<1>8. CASE ReturnCount
  BY <1>8 DEF ReturnCount, locals, BlockInv, FileContents, Content, data_blocks
<1>9. ASSUME NEW p \in Procs, SwitchTerminal(p) PROVE BlockInv' /\ FileContents'
  BY <1>9 DEF SwitchTerminal, SwitchAtUser, locals, BlockInv, FileContents, Content, data_blocks
<1>10. CASE UNCHANGED vars
  BY <1>10 DEF vars, locals, BlockInv, FileContents, Content, data_blocks
<1> QED BY <1>1, <1>2, <1>3, <1>4, <1>5, <1>6, <1>7, <1>8, <1>9, <1>10 DEF Next

\* When the blocks of each file are consecutive, what a process has read is
\* the beginning of its file, for every block size and every cut into reads
\* (read_data_one, read_dir).
THEOREM Contents ==
    ASSUME SwitchAtUser, Contiguous
    PROVE  Spec => []FileContents
<1>1. CInv => FileContents
  BY DEF CInv
<1> QED BY <1>1, InitCInv, NextCInv, PTL DEF Spec
=============================================================================
