----------------------------- MODULE MCFileRead -----------------------------
(* Instances of FileRead: two terminals; "near" and "far" have two blocks   *)
(* of four bytes, next to each other or apart, as createfs often lays them. *)
EXTENDS FileRead

Lengths == [f \in Files |-> BLOCK_SIZE + 1]
Layout == [f \in Files |-> IF f = "near" THEN <<4, 5>> ELSE <<7, 2>>]
AtUser == {"user"}

(* Reads of any size of "near"; of "far", reads of one size that divides a  *)
(* block, as cat's 1024 bytes divide 4096.                                  *)
CutUp == [f \in Files |-> IF f = "near" THEN {0, 1, 3, 6} ELSE {2}]
Crossing == [f \in Files |-> {3}]

(* filesystem.c:241, of read_file: "Fills buffer with the contents of the   *)
(* file descriptor", in whatever blocks the file lies.                      *)
ReadFillsContents == FileContents
=============================================================================
