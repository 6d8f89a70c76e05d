--------------------------- MODULE MCDescriptors ---------------------------
(* Instances of Descriptors.                                                *)
EXTENDS Descriptors, TLC

AtUser == {"user"}
Symmetry == Permutations(Procs)

(* The points at which Ctrl-C leaves no descriptor between two uses: those  *)
(* at which file_ops of the descriptor at hand is null, or flags is set.    *)
LeakFree == {"user", "open_ops", "close_inode", "close_flags"}
=============================================================================
