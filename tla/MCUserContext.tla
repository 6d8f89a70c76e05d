--------------------------- MODULE MCUserContext ---------------------------
(***************************************************************************)
(* Model checking of UserContext, and of Paging on top of it.              *)
(***************************************************************************)
EXTENDS Paging

AtUser == {"user"}
NoPoints == {}

(* Reach of the program images: all fit, or "prog" is as large as fish,     *)
(* whose 36kB cover four further kernel stacks.                             *)
AllFit  == [c \in Programs |-> 0]
FishBig == [c \in Programs |-> IF c = "prog" THEN 4 ELSE 0]

(* syscall.c:22 says of halt: "Terminates Caller Process".  halt() ends     *)
(* current_pcb, so the process whose registers entered it must be that.     *)
CallerIsCurrent == [][HaltSyscall => regs = current_pcb]_uvars
=============================================================================
