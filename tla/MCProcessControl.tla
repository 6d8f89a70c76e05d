-------------------------- MODULE MCProcessControl --------------------------
(***************************************************************************)
(* Model checking of ProcessControl: the refinement of TerminalStacks and  *)
(* the progress of the kernel.                                             *)
(***************************************************************************)
EXTENDS ProcessStacks

(***************************************************************************)
(* A set of control points for the configurations.                         *)
(***************************************************************************)
NoPoints == {}

(* Reach of the program images: all fit, or "prog" is as large as fish,     *)
(* whose 36kB cover four further kernel stacks.                             *)
AllFit  == [c \in Programs |-> 0]
FishBig == [c \in Programs |-> IF c = "prog" THEN 4 ELSE 0]

(* The kernel gets back to the user: once execute() or halt() is entered,   *)
(* user code runs again, or the machine was reset by a triple fault.        *)
KernelReturns ==
    pc \notin Settled \cup {"crashed"} ~> pc \in Settled \cup {"crashed"}
=============================================================================
