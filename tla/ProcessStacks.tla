--------------------------- MODULE ProcessStacks ----------------------------
(***************************************************************************)
(* The process table seen as the stacks of programs that TerminalStacks    *)
(* promises.                                                               *)
(***************************************************************************)
EXTENDS ProcessControl, Sequences

(* The n processes from a base shell up to process top, by the parents par; *)
(* none if the parents do not lead from top to a base shell in n steps.     *)
IsLineage(par, top, n, w) ==
    /\ top = IF n = 0 THEN 0 ELSE w[n]
    /\ \A i \in 1..n : par[w[i]] = IF i = 1 THEN 0 ELSE w[i - 1]

Lineage(par, top, n) ==
    IF \E w \in [1..n -> Procs] : IsLineage(par, top, n, w)
    THEN CHOOSE w \in [1..n -> Procs] : IsLineage(par, top, n, w)
    ELSE <<>>

(* The programs of a terminal.                                              *)
StackOf(t) ==
    LET w == Lineage(parent_id, top_process_id[t], num_process[t])
    IN  [i \in 1..Len(w) |-> cmd_name[w[i]]]

Stacks == INSTANCE TerminalStacks WITH
    Screens    <- Terminals,
    MaxRunning <- MAX_PROCESSES - 1,
    stack      <- [t \in Terminals |-> StackOf(t)],
    shown      <- curr_terminal

(* Process control implements the stacks of programs: no step of execute(), *)
(* halt() or switch_terminal, wherever CTRL+C lands, starts, ends or        *)
(* reorders a program on a terminal other than as the stacks allow.         *)
ImplementsStacks == Stacks!Spec
=============================================================================
