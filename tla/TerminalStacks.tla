--------------------------- MODULE TerminalStacks ---------------------------
(***************************************************************************)
(* What process control promises its users.  Every terminal is a stack of  *)
(* running programs: execute() pushes onto the stack on the screen, the    *)
(* end of a program uncovers the one that started it, ALT+Fn only changes  *)
(* which stack is on the screen, and MaxRunning bounds all stacks together.*)
(***************************************************************************)
EXTENDS Naturals, Sequences, FiniteSets

CONSTANTS Screens, Programs, MaxRunning

VARIABLES stack, shown

svars == <<stack, shown>>

Init == stack = [t \in Screens |-> <<>>] /\ shown \in Screens

Running == UNION {{<<t, i>> : i \in 1..Len(stack[t])} : t \in Screens}

Start(c) ==
    /\ Cardinality(Running) < MaxRunning
    /\ stack' = [stack EXCEPT ![shown] = Append(@, c)]
    /\ UNCHANGED shown

Exit ==
    /\ stack[shown] # <<>>
    /\ stack' = [stack EXCEPT ![shown] = SubSeq(@, 1, Len(@) - 1)]
    /\ UNCHANGED shown

Show(t) == shown' = t /\ UNCHANGED stack

Next == (\E c \in Programs : Start(c)) \/ Exit \/ \E t \in Screens : Show(t)

Spec == Init /\ [][Next]_svars
=============================================================================
