------------------------------ MODULE Keyboard ------------------------------
(***************************************************************************)
(* The modifier state of the keyboard driver (keyboard.c).  The keyboard   *)
(* sends a scan code for every press and release, and keeps sending the    *)
(* code of a key that is held; codes wait in the controller while          *)
(* interrupts are off.  keyboard_handler keeps flags that are meant to     *)
(* follow the keys, and switches terminals on Alt with a function key.     *)
(* Here the handler is one step; Interrupts shows that the real one, which *)
(* other interrupts may interrupt, behaves as if it were.                  *)
(***************************************************************************)
EXTENDS Integers, Sequences

CONSTANTS
    Keys,        \* keys of the keyboard in use
    Repeats,     \* keys that are held long enough to be sent again (typematic)
    QUEUE_MAX    \* bound on the codes waiting in the controller

FunctionKeys == {"f1", "f2", "f3"}
Shifts == {"lshift", "rshift"}
TerminalOf == [f1 |-> 0, f2 |-> 1, f3 |-> 2]

VARIABLES
    down, caps_lock, wanted,   \* external: keys held, Caps Lock, terminal asked for
    queue,                     \* external: codes not yet read by the handler
    ctrl_flag, cap_flag, alt_flag, curr_terminal

driver == <<ctrl_flag, cap_flag, alt_flag, curr_terminal>>
vars == <<down, caps_lock, wanted, queue, driver>>

\* keyboard_init, with no key held.
Init ==
    /\ down = {} /\ caps_lock = FALSE /\ wanted = 0 /\ queue = << >>
    /\ ctrl_flag = 0 /\ cap_flag = 0 /\ alt_flag = 0 /\ curr_terminal = 0

Make(k) == [key |-> k, make |-> TRUE]
Break(k) == [key |-> k, make |-> FALSE]
Send(code) == Len(queue) < QUEUE_MAX /\ queue' = Append(queue, code)

Press(k) ==
    /\ k \notin down /\ Send(Make(k))
    /\ down' = down \cup {k}
    /\ caps_lock' = IF k = "caps" THEN ~caps_lock ELSE caps_lock
    /\ wanted' = IF k \in FunctionKeys /\ "alt" \in down THEN TerminalOf[k] ELSE wanted
    /\ UNCHANGED driver

Repeat(k) ==
    /\ k \in down /\ Send(Make(k))
    /\ UNCHANGED <<down, caps_lock, wanted, driver>>

Release(k) ==
    /\ k \in down /\ Send(Break(k))
    /\ down' = down \ {k}
    /\ UNCHANGED <<caps_lock, wanted, driver>>

-----------------------------------------------------------------------------
(* keyboard_handler, flag by flag, for scan code s.                        *)

\* Set on a press and cleared on a release.
ctrl_after(s) == IF s.key # "ctrl" THEN ctrl_flag ELSE IF s.make THEN 1 ELSE 0

\* Set on a press, but negated on a release.
alt_after(s) == IF s.key # "alt" THEN alt_flag ELSE IF s.make THEN 1 ELSE 1 - alt_flag

\* Both shifts toggle on press and on release, Caps Lock on press.  The
\* variant ignores releases.
cap_after_press(s) ==
    IF s.make /\ s.key \in Shifts \cup {"caps"} THEN 1 - cap_flag ELSE cap_flag
cap_after(s) ==
    IF s.key \in Shifts \/ (s.key = "caps" /\ s.make) THEN 1 - cap_flag ELSE cap_flag

\* Alt with a function key.  The variant does not look at Alt.
terminal_after_any(s) ==
    IF s.make /\ s.key \in FunctionKeys THEN TerminalOf[s.key] ELSE curr_terminal
terminal_after(s) ==
    IF s.make /\ s.key \in FunctionKeys /\ alt_flag = 1
    THEN TerminalOf[s.key] ELSE curr_terminal

keyboard_handler ==
    /\ queue # << >>
    /\ LET s == Head(queue)
       IN  /\ ctrl_flag' = ctrl_after(s) /\ alt_flag' = alt_after(s)
           /\ cap_flag' = cap_after(s) /\ curr_terminal' = terminal_after(s)
    /\ queue' = Tail(queue)
    /\ UNCHANGED <<down, caps_lock, wanted>>

Next ==
    \/ \E k \in Keys : Press(k)
    \/ \E k \in Repeats : Repeat(k)
    \/ \E k \in Keys : Release(k)
    \/ keyboard_handler

Spec == Init /\ [][Next]_vars

-----------------------------------------------------------------------------
\* Once the handler has caught up, the flags say which modifiers are held,
\* and shift inverts Caps Lock.
FlagsFollowKeys ==
    queue = << >> =>
        /\ ctrl_flag = 1 <=> "ctrl" \in down
        /\ alt_flag = 1 <=> "alt" \in down
        /\ cap_flag = 1 <=> (caps_lock # (down \cap Shifts # {}))

\* Once the handler has caught up, the terminal in front is the one last
\* asked for, also when Alt was released before the handler saw the key.
SwitchesAsAsked == queue = << >> => curr_terminal = wanted
=============================================================================
