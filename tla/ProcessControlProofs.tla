------------------------ MODULE ProcessControlProofs ------------------------
(***************************************************************************)
(* Proofs about ProcessControl for tables and terminals of every size and  *)
(* for key presses at every control point, except that terminal switches   *)
(* are restricted to SafeSwitchPoints.                                     *)
(***************************************************************************)
EXTENDS ProcessControl, FiniteSetTheorems, TLAPS

\* The obligations are large: the provers are given more than their usual time.
USE SMTT(10), ZenonT(15)

(***************************************************************************)
(* The inductive invariant.                                                *)
(***************************************************************************)

\* What identifies a process, and that no slot is in use twice.
Table ==
    /\ \A p \in Slots : program_id[p] \in {0, p}
    /\ parent_id[0] = 0
    /\ \A p \in Live : process_terminal[p] \in Terminals
    /\ process_number = Cardinality(Live)
    /\ current_pcb = top_process_id[curr_terminal]

\* CR3 and tss.esp0 are those of current_pcb at every point that leads back
\* to user mode without reloading them.
Loaded ==
    pc \in Settled \cup {"execute"} /\ current_pcb # 0 =>
        cr3 = current_pcb /\ tss_esp0 = current_pcb

Frames ==
    \A p \in Live : parent_id[p] # 0 =>
        esp[p] = parent_id[p] /\ tss_esp0 # parent_id[p]

Images == \A p \in Live : image[p] = cmd_name[p] /\ cmd_name[p] \in Programs

\* What holds at the boot prompt and at the control points of execute().
InExecute ==
    /\ pc = "boot" => Live = {}
    /\ pc = "execute" =>
         \/ ret = "user" /\ (current_pcb # 0 => kstack = current_pcb)
                         /\ (current_pcb = 0 => process_number = MAX_PROCESSES - 1)
         \/ ret = "idle" /\ cmd = "shell" /\ current_pcb = 0
    /\ pc = "relaunch" =>
         /\ ret = "halt_nested" /\ cmd = "shell" /\ current_pcb = 0
         /\ process_number < MAX_PROCESSES - 1

\* What holds at the control points of halt().
InHalt ==
    /\ pc \in {"halt_base", "halt_base_destroy"} => num_process[curr_terminal] = 1
    /\ pc \in {"halt_nested", "halt_close", "halt_destroy"} =>
         num_process[curr_terminal] # 1
    /\ pc \in {"halt_close", "halt_destroy"} =>
         current_pcb # 0 /\ kstack = parent_id[current_pcb]
    /\ pc = "halt_reload" => current_pcb # 0 /\ kstack = current_pcb
    /\ pc \in {"halt_base_destroy", "halt_destroy"} => file_array[current_pcb] = {}

Keyboard ==
    /\ isr => pc = "execute"
    /\ pc \in Settled \cup {"boot"} => if_flag

IInv ==
    /\ TypeOK /\ Table /\ TerminalChains /\ Loaded /\ Frames /\ Images
    /\ InExecute /\ InHalt /\ Keyboard
    /\ ClosedOnExit /\ NoProcessOnlyWhenFull

-----------------------------------------------------------------------------
(***************************************************************************)
(* Facts about the process table.                                          *)
(***************************************************************************)

\* The sets of slots are finite, and slot 0 is the only one that is no
\* process slot.
LEMMA SlotsFacts ==
    /\ IsFiniteSet(Procs) /\ Cardinality(Procs) = MAX_PROCESSES - 1
    /\ Slots = Procs \cup {0} /\ 0 \notin Procs /\ Procs \subseteq Nat
    /\ 1 \in Procs
    /\ IsFiniteSet(Live) /\ Live \subseteq Procs
<1>1. IsFiniteSet(Procs) /\ Cardinality(Procs) = MAX_PROCESSES - 1
  BY FS_Interval, ConstantsAssumption DEF Procs
<1>2. Slots = Procs \cup {0} /\ 0 \notin Procs /\ Procs \subseteq Nat /\ 1 \in Procs
  BY ConstantsAssumption DEF Slots, Procs
<1>3. Live \subseteq Procs
  BY DEF Live
<1>4. IsFiniteSet(Live)
  BY <1>1, <1>3, FS_Subset
<1> QED
  BY <1>1, <1>2, <1>3, <1>4

\* The shell that the kernel starts by itself is a command.
LEMMA ShellCommand == "shell" \in Commands
BY ConstantsAssumption DEF Commands

\* A set of numbers has a least element: what the searches from the lowest
\* slot or descriptor upwards find.
LEMMA LeastElement ==
    ASSUME NEW S, S \subseteq Nat, S # {}
    PROVE  \E p \in S : \A q \in S : p <= q
<1>1. PICK p \in S : \A q \in S : ~(<<q, p>> \in OpToRel(<, Nat))
  BY NatLessThanWellFounded, WFMin, Zenon
<1>2. ASSUME NEW q \in S PROVE p <= q
  <2>1. <<q, p>> \notin OpToRel(<, Nat)
    BY <1>1, Zenon
  <2>2. p \in Nat /\ q \in Nat
    OBVIOUS
  <2>3. ~(q < p)
    BY <2>1, <2>2 DEF OpToRel
  <2> QED
    BY <2>2, <2>3
<1> QED
  BY <1>2

\* Behind the limit test of execute() there is a free slot, and
\* find_free_pcb returns one.
LEMMA FreeSlot ==
    ASSUME TypeOK, Table, ~ProcessLimit
    PROVE  /\ FreeSlots # {} /\ find_free_pcb \in FreeSlots
           /\ find_free_pcb \in Procs /\ find_free_pcb \notin Live
           /\ process_number \in Nat /\ process_number < MAX_PROCESSES - 1
           /\ Inc(process_number) = process_number + 1
<1>1. process_number \in Nat /\ process_number <= MAX_PROCESSES - 1
  BY SlotsFacts, FS_Subset, FS_CardinalityType, Zenon DEF Table
<1>2. Inc(process_number) = process_number + 1
  BY <1>1, ConstantsAssumption DEF Inc
<1>3. process_number < MAX_PROCESSES - 1
  BY <1>1, <1>2, ConstantsAssumption DEF ProcessLimit
<1>4. Live # Procs
  BY <1>3, SlotsFacts, ConstantsAssumption DEF Table
<1>5. FreeSlots # {}
  BY <1>4 DEF FreeSlots, Live
<1>6. FreeSlots \subseteq Nat
  BY SlotsFacts, Zenon DEF FreeSlots
<1>7. \E p \in FreeSlots : \A q \in FreeSlots : p <= q
  BY <1>5, <1>6, LeastElement, Zenon
<1>8. find_free_pcb \in FreeSlots
  BY <1>7 DEF find_free_pcb
<1> QED
  BY <1>1, <1>2, <1>3, <1>5, <1>8 DEF FreeSlots, Live

HasChain(t) == \E f \in [1..num_process[t] -> LiveOn(t)] : ChainOf(t, f)

\* What the chain of a terminal says about its processes.
LEMMA ChainFacts ==
    ASSUME TypeOK, Table, TerminalChains, NEW t \in Terminals
    PROVE  /\ num_process[t] \in Nat /\ num_process[t] <= MAX_PROCESSES - 1
           /\ top_process_id[t] = 0 <=> num_process[t] = 0
           /\ top_process_id[t] # 0 => top_process_id[t] \in LiveOn(t)
           /\ num_process[t] = 1 => parent_id[top_process_id[t]] = 0
           /\ num_process[t] > 1 => parent_id[top_process_id[t]] # 0
           /\ \A p \in LiveOn(t) : parent_id[p] # 0 => parent_id[p] \in LiveOn(t)
           /\ \A p \in LiveOn(t) : parent_id[p] # 0 => parent_id[p] # top_process_id[t]
<1> DEFINE n == num_process[t]
<1>1. n \in Nat
  BY ConstantsAssumption DEF TypeOK
<1>2. PICK f \in [1..n -> LiveOn(t)] : ChainOf(t, f)
  BY DEF TerminalChains
<1>3. LiveOn(t) \subseteq Live /\ LiveOn(t) \subseteq Procs
  BY SlotsFacts, Zenon DEF LiveOn
<1>4. /\ \A i \in 1..n : parent_id[f[i]] = IF i = 1 THEN 0 ELSE f[i - 1]
      /\ \A i, j \in 1..n : f[i] = f[j] => i = j
      /\ \A p \in LiveOn(t) : \E i \in 1..n : f[i] = p
      /\ top_process_id[t] = IF n = 0 THEN 0 ELSE f[n]
  BY <1>2 DEF ChainOf
<1>5. \A i \in 1..n : f[i] \in LiveOn(t) /\ f[i] # 0
  BY <1>2, <1>3, SlotsFacts
<1>6. n <= MAX_PROCESSES - 1
  <2>1. IsFiniteSet(1..n) /\ Cardinality(1..n) = n
    BY <1>1, FS_Interval
  <2>2. f \in Injection(1..n, Procs)
    <3>1. f \in [1..n -> Procs]
      BY <1>2, <1>3
    <3> QED
      BY <3>1, <1>4 DEF Injection, IsInjective
  <2> QED
    BY <2>1, <2>2, SlotsFacts, FS_Injection
<1>7. top_process_id[t] = 0 <=> n = 0
  BY <1>1, <1>4, <1>5
<1>8. top_process_id[t] # 0 => top_process_id[t] \in LiveOn(t)
  BY <1>1, <1>4, <1>5
<1>9. n = 1 => parent_id[top_process_id[t]] = 0
  BY <1>4
<1>10. n > 1 => parent_id[top_process_id[t]] # 0
  <2> SUFFICES ASSUME n > 1 PROVE parent_id[f[n]] # 0
    BY <1>1, <1>4
  <2>1. n \in 1..n /\ n - 1 \in 1..n /\ n # 1
    BY <1>1
  <2> QED
    BY <2>1, <1>4, <1>5
<1>11. ASSUME NEW p \in LiveOn(t), parent_id[p] # 0
       PROVE  parent_id[p] \in LiveOn(t) /\ parent_id[p] # top_process_id[t]
  <2>1. PICK i \in 1..n : f[i] = p
    BY <1>4
  <2>2. i # 1 /\ parent_id[p] = f[i - 1]
    BY <2>1, <1>4, <1>11
  <2>3. i - 1 \in 1..n /\ n \in 1..n /\ i - 1 # n /\ n # 0
    BY <2>1, <2>2, <1>1
  <2>4. f[i - 1] # f[n]
    BY <2>3, <1>4
  <2> QED
    BY <2>2, <2>3, <2>4, <1>4, <1>5
<1> QED
  BY <1>1, <1>6, <1>7, <1>8, <1>9, <1>10, <1>11

\* A parent lives as long as its child, and is not the top process of any
\* terminal.
LEMMA ParentLive ==
    ASSUME TypeOK, Table, TerminalChains, NEW p \in Live, parent_id[p] # 0
    PROVE  parent_id[p] \in Live /\ \A t \in Terminals : parent_id[p] # top_process_id[t]
<1>1. process_terminal[p] \in Terminals /\ p \in LiveOn(process_terminal[p])
  BY DEF Table, LiveOn
<1>2. parent_id[p] \in LiveOn(process_terminal[p])
  BY <1>1, ChainFacts
<1>3. parent_id[p] # top_process_id[process_terminal[p]]
  BY <1>1, ChainFacts
<1>4. ASSUME NEW t \in Terminals, t # process_terminal[p]
      PROVE  parent_id[p] # top_process_id[t]
  <2>1. top_process_id[t] # 0 => top_process_id[t] \in LiveOn(t)
    BY ChainFacts
  <2> QED
    BY <2>1, <1>2, <1>4 DEF LiveOn
<1> QED
  BY <1>2, <1>3, <1>4 DEF LiveOn

\* A step that leaves the processes of a terminal alone keeps their chain.
LEMMA ChainUnchanged ==
    ASSUME NEW t \in Terminals, HasChain(t),
           LiveOn(t)' = LiveOn(t),
           \A p \in LiveOn(t) : parent_id'[p] = parent_id[p],
           num_process'[t] = num_process[t],
           top_process_id'[t] = top_process_id[t]
    PROVE  HasChain(t)'
<1>1. PICK f \in [1..num_process[t] -> LiveOn(t)] : ChainOf(t, f)
  BY DEF HasChain
<1>2. f \in [1..num_process'[t] -> LiveOn(t)']
  BY <1>1
<1>3. ChainOf(t, f)'
  BY <1>1 DEF ChainOf
<1> QED
  BY <1>2, <1>3 DEF HasChain

\* pcb_init and the parent_id of execute() append the new process to the
\* chain of the terminal on the screen.
Pushed(new) ==
    /\ program_id' = [program_id EXCEPT ![new] = new]
    /\ parent_id' = [parent_id EXCEPT ![new] = program_id[current_pcb]]
    /\ process_terminal' = [process_terminal EXCEPT ![new] = curr_terminal]
    /\ num_process' = [num_process EXCEPT ![curr_terminal] = Inc(@)]
    /\ top_process_id' = [top_process_id EXCEPT ![curr_terminal] = new]
    /\ curr_terminal' = curr_terminal

\* After pcb_init the new slot is in use, on the terminal on the screen.
LEMMA PushLive ==
    ASSUME TypeOK, NEW new \in Procs \ Live, Pushed(new)
    PROVE  /\ Live' = Live \cup {new}
           /\ LiveOn(curr_terminal)' = LiveOn(curr_terminal) \cup {new}
           /\ \A t \in Terminals \ {curr_terminal} : LiveOn(t)' = LiveOn(t)
<1>1. new # 0 /\ new \in Slots
  BY SlotsFacts
<1>2. \A p \in Procs : /\ program_id'[p] = IF p = new THEN new ELSE program_id[p]
                       /\ process_terminal'[p] =
                            IF p = new THEN curr_terminal ELSE process_terminal[p]
  BY SlotsFacts DEF Pushed, TypeOK
<1>3. Live' = Live \cup {new}
  BY <1>1, <1>2 DEF Live
<1>4. curr_terminal' = curr_terminal
  BY DEF Pushed
<1>5. ASSUME NEW t \in Terminals
      PROVE  {p \in Live' : process_terminal'[p] = t} =
               IF t = curr_terminal THEN LiveOn(t) \cup {new} ELSE LiveOn(t)
  BY <1>2, <1>3 DEF LiveOn, Live
<1>6. curr_terminal \in Terminals
  BY DEF TypeOK
<1> QED
  BY <1>3, <1>4, <1>5, <1>6 DEF LiveOn

\* execute() keeps the chains: the new process goes on top of its parent.
LEMMA PushChain ==
    ASSUME TypeOK, Table, TerminalChains, NEW new \in Procs \ Live, Pushed(new)
    PROVE  TerminalChains'
<1>1. new # 0 /\ new \in Slots
  BY SlotsFacts
<1>2. \A p \in Live : parent_id'[p] = parent_id[p]
  BY SlotsFacts DEF Pushed, TypeOK
<1>3. ASSUME NEW t \in Terminals, t # curr_terminal
      PROVE  HasChain(t)'
  <2>1. HasChain(t)
    BY DEF TerminalChains, HasChain
  <2>2. LiveOn(t)' = LiveOn(t)
    BY <1>3, PushLive
  <2>3. \A p \in LiveOn(t) : parent_id'[p] = parent_id[p]
    BY <1>2 DEF LiveOn
  <2>4. num_process'[t] = num_process[t] /\ top_process_id'[t] = top_process_id[t]
    BY <1>3 DEF Pushed, TypeOK
  <2> QED
    BY <2>1, <2>2, <2>3, <2>4, ChainUnchanged
<1>4. ASSUME NEW t \in Terminals, t = curr_terminal
      PROVE  HasChain(t)'
  <2>0. t \in Terminals /\ t = curr_terminal /\ curr_terminal' = t
    BY <1>4 DEF Pushed
  <2>n. PICK n : n = num_process[t]
    OBVIOUS
  <2>1. PICK f \in [1..n -> LiveOn(t)] : ChainOf(t, f)
    BY <2>0, <2>n DEF TerminalChains
  <2>2. n \in Nat /\ n <= MAX_PROCESSES - 1
    BY <2>0, <2>n, ChainFacts
  <2>3. num_process'[t] = n + 1 /\ top_process_id'[t] = new
    BY <2>0, <2>n, <2>2, ConstantsAssumption DEF Pushed, TypeOK, Inc
  <2>4. LiveOn(t)' = LiveOn(t) \cup {new}
    BY <2>0, PushLive
  <2>5. parent_id'[new] = top_process_id[t]
    <3>1. parent_id'[new] = program_id[current_pcb]
      BY <1>1 DEF Pushed, TypeOK
    <3>2. current_pcb = top_process_id[t]
      BY <2>0 DEF Table
    <3>3. CASE current_pcb = 0
      BY <3>1, <3>2, <3>3, SlotsFacts DEF Table
    <3>4. CASE current_pcb # 0
      <4>1. current_pcb \in Live
        BY <2>0, <3>2, <3>4, ChainFacts DEF LiveOn
      <4>2. program_id[current_pcb] = current_pcb
        BY <4>1, SlotsFacts, Zenon DEF Table, Live
      <4> QED
        BY <4>2, <3>1, <3>2
    <3> QED
      BY <3>3, <3>4
  <2>g. PICK g : g = [i \in 1..(n + 1) |-> IF i = n + 1 THEN new ELSE f[i]]
    BY Zenon
  <2>6. g \in [1..(n + 1) -> LiveOn(t) \cup {new}]
    BY <2>1, <2>2, <2>g
  <2>7. /\ \A i \in 1..n : parent_id[f[i]] = IF i = 1 THEN 0 ELSE f[i - 1]
        /\ \A i, j \in 1..n : f[i] = f[j] => i = j
        /\ \A p \in LiveOn(t) : \E i \in 1..n : f[i] = p
        /\ top_process_id[t] = IF n = 0 THEN 0 ELSE f[n]
    BY <2>1, <2>n DEF ChainOf
  <2>8. \A i \in 1..n : f[i] \in Live /\ f[i] # new /\ g[i] = f[i] /\ i \in 1..(n + 1)
    BY <2>1, <2>2, <2>g DEF LiveOn
  <2>9. g[n + 1] = new /\ n + 1 \in 1..(n + 1)
    BY <2>2, <2>g
  <2>10. ASSUME NEW i \in 1..(n + 1)
         PROVE  parent_id'[g[i]] = IF i = 1 THEN 0 ELSE g[i - 1]
    <3>1. CASE i = n + 1
      <4>1. parent_id'[g[i]] = IF n = 0 THEN 0 ELSE f[n]
        BY <3>1, <2>5, <2>7, <2>9
      <4>2. CASE n = 0
        BY <4>1, <4>2, <3>1
      <4>3. CASE n # 0
        <5>1. i # 1 /\ i - 1 = n /\ n \in 1..n
          BY <2>2, <3>1, <4>3
        <5> QED
          BY <4>1, <4>3, <5>1, <2>8
      <4> QED
        BY <4>2, <4>3
    <3>2. CASE i # n + 1
      <4>1. i \in 1..n /\ (i # 1 => i - 1 \in 1..n)
        BY <2>2, <3>2
      <4> QED
        BY <4>1, <2>7, <2>8, <1>2
    <3> QED
      BY <3>1, <3>2
  <2>11. \A i, j \in 1..(n + 1) : g[i] = g[j] => i = j
    <3>1. \A i \in 1..(n + 1) : i = n + 1 \/ i \in 1..n
      BY <2>2
    <3> QED
      BY <3>1, <2>7, <2>8, <2>9
  <2>12. \A p \in LiveOn(t) \cup {new} : \E i \in 1..(n + 1) : g[i] = p
    BY <2>7, <2>8, <2>9
  <2>13. n + 1 # 0
    BY <2>2
  <2>14. ChainOf(t, g)' <=>
           /\ \A i \in 1..num_process'[t] :
                parent_id'[g[i]] = IF i = 1 THEN 0 ELSE g[i - 1]
           /\ \A i, j \in 1..num_process'[t] : g[i] = g[j] => i = j
           /\ \A p \in LiveOn(t)' : \E i \in 1..num_process'[t] : g[i] = p
           /\ top_process_id'[t] =
                IF num_process'[t] = 0 THEN 0 ELSE g[num_process'[t]]
    BY DEF ChainOf
  <2>15. ChainOf(t, g)'
    BY <2>3, <2>4, <2>9, <2>10, <2>11, <2>12, <2>13, <2>14
  <2>16. g \in [1..num_process'[t] -> LiveOn(t)']
    BY <2>3, <2>4, <2>6
  <2> QED
    BY <2>15, <2>16 DEF HasChain
<1> QED
  BY <1>3, <1>4 DEF TerminalChains, HasChain

\* pcb_destroy of the top process frees its slot and no other.
LEMMA PopLive ==
    ASSUME TypeOK, Table, TerminalChains, current_pcb # 0, pcb_destroy(current_pcb)
    PROVE  /\ current_pcb \in LiveOn(curr_terminal)
           /\ Live' = Live \ {current_pcb}
           /\ \A t \in Terminals : LiveOn(t)' = LiveOn(t) \ {current_pcb}
<1>1. curr_terminal \in Terminals /\ current_pcb = top_process_id[curr_terminal]
  BY DEF TypeOK, Table
<1>2. current_pcb \in LiveOn(curr_terminal)
  BY <1>1, ChainFacts
<1>3. current_pcb \in Procs
  BY <1>2, SlotsFacts DEF LiveOn
<1>4. \A p \in Procs : /\ program_id'[p] = IF p = current_pcb THEN 0 ELSE program_id[p]
                       /\ p # current_pcb => process_terminal'[p] = process_terminal[p]
  BY <1>3, SlotsFacts DEF pcb_destroy, ClearSlot, TypeOK
<1>5. Live' = Live \ {current_pcb}
  BY <1>4 DEF Live
<1>6. \A t \in Terminals : {p \in Live' : process_terminal'[p] = t} = LiveOn(t) \ {current_pcb}
  BY <1>4, <1>5 DEF LiveOn, Live
<1> QED
  BY <1>2, <1>5, <1>6 DEF LiveOn

\* pcb_destroy of the top process keeps the chains: its parent is uncovered.
LEMMA PopChain ==
    ASSUME TypeOK, Table, TerminalChains, current_pcb # 0, pcb_destroy(current_pcb)
    PROVE  TerminalChains'
<1>0. PICK c : c = current_pcb
  OBVIOUS
<1>1. /\ c \in Procs /\ c \in Slots /\ c # 0 /\ c \in LiveOn(curr_terminal)
      /\ c = top_process_id[curr_terminal]
      /\ curr_terminal \in Terminals
  BY <1>0, PopLive, SlotsFacts DEF LiveOn, Table, TypeOK
<1>2. \A p \in Live : p # c => parent_id'[p] = parent_id[p]
  BY <1>0, <1>1, SlotsFacts, Zenon DEF pcb_destroy, ClearSlot, TypeOK
<1>3. ASSUME NEW t \in Terminals, t # curr_terminal
      PROVE  HasChain(t)'
  <2>1. HasChain(t)
    BY DEF TerminalChains, HasChain
  <2>2. c \notin LiveOn(t)
    BY <1>1, <1>3 DEF LiveOn
  <2>3. LiveOn(t)' = LiveOn(t)
    BY <1>0, <2>2, PopLive
  <2>4. \A p \in LiveOn(t) : parent_id'[p] = parent_id[p]
    BY <1>2, <2>2 DEF LiveOn
  <2>5. num_process'[t] = num_process[t] /\ top_process_id'[t] = top_process_id[t]
    BY <1>3 DEF pcb_destroy, ClearSlot, TypeOK
  <2> QED
    BY <2>1, <2>3, <2>4, <2>5, ChainUnchanged
<1>4. ASSUME NEW t \in Terminals, t = curr_terminal
      PROVE  HasChain(t)'
  <2>1. PICK n : n = num_process[t]
    OBVIOUS
  <2>2. n \in Nat /\ n # 0
    BY <1>1, <1>4, <2>1, ChainFacts
  <2>3. PICK f \in [1..n -> LiveOn(t)] : ChainOf(t, f)
    BY <2>1 DEF TerminalChains
  <2>4. /\ \A i \in 1..n : parent_id[f[i]] = IF i = 1 THEN 0 ELSE f[i - 1]
        /\ \A i, j \in 1..n : f[i] = f[j] => i = j
        /\ \A p \in LiveOn(t) : \E i \in 1..n : f[i] = p
        /\ f[n] = c
    BY <1>1, <1>4, <2>1, <2>2, <2>3 DEF ChainOf
  <2>5. LiveOn(t)' = LiveOn(t) \ {c}
    BY <1>0, PopLive
  <2>6. num_process'[t] = n - 1
    BY <1>4, <2>1, <2>2 DEF pcb_destroy, ClearSlot, TypeOK, Dec
  <2>7. top_process_id'[t] = parent_id[c]
    BY <1>0, <1>4 DEF pcb_destroy, ClearSlot, TypeOK
  <2>8. \A i \in 1..(n - 1) : i \in 1..n /\ i # n /\ (i # 1 => i - 1 \in 1..(n - 1))
    BY <2>2
  <2>9. \A i \in 1..(n - 1) : f[i] \in LiveOn(t) /\ f[i] # c
    <3>1. n \in 1..n
      BY <2>2
    <3> QED
      BY <2>3, <2>4, <2>8, <3>1
  <2>10. PICK g : g = [i \in 1..(n - 1) |-> f[i]]
    BY Zenon
  <2>11. g \in [1..(n - 1) -> LiveOn(t) \ {c}] /\ \A i \in 1..(n - 1) : g[i] = f[i]
    BY <2>9, <2>10
  <2>12. \A i \in 1..(n - 1) : parent_id'[g[i]] = IF i = 1 THEN 0 ELSE g[i - 1]
    <3> TAKE i \in 1..(n - 1)
    <3>1. parent_id'[g[i]] = parent_id[f[i]]
      BY <1>2, <2>9, <2>11 DEF LiveOn
    <3> QED
      BY <3>1, <2>4, <2>8, <2>11
  <2>13. \A i, j \in 1..(n - 1) : g[i] = g[j] => i = j
    BY <2>4, <2>8, <2>11
  <2>14. \A p \in LiveOn(t) \ {c} : \E i \in 1..(n - 1) : g[i] = p
    <3> TAKE p \in LiveOn(t) \ {c}
    <3>1. PICK i \in 1..n : f[i] = p
      BY <2>4
    <3>2. i # n
      BY <3>1, <2>4
    <3>3. i \in 1..(n - 1)
      BY <2>2, <3>2
    <3> QED
      BY <3>1, <3>3, <2>11
  <2>15. parent_id[c] = IF n - 1 = 0 THEN 0 ELSE g[n - 1]
    <3>1. n \in 1..n /\ (n # 1 => n - 1 \in 1..(n - 1)) /\ (n - 1 = 0 <=> n = 1)
      BY <2>2
    <3>2. parent_id[c] = IF n = 1 THEN 0 ELSE f[n - 1]
      BY <3>1, <2>4
    <3> QED
      BY <3>1, <3>2, <2>11
  <2>16. ChainOf(t, g)' <=>
           /\ \A i \in 1..num_process'[t] :
                parent_id'[g[i]] = IF i = 1 THEN 0 ELSE g[i - 1]
           /\ \A i, j \in 1..num_process'[t] : g[i] = g[j] => i = j
           /\ \A p \in LiveOn(t)' : \E i \in 1..num_process'[t] : g[i] = p
           /\ top_process_id'[t] =
                IF num_process'[t] = 0 THEN 0 ELSE g[num_process'[t]]
    BY DEF ChainOf
  <2>17. ChainOf(t, g)'
    BY <2>5, <2>6, <2>7, <2>12, <2>13, <2>14, <2>15, <2>16
  <2>18. g \in [1..num_process'[t] -> LiveOn(t)']
    BY <2>5, <2>6, <2>11
  <2> QED
    BY <2>17, <2>18 DEF HasChain
<1> QED
  BY <1>3, <1>4 DEF TerminalChains, HasChain

-----------------------------------------------------------------------------
(***************************************************************************)
(* The invariant is inductive.                                             *)
(***************************************************************************)

\* The boot state of entry() satisfies the invariant.
LEMMA InitIInv == Init => IInv
<1> SUFFICES ASSUME Init PROVE IInv
  OBVIOUS
<1> USE SlotsFacts
<1>1. TypeOK
  <2>1. 0 \in Slots /\ 1 \in Slots /\ 0 \in Terminals /\ 0 \in 0..(WORD - 1)
    BY ConstantsAssumption DEF Terminals
  <2>2. /\ program_id \in [Slots -> Slots] /\ parent_id \in [Slots -> Slots]
        /\ process_terminal \in [Slots -> Terminals \cup {NoTerminal}]
        /\ cmd_name \in [Slots -> Commands \cup {"none"}] /\ esp \in [Slots -> Slots]
        /\ file_array \in [Slots -> SUBSET FDs]
        /\ top_process_id \in [Terminals -> Slots]
        /\ num_process \in [Terminals -> 0..(WORD - 1)]
        /\ image \in [Procs -> Programs \cup {"none"}]
    BY <2>1 DEF Init
  <2> QED
    BY <2>1, <2>2, Zenon DEF Init, TypeOK, PCs
<1>2. Live = {} /\ Cardinality(Live) = 0
  <2>1. Live = {}
    BY DEF Init, Live
  <2> QED
    BY <2>1, FS_EmptySet
<1>3. Table
  BY <1>1, <1>2 DEF Table, Init, TypeOK
<1>4. TerminalChains
  <2> SUFFICES ASSUME NEW t \in Terminals
               PROVE  \E f \in [1..num_process[t] -> LiveOn(t)] : ChainOf(t, f)
    BY DEF TerminalChains
  <2>1. num_process[t] = 0 /\ top_process_id[t] = 0 /\ LiveOn(t) = {} /\ 1..0 = {}
    BY <1>2 DEF Init, LiveOn
  <2>2. PICK f : f = [i \in {} |-> 0]
    OBVIOUS
  <2>3. f \in [1..num_process[t] -> LiveOn(t)]
    BY <2>1, <2>2
  <2>4. ChainOf(t, f)
    BY <2>1 DEF ChainOf
  <2> QED
    BY <2>3, <2>4
<1>5. Loaded /\ InExecute /\ InHalt /\ Keyboard /\ NoProcessOnlyWhenFull
  BY <1>2 DEF Init, Loaded, Settled, InExecute, InHalt, Keyboard, NoProcessOnlyWhenFull
<1>6. Frames /\ Images
  BY <1>2 DEF Frames, Images
<1>7. ClosedOnExit
  BY DEF Init, ClosedOnExit
<1> QED
  BY <1>1, <1>3, <1>4, <1>5, <1>6, <1>7 DEF IInv

tableVars == <<program_id, parent_id, process_terminal, process_number,
               top_process_id, num_process>>

\* Steps that leave the process table and the terminals' bookkeeping alone
\* keep the chains.
LEMMA SameTable ==
    ASSUME TypeOK, Table, TerminalChains, UNCHANGED tableVars
    PROVE  /\ Live' = Live /\ \A t \in Terminals : LiveOn(t)' = LiveOn(t)
           /\ TerminalChains'
<1>1. Live' = Live
  BY DEF tableVars, Live
<1>2. \A t \in Terminals : {p \in Live' : process_terminal'[p] = t} = LiveOn(t)
  BY <1>1 DEF tableVars, LiveOn
<1>3. \A t \in Terminals : LiveOn(t)' = LiveOn(t)
  BY <1>2 DEF LiveOn
<1>4. ASSUME NEW t \in Terminals
      PROVE  HasChain(t)'
  <2>1. HasChain(t)
    BY DEF TerminalChains, HasChain
  <2> QED
    BY <2>1, <1>3, ChainUnchanged DEF tableVars
<1> QED
  BY <1>1, <1>3, <1>4 DEF TerminalChains, HasChain

\* execute() of an executable program, from any of its callers.
LEMMA ExecuteRunsIInv ==
    ASSUME IInv, ExecuteRuns
    PROVE  IInv'
<1> USE SlotsFacts DEF IInv
<1>1. PICK new : new = find_free_pcb
  OBVIOUS
<1>2. /\ new \in Procs /\ new \notin Live /\ new # 0 /\ new \in Slots
      /\ process_number \in Nat /\ process_number < MAX_PROCESSES - 1
      /\ Inc(process_number) = process_number + 1
  BY <1>1, FreeSlot DEF ExecuteRuns
<1>3. Pushed(new)
  BY <1>1 DEF ExecuteRuns, Pushed
<1>4. Live' = Live \cup {new}
  BY <1>2, <1>3, PushLive
<1>5. TerminalChains'
  BY <1>2, <1>3, PushChain, Zenon
<1>6. num_process[curr_terminal] \in Nat /\ num_process[curr_terminal] <= MAX_PROCESSES - 1
  BY ChainFacts DEF TypeOK
<1>7. Inc(num_process[curr_terminal]) = num_process[curr_terminal] + 1
  BY <1>6, ConstantsAssumption DEF Inc
<1>8. cmd \in Programs
  BY DEF ExecuteRuns
<1>9. TypeOK'
  <2>1. process_number' \in 0..(WORD - 1)
    <3>1. process_number' = Inc(process_number)
      BY Zenon DEF ExecuteRuns
    <3>2. process_number + 1 \in 0..(WORD - 1)
      BY <1>2, ConstantsAssumption
    <3> QED
      BY <3>1, <3>2, <1>2, Zenon
  <2>2. num_process' \in [Terminals -> 0..(WORD - 1)]
    BY <1>6, <1>7, ConstantsAssumption DEF ExecuteRuns, TypeOK
  <2>3. image' \in [Procs -> Programs \cup {"none"}]
    BY <1>1, <1>2, <1>8, Zenon DEF ExecuteRuns, TypeOK
  <2>4. /\ program_id' \in [Slots -> Slots] /\ parent_id' \in [Slots -> Slots]
        /\ process_terminal' \in [Slots -> Terminals \cup {NoTerminal}]
        /\ esp' \in [Slots -> Slots]
        /\ cmd_name' \in [Slots -> Commands \cup {"none"}]
        /\ top_process_id' \in [Terminals -> Slots]
    BY <1>1, <1>2, <1>8 DEF ExecuteRuns, TypeOK, Commands
  <2>5. /\ file_array' = file_array /\ curr_terminal' = curr_terminal
        /\ frame_ok' = frame_ok
        /\ pc' = "user" /\ if_flag' = TRUE /\ isr' = FALSE
        /\ kstack' = 0 /\ cmd' = "none" /\ ret' = "idle"
        /\ current_pcb' = new /\ cr3' = new /\ tss_esp0' = new
    BY <1>1 DEF send_eoi, ExecuteRuns
  <2>6. smashed' \in SUBSET Procs
    <3>1. smashed' \subseteq smashed \cup Live
      BY DEF ExecuteRuns, Overrun
    <3> QED
      BY <3>1 DEF TypeOK
  <2> QED
    BY <2>1, <2>2, <2>3, <2>4, <2>5, <2>6, <1>2, Zenon DEF TypeOK, PCs
<1>10. Table'
  <2>1. \A p \in Slots : program_id'[p] \in {0, p}
    BY <1>3 DEF Table, Pushed, TypeOK
  <2>2. parent_id'[0] = 0
    BY <1>2, <1>3 DEF Table, Pushed, TypeOK
  <2>3. \A p \in Live' : process_terminal'[p] \in Terminals
    BY <1>2, <1>3, <1>4 DEF Table, Pushed, TypeOK
  <2>4. process_number' = Cardinality(Live')
    BY <1>2, <1>4, FS_AddElement, Zenon DEF Table, ExecuteRuns
  <2>5. current_pcb' = top_process_id'[curr_terminal']
    BY <1>1 DEF ExecuteRuns, TypeOK
  <2> QED
    BY <2>1, <2>2, <2>3, <2>4, <2>5, Zenon DEF Table
<1>11. /\ current_pcb' = new /\ cr3' = new /\ tss_esp0' = new /\ pc' = "user"
       /\ if_flag' = TRUE /\ isr' = FALSE
  BY <1>1 DEF send_eoi, ExecuteRuns
<1>12. Loaded' /\ InExecute' /\ InHalt' /\ Keyboard' /\ NoProcessOnlyWhenFull'
  BY <1>2, <1>11 DEF Loaded, InExecute, InHalt, Keyboard, NoProcessOnlyWhenFull, Settled
<1>13. Frames'
  <2>0. \A p \in Live : parent_id'[p] = parent_id[p] /\ esp'[p] = esp[p]
    BY <1>1, <1>2 DEF ExecuteRuns, TypeOK
  <2>1. \A p \in Live : parent_id[p] # 0 => parent_id[p] # new
    BY <1>2, ParentLive, Zenon
  <2>2. /\ parent_id'[new] = program_id[current_pcb] /\ esp'[new] = kstack
    BY <1>1, <1>2 DEF ExecuteRuns, TypeOK
  <2>3. program_id[current_pcb] # 0 => /\ program_id[current_pcb] = current_pcb
                                        /\ kstack = current_pcb /\ current_pcb # new
    <3> SUFFICES ASSUME program_id[current_pcb] # 0
                 PROVE  program_id[current_pcb] = current_pcb /\ kstack = current_pcb
                        /\ current_pcb # new
      OBVIOUS
    <3>1. program_id[current_pcb] = current_pcb /\ current_pcb # 0
      BY DEF Table, TypeOK
    <3>2. current_pcb \in Live
      BY <3>1 DEF Live, TypeOK
    <3>3. kstack = current_pcb
      BY <3>1 DEF InExecute, ExecuteRuns
    <3> QED
      BY <3>1, <3>2, <3>3, <1>2
  <2> QED
    BY <1>4, <1>11, <2>0, <2>1, <2>2, <2>3, Zenon DEF Frames
<1>14. Images'
  <2>1. image'[new] = cmd /\ cmd_name'[new] = cmd
    BY <1>1, <1>2, Zenon DEF ExecuteRuns, TypeOK
  <2>2. \A p \in Live : image'[p] = image[p] /\ cmd_name'[p] = cmd_name[p]
    BY <1>1, <1>2, Zenon DEF ExecuteRuns, TypeOK
  <2> QED
    BY <1>4, <1>8, <2>1, <2>2, Zenon DEF Images
<1>15. ClosedOnExit'
  BY <1>4 DEF ClosedOnExit, ExecuteRuns
<1> QED
  BY <1>5, <1>9, <1>10, <1>12, <1>13, <1>14, <1>15

\* process_number never exceeds the number of process slots.
LEMMA NumberBound ==
    ASSUME TypeOK, Table
    PROVE  /\ process_number \in Nat /\ process_number <= MAX_PROCESSES - 1
           /\ ProcessLimit <=> process_number = MAX_PROCESSES - 1
<1>1. process_number \in Nat /\ process_number <= MAX_PROCESSES - 1
  BY SlotsFacts, FS_Subset, FS_CardinalityType, Zenon DEF Table
<1>2. Inc(process_number) = process_number + 1
  BY <1>1, ConstantsAssumption DEF Inc
<1> QED
  BY <1>1, <1>2, ConstantsAssumption DEF ProcessLimit

\* current_pcb, when it is a process, is a live one that knows its own slot.
LEMMA CurrentLive ==
    ASSUME TypeOK, Table, TerminalChains, NEW t \in Terminals
    PROVE  /\ program_id[top_process_id[t]] = top_process_id[t]
           /\ top_process_id[t] # 0 => top_process_id[t] \in Live
           /\ current_pcb # 0 => current_pcb \in Live
           /\ program_id[current_pcb] = current_pcb
<1>1. \A u \in Terminals : top_process_id[u] # 0 => top_process_id[u] \in Live
  BY ChainFacts DEF LiveOn
<1>2. \A p \in Live : program_id[p] = p
  BY SlotsFacts DEF Live, Table
<1>3. program_id[0] = 0
  BY SlotsFacts DEF Table
<1>4. curr_terminal \in Terminals /\ current_pcb = top_process_id[curr_terminal]
  BY DEF TypeOK, Table
<1> QED
  BY <1>1, <1>2, <1>3, <1>4

\* execute() at the process limit changes nothing and returns.
LEMMA ExecuteLimitIInv ==
    ASSUME IInv, ExecuteLimit
    PROVE  IInv'
<1> USE SlotsFacts DEF IInv
<1>1. UNCHANGED <<pcbVars, termVars, memVars, frame_ok>>
  BY DEF ExecuteLimit
<1>2. UNCHANGED tableVars
  BY <1>1 DEF pcbVars, termVars, tableVars
<1>3. Live' = Live /\ TerminalChains'
  BY <1>2, SameTable
<1>4. pc = "execute"
  BY NumberBound DEF ExecuteLimit, InExecute
<1>5. /\ pc' \in {"user", "idle"} /\ if_flag' = TRUE /\ isr' = FALSE /\ cmd' = "none"
      /\ ret' = "idle" /\ kstack' \in {0, kstack}
      /\ pc' = "user" => (current_pcb = 0 => process_number = MAX_PROCESSES - 1)
  BY <1>4 DEF send_eoi, ExecuteLimit, InExecute
<1>6. TypeOK' /\ Table' /\ Frames' /\ Images' /\ ClosedOnExit'
  BY <1>1, <1>3, <1>5, Zenon DEF TypeOK, Table, Frames, Images, ClosedOnExit, pcbVars, termVars,
                           memVars, PCs
<1>7. Loaded'
  BY <1>1, <1>4, <1>5, Zenon DEF Loaded, Settled, termVars, memVars
<1>8. InExecute' /\ InHalt' /\ Keyboard' /\ NoProcessOnlyWhenFull'
  BY <1>1, <1>5 DEF InExecute, InHalt, Keyboard, NoProcessOnlyWhenFull, Settled, termVars
<1> QED
  BY <1>3, <1>6, <1>7, <1>8

\* execute() of a bad command leaves every process as it was.
LEMMA ExecuteFailsIInv ==
    ASSUME IInv, ExecuteFails
    PROVE  IInv'
<1> USE SlotsFacts DEF IInv
<1>1. PICK new : new = find_free_pcb
  OBVIOUS
<1>2. new \in Procs /\ new \notin Live /\ process_number < MAX_PROCESSES - 1
  BY <1>1, FreeSlot DEF ExecuteFails
<1>3. pc = "execute" /\ ret = "user" /\ current_pcb # 0
  BY <1>2, NumberBound, ConstantsAssumption, Zenon DEF ExecuteFails, InExecute
<1>4. curr_terminal \in Terminals /\ program_id[current_pcb] = current_pcb
      /\ current_pcb = top_process_id[curr_terminal]
  BY CurrentLive, Zenon DEF TypeOK, Table
<1>5. UNCHANGED <<program_id, parent_id, esp, smashed, file_array, process_number, current_pcb,
                  curr_terminal, top_process_id, num_process, memVars, frame_ok>>
  BY <1>4, Zenon DEF ExecuteFails, TypeOK
<1>6. /\ process_terminal' = [process_terminal EXCEPT ![new] = NoTerminal]
      /\ cmd_name' \in [Slots -> Commands \cup {"none"}]
      /\ \A p \in Live : cmd_name'[p] = cmd_name[p]
  BY <1>1, <1>2 DEF ExecuteFails, TypeOK
<1>7. /\ pc' = "user" /\ if_flag' = TRUE /\ isr' = FALSE /\ cmd' = "none"
      /\ ret' = "idle" /\ kstack' = 0
  BY <1>3 DEF send_eoi, ExecuteFails
<1>8. Live' = Live
  BY <1>5 DEF Live
<1>9. \A p \in Live : process_terminal'[p] = process_terminal[p]
  BY <1>2, <1>6 DEF TypeOK
<1>10. TerminalChains'
  <2>1. ASSUME NEW t \in Terminals PROVE HasChain(t)'
    <3>1. HasChain(t)
      BY DEF TerminalChains, HasChain
    <3>2. LiveOn(t)' = LiveOn(t)
      BY <1>8, <1>9, Zenon DEF LiveOn
    <3> QED
      BY <3>1, <3>2, <1>5, ChainUnchanged, Zenon
  <2> QED
    BY <2>1 DEF TerminalChains, HasChain
<1>11. TypeOK'
  <2>1. process_terminal' \in [Slots -> Terminals \cup {NoTerminal}]
    BY <1>6, Zenon DEF TypeOK
  <2> QED
    BY <2>1, <1>5, <1>6, <1>7, Zenon DEF TypeOK, memVars, PCs
<1>12. Table' /\ Frames' /\ Images' /\ ClosedOnExit'
  BY <1>5, <1>6, <1>8, <1>9, Zenon DEF Table, Frames, Images, ClosedOnExit, memVars
<1>13. Loaded' /\ InExecute' /\ InHalt' /\ Keyboard' /\ NoProcessOnlyWhenFull'
  BY <1>3, <1>5, <1>7, Zenon DEF Loaded, InExecute, InHalt, Keyboard, NoProcessOnlyWhenFull,
                           Settled, memVars
<1> QED
  BY <1>10, <1>11, <1>12, <1>13

\* pcb_destroy of the top process, as both paths of halt() call it.
LEMMA Destroy ==
    ASSUME IInv, current_pcb # 0, file_array[current_pcb] = {},
           pcb_destroy(current_pcb), UNCHANGED memVars
    PROVE  /\ Table' /\ TerminalChains' /\ Frames' /\ Images' /\ ClosedOnExit'
           /\ process_number' \in 0..(WORD - 1)
           /\ process_number' < MAX_PROCESSES - 1
           /\ num_process' \in [Terminals -> 0..(WORD - 1)]
           /\ program_id' \in [Slots -> Slots] /\ parent_id' \in [Slots -> Slots]
           /\ esp' \in [Slots -> Slots] /\ smashed' \in SUBSET Procs
           /\ process_terminal' \in [Slots -> Terminals \cup {NoTerminal}]
           /\ top_process_id' \in [Terminals -> Slots]
           /\ current_pcb' = parent_id[current_pcb]
           /\ UNCHANGED <<cmd_name, file_array, curr_terminal>>
<1> USE SlotsFacts DEF IInv
<1>1. PICK c : c = current_pcb
  OBVIOUS
<1>2. /\ c \in Live /\ c \in Procs /\ c \in Slots /\ c # 0 /\ Live' = Live \ {c}
      /\ \A t \in Terminals : LiveOn(t)' = LiveOn(t) \ {c}
  BY <1>1, PopLive, Zenon DEF LiveOn
<1>3. TerminalChains'
  BY PopChain
<1>4. process_number \in Nat /\ process_number <= MAX_PROCESSES - 1 /\ process_number # 0
  <2>1. Cardinality(Live) # 0
    BY <1>2, FS_EmptySet
  <2> QED
    BY <2>1, NumberBound, Zenon DEF Table
<1>5. process_number' = process_number - 1
  BY <1>4 DEF pcb_destroy, ClearSlot, Dec
<1>6. process_number' = Cardinality(Live')
  BY <1>2, <1>5, FS_RemoveElement, Zenon DEF Table
<1>7. /\ program_id' = [program_id EXCEPT ![c] = 0]
      /\ parent_id' = [parent_id EXCEPT ![c] = 0]
      /\ esp' = [esp EXCEPT ![c] = 0]
      /\ process_terminal' = [process_terminal EXCEPT ![c] = NoTerminal]
      /\ top_process_id' = [top_process_id EXCEPT ![curr_terminal] = parent_id[c]]
      /\ current_pcb' = parent_id[c]
      /\ UNCHANGED <<cmd_name, file_array, curr_terminal, image, tss_esp0>>
  BY <1>1, Zenon DEF pcb_destroy, ClearSlot, memVars
<1>8. num_process' \in [Terminals -> 0..(WORD - 1)]
  <2>1. \A n \in 0..(WORD - 1) : Dec(n) \in 0..(WORD - 1)
    BY ConstantsAssumption DEF Dec
  <2> QED
    BY <2>1 DEF pcb_destroy, ClearSlot, TypeOK
<1>9. /\ program_id' \in [Slots -> Slots] /\ parent_id' \in [Slots -> Slots]
      /\ esp' \in [Slots -> Slots] /\ smashed' \in SUBSET Procs
      /\ process_terminal' \in [Slots -> Terminals \cup {NoTerminal}]
      /\ top_process_id' \in [Terminals -> Slots]
  <2>1. smashed' \in SUBSET Procs
    BY Zenon DEF pcb_destroy, ClearSlot, TypeOK
  <2> QED
    BY <2>1, <1>2, <1>7 DEF TypeOK
<1>10. Table'
  <2>1. \A p \in Slots : program_id'[p] \in {0, p}
    BY <1>2, <1>7, Zenon DEF Table, TypeOK
  <2>2. parent_id'[0] = 0
    BY <1>2, <1>7, Zenon DEF Table, TypeOK
  <2>3. \A p \in Live' : process_terminal'[p] \in Terminals
    BY <1>2, <1>7, Zenon DEF Table, TypeOK
  <2>4. current_pcb' = top_process_id'[curr_terminal']
    BY <1>7, Zenon DEF TypeOK
  <2> QED
    BY <1>6, <2>1, <2>2, <2>3, <2>4, Zenon DEF Table
<1>11. \A p \in Live' : parent_id'[p] = parent_id[p] /\ esp'[p] = esp[p] /\ p \in Live
  BY <1>2, <1>7 DEF TypeOK
<1>12. Frames' /\ Images'
  BY <1>7, <1>11, Zenon DEF Frames, Images
<1>13. ClosedOnExit'
  BY <1>1, <1>2, <1>7, Zenon DEF ClosedOnExit
<1>14. process_number' \in 0..(WORD - 1) /\ process_number' < MAX_PROCESSES - 1
  BY <1>4, <1>5, ConstantsAssumption
<1>15. current_pcb' = parent_id[current_pcb] /\ UNCHANGED <<cmd_name, file_array, curr_terminal>>
  BY <1>1, <1>7
<1> HIDE SlotsFacts DEF IInv
<1> QED
  BY <1>3, <1>8, <1>9, <1>10, <1>12, <1>13, <1>14, <1>15

\* A count that is neither 0 nor 1, as halt()'s test leaves it.
LEMMA AboveOne ==
    ASSUME NEW n \in Nat, n # 0, n # 1
    PROVE  n > 1
  OBVIOUS

\* halt(): both calls of pcb_destroy.
LEMMA HaltDestroyIInv ==
    ASSUME IInv, HaltBaseDestroy \/ HaltNestedDestroy
    PROVE  IInv'
<1> USE SlotsFacts DEF IInv
<1>0. curr_terminal \in Terminals /\ current_pcb = top_process_id[curr_terminal]
  BY DEF TypeOK, Table
<1>1. CASE HaltBaseDestroy
  <2>1. pc = "halt_base_destroy" /\ num_process[curr_terminal] = 1
    BY <1>1, Zenon DEF HaltBaseDestroy, InHalt
  <2>2. /\ current_pcb # 0 /\ parent_id[current_pcb] = 0 /\ file_array[current_pcb] = {}
        /\ pcb_destroy(current_pcb) /\ UNCHANGED memVars
    BY <1>0, <1>1, <2>1, ChainFacts, Zenon DEF HaltBaseDestroy, InHalt
  <2>3. /\ pc' = "relaunch" /\ cmd' = "shell" /\ ret' = "halt_nested"
        /\ UNCHANGED <<memVars, if_flag, kstack, isr, frame_ok>>
    BY <1>1, Zenon DEF HaltBaseDestroy
  <2>4. TypeOK'
    BY <2>2, <2>3, Destroy, ShellCommand, Zenon DEF TypeOK, PCs, memVars
  <2>5. InExecute' /\ InHalt' /\ Keyboard' /\ NoProcessOnlyWhenFull' /\ Loaded'
    BY <2>1, <2>2, <2>3, Destroy, Zenon DEF InExecute, InHalt, Keyboard, NoProcessOnlyWhenFull,
                                     Loaded, Settled
  <2> QED
    BY <2>2, <2>4, <2>5, Destroy, Zenon
<1>2. CASE HaltNestedDestroy
  <2>1. /\ pc = "halt_destroy" /\ num_process[curr_terminal] # 1 /\ current_pcb # 0
        /\ kstack = parent_id[current_pcb] /\ file_array[current_pcb] = {}
    BY <1>2, Zenon DEF HaltNestedDestroy, InHalt
  <2>2. pcb_destroy(current_pcb) /\ UNCHANGED memVars
    BY <1>2, Zenon DEF HaltNestedDestroy
  <2>3. parent_id[current_pcb] # 0
    <3>1. num_process[curr_terminal] \in Nat /\ num_process[curr_terminal] # 0
      BY <1>0, <2>1, ChainFacts, Zenon
    <3>2. num_process[curr_terminal] > 1
      BY <2>1, <3>1, AboveOne, Zenon
    <3> QED
      BY <1>0, <3>2, ChainFacts, Zenon
  <2>4. /\ pc' = "halt_reload"
        /\ UNCHANGED <<memVars, if_flag, kstack, isr, cmd, ret, frame_ok>>
    BY <1>2 DEF HaltNestedDestroy
  <2>5. TypeOK'
    BY <2>1, <2>2, <2>4, Destroy, Zenon DEF TypeOK, PCs, memVars
  <2>6. InExecute' /\ InHalt' /\ Keyboard' /\ NoProcessOnlyWhenFull' /\ Loaded'
    BY <2>1, <2>2, <2>3, <2>4, Destroy, Zenon DEF InExecute, InHalt, Keyboard,
                                           NoProcessOnlyWhenFull, Loaded, Settled
  <2> QED
    BY <2>1, <2>2, <2>5, <2>6, Destroy, Zenon
<1> QED
  BY <1>1, <1>2, Zenon

\* halt(): the test of num_process, the saved frame and the reload of tss.esp0
\* and CR3, none of which touches the table.
LEMMA HaltStepsIInv ==
    ASSUME IInv, HaltTest \/ HaltLoadFrame \/ HaltReload
    PROVE  IInv'
<1> USE SlotsFacts DEF IInv
<1>0. curr_terminal \in Terminals /\ current_pcb = top_process_id[curr_terminal]
  BY Zenon DEF TypeOK, Table
<1>1. UNCHANGED <<pcbVars, termVars, image, isr, cmd, ret>> /\ frame_ok' \in BOOLEAN
  BY Zenon DEF HaltTest, HaltLoadFrame, HaltReload, memVars, TypeOK
<1>2. Live' = Live /\ TerminalChains'
  <2>1. UNCHANGED tableVars
    BY <1>1 DEF tableVars, pcbVars, termVars
  <2> QED
    BY <2>1, SameTable
<1>3. Table' /\ Images' /\ ClosedOnExit'
  BY <1>1, <1>2, Zenon DEF Table, Images, ClosedOnExit, pcbVars, termVars
<1>4. CASE HaltTest
  <2>1. /\ pc = "halt" /\ UNCHANGED <<memVars, if_flag, kstack>>
        /\ pc' = IF num_process[curr_terminal] = 1 THEN "halt_base" ELSE "halt_nested"
    BY <1>4, Zenon DEF HaltTest
  <2>2. TypeOK' /\ Frames'
    BY <1>1, <1>2, <2>1 DEF TypeOK, Frames, pcbVars, termVars, memVars, PCs
  <2>3. InExecute' /\ InHalt' /\ Keyboard' /\ NoProcessOnlyWhenFull' /\ Loaded'
    BY <1>1, <2>1, Zenon DEF InExecute, InHalt, Keyboard, NoProcessOnlyWhenFull, Loaded, Settled,
                      pcbVars, termVars
  <2> QED
    BY <1>2, <1>3, <2>2, <2>3, Zenon
<1>5. CASE HaltLoadFrame
  <2>1. pc = "halt_nested" /\ UNCHANGED <<memVars, if_flag>>
    BY <1>5 DEF HaltLoadFrame
  <2>2. \/ pc' = "crashed" /\ kstack' = kstack
        \/ current_pcb # 0 /\ pc' = "halt_close" /\ kstack' = esp[current_pcb]
    BY <1>5, Zenon DEF HaltLoadFrame
  <2>3. current_pcb # 0 => parent_id[current_pcb] # 0
    <3>1. current_pcb # 0 => num_process[curr_terminal] > 1
      BY <1>0, <2>1, ChainFacts DEF InHalt
    <3> QED
      BY <1>0, <3>1, ChainFacts, Zenon
  <2>4. current_pcb # 0 => esp[current_pcb] = parent_id[current_pcb]
    <3>1. current_pcb # 0 => current_pcb \in Live
      BY <1>0, CurrentLive, Zenon
    <3> QED
      BY <2>3, <3>1, Zenon DEF Frames
  <2>5. TypeOK' /\ Frames'
    BY <1>1, <1>2, <2>1, <2>2, Zenon DEF TypeOK, Frames, pcbVars, termVars, memVars, PCs
  <2>6. InExecute' /\ InHalt' /\ Keyboard' /\ NoProcessOnlyWhenFull' /\ Loaded'
    BY <1>1, <2>1, <2>2, <2>4, Zenon DEF InExecute, InHalt, Keyboard, NoProcessOnlyWhenFull,
                                  Loaded, Settled, pcbVars, termVars
  <2> QED
    BY <1>2, <1>3, <2>5, <2>6
<1>6. CASE HaltReload /\ ~frame_ok
  <2>1. pc = "halt_reload" /\ pc' = "crashed" /\ UNCHANGED <<cr3, tss_esp0, if_flag, kstack>>
    BY <1>6, Zenon DEF HaltReload
  <2>2. TypeOK' /\ Frames'
    BY <1>1, <1>2, <2>1 DEF TypeOK, Frames, pcbVars, termVars, PCs
  <2>3. InExecute' /\ InHalt'
    BY <2>1, Zenon DEF InExecute, InHalt
  <2>4. Keyboard' /\ NoProcessOnlyWhenFull'
    BY <1>1, <2>1 DEF Keyboard, NoProcessOnlyWhenFull, Settled, pcbVars, termVars
  <2>5. Loaded'
    BY <1>1, <2>1 DEF Loaded, Settled, pcbVars, termVars
  <2> QED
    BY <1>2, <1>3, <2>2, <2>3, <2>4, <2>5, Zenon
<1>7. CASE HaltReload /\ frame_ok
  <2>1. pc = "halt_reload" /\ current_pcb # 0
    BY <1>7 DEF HaltReload, InHalt
  <2>2. current_pcb \in Live /\ program_id[current_pcb] = current_pcb
    BY <1>0, <2>1, CurrentLive, Zenon
  <2>3. /\ tss_esp0' = current_pcb /\ cr3' = current_pcb /\ pc' = "user"
        /\ if_flag' = TRUE /\ kstack' = 0
    BY <1>7, <2>1, <2>2, Zenon DEF HaltReload
  <2>4. TypeOK'
    BY <1>1, <2>2, <2>3, Zenon DEF TypeOK, pcbVars, termVars, PCs
  <2>5. Frames'
    <3>1. \A p \in Live : parent_id[p] # 0 => parent_id[p] # current_pcb
      BY <1>0, ParentLive, Zenon
    <3> QED
      BY <1>1, <1>2, <2>3, <3>1 DEF Frames, pcbVars
  <2>6. InExecute' /\ InHalt' /\ Keyboard' /\ NoProcessOnlyWhenFull' /\ Loaded'
    BY <1>1, <2>1, <2>3, Zenon DEF InExecute, InHalt, Keyboard, NoProcessOnlyWhenFull, Loaded,
                            Settled, pcbVars, termVars
  <2> QED
    BY <1>2, <1>3, <2>4, <2>5, <2>6, Zenon
<1> QED
  BY <1>4, <1>5, <1>6, <1>7, Zenon

\* Steps on the descriptors of current_pcb: close in halt(), and the open and
\* close system calls.
LEMMA DescriptorsIInv ==
    ASSUME IInv, \/ HaltClose("halt_base", "halt_base_destroy")
                 \/ HaltClose("halt_close", "halt_destroy")
                 \/ OpenSyscall
                 \/ \E fd \in FDs : CloseSyscall(fd)
    PROVE  IInv'
<1> USE SlotsFacts DEF IInv
<1>0. curr_terminal \in Terminals /\ current_pcb = top_process_id[curr_terminal]
      /\ current_pcb \in Slots
  BY Zenon DEF TypeOK, Table
<1>1. UNCHANGED <<program_id, parent_id, process_terminal, cmd_name, esp, smashed, termVars,
                  memVars, if_flag, kstack, isr, cmd, ret, frame_ok>>
  BY DEF HaltClose, OpenSyscall, CloseSyscall, cpuVars
<1>2. Live' = Live /\ TerminalChains'
  <2>1. UNCHANGED tableVars
    BY <1>1 DEF tableVars, termVars
  <2> QED
    BY <2>1, SameTable
<1>3. Table' /\ Images' /\ Frames'
  BY <1>1, <1>2, Zenon DEF Table, Images, Frames, termVars, memVars
<1>4. PICK S : file_array' = [file_array EXCEPT ![current_pcb] = S] /\ S \subseteq FDs
  <2>1. CASE OpenSyscall
    <3>1. FreeFDs # {} /\ FreeFDs \subseteq FDs /\ FDs \subseteq Nat
      BY <2>1, ConstantsAssumption DEF OpenSyscall, FreeFDs, FDs, FD_MIN_IDX
    <3>2. find_free_fd \in FreeFDs
      <4>1. \E g \in FreeFDs : \A h \in FreeFDs : g <= h
        BY <3>1, LeastElement, Zenon
      <4> QED
        BY <4>1 DEF find_free_fd
    <3>3. file_array[current_pcb] \cup {find_free_fd} \subseteq FDs
      BY <1>0, <3>1, <3>2, Zenon DEF TypeOK
    <3>4. file_array' = [file_array EXCEPT ![current_pcb] =
                           file_array[current_pcb] \cup {find_free_fd}]
      BY <2>1 DEF OpenSyscall
    <3> QED
      BY <3>3, <3>4, Zenon
  <2>2. CASE \E fd \in FDs : CloseSyscall(fd)
    <3>1. PICK fd \in FDs : CloseSyscall(fd)
      BY <2>2, Zenon
    <3>2. file_array[current_pcb] \ {fd} \subseteq FDs
      BY <1>0, Zenon DEF TypeOK
    <3>3. file_array' = [file_array EXCEPT ![current_pcb] = file_array[current_pcb] \ {fd}]
      BY <3>1, Zenon DEF CloseSyscall
    <3> QED
      BY <3>2, <3>3, Zenon
  <2>3. CASE \/ HaltClose("halt_base", "halt_base_destroy")
             \/ HaltClose("halt_close", "halt_destroy")
    BY <2>3, Zenon DEF HaltClose
  <2> QED
    BY <2>1, <2>2, <2>3
<1>5. \/ pc = "user" /\ pc' = "user" /\ current_pcb # 0
      \/ pc = "user" /\ pc' = "user" /\ current_pcb = 0
      \/ pc = "halt_base" /\ pc' = "halt_base_destroy" /\ file_array'[current_pcb] = {}
      \/ pc = "halt_close" /\ pc' = "halt_destroy" /\ file_array'[current_pcb] = {}
  BY <1>0, Zenon DEF HaltClose, OpenSyscall, CloseSyscall, cpuVars, TypeOK
<1>6. TypeOK'
  BY <1>1, <1>4, <1>5 DEF TypeOK, termVars, memVars, PCs
<1>7. ClosedOnExit'
  <2>1. current_pcb = 0 \/ current_pcb \in Live
    BY <1>0, CurrentLive, Zenon
  <2>2. \A p \in Procs \ Live : file_array'[p] = file_array[p]
    BY <1>4, <2>1 DEF TypeOK
  <2> QED
    BY <1>2, <2>2, Zenon DEF ClosedOnExit
<1>8. InExecute' /\ InHalt' /\ Keyboard' /\ NoProcessOnlyWhenFull' /\ Loaded'
  BY <1>1, <1>5, Zenon DEF InExecute, InHalt, Keyboard, NoProcessOnlyWhenFull, Loaded, Settled,
                    termVars, memVars
<1> QED
  BY <1>2, <1>3, <1>6, <1>7, <1>8

\* Steps that only move the control point: system calls and exceptions that
\* enter the kernel, their return, CTRL+C and the end of the boot prompt.
LEMMA ControlIInv ==
    ASSUME IInv, \/ BootShell
                 \/ \E c \in Commands : ExecuteSyscall(c)
                 \/ HaltSyscall \/ Block \/ Unblock \/ UserException
                 \/ CtrlC
    PROVE  IInv'
<1> USE SlotsFacts DEF IInv
<1>1. UNCHANGED <<pcbVars, termVars, memVars, isr>>
  BY DEF BootShell, ExecuteSyscall, HaltSyscall, Block, Unblock, UserException, CtrlC
<1>2. Live' = Live /\ TerminalChains'
  <2>1. UNCHANGED tableVars
    BY <1>1 DEF tableVars, pcbVars, termVars
  <2> QED
    BY <2>1, SameTable
<1>3. Table' /\ Images' /\ Frames' /\ ClosedOnExit'
  BY <1>1, <1>2, Zenon DEF Table, Images, Frames, ClosedOnExit, pcbVars, termVars, memVars
<1>4. ~isr
  BY DEF Keyboard, BootShell, ExecuteSyscall, HaltSyscall, Block, Unblock, UserException,
         CtrlC, KeyboardAt
<1>5. CASE BootShell
  <2>1. /\ pc = "boot" /\ pc' = "execute" /\ cmd' = "shell" /\ ret' = "idle"
        /\ UNCHANGED <<if_flag, kstack, frame_ok>>
    BY <1>5, Zenon DEF BootShell
  <2>2. TypeOK'
    BY <1>1, <2>1, ShellCommand, Zenon DEF TypeOK, pcbVars, termVars, memVars, PCs
  <2>3. current_pcb = 0
    BY <2>1, CurrentLive, Zenon DEF InExecute, TypeOK
  <2>4. InExecute' /\ InHalt' /\ Keyboard' /\ NoProcessOnlyWhenFull' /\ Loaded'
    BY <1>1, <1>2, <1>4, <2>1, <2>2, <2>3, Zenon
       DEF InExecute, InHalt, Keyboard, NoProcessOnlyWhenFull, Loaded, Settled, termVars,
           memVars
  <2> QED
    BY <1>2, <1>3, <2>2, <2>3, <2>4
<1>6. CASE \E c \in Commands : ExecuteSyscall(c)
  <2>1. /\ pc = "user" /\ pc' = "execute" /\ cmd' \in Commands /\ ret' = "user"
        /\ kstack' = tss_esp0 /\ UNCHANGED <<if_flag, frame_ok>>
    BY <1>6, Zenon DEF ExecuteSyscall
  <2>2. TypeOK'
    BY <1>1, <2>1 DEF TypeOK, pcbVars, termVars, memVars, PCs
  <2>3. InExecute' /\ InHalt' /\ Keyboard' /\ NoProcessOnlyWhenFull' /\ Loaded'
    BY <1>1, <1>2, <1>4, <2>1, <2>2, Zenon
       DEF InExecute, InHalt, Keyboard, NoProcessOnlyWhenFull, Loaded, Settled, termVars,
           memVars
  <2> QED
    BY <1>2, <1>3, <2>2, <2>3
<1>7. CASE HaltSyscall \/ CtrlC
  <2>1. /\ pc' = "halt" /\ kstack' \in {tss_esp0, kstack}
        /\ if_flag' \in {FALSE, if_flag} /\ UNCHANGED <<cmd, ret, frame_ok>>
    BY <1>7, Zenon DEF HaltSyscall, CtrlC, EntryStack
  <2>2. TypeOK'
    BY <1>1, <2>1, Zenon DEF TypeOK, pcbVars, termVars, memVars, PCs
  <2>3. InExecute' /\ InHalt' /\ Keyboard' /\ NoProcessOnlyWhenFull' /\ Loaded'
    BY <1>1, <1>2, <1>4, <2>1, <2>2, Zenon
       DEF InExecute, InHalt, Keyboard, NoProcessOnlyWhenFull, Loaded, Settled, termVars,
           memVars
  <2> QED
    BY <1>2, <1>3, <2>2, <2>3
<1>8. CASE Block \/ Unblock \/ UserException
  <2>1. /\ pc \in Settled /\ pc' \in Settled /\ kstack' \in {tss_esp0, 0}
        /\ UNCHANGED <<if_flag, cmd, ret, frame_ok>>
    BY <1>8, Zenon DEF Block, Unblock, UserException, Settled
  <2>2. TypeOK'
    BY <1>1, <2>1, Zenon DEF TypeOK, pcbVars, termVars, memVars, PCs, Settled
  <2>3. InExecute' /\ InHalt' /\ Keyboard' /\ NoProcessOnlyWhenFull' /\ Loaded'
    BY <1>1, <1>2, <1>4, <2>1, <2>2, Zenon
       DEF InExecute, InHalt, Keyboard, NoProcessOnlyWhenFull, Loaded, Settled, termVars,
           memVars
  <2> QED
    BY <1>2, <1>3, <2>2, <2>3
<1> QED
  BY <1>5, <1>6, <1>7, <1>8, Zenon

\* ALT+Fn at a safe point.
LEMMA SwitchIInv ==
    ASSUME IInv, SwitchPoints \subseteq SafeSwitchPoints, NEW t \in Terminals,
           SwitchLive(t) \/ SwitchEmpty(t) \/ SwitchEmptyLimit(t)
    PROVE  IInv'
<1> USE SlotsFacts DEF IInv
<1>1. /\ UNCHANGED <<pcbVars, process_number, top_process_id, num_process, image>>
      /\ curr_terminal' = t /\ current_pcb' = top_process_id[t]
      /\ pc \in SafeSwitchPoints /\ if_flag /\ ~isr
  BY Zenon DEF SwitchLive, SwitchEmpty, SwitchEmptyLimit, KeyboardAt, memVars
<1>2. Live' = Live /\ TerminalChains'
  <2>1. UNCHANGED tableVars
    BY <1>1, Zenon DEF tableVars, pcbVars
  <2> QED
    BY <2>1, SameTable
<1>3. Table' /\ Images' /\ ClosedOnExit'
  BY <1>1, <1>2, Zenon DEF Table, Images, ClosedOnExit, pcbVars
<1>4. program_id[top_process_id[t]] = top_process_id[t]
  BY CurrentLive, Zenon
<1>5. CASE SwitchLive(t)
  <2>1. /\ top_process_id[t] # 0 /\ cr3' = top_process_id[t] /\ tss_esp0' = top_process_id[t]
        /\ UNCHANGED <<pc, if_flag, kstack, isr, cmd, ret, frame_ok>>
    BY <1>1, <1>4, <1>5, Zenon DEF SwitchLive, pcbVars, cpuVars
  <2>2. TypeOK'
    BY <1>1, <2>1, Zenon DEF TypeOK, pcbVars
  <2>3. Frames'
    BY <1>1, <1>2, <2>1, ParentLive DEF Frames, pcbVars
  <2>4. InExecute' /\ InHalt' /\ Keyboard' /\ NoProcessOnlyWhenFull' /\ Loaded'
    BY <1>1, <1>2, <2>1, <2>2, <2>3, Zenon
       DEF InExecute, InHalt, Keyboard, NoProcessOnlyWhenFull, Loaded, Settled,
           SafeSwitchPoints
  <2> QED
    BY <1>2, <1>3, <2>2, <2>3, <2>4, Zenon
<1>6. CASE SwitchEmpty(t)
  <2>1. /\ top_process_id[t] = 0 /\ UNCHANGED <<cr3, tss_esp0, frame_ok>>
        /\ pc' = "execute" /\ cmd' = "shell" /\ ret' = "idle"
        /\ if_flag' = FALSE /\ isr' = TRUE /\ kstack' \in {tss_esp0, kstack}
    BY <1>4, <1>6 DEF SwitchEmpty, memVars, EntryStack
  <2>2. TypeOK'
    BY <1>1, <2>1, ShellCommand, Zenon DEF TypeOK, pcbVars, PCs
  <2>3. Frames'
    BY <1>1, <1>2, <2>1 DEF Frames, pcbVars
  <2>4. InExecute' /\ InHalt' /\ Keyboard' /\ NoProcessOnlyWhenFull' /\ Loaded'
    BY <1>1, <1>2, <2>1, <2>2, <2>3, Zenon
       DEF InExecute, InHalt, Keyboard, NoProcessOnlyWhenFull, Loaded, Settled
  <2> QED
    BY <1>2, <1>3, <2>2, <2>3, <2>4
<1>7. CASE SwitchEmptyLimit(t)
  <2>1. /\ top_process_id[t] = 0 /\ UNCHANGED <<cr3, tss_esp0>>
        /\ UNCHANGED <<pc, if_flag, kstack, isr, cmd, ret, frame_ok>>
    BY <1>4, <1>7 DEF SwitchEmptyLimit, memVars, cpuVars
  <2>2. process_number = MAX_PROCESSES - 1
    BY <1>7, NumberBound, Zenon DEF SwitchEmptyLimit
  <2>3. TypeOK'
    BY <1>1, <2>1, Zenon DEF TypeOK, pcbVars
  <2>4. Frames'
    BY <1>1, <1>2, <2>1 DEF Frames, pcbVars
  <2>5. InExecute' /\ InHalt' /\ Keyboard' /\ NoProcessOnlyWhenFull' /\ Loaded'
    BY <1>1, <1>2, <2>1, <2>2, <2>3, <2>4, Zenon
       DEF InExecute, InHalt, Keyboard, NoProcessOnlyWhenFull, Loaded, Settled,
           SafeSwitchPoints
  <2> QED
    BY <1>2, <1>3, <2>2, <2>3, <2>4, <2>5, Zenon
<1> QED
  BY <1>5, <1>6, <1>7

-----------------------------------------------------------------------------
(***************************************************************************)
(* The theorems.  Their assumption is the one the kernel needs: the user's *)
(* terminal switches land at safe points.  CTRL+C may land anywhere.       *)
(***************************************************************************)

\* Every step of the kernel, of a user program and of the keyboard keeps the
\* invariant.
LEMMA NextIInv ==
    ASSUME SwitchPoints \subseteq SafeSwitchPoints, IInv, [Next]_vars
    PROVE  IInv'
<1>1. CASE UNCHANGED vars
  <2>1. UNCHANGED <<pcbVars, termVars, memVars, cpuVars, tableVars>>
    BY <1>1 DEF vars, tableVars, pcbVars, termVars
  <2>2. Live' = Live /\ TerminalChains'
    BY <2>1, SameTable DEF IInv
  <2>3. TypeOK' /\ Table' /\ Loaded' /\ Frames' /\ Images'
    BY <2>1, <2>2, Zenon DEF IInv, TypeOK, Table, Loaded, Frames, Images, pcbVars, termVars,
                      memVars, cpuVars
  <2>4. InExecute' /\ InHalt' /\ Keyboard' /\ ClosedOnExit' /\ NoProcessOnlyWhenFull'
    BY <2>1, <2>2, Zenon DEF IInv, InExecute, InHalt, Keyboard, ClosedOnExit,
                      NoProcessOnlyWhenFull, pcbVars, termVars, memVars, cpuVars
  <2> QED
    BY <2>2, <2>3, <2>4, Zenon DEF IInv
<1>2. CASE KernelStep
  BY <1>2, ControlIInv, ExecuteLimitIInv, ExecuteFailsIInv, ExecuteRunsIInv,
     HaltStepsIInv, HaltDestroyIInv, DescriptorsIInv DEF KernelStep
<1>3. CASE UserStep
  BY <1>3, ControlIInv, DescriptorsIInv DEF UserStep
<1>4. CASE KeyboardStep
  BY <1>4, ControlIInv, SwitchIInv DEF KeyboardStep
<1> QED
  BY <1>1, <1>2, <1>3, <1>4, Zenon DEF Next, Reset

\* IInv is an invariant of the process control of the kernel.
THEOREM Inductive ==
    ASSUME SwitchPoints \subseteq SafeSwitchPoints
    PROVE  Spec => []IInv
<1>1. Init => IInv
  BY InitIInv
<1>2. IInv /\ [Next]_vars => IInv'
  BY NextIInv
<1> QED
  BY <1>1, <1>2, PTL DEF Spec

\* Every variable keeps its type; in particular process_number and
\* num_process never wrap, and CR3 always names a page directory.
THEOREM TypeCorrect ==
    ASSUME SwitchPoints \subseteq SafeSwitchPoints
    PROVE  Spec => []TypeOK
<1>1. IInv => TypeOK
  BY DEF IInv
<1> QED
  BY <1>1, Inductive, PTL

\* The process table is accounted for: process_number counts the slots in
\* use, current_pcb is the top process of the terminal on the screen, and the
\* processes of each terminal form one chain of parents.
THEOREM TableConsistent ==
    ASSUME SwitchPoints \subseteq SafeSwitchPoints
    PROVE  Spec => [](Accounting /\ TerminalChains)
<1>1. IInv => Accounting /\ TerminalChains
  BY FreeSlot DEF IInv, Table, Accounting
<1> QED
  BY <1>1, Inductive, PTL

\* User code runs with the page directory and the kernel stack of
\* current_pcb, and the user page of every process holds its program.
THEOREM AddressSpaces ==
    ASSUME SwitchPoints \subseteq SafeSwitchPoints
    PROVE  Spec => [](AddressSpaceMatches /\ ImagesIntact)
<1>1. IInv => AddressSpaceMatches /\ ImagesIntact
  BY Zenon DEF IInv, Loaded, Images, AddressSpaceMatches, ImagesIntact
<1> QED
  BY <1>1, Inductive, PTL

\* While every program image fits on the kernel stack it is copied through,
\* copy_file_image overwrites no frame.
Whole == smashed = {} /\ frame_ok = TRUE

\* With terminal switches only at the safe points and no image that reaches a
\* kernel stack, no saved frame is ever overwritten.
LEMMA NothingSmashed ==
    ASSUME SwitchPoints \subseteq SafeSwitchPoints, ImagesFit
    PROVE  Spec => []Whole
<1>1. Init => Whole
  BY DEF Init, Whole
<1>2. IInv /\ Whole /\ [Next]_vars => Whole'
  <2> SUFFICES ASSUME IInv, Whole, [Next]_vars PROVE Whole'
    BY Zenon
  <2> USE DEF Whole
  <2>1. CASE ExecuteRuns
    <3>1. StackReach[cmd] = 0 /\ kstack \in Nat
      <4>1. cmd \in Programs
        BY <2>1, Zenon DEF ExecuteRuns
      <4>2. kstack \in Slots
        BY DEF IInv, TypeOK
      <4> QED
        BY <4>1, <4>2, SlotsFacts DEF ImagesFit
    <3>2. (kstack + 1)..(kstack + StackReach[cmd]) = {}
      BY <3>1
    <3>3. Overrun(kstack, cmd) = {}
      BY <3>2 DEF Overrun
    <3> QED
      BY <2>1, <3>3 DEF ExecuteRuns
  <2>2. CASE HaltLoadFrame
    BY <2>2, Zenon DEF HaltLoadFrame, pcbVars
  <2>3. CASE HaltNestedDestroy \/ HaltBaseDestroy
    BY <2>3, Zenon DEF HaltNestedDestroy, HaltBaseDestroy, pcb_destroy, ClearSlot
  <2>4. CASE HaltClose("halt_base", "halt_base_destroy") \/ HaltClose("halt_close", "halt_destroy")
    BY <2>4, Zenon DEF HaltClose
  <2>5. CASE BootShell \/ ExecuteLimit \/ ExecuteFails \/ HaltTest \/ HaltReload
    BY <2>5, Zenon DEF BootShell, ExecuteLimit, ExecuteFails, HaltTest, HaltReload,
                pcbVars
  <2>6. CASE UserStep
    BY <2>6, Zenon DEF UserStep, ExecuteSyscall, HaltSyscall, OpenSyscall, CloseSyscall, Block,
                Unblock, UserException, pcbVars, cpuVars
  <2>7. CASE KeyboardStep
    BY <2>7, Zenon DEF KeyboardStep, CtrlC, SwitchLive, SwitchEmpty, SwitchEmptyLimit, pcbVars,
                cpuVars
  <2>8. CASE UNCHANGED vars
    BY <2>8 DEF vars, pcbVars, cpuVars
  <2> QED
    BY <2>1, <2>2, <2>3, <2>4, <2>5, <2>6, <2>7, <2>8, Zenon DEF Next, KernelStep, Reset
<1> QED
  BY <1>1, <1>2, Inductive, PTL DEF Spec

\* halt() finds the frame that execute() saved, on the stack of the parent it
\* returns to, if no program image reaches beyond a kernel stack.
THEOREM HaltReturns ==
    ASSUME SwitchPoints \subseteq SafeSwitchPoints, ImagesFit
    PROVE  Spec => [](SavedFramesIntact /\ HaltResumesParent)
<1>1. IInv /\ Whole => SavedFramesIntact /\ HaltResumesParent
  BY DEF IInv, Whole, Frames, InHalt, SavedFramesIntact, HaltResumesParent
<1> QED
  BY <1>1, Inductive, NothingSmashed, PTL

\* A new process has no open file besides stdin and stdout.
THEOREM NoInheritedFiles ==
    ASSUME SwitchPoints \subseteq SafeSwitchPoints
    PROVE  Spec => []ClosedOnExit
<1>1. IInv => ClosedOnExit
  BY DEF IInv
<1> QED
  BY <1>1, Inductive, PTL

\* The keyboard is never lost, and a terminal without a process is on the
\* screen only when the table was full.
THEOREM KeyboardKept ==
    ASSUME SwitchPoints \subseteq SafeSwitchPoints
    PROVE  Spec => [](KeyboardAlive /\ NoProcessOnlyWhenFull)
<1>1. IInv => KeyboardAlive /\ NoProcessOnlyWhenFull
  BY DEF IInv, Keyboard, KeyboardAlive, Settled
<1> QED
  BY <1>1, Inductive, PTL

\* The machine triple-faults only in halt() on a terminal with no process, if
\* no program image reaches beyond a kernel stack.
THEOREM CrashCause ==
    ASSUME SwitchPoints \subseteq SafeSwitchPoints, ImagesFit
    PROVE  Spec => CrashOnlyWithoutProcess
<1>1. IInv /\ Whole /\ [Next]_vars =>
        [pc' = "crashed" => current_pcb = 0 /\ num_process[curr_terminal] = 0]_vars
  <2> SUFFICES ASSUME IInv, Whole, Next, pc' = "crashed", ~UNCHANGED vars
               PROVE  current_pcb = 0 /\ num_process[curr_terminal] = 0
    OBVIOUS
  <2>1. HaltLoadFrame
    <3>1. ~(ExecuteLimit \/ ExecuteFails)
      BY Zenon DEF ExecuteLimit, ExecuteFails, IInv, TypeOK
    <3>2. ~HaltReload
      BY Zenon DEF HaltReload, IInv, InHalt, Whole
    <3>3. ~(BootShell \/ ExecuteRuns \/ HaltTest \/ HaltNestedDestroy \/ HaltBaseDestroy)
      BY Zenon DEF BootShell, ExecuteRuns, HaltTest, HaltNestedDestroy, HaltBaseDestroy
    <3>4. ~(\/ HaltClose("halt_base", "halt_base_destroy")
            \/ HaltClose("halt_close", "halt_destroy"))
      BY Zenon DEF HaltClose
    <3>5. ~UserStep
      BY DEF UserStep, ExecuteSyscall, HaltSyscall, OpenSyscall, CloseSyscall, Block,
             Unblock, UserException, cpuVars
    <3>6. ~KeyboardStep
      BY Zenon DEF KeyboardStep, CtrlC, SwitchLive, SwitchEmpty, SwitchEmptyLimit, KeyboardAt,
             SafeSwitchPoints, cpuVars
    <3> QED
      BY <3>1, <3>2, <3>3, <3>4, <3>5, <3>6, Zenon DEF Next, KernelStep, Reset
  <2>2. current_pcb = 0
    BY <2>1 DEF HaltLoadFrame
  <2>3. curr_terminal \in Terminals /\ current_pcb = top_process_id[curr_terminal]
    BY Zenon DEF IInv, TypeOK, Table
  <2> QED
    BY <2>2, <2>3, ChainFacts DEF IInv
<1> QED
  BY <1>1, Inductive, NothingSmashed, PTL DEF Spec, CrashOnlyWithoutProcess
=============================================================================
