------------------------- MODULE DescriptorsProofs -------------------------
(***************************************************************************)
(* For every number of descriptors and processes, and Ctrl-C after any     *)
(* statement: a descriptor in use leads to the file it was opened on.      *)
(* Terminals are switched only between calls.                              *)
(***************************************************************************)
EXTENDS Descriptors, TLAPS

SwitchAtUser == SwitchPoints \subseteq {"user"}

ClosePoints == {"close_call", "close_ops", "close_inode", "close_flags", "close_remove"}

\* What a call has established so far about the descriptor it works on.
\* The order of its statements is what makes this inductive: open sets the
\* flag last, close clears it first.
CallInv ==
    /\ pc # "user" => flags[current_pcb][fd] = 0
    /\ pc \in {"open_inode", "open_flags"} => file_ops[current_pcb][fd] = OpsOf(ftype)
    /\ pc = "open_flags" => inode_ptr[current_pcb][fd] = InodeOf(ftype)
    /\ pc \in ClosePoints => pcb_ptr = current_pcb
    /\ pc = "close_call" => file_ops[pcb_ptr][fd] # NULL

IInv == TypeOK /\ DescriptorsAgree /\ CallInv

\* A file that is open has operations.
LEMMA OpsNotNull == \A t \in Types : OpsOf(t) \in {"file", "rtc"} /\ OpsOf(t) # NULL
BY DEF OpsOf, NULL

\* No type is the mark of a descriptor that is not open.
LEMMA TypesNotNone == None \notin Types /\ \A t \in Types : InodeOf(t) \in {NULL, "inode"}
BY DEF None, Types, InodeOf

\* Initially nothing is open.
LEMMA InitIInv == Init => IInv
<1> SUFFICES ASSUME Init PROVE IInv
  OBVIOUS
<1>1. TypeOK
  BY FDAssumption DEF Init, TypeOK, FDs, Types, Points
<1>2. DescriptorsAgree
  BY DEF Init, DescriptorsAgree
<1>3. CallInv
  BY DEF Init, CallInv, ClosePoints
<1> QED BY <1>1, <1>2, <1>3 DEF IInv

\* Steps of open().
LEMMA OpenSteps ==
    ASSUME IInv,
           (\E t \in Types : OpenFind(t)) \/ OpenFull \/ OpenOps \/ OpenInode \/ OpenFlags
    PROVE  IInv'
<1> USE DEF IInv
<1>1. ASSUME NEW t \in Types, OpenFind(t) PROVE IInv'
  <2>1. TypeOK'
    BY <1>1 DEF OpenFind, TypeOK, FreeFDs, files, Points
  <2>2. DescriptorsAgree'
    BY <1>1 DEF OpenFind, DescriptorsAgree, files
  <2>3. CallInv'
    <3>1. fd' \in FDs /\ file_ops[current_pcb][fd'] = NULL
      BY <1>1 DEF OpenFind, FreeFDs
    <3>2. flags[current_pcb][fd'] = 0
      BY <3>1, OpsNotNull DEF DescriptorsAgree, TypeOK
    <3> QED BY <1>1, <3>2 DEF OpenFind, CallInv, files, ClosePoints
  <2> QED BY <2>1, <2>2, <2>3
<1>2. CASE OpenFull
  BY <1>2 DEF OpenFull, vars, files, TypeOK, DescriptorsAgree, CallInv
<1>3. CASE OpenOps
  <2>0. opened[current_pcb][fd] = None /\ flags[current_pcb][fd] = 0
    BY <1>3 DEF OpenOps, CallInv, DescriptorsAgree, TypeOK
  <2>1. TypeOK'
    BY <1>3, OpsNotNull DEF OpenOps, TypeOK, Points
  <2>2. DescriptorsAgree'
    BY <1>3, <2>0 DEF OpenOps, DescriptorsAgree, TypeOK
  <2>3. CallInv'
    BY <1>3, <2>0 DEF OpenOps, CallInv, TypeOK, ClosePoints
  <2> QED BY <2>1, <2>2, <2>3
<1>4. CASE OpenInode
  <2>0. opened[current_pcb][fd] = None /\ flags[current_pcb][fd] = 0
    BY <1>4 DEF OpenInode, CallInv, DescriptorsAgree, TypeOK
  <2>1. TypeOK'
    BY <1>4, TypesNotNone DEF OpenInode, TypeOK, Points
  <2>2. DescriptorsAgree'
    BY <1>4, <2>0 DEF OpenInode, DescriptorsAgree, TypeOK
  <2>3. CallInv'
    BY <1>4, <2>0 DEF OpenInode, CallInv, TypeOK, ClosePoints
  <2> QED BY <2>1, <2>2, <2>3
<1>5. CASE OpenFlags
  <2>1. TypeOK'
    BY <1>5 DEF OpenFlags, TypeOK, Points
  <2>2. DescriptorsAgree'
    BY <1>5, TypesNotNone DEF OpenFlags, DescriptorsAgree, TypeOK, CallInv
  <2>3. CallInv'
    BY <1>5 DEF OpenFlags, CallInv, ClosePoints
  <2> QED BY <2>1, <2>2, <2>3
<1> QED BY <1>1, <1>2, <1>3, <1>4, <1>5

\* Steps of close().
LEMMA CloseSteps ==
    ASSUME IInv,
           \/ \E d \in FDs : CloseTest(d)
           \/ CloseCall \/ CloseOps \/ CloseInode \/ CloseFlags \/ CloseRemove
    PROVE  IInv'
<1> USE DEF IInv
<1>1. ASSUME NEW d \in FDs, CloseTest(d) PROVE IInv'
  <2>1. TypeOK'
    BY <1>1 DEF CloseTest, TypeOK, Points
  <2>2. DescriptorsAgree'
    BY <1>1 DEF CloseTest, DescriptorsAgree, TypeOK
  <2>3. CallInv'
    <3>1. flags[current_pcb][d] = 1 /\ opened[current_pcb][d] # None
      BY <1>1 DEF CloseTest, TypeOK, DescriptorsAgree
    <3>2. file_ops[current_pcb][d] # NULL
      BY <3>1, OpsNotNull DEF TypeOK, DescriptorsAgree
    <3> QED BY <1>1, <3>2 DEF CloseTest, CallInv, TypeOK, ClosePoints
  <2> QED BY <2>1, <2>2, <2>3
<1>2. CASE CloseCall
  BY <1>2 DEF CloseCall, files, TypeOK, DescriptorsAgree, CallInv, Points, ClosePoints
<1>3. ASSUME CloseOps \/ CloseInode \/ CloseFlags \/ CloseRemove PROVE IInv'
  <2>0. /\ opened[current_pcb][fd] = None /\ flags[current_pcb][fd] = 0
        /\ pcb_ptr = current_pcb
    BY <1>3 DEF CloseOps, CloseInode, CloseFlags, CloseRemove, CallInv, DescriptorsAgree, TypeOK,
                ClosePoints
  <2>1. TypeOK'
    <3>1. CASE CloseOps
      BY <3>1 DEF CloseOps, TypeOK, Points
    <3>2. CASE CloseInode
      BY <3>2 DEF CloseInode, TypeOK, Points
    <3>3. CASE CloseFlags
      BY <3>3 DEF CloseFlags, TypeOK, Points
    <3>4. CASE CloseRemove
      BY <3>4 DEF CloseRemove, TypeOK, Points
    <3> QED BY <1>3, <3>1, <3>2, <3>3, <3>4
  <2>2. DescriptorsAgree'
    BY <1>3, <2>0 DEF CloseOps, CloseInode, CloseFlags, CloseRemove, DescriptorsAgree, TypeOK
  <2>3. CallInv'
    BY <1>3, <2>0 DEF CloseOps, CloseInode, CloseFlags, CloseRemove, CallInv, TypeOK, ClosePoints
  <2> QED BY <2>1, <2>2, <2>3
<1> QED BY <1>1, <1>2, <1>3

\* halt() and terminal switches.
LEMMA OtherSteps ==
    ASSUME SwitchAtUser, IInv, Halt \/ \E p \in Procs : SwitchTerminal(p)
    PROVE  IInv'
<1> USE DEF IInv
<1>1. CASE Halt
  <2>1. TypeOK'
    BY <1>1 DEF Halt, TypeOK, Points
  <2>2. DescriptorsAgree'
    BY <1>1 DEF Halt, DescriptorsAgree, TypeOK
  <2>3. CallInv'
    BY <1>1 DEF Halt, CallInv, ClosePoints
  <2> QED BY <2>1, <2>2, <2>3
<1>2. ASSUME NEW p \in Procs, SwitchTerminal(p) PROVE IInv'
  BY <1>2 DEF SwitchTerminal, SwitchAtUser, files, TypeOK, DescriptorsAgree, CallInv, ClosePoints
<1> QED BY <1>1, <1>2

\* Every step keeps IInv.
LEMMA NextIInv == ASSUME SwitchAtUser, IInv, [Next]_vars PROVE IInv'
<1>1. CASE UNCHANGED vars
  BY <1>1 DEF vars, files, IInv, TypeOK, DescriptorsAgree, CallInv
<1> QED BY <1>1, OpenSteps, CloseSteps, OtherSteps DEF Next

\* IInv holds always.
THEOREM Inductive == ASSUME SwitchAtUser PROVE Spec => []IInv
BY InitIInv, NextIInv, PTL DEF Spec

\* Whatever Ctrl-C cuts short, descriptors in use lead to the files they
\* were opened on, and no call goes through a null pointer (open_file,
\* close, close_file, remove_fd).
THEOREM DescriptorsSafe ==
    ASSUME SwitchAtUser
    PROVE  Spec => [](TypeOK /\ DescriptorsAgree /\ NullNeverCalled)
<1>1. IInv => TypeOK /\ DescriptorsAgree /\ NullNeverCalled
  <2> SUFFICES ASSUME IInv PROVE NullNeverCalled
    BY DEF IInv
  <2> QED BY OpsNotNull DEF IInv, TypeOK, DescriptorsAgree, CallInv, NullNeverCalled
<1> QED BY <1>1, Inductive, PTL

-----------------------------------------------------------------------------
\* The statements between which a descriptor is neither in use nor free:
\* open_file has set file_ops and not yet flags, or close() has cleared
\* flags and file_ops is not yet null.
Midway == {"open_inode", "open_flags", "close_call", "close_ops", "close_remove"}
CtrlCNotMidway == CtrlCPoints \cap Midway = {}

\* Only the descriptor of the call in progress is, and only midway.
LeakInv ==
    \A p \in Procs, d \in FDs :
        flags[p][d] = 0 =>
            file_ops[p][d] = NULL \/ (p = current_pcb /\ d = fd /\ pc \in Midway)

\* Every step keeps it, unless Ctrl-C comes midway.
LEMMA NextLeakInv ==
    ASSUME SwitchAtUser, CtrlCNotMidway, IInv, LeakInv, [Next]_vars
    PROVE  LeakInv'
<1> SUFFICES ASSUME NEW p \in Procs, NEW d \in FDs, flags'[p][d] = 0
             PROVE  file_ops'[p][d] = NULL
                      \/ (p = current_pcb' /\ d = fd' /\ pc' \in Midway)
  BY DEF LeakInv
<1>0. /\ flags[p][d] = 0 =>
           file_ops[p][d] = NULL \/ (p = current_pcb /\ d = fd /\ pc \in Midway)
      /\ flags[p][d] \in {0, 1} /\ TypeOK
  BY DEF LeakInv, IInv, TypeOK
<1>1. CASE UNCHANGED vars
  BY <1>0, <1>1 DEF vars, files
<1>2. ASSUME NEW t \in Types, OpenFind(t) PROVE file_ops'[p][d] = NULL
  BY <1>0, <1>2 DEF OpenFind, files, Midway
<1>3. CASE OpenFull
  BY <1>0, <1>3 DEF OpenFull, vars, files
<1>4. CASE OpenOps \/ OpenInode
  BY <1>0, <1>4 DEF OpenOps, OpenInode, TypeOK, Midway
<1>5. CASE OpenFlags
  BY <1>0, <1>5 DEF OpenFlags, TypeOK
<1>6. ASSUME NEW e \in FDs, CloseTest(e)
      PROVE  file_ops'[p][d] = NULL \/ (p = current_pcb' /\ d = fd' /\ pc' \in Midway)
  BY <1>0, <1>6 DEF CloseTest, TypeOK, Midway
<1>7. CASE CloseCall
  BY <1>0, <1>7 DEF CloseCall, files, Midway
<1>8. CASE CloseOps
  BY <1>0, <1>8 DEF CloseOps, TypeOK
<1>9. CASE CloseInode \/ CloseFlags
  BY <1>0, <1>9 DEF CloseInode, CloseFlags, TypeOK, Midway, IInv, CallInv
<1>10. CASE CloseRemove
  <2>1. pcb_ptr = current_pcb
    BY <1>10 DEF CloseRemove, IInv, CallInv, ClosePoints
  <2> QED BY <1>0, <1>10, <2>1 DEF CloseRemove, TypeOK
<1>11. CASE Halt
  <2>1. pc \notin Midway
    BY <1>11 DEF Halt, CtrlCNotMidway, Midway
  <2> QED BY <1>0, <1>11, <2>1 DEF Halt, TypeOK
<1>12. ASSUME NEW q \in Procs, SwitchTerminal(q) PROVE file_ops'[p][d] = NULL
  BY <1>0, <1>12 DEF SwitchTerminal, SwitchAtUser, files, Midway
<1> QED BY <1>1, <1>2, <1>3, <1>4, <1>5, <1>6, <1>7, <1>8, <1>9, <1>10, <1>11, <1>12 DEF Next

\* As long as Ctrl-C comes at no statement that leaves a descriptor midway,
\* halted calls included, close() and halt() return every descriptor to
\* open().
THEOREM NoLeakThm ==
    ASSUME SwitchAtUser, CtrlCNotMidway
    PROVE  Spec => []NoLeak
<1>1. Init => LeakInv
  BY DEF Init, LeakInv
<1>2. IInv /\ LeakInv /\ [Next]_vars => LeakInv'
  BY NextLeakInv
<1>3. IInv /\ LeakInv => NoLeak
  BY DEF LeakInv, NoLeak, Midway
<1> QED BY <1>1, <1>2, <1>3, Inductive, PTL DEF Spec
=============================================================================
