----------------------------- MODULE RtcProofs -----------------------------
(***************************************************************************)
(* Proofs about Rtc for every set of frequencies and key presses at every  *)
(* control point.                                                          *)
(***************************************************************************)
EXTENDS Rtc, TLAPS

\* The handler is kept off the address port while rtc_write uses it.
Selected ==
    /\ pc \in {"write_addr", "write_get", "write_addr_again", "write_put", "write_unmask"}
         => masked
    /\ pc \in {"write_get", "write_put"} => index = "A"

\* A set rtc_sync_flag, and a reader that has cleared it but not returned,
\* each stand for a tick that no returned read has used.
Owed == rtc_sync_flag + (IF pc = "read_flag" THEN 1 ELSE 0)

Paced ==
    /\ credit >= Owed
    /\ pc = "read_sync" => rtc_sync_flag = 1

IInv == TypeOK /\ Selected /\ Paced

\* TypeOK by kinds of values.
Numbers ==
    /\ rtc_read_flag \in {0, 1} /\ rtc_sync_flag \in {0, 1}
    /\ rate \in Settings /\ new_freq \in Nat
    /\ credit \in Int /\ credit <= 2
Names    == index \in {"A", "C"} /\ saveA \in {"A", "C"} /\ pc \in PCs
Booleans == masked \in BOOLEAN /\ c_flag \in BOOLEAN /\ irr \in BOOLEAN

\* TypeOK is the conjunction of the three.
LEMMA Types == TypeOK <=> Numbers /\ Names /\ Booleans
BY DEF TypeOK, Numbers, Names, Booleans, Slack

\* The state entry() leaves the driver in satisfies the invariant.
LEMMA InitIInv == Init => IInv
<1> SUFFICES ASSUME Init PROVE IInv
  OBVIOUS
<1>1. Numbers /\ Names
  BY DEF Init, Numbers, Names, Settings, PCs
<1>2. Booleans
  BY Zenon DEF Init, Booleans
<1>3. Selected /\ Paced
  BY DEF Init, Selected, Paced, Owed
<1> QED
  BY <1>1, <1>2, <1>3, Types DEF IInv

\* The rate bits that rtc_write computes are settings of register A.
LEMMA RateBits == \A f \in Nat : rtc_freq(f) \in Settings
BY DEF rtc_freq, Settings

\* Every step of the driver, the clock, the handler and the keyboard keeps it.
LEMMA NextIInv == IInv /\ [Next]_vars => IInv'
<1> SUFFICES ASSUME IInv, [Next]_vars PROVE IInv'
  OBVIOUS
<1> USE DEF IInv
<1>1. CASE RtcHandler
  <2>1. /\ rtc_sync_flag' \in {0, 1} /\ pc' = pc /\ rtc_read_flag' = rtc_read_flag
        /\ (rtc_sync_flag = 1 => rtc_sync_flag' = 1)
        /\ credit' = IF credit < Slack THEN credit + 1 ELSE Slack
        /\ ~masked /\ masked' = masked
    BY <1>1 DEF RtcHandler, TypeOK
  <2>2. TypeOK'
    <3>1. Numbers'
      BY <1>1, Types DEF RtcHandler, Numbers, Slack
    <3>2. Names'
      BY <1>1, Types DEF RtcHandler, Names, PCs
    <3>3. Booleans'
      BY <1>1, Types, Zenon DEF RtcHandler, Booleans
    <3> QED
      BY <3>1, <3>2, <3>3 DEF TypeOK, Numbers, Names, Booleans, Slack
  <2>3. Selected'
    BY <2>1 DEF Selected
  <2>4. Paced'
    BY <2>1, Types DEF Paced, Owed, Slack, Numbers
  <2> QED
    BY <2>2, <2>3, <2>4
<1>2. CASE Tick \/ Abandon \/ UNCHANGED vars
  <2>1. TypeOK'
    <3>1. Numbers'
      BY <1>2, Types DEF Tick, Abandon, vars, flags, device,
         Numbers, Slack
    <3>2. Names'
      BY <1>2, Types DEF Tick, Abandon, vars, flags, device,
         Names, PCs
    <3>3. Booleans'
      BY <1>2, Types, Zenon DEF Tick, Abandon, vars, flags, device,
         Booleans
    <3> QED
      BY <3>1, <3>2, <3>3 DEF TypeOK, Numbers, Names, Booleans, Slack
  <2>2. Selected'
    BY <1>2 DEF Tick, Abandon, vars, flags, device, Selected
  <2>3. Paced'
    BY <1>2 DEF Tick, Abandon, vars, flags, device, Paced, Owed, TypeOK
  <2> QED
    BY <2>1, <2>2, <2>3
<1>3. CASE ReadCall \/ ReadLeaveLoop \/ ReadClearSync \/ ReadReturn
  <2>1. TypeOK'
    <3>1. Numbers'
      BY <1>3, Types DEF ReadCall, ReadLeaveLoop, ReadClearSync, ReadReturn, flags,
         device, Numbers, Slack
    <3>2. Names'
      BY <1>3, Types DEF ReadCall, ReadLeaveLoop, ReadClearSync, ReadReturn, flags,
         device, Names, PCs
    <3>3. Booleans'
      BY <1>3, Types DEF ReadCall, ReadLeaveLoop, ReadClearSync, ReadReturn, flags,
         device, Booleans
    <3> QED
      BY <3>1, <3>2, <3>3 DEF TypeOK, Numbers, Names, Booleans, Slack
  <2>2. Selected'
    BY <1>3 DEF ReadCall, ReadLeaveLoop, ReadClearSync, ReadReturn, device, Selected
  <2>3. Paced'
    BY <1>3 DEF ReadCall, ReadLeaveLoop, ReadClearSync, ReadReturn, flags, Paced, Owed,
                TypeOK
  <2> QED
    BY <2>1, <2>2, <2>3
<1>4. CASE \E f \in Freqs : WriteCall(f) \/ WriteRefused(f)
  <2>1. TypeOK'
    <3>1. Numbers'
      BY <1>4, Types, FreqsAssumption
         DEF WriteCall, WriteRefused, vars, flags, device,
             Numbers, Slack
    <3>2. Names'
      BY <1>4, Types
         DEF WriteCall, WriteRefused, vars, flags, device,
             Names, PCs
    <3>3. Booleans'
      BY <1>4, Types
         DEF WriteCall, WriteRefused, vars, flags, device,
             Booleans
    <3> QED
      BY <3>1, <3>2, <3>3 DEF TypeOK, Numbers, Names, Booleans, Slack
  <2>2. Selected'
    BY <1>4 DEF WriteCall, WriteRefused, vars, device,
                Selected
  <2>3. Paced'
    BY <1>4 DEF WriteCall, WriteRefused, vars, flags,
                Paced, Owed, TypeOK
  <2> QED
    BY <2>1, <2>2, <2>3
<1>5. CASE \/ WriteMask \/ WriteGet \/ WritePut \/ WriteUnmask
           \/ WriteAddr("write_addr", "write_get")
           \/ WriteAddr("write_addr_again", "write_put")
  <2>1. TypeOK'
    <3>1. Numbers'
      BY <1>5, Types, RateBits
         DEF WriteMask, WriteGet, WritePut, WriteUnmask, WriteAddr, vars, flags, device,
             Numbers, Slack
    <3>2. Names'
      BY <1>5, Types
         DEF WriteMask, WriteGet, WritePut, WriteUnmask, WriteAddr, vars, flags, device,
             Names, PCs
    <3>3. Booleans'
      BY <1>5, Types, Zenon
         DEF WriteMask, WriteGet, WritePut, WriteUnmask, WriteAddr, vars, flags, device,
             Booleans
    <3> QED
      BY <3>1, <3>2, <3>3 DEF TypeOK, Numbers, Names, Booleans, Slack
  <2>2. Selected'
    BY <1>5 DEF WriteMask, WriteGet, WritePut, WriteUnmask, WriteAddr, vars, device,
                Selected
  <2>3. Paced'
    BY <1>5 DEF WriteMask, WriteGet, WritePut, WriteUnmask, WriteAddr, vars, flags,
                Paced, Owed, TypeOK
  <2> QED
    BY <2>1, <2>2, <2>3
<1> QED
  BY <1>1, <1>2, <1>3, <1>4, <1>5 DEF Next, DriverStep

\* IInv is an invariant of the driver.
THEOREM Inductive == Spec => []IInv
<1>1. IInv /\ [Next]_vars => IInv'
  BY NextIInv
<1> QED
  BY InitIInv, <1>1, PTL DEF Spec

\* Every variable of the driver keeps its type.
THEOREM TypeCorrect == Spec => []TypeOK
<1>1. IInv => TypeOK
  BY DEF IInv
<1> QED
  BY <1>1, Inductive, PTL

\* Reads never return faster than the clock ticks, up to Slack of them.
THEOREM Pacing == Spec => []ReadsPaced
<1>1. IInv => ReadsPaced
  BY DEF IInv, TypeOK, Paced, Owed, ReadsPaced
<1> QED
  BY <1>1, Inductive, PTL

\* rtc_write never reads or writes another register than A.
THEOREM RegisterSelection == Spec => []RegisterASelected
<1>1. IInv => RegisterASelected
  BY DEF IInv, Selected, RegisterASelected
<1> QED
  BY <1>1, Inductive, PTL
=============================================================================
