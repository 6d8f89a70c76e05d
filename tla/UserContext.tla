---------------------------- MODULE UserContext ----------------------------
(***************************************************************************)
(* Whose user-mode registers the CPU holds.  execute() leaves the          *)
(* registers of its caller in the frame it saves, halt() returns through   *)
(* that frame, and switch_terminal changes current_pcb, CR3 and tss.esp0   *)
(* but no register.                                                        *)
(***************************************************************************)
EXTENDS ProcessControl

VARIABLES
    regs,        \* slot whose user registers are in the CPU, or were pushed
                 \* on the kernel stack in use when the kernel was entered
    saved_regs   \* the same for the frame each slot's esp points to

uvars == <<vars, regs, saved_regs>>

UInit == Init /\ regs = 0 /\ saved_regs = [p \in Slots |-> 0]

(* execute(): the caller's registers stay in its frame, the iret loads a   *)
(* fresh set for the new process.                                          *)
UserEntry_unsaved ==
    /\ ExecuteRuns
    /\ regs' = current_pcb'
    /\ UNCHANGED saved_regs

UserEntry ==
    /\ ExecuteRuns
    /\ saved_regs' = [saved_regs EXCEPT ![current_pcb'] = regs]
    /\ regs' = current_pcb'

(* halt() adopts the frame of current_pcb, and with it those registers. *)
AdoptFrame ==
    /\ HaltLoadFrame
    /\ regs' = saved_regs[current_pcb]
    /\ UNCHANGED saved_regs

KeepRegisters ==
    /\ \/ BootShell \/ ExecuteLimit \/ ExecuteFails
       \/ HaltTest \/ HaltNestedDestroy \/ HaltReload \/ HaltBaseDestroy
       \/ HaltClose("halt_base", "halt_base_destroy")
       \/ HaltClose("halt_close", "halt_destroy")
       \/ UserStep \/ KeyboardStep \/ Reset
    /\ UNCHANGED <<regs, saved_regs>>

UNext == UserEntry \/ AdoptFrame \/ KeepRegisters

USpec == UInit /\ [][UNext]_uvars

-----------------------------------------------------------------------------
(* User code runs with the registers of current_pcb: however execute(),    *)
(* halt() and CTRL+C nest, the process that gets the CPU back is the one   *)
(* whose registers the return path restores.                               *)
RegistersOfCurrent == pc \in Settled /\ current_pcb # 0 => regs = current_pcb
=============================================================================
