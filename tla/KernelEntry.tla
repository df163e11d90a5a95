------------------------------ MODULE KernelEntry ------------------------------
(***************************************************************************)
(* The way into the kernel at the end of LoadOrigamiKernel                 *)
(* (src/Loader/Origami.c): the page tables (HigherHalf.tla), and then the  *)
(* jump (JumpToKernel.tla).  What is done in between, the memory map and   *)
(* the exit from the boot services, is in OrigamiLoader.tla and changes    *)
(* neither.                                                                *)
(***************************************************************************)
EXTENDS HigherHalf

VARIABLES registers, instruction, rip

jump      == <<registers, instruction, rip>>
entryVars == <<vars, jump>>

Jump == INSTANCE JumpToKernel WITH pc <- instruction

EntryInit == Init /\ Jump!Init

-----------------------------------------------------------------------------
MapHigherHalf == Next /\ UNCHANGED jump

JumpToKernel == pc > Len(Statements) /\ Jump!Next /\ UNCHANGED vars

Started == rip # "none" /\ UNCHANGED entryVars

EntryNext == MapHigherHalf \/ JumpToKernel \/ Started

EntrySpec == EntryInit /\ [][EntryNext]_entryVars

-----------------------------------------------------------------------------
EntryTypeOK == TypeOK /\ Jump!TypeOK

(* The kernel starts with its arguments, and with nothing of the loader in  *)
(* the other registers but rbp and r8.                                      *)
ArgumentsArrive == Jump!ArgumentsArrive
=============================================================================
