---------------------------- MODULE KernelAddress -----------------------------
(***************************************************************************)
(* Where LoadElf (src/Loader/ElfLoader.c) puts what a kernel is linked to. *)
(* The unit is a byte in ElfLoader.tla and a gigabyte in HigherHalf.tla.   *)
(***************************************************************************)
EXTENDS Integers

CONSTANTS
  AddressSpace,  \* 2^64
  HighBase       \* 0xffffffff80000000

ASSUME KernelAddressAssumption ==
  /\ AddressSpace \in Nat /\ HighBase \in Nat
  /\ AddressSpace <= 2 * HighBase /\ HighBase < AddressSpace

(* An address with BIT63 loses HighBase, in 64-bit arithmetic. *)
LoadAddress(vaddr) ==
  IF 2 * vaddr >= AddressSpace THEN (vaddr - HighBase) % AddressSpace ELSE vaddr
=============================================================================
