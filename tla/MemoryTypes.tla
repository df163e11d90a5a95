----------------------------- MODULE MemoryTypes -----------------------------
(***************************************************************************)
(* The memory types of the UEFI map, the types of the E820 map the kernel  *)
(* receives, and the table that converts one into the other                *)
(* (src/Loader/Origami.c, src/Loader/Origami.h).                           *)
(***************************************************************************)
EXTENDS Naturals

(* EFI_MEMORY_TYPE, in the order of the enumeration. *)
EfiReservedMemoryType      == 0
EfiLoaderCode              == 1
EfiLoaderData              == 2
EfiBootServicesCode        == 3
EfiBootServicesData        == 4
EfiRuntimeServicesCode     == 5
EfiRuntimeServicesData     == 6
EfiConventionalMemory      == 7
EfiUnusableMemory          == 8
EfiACPIReclaimMemory       == 9
EfiACPIMemoryNVS           == 10
EfiMemoryMappedIO          == 11
EfiMemoryMappedIOPortSpace == 12
EfiPalCode                 == 13
EfiPersistentMemory        == 14
EfiMaxMemoryType           == 15

(* enum E820_TYPE *)
E820_TYPE_RAM           == 1
E820_TYPE_RESERVED      == 2
E820_TYPE_ACPI          == 3
E820_TYPE_NVS           == 4
E820_TYPE_UNUSABLE      == 5
E820_TYPE_PMEM          == 7
E820_TYPE_PRAM          == 12
E820_TYPE_RESERVED_KERN == 128

(* The enumerators a UINT32 of the scaled-down Half can hold: all of them   *)
(* but E820_TYPE_SOFT_RESERVED (0xefffffff), which the loader never uses.   *)
E820Enumerators ==
  { E820_TYPE_RAM, E820_TYPE_RESERVED, E820_TYPE_ACPI, E820_TYPE_NVS,
    E820_TYPE_UNUSABLE, E820_TYPE_PMEM, E820_TYPE_PRAM,
    E820_TYPE_RESERVED_KERN }

(***************************************************************************)
(* The table the loader converts with.  Its last designated initialiser is *)
(* EfiPalCode, so it has 14 elements and none for EfiPersistentMemory.     *)
(***************************************************************************)
EfiTypeToE820Type ==
  [t \in EfiReservedMemoryType .. EfiPalCode |->
     CASE t \in { EfiRuntimeServicesCode, EfiRuntimeServicesData,
                  EfiLoaderCode, EfiLoaderData,
                  EfiBootServicesCode, EfiBootServicesData,
                  EfiConventionalMemory }       -> E820_TYPE_RAM
       [] t \in { EfiReservedMemoryType, EfiMemoryMappedIO, EfiPalCode }
                                                -> E820_TYPE_RESERVED
       [] t = EfiMemoryMappedIOPortSpace        -> E820_TYPE_RESERVED_KERN
       [] t = EfiUnusableMemory                 -> E820_TYPE_UNUSABLE
       [] t = EfiACPIReclaimMemory              -> E820_TYPE_ACPI
       [] t = EfiACPIMemoryNVS                  -> E820_TYPE_NVS]

(* What the table calls RAM: loader, boot services and conventional memory, *)
(* and the memory of the runtime services among them.                       *)
RamTypes == EfiLoaderCode .. EfiConventionalMemory
=============================================================================
