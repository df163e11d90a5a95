------------------------------ MODULE E820Types ------------------------------
(***************************************************************************)
(* The vocabulary of the conversion of the memory map: the descriptors the *)
(* firmware returns, the entries the kernel receives, and how the type and *)
(* the size of one become those of the other (src/Loader/Origami.c,        *)
(* src/Loader/Origami.h).                                                  *)
(***************************************************************************)
EXTENDS MemoryTypes, Sequences

CONSTANTS
  Half,       \* 2^32: the number of values of a UINT32
  PageSize,   \* EFI_PAGE_SIZE
  Maps,       \* the memory maps the firmware may return
  StrayTypes  \* what the memory behind EfiTypeToE820Type may hold

(* A 64-bit integer is two 32-bit halves. *)
Word == Half * Half

-----------------------------------------------------------------------------
(***************************************************************************)
(* The values the local variable Type can take for a descriptor of type t. *)
(* A type the enumeration does not know stays RESERVED; the table is read  *)
(* for every type below EfiMaxMemoryType, and for EfiPersistentMemory that *)
(* read is one element past its end: the value is whatever lies there.     *)
(***************************************************************************)
ConvertedTypes(t) ==
  IF t < EfiMaxMemoryType
    THEN IF t \in DOMAIN EfiTypeToE820Type THEN { EfiTypeToE820Type[t] }
                                           ELSE StrayTypes
    ELSE { E820_TYPE_RESERVED }

(* EFI_PAGES_TO_SIZE, in 64-bit arithmetic. *)
PagesToSize(pages) == (pages * PageSize) % Word

-----------------------------------------------------------------------------
(* EFI_MEMORY_DESCRIPTOR and struct E820_ENTRY. *)
Descriptor == [type : 0 .. Half - 1, start : 0 .. Word - 1, pages : 0 .. Word - 1]
Entry      == [address : 0 .. Word - 1, size : 0 .. Word - 1, type : 0 .. Half - 1]

(* The addresses a region of a given base and size stands for. *)
Region(base, size) == base .. base + size - 1

DescriptorRegion(d) == Region(d.start, PagesToSize(d.pages))
EntryRegion(e)      == Region(e.address, e.size)

(* What the firmware guarantees of a map, in whatever order it lists the    *)
(* descriptors: none reaches the end of the address space (a physical       *)
(* address has 52 bits), and no two overlap.                                *)
WellFormed(m) ==
  /\ \A i \in 1 .. Len(m) : m[i].start + m[i].pages * PageSize < Word
  /\ \A i, j \in 1 .. Len(m) :
        i # j => DescriptorRegion(m[i]) \cap DescriptorRegion(m[j]) = {}

ASSUME E820TypesAssumption ==
  /\ Half \in Nat /\ Half > E820_TYPE_RESERVED_KERN
  /\ PageSize \in Nat \ {0}
  /\ StrayTypes \subseteq 0 .. Half - 1
  /\ StrayTypes # {}
  /\ \A m \in Maps : m \in Seq(Descriptor) /\ WellFormed(m)
=============================================================================
