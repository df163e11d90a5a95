----------------------------- MODULE E820InPlace -----------------------------
(***************************************************************************)
(* The loop at the end of LoadOrigamiKernel that turns the UEFI memory map *)
(* into an E820 map (src/Loader/Origami.c), statement by statement.        *)
(*                                                                         *)
(* Struct->Memmap and Descriptors are the same buffer: the entries, 20     *)
(* bytes apart, are written over the descriptors, DescriptorSize bytes     *)
(* apart, while later descriptors are still to be read.  The buffer is     *)
(* modelled as the 32-bit cells it is made of, so that what a write does   *)
(* to the descriptors under it is in the model.                            *)
(***************************************************************************)
EXTENDS E820Types

CONSTANTS
  Stride,  \* DescriptorSize, in 32-bit cells
  Filler   \* what the firmware leaves in the fields the loader never reads

EntryStride == 5   \* sizeof(struct E820_ENTRY), packed, in 32-bit cells

ASSUME E820InPlaceAssumption ==
  /\ Stride \in Nat /\ Stride >= 10   \* sizeof(EFI_MEMORY_DESCRIPTOR) is 40
  /\ Filler \in 0 .. Half - 1

VARIABLES
  map,      \* the map GetMemoryMap wrote; it stays here for reference only
  mem,      \* the buffer Descriptors points at, as 32-bit cells
  pc,       \* the statement of the loop body to execute next
  index,    \* Index
  current,  \* Current, as an index into the E820 entries
  type,     \* Type
  entries   \* Struct->MemmapEntries

vars == <<map, mem, pc, index, current, type, entries>>

-----------------------------------------------------------------------------
(* Memory accesses of 32 and 64 bits. *)
Read32(m, c)     == m[c]
Read64(m, c)     == m[c] + Half * m[c + 1]
Write32(m, c, v) == [m EXCEPT ![c] = v]
Write64(m, c, v) == [m EXCEPT ![c] = v % Half, ![c + 1] = v \div Half]

(* Where Descriptor and Current point, and the offsets of their fields. *)
DescriptorCell(i) == Stride * i

EntryCellBehindHeader(j) == Stride + EntryStride * j   \* a slip: room for a header
EntryCell(j)             == EntryStride * j

TypeField          == 0   \* EFI_MEMORY_DESCRIPTOR.Type
PhysicalStartField == 2   \* EFI_MEMORY_DESCRIPTOR.PhysicalStart
NumberOfPagesField == 6   \* EFI_MEMORY_DESCRIPTOR.NumberOfPages
AddressField       == 0   \* E820_ENTRY.address
SizeField          == 2   \* E820_ENTRY.size
EntryTypeField     == 4   \* E820_ENTRY.type

DescriptorType     == Read32(mem, DescriptorCell(index) + TypeField)
PhysicalStart      == Read64(mem, DescriptorCell(index) + PhysicalStartField)
NumberOfPages      == Read64(mem, DescriptorCell(index) + NumberOfPagesField)
CurrentAddress     == Read64(mem, EntryCell(current) + AddressField)
CurrentSize        == Read64(mem, EntryCell(current) + SizeField)
CurrentType        == Read32(mem, EntryCell(current) + EntryTypeField)

(* The cells of the buffer when GetMemoryMap returns it. *)
DescriptorImage(d, k) ==
  IF k = TypeField                   THEN d.type
  ELSE IF k = PhysicalStartField     THEN d.start % Half
  ELSE IF k = PhysicalStartField + 1 THEN d.start \div Half
  ELSE IF k = NumberOfPagesField     THEN d.pages % Half
  ELSE IF k = NumberOfPagesField + 1 THEN d.pages \div Half
  ELSE Filler

Cells(m) == 0 .. Stride * Len(m) - 1

BufferImage(m) ==
  [c \in Cells(m) |-> DescriptorImage(m[(c \div Stride) + 1], c % Stride)]

Init ==
  /\ map \in Maps
  /\ mem = BufferImage(map)
  /\ pc = "head"
  /\ index = 0
  /\ current = 0
  /\ type = E820_TYPE_RESERVED
  /\ entries = 0

-----------------------------------------------------------------------------
(* for (...; Index < MemoryMapSize / DescriptorSize; ...): the loop ends.   *)
Finish ==
  /\ pc = "head"
  /\ index = Len(map)
  /\ pc' = "done"
  /\ UNCHANGED <<map, mem, index, current, type, entries>>

(* Type = ...: the type is looked up before anything is overwritten.        *)
LookUpType ==
  /\ pc = "head"
  /\ index < Len(map)
  /\ type' \in ConvertedTypes(DescriptorType)
  /\ pc' = "compare"
  /\ UNCHANGED <<map, mem, index, current, entries>>

(* Slips in the condition: no test of the types, none of the addresses, and *)
(* the last byte taken for the end.                                         *)
ContiguousAnyType ==
  /\ index # 0
  /\ (CurrentAddress + CurrentSize) % Word = PhysicalStart

ContiguousAcrossGaps ==
  /\ index # 0
  /\ CurrentType = type

ContiguousByLastByte ==
  /\ index # 0
  /\ CurrentType = type
  /\ (CurrentAddress + CurrentSize - 1) % Word = PhysicalStart

(* The condition of the if: the descriptor continues the current entry.     *)
Contiguous ==
  /\ index # 0
  /\ CurrentType = type
  /\ (CurrentAddress + CurrentSize) % Word = PhysicalStart

(* A slip: the entry grows by a page whatever the number of pages.          *)
MergeOnePage ==
  /\ pc = "compare"
  /\ Contiguous
  /\ mem' = Write64(mem, EntryCell(current) + SizeField, (CurrentSize + PageSize) % Word)
  /\ index' = index + 1
  /\ pc' = "head"
  /\ UNCHANGED <<map, current, type, entries>>

(* Current->size += ..., and the end of the iteration.                      *)
Merge ==
  /\ pc = "compare"
  /\ Contiguous
  /\ mem' = Write64(mem, EntryCell(current) + SizeField,
                    (CurrentSize + PagesToSize(NumberOfPages)) % Word)
  /\ index' = index + 1
  /\ pc' = "head"
  /\ UNCHANGED <<map, current, type, entries>>

(* The else branch: Current moves on unless it still has its first entry.   *)
Advance ==
  /\ pc = "compare"
  /\ ~Contiguous
  /\ current' = IF index # 0 THEN current + 1 ELSE current
  /\ pc' = "address"
  /\ UNCHANGED <<map, mem, index, type, entries>>

(* A slip: the size is written first, over the address still to be read.    *)
WriteAddressAfterSize ==
  /\ pc = "address"
  /\ LET sized == Write64(mem, EntryCell(current) + SizeField,
                          PagesToSize(NumberOfPages)) IN
       mem' = Write64(sized, EntryCell(current) + AddressField,
                      Read64(sized, DescriptorCell(index) + PhysicalStartField))
  /\ pc' = "size"
  /\ UNCHANGED <<map, index, current, type, entries>>

(* Current->address = Descriptor->PhysicalStart *)
WriteAddress ==
  /\ pc = "address"
  /\ mem' = Write64(mem, EntryCell(current) + AddressField, PhysicalStart)
  /\ pc' = "size"
  /\ UNCHANGED <<map, index, current, type, entries>>

(* Current->size = EFI_PAGES_TO_SIZE(Descriptor->NumberOfPages) *)
WriteSize ==
  /\ pc = "size"
  /\ mem' = Write64(mem, EntryCell(current) + SizeField, PagesToSize(NumberOfPages))
  /\ pc' = "type"
  /\ UNCHANGED <<map, index, current, type, entries>>

(* A slip: Index is incremented in the branch as well as by the loop.       *)
WriteTypeAndSkip ==
  /\ pc = "type"
  /\ mem' = Write32(mem, EntryCell(current) + EntryTypeField, type)
  /\ entries' = entries + 1
  /\ index' = index + 2
  /\ pc' = "head"
  /\ UNCHANGED <<map, current, type>>

(* Current->type = Type; Struct->MemmapEntries++; and the end of the        *)
(* iteration.                                                               *)
WriteType ==
  /\ pc = "type"
  /\ mem' = Write32(mem, EntryCell(current) + EntryTypeField, type)
  /\ entries' = entries + 1
  /\ index' = index + 1
  /\ pc' = "head"
  /\ UNCHANGED <<map, current, type>>

(* The loop is over and the kernel is entered. *)
Terminated == pc = "done" /\ UNCHANGED vars

Next ==
  \/ Finish \/ LookUpType \/ Merge \/ Advance
  \/ WriteAddress \/ WriteSize \/ WriteType
  \/ Terminated

Spec == Init /\ [][Next]_vars

-----------------------------------------------------------------------------
(* The map the kernel finds in the buffer: MemmapEntries entries. *)
EntryAt(j) ==
  [address |-> Read64(mem, EntryCell(j) + AddressField),
   size    |-> Read64(mem, EntryCell(j) + SizeField),
   type    |-> Read32(mem, EntryCell(j) + EntryTypeField)]

Reported == [i \in 1 .. entries |-> EntryAt(i - 1)]

-----------------------------------------------------------------------------
Reading == { "compare", "address", "size", "type" }   \* within the loop's body

TypeOK ==
  /\ map \in Maps
  /\ mem \in [Cells(map) -> 0 .. Half - 1]
  /\ pc \in Reading \cup { "head", "done" }
  /\ index \in 0 .. Len(map)
  /\ current \in Nat
  /\ type \in 0 .. Half - 1
  /\ entries \in Nat

(* The cells of a descriptor the loop reads besides its type.               *)
StartCells == { PhysicalStartField, PhysicalStartField + 1 }
PagesCells == { NumberOfPagesField, NumberOfPagesField + 1 }

Intact(i, k) ==
  mem[DescriptorCell(i) + k] = DescriptorImage(map[i + 1], k)

(* No entry is ever written over a part of the firmware's map that is still *)
(* to be read: the buffer is reused, and the first entry overwrites the     *)
(* first descriptor while it is being converted.                            *)
UnreadIntact ==
  /\ index < Len(map) =>
        /\ pc = "head" => Intact(index, TypeField)
        /\ pc \in { "head", "compare", "address" } =>
              \A k \in StartCells : Intact(index, k)
        /\ pc \in { "head", "compare", "address", "size" } =>
              \A k \in PagesCells : Intact(index, k)
  /\ \A i \in index + 1 .. Len(map) - 1 :
        \A k \in { TypeField } \cup StartCells \cup PagesCells : Intact(i, k)

Abstract == INSTANCE E820Map WITH done <- index, out <- Reported

(* Building the map on top of the descriptors reports the same map as       *)
(* building it beside them would: the loop implements E820Map.              *)
ImplementsE820Map == Abstract!Spec

-----------------------------------------------------------------------------
(* What E820Map promises, of the map that is in the buffer: whatever order  *)
(* the firmware lists its memory in, however often an entry grows, ...      *)

(* ... no address of a converted descriptor is lost, and it is reported     *)
(* under a type the descriptor converts to, ...                             *)
NothingLost == Abstract!NothingLost

(* ... no entry covers what the firmware did not report as something that   *)
(* converts to its type: RAM is what the table has as RAM, or persistent    *)
(* memory, when what lies behind the table happens to say so, ...           *)
NothingInvented == Abstract!NothingInvented

(* ... no two entries claim the same address, ...                           *)
EntriesDisjoint == Abstract!EntriesDisjoint

(* ... and no two consecutive entries could be one.                         *)
NoMergeLeft == Abstract!NoMergeLeft

-----------------------------------------------------------------------------
(* What spec/origami.h says, and the code does not do: the map is of E820's *)
(* types, and those have one for persistent memory.  Every entry over       *)
(* persistent memory is of that type.                                       *)
PersistentMemoryIsPersistent ==
  \A i \in 1 .. index, j \in 1 .. entries :
     /\ map[i].type = EfiPersistentMemory
     /\ DescriptorRegion(map[i]) \cap EntryRegion(Reported[j]) # {}
     => Reported[j].type = E820_TYPE_PMEM
=============================================================================
