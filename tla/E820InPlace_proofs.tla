-------------------------- MODULE E820InPlace_proofs --------------------------
(***************************************************************************)
(* Proofs about E820InPlace: no descriptor is overwritten before it is     *)
(* read, and the loop implements E820Map.                                  *)
(*                                                                         *)
(* The argument is a distance.  An entry is half as long as a descriptor   *)
(* at least, and there are never more entries than descriptors converted,  *)
(* so that every entry but the first ends before the descriptor being      *)
(* read begins.  The first one is written over the first descriptor, each  *)
(* of its fields onto cells that were read before or are never read.       *)
(***************************************************************************)
EXTENDS E820InPlace, TLAPS

(* What is proved of E820Map, read of the map that is in the buffer.        *)
Proved == INSTANCE E820Map_proofs WITH done <- index, out <- Reported

(* How the counters relate: Current is the last entry at the head of the    *)
(* loop, and the one after it once the else branch has moved it.            *)
Counters ==
  /\ entries <= index
  /\ pc \in Reading => index < Len(map)
  /\ pc = "done" => index = Len(map)
  /\ pc \in { "head", "compare", "done" } =>
       IF index = 0 THEN entries = 0 /\ current = 0 ELSE entries = current + 1
  /\ pc \in { "address", "size", "type" } => current = entries

(* What the statements of an iteration leave for those after them.          *)
Iteration ==
  LET d == map[index + 1] IN
  /\ pc \in Reading => type \in ConvertedTypes(d.type)
  /\ pc \in { "address", "size", "type" } => ~Abstract!Extends(d, type)
  /\ pc \in { "size", "type" } => CurrentAddress = d.start
  /\ pc = "type" => CurrentSize = PagesToSize(d.pages)

IInv == TypeOK /\ Counters /\ UnreadIntact /\ Iteration

Fields == { TypeField } \cup StartCells \cup PagesCells

-----------------------------------------------------------------------------
(* A remainder is below its modulus. *)
LEMMA ModRange ==
  ASSUME NEW w \in Nat \ {0}, NEW a \in Nat
  PROVE  a % w \in 0 .. w - 1
  BY SMT

(* A word is its low half and Half times its high half. *)
LEMMA Halves ==
  ASSUME NEW h \in Nat \ {0}, NEW a \in 0 .. h * h - 1
  PROVE  /\ a % h \in 0 .. h - 1
         /\ a \div h \in 0 .. h - 1
         /\ (a % h) + h * (a \div h) = a
  BY SMT

(* Words, types and descriptors are the same in both specifications.        *)
LEMMA SameWords ==
  /\ Proved!Word = Word
  /\ Proved!Descriptor = Descriptor
  /\ \A p : Proved!PagesToSize(p) = PagesToSize(p)
  BY DEF Proved!Word, Word, Proved!Descriptor, Descriptor, Proved!PagesToSize, PagesToSize

LEMMA SameTypes ==
  ASSUME NEW t
  PROVE  /\ Proved!ConvertedTypes(t) = ConvertedTypes(t)
         /\ Abstract!ConvertedTypes(t) = ConvertedTypes(t)
  <1>1. /\ Proved!EfiTypeToE820Type = EfiTypeToE820Type
        /\ Abstract!EfiTypeToE820Type = EfiTypeToE820Type
    BY DEF Abstract!EfiTypeToE820Type, Proved!EfiTypeToE820Type,
           EfiTypeToE820Type, Abstract!EfiReservedMemoryType,
           Proved!EfiReservedMemoryType, EfiReservedMemoryType,
           Abstract!EfiLoaderCode, Proved!EfiLoaderCode, EfiLoaderCode,
           Abstract!EfiLoaderData, Proved!EfiLoaderData, EfiLoaderData,
           Abstract!EfiBootServicesCode, Proved!EfiBootServicesCode,
           EfiBootServicesCode, Abstract!EfiBootServicesData,
           Proved!EfiBootServicesData, EfiBootServicesData,
           Abstract!EfiRuntimeServicesCode, Proved!EfiRuntimeServicesCode,
           EfiRuntimeServicesCode, Abstract!EfiRuntimeServicesData,
           Proved!EfiRuntimeServicesData, EfiRuntimeServicesData,
           Abstract!EfiConventionalMemory, Proved!EfiConventionalMemory,
           EfiConventionalMemory, Abstract!EfiUnusableMemory,
           Proved!EfiUnusableMemory, EfiUnusableMemory,
           Abstract!EfiACPIReclaimMemory, Proved!EfiACPIReclaimMemory,
           EfiACPIReclaimMemory, Abstract!EfiACPIMemoryNVS,
           Proved!EfiACPIMemoryNVS, EfiACPIMemoryNVS,
           Abstract!EfiMemoryMappedIO, Proved!EfiMemoryMappedIO,
           EfiMemoryMappedIO, Abstract!EfiMemoryMappedIOPortSpace,
           Proved!EfiMemoryMappedIOPortSpace, EfiMemoryMappedIOPortSpace,
           Abstract!EfiPalCode, Proved!EfiPalCode, EfiPalCode,
           Abstract!E820_TYPE_RAM, Proved!E820_TYPE_RAM, E820_TYPE_RAM,
           Abstract!E820_TYPE_RESERVED, Proved!E820_TYPE_RESERVED,
           E820_TYPE_RESERVED, Abstract!E820_TYPE_RESERVED_KERN,
           Proved!E820_TYPE_RESERVED_KERN, E820_TYPE_RESERVED_KERN,
           Abstract!E820_TYPE_UNUSABLE, Proved!E820_TYPE_UNUSABLE,
           E820_TYPE_UNUSABLE, Abstract!E820_TYPE_ACPI, Proved!E820_TYPE_ACPI,
           E820_TYPE_ACPI, Abstract!E820_TYPE_NVS, Proved!E820_TYPE_NVS,
           E820_TYPE_NVS
  <1> QED
    BY <1>1 DEF ConvertedTypes, Proved!ConvertedTypes, Abstract!ConvertedTypes, EfiMaxMemoryType,
       Proved!EfiMaxMemoryType, Abstract!EfiMaxMemoryType, E820_TYPE_RESERVED,
       Proved!E820_TYPE_RESERVED, Abstract!E820_TYPE_RESERVED

LEMMA SameAssumption == Proved!E820TypesAssumption
  <1>1. \A m : Proved!WellFormed(m) = WellFormed(m)
    BY SameWords DEF Proved!WellFormed, WellFormed, Proved!DescriptorRegion, DescriptorRegion,
       Proved!Region, Region
  <1> QED
    BY <1>1, SameWords, E820TypesAssumption
    DEF Proved!E820TypesAssumption, Proved!E820_TYPE_RESERVED_KERN, E820_TYPE_RESERVED_KERN

(* So what is known of them there is known here.                            *)
LEMMA WordSize == Half \in Nat \ {0} /\ Word \in Nat \ {0} /\ Half <= Word
  BY Proved!WordSize, SameWords, SameAssumption

LEMMA ConvertedTypesFit ==
  ASSUME NEW t \in Nat
  PROVE  ConvertedTypes(t) \subseteq 0 .. Half - 1 /\ ConvertedTypes(t) # {}
  BY Proved!ConvertedTypesFit, SameTypes, SameAssumption

LEMMA DescriptorsFit ==
  ASSUME NEW m \in Maps, NEW i \in 1 .. Len(m)
  PROVE  /\ m \in Seq(Descriptor)
         /\ m[i] \in Descriptor
         /\ m[i].type \in 0 .. Half - 1 /\ m[i].type \in Nat
         /\ m[i].start \in 0 .. Word - 1 /\ m[i].start \in Nat
         /\ m[i].pages \in 0 .. Word - 1 /\ m[i].pages \in Nat
         /\ PagesToSize(m[i].pages) \in Nat
         /\ m[i].start + PagesToSize(m[i].pages) < Word
  BY Proved!DescriptorsFit, SameWords, SameAssumption

(* Sizes are words, and so are the ends of regions in 64-bit arithmetic.    *)
LEMMA PagesToSizeFits ==
  ASSUME NEW p \in Nat
  PROVE  PagesToSize(p) \in 0 .. Word - 1
  <1>1. PageSize \in Nat \ {0}
    BY E820TypesAssumption
  <1>2. ASSUME NEW q \in Nat PROVE p * q \in Nat
    BY SMT
  <1>3. p * PageSize \in Nat
    BY <1>1, <1>2
  <1> QED BY <1>3, WordSize, ModRange DEF PagesToSize

-----------------------------------------------------------------------------
(* Where the descriptors are: one begins at least ten cells after another.  *)
LEMMA DescriptorCells ==
  ASSUME NEW i \in Nat
  PROVE  /\ DescriptorCell(i) \in Nat
         /\ DescriptorCell(i) >= 10 * i
         /\ DescriptorCell(0) = 0
         /\ \A j \in Nat : i < j => DescriptorCell(i) + Stride <= DescriptorCell(j)
  <1>1. Stride \in Nat /\ Stride >= 10
    BY E820InPlaceAssumption
  <1>2. ASSUME NEW s \in Nat, s >= 10
        PROVE  /\ s * i \in Nat /\ s * i >= 10 * i /\ s * 0 = 0
               /\ \A j \in Nat : i < j => s * i + s <= s * j
    <2>1. \A a, b, t \in Nat : a < b => t * a + t <= t * b
      OBVIOUS
    <2>2. \A t, u \in Nat : t >= 10 => t * u \in Nat /\ t * u >= 10 * u /\ t * 0 = 0
      OBVIOUS
    <2> QED BY <1>2, <2>1, <2>2
  <1> QED BY <1>1, <1>2 DEF DescriptorCell

(* A descriptor of the buffer lies in the buffer. *)
LEMMA DescriptorInBuffer ==
  ASSUME NEW m, Len(m) \in Nat, NEW i \in Nat, i < Len(m), NEW k \in 0 .. 9
  PROVE  DescriptorCell(i) + k \in Cells(m)
  <1>1. DescriptorCell(i) + Stride <= DescriptorCell(Len(m))
    BY DescriptorCells
  <1>2. DescriptorCell(i) \in Nat /\ DescriptorCell(Len(m)) \in Nat
    BY DescriptorCells
  <1>3. Stride \in Nat /\ Stride >= 10
    BY E820InPlaceAssumption
  <1>4. DescriptorCell(Len(m)) = Stride * Len(m)
    BY DEF DescriptorCell
  <1> QED BY <1>1, <1>2, <1>3, <1>4 DEF Cells

(* A 64-bit word that is written is read back, and no other cell changes.   *)
LEMMA Written64 ==
  ASSUME NEW D \in SUBSET Nat, NEW m \in [D -> 0 .. Half - 1],
         NEW c \in D, c + 1 \in D, NEW v \in 0 .. Word - 1
  PROVE  /\ Write64(m, c, v) \in [D -> 0 .. Half - 1]
         /\ Read64(Write64(m, c, v), c) = v
         /\ \A x \in D : x # c /\ x # c + 1 => Write64(m, c, v)[x] = m[x]
  <1>1. /\ v % Half \in 0 .. Half - 1 /\ v \div Half \in 0 .. Half - 1
        /\ (v % Half) + Half * (v \div Half) = v
    BY WordSize, Halves DEF Word
  <1>2. c # c + 1
    OBVIOUS
  <1> QED BY <1>1, <1>2 DEF Write64, Read64

LEMMA Written32 ==
  ASSUME NEW D \in SUBSET Nat, NEW m \in [D -> 0 .. Half - 1],
         NEW c \in D, NEW v \in 0 .. Half - 1
  PROVE  /\ Write32(m, c, v) \in [D -> 0 .. Half - 1]
         /\ Read32(Write32(m, c, v), c) = v
         /\ \A x \in D : x # c => Write32(m, c, v)[x] = m[x]
  BY DEF Write32, Read32

(* Reading a descriptor nothing was written over gives what the firmware    *)
(* put there.                                                               *)
LEMMA IntactReads ==
  ASSUME TypeOK, index < Len(map)
  PROVE  LET d == map[index + 1] IN
         /\ Intact(index, TypeField) => DescriptorType = d.type
         /\ (\A k \in StartCells : Intact(index, k)) => PhysicalStart = d.start
         /\ (\A k \in PagesCells : Intact(index, k)) => NumberOfPages = d.pages
  <1> DEFINE d == map[index + 1]
  <1>1. map \in Maps /\ index + 1 \in 1 .. Len(map)
    <2>1. map \in Maps /\ index \in 0 .. Len(map) /\ map \in Seq(Descriptor)
      BY E820TypesAssumption DEF TypeOK
    <2> QED BY <2>1
  <1>2. d.start \in 0 .. Word - 1 /\ d.pages \in 0 .. Word - 1
    BY <1>1, DescriptorsFit
  <1>3. /\ (d.start % Half) + Half * (d.start \div Half) = d.start
        /\ (d.pages % Half) + Half * (d.pages \div Half) = d.pages
    BY <1>2, WordSize, Halves DEF Word
  <1>4. /\ DescriptorImage(d, 0) = d.type
        /\ DescriptorImage(d, 2) = d.start % Half /\ DescriptorImage(d, 3) = d.start \div Half
        /\ DescriptorImage(d, 6) = d.pages % Half /\ DescriptorImage(d, 7) = d.pages \div Half
    BY DEF DescriptorImage, TypeField, PhysicalStartField, NumberOfPagesField
  <1>5. DescriptorCell(index) \in Nat
    BY DescriptorCells DEF TypeOK
  <1>6. Intact(index, TypeField) => DescriptorType = d.type
    BY <1>4, <1>5 DEF Intact, DescriptorType, Read32, TypeField
  <1>7. (\A k \in StartCells : Intact(index, k)) => PhysicalStart = d.start
    <2> SUFFICES ASSUME \A k \in StartCells : Intact(index, k) PROVE PhysicalStart = d.start
      OBVIOUS
    <2>1. Intact(index, 2) /\ Intact(index, 3)
      BY DEF StartCells, PhysicalStartField
    <2>2. /\ mem[DescriptorCell(index) + 2] = d.start % Half
          /\ mem[DescriptorCell(index) + 3] = d.start \div Half
      BY <1>4, <2>1 DEF Intact
    <2>3. (DescriptorCell(index) + 2) + 1 = DescriptorCell(index) + 3
      BY <1>5
    <2> QED BY <1>3, <2>2, <2>3 DEF PhysicalStart, Read64, PhysicalStartField
  <1>8. (\A k \in PagesCells : Intact(index, k)) => NumberOfPages = d.pages
    <2> SUFFICES ASSUME \A k \in PagesCells : Intact(index, k) PROVE NumberOfPages = d.pages
      OBVIOUS
    <2>1. Intact(index, 6) /\ Intact(index, 7)
      BY DEF PagesCells, NumberOfPagesField
    <2>2. /\ mem[DescriptorCell(index) + 6] = d.pages % Half
          /\ mem[DescriptorCell(index) + 7] = d.pages \div Half
      BY <1>4, <2>1 DEF Intact
    <2>3. (DescriptorCell(index) + 6) + 1 = DescriptorCell(index) + 7
      BY <1>5
    <2> QED BY <1>3, <2>2, <2>3 DEF NumberOfPages, Read64, NumberOfPagesField
  <1> QED BY <1>6, <1>7, <1>8

-----------------------------------------------------------------------------
(* Where the entry being built is: in the buffer, before the descriptor     *)
(* being converted unless that is the first one, and before all later ones. *)
LEMMA EntryCells ==
  ASSUME TypeOK, Counters, pc \in Reading
  PROVE  /\ map \in Maps /\ Len(map) \in Nat /\ index \in Nat /\ index < Len(map)
         /\ current \in Nat
         /\ EntryCell(current) \in Nat
         /\ \A k \in 0 .. 4 : EntryCell(current) + k \in Cells(map)
         /\ index = 0 => EntryCell(current) = 0
         /\ index # 0 => EntryCell(current) + 4 < DescriptorCell(index)
         /\ \A i \in Nat : i > index => EntryCell(current) + 4 < DescriptorCell(i)
  <1>1. /\ map \in Maps /\ Len(map) \in Nat /\ index \in Nat /\ index < Len(map)
        /\ current \in Nat /\ entries \in Nat
    BY E820TypesAssumption DEF TypeOK, Counters
  <1>2. current <= index
    BY <1>1 DEF Counters, Reading
  <1>3. EntryCell(current) = 5 * current
    BY DEF EntryCell, EntryStride
  <1>4. \A i \in Nat : DescriptorCell(i) \in Nat /\ DescriptorCell(i) >= 10 * i
    BY DescriptorCells
  <1>5. index # 0 => EntryCell(current) + 4 < DescriptorCell(index)
    <2>1. DescriptorCell(index) \in Nat /\ DescriptorCell(index) >= 10 * index
      BY <1>1, <1>4
    <2>2. index # 0 => 5 * current + 4 < 10 * index
      BY <1>1, <1>2
    <2> QED BY <1>1, <1>3, <2>1, <2>2
  <1>6. ASSUME NEW i \in Nat, i > index
        PROVE  EntryCell(current) + 4 < DescriptorCell(i)
    <2>1. DescriptorCell(i) \in Nat /\ DescriptorCell(i) >= 10 * i
      BY <1>4
    <2>2. 5 * current + 4 < 10 * i
      BY <1>1, <1>2, <1>6
    <2> QED BY <1>1, <1>3, <2>1, <2>2
  <1>7. \A k \in 0 .. 4 : EntryCell(current) + k \in Cells(map)
    <2>1. EntryCell(current) + 4 < DescriptorCell(Len(map))
      BY <1>1, <1>6
    <2>2. DescriptorCell(Len(map)) = Stride * Len(map) /\ DescriptorCell(Len(map)) \in Nat
      BY <1>1, <1>4 DEF DescriptorCell
    <2> QED BY <1>1, <1>3, <2>1, <2>2 DEF Cells
  <1> QED BY <1>1, <1>2, <1>3, <1>5, <1>6, <1>7

(* The buffer begins at cell 0. *)
LEMMA BelowACell ==
  ASSUME NEW m \in Maps, NEW x \in Nat, NEW c \in Nat, c + 0 \in Cells(m), x < c
  PROVE  x \in Cells(m)
  <1>1. Len(m) \in Nat /\ Stride \in Nat
    BY E820TypesAssumption, E820InPlaceAssumption
  <1>2. Stride * Len(m) \in Nat
    BY <1>1
  <1> QED BY <1>2 DEF Cells

(* What a write to cells lo to hi of the entry being built leaves as it     *)
(* was: the entries before it, every later descriptor, and of the current   *)
(* one everything, or everything but those cells if it is the first.        *)
LEMMA Untouched ==
  ASSUME IInv, pc \in Reading, map' = map, NEW lo \in 0 .. 4, NEW hi \in 0 .. 4,
         \A x \in Cells(map) :
            x \notin EntryCell(current) + lo .. EntryCell(current) + hi => mem'[x] = mem[x]
  PROVE  /\ \A i \in index .. Len(map) - 1 : \A k \in Fields :
              Intact(i, k) /\ (i # 0 \/ k \notin lo .. hi) => Intact(i, k)'
         /\ \A j \in Nat : j < current => EntryAt(j)' = EntryAt(j)
  <1>1. /\ map \in Maps /\ Len(map) \in Nat /\ index \in Nat /\ index < Len(map)
        /\ current \in Nat
        /\ EntryCell(current) \in Nat
        /\ \A k \in 0 .. 4 : EntryCell(current) + k \in Cells(map)
        /\ index = 0 => EntryCell(current) = 0
        /\ index # 0 => EntryCell(current) + 4 < DescriptorCell(index)
        /\ \A i \in Nat : i > index => EntryCell(current) + 4 < DescriptorCell(i)
    BY EntryCells DEF IInv
  <1>2. ASSUME NEW i \in index .. Len(map) - 1, NEW k \in Fields,
               Intact(i, k), i # 0 \/ k \notin lo .. hi
        PROVE  Intact(i, k)'
    <2>1. i \in Nat /\ i < Len(map) /\ k \in 0 .. 9
      BY <1>1 DEF Fields, TypeField, StartCells, PagesCells, PhysicalStartField,
                  NumberOfPagesField
    <2>2. DescriptorCell(i) + k \in Cells(map)
      BY <1>1, <2>1, DescriptorInBuffer
    <2>3. DescriptorCell(i) \in Nat /\ DescriptorCell(0) = 0
      BY <2>1, DescriptorCells
    <2>4. DescriptorCell(i) + k \notin EntryCell(current) + lo .. EntryCell(current) + hi
      <3>1. CASE i = 0
        <4>1. index = 0 /\ EntryCell(current) = 0
          BY <1>1, <3>1
        <4> QED BY <1>2, <2>1, <2>3, <3>1, <4>1
      <3>2. CASE i # 0
        <4>1. EntryCell(current) + 4 < DescriptorCell(i)
          <5>1. i = index \/ i > index
            BY <1>1
          <5> QED BY <1>1, <2>1, <3>2, <5>1
        <4>2. \A e, d, n \in Nat : e + 4 < d => d + n \notin e + lo .. e + hi
          OBVIOUS
        <4>3. k \in Nat /\ DescriptorCell(i) \in Nat /\ EntryCell(current) \in Nat
          BY <1>1, <2>1, <2>3
        <4> QED BY <4>1, <4>2, <4>3
      <3> QED BY <3>1, <3>2
    <2>5. mem'[DescriptorCell(i) + k] = mem[DescriptorCell(i) + k]
      <3> DEFINE x == DescriptorCell(i) + k
      <3>1. x \in Cells(map) /\ x \notin EntryCell(current) + lo .. EntryCell(current) + hi
        BY <2>2, <2>4
      <3> HIDE DEF x
      <3>2. mem'[x] = mem[x]
        BY <3>1
      <3> QED BY <3>2 DEF x
    <2> QED BY <1>2, <2>5 DEF Intact
  <1>3. ASSUME NEW j \in Nat, j < current
        PROVE  EntryAt(j)' = EntryAt(j)
    <2>1. EntryCell(j) = 5 * j /\ EntryCell(current) = 5 * current
      BY DEF EntryCell, EntryStride
    <2>2. \A k \in 0 .. 4 : EntryCell(j) + k \in Nat /\ EntryCell(j) + k < EntryCell(current)
      BY <1>1, <1>3, <2>1
    <2>3. ASSUME NEW k \in 0 .. 4
          PROVE  mem'[EntryCell(j) + k] = mem[EntryCell(j) + k]
      <3> DEFINE x == EntryCell(j) + k
      <3>1. x \in Nat /\ x < EntryCell(current)
        BY <2>2
      <3>2. x \in Cells(map)
        BY <1>1, <3>1, BelowACell
      <3>3. x \notin EntryCell(current) + lo .. EntryCell(current) + hi
        <4>1. \A e, n \in Nat : n < e => n \notin e + lo .. e + hi
          OBVIOUS
        <4>2. EntryCell(current) \in Nat
          BY <1>1
        <4> HIDE DEF x
        <4> QED BY <3>1, <4>1, <4>2
      <3> QED BY <3>2, <3>3
    <2>5. EntryCell(j) \in Nat
      BY <1>3, <2>1
    <2> DEFINE c == EntryCell(j)
    <2>6. /\ mem'[c + 0] = mem[c + 0] /\ mem'[c + 1] = mem[c + 1] /\ mem'[c + 2] = mem[c + 2]
          /\ mem'[c + 3] = mem[c + 3] /\ mem'[c + 4] = mem[c + 4]
      BY <2>3
    <2>7. (c + 0) + 1 = c + 1 /\ (c + 2) + 1 = c + 3
      BY <2>5
    <2> QED BY <2>6, <2>7 DEF EntryAt, Read64, Read32, AddressField, SizeField, EntryTypeField
  <1> QED BY <1>2, <1>3

-----------------------------------------------------------------------------
(* The statements that write, seen from the cells they write.               *)
LEMMA WriteOf64 ==
  ASSUME IInv, pc \in Reading, map' = map, NEW k \in { 0, 2 }, NEW v \in 0 .. Word - 1,
         mem' = Write64(mem, EntryCell(current) + k, v)
  PROVE  /\ mem' \in [Cells(map) -> 0 .. Half - 1]
         /\ Read64(mem', EntryCell(current) + k) = v
         /\ \A x \in Cells(map) :
               x \notin EntryCell(current) + k .. EntryCell(current) + (k + 1)
                 => mem'[x] = mem[x]
  <1> DEFINE c == EntryCell(current) + k
  <1>1. /\ EntryCell(current) \in Nat
        /\ \A i \in 0 .. 4 : EntryCell(current) + i \in Cells(map)
    BY EntryCells DEF IInv
  <1>2. c \in Cells(map) /\ c + 1 \in Cells(map) /\ c + 1 = EntryCell(current) + (k + 1)
    <2>1. c = EntryCell(current) + k /\ c + 1 = EntryCell(current) + (k + 1) /\ c \in Nat
      BY <1>1
    <2>2. k \in 0 .. 4 /\ k + 1 \in 0 .. 4
      OBVIOUS
    <2> QED BY <1>1, <2>1, <2>2
  <1>3. mem \in [Cells(map) -> 0 .. Half - 1]
    BY DEF IInv, TypeOK
  <1>4. Cells(map) \in SUBSET Nat
    BY DEF Cells
  <1>5. \A x \in Nat : x \notin c .. c + 1 => x # c /\ x # c + 1
    BY <1>1
  <1> HIDE DEF c
  <1>6. /\ Write64(mem, c, v) \in [Cells(map) -> 0 .. Half - 1]
        /\ Read64(Write64(mem, c, v), c) = v
        /\ \A x \in Cells(map) : x # c /\ x # c + 1 => Write64(mem, c, v)[x] = mem[x]
    BY <1>2, <1>3, <1>4, Written64
  <1> QED BY <1>2, <1>4, <1>5, <1>6 DEF c

LEMMA WriteOf32 ==
  ASSUME IInv, pc \in Reading, map' = map, NEW v \in 0 .. Half - 1,
         mem' = Write32(mem, EntryCell(current) + 4, v)
  PROVE  /\ mem' \in [Cells(map) -> 0 .. Half - 1]
         /\ Read32(mem', EntryCell(current) + 4) = v
         /\ \A x \in Cells(map) :
               x \notin EntryCell(current) + 4 .. EntryCell(current) + 4
                 => mem'[x] = mem[x]
  <1> DEFINE c == EntryCell(current) + 4
  <1>1. EntryCell(current) \in Nat /\ c \in Cells(map)
    BY EntryCells DEF IInv
  <1>2. mem \in [Cells(map) -> 0 .. Half - 1]
    BY DEF IInv, TypeOK
  <1>3. Cells(map) \in SUBSET Nat
    BY DEF Cells
  <1>4. \A x \in Nat : x \notin c .. c => x # c
    BY <1>1
  <1> HIDE DEF c
  <1>5. /\ Write32(mem, c, v) \in [Cells(map) -> 0 .. Half - 1]
        /\ Read32(Write32(mem, c, v), c) = v
        /\ \A x \in Cells(map) : x # c => Write32(mem, c, v)[x] = mem[x]
    BY <1>1, <1>2, <1>3, Written32
  <1> QED BY <1>3, <1>4, <1>5 DEF c

-----------------------------------------------------------------------------
(* The entries reported so far, as a sequence of the abstract specification.*)
LEMMA ReportedEntries ==
  ASSUME TypeOK
  PROVE  /\ Len(Reported) = entries /\ entries \in Nat
         /\ Reported # << >> <=> entries # 0
         /\ \A i \in 1 .. entries : Reported[i] = EntryAt(i - 1)
         /\ \E S : Reported \in Seq(S)
  <1>1. entries \in Nat /\ DOMAIN Reported = 1 .. entries
    BY DEF TypeOK, Reported
  <1>2. Len(Reported) = entries /\ \E S : Reported \in Seq(S)
    <2>1. \A S : Reported \in [1 .. entries -> S] => Reported \in Seq(S) /\ Len(Reported) = entries
      BY <1>1
    <2>2. Reported \in [1 .. entries -> { EntryAt(i - 1) : i \in 1 .. entries }]
      BY <1>1 DEF Reported
    <2> QED BY <2>1, <2>2
  <1>3. Reported # << >> <=> entries # 0
    <2>1. \A S : Reported \in [1 .. entries -> S] => (Reported # << >> <=> entries # 0)
      BY <1>1, <1>2
    <2>2. Reported \in [1 .. entries -> { EntryAt(i - 1) : i \in 1 .. entries }]
      BY <1>1 DEF Reported
    <2> QED BY <2>1, <2>2
  <1> QED BY <1>1, <1>2, <1>3 DEF Reported

(* The condition of the if is the abstract one. *)
LEMMA ContiguousExtends ==
  ASSUME IInv, pc = "compare"
  PROVE  /\ Contiguous <=> Abstract!Extends(map[index + 1], type)
         /\ index # 0 <=> entries # 0
         /\ entries # 0 => entries = current + 1
  <1> DEFINE d == map[index + 1]
  <1>1. /\ index # 0 <=> entries # 0
        /\ entries # 0 => entries = current + 1
        /\ current \in Nat /\ index < Len(map)
    BY DEF IInv, TypeOK, Counters, Reading
  <1>2. PhysicalStart = d.start
    BY <1>1, IntactReads DEF IInv, UnreadIntact
  <1>3. /\ Len(Reported) = entries /\ entries \in Nat
        /\ Reported # << >> <=> entries # 0
        /\ \A i \in 1 .. entries : Reported[i] = EntryAt(i - 1)
    BY ReportedEntries DEF IInv
  <1>4. entries # 0 => Reported[Len(Reported)] = EntryAt(current)
    BY <1>1, <1>3
  <1>5. /\ EntryAt(current).address = CurrentAddress
        /\ EntryAt(current).size = CurrentSize
        /\ EntryAt(current).type = CurrentType
    BY DEF EntryAt, CurrentAddress, CurrentSize, CurrentType
  <1>6. Contiguous <=> Abstract!Extends(d, type)
    BY <1>1, <1>2, <1>3, <1>4, <1>5 DEF Contiguous, Abstract!Extends, Abstract!Word, Word
  <1> QED BY <1>1, <1>6

(* The entries reported stay what they are while no one of them is written. *)
LEMMA ReportedKept ==
  ASSUME TypeOK, entries' = entries, \A j \in Nat : j < entries => EntryAt(j)' = EntryAt(j)
  PROVE  Reported' = Reported
  <1>1. entries \in Nat
    BY DEF TypeOK
  <1>2. \A i \in 1 .. entries : EntryAt(i - 1)' = EntryAt(i - 1)
    <2> TAKE i \in 1 .. entries
    <2>1. i - 1 \in Nat /\ i - 1 < entries
      BY <1>1
    <2> QED BY <2>1
  <1> QED BY <1>2 DEF Reported

(* The descriptors after the current one are as unread at the next          *)
(* iteration as they were at this one.                                      *)
LEMMA NextUnread ==
  ASSUME IInv, pc \in Reading, map' = map, index' = index + 1,
         NEW lo \in 0 .. 4, NEW hi \in 0 .. 4,
         \A x \in Cells(map) :
            x \notin EntryCell(current) + lo .. EntryCell(current) + hi => mem'[x] = mem[x]
  PROVE  UnreadIntact'
  <1>1. /\ index \in Nat /\ Len(map) \in Nat
        /\ \A i \in index + 1 .. Len(map) - 1 : \A k \in Fields : Intact(i, k)
    BY EntryCells DEF IInv, UnreadIntact, Fields
  <1>2. \A i \in index + 1 .. Len(map) - 1 : \A k \in Fields : Intact(i, k)'
    <2>1. \A i \in index .. Len(map) - 1 : \A k \in Fields :
            Intact(i, k) /\ (i # 0 \/ k \notin lo .. hi) => Intact(i, k)'
      BY Untouched
    <2> QED BY <1>1, <2>1
  <1>3. \A i \in index' .. Len(map') - 1 : \A k \in Fields : Intact(i, k)'
    BY <1>2
  <1>4. index' \in Nat /\ Len(map') \in Nat
    BY <1>1
  <1>5. index' < Len(map') => \A k \in Fields :
          mem'[DescriptorCell(index') + k] = DescriptorImage(map'[index' + 1], k)
    BY <1>3, <1>4 DEF Intact
  <1> QED BY <1>3, <1>4, <1>5 DEF UnreadIntact, Fields, Intact

(* A write within an iteration leaves the later descriptors, and what is    *)
(* read of the current one outside the cells lo to hi.                      *)
LEMMA SameUnread ==
  ASSUME IInv, pc \in Reading, map' = map, index' = index,
         NEW lo \in 0 .. 4, NEW hi \in 0 .. 4,
         \A x \in Cells(map) :
            x \notin EntryCell(current) + lo .. EntryCell(current) + hi => mem'[x] = mem[x],
         \/ pc = "address" /\ pc' = "size" /\ lo = 0 /\ hi = 1
         \/ pc = "size" /\ pc' = "type" /\ lo = 2 /\ hi = 3
  PROVE  UnreadIntact'
  <1>1. /\ index \in Nat /\ Len(map) \in Nat /\ index < Len(map)
        /\ \A i \in index + 1 .. Len(map) - 1 : \A k \in Fields : Intact(i, k)
        /\ \A k \in PagesCells : Intact(index, k)
    BY EntryCells DEF IInv, UnreadIntact, Fields
  <1>2. \A i \in index .. Len(map) - 1 : \A k \in Fields :
          Intact(i, k) /\ (i # 0 \/ k \notin lo .. hi) => Intact(i, k)'
    BY Untouched
  <1>3. \A i \in index + 1 .. Len(map) - 1 : \A k \in Fields : Intact(i, k)'
    BY <1>1, <1>2
  <1>4. PagesCells \subseteq Fields /\ \A k \in PagesCells : k \notin lo .. hi
    BY DEF Fields, PagesCells, NumberOfPagesField
  <1>5. \A k \in PagesCells :
          mem'[DescriptorCell(index) + k] = DescriptorImage(map'[index + 1], k)
    <2>1. index \in index .. Len(map) - 1
      BY <1>1
    <2> QED BY <1>1, <1>2, <1>4, <2>1 DEF Intact
  <1> QED BY <1>3, <1>5 DEF UnreadIntact, Fields, Intact

(* The words of the entry being built: what they are, and which writes they *)
(* survive.                                                                 *)
LEMMA EntryWords ==
  ASSUME IInv, pc \in Reading
  PROVE  /\ CurrentAddress \in Nat /\ CurrentSize \in Nat
         /\ current' = current /\ (\A x \in Cells(map) :
              x \notin EntryCell(current) + 2 .. EntryCell(current) + 3 => mem'[x] = mem[x])
              => CurrentAddress' = CurrentAddress /\ CurrentType' = CurrentType
         /\ current' = current /\ (\A x \in Cells(map) :
              x \notin EntryCell(current) + 4 .. EntryCell(current) + 4 => mem'[x] = mem[x])
              => CurrentAddress' = CurrentAddress /\ CurrentSize' = CurrentSize
  <1> DEFINE c == EntryCell(current)
  <1>1. c \in Nat /\ \A k \in 0 .. 4 : c + k \in Cells(map)
    BY EntryCells DEF IInv
  <1>2. (c + 0) + 1 = c + 1 /\ (c + 2) + 1 = c + 3
    BY <1>1
  <1>3. \A k \in 0 .. 4 : mem[c + k] \in Nat
    <2>1. \A x \in Cells(map) : mem[x] \in 0 .. Half - 1
      BY DEF IInv, TypeOK
    <2>2. 0 .. Half - 1 \subseteq Nat
      BY WordSize
    <2> QED BY <1>1, <2>1, <2>2
  <1>4. CurrentAddress = mem[c + 0] + Half * mem[c + 1]
    BY <1>2 DEF CurrentAddress, Read64, AddressField
  <1>5. CurrentSize = mem[c + 2] + Half * mem[c + 3]
    BY <1>2 DEF CurrentSize, Read64, SizeField
  <1>6. CurrentAddress \in Nat /\ CurrentSize \in Nat
    <2>1. \A h, a, b \in Nat : a + h * b \in Nat
      OBVIOUS
    <2>2. /\ mem[c + 0] \in Nat /\ mem[c + 1] \in Nat
          /\ mem[c + 2] \in Nat /\ mem[c + 3] \in Nat /\ Half \in Nat
      BY <1>3, WordSize
    <2> QED BY <1>4, <1>5, <2>1, <2>2
  <1>7. ASSUME current' = current, \A x \in Cells(map) : x \notin c + 2 .. c + 3 => mem'[x] = mem[x]
        PROVE  CurrentAddress' = CurrentAddress /\ CurrentType' = CurrentType
    <2> HIDE DEF c
    <2>1. \A k \in { 0, 1, 4 } : c + k \in Cells(map) /\ c + k \notin c + 2 .. c + 3
      BY <1>1
    <2>2. mem'[c + 0] = mem[c + 0] /\ mem'[c + 1] = mem[c + 1] /\ mem'[c + 4] = mem[c + 4]
      BY <1>7, <2>1
    <2> QED BY <1>2, <1>7, <2>2 DEF c, CurrentAddress, CurrentType, Read64, Read32,
                                    AddressField, EntryTypeField
  <1>8. ASSUME current' = current, \A x \in Cells(map) : x \notin c + 4 .. c + 4 => mem'[x] = mem[x]
        PROVE  CurrentAddress' = CurrentAddress /\ CurrentSize' = CurrentSize
    <2> HIDE DEF c
    <2>1. \A k \in { 0, 1, 2, 3 } : c + k \in Cells(map) /\ c + k \notin c + 4 .. c + 4
      BY <1>1
    <2>2. /\ mem'[c + 0] = mem[c + 0] /\ mem'[c + 1] = mem[c + 1]
          /\ mem'[c + 2] = mem[c + 2] /\ mem'[c + 3] = mem[c + 3]
      BY <1>8, <2>1
    <2> QED BY <1>2, <1>8, <2>2 DEF c, CurrentAddress, CurrentSize, Read64,
                                    AddressField, SizeField
  <1> QED BY <1>6, <1>7, <1>8

-----------------------------------------------------------------------------
(* The inductive invariant holds at first. *)
LEMMA InitIInv == Init => IInv
  <1> SUFFICES ASSUME Init PROVE IInv
    OBVIOUS
  <1>1. /\ map \in Maps /\ map \in Seq(Descriptor) /\ Len(map) \in Nat
        /\ mem = BufferImage(map) /\ index = 0 /\ current = 0 /\ entries = 0
        /\ pc = "head" /\ type = 2
    BY E820TypesAssumption DEF Init, E820_TYPE_RESERVED
  <1>2. \A i \in 0 .. Len(map) - 1 : \A k \in 0 .. 9 : Intact(i, k)
    <2> TAKE i \in 0 .. Len(map) - 1
    <2> TAKE k \in 0 .. 9
    <2>1. DescriptorCell(i) + k \in Cells(map)
      BY <1>1, DescriptorInBuffer
    <2>2. \A s \in Nat, j \in Nat, n \in 0 .. 9 : s >= 10
            => (s * j + n) \div s = j /\ (s * j + n) % s = n
      OBVIOUS
    <2>3. /\ (Stride * i + k) \div Stride = i
          /\ (Stride * i + k) % Stride = k
      <3>1. Stride \in Nat /\ Stride >= 10 /\ i \in Nat /\ k \in 0 .. 9
        BY <1>1, E820InPlaceAssumption
      <3> QED BY <2>2, <3>1
    <2> QED BY <1>1, <2>1, <2>3 DEF Intact, BufferImage, DescriptorCell
  <1>3. mem \in [Cells(map) -> 0 .. Half - 1]
    <2> SUFFICES ASSUME NEW c \in Cells(map)
                 PROVE  DescriptorImage(map[(c \div Stride) + 1], c % Stride) \in 0 .. Half - 1
      BY <1>1 DEF BufferImage
    <2>1. (c \div Stride) + 1 \in 1 .. Len(map)
      <3>1. \A s, n, x \in Nat : s >= 10 /\ x < s * n => x \div s \in 0 .. n - 1
        OBVIOUS
      <3>2. c \div Stride \in 0 .. Len(map) - 1
        <4>1. Stride * Len(map) \in Nat /\ Stride \in Nat /\ Stride >= 10
          BY <1>1, E820InPlaceAssumption
        <4>2. c \in Nat /\ c < Stride * Len(map)
          BY <4>1 DEF Cells
        <4> QED BY <1>1, <3>1, <4>1, <4>2
      <3> QED BY <1>1, <3>2
    <2> DEFINE d == map[(c \div Stride) + 1]
    <2>2. /\ d.type \in 0 .. Half - 1 /\ d.start \in 0 .. Word - 1 /\ d.pages \in 0 .. Word - 1
      BY <1>1, <2>1, DescriptorsFit
    <2> HIDE DEF d
    <2>3. /\ d.start % Half \in 0 .. Half - 1 /\ d.start \div Half \in 0 .. Half - 1
          /\ d.pages % Half \in 0 .. Half - 1 /\ d.pages \div Half \in 0 .. Half - 1
      BY <2>2, WordSize, Halves DEF Word
    <2>4. \A k : DescriptorImage(d, k) \in 0 .. Half - 1
      BY <2>2, <2>3, E820InPlaceAssumption DEF DescriptorImage
    <2> QED BY <2>4 DEF d
  <1>4. 2 \in 0 .. Half - 1
    BY E820TypesAssumption DEF E820_TYPE_RESERVED_KERN
  <1>5. TypeOK
    BY <1>1, <1>3, <1>4 DEF TypeOK
  <1>6. Counters /\ Iteration
    BY <1>1 DEF Counters, Iteration, Reading
  <1>7. UnreadIntact
    BY <1>1, <1>2 DEF UnreadIntact, TypeField, StartCells, PagesCells,
                      PhysicalStartField, NumberOfPagesField
  <1> QED BY <1>5, <1>6, <1>7 DEF IInv

-----------------------------------------------------------------------------
(* Each action preserves the invariant, and is a step of E820Map or leaves  *)
(* what it reports unchanged.                                               *)
LEMMA FinishStep ==
  ASSUME IInv, Finish
  PROVE  IInv' /\ Reported' = Reported
  <1>1. Reported' = Reported
    BY DEF Finish, Reported, EntryAt
  <1>2. TypeOK' /\ Counters' /\ Iteration' /\ UnreadIntact'
    BY DEF Finish, IInv, TypeOK, Counters, Iteration, UnreadIntact, Intact, Reading
  <1> QED BY <1>1, <1>2 DEF IInv

LEMMA LookUpTypeStep ==
  ASSUME IInv, LookUpType
  PROVE  IInv' /\ Reported' = Reported
  <1> DEFINE d == map[index + 1]
  <1>1. Reported' = Reported
    BY DEF LookUpType, Reported, EntryAt
  <1>2. DescriptorType = d.type /\ type' \in ConvertedTypes(d.type)
    <2>1. DescriptorType = d.type
      BY IntactReads DEF LookUpType, IInv, UnreadIntact
    <2> QED BY <2>1 DEF LookUpType
  <1>3. type' \in 0 .. Half - 1
    <2>1. map \in Maps /\ index + 1 \in 1 .. Len(map)
      BY E820TypesAssumption DEF IInv, TypeOK, LookUpType
    <2> QED BY <1>2, <2>1, DescriptorsFit, ConvertedTypesFit
  <1>4. TypeOK'
    BY <1>3 DEF LookUpType, IInv, TypeOK, Reading
  <1>5. Counters' /\ UnreadIntact'
    BY DEF LookUpType, IInv, Counters, UnreadIntact, Intact, Reading
  <1>6. Iteration'
    BY <1>2 DEF LookUpType, Iteration, Reading
  <1> QED BY <1>1, <1>4, <1>5, <1>6 DEF IInv

LEMMA AdvanceStep ==
  ASSUME IInv, Advance
  PROVE  IInv' /\ Reported' = Reported
  <1>1. Reported' = Reported
    BY DEF Advance, Reported, EntryAt
  <1>2. /\ ~Abstract!Extends(map[index + 1], type)
        /\ index # 0 <=> entries # 0
        /\ entries # 0 => entries = current + 1
    BY ContiguousExtends DEF Advance
  <1>3. /\ index \in Nat /\ entries \in Nat /\ current \in Nat /\ entries <= index
        /\ index < Len(map)
        /\ index = 0 => current = 0
    BY E820TypesAssumption DEF IInv, TypeOK, Counters, Reading, Advance
  <1>4. current' = entries
    BY <1>2, <1>3 DEF Advance
  <1>5. TypeOK'
    BY <1>3 DEF Advance, IInv, TypeOK, Reading
  <1>6. Counters'
    BY <1>3, <1>4 DEF Advance, IInv, Counters, Reading
  <1>7. UnreadIntact'
    BY DEF Advance, IInv, UnreadIntact, Intact
  <1>8. Iteration'
    <2>1. type \in ConvertedTypes(map[index + 1].type)
      BY DEF IInv, Iteration, Advance, Reading
    <2>2. Abstract!Extends(map[index + 1], type)' <=> Abstract!Extends(map[index + 1], type)
      BY <1>1 DEF Advance, Abstract!Extends
    <2> QED BY <1>2, <2>1, <2>2 DEF Advance, Iteration, Reading
  <1> QED BY <1>1, <1>5, <1>6, <1>7, <1>8 DEF IInv

LEMMA WriteAddressStep ==
  ASSUME IInv, WriteAddress
  PROVE  IInv' /\ Reported' = Reported
  <1> DEFINE d == map[index + 1]
  <1>1. /\ pc = "address" /\ pc \in Reading /\ pc' = "size" /\ map' = map /\ index' = index
        /\ current' = current /\ type' = type /\ entries' = entries
        /\ current = entries /\ index < Len(map)
    BY DEF WriteAddress, Reading, IInv, Counters
  <1>2. PhysicalStart = d.start /\ d.start \in 0 .. Word - 1
    <2>1. PhysicalStart = d.start
      BY <1>1, IntactReads DEF IInv, UnreadIntact
    <2>2. map \in Maps /\ index + 1 \in 1 .. Len(map)
      BY <1>1, E820TypesAssumption DEF IInv, TypeOK
    <2> QED BY <2>1, <2>2, DescriptorsFit
  <1>3. /\ mem' \in [Cells(map) -> 0 .. Half - 1]
        /\ Read64(mem', EntryCell(current) + 0) = d.start
        /\ \A x \in Cells(map) :
              x \notin EntryCell(current) + 0 .. EntryCell(current) + 1 => mem'[x] = mem[x]
    <2>1. mem' = Write64(mem, EntryCell(current) + 0, d.start)
      BY <1>2 DEF WriteAddress, AddressField
    <2> HIDE DEF d
    <2> QED BY <1>1, <1>2, <2>1, WriteOf64
  <1>4. Reported' = Reported
    <2>1. \A j \in Nat : j < entries => EntryAt(j)' = EntryAt(j)
      BY <1>1, <1>3, Untouched
    <2> QED BY <1>1, <2>1, ReportedKept DEF IInv
  <1>5. UnreadIntact'
    BY <1>1, <1>3, SameUnread
  <1>6. TypeOK'
    BY <1>1, <1>3 DEF IInv, TypeOK, Reading
  <1>7. Counters'
    BY <1>1 DEF IInv, Counters, Reading
  <1>8. Iteration'
    <2>1. Abstract!Extends(d, type)' <=> Abstract!Extends(d, type)
      BY <1>1, <1>4 DEF Abstract!Extends
    <2>2. CurrentAddress' = d.start
      BY <1>1, <1>3 DEF CurrentAddress, AddressField
    <2>3. type \in ConvertedTypes(d.type) /\ ~Abstract!Extends(d, type)
      BY <1>1 DEF IInv, Iteration
    <2> QED BY <1>1, <2>1, <2>2, <2>3 DEF Iteration, Reading
  <1> QED BY <1>4, <1>5, <1>6, <1>7, <1>8 DEF IInv

LEMMA WriteSizeStep ==
  ASSUME IInv, WriteSize
  PROVE  IInv' /\ Reported' = Reported
  <1> DEFINE d == map[index + 1]
             v == PagesToSize(d.pages)
  <1>1. /\ pc = "size" /\ pc \in Reading /\ pc' = "type" /\ map' = map /\ index' = index
        /\ current' = current /\ type' = type /\ entries' = entries
        /\ current = entries /\ index < Len(map)
    BY DEF WriteSize, Reading, IInv, Counters
  <1>2. NumberOfPages = d.pages /\ v \in 0 .. Word - 1
    <2>1. NumberOfPages = d.pages
      BY <1>1, IntactReads DEF IInv, UnreadIntact
    <2>2. map \in Maps /\ index + 1 \in 1 .. Len(map)
      BY <1>1, E820TypesAssumption DEF IInv, TypeOK
    <2> QED BY <2>1, <2>2, DescriptorsFit, PagesToSizeFits
  <1>3. /\ mem' \in [Cells(map) -> 0 .. Half - 1]
        /\ Read64(mem', EntryCell(current) + 2) = v
        /\ \A x \in Cells(map) :
              x \notin EntryCell(current) + 2 .. EntryCell(current) + 3 => mem'[x] = mem[x]
    <2>1. mem' = Write64(mem, EntryCell(current) + 2, v)
      BY <1>2 DEF WriteSize, SizeField
    <2> HIDE DEF v
    <2> QED BY <1>1, <1>2, <2>1, WriteOf64
  <1>4. Reported' = Reported
    <2>1. \A j \in Nat : j < entries => EntryAt(j)' = EntryAt(j)
      BY <1>1, <1>3, Untouched
    <2> QED BY <1>1, <2>1, ReportedKept DEF IInv
  <1>5. UnreadIntact'
    BY <1>1, <1>3, SameUnread
  <1>6. TypeOK'
    BY <1>1, <1>3 DEF IInv, TypeOK, Reading
  <1>7. Counters'
    BY <1>1 DEF IInv, Counters, Reading
  <1>8. Iteration'
    <2>1. Abstract!Extends(d, type)' <=> Abstract!Extends(d, type)
      BY <1>1, <1>4 DEF Abstract!Extends
    <2>2. CurrentAddress' = CurrentAddress
      BY <1>1, <1>3, EntryWords
    <2>3. CurrentSize' = v
      BY <1>1, <1>3 DEF CurrentSize, SizeField
    <2>4. /\ type \in ConvertedTypes(d.type) /\ ~Abstract!Extends(d, type)
          /\ CurrentAddress = d.start
      BY <1>1 DEF IInv, Iteration
    <2> QED BY <1>1, <2>1, <2>2, <2>3, <2>4 DEF Iteration, Reading
  <1> QED BY <1>4, <1>5, <1>6, <1>7, <1>8 DEF IInv

(* The last statement of the else branch adds the entry. *)
LEMMA WriteTypeStep ==
  ASSUME IInv, WriteType
  PROVE  /\ IInv'
         /\ Reported' = Append(Reported, [address |-> map[index + 1].start,
                                          size    |-> PagesToSize(map[index + 1].pages),
                                          type    |-> type])
  <1> DEFINE d == map[index + 1]
             e == [address |-> d.start, size |-> PagesToSize(d.pages), type |-> type]
  <1>1. /\ pc = "type" /\ pc \in Reading /\ pc' = "head" /\ map' = map /\ index' = index + 1
        /\ current' = current /\ type' = type /\ entries' = entries + 1
        /\ current = entries /\ index < Len(map) /\ entries <= index
        /\ index \in Nat /\ entries \in Nat /\ Len(map) \in Nat
        /\ type \in 0 .. Half - 1
    BY E820TypesAssumption DEF WriteType, Reading, IInv, Counters, TypeOK
  <1>2. /\ mem' \in [Cells(map) -> 0 .. Half - 1]
        /\ Read32(mem', EntryCell(current) + 4) = type
        /\ \A x \in Cells(map) :
              x \notin EntryCell(current) + 4 .. EntryCell(current) + 4 => mem'[x] = mem[x]
    <2>1. mem' = Write32(mem, EntryCell(current) + 4, type)
      BY DEF WriteType, EntryTypeField
    <2> QED BY <1>1, <2>1, WriteOf32
  <1>3. EntryAt(current)' = e
    <2>1. CurrentAddress = d.start /\ CurrentSize = PagesToSize(d.pages)
      BY <1>1 DEF IInv, Iteration
    <2>2. CurrentAddress' = CurrentAddress /\ CurrentSize' = CurrentSize
      BY <1>1, <1>2, EntryWords
    <2>3. CurrentType' = type
      BY <1>1, <1>2 DEF CurrentType, EntryTypeField
    <2> QED BY <1>1, <2>1, <2>2, <2>3 DEF EntryAt, CurrentAddress, CurrentSize, CurrentType
  <1>4. Reported' = Append(Reported, e)
    <2>1. \A j \in Nat : j < entries => EntryAt(j)' = EntryAt(j)
      BY <1>1, <1>2, Untouched
    <2>2. /\ Len(Reported) = entries
          /\ \A i \in 1 .. entries : Reported[i] = EntryAt(i - 1)
      BY ReportedEntries DEF IInv
    <2>3. Reported' = [i \in 1 .. entries + 1 |-> EntryAt(i - 1)']
      BY <1>1 DEF Reported
    <2>4. \A i \in 1 .. entries + 1 :
            EntryAt(i - 1)' = IF i <= entries THEN Reported[i] ELSE e
      <3> TAKE i \in 1 .. entries + 1
      <3>1. CASE i <= entries
        <4>1. i - 1 \in Nat /\ i - 1 < entries /\ i \in 1 .. entries
          BY <1>1, <3>1
        <4>2. EntryAt(i - 1)' = Reported[i]
          BY <2>1, <2>2, <4>1
        <4> QED BY <3>1, <4>2
      <3>2. CASE ~(i <= entries)
        <4>1. i - 1 = current /\ ~(i <= entries)
          BY <1>1, <3>2
        <4>2. EntryAt(i - 1)' = e
          BY <1>1, <1>3, <4>1
        <4> QED BY <4>1, <4>2
      <3> QED BY <3>1, <3>2
    <2> HIDE DEF e
    <2>5. Append(Reported, e) =
            [i \in 1 .. entries + 1 |-> IF i <= entries THEN Reported[i] ELSE e]
      <3>1. PICK S : Reported \in Seq(S)
        BY ReportedEntries DEF IInv
      <3>2. Reported \in Seq(S \cup { e })
        BY <3>1
      <3>3. /\ Append(Reported, e) \in Seq(S \cup { e })
            /\ Len(Append(Reported, e)) = entries + 1
            /\ \A i \in 1 .. entries : Append(Reported, e)[i] = Reported[i]
            /\ Append(Reported, e)[entries + 1] = e
        BY <1>1, <2>2, <3>2
      <3>4. \A T : \A s \in Seq(T) : s \in [1 .. Len(s) -> T]
        OBVIOUS
      <3>5. Append(Reported, e) \in [1 .. entries + 1 -> S \cup { e }]
        BY <3>3, <3>4
      <3>6. ASSUME NEW i \in 1 .. entries + 1
            PROVE  Append(Reported, e)[i] = IF i <= entries THEN Reported[i] ELSE e
        <4>1. i \in 1 .. entries \/ (i = entries + 1 /\ ~(i <= entries))
          BY <1>1
        <4> QED BY <3>3, <4>1
      <3> QED BY <3>5, <3>6
    <2> QED BY <2>3, <2>4, <2>5
  <1>5. UnreadIntact'
    BY <1>1, <1>2, NextUnread
  <1>6. TypeOK'
    BY <1>1, <1>2 DEF IInv, TypeOK, Reading
  <1>7. Counters' /\ Iteration'
    BY <1>1 DEF Counters, Iteration, Reading
  <1> QED BY <1>4, <1>5, <1>6, <1>7 DEF IInv

(* The then branch lets the last entry grow. *)
LEMMA MergeStep ==
  ASSUME IInv, Merge
  PROVE  /\ IInv'
         /\ Abstract!Extends(map[index + 1], type)
         /\ Reported' = [Reported EXCEPT ![Len(Reported)].size =
                           (@ + PagesToSize(map[index + 1].pages)) % Word]
  <1> DEFINE d == map[index + 1]
             v == (CurrentSize + PagesToSize(d.pages)) % Word
  <1>1. /\ pc = "compare" /\ pc \in Reading /\ pc' = "head" /\ map' = map
        /\ index' = index + 1 /\ current' = current /\ type' = type /\ entries' = entries
        /\ index < Len(map) /\ entries <= index
        /\ index \in Nat /\ entries \in Nat /\ current \in Nat /\ Len(map) \in Nat
        /\ type \in 0 .. Half - 1
    BY E820TypesAssumption DEF Merge, Reading, IInv, Counters, TypeOK
  <1>2. /\ Abstract!Extends(d, type)
        /\ index # 0 /\ entries = current + 1
    BY ContiguousExtends DEF Merge, Contiguous
  <1>3. NumberOfPages = d.pages /\ v \in 0 .. Word - 1
    <2>1. NumberOfPages = d.pages
      BY <1>1, IntactReads DEF IInv, UnreadIntact
    <2>2. map \in Maps /\ index + 1 \in 1 .. Len(map)
      BY <1>1, E820TypesAssumption DEF IInv, TypeOK
    <2>3. CurrentSize \in Nat /\ PagesToSize(d.pages) \in Nat
      BY <1>1, <2>2, DescriptorsFit, EntryWords
    <2>4. CurrentSize + PagesToSize(d.pages) \in Nat
      BY <2>3
    <2> QED BY <2>1, <2>4, WordSize, ModRange
  <1>4. /\ mem' \in [Cells(map) -> 0 .. Half - 1]
        /\ Read64(mem', EntryCell(current) + 2) = v
        /\ \A x \in Cells(map) :
              x \notin EntryCell(current) + 2 .. EntryCell(current) + 3 => mem'[x] = mem[x]
    <2>1. mem' = Write64(mem, EntryCell(current) + 2, v)
      BY <1>3 DEF Merge, SizeField
    <2> HIDE DEF v
    <2> QED BY <1>1, <1>3, <2>1, WriteOf64
  <1>5. EntryAt(current)' = [EntryAt(current) EXCEPT !.size = v]
    <2>1. CurrentAddress' = CurrentAddress /\ CurrentType' = CurrentType
      BY <1>1, <1>4, EntryWords
    <2>2. CurrentSize' = v
      BY <1>1, <1>4 DEF CurrentSize, SizeField
    <2> HIDE DEF v
    <2> QED BY <1>1, <2>1, <2>2 DEF EntryAt, CurrentAddress, CurrentSize, CurrentType
  <1>6. Reported' = [Reported EXCEPT ![Len(Reported)].size =
                      (@ + PagesToSize(d.pages)) % Word]
    <2>1. \A j \in Nat : j < current => EntryAt(j)' = EntryAt(j)
      BY <1>1, <1>4, Untouched
    <2>2. Len(Reported) = entries /\ Reported[entries] = EntryAt(current)
      BY <1>1, <1>2, ReportedEntries DEF IInv
    <2>3. EntryAt(current).size = CurrentSize
      BY DEF EntryAt, CurrentSize
    <2>4. [Reported EXCEPT ![entries].size = (@ + PagesToSize(d.pages)) % Word]
            = [Reported EXCEPT ![entries] = EntryAt(current)']
      <3> DEFINE p == PagesToSize(d.pages)
      <3>1. EntryAt(current)' = [EntryAt(current) EXCEPT !.size = (CurrentSize + p) % Word]
        BY <1>5
      <3> HIDE DEF p
      <3>2. EntryAt(current)' = [Reported[entries] EXCEPT !.size = (@ + p) % Word]
        BY <2>2, <2>3, <3>1
      <3>3. [Reported EXCEPT ![entries].size = (@ + p) % Word]
              = [Reported EXCEPT ![entries] = EntryAt(current)']
        BY <3>2
      <3> QED BY <3>3 DEF p
    <2>5. Reported' = [Reported EXCEPT ![entries] = EntryAt(current)']
      <3>1. Reported' = [i \in 1 .. entries |-> EntryAt(i - 1)']
        BY <1>1 DEF Reported
      <3>2. \A i \in 1 .. entries :
              EntryAt(i - 1)' = IF i = entries THEN EntryAt(current)' ELSE EntryAt(i - 1)
        <4> TAKE i \in 1 .. entries
        <4>1. CASE i = entries
          <5>1. i - 1 = current
            BY <1>1, <1>2, <4>1
          <5>2. EntryAt(i - 1)' = EntryAt(current)'
            BY <1>1, <5>1 DEF EntryAt
          <5> QED BY <4>1, <5>2
        <4>2. CASE i # entries
          <5>1. i - 1 \in Nat /\ i - 1 < current
            BY <1>1, <1>2, <4>2
          <5> QED BY <2>1, <4>2, <5>1
        <4> QED BY <4>1, <4>2
      <3> QED BY <3>1, <3>2 DEF Reported
    <2> QED BY <2>2, <2>4, <2>5
  <1>7. UnreadIntact'
    BY <1>1, <1>4, NextUnread
  <1>8. TypeOK'
    BY <1>1, <1>4 DEF IInv, TypeOK, Reading
  <1>9. Counters' /\ Iteration'
    BY <1>1, <1>2 DEF Counters, Iteration, Reading
  <1> QED BY <1>2, <1>6, <1>7, <1>8, <1>9 DEF IInv

-----------------------------------------------------------------------------
(* The loop begins as E820Map does.  Every step preserves the invariant and *)
(* is a step of E820Map, or changes nothing E820Map speaks of.              *)
LEMMA AbstractInit == Init => Abstract!Init
  <1> SUFFICES ASSUME Init PROVE Abstract!Init
    OBVIOUS
  <1>1. Reported = << >>
    BY InitIInv, ReportedEntries DEF Init, IInv
  <1> QED BY <1>1 DEF Init, Abstract!Init

LEMMA NextStep ==
  ASSUME IInv, [Next]_vars
  PROVE  IInv' /\ [Abstract!Next]_(Abstract!vars)
  <1> DEFINE d == map[index + 1]
  <1>1. CASE Finish
    BY <1>1, FinishStep DEF Finish, Abstract!vars
  <1>2. CASE LookUpType
    BY <1>2, LookUpTypeStep DEF LookUpType, Abstract!vars
  <1>3. CASE Advance
    BY <1>3, AdvanceStep DEF Advance, Abstract!vars
  <1>4. CASE WriteAddress
    BY <1>4, WriteAddressStep DEF WriteAddress, Abstract!vars
  <1>5. CASE WriteSize
    BY <1>5, WriteSizeStep DEF WriteSize, Abstract!vars
  <1>6. ASSUME NEW t PROVE Abstract!ConvertedTypes(t) = ConvertedTypes(t)
    BY SameTypes
  <1>7. CASE Merge
    <2>1. IInv' /\ Abstract!Extends(d, type) /\ Abstract!Grow(d)
      BY <1>7, MergeStep DEF Abstract!Grow, Abstract!PagesToSize, PagesToSize,
                             Abstract!Word, Word
    <2>2. type \in Abstract!ConvertedTypes(d.type) /\ index < Len(map)
      BY <1>6, <1>7 DEF IInv, Iteration, Counters, Reading, Merge
    <2>3. Abstract!Convert
      BY <1>7, <2>1, <2>2 DEF Abstract!Convert, Merge
    <2> QED BY <2>1, <2>3 DEF Abstract!Next
  <1>8. CASE WriteType
    <2>1. IInv' /\ Abstract!Add(d, type)
      BY <1>8, WriteTypeStep DEF Abstract!Add, Abstract!PagesToSize, PagesToSize,
                                 Abstract!Word, Word
    <2>2. /\ type \in Abstract!ConvertedTypes(d.type) /\ index < Len(map)
          /\ ~Abstract!Extends(d, type)
      BY <1>6, <1>8 DEF IInv, Iteration, Counters, Reading, WriteType
    <2>3. Abstract!Convert
      BY <1>8, <2>1, <2>2 DEF Abstract!Convert, WriteType
    <2> QED BY <2>1, <2>3 DEF Abstract!Next
  <1>9. CASE UNCHANGED vars
    <2>1. Reported' = Reported /\ UNCHANGED <<map, index>>
      BY <1>9 DEF vars, Reported, EntryAt
    <2>2. IInv'
      BY <1>9, <2>1 DEF vars, IInv, TypeOK, Counters, UnreadIntact, Intact, Iteration,
                        CurrentAddress, CurrentSize, Abstract!Extends
    <2> QED BY <2>1, <2>2 DEF Abstract!vars
  <1> QED BY <1>1, <1>2, <1>3, <1>4, <1>5, <1>7, <1>8, <1>9 DEF Next, Terminated

(* The state of the loop is well typed: the buffer is never written outside *)
(* the descriptors, and every cell of it stays a 32-bit value.              *)
THEOREM TypeCorrect == Spec => []TypeOK
  <1>1. IInv => TypeOK
    BY DEF IInv
  <1> QED BY <1>1, InitIInv, NextStep, PTL DEF Spec

(* However many descriptors there are and however far apart the firmware    *)
(* puts them, none is overwritten before the loop has read it.              *)
THEOREM NothingUnreadIsLost == Spec => []UnreadIntact
  <1>1. IInv => UnreadIntact
    BY DEF IInv
  <1> QED BY <1>1, InitIInv, NextStep, PTL DEF Spec

(* The loop implements E820Map: building the kernel's map on top of the     *)
(* firmware's reports what building it beside it would.                     *)
THEOREM LoopImplementsE820Map == Spec => ImplementsE820Map
  <1> QED BY AbstractInit, InitIInv, NextStep, PTL DEF Spec, ImplementsE820Map, Abstract!Spec

-----------------------------------------------------------------------------
(* Abstract and Proved are one specification.                               *)
LEMMA SameSpecification ==
  /\ Abstract!Init => Proved!Init
  /\ [Abstract!Next]_(Abstract!vars) => [Proved!Next]_(Proved!vars)
  <1>1. /\ Abstract!Word = Word
        /\ \A p : Abstract!PagesToSize(p) = PagesToSize(p)
    BY DEF Abstract!Word, Word, Abstract!PagesToSize, PagesToSize
  <1>2. \A d, v : /\ Proved!Extends(d, v) = Abstract!Extends(d, v)
                 /\ Proved!Grow(d) = Abstract!Grow(d)
                 /\ Proved!Add(d, v) = Abstract!Add(d, v)
    BY <1>1, SameWords
    DEF Proved!Extends, Abstract!Extends, Proved!Grow, Abstract!Grow, Proved!Add, Abstract!Add
  <1>3. Proved!Convert = Abstract!Convert
    BY <1>2, SameTypes DEF Proved!Convert, Abstract!Convert
  <1>4. Abstract!Next => Proved!Next
    BY <1>3 DEF Proved!Next, Abstract!Next
  <1>5. UNCHANGED Abstract!vars => UNCHANGED Proved!vars
    BY DEF Proved!vars, Abstract!vars
  <1>6. Abstract!Init => Proved!Init
    BY DEF Proved!Init, Abstract!Init
  <1> QED
    BY <1>4, <1>5, <1>6

(* The promises of E820Map, of the map in the buffer. *)
InOrder == NothingLost /\ NothingInvented /\ EntriesDisjoint /\ NoMergeLeft

LEMMA SameProperties ==
  InOrder = /\ Proved!NothingLost /\ Proved!NothingInvented
            /\ Proved!EntriesDisjoint /\ Proved!NoMergeLeft
  <1>1. \A p : Abstract!PagesToSize(p) = PagesToSize(p)
    BY DEF Abstract!Word, Word, Abstract!PagesToSize, PagesToSize
  <1>2. \A x : /\ Proved!DescriptorRegion(x) = Abstract!DescriptorRegion(x)
              /\ Proved!EntryRegion(x) = Abstract!EntryRegion(x)
    BY <1>1, SameWords DEF Proved!DescriptorRegion, Abstract!DescriptorRegion,
       Proved!EntryRegion, Abstract!EntryRegion, Proved!Region, Abstract!Region
  <1>3. Proved!NothingLost = NothingLost
    BY <1>2, SameTypes DEF Proved!NothingLost, NothingLost, Abstract!NothingLost
  <1>4. Proved!NothingInvented = NothingInvented
    <2>1. /\ Proved!RamTypes = Abstract!RamTypes
          /\ Proved!EfiPersistentMemory = Abstract!EfiPersistentMemory
          /\ Proved!E820_TYPE_RAM = Abstract!E820_TYPE_RAM
      BY DEF Proved!RamTypes, Abstract!RamTypes, Proved!EfiLoaderCode,
         Abstract!EfiLoaderCode, Proved!EfiConventionalMemory,
         Abstract!EfiConventionalMemory, Proved!EfiPersistentMemory,
         Abstract!EfiPersistentMemory, Proved!E820_TYPE_RAM, Abstract!E820_TYPE_RAM
    <2>2. \A t : Proved!ConvertedTypes(t) = Abstract!ConvertedTypes(t)
      BY SameTypes
    <2> QED
      BY <1>2, <2>1, <2>2, Zenon
      DEF Proved!NothingInvented, NothingInvented, Abstract!NothingInvented
  <1>5. Proved!EntriesDisjoint = EntriesDisjoint
    BY <1>2 DEF Proved!EntriesDisjoint, EntriesDisjoint, Abstract!EntriesDisjoint
  <1>6. Proved!NoMergeLeft = NoMergeLeft
    BY DEF Proved!NoMergeLeft, NoMergeLeft, Abstract!NoMergeLeft, Proved!Word, Abstract!Word
  <1> QED
    BY <1>3, <1>4, <1>5, <1>6 DEF InOrder

(* The map that is in the buffer, however far the loop is: nothing of the   *)
(* converted descriptors is lost, nothing is invented, no two entries       *)
(* overlap and no neighbours are left apart.                                *)
LEMMA BufferIsInOrder == Spec => []InOrder
  <1> DEFINE Ordered == /\ Proved!NothingLost /\ Proved!NothingInvented
                        /\ Proved!EntriesDisjoint /\ Proved!NoMergeLeft
  <1>1. Init => Proved!IInv /\ Ordered
    <2> SUFFICES ASSUME Init PROVE Proved!IInv /\ Ordered
      OBVIOUS
    <2>1. Proved!Init
      BY AbstractInit, SameSpecification
    <2>2. Proved!IInv
      BY <2>1, SameAssumption, Proved!InitIInv
    <2>3. Ordered
      BY <2>1 DEF Proved!Init, Proved!NothingLost, Proved!NothingInvented,
         Proved!EntriesDisjoint, Proved!NoMergeLeft
    <2> QED
      BY <2>2, <2>3
  <1>2. IInv /\ Proved!IInv /\ Ordered /\ [Next]_vars => IInv' /\ Proved!IInv' /\ Ordered'
    <2> SUFFICES ASSUME IInv, Proved!IInv, Ordered, [Next]_vars
                 PROVE  IInv' /\ Proved!IInv' /\ Ordered'
      OBVIOUS
    <2>1. IInv' /\ [Proved!Next]_(Proved!vars)
      BY NextStep, SameSpecification
    <2>2. Proved!IInv'
      BY <2>1, SameAssumption, Proved!NextIInv
    <2>3. Proved!NothingLost'
      BY <2>1, SameAssumption, Proved!NextNothingLost
    <2>4. Proved!NothingInvented'
      BY <2>1, SameAssumption, Proved!NextNothingInvented
    <2>5. Proved!EntriesDisjoint'
      BY <2>1, SameAssumption, Proved!NextEntriesDisjoint
    <2>6. Proved!NoMergeLeft'
      BY <2>1, SameAssumption, Proved!NextNoMergeLeft
    <2> QED
      BY <2>1, <2>2, <2>3, <2>4, <2>5, <2>6
  <1>3. Ordered => InOrder
    BY SameProperties
  <1> QED
    BY <1>1, <1>2, <1>3, InitIInv, PTL DEF Spec

(* Every address of a descriptor the loop has converted is in an entry of   *)
(* the buffer, under a type the descriptor converts to, for every map,      *)
(* stride and page size: no entry is damaged by those written after it.     *)
THEOREM NothingIsLost == Spec => []NothingLost
  <1>1. InOrder => NothingLost
    BY DEF InOrder
  <1> QED
    BY <1>1, BufferIsInOrder, PTL

(* No entry of the buffer has an address the firmware did not report as     *)
(* something that converts to its type, and none calls RAM what the table   *)
(* does not, but for persistent memory, read from behind the table.         *)
THEOREM NothingIsInvented == Spec => []NothingInvented
  <1>1. InOrder => NothingInvented
    BY DEF InOrder
  <1> QED
    BY <1>1, BufferIsInOrder, PTL

(* No two entries of the buffer overlap, in whatever order the firmware     *)
(* lists its memory.                                                        *)
THEOREM EntriesAreDisjoint == Spec => []EntriesDisjoint
  <1>1. InOrder => EntriesDisjoint
    BY DEF InOrder
  <1> QED
    BY <1>1, BufferIsInOrder, PTL

(* No two consecutive entries of the buffer could be one.                   *)
THEOREM NothingLeftToMerge == Spec => []NoMergeLeft
  <1>1. InOrder => NoMergeLeft
    BY DEF InOrder
  <1> QED
    BY <1>1, BufferIsInOrder, PTL

-----------------------------------------------------------------------------
(* What is left to do: five statements for each descriptor, and the end.    *)
StepsAfter ==
  [head |-> 5, compare |-> 4, address |-> 3, size |-> 2, type |-> 1, done |-> 0]

StepsLeft == 5 * (Len(map) - index) + StepsAfter[pc]

(* The loop ends although it writes to the memory it reads (Origami.c:189-  *)
(* 217): each statement leaves less of it.                                  *)
THEOREM LoopRunsDown ==
  Spec => /\ [](StepsLeft \in 0 .. 5 * Len(map) + 5)
          /\ [][StepsLeft' < StepsLeft]_vars
  <1>1. ASSUME IInv
        PROVE  /\ Len(map) \in Nat /\ index \in 0 .. Len(map)
               /\ pc \in Reading => index < Len(map)
    BY <1>1, E820TypesAssumption DEF IInv, TypeOK, Counters
  <1>2. IInv => StepsLeft \in 0 .. 5 * Len(map) + 5
    BY <1>1 DEF StepsLeft, StepsAfter, IInv, TypeOK, Reading
  <1>3. IInv /\ [Next]_vars => [StepsLeft' < StepsLeft]_vars
    <2> SUFFICES ASSUME IInv, Next, ~UNCHANGED vars PROVE StepsLeft' < StepsLeft
      OBVIOUS
    <2>1. /\ Len(map) \in Nat /\ index \in 0 .. Len(map)
          /\ pc \in Reading => index < Len(map)
      BY <1>1
    <2>2. CASE Finish \/ LookUpType \/ Advance
      BY <2>1, <2>2 DEF Finish, LookUpType, Advance, StepsLeft, StepsAfter
    <2>3. CASE WriteAddress \/ WriteSize
      BY <2>1, <2>3 DEF WriteAddress, WriteSize, StepsLeft, StepsAfter
    <2>4. CASE Merge \/ WriteType
      BY <2>1, <2>4 DEF Merge, WriteType, StepsLeft, StepsAfter
    <2> QED
      BY <2>2, <2>3, <2>4 DEF Next, Terminated
  <1>4. Spec => []IInv
    BY InitIInv, NextStep, PTL DEF Spec
  <1> QED
    BY <1>2, <1>3, <1>4, PTL DEF Spec
=============================================================================
