---------------------------- MODULE E820Map_proofs ----------------------------
(***************************************************************************)
(* Proofs about E820Map, for every set of maps, every page size and every  *)
(* width of a word.                                                        *)
(*                                                                         *)
(* What the invariants need besides themselves is where the last entry     *)
(* ends: exactly where the last converted descriptor does.  An entry that  *)
(* grows then takes in the addresses of that one descriptor and no other,  *)
(* and 64-bit arithmetic never wraps.                                      *)
(***************************************************************************)
EXTENDS E820Map, TLAPS

(* A number below a modulus is its own remainder.                           *)
LEMMA ModIdentity ==
  ASSUME NEW w \in Nat, NEW a \in Nat, a < w
  PROVE  a % w = a
  BY SMT

(* There are words, and they hold 32-bit values. *)
LEMMA WordSize == Half \in Nat \ {0} /\ Word \in Nat \ {0} /\ Half <= Word
  <1>1. Half \in Nat /\ Half > 128
    BY E820TypesAssumption DEF E820_TYPE_RESERVED_KERN
  <1>2. ASSUME NEW h \in Nat, h > 128 PROVE h * h \in Nat /\ h * h >= h
    BY SMT
  <1> QED BY <1>1, <1>2 DEF Word

(* Whatever a descriptor's type, what it converts to fits 32 bits. *)
LEMMA ConvertedTypesFit ==
  ASSUME NEW t \in Nat
  PROVE  ConvertedTypes(t) \subseteq 0 .. Half - 1 /\ ConvertedTypes(t) # {}
  <1>1. Half \in Nat /\ Half > 128
    BY E820TypesAssumption DEF E820_TYPE_RESERVED_KERN
  <1>2. \A u \in 0 .. 13 : EfiTypeToE820Type[u] \in 1 .. 128
    BY DEF EfiTypeToE820Type, EfiReservedMemoryType, EfiLoaderCode, EfiLoaderData,
           EfiBootServicesCode, EfiBootServicesData, EfiRuntimeServicesCode,
           EfiRuntimeServicesData, EfiConventionalMemory, EfiUnusableMemory,
           EfiACPIReclaimMemory, EfiACPIMemoryNVS, EfiMemoryMappedIO,
           EfiMemoryMappedIOPortSpace, EfiPalCode, E820_TYPE_RAM,
           E820_TYPE_RESERVED, E820_TYPE_ACPI, E820_TYPE_NVS,
           E820_TYPE_UNUSABLE, E820_TYPE_RESERVED_KERN
  <1>3. DOMAIN EfiTypeToE820Type = 0 .. 13
    BY DEF EfiTypeToE820Type, EfiReservedMemoryType, EfiPalCode
  <1>4. StrayTypes \subseteq 0 .. Half - 1 /\ StrayTypes # {}
    BY E820TypesAssumption
  <1>5. CASE t < EfiMaxMemoryType /\ t \in DOMAIN EfiTypeToE820Type
    <2>1. ConvertedTypes(t) = { EfiTypeToE820Type[t] }
      BY <1>5 DEF ConvertedTypes
    <2> HIDE DEF EfiTypeToE820Type
    <2> QED BY <1>1, <1>2, <1>3, <1>5, <2>1
  <1>6. CASE t < EfiMaxMemoryType /\ t \notin DOMAIN EfiTypeToE820Type
    BY <1>4, <1>6 DEF ConvertedTypes
  <1>7. CASE ~(t < EfiMaxMemoryType)
    BY <1>1, <1>7 DEF ConvertedTypes, E820_TYPE_RESERVED
  <1> QED BY <1>5, <1>6, <1>7

(* The firmware's descriptors: their fields fit, their sizes do not wrap,   *)
(* and neither do their ends.                                               *)
LEMMA DescriptorsFit ==
  ASSUME NEW m \in Maps, NEW i \in 1 .. Len(m)
  PROVE  /\ m \in Seq(Descriptor)
         /\ m[i] \in Descriptor
         /\ m[i].type \in 0 .. Half - 1 /\ m[i].type \in Nat
         /\ m[i].start \in 0 .. Word - 1 /\ m[i].start \in Nat
         /\ m[i].pages \in 0 .. Word - 1 /\ m[i].pages \in Nat
         /\ PagesToSize(m[i].pages) \in Nat
         /\ m[i].start + PagesToSize(m[i].pages) < Word
  <1>1. m \in Seq(Descriptor) /\ WellFormed(m)
    BY E820TypesAssumption
  <1>2. m[i] \in Descriptor
    BY <1>1
  <1>3. /\ m[i].type \in 0 .. Half - 1
        /\ m[i].start \in 0 .. Word - 1
        /\ m[i].pages \in 0 .. Word - 1
    BY <1>2 DEF Descriptor
  <1>4. /\ m[i].type \in Nat /\ m[i].start \in Nat /\ m[i].pages \in Nat
    BY <1>3, WordSize
  <1>5. PageSize \in Nat
    BY E820TypesAssumption
  <1>6. ASSUME NEW p \in Nat, NEW q \in Nat PROVE p * q \in Nat
    BY SMT
  <1>7. m[i].pages * PageSize \in Nat
    BY <1>4, <1>5, <1>6
  <1>8. m[i].start + m[i].pages * PageSize < Word
    BY <1>1 DEF WellFormed
  <1>9. PagesToSize(m[i].pages) = m[i].pages * PageSize
    <2>1. ASSUME NEW s \in Nat, NEW p \in Nat, NEW w \in Nat, s + p < w
          PROVE  p < w
      BY <2>1
    <2>2. m[i].pages * PageSize < Word
      BY <1>4, <1>7, <1>8, <2>1, WordSize
    <2> QED BY <1>7, <2>2, WordSize, ModIdentity DEF PagesToSize
  <1> QED BY <1>1, <1>2, <1>3, <1>4, <1>7, <1>8, <1>9

(* No two of the firmware's descriptors share an address. *)
LEMMA DescriptorsDisjoint ==
  ASSUME NEW m \in Maps, NEW i \in 1 .. Len(m), NEW j \in 1 .. Len(m), i # j
  PROVE  DescriptorRegion(m[i]) \cap DescriptorRegion(m[j]) = {}
  BY E820TypesAssumption DEF WellFormed

-----------------------------------------------------------------------------

Last == out[Len(out)]

(* The last entry ends where the last converted descriptor ends.            *)
EndsTogether ==
  /\ done = 0 <=> out = << >>
  /\ done > 0 =>
       Last.address + Last.size = map[done].start + PagesToSize(map[done].pages)

IInv == TypeOK /\ EndsTogether

-----------------------------------------------------------------------------
(* A step converts one descriptor to one of its types, and adds an entry or *)
(* lets the last one grow to the descriptor's end.                          *)
LEMMA StepCases ==
  ASSUME IInv, Convert
  PROVE  LET d == map[done + 1] IN
         /\ done + 1 \in 1 .. Len(map) /\ done' = done + 1 /\ map' = map
         /\ map \in Maps
         /\ d.start \in Nat /\ d.type \in Nat /\ PagesToSize(d.pages) \in Nat
         /\ d.start + PagesToSize(d.pages) < Word
         /\ \E v \in ConvertedTypes(d.type) :
              /\ v \in 0 .. Half - 1
              /\ \/ /\ Len(out) \in Nat \ {0}
                    /\ Last.type = v
                    /\ Last.address + Last.size = d.start
                    /\ out' = [out EXCEPT ![Len(out)] =
                         [@ EXCEPT !.size = Last.size + PagesToSize(d.pages)]]
                 \/ /\ ~Extends(d, v)
                    /\ Add(d, v)
  <1> DEFINE d == map[done + 1]
  <1>1. /\ map \in Maps /\ done \in 0 .. Len(map) /\ out \in Seq(Entry)
        /\ Len(map) \in Nat
    <2>1. map \in Maps /\ done \in 0 .. Len(map) /\ out \in Seq(Entry)
      BY DEF IInv, TypeOK
    <2>2. map \in Seq(Descriptor)
      BY <2>1, E820TypesAssumption
    <2> QED BY <2>1, <2>2
  <1>2. done + 1 \in 1 .. Len(map) /\ done' = done + 1 /\ map' = map
    BY <1>1 DEF Convert
  <1>3. /\ d.start \in Nat /\ d.type \in Nat /\ PagesToSize(d.pages) \in Nat
        /\ d.start + PagesToSize(d.pages) < Word
    BY <1>1, <1>2, DescriptorsFit
  <1>4. PICK v \in ConvertedTypes(d.type) :
          \/ Extends(d, v) /\ Grow(d)
          \/ ~Extends(d, v) /\ Add(d, v)
    BY DEF Convert
  <1>5. v \in 0 .. Half - 1
    BY <1>3, ConvertedTypesFit
  <1>6. ASSUME Extends(d, v), Grow(d)
        PROVE  /\ Len(out) \in Nat \ {0}
               /\ Last.type = v
               /\ Last.address + Last.size = d.start
               /\ out' = [out EXCEPT ![Len(out)] =
                    [@ EXCEPT !.size = Last.size + PagesToSize(d.pages)]]
    <2>1. Len(out) \in Nat \ {0} /\ Last \in Entry
      BY <1>1, <1>6 DEF Extends, Last
    <2>2. Last.address \in Nat /\ Last.size \in Nat
      BY <2>1, WordSize DEF Entry
    <2>3. done > 0 /\ done \in 1 .. Len(map)
      BY <1>1, <1>6 DEF IInv, EndsTogether, Extends
    <2>4. Last.address + Last.size < Word
      BY <1>1, <2>3, DescriptorsFit DEF IInv, EndsTogether
    <2>5. Last.address + Last.size = d.start
      <3>1. (Last.address + Last.size) % Word = d.start
        BY <1>6 DEF Extends, Last
      <3>2. Last.address + Last.size \in Nat
        BY <2>2
      <3> QED BY <2>4, <3>1, <3>2, WordSize, ModIdentity
    <2>6. (Last.size + PagesToSize(d.pages)) % Word = Last.size + PagesToSize(d.pages)
      <3>1. Last.size + PagesToSize(d.pages) \in Nat
        BY <1>3, <2>2
      <3>2. Last.size + PagesToSize(d.pages) < Word
        BY <1>3, <2>2, <2>5, WordSize
      <3> QED BY <3>1, <3>2, WordSize, ModIdentity
    <2>7. out' = [out EXCEPT ![Len(out)].size = (@ + PagesToSize(d.pages)) % Word]
      BY <1>6 DEF Grow
    <2>8. Last.type = v
      BY <1>6 DEF Extends, Last
    <2> QED BY <2>1, <2>5, <2>6, <2>7, <2>8 DEF Last
  <1> QED BY <1>1, <1>2, <1>3, <1>4, <1>5, <1>6

-----------------------------------------------------------------------------
(* The inductive invariant: it holds at first, and every step preserves it. *)
LEMMA InitIInv == Init => IInv
  <1> SUFFICES ASSUME Init PROVE IInv
    OBVIOUS
  <1>1. map \in Seq(Descriptor)
    BY E820TypesAssumption DEF Init
  <1> QED BY <1>1 DEF Init, IInv, TypeOK, EndsTogether

LEMMA NextIInv ==
  ASSUME IInv, [Next]_vars
  PROVE  IInv'
  <1>1. CASE UNCHANGED vars
    BY <1>1 DEF vars, IInv, TypeOK, EndsTogether, Last
  <1>2. CASE Convert
    <2> DEFINE d == map[done + 1]
    <2>1. /\ done + 1 \in 1 .. Len(map) /\ done' = done + 1 /\ map' = map
          /\ map \in Maps
          /\ d.start \in Nat /\ d.type \in Nat /\ PagesToSize(d.pages) \in Nat
          /\ d.start + PagesToSize(d.pages) < Word
      BY <1>2, StepCases
    <2>2. PICK v \in 0 .. Half - 1 :
            \/ /\ Len(out) \in Nat \ {0}
               /\ Last.type = v
               /\ Last.address + Last.size = d.start
               /\ out' = [out EXCEPT ![Len(out)] =
                    [@ EXCEPT !.size = Last.size + PagesToSize(d.pages)]]
            \/ Add(d, v)
      BY <1>2, StepCases
    <2>3. out \in Seq(Entry) /\ done \in Nat /\ Len(map) \in Nat
      BY <2>1, E820TypesAssumption DEF IInv, TypeOK
    <2>4. CASE /\ Len(out) \in Nat \ {0}
               /\ Last.address + Last.size = d.start
               /\ out' = [out EXCEPT ![Len(out)] =
                    [@ EXCEPT !.size = Last.size + PagesToSize(d.pages)]]
      <3>1. Last \in Entry /\ Last.address \in Nat /\ Last.size \in Nat
        <4>1. Last \in Entry
          BY <2>3, <2>4 DEF Last
        <4> QED BY <4>1, WordSize DEF Entry
      <3>2. Last.size + PagesToSize(d.pages) \in 0 .. Word - 1
        <4>1. ASSUME NEW a \in Nat, NEW s \in Nat, NEW p \in Nat, NEW w \in Nat,
                     (a + s) + p < w
              PROVE  s + p \in 0 .. w - 1
          BY <4>1
        <4>2. (Last.address + Last.size) + PagesToSize(d.pages) < Word
          BY <2>1, <2>4
        <4> QED BY <2>1, <3>1, <4>1, <4>2, WordSize
      <3>3. [Last EXCEPT !.size = Last.size + PagesToSize(d.pages)] \in Entry
        BY <3>1, <3>2 DEF Entry
      <3>4. out' \in Seq(Entry) /\ Len(out') = Len(out)
        BY <2>3, <2>4, <3>3 DEF Last
      <3>5. Last' = [Last EXCEPT !.size = Last.size + PagesToSize(d.pages)]
        BY <2>3, <2>4, <3>4 DEF Last
      <3>6. Last'.address + Last'.size = d.start + PagesToSize(d.pages)
        BY <2>1, <2>4, <3>1, <3>5 DEF Entry
      <3>7. out' # << >>
        BY <2>3, <2>4, <3>4
      <3> QED BY <2>1, <2>3, <3>4, <3>6, <3>7 DEF IInv, TypeOK, EndsTogether, Last
    <2>5. CASE Add(d, v)
      <3> DEFINE e == [address |-> d.start, size |-> PagesToSize(d.pages), type |-> v]
      <3>1. e \in Entry
        BY <2>1, WordSize DEF Entry
      <3>2. out' = Append(out, e)
        BY <2>5 DEF Add
      <3>3. out' \in Seq(Entry) /\ Len(out') = Len(out) + 1 /\ out'[Len(out')] = e
        BY <2>3, <3>1, <3>2
      <3>4. Last' = e /\ out' # << >>
        BY <2>3, <3>3 DEF Last
      <3> QED BY <2>1, <2>3, <3>3, <3>4 DEF IInv, TypeOK, EndsTogether, Last
    <2> QED BY <2>2, <2>4, <2>5
  <1> QED BY <1>1, <1>2 DEF Next

(* The map is one the firmware may return, and the entries built so far are *)
(* words of the right width.                                                *)
THEOREM TypeCorrect == Spec => []TypeOK
  <1>1. IInv => TypeOK
    BY DEF IInv
  <1> QED BY <1>1, InitIInv, NextIInv, PTL DEF Spec

-----------------------------------------------------------------------------
(* What a step does to the memory the entries stand for: the last entry     *)
(* takes in the descriptor's addresses, or a new one stands for just them.  *)
LEMMA StepRegions ==
  ASSUME IInv, Convert
  PROVE  LET d == map[done + 1] IN
         \E v \in ConvertedTypes(d.type), k \in Nat \ {0} :
           /\ Len(out') = k /\ Len(out) \in Nat
           /\ out'[k].type = v
           /\ \A j \in 1 .. k - 1 : j \in 1 .. Len(out) /\ out'[j] = out[j]
           /\ \/ /\ k = Len(out)
                 /\ out[k].type = v
                 /\ EntryRegion(out'[k]) = EntryRegion(out[k]) \cup DescriptorRegion(d)
              \/ /\ k = Len(out) + 1
                 /\ EntryRegion(out'[k]) = DescriptorRegion(d)
  <1> DEFINE d == map[done + 1]
             n == Len(out)
             p == PagesToSize(d.pages)
  <1>1. d.start \in Nat /\ p \in Nat
    BY StepCases
  <1>2. PICK v \in ConvertedTypes(d.type) :
          \/ /\ n \in Nat \ {0}
             /\ Last.type = v
             /\ Last.address + Last.size = d.start
             /\ out' = [out EXCEPT ![n] = [@ EXCEPT !.size = Last.size + p]]
          \/ Add(d, v)
    BY StepCases
  <1>3. out \in Seq(Entry) /\ n \in Nat
    BY DEF IInv, TypeOK
  <1>4. CASE /\ n \in Nat \ {0}
             /\ Last.type = v
             /\ Last.address + Last.size = d.start
             /\ out' = [out EXCEPT ![n] = [@ EXCEPT !.size = Last.size + p]]
    <2>1. Last \in Entry /\ Last = out[n]
      BY <1>3, <1>4 DEF Last
    <2>2. Last.address \in Nat /\ Last.size \in Nat
      BY <2>1, WordSize DEF Entry
    <2>3. Len(out') = n /\ \A j \in 1 .. n - 1 : j \in 1 .. n /\ out'[j] = out[j]
      BY <1>3, <1>4
    <2>4. out'[n] = [Last EXCEPT !.size = Last.size + p]
      BY <1>3, <1>4, <2>1
    <2>5. /\ out'[n].address = Last.address
          /\ out'[n].size = Last.size + p
          /\ out'[n].type = v
      BY <1>4, <2>1, <2>4 DEF Entry
    <2>6. \A a, s, q \in Nat :
            a .. a + (s + q) - 1 = (a .. a + s - 1) \cup ((a + s) .. (a + s) + q - 1)
      OBVIOUS
    <2>7. EntryRegion(out'[n]) = EntryRegion(out[n]) \cup DescriptorRegion(d)
      <3>1. EntryRegion(out'[n]) = Last.address .. Last.address + (Last.size + p) - 1
        BY <2>5 DEF EntryRegion, Region
      <3>2. EntryRegion(out[n]) = Last.address .. Last.address + Last.size - 1
        BY <2>1 DEF EntryRegion, Region
      <3>3. DescriptorRegion(d) =
              (Last.address + Last.size) .. (Last.address + Last.size) + p - 1
        BY <1>4 DEF DescriptorRegion, Region
      <3> HIDE DEF p
      <3> QED BY <1>1, <2>2, <2>6, <3>1, <3>2, <3>3
    <2> QED BY <1>3, <1>4, <2>1, <2>3, <2>5, <2>7
  <1>5. CASE Add(d, v)
    <2> DEFINE e == [address |-> d.start, size |-> p, type |-> v]
    <2>1. out' = Append(out, e)
      BY <1>5 DEF Add
    <2>2. /\ Len(out') = n + 1 /\ out'[n + 1] = e
          /\ \A j \in 1 .. n : out'[j] = out[j]
      BY <1>3, <2>1
    <2>3. EntryRegion(e) = DescriptorRegion(d)
      BY DEF EntryRegion, DescriptorRegion
    <2>4. n + 1 \in Nat \ {0} /\ (n + 1) - 1 = n /\ e.type = v
      BY <1>3
    <2> QED BY <1>3, <2>2, <2>3, <2>4
  <1> QED BY <1>2, <1>4, <1>5

-----------------------------------------------------------------------------
(* The descriptors converted so far, after a step: those before and one.    *)
LEMMA DoneAfterStep ==
  ASSUME IInv, Convert
  PROVE  /\ map' = map /\ map \in Maps /\ done \in Nat /\ done' = done + 1
         /\ done + 1 \in 1 .. Len(map) /\ Len(map) \in Nat
         /\ \A i \in 1 .. done' : i \in 1 .. done \/ i = done + 1
         /\ \A i \in 1 .. done : i \in 1 .. Len(map) /\ i # done + 1
  <1>1. map \in Maps /\ done \in Nat /\ Len(map) \in Nat
    BY E820TypesAssumption DEF IInv, TypeOK
  <1>2. map' = map /\ done' = done + 1 /\ done + 1 \in 1 .. Len(map)
    BY StepCases
  <1> QED BY <1>1, <1>2

(* No address of a converted descriptor is missing from the entries.        *)
LEMMA NextNothingLost ==
  ASSUME IInv, NothingLost, [Next]_vars
  PROVE  NothingLost'
  <1>1. CASE UNCHANGED vars
    BY <1>1 DEF vars, NothingLost
  <1>2. CASE Convert
    <2> DEFINE d == map[done + 1]
    <2>1. PICK v \in ConvertedTypes(d.type), k \in Nat \ {0} :
            /\ Len(out') = k /\ Len(out) \in Nat
            /\ out'[k].type = v
            /\ \A j \in 1 .. k - 1 : j \in 1 .. Len(out) /\ out'[j] = out[j]
            /\ \/ /\ k = Len(out)
                  /\ out[k].type = v
                  /\ EntryRegion(out'[k]) = EntryRegion(out[k]) \cup DescriptorRegion(d)
               \/ /\ k = Len(out) + 1
                  /\ EntryRegion(out'[k]) = DescriptorRegion(d)
      BY <1>2, StepRegions
    <2> SUFFICES ASSUME NEW i \in 1 .. done', NEW a \in DescriptorRegion(map'[i])
                 PROVE  \E j \in 1 .. Len(out') :
                          /\ a \in EntryRegion(out'[j])
                          /\ out'[j].type \in ConvertedTypes(map'[i].type)
      BY DEF NothingLost
    <2>2. map' = map /\ (i \in 1 .. done \/ i = done + 1)
      BY <1>2, DoneAfterStep
    <2>3. CASE i = done + 1
      <3>1. a \in EntryRegion(out'[k]) /\ k \in 1 .. Len(out')
        BY <2>1, <2>2, <2>3
      <3> QED BY <2>1, <2>2, <2>3, <3>1
    <2>4. CASE i \in 1 .. done
      <3>1. PICK j \in 1 .. Len(out) : /\ a \in EntryRegion(out[j])
                                      /\ out[j].type \in ConvertedTypes(map[i].type)
        BY <2>2, <2>4 DEF NothingLost
      <3>2. CASE j = k
        <4>1. k = Len(out) /\ k \in 1 .. Len(out')
          BY <2>1, <3>2
        <4>2. out'[k].type = out[k].type /\ EntryRegion(out[k]) \subseteq EntryRegion(out'[k])
          BY <2>1, <4>1
        <4> QED BY <2>2, <3>1, <3>2, <4>1, <4>2
      <3>3. CASE j # k
        <4>1. j \in 1 .. k - 1 /\ j \in 1 .. Len(out')
          BY <2>1, <3>3
        <4>2. out'[j] = out[j]
          BY <2>1, <4>1
        <4> QED BY <2>2, <3>1, <4>1, <4>2
      <3> QED BY <3>2, <3>3
    <2> QED BY <2>2, <2>3, <2>4
  <1> QED BY <1>1, <1>2 DEF Next

(* Every address of a converted descriptor is reported to the kernel, under *)
(* a type the descriptor converts to, whatever the firmware's map.          *)
THEOREM NothingIsLost == Spec => []NothingLost
  <1>1. Init => NothingLost
    BY DEF Init, NothingLost
  <1> QED BY <1>1, InitIInv, NextIInv, NextNothingLost, PTL DEF Spec

-----------------------------------------------------------------------------
(* What the conversion calls RAM: the types the table has as RAM, and the   *)
(* one that is read from behind the table.                                  *)
LEMMA RamComesFrom ==
  ASSUME NEW t \in Nat, E820_TYPE_RAM \in ConvertedTypes(t)
  PROVE  \/ t \in RamTypes
         \/ t = EfiPersistentMemory /\ E820_TYPE_RAM \in StrayTypes
  <1>1. \A u \in 0 .. 13 : EfiTypeToE820Type[u] = 1 => u \in 1 .. 7
    BY DEF EfiTypeToE820Type, EfiReservedMemoryType, EfiLoaderCode, EfiLoaderData,
           EfiBootServicesCode, EfiBootServicesData, EfiRuntimeServicesCode,
           EfiRuntimeServicesData, EfiConventionalMemory, EfiUnusableMemory,
           EfiACPIReclaimMemory, EfiACPIMemoryNVS, EfiMemoryMappedIO,
           EfiMemoryMappedIOPortSpace, EfiPalCode, E820_TYPE_RAM,
           E820_TYPE_RESERVED, E820_TYPE_ACPI, E820_TYPE_NVS,
           E820_TYPE_UNUSABLE, E820_TYPE_RESERVED_KERN
  <1>2. DOMAIN EfiTypeToE820Type = 0 .. 13
    BY DEF EfiTypeToE820Type, EfiReservedMemoryType, EfiPalCode
  <1>3. RamTypes = 1 .. 7
    BY DEF RamTypes, EfiLoaderCode, EfiConventionalMemory
  <1>4. CASE t \in 0 .. 13
    <2>1. ConvertedTypes(t) = { EfiTypeToE820Type[t] }
      BY <1>2, <1>4 DEF ConvertedTypes, EfiMaxMemoryType
    <2> HIDE DEF EfiTypeToE820Type
    <2> QED BY <1>1, <1>3, <1>4, <2>1 DEF E820_TYPE_RAM
  <1>5. CASE t = 14
    BY <1>2, <1>5 DEF ConvertedTypes, EfiMaxMemoryType, EfiPersistentMemory
  <1>6. CASE t > 14
    BY <1>6 DEF ConvertedTypes, EfiMaxMemoryType, E820_TYPE_RAM, E820_TYPE_RESERVED
  <1> QED BY <1>4, <1>5, <1>6

(* No entry has an address outside the descriptors that convert to it.      *)
LEMMA NextNothingInvented ==
  ASSUME IInv, NothingInvented, [Next]_vars
  PROVE  NothingInvented'
  <1>1. CASE UNCHANGED vars
    BY <1>1 DEF vars, NothingInvented
  <1>2. CASE Convert
    <2> DEFINE d == map[done + 1]
    <2>1. PICK v \in ConvertedTypes(d.type), k \in Nat \ {0} :
            /\ Len(out') = k /\ Len(out) \in Nat
            /\ out'[k].type = v
            /\ \A j \in 1 .. k - 1 : j \in 1 .. Len(out) /\ out'[j] = out[j]
            /\ \/ /\ k = Len(out)
                  /\ out[k].type = v
                  /\ EntryRegion(out'[k]) = EntryRegion(out[k]) \cup DescriptorRegion(d)
               \/ /\ k = Len(out) + 1
                  /\ EntryRegion(out'[k]) = DescriptorRegion(d)
      BY <1>2, StepRegions
    <2>2. /\ map' = map /\ done \in Nat /\ done' = done + 1
          /\ 1 .. done \subseteq 1 .. done' /\ done + 1 \in 1 .. done'
      BY <1>2, DoneAfterStep
    <2> SUFFICES ASSUME NEW j \in 1 .. Len(out'), NEW a \in EntryRegion(out'[j])
                 PROVE  \E i \in 1 .. done' :
                          /\ a \in DescriptorRegion(map'[i])
                          /\ out'[j].type \in ConvertedTypes(map'[i].type)
                          /\ out'[j].type = E820_TYPE_RAM =>
                               \/ map'[i].type \in RamTypes
                               \/ /\ map'[i].type = EfiPersistentMemory
                                  /\ E820_TYPE_RAM \in StrayTypes
      BY DEF NothingInvented
    <2>3. CASE a \in DescriptorRegion(d) /\ j = k
      <3>1. d.type \in Nat
        BY <1>2, StepCases
      <3>2. out'[j].type \in ConvertedTypes(d.type)
        BY <2>1, <2>3
      <3>3. out'[j].type = E820_TYPE_RAM =>
              \/ d.type \in RamTypes
              \/ d.type = EfiPersistentMemory /\ E820_TYPE_RAM \in StrayTypes
        BY <3>1, <3>2, RamComesFrom
      <3> QED BY <2>2, <2>3, <3>2, <3>3
    <2>4. CASE j \in 1 .. Len(out) /\ a \in EntryRegion(out[j]) /\ out'[j].type = out[j].type
      BY <2>2, <2>4 DEF NothingInvented
    <2>5. CASE j # k
      <3>1. j \in 1 .. k - 1
        BY <2>1, <2>5
      <3> QED BY <2>1, <2>4, <3>1
    <2>6. CASE j = k /\ a \notin DescriptorRegion(d)
      BY <2>1, <2>4, <2>6
    <2> QED BY <2>3, <2>5, <2>6
  <1> QED BY <1>1, <1>2 DEF Next

(* The kernel is told of no memory that the firmware did not report, and of *)
(* none as RAM that it reported as anything the table does not call RAM,    *)
(* but for persistent memory, whose type is read from behind the table.     *)
THEOREM NothingIsInvented == Spec => []NothingInvented
  <1>1. Init => NothingInvented
    BY DEF Init, NothingInvented
  <1> QED BY <1>1, InitIInv, NextIInv, NextNothingInvented, PTL DEF Spec

-----------------------------------------------------------------------------
(* A descriptor still to be converted shares no address with an entry: what *)
(* an entry stands for was converted, and the firmware's map is disjoint.   *)
LEMMA FreshDescriptor ==
  ASSUME IInv, NothingInvented, Convert, NEW j \in 1 .. Len(out)
  PROVE  EntryRegion(out[j]) \cap DescriptorRegion(map[done + 1]) = {}
  <1> SUFFICES ASSUME NEW a \in EntryRegion(out[j]), a \in DescriptorRegion(map[done + 1])
               PROVE  FALSE
    OBVIOUS
  <1>1. PICK i \in 1 .. done : a \in DescriptorRegion(map[i])
    BY DEF NothingInvented
  <1>2. map \in Maps /\ i \in 1 .. Len(map) /\ done + 1 \in 1 .. Len(map) /\ i # done + 1
    BY DoneAfterStep
  <1> QED BY <1>1, <1>2, DescriptorsDisjoint

LEMMA NextEntriesDisjoint ==
  ASSUME IInv, NothingInvented, EntriesDisjoint, [Next]_vars
  PROVE  EntriesDisjoint'
  <1>1. CASE UNCHANGED vars
    BY <1>1 DEF vars, EntriesDisjoint
  <1>2. CASE Convert
    <2> DEFINE d == map[done + 1]
    <2>1. PICK v \in ConvertedTypes(d.type), k \in Nat \ {0} :
            /\ Len(out') = k /\ Len(out) \in Nat
            /\ \A j \in 1 .. k - 1 : j \in 1 .. Len(out) /\ out'[j] = out[j]
            /\ \/ /\ k = Len(out)
                  /\ EntryRegion(out'[k]) = EntryRegion(out[k]) \cup DescriptorRegion(d)
               \/ /\ k = Len(out) + 1
                  /\ EntryRegion(out'[k]) = DescriptorRegion(d)
      BY <1>2, StepRegions
    <2>2. \A j \in 1 .. Len(out) : EntryRegion(out[j]) \cap DescriptorRegion(d) = {}
      BY <1>2, FreshDescriptor
    <2>3. \A j \in 1 .. k - 1 : EntryRegion(out'[j]) \cap EntryRegion(out'[k]) = {}
      <3> SUFFICES ASSUME NEW j \in 1 .. k - 1
                   PROVE  EntryRegion(out'[j]) \cap EntryRegion(out'[k]) = {}
        OBVIOUS
      <3>1. j \in 1 .. Len(out) /\ out'[j] = out[j] /\ j # k
        BY <2>1
      <3>2. CASE k = Len(out) /\ EntryRegion(out'[k]) = EntryRegion(out[k]) \cup DescriptorRegion(d)
        <4>1. k \in 1 .. Len(out)
          BY <2>1, <3>2
        <4>2. EntryRegion(out[j]) \cap EntryRegion(out[k]) = {}
          BY <3>1, <4>1 DEF EntriesDisjoint
        <4>3. EntryRegion(out[j]) \cap DescriptorRegion(d) = {}
          BY <2>2, <3>1
        <4>4. EntryRegion(out'[j]) = EntryRegion(out[j])
          BY <3>1
        <4> QED BY <3>2, <4>2, <4>3, <4>4
      <3>3. CASE EntryRegion(out'[k]) = DescriptorRegion(d)
        BY <2>2, <3>1, <3>3
      <3> QED BY <2>1, <3>2, <3>3
    <2>4. \A i, j \in 1 .. k - 1 :
            i # j => EntryRegion(out'[i]) \cap EntryRegion(out'[j]) = {}
      BY <2>1 DEF EntriesDisjoint
    <2>5. \A i \in 1 .. Len(out') : i = k \/ i \in 1 .. k - 1
      BY <2>1
    <2> SUFFICES ASSUME NEW i \in 1 .. Len(out'), NEW j \in 1 .. Len(out'), i # j
                 PROVE  EntryRegion(out'[i]) \cap EntryRegion(out'[j]) = {}
      BY DEF EntriesDisjoint
    <2>6. CASE i = k
      <3>1. EntryRegion(out'[j]) \cap EntryRegion(out'[k]) = {}
        BY <2>3, <2>5, <2>6
      <3> QED BY <2>6, <3>1
    <2>7. CASE j = k
      BY <2>3, <2>5, <2>7
    <2>8. CASE i # k /\ j # k
      BY <2>4, <2>5, <2>8
    <2> QED BY <2>6, <2>7, <2>8
  <1> QED BY <1>1, <1>2 DEF Next

(* No two entries of the kernel's map overlap, in whatever order the        *)
(* firmware lists its descriptors.                                          *)
THEOREM EntriesAreDisjoint == Spec => []EntriesDisjoint
  <1>1. Init => EntriesDisjoint /\ NothingInvented
    BY DEF Init, EntriesDisjoint, NothingInvented
  <1> QED BY <1>1, InitIInv, NextIInv, NextNothingInvented, NextEntriesDisjoint, PTL
          DEF Spec

-----------------------------------------------------------------------------
(* A new entry was not added where the last one could have grown.           *)
LEMMA NextNoMergeLeft ==
  ASSUME IInv, NoMergeLeft, [Next]_vars
  PROVE  NoMergeLeft'
  <1>1. CASE UNCHANGED vars
    BY <1>1 DEF vars, NoMergeLeft
  <1>2. CASE Convert
    <2> DEFINE d == map[done + 1]
               n == Len(out)
               p == PagesToSize(d.pages)
    <2>1. PICK v \in ConvertedTypes(d.type) :
            \/ /\ n \in Nat \ {0}
               /\ out' = [out EXCEPT ![n] = [@ EXCEPT !.size = Last.size + p]]
            \/ ~Extends(d, v) /\ Add(d, v)
      BY <1>2, StepCases
    <2>2. out \in Seq(Entry) /\ n \in Nat
      BY DEF IInv, TypeOK
    <2>3. CASE /\ n \in Nat \ {0}
               /\ out' = [out EXCEPT ![n] = [@ EXCEPT !.size = Last.size + p]]
      <3>1. /\ Len(out') = n
            /\ \A i \in 1 .. n - 1 : out'[i] = out[i]
            /\ out'[n] = [out[n] EXCEPT !.size = Last.size + p]
            /\ out[n] \in Entry
        BY <2>2, <2>3
      <3>2. out'[n].address = out[n].address /\ out'[n].type = out[n].type
        BY <3>1 DEF Entry
      <3>3. ASSUME NEW i \in 1 .. n - 1
            PROVE  /\ out'[i] = out[i]
                   /\ out'[i + 1].address = out[i + 1].address
                   /\ out'[i + 1].type = out[i + 1].type
        <4>1. i + 1 \in 1 .. n - 1 \/ i + 1 = n
          BY <2>2
        <4> QED BY <3>1, <3>2, <4>1
      <3> QED BY <3>1, <3>3 DEF NoMergeLeft
    <2>4. CASE ~Extends(d, v) /\ Add(d, v)
      <3> DEFINE e == [address |-> d.start, size |-> p, type |-> v]
      <3>1. out' = Append(out, e)
        BY <2>4 DEF Add
      <3>2. /\ Len(out') = n + 1 /\ out'[n + 1] = e
            /\ \A i \in 1 .. n : out'[i] = out[i]
        BY <2>2, <3>1
      <3> SUFFICES ASSUME NEW i \in 1 .. Len(out') - 1, out'[i].type = out'[i + 1].type
                   PROVE  (out'[i].address + out'[i].size) % Word # out'[i + 1].address
        BY DEF NoMergeLeft
      <3>3. i \in 1 .. n - 1 \/ i = n
        BY <2>2, <3>2
      <3>4. CASE i \in 1 .. n - 1
        <4>1. i \in 1 .. n /\ i + 1 \in 1 .. n
          BY <2>2, <3>4
        <4> QED BY <3>2, <3>4, <4>1 DEF NoMergeLeft
      <3>5. CASE i = n
        <4>1. out'[n] = out[n] /\ out # << >>
          BY <2>2, <3>2, <3>5
        <4>2. out'[n + 1].type = v /\ out'[n + 1].address = d.start
          BY <3>2
        <4>3. out[n].type = v
          BY <3>5, <4>1, <4>2
        <4> QED BY <2>4, <3>5, <4>1, <4>2, <4>3 DEF Extends
      <3> QED BY <3>3, <3>4, <3>5
    <2> QED BY <2>1, <2>3, <2>4
  <1> QED BY <1>1, <1>2 DEF Next

(* The kernel's map never has two consecutive entries that could be one.    *)
THEOREM NothingLeftToMerge == Spec => []NoMergeLeft
  <1>1. Init => NoMergeLeft
    BY DEF Init, NoMergeLeft
  <1> QED BY <1>1, InitIInv, NextIInv, NextNoMergeLeft, PTL DEF Spec
=============================================================================
