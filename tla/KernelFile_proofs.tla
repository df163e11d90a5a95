-------------------------- MODULE KernelFile_proofs ---------------------------
(***************************************************************************)
(* Proofs about KernelFile, for every kernel, every size of the memory and *)
(* of its pages, and every allocation of the firmware.                     *)
(*                                                                         *)
(* The search for the header is followed call by call.  Of the image, the  *)
(* pages of a segment are free when it is allocated, so they are not those *)
(* of the segments before it, and what is written to them disturbs neither *)
(* these nor anybody else's.                                               *)
(***************************************************************************)
EXTENDS KernelFile, TLAPS

(* The section that is read is the first of the name; the ones looked at    *)
(* before the search went on are not.                                       *)
First(n) ==
  /\ n \in 1 .. Len(table.sections)
  /\ table.sections[n].name # "other"
  /\ \A j \in 1 .. n - 1 : table.sections[j].name # "asked"

Searched ==
  /\ step \in { "header", "allocateNames", "readNames" } => index = 0 /\ newBuffer = 0
  /\ step = "section" =>
       newBuffer = 0 /\ \A j \in 1 .. index : table.sections[j].name # "asked"
  /\ step = "allocate" => newBuffer = 0 /\ First(index)
  /\ step = "read" => newBuffer = index /\ First(index) /\ "section" \in pool
  /\ step = "set" /\ newBuffer # 0 =>
       newBuffer = index /\ First(index) /\ "section" \in pool

(* What the caller sees of the search.                                      *)
Handed ==
  /\ step \notin { "end", "returned" } => outcome = "success"
  /\ step \notin { "end", "returned" } \/ outcome = "error" =>
       header = [buffer |-> 0, size |-> 0]
  /\ step \in { "end", "returned" } /\ outcome = "success" =>
       /\ First(header.buffer)
       /\ header.size = table.sections[header.buffer].size
       /\ "section" \in pool
  /\ step \in { "header", "returned" } => "names" \notin pool

SectionIInv == Section!TypeOK /\ Searched /\ Handed

-----------------------------------------------------------------------------
(* The pages and the bytes of a segment, and what it is to be in place.     *)
Base(s)    == LoadAddress(s.vaddr)
EndOf(s)   == Base(s) + s.memsz
PagesOf(s) ==
  Base(s) \div PageSize .. Base(s) \div PageSize + (s.memsz + PageSize - 1) \div PageSize - 1

Held(s) ==
  /\ s.load /\ s.memsz > 0 /\ Base(s) % PageSize = 0
  /\ \A p \in PagesOf(s) : p \in Pages /\ owner[p] = "kernel"

InPlace(s) ==
  \A k \in 0 .. s.memsz - 1 :
    memory[Base(s) + k] = IF k < s.filesz THEN s.offset + k ELSE Zero

(* The segments that are in memory. *)
Past == { j \in Loaded : j < i }

Ends(J) == { 0 } \cup { EndOf(file.segments[j]) : j \in J }

(* t is the end of the highest of the segments in J. *)
IsTop(t, J) ==
  /\ t \in Ends(J)
  /\ \A j \in J : EndOf(file.segments[j]) <= t

Allocated ==
  /\ \A j \in Past : Held(file.segments[j])
  /\ pc \in { "read", "zero" } =>
       /\ Held(segment)
       /\ \A j \in Past : PagesOf(file.segments[j]) \cap PagesOf(segment) = {}

Written ==
  /\ \A j \in Past : InPlace(file.segments[j])
  /\ pc = "zero" =>
       \A k \in 0 .. segment.filesz - 1 : memory[LoadAddr + k] = segment.offset + k

Topped ==
  /\ pc = "phdr" => IsTop(top, Past)
  /\ pc = "allocate" =>
       \E t \in Ends(Past) :
         /\ IsTop(t, Past)
         /\ top = IF EndOf(segment) % AddressSpace > t
                    THEN EndOf(segment) % AddressSpace ELSE t
  /\ pc \in { "read", "zero" } => IsTop(top, Past \cup { i })
  /\ pc = "returned" /\ status = "success" => IsTop(top, Past)

Progressed ==
  /\ pc \in { "allocate", "read", "zero" } => i \in Loaded
  /\ pc = "header" => i = 1 /\ top = 0
  /\ pc = "returned" /\ status = "success" => i = Len(file.segments) + 1
  /\ pc # "returned" => status = "success"

LoadIInv == TypeOK /\ Progressed /\ Allocated /\ Written /\ Topped /\ ForeignMemoryIntact

(* The image is loaded only once the header was found.                      *)
Ordered == pc # "header" => HeaderFound

FileIInv == SectionIInv /\ LoadIInv /\ Ordered

-----------------------------------------------------------------------------
(* The table of a file is a sequence of sections.                           *)
LEMMA TableIs ==
  ASSUME table \in Section!Files
  PROVE  /\ Len(table.sections) \in Nat
         /\ \A j \in 1 .. Len(table.sections) : table.sections[j].size \in Nat
  <1>1. PICK n \in 0 .. MaxSections : table.sections \in [1 .. n -> Section!Section]
    BY DEF Section!Files
  <1>2. n \in Nat
    BY KernelFileAssumption
  <1>3. Len(table.sections) = n
    BY <1>1, <1>2
  <1>4. ASSUME NEW j \in 1 .. n PROVE table.sections[j].size \in Nat
    BY <1>1, KernelFileAssumption DEF Section!Section
  <1> QED
    BY <1>2, <1>3, <1>4

LEMMA SectionInit == FileInit => SectionIInv
  <1> SUFFICES ASSUME FileInit PROVE SectionIInv
    OBVIOUS
  <1>1. table \in Section!Files
    BY KernelFileAssumption DEF FileInit
  <1>2. /\ step = "header" /\ index = 0 /\ newBuffer = 0 /\ pool = {}
        /\ header = [buffer |-> 0, size |-> 0] /\ outcome = "success"
    BY DEF FileInit, Section!Init, Section!Null
  <1>3. Section!TypeOK
    BY <1>1, <1>2, TableIs DEF Section!TypeOK
  <1> QED
    BY <1>2, <1>3 DEF SectionIInv, Searched, Handed

(* One call of the search after the other.                                  *)
LEMMA SectionStep == SectionIInv /\ Section!Next => SectionIInv'
  <1> SUFFICES ASSUME SectionIInv, Section!Next PROVE SectionIInv'
    OBVIOUS
  <1> DEFINE n == Len(table.sections)
             Steps == { "header", "allocateNames", "readNames", "section", "allocate",
                        "read", "set", "end", "returned" }
             Typed == /\ table' = table /\ step' \in Steps
                      /\ index' \in 0 .. n /\ newBuffer' \in 0 .. n
                      /\ pool' \subseteq { "names", "section" }
                      /\ header' \in [buffer : 0 .. n, size : Nat]
                      /\ outcome' \in { "success", "error" }
  <1>0. /\ table \in Section!Files /\ n \in Nat /\ step \in Steps
        /\ index \in 0 .. n /\ newBuffer \in 0 .. n
        /\ pool \subseteq { "names", "section" }
        /\ header \in [buffer : 0 .. n, size : Nat]
        /\ outcome \in { "success", "error" }
        /\ Searched /\ Handed
    BY TableIs DEF SectionIInv, Section!TypeOK
  <1> HIDE DEF n
  <1> USE DEF Section!Null, Section!Fail, Section!GoOn, Section!Read
  <1>1. Typed /\ Searched' /\ Handed'
    <2>1. CASE Section!ReadHeader
      BY <1>0, <2>1 DEF Section!ReadHeader, Searched, Handed, First
    <2>2. CASE Section!AllocateNames
      BY <1>0, <2>2 DEF Section!AllocateNames, Searched, Handed, First
    <2>3. CASE Section!ReadNames
      BY <1>0, <2>3 DEF Section!ReadNames, Searched, Handed, First
    <2>4. CASE Section!ReadSection
      BY <1>0, <2>4 DEF Section!ReadSection, Searched, Handed, First, n
    <2>5. CASE Section!SearchEnds
      BY <1>0, <2>5 DEF Section!SearchEnds, Searched, Handed, First
    <2>6. CASE Section!AllocateBuffer
      BY <1>0, <2>6 DEF Section!AllocateBuffer, Searched, Handed, First
    <2>7. CASE Section!ReadBuffer
      BY <1>0, <2>7 DEF Section!ReadBuffer, Searched, Handed, First
    <2>8. CASE Section!SetOutputs
      BY <1>0, <2>8, TableIs DEF Section!SetOutputs, Searched, Handed, First, n
    <2>9. CASE Section!FreeNames
      BY <1>0, <2>9 DEF Section!FreeNames, Searched, Handed, First
    <2> QED
      BY <2>1, <2>2, <2>3, <2>4, <2>5, <2>6, <2>7, <2>8, <2>9 DEF Section!Next
  <1> QED
    BY <1>0, <1>1 DEF SectionIInv, Section!TypeOK, n

-----------------------------------------------------------------------------
(* Division by the size of a page.                                          *)
LEMMA Division ==
  ASSUME NEW p \in Nat \ {0}, NEW a \in Nat
  PROVE  /\ a \div p \in Nat
         /\ (a \div p) * p <= a /\ a < (a \div p) * p + p
         /\ a % p = 0 => a = (a \div p) * p
  BY SMT

LEMMA Multiples ==
  ASSUME NEW p \in Nat \ {0}, NEW u \in Nat, NEW v \in Nat
  PROVE  /\ u * p \in Nat
         /\ u <= v => u * p <= v * p
         /\ u * p < v * p => u < v
         /\ (u + v) * p = u * p + v * p
         /\ (u + 1) * p = u * p + p
  BY SMT

LEMMA TwoNumbers ==
  ASSUME NEW a \in Int, NEW b \in Int
  PROVE  /\ Min({ a, b }) \in { a, b } /\ Min({ a, b }) <= a /\ Min({ a, b }) <= b
         /\ Max({ a, b }) \in { a, b } /\ a <= Max({ a, b }) /\ b <= Max({ a, b })
  <1>1. \E x \in { a, b } : \A y \in { a, b } : x <= y
    OBVIOUS
  <1>2. \E x \in { a, b } : \A y \in { a, b } : x >= y
    OBVIOUS
  <1>3. Min({ a, b }) \in { a, b } /\ \A y \in { a, b } : Min({ a, b }) <= y
    BY <1>1 DEF Min
  <1>4. Max({ a, b }) \in { a, b } /\ \A y \in { a, b } : Max({ a, b }) >= y
    BY <1>2 DEF Max
  <1> QED
    BY <1>3, <1>4

(* A segment is loaded to an address of memory.                             *)
LEMMA BaseIs ==
  ASSUME NEW s \in Segment
  PROVE  Base(s) \in 0 .. AddressSpace - 1 /\ Base(s) \in Nat
  <1>1. ASSUME NEW v \in Int PROVE v % AddressSpace \in 0 .. AddressSpace - 1
    BY KernelAddressAssumption
  <1>2. s.vaddr \in 0 .. AddressSpace - 1 /\ HighBase \in Nat /\ AddressSpace \in Nat
    BY KernelAddressAssumption DEF Segment
  <1>3. (s.vaddr - HighBase) \in Int
    BY <1>2
  <1>4. (s.vaddr - HighBase) % AddressSpace \in 0 .. AddressSpace - 1
    BY <1>1, <1>3
  <1> QED
    BY <1>2, <1>4 DEF Base, LoadAddress

LEMMA SegmentIs ==
  ASSUME file \in Elves
  PROVE  /\ Len(file.segments) \in Nat
         /\ DOMAIN file.segments = 1 .. Len(file.segments)
         /\ \A j \in 1 .. Len(file.segments) :
              /\ file.segments[j] \in Segment
              /\ file.segments[j].filesz <= file.segments[j].memsz
              /\ file.segments[j].filesz \in Nat /\ file.segments[j].memsz \in Nat
              /\ file.segments[j].offset \in Nat
              /\ Base(file.segments[j]) \in Nat
  <1>1. /\ file.segments \in Seq(Segment) /\ file.length \in Nat
        /\ \A j \in DOMAIN file.segments : file.segments[j].filesz <= file.segments[j].memsz
    BY ElfLoaderAssumption
  <1>2. \A j \in 1 .. Len(file.segments) : file.segments[j] \in Segment
    BY <1>1
  <1> QED
    <2>1. ASSUME NEW j \in 1 .. Len(file.segments)
          PROVE  /\ file.segments[j].filesz \in Nat /\ file.segments[j].memsz \in Nat
                 /\ file.segments[j].offset \in Nat
                 /\ Base(file.segments[j]) \in Nat
      BY <1>2, BaseIs DEF Segment
    <2> QED
      BY <1>1, <1>2, <2>1

(* The pages that are allocated for a segment are those of its bytes, and    *)
(* it ends where they do or before.                                          *)
LEMMA PagesHoldBytes ==
  ASSUME NEW s \in Segment, s.memsz > 0, Base(s) % PageSize = 0,
         \A p \in PagesOf(s) : p \in Pages
  PROVE  /\ EndOf(s) \in 1 .. AddressSpace - 1
         /\ \A a \in Base(s) .. EndOf(s) - 1 : a \in Addresses /\ a \div PageSize \in PagesOf(s)
  <1> DEFINE P == PageSize
             m == s.memsz
             b == Base(s)
             q == b \div P
             r == (m + P - 1) \div P
  <1>1. /\ P \in Nat \ {0} /\ MemorySize \in Nat /\ m \in Nat /\ m > 0 /\ b \in Nat
        /\ MemorySize * P < AddressSpace /\ AddressSpace \in Nat
        /\ m + P - 1 \in Nat
    BY ElfLoaderAssumption, KernelAddressAssumption, BaseIs DEF Segment
  <1>2. PagesOf(s) = q .. q + r - 1 /\ EndOf(s) = b + m /\ b % P = 0
    BY DEF PagesOf, EndOf
  <1> HIDE DEF P, m, b
  <1>3. q \in Nat /\ b = q * P
    BY <1>1, <1>2, Division
  <1>4. r \in Nat /\ m <= r * P
    <2>1. r \in Nat /\ m + P - 1 < r * P + P
      BY <1>1, Division
    <2> HIDE DEF r
    <2>2. r * P \in Nat
      BY <1>1, <2>1, Multiples
    <2> QED
      BY <1>1, <2>1, <2>2
  <1> HIDE DEF q, r
  <1>5. /\ q * P \in Nat /\ r * P \in Nat /\ q + r \in Nat
        /\ (q + r) * P = q * P + r * P
    BY <1>1, <1>3, <1>4, Multiples
  <1>6. r > 0
    BY <1>1, <1>4, Multiples
  <1>7. q + r <= MemorySize
    <2>1. q + r - 1 \in PagesOf(s)
      BY <1>2, <1>3, <1>4, <1>6
    <2>2. q + r - 1 \in 0 .. MemorySize - 1
      BY <2>1 DEF Pages
    <2> QED
      BY <1>1, <1>3, <1>4, <2>2
  <1>8. (q + r) * P <= MemorySize * P /\ MemorySize * P \in Nat
    BY <1>1, <1>5, <1>7, Multiples
  <1>9. EndOf(s) <= (q + r) * P /\ EndOf(s) \in Nat /\ EndOf(s) > 0
    BY <1>1, <1>2, <1>3, <1>4, <1>5
  <1>10. ASSUME NEW a \in b .. EndOf(s) - 1
         PROVE  a \in 0 .. MemorySize * P - 1 /\ a \div P \in q .. q + r - 1
    <2>1. a \in Nat /\ b <= a /\ a < EndOf(s) /\ a < (q + r) * P
      BY <1>1, <1>5, <1>9, <1>10
    <2> DEFINE x == a \div P
    <2>2. x \in Nat /\ x * P <= a /\ a < x * P + P
      BY <1>1, <2>1, Division
    <2> HIDE DEF x
    <2>3. x * P \in Nat /\ (x + 1) * P = x * P + P
      BY <1>1, <2>2, Multiples
    <2>4. x * P < (q + r) * P /\ q * P < (x + 1) * P
      BY <1>1, <1>3, <1>5, <2>1, <2>2, <2>3
    <2>5. x < q + r /\ q < x + 1
      BY <1>1, <1>3, <1>5, <2>2, <2>4, Multiples
    <2>6. x \in q .. q + r - 1
      BY <1>3, <1>4, <2>2, <2>5
    <2>7. a \in 0 .. MemorySize * P - 1
      BY <1>5, <1>8, <2>1
    <2> QED
      BY <2>6, <2>7 DEF x
  <1> QED
    <2>1. EndOf(s) \in 1 .. AddressSpace - 1
      BY <1>1, <1>5, <1>8, <1>9
    <2>2. \A a \in b .. EndOf(s) - 1 : a \in 0 .. MemorySize * P - 1 /\ a \div P \in PagesOf(s)
      BY <1>2, <1>10
    <2> QED
      BY <2>1, <2>2 DEF b, P, Addresses

-----------------------------------------------------------------------------
(* What a step of the load leaves as it was: the kernel's pages, and, when   *)
(* it writes to other pages than theirs, the segments in memory.             *)
LEMMA HeldStays ==
  ASSUME NEW s, Held(s), \A p \in Pages : owner[p] = "kernel" => owner'[p] = "kernel"
  PROVE  Held(s)'
  BY DEF Held, PagesOf, Base, Pages

LEMMA SegmentsStay ==
  ASSUME file' = file, \A p \in Pages : owner[p] = "kernel" => owner'[p] = "kernel",
         memory' = memory, Past' = Past,
         \A j \in Past : Held(file.segments[j]) /\ InPlace(file.segments[j])
  PROVE  (\A j \in Past : Held(file.segments[j]) /\ InPlace(file.segments[j]))'
  <1>1. ASSUME NEW j \in Past
        PROVE  Held(file.segments[j])' /\ InPlace(file.segments[j])'
    <2>1. PICK s : s = file.segments[j] /\ s = file'.segments[j]
      OBVIOUS
    <2>2. Held(s)'
      BY <1>1, <2>1, HeldStays
    <2>3. InPlace(s)'
      BY <1>1, <2>1 DEF InPlace, Base
    <2> QED
      BY <2>1, <2>2, <2>3 DEF Held, InPlace, PagesOf, Base
  <1> QED
    BY <1>1

LEMMA LoadInit == FileInit => LoadIInv
  <1> SUFFICES ASSUME FileInit PROVE LoadIInv
    OBVIOUS
  <1>1. file \in Elves
    BY KernelFileAssumption DEF FileInit, Init
  <1>2. /\ Len(file.segments) \in Nat /\ MaxEvents \in Nat
        /\ AddressSpace \in Nat /\ AddressSpace > 0
    BY <1>1, SegmentIs, KernelAddressAssumption, ElfLoaderAssumption
  <1>3. /\ pc = "header" /\ i = 1 /\ top = 0 /\ events = 0
        /\ status = "success" /\ message = "none"
        /\ owner \in [Pages -> { "free", "firmware" }]
        /\ memory = [a \in Addresses |-> Before]
    BY DEF FileInit, Init
  <1>4. TypeOK
    <2>1. owner \in [Pages -> { "free", "firmware", "kernel" }]
      BY <1>3
    <2>2. memory \in [Addresses -> { Before, Zero } \cup Nat]
      BY <1>3
    <2>3. /\ i \in 1 .. Len(file.segments) + 1
          /\ top \in 0 .. AddressSpace - 1 /\ events \in 0 .. MaxEvents
      BY <1>2, <1>3
    <2> QED
      BY <1>1, <1>3, <2>1, <2>2, <2>3 DEF TypeOK
  <1>5. Past = {}
    BY <1>1, <1>3, SegmentIs DEF Past, Loaded
  <1>6. ForeignMemoryIntact
    BY <1>3 DEF ForeignMemoryIntact
  <1> QED
    BY <1>3, <1>4, <1>5, <1>6 DEF LoadIInv, Progressed, Allocated, Written, Topped

(* The facts about a state that every step starts from.                      *)
LEMMA LoadFacts ==
  ASSUME LoadIInv
  PROVE  /\ file \in Elves /\ Len(file.segments) \in Nat
         /\ i \in 1 .. Len(file.segments) + 1
         /\ Past = { j \in 1 .. Len(file.segments) : file.segments[j].load /\ j < i }
         /\ pc \in { "allocate", "read", "zero" } =>
              /\ i \in 1 .. Len(file.segments) /\ segment.load
              /\ segment \in Segment /\ segment.filesz \in Nat /\ segment.memsz \in Nat
              /\ segment.filesz <= segment.memsz /\ segment.offset \in Nat
              /\ LoadAddr = Base(segment) /\ LoadAddr \in Nat
              /\ SegmentPages = PagesOf(segment)
  <1>1. file \in Elves /\ i \in 1 .. Len(file.segments) + 1
    BY DEF LoadIInv, TypeOK
  <1>2. Past = { j \in 1 .. Len(file.segments) : file.segments[j].load /\ j < i }
    BY <1>1, SegmentIs DEF Past, Loaded
  <1>3. ASSUME pc \in { "allocate", "read", "zero" }
        PROVE  i \in 1 .. Len(file.segments) /\ segment.load
    BY <1>1, <1>3, SegmentIs DEF LoadIInv, Progressed, Loaded, segment
  <1>4. ASSUME pc \in { "allocate", "read", "zero" }
        PROVE  /\ segment \in Segment /\ segment.filesz \in Nat /\ segment.memsz \in Nat
               /\ segment.filesz <= segment.memsz /\ segment.offset \in Nat
               /\ Base(segment) \in Nat
    BY <1>1, <1>3, <1>4, SegmentIs DEF segment
  <1>5. LoadAddr = Base(segment) /\ SegmentPages = PagesOf(segment)
    BY DEF LoadAddr, Base, SegmentPages, PagesOf
  <1> QED
    BY <1>1, <1>2, <1>3, <1>4, <1>5, SegmentIs

(* A step that writes nothing and allocates nothing.                         *)
LEMMA QuietStep ==
  ASSUME LoadIInv, UNCHANGED <<file, owner, memory>>, Past' = Past
  PROVE  /\ (\A j \in Past : Held(file.segments[j]) /\ InPlace(file.segments[j]))'
         /\ ForeignMemoryIntact'
  <1>1. \A j \in Past : Held(file.segments[j]) /\ InPlace(file.segments[j])
    BY DEF LoadIInv, Allocated, Written
  <1>2. (\A j \in Past : Held(file.segments[j]) /\ InPlace(file.segments[j]))'
    BY <1>1, SegmentsStay
  <1>3. ForeignMemoryIntact'
    BY DEF LoadIInv, ForeignMemoryIntact
  <1> QED
    BY <1>2, <1>3

LEMMA ReadHeaderStep == LoadIInv /\ ReadHeader => LoadIInv'
  <1> SUFFICES ASSUME LoadIInv, ReadHeader PROVE LoadIInv'
    OBVIOUS
  <1>1. TypeOK'
    BY DEF LoadIInv, TypeOK, ReadHeader, Fail
  <1>2. Past' = Past /\ Past = {}
    BY LoadFacts DEF ReadHeader, Past, Loaded, LoadIInv, Progressed
  <1>3. Progressed'
    BY DEF LoadIInv, Progressed, ReadHeader, Fail
  <1>4. Allocated' /\ Written' /\ ForeignMemoryIntact'
    BY <1>2, QuietStep DEF Allocated, Written, ReadHeader, Fail
  <1>5. Topped'
    BY <1>2 DEF LoadIInv, Progressed, Topped, IsTop, Ends, ReadHeader, Fail
  <1> QED
    BY <1>1, <1>3, <1>4, <1>5 DEF LoadIInv

LEMMA ReadPhdrStep == LoadIInv /\ ReadPhdr => LoadIInv'
  <1> SUFFICES ASSUME LoadIInv, ReadPhdr PROVE LoadIInv'
    OBVIOUS
  <1>0. /\ file \in Elves /\ Len(file.segments) \in Nat /\ i \in 1 .. Len(file.segments)
        /\ segment \in Segment /\ LoadAddr \in Nat /\ segment.memsz \in Nat
        /\ AddressSpace \in Nat \ {0} /\ top \in 0 .. AddressSpace - 1
        /\ LoadAddr = Base(segment) /\ EndOf(segment) \in Nat
        /\ DOMAIN file.segments = 1 .. Len(file.segments)
        /\ Past = { j \in 1 .. Len(file.segments) : file.segments[j].load /\ j < i }
    <2>1. file \in Elves /\ Len(file.segments) \in Nat /\ i \in 1 .. Len(file.segments)
          /\ DOMAIN file.segments = 1 .. Len(file.segments)
      BY LoadFacts, SegmentIs DEF ReadPhdr
    <2>2. segment \in Segment /\ Base(segment) \in Nat /\ segment.memsz \in Nat
      BY <2>1, SegmentIs DEF segment
    <2>3. LoadAddr = Base(segment) /\ EndOf(segment) = Base(segment) + segment.memsz
      BY DEF LoadAddr, Base, EndOf
    <2>4. AddressSpace \in Nat \ {0} /\ top \in 0 .. AddressSpace - 1
      BY KernelAddressAssumption DEF LoadIInv, TypeOK
    <2> QED
      BY <2>1, <2>2, <2>3, <2>4, LoadFacts
  <1>1. CASE ~segment.load /\ i' = i + 1 /\ UNCHANGED <<pc, top, status, message>>
    <2>0. pc = "phdr" /\ UNCHANGED <<file, owner, memory, events, pc, top, status, message>>
      BY <1>1 DEF ReadPhdr
    <2>1. TypeOK'
      BY <1>0, <1>1, <2>0 DEF LoadIInv, TypeOK
    <2>2. Past' = Past
      BY <1>0, <1>1, <2>0 DEF Past, Loaded, segment
    <2>3. Progressed'
      BY <1>1, <2>0 DEF LoadIInv, Progressed
    <2>4. Allocated' /\ Written' /\ ForeignMemoryIntact'
      BY <2>0, <2>2, QuietStep DEF Allocated, Written
    <2>5. Topped'
      BY <1>1, <2>0, <2>2 DEF LoadIInv, Topped, IsTop, Ends, EndOf, Base
    <2> QED
      BY <2>1, <2>3, <2>4, <2>5 DEF LoadIInv
  <1>2. CASE /\ segment.load /\ top' = NewTop((LoadAddr + segment.memsz) % AddressSpace)
             /\ pc' = "allocate" /\ UNCHANGED <<i, status, message>>
    <2>0. pc = "phdr" /\ UNCHANGED <<file, owner, memory, events, i, status, message>>
      BY <1>2 DEF ReadPhdr
    <2>1. TypeOK'
      <3>1. top' \in 0 .. AddressSpace - 1
        BY <1>0, <1>2 DEF NewTop
      <3> QED
        BY <1>0, <1>2, <2>0, <3>1 DEF LoadIInv, TypeOK
    <2>2. Past' = Past
      BY <2>0 DEF Past, Loaded
    <2>3. Progressed'
      BY <1>0, <1>2, <2>0 DEF LoadIInv, Progressed, Loaded, segment
    <2>4. Allocated' /\ Written' /\ ForeignMemoryIntact'
      BY <1>2, <2>0, <2>2, QuietStep DEF Allocated, Written
    <2>5. Topped'
      <3>1. IsTop(top, Past) /\ top \in Ends(Past)
        BY <2>0 DEF LoadIInv, Topped, IsTop
      <3>2. top' = IF EndOf(segment) % AddressSpace > top
                     THEN EndOf(segment) % AddressSpace ELSE top
        BY <1>0, <1>2 DEF NewTop, EndOf
      <3>3. segment' = segment
        BY <2>0 DEF segment
      <3> QED
        BY <1>2, <2>0, <2>2, <3>1, <3>2, <3>3 DEF Topped, IsTop, Ends, EndOf, Base
    <2> QED
      BY <2>1, <2>3, <2>4, <2>5 DEF LoadIInv
  <1>3. CASE Fail /\ UNCHANGED <<i, top>>
    <2>0. pc = "phdr" /\ UNCHANGED <<file, owner, memory, events, i, top>>
          /\ pc' = "returned" /\ status' = "error" /\ message' = "phdr"
      BY <1>3 DEF ReadPhdr, Fail
    <2>1. TypeOK'
      BY <1>0, <2>0 DEF LoadIInv, TypeOK
    <2>2. Past' = Past
      BY <2>0 DEF Past, Loaded
    <2>3. Progressed' /\ Topped'
      BY <2>0 DEF Progressed, Topped
    <2>4. Allocated' /\ Written' /\ ForeignMemoryIntact'
      BY <2>0, <2>2, QuietStep DEF Allocated, Written
    <2> QED
      BY <2>1, <2>3, <2>4 DEF LoadIInv
  <1> QED
    BY <1>1, <1>2, <1>3 DEF ReadPhdr

LEMMA FinishStep == LoadIInv /\ Finish => LoadIInv'
  <1> SUFFICES ASSUME LoadIInv, Finish PROVE LoadIInv'
    OBVIOUS
  <1>0. pc = "phdr" /\ pc' = "returned" /\ i > Len(file.segments)
        /\ UNCHANGED <<file, i, top, owner, memory, status, message, events>>
    BY DEF Finish
  <1>1. TypeOK'
    BY <1>0 DEF LoadIInv, TypeOK
  <1>2. Past' = Past
    BY <1>0 DEF Past, Loaded
  <1>3. Progressed'
    BY <1>0, LoadFacts DEF Progressed
  <1>4. Allocated' /\ Written' /\ ForeignMemoryIntact'
    BY <1>0, <1>2, QuietStep DEF Allocated, Written
  <1>5. Topped'
    BY <1>0, <1>2 DEF LoadIInv, Topped, IsTop, Ends, EndOf, Base
  <1> QED
    BY <1>1, <1>3, <1>4, <1>5 DEF LoadIInv

(* Every address is on a page.                                               *)
LEMMA PageOfAddress ==
  ASSUME NEW a \in Addresses
  PROVE  a \div PageSize \in Pages
  <1> DEFINE P == PageSize
             x == a \div P
  <1>1. P \in Nat \ {0} /\ MemorySize \in Nat
    BY ElfLoaderAssumption
  <1> HIDE DEF P
  <1>2. MemorySize * P \in Nat /\ a \in 0 .. MemorySize * P - 1
    BY <1>1, Multiples DEF Addresses, P
  <1>3. x \in Nat /\ x * P <= a
    BY <1>1, <1>2, Division
  <1> HIDE DEF x
  <1>4. x * P \in Nat /\ x * P < MemorySize * P
    BY <1>1, <1>2, <1>3, Multiples
  <1>5. x < MemorySize
    BY <1>1, <1>3, <1>4, Multiples
  <1> QED
    BY <1>1, <1>3, <1>5 DEF Pages, x, P

(* Allocating pages leaves the kernel's with the kernel.                     *)
LEMMA AllocationStep ==
  ASSUME LoadIInv, UNCHANGED <<file, memory>>, Past' = Past,
         \A p \in Pages : owner[p] = "kernel" => owner'[p] = "kernel"
  PROVE  /\ (\A j \in Past : Held(file.segments[j]) /\ InPlace(file.segments[j]))'
         /\ ForeignMemoryIntact'
  <1>1. \A j \in Past : Held(file.segments[j]) /\ InPlace(file.segments[j])
    BY DEF LoadIInv, Allocated, Written
  <1>2. (\A j \in Past : Held(file.segments[j]) /\ InPlace(file.segments[j]))'
    BY <1>1, SegmentsStay
  <1>3. ForeignMemoryIntact'
    BY PageOfAddress DEF LoadIInv, ForeignMemoryIntact
  <1> QED
    BY <1>2, <1>3

LEMMA AllocatePagesStep == LoadIInv /\ AllocatePages => LoadIInv'
  <1> SUFFICES ASSUME LoadIInv, AllocatePages PROVE LoadIInv'
    OBVIOUS
  <1>0. /\ pc = "allocate" /\ UNCHANGED <<file, i, top, memory, events>>
        /\ i \in 1 .. Len(file.segments) /\ segment.load /\ segment \in Segment
        /\ LoadAddr = Base(segment) /\ SegmentPages = PagesOf(segment)
    BY LoadFacts DEF AllocatePages
  <1>1. Past' = Past /\ segment' = segment
    BY <1>0 DEF Past, Loaded, segment
  <1>2. CASE /\ MayAllocate
             /\ owner' = [p \in Pages |-> IF p \in SegmentPages THEN "kernel" ELSE owner[p]]
             /\ pc' = "read" /\ UNCHANGED <<status, message>>
    <2>1. /\ segment.memsz > 0 /\ Base(segment) % PageSize = 0
          /\ \A p \in PagesOf(segment) : p \in Pages /\ owner[p] = "free"
      BY <1>0, <1>2 DEF MayAllocate
    <2>2. TypeOK'
      <3>1. owner' \in [Pages -> { "free", "firmware", "kernel" }]
        BY <1>2 DEF LoadIInv, TypeOK
      <3> QED
        BY <1>0, <1>2, <3>1 DEF LoadIInv, TypeOK
    <2>3. Progressed'
      BY <1>0, <1>2 DEF LoadIInv, Progressed, Loaded
    <2>4. \A p \in Pages : owner[p] = "kernel" => owner'[p] = "kernel"
      BY <1>2
    <2>5. /\ (\A j \in Past : Held(file.segments[j]) /\ InPlace(file.segments[j]))'
          /\ ForeignMemoryIntact'
      BY <1>0, <1>1, <2>4, AllocationStep
    <2>6. Held(segment)'
      <3>1. PICK s : s = segment
        OBVIOUS
      <3>2. Held(s)'
        BY <1>0, <1>2, <2>1, <3>1 DEF Held, PagesOf, Base, Pages
      <3> QED
        BY <1>1, <3>1, <3>2 DEF Held, PagesOf, Base
    <2>7. (\A j \in Past : PagesOf(file.segments[j]) \cap PagesOf(segment) = {})'
      <3>1. \A j \in Past : PagesOf(file.segments[j]) \cap PagesOf(segment) = {}
        BY <2>1 DEF LoadIInv, Allocated, Held
      <3> QED
        BY <1>0, <1>1, <3>1 DEF PagesOf, Base
    <2>8. Topped'
      <3>1. EndOf(segment) % AddressSpace = EndOf(segment) /\ EndOf(segment) \in Nat
        <4>1. EndOf(segment) \in 1 .. AddressSpace - 1
          BY <1>0, <2>1, PagesHoldBytes
        <4>2. \A e \in 1 .. AddressSpace - 1 : e % AddressSpace = e
          BY KernelAddressAssumption
        <4> QED
          BY <4>1, <4>2, KernelAddressAssumption
      <3>2. PICK t \in Ends(Past) :
              /\ IsTop(t, Past)
              /\ top = IF EndOf(segment) % AddressSpace > t
                         THEN EndOf(segment) % AddressSpace ELSE t
        BY <1>0 DEF LoadIInv, Topped
      <3>3. t \in Nat
        <4>1. \A j \in Past : EndOf(file.segments[j]) \in Nat
          BY LoadFacts, SegmentIs DEF EndOf
        <4> QED
          BY <3>2, <4>1 DEF Ends
      <3>4. IsTop(top, Past \cup { i })
        <4>1. \A j \in Past : EndOf(file.segments[j]) \in Nat /\ EndOf(file.segments[j]) <= t
          BY <3>2, LoadFacts, SegmentIs DEF EndOf, IsTop
        <4>2. EndOf(file.segments[i]) = EndOf(segment)
          BY DEF segment
        <4>3. top \in Ends(Past \cup { i })
          BY <3>1, <3>2, <4>2 DEF Ends
        <4>4. \A j \in Past \cup { i } : EndOf(file.segments[j]) <= top
          BY <3>1, <3>2, <3>3, <4>1, <4>2
        <4> QED
          BY <4>3, <4>4 DEF IsTop
      <3> QED
        BY <1>0, <1>1, <1>2, <3>4 DEF Topped, IsTop, Ends, EndOf, Base
    <2> QED
      BY <1>2, <2>2, <2>3, <2>5, <2>6, <2>7, <2>8 DEF LoadIInv, Allocated, Written
  <1>3. CASE ~MayAllocate /\ Fail /\ UNCHANGED owner
    <2>0. pc' = "returned" /\ status' = "error" /\ message' = "allocate" /\ owner' = owner
      BY <1>0, <1>3 DEF Fail
    <2>1. TypeOK'
      BY <1>0, <2>0 DEF LoadIInv, TypeOK
    <2>2. Progressed' /\ Topped'
      BY <2>0 DEF Progressed, Topped
    <2>3. Allocated' /\ Written' /\ ForeignMemoryIntact'
      BY <1>0, <1>1, <2>0, QuietStep DEF Allocated, Written
    <2> QED
      BY <2>1, <2>2, <2>3 DEF LoadIInv
  <1> QED
    BY <1>2, <1>3 DEF AllocatePages

LEMMA FirmwareStep == LoadIInv /\ (\E p \in Pages : FirmwareTakes(p)) => LoadIInv'
  <1> SUFFICES ASSUME LoadIInv, NEW q \in Pages, FirmwareTakes(q) PROVE LoadIInv'
    OBVIOUS
  <1>0. /\ owner[q] = "free" /\ owner' = [owner EXCEPT ![q] = "firmware"]
        /\ UNCHANGED <<file, pc, i, top, memory, status, message>>
        /\ events' = events + 1 /\ events < MaxEvents
    BY DEF FirmwareTakes
  <1>1. Past' = Past /\ segment' = segment
    BY <1>0 DEF Past, Loaded, segment
  <1>2. owner \in [Pages -> { "free", "firmware", "kernel" }] /\ events \in 0 .. MaxEvents
        /\ MaxEvents \in Nat
    BY ElfLoaderAssumption DEF LoadIInv, TypeOK
  <1>3. TypeOK'
    <2>1. owner' \in [Pages -> { "free", "firmware", "kernel" }]
      BY <1>0, <1>2
    <2>2. events' \in 0 .. MaxEvents
      BY <1>0, <1>2
    <2> QED
      BY <1>0, <2>1, <2>2 DEF LoadIInv, TypeOK
  <1>4. \A p \in Pages : owner[p] = "kernel" => owner'[p] = "kernel"
    BY <1>0, <1>2
  <1>5. /\ (\A j \in Past : Held(file.segments[j]) /\ InPlace(file.segments[j]))'
        /\ ForeignMemoryIntact'
    BY <1>0, <1>1, <1>4, AllocationStep
  <1>6. pc \in { "read", "zero" } => Held(segment)'
    <2>1. PICK s : s = segment
      OBVIOUS
    <2>2. pc \in { "read", "zero" } => Held(s)'
      BY <1>4, <2>1, HeldStays DEF LoadIInv, Allocated
    <2> QED
      BY <1>1, <2>1, <2>2 DEF Held, PagesOf, Base
  <1>7. Allocated'
    BY <1>0, <1>1, <1>5, <1>6 DEF LoadIInv, Allocated, PagesOf, Base
  <1>8. Written'
    BY <1>0, <1>1, <1>5 DEF LoadIInv, Written, LoadAddr
  <1>9. Topped'
    BY <1>0, <1>1 DEF LoadIInv, Topped, IsTop, Ends, EndOf, Base
  <1>10. Progressed'
    BY <1>0 DEF LoadIInv, Progressed, Loaded
  <1> QED
    BY <1>3, <1>5, <1>7, <1>8, <1>9, <1>10 DEF LoadIInv

(* What is written to the pages of a segment touches none of the segments    *)
(* before it, nor anybody else's memory.                                     *)
LEMMA WritingStep ==
  ASSUME LoadIInv, pc \in { "read", "zero" }, UNCHANGED <<file, owner>>,
         \A a \in Addresses : a \notin Base(segment) .. EndOf(segment) - 1 =>
                              memory'[a] = memory[a]
  PROVE  /\ \A j \in Past : Held(file.segments[j])' /\ InPlace(file.segments[j])'
         /\ ForeignMemoryIntact'
  <1>0. /\ Held(segment) /\ segment \in Segment
        /\ \A j \in Past : PagesOf(file.segments[j]) \cap PagesOf(segment) = {}
    BY LoadFacts DEF LoadIInv, Allocated
  <1>1. \A a \in Base(segment) .. EndOf(segment) - 1 :
          a \in Addresses /\ a \div PageSize \in PagesOf(segment)
    BY <1>0, PagesHoldBytes DEF Held
  <1>2. ASSUME NEW j \in Past
        PROVE  Held(file.segments[j])' /\ InPlace(file.segments[j])'
    <2>1. PICK s : s = file.segments[j] /\ s = file'.segments[j]
      OBVIOUS
    <2>2. Held(s) /\ InPlace(s) /\ s \in Segment /\ Base(s) \in Nat /\ s.memsz \in Nat
      BY <2>1, LoadFacts, SegmentIs DEF LoadIInv, Allocated, Written
    <2>3. Held(s)'
      BY <2>2, HeldStays
    <2>4. ASSUME NEW k \in 0 .. s.memsz - 1
          PROVE  memory'[Base(s) + k] = memory[Base(s) + k]
      <3> DEFINE a == Base(s) + k
      <3>1. a \in Base(s) .. EndOf(s) - 1
        BY <2>2 DEF EndOf
      <3>2. a \in Addresses /\ a \div PageSize \in PagesOf(s)
        BY <2>2, <3>1, PagesHoldBytes DEF Held
      <3> HIDE DEF a
      <3>3. a \notin Base(segment) .. EndOf(segment) - 1
        BY <1>0, <1>1, <2>1, <3>2
      <3>4. memory'[a] = memory[a]
        BY <3>2, <3>3
      <3> QED
        BY <3>4 DEF a
    <2>5. InPlace(s)'
      BY <2>2, <2>4 DEF InPlace, Base
    <2> QED
      BY <2>1, <2>3, <2>5 DEF Held, InPlace, PagesOf, Base
  <1>3. ASSUME NEW a \in Addresses, memory'[a] # Before
        PROVE  owner[a \div PageSize] = "kernel"
    <2>1. CASE a \in Base(segment) .. EndOf(segment) - 1
      BY <1>0, <1>1, <2>1 DEF Held
    <2>2. CASE a \notin Base(segment) .. EndOf(segment) - 1
      BY <1>3, <2>2 DEF LoadIInv, ForeignMemoryIntact
    <2> QED
      BY <2>1, <2>2
  <1>4. ForeignMemoryIntact'
    BY <1>3 DEF ForeignMemoryIntact
  <1> QED
    BY <1>2, <1>4

LEMMA ReadSegmentStep == LoadIInv /\ ReadSegment => LoadIInv'
  <1> SUFFICES ASSUME LoadIInv, ReadSegment PROVE LoadIInv'
    OBVIOUS
  <1>0. /\ pc = "read" /\ UNCHANGED <<file, i, top, owner, events>>
        /\ i \in 1 .. Len(file.segments) /\ segment.load /\ segment \in Segment
        /\ segment.filesz \in Nat /\ segment.memsz \in Nat /\ segment.filesz <= segment.memsz
        /\ segment.offset \in Nat /\ Base(segment) \in Nat
        /\ LoadAddr = Base(segment) /\ EndOf(segment) = Base(segment) + segment.memsz
        /\ file.length \in Nat
    BY LoadFacts, ElfLoaderAssumption DEF ReadSegment, EndOf
  <1>1. Past' = Past /\ segment' = segment
    BY <1>0 DEF Past, Loaded, segment
  <1> DEFINE room == Max({ 0, file.length - segment.offset })
             Read(n) == [a \in Addresses |->
                          IF a \in LoadAddr .. LoadAddr + n - 1
                            THEN segment.offset + a - LoadAddr ELSE memory[a]]
  <1>2. PICK n \in 0 .. Min({ segment.filesz, room }) :
          /\ memory' = Read(n)
          /\ \/ n = segment.filesz /\ pc' = "zero" /\ UNCHANGED <<status, message>>
             \/ Fail
    BY DEF ReadSegment
  <1>3. n \in Nat /\ n <= segment.filesz
    <2>1. \A a, b \in Int : /\ Max({ a, b }) \in { a, b }
                            /\ Min({ a, b }) \in { a, b } /\ Min({ a, b }) <= a
      BY TwoNumbers
    <2>2. 0 \in Int /\ file.length - segment.offset \in Int /\ segment.filesz \in Int
      BY <1>0
    <2>3. room \in Int
      BY <2>1, <2>2
    <2> HIDE DEF room
    <2>4. /\ Min({ segment.filesz, room }) <= segment.filesz
          /\ Min({ segment.filesz, room }) \in Int
      BY <2>1, <2>2, <2>3
    <2> QED
      BY <1>0, <2>4
  <1>4. memory' \in [Addresses -> { Before, Zero } \cup Nat]
    <2>1. ASSUME NEW a \in Addresses, a \in LoadAddr .. LoadAddr + n - 1
          PROVE  segment.offset + a - LoadAddr \in Nat
      BY <1>0, <1>3, <2>1
    <2>2. memory \in [Addresses -> { Before, Zero } \cup Nat]
      BY DEF LoadIInv, TypeOK
    <2> QED
      BY <1>2, <2>1, <2>2
  <1>5. \A a \in Addresses :
          a \notin Base(segment) .. EndOf(segment) - 1 => memory'[a] = memory[a]
    BY <1>0, <1>2, <1>3
  <1>6. /\ \A j \in Past : Held(file.segments[j])' /\ InPlace(file.segments[j])'
        /\ ForeignMemoryIntact'
    BY <1>0, <1>1, <1>5, WritingStep
  <1>7. Held(segment)'
    <2>1. PICK s : s = segment
      OBVIOUS
    <2>2. Held(s)'
      BY <1>0, <2>1, HeldStays DEF LoadIInv, Allocated
    <2> QED
      BY <1>1, <2>1, <2>2 DEF Held, PagesOf, Base
  <1>8. Allocated'
    BY <1>0, <1>1, <1>6, <1>7 DEF LoadIInv, Allocated, PagesOf, Base
  <1>9. CASE n = segment.filesz /\ pc' = "zero" /\ UNCHANGED <<status, message>>
    <2>1. TypeOK'
      BY <1>0, <1>4, <1>9 DEF LoadIInv, TypeOK
    <2>2. Progressed'
      BY <1>0, <1>9 DEF LoadIInv, Progressed, Loaded
    <2>3. \A k \in 0 .. segment.filesz - 1 : memory'[LoadAddr + k] = segment.offset + k
      <3>1. ASSUME NEW k \in 0 .. segment.filesz - 1
            PROVE  memory'[LoadAddr + k] = segment.offset + k
        <4> DEFINE a == LoadAddr + k
        <4>1. /\ a \in Base(segment) .. EndOf(segment) - 1
              /\ a \in LoadAddr .. LoadAddr + n - 1
              /\ segment.offset + a - LoadAddr = segment.offset + k
          BY <1>0, <1>9
        <4>2. a \in Addresses
          BY <1>0, <4>1, PagesHoldBytes DEF LoadIInv, Allocated, Held
        <4> HIDE DEF a
        <4>3. memory'[a] = segment.offset + k
          BY <1>2, <4>1, <4>2
        <4> QED
          BY <4>3 DEF a
      <3> QED
        BY <3>1
    <2>4. Written'
      BY <1>0, <1>1, <1>6, <2>3 DEF Written, LoadAddr
    <2>5. Topped'
      BY <1>0, <1>1, <1>9 DEF LoadIInv, Topped, IsTop, Ends, EndOf, Base
    <2> QED
      BY <1>6, <1>8, <2>1, <2>2, <2>4, <2>5 DEF LoadIInv
  <1>10. CASE Fail
    <2>0. pc' = "returned" /\ status' = "error" /\ message' = "read"
      BY <1>0, <1>10 DEF Fail
    <2>1. TypeOK'
      BY <1>0, <1>4, <2>0 DEF LoadIInv, TypeOK
    <2>2. Progressed' /\ Topped'
      BY <2>0 DEF Progressed, Topped
    <2>3. Written'
      BY <1>1, <1>6, <2>0 DEF Written
    <2> QED
      BY <1>6, <1>8, <2>1, <2>2, <2>3 DEF LoadIInv
  <1> QED
    BY <1>2, <1>9, <1>10

LEMMA ZeroRestStep == LoadIInv /\ ZeroRest => LoadIInv'
  <1> SUFFICES ASSUME LoadIInv, ZeroRest PROVE LoadIInv'
    OBVIOUS
  <1>0. /\ pc = "zero" /\ pc' = "phdr" /\ i' = i + 1
        /\ UNCHANGED <<file, top, owner, status, message, events>>
        /\ i \in 1 .. Len(file.segments) /\ Len(file.segments) \in Nat
        /\ segment.load /\ segment \in Segment
        /\ segment.filesz \in Nat /\ segment.memsz \in Nat /\ segment.filesz <= segment.memsz
        /\ segment.offset \in Nat /\ Base(segment) \in Nat
        /\ LoadAddr = Base(segment) /\ EndOf(segment) = Base(segment) + segment.memsz
        /\ memory' = [a \in Addresses |-> IF a \in Cleared THEN Zero ELSE memory[a]]
        /\ DOMAIN file.segments = 1 .. Len(file.segments)
    BY LoadFacts, SegmentIs DEF ZeroRest, EndOf
  <1>1. Past' = Past \cup { i } /\ i \notin Past
    BY <1>0 DEF Past, Loaded, segment
  <1>2. TypeOK'
    <2>1. memory' \in [Addresses -> { Before, Zero } \cup Nat]
      BY <1>0 DEF LoadIInv, TypeOK
    <2> QED
      BY <1>0, <2>1 DEF LoadIInv, TypeOK
  <1>3. Progressed'
    BY <1>0 DEF LoadIInv, Progressed
  <1>4. \A a \in Addresses :
          a \notin Base(segment) .. EndOf(segment) - 1 => memory'[a] = memory[a]
    BY <1>0 DEF Cleared
  <1>5. /\ \A j \in Past : Held(file.segments[j])' /\ InPlace(file.segments[j])'
        /\ ForeignMemoryIntact'
    BY <1>0, <1>4, WritingStep
  <1>6. ASSUME NEW j \in { i } PROVE Held(file.segments[j])' /\ InPlace(file.segments[j])'
    <2>1. PICK s : s = segment /\ s = file'.segments[j]
      BY <1>0 DEF segment
    <2>2. Held(s)'
      BY <1>0, <2>1, HeldStays DEF LoadIInv, Allocated
    <2>3. ASSUME NEW k \in 0 .. s.memsz - 1
          PROVE  memory'[Base(s) + k] = IF k < s.filesz THEN s.offset + k ELSE Zero
      <3> DEFINE a == Base(s) + k
      <3>1. a \in Base(s) .. EndOf(s) - 1 /\ k \in Nat
        BY <1>0, <2>1
      <3>2. a \in Addresses
        BY <1>0, <2>1, <3>1, PagesHoldBytes DEF LoadIInv, Allocated, Held
      <3>3. a \in Cleared <=> ~(k < s.filesz)
        BY <1>0, <2>1, <3>1 DEF Cleared
      <3>4. k < s.filesz => memory[a] = s.offset + k
        BY <1>0, <2>1, <3>1 DEF LoadIInv, Written
      <3> HIDE DEF a
      <3>5. memory'[a] = IF k < s.filesz THEN s.offset + k ELSE Zero
        BY <1>0, <3>2, <3>3, <3>4
      <3> QED
        BY <3>5 DEF a
    <2>4. InPlace(s)'
      BY <2>3 DEF InPlace, Base
    <2> QED
      BY <2>1, <2>2, <2>4 DEF Held, InPlace, PagesOf, Base
  <1>7. Allocated' /\ Written'
    BY <1>0, <1>1, <1>5, <1>6 DEF Allocated, Written
  <1>8. Topped'
    BY <1>0, <1>1 DEF LoadIInv, Topped, IsTop, Ends, EndOf, Base
  <1> QED
    BY <1>2, <1>3, <1>5, <1>7, <1>8 DEF LoadIInv

LEMMA LoadStep == LoadIInv /\ (Step \/ UNCHANGED vars) => LoadIInv'
  <1>1. ASSUME LoadIInv, UNCHANGED vars PROVE LoadIInv'
    <2>0. UNCHANGED <<file, pc, i, top, owner, memory, status, message, events>>
      BY <1>1 DEF vars
    <2>1. Past' = Past /\ segment' = segment
      BY <2>0 DEF Past, Loaded, segment
    <2>2. TypeOK' /\ Progressed'
      BY <1>1, <2>0 DEF LoadIInv, TypeOK, Progressed, Loaded
    <2>3. (\A j \in Past : Held(file.segments[j]) /\ InPlace(file.segments[j]))'
          /\ ForeignMemoryIntact'
      BY <1>1, <2>0, <2>1, QuietStep
    <2>4. pc \in { "read", "zero" } => Held(segment)'
      <3>1. PICK s : s = segment
        OBVIOUS
      <3>2. pc \in { "read", "zero" } => Held(s)'
        BY <1>1, <2>0, <3>1, HeldStays DEF LoadIInv, Allocated
      <3> QED
        BY <2>1, <3>1, <3>2 DEF Held, PagesOf, Base
    <2>5. Allocated'
      BY <1>1, <2>0, <2>1, <2>3, <2>4 DEF LoadIInv, Allocated, PagesOf, Base
    <2>6. Written'
      BY <1>1, <2>0, <2>1, <2>3 DEF LoadIInv, Written, LoadAddr
    <2>7. Topped'
      BY <1>1, <2>0, <2>1 DEF LoadIInv, Topped, IsTop, Ends, EndOf, Base
    <2> QED
      BY <2>2, <2>3, <2>5, <2>6, <2>7 DEF LoadIInv
  <1> QED
    BY <1>1, ReadHeaderStep, ReadPhdrStep, AllocatePagesStep, ReadSegmentStep, ZeroRestStep,
       FinishStep DEF Step

-----------------------------------------------------------------------------
LEMMA SearchIsOver == step = "returned" => ~Section!Next
  BY DEF Section!Next, Section!ReadHeader, Section!AllocateNames, Section!ReadNames,
     Section!ReadSection, Section!SearchEnds, Section!AllocateBuffer, Section!ReadBuffer,
     Section!SetOutputs, Section!FreeNames

(* Every step of the two halves preserves what is known of both.            *)
THEOREM FileInvariance == FileSpec => []FileIInv
  <1>1. FileInit => FileIInv
    <2>1. FileInit => Ordered
      BY DEF FileInit, Init, Ordered
    <2> QED
      BY <2>1, SectionInit, LoadInit DEF FileIInv
  <1>2. FileIInv /\ [FileNext]_fileVars => FileIInv'
    <2> SUFFICES ASSUME FileIInv, [FileNext]_fileVars PROVE FileIInv'
      OBVIOUS
    <2>1. ASSUME UNCHANGED section PROVE SectionIInv' /\ HeaderFound' = HeaderFound
      BY <2>1 DEF section, FileIInv, SectionIInv, Section!TypeOK, Searched, Handed, First,
         HeaderFound
    <2>2. CASE FindHeader
      <3>1. SectionIInv'
        BY <2>2, SectionStep DEF FindHeader, FileIInv
      <3>2. LoadIInv'
        BY <2>2, LoadStep DEF FindHeader, FileIInv
      <3>3. ~HeaderFound
        BY <2>2, SearchIsOver DEF FindHeader, HeaderFound
      <3>4. Ordered'
        BY <2>2, <3>3 DEF FindHeader, FileIInv, Ordered, vars
      <3> QED
        BY <3>1, <3>2, <3>4 DEF FileIInv
    <2>3. CASE LoadImage
      BY <2>1, <2>3, LoadStep DEF LoadImage, FileIInv, Ordered
    <2>4. CASE FirmwareEvent
      <3>1. pc' = pc
        BY <2>4 DEF FirmwareEvent, FirmwareTakes
      <3> QED
        BY <2>1, <2>4, <3>1, FirmwareStep DEF FirmwareEvent, FileIInv, Ordered
    <2>5. CASE UNCHANGED fileVars
      BY <2>1, <2>5, LoadStep DEF fileVars, FileIInv, Ordered, vars
    <2> QED
      BY <2>2, <2>3, <2>4, <2>5 DEF FileNext
  <1> QED
    BY <1>1, <1>2, PTL DEF FileSpec

(* Every variable has the values it is declared for.                         *)
THEOREM FileTypeCorrect == FileSpec => []FileTypeOK
  <1>1. FileIInv => FileTypeOK
    BY DEF FileIInv, SectionIInv, LoadIInv, FileTypeOK
  <1> QED
    BY <1>1, FileInvariance, PTL

(* No segment is loaded before the Origami header is found, and what is       *)
(* taken for it is the first section of its name, of the header's size; a     *)
(* search that fails leaves the caller's pointer alone and keeps no table.    *)
THEOREM TheHeaderIsFound == FileSpec => []HeaderIsFound
  <1>1. FileIInv => HeaderIsFound
    <2> SUFFICES ASSUME FileIInv PROVE HeaderIsFound
      OBVIOUS
    <2>0. /\ Searched /\ Handed /\ Ordered
          /\ header \in [buffer : 0 .. Len(table.sections), size : Nat]
          /\ Len(table.sections) \in Nat
      BY TableIs DEF FileIInv, SectionIInv, Section!TypeOK
    <2>1. Section!SectionIsTheFirst
      BY <2>0 DEF Section!SectionIsTheFirst, Section!Null, Handed, First
    <2>2. Section!CallerKeepsItsPointer
      BY <2>0 DEF Section!CallerKeepsItsPointer, Section!Null, Handed
    <2>3. Section!NamesFreed
      BY <2>0 DEF Section!NamesFreed, Handed
    <2>4. pc # "header" => table.sections[header.buffer].size = HeaderSize
      BY <2>0 DEF Handed, Ordered, HeaderFound
    <2> QED
      BY <2>1, <2>2, <2>3, <2>4 DEF HeaderIsFound
  <1> QED
    BY <1>1, FileInvariance, PTL

(* A load that succeeds has every segment in memory and Info->Top at the end  *)
(* of the highest, whatever the firmware allocated in between.                *)
THEOREM TheImageIsLoaded == FileSpec => []ImageIsLoaded
  <1>1. FileIInv => ImageIsLoaded
    <2> SUFFICES ASSUME FileIInv, pc = "returned", status = "success"
                 PROVE  /\ \A j \in Loaded : InPlace(file.segments[j])
                        /\ top = Max(Ends(Loaded))
      BY DEF ImageIsLoaded, InPlace, Ends, EndOf, Base
    <2>1. LoadIInv
      BY DEF FileIInv
    <2>2. Past = Loaded
      BY <2>1, LoadFacts, SegmentIs DEF Past, Loaded, LoadIInv, Progressed
    <2>3. \A j \in Loaded : InPlace(file.segments[j])
      BY <2>1, <2>2 DEF LoadIInv, Written
    <2>4. top = Max(Ends(Loaded))
      <3>1. IsTop(top, Loaded)
        BY <2>1, <2>2 DEF LoadIInv, Topped
      <3>2. ASSUME NEW e \in Ends(Loaded) PROVE e \in Nat /\ e <= top
        <4>1. \A j \in Loaded : EndOf(file.segments[j]) \in Nat
          BY <2>1, LoadFacts, SegmentIs DEF Loaded, EndOf
        <4>2. top \in Nat
          BY <3>1, <4>1 DEF IsTop, Ends
        <4> QED
          BY <3>1, <4>1, <4>2 DEF IsTop, Ends
      <3>3. top \in Ends(Loaded)
        BY <3>1 DEF IsTop
      <3> QED
        BY <3>2, <3>3 DEF Max
    <2> QED
      BY <2>3, <2>4
  <1> QED
    BY <1>1, FileInvariance, PTL

(* Whatever fails and whenever, the loader writes to no page it was not given. *)
THEOREM ForeignMemoryIsIntact == FileSpec => []ForeignMemoryIntact
  <1>1. FileIInv => ForeignMemoryIntact
    BY DEF FileIInv, LoadIInv
  <1> QED
    BY <1>1, FileInvariance, PTL

-----------------------------------------------------------------------------
(* What is left of the search for the header, and of the load: a step for   *)
(* every section, four for every segment, and those after each step.        *)
SearchAfter ==
  [header |-> 8, allocateNames |-> 7, readNames |-> 6, section |-> 5, allocate |-> 4,
   read |-> 3, set |-> 2, end |-> 1, returned |-> 0]
LoadAfter ==
  [header |-> 5, phdr |-> 4, allocate |-> 3, read |-> 2, zero |-> 1, returned |-> 0]

SearchLeft == Len(table.sections) - index + SearchAfter[step]
LoadLeft   == 4 * (Len(file.segments) + 1 - i) + LoadAfter[pc]

(* There are never more than these.                                          *)
LEMMA SearchIsFinite ==
  ASSUME FileIInv
  PROVE  SearchLeft \in 0 .. Len(table.sections) + 8
  <1>1. Len(table.sections) \in Nat /\ index \in 0 .. Len(table.sections)
    BY TableIs DEF FileIInv, SectionIInv, Section!TypeOK
  <1>2. SearchAfter[step] \in 0 .. 8
    BY DEF FileIInv, SectionIInv, Section!TypeOK, SearchAfter
  <1>3. ASSUME NEW n \in Nat, NEW a \in 0 .. n, NEW b \in 0 .. 8
        PROVE  n - a + b \in 0 .. n + 8
    OBVIOUS
  <1> QED
    BY <1>1, <1>2, <1>3 DEF SearchLeft

LEMMA LoadIsFinite ==
  ASSUME FileIInv
  PROVE  LoadLeft \in 0 .. 4 * Len(file.segments) + 5
  <1>1. Len(file.segments) + 1 - i \in 0 .. Len(file.segments) /\ Len(file.segments) \in Nat
    BY LoadFacts DEF FileIInv
  <1>2. LoadAfter[pc] \in 0 .. 5
    BY DEF FileIInv, LoadIInv, TypeOK, LoadAfter
  <1>3. ASSUME NEW n \in Nat, NEW a \in 0 .. n, NEW b \in 0 .. 5
        PROVE  4 * a + b \in 0 .. 4 * n + 5
    OBVIOUS
  <1> QED
    BY <1>1, <1>2, <1>3 DEF LoadLeft

(* The search for the header leaves less of it after each step.              *)
LEMMA SearchFalls ==
  ASSUME FileIInv, Section!Next
  PROVE  SearchLeft' < SearchLeft
  <1>1. Len(table.sections) \in Nat /\ index \in 0 .. Len(table.sections)
    BY TableIs DEF FileIInv, SectionIInv, Section!TypeOK
  <1>2. UNCHANGED table
    BY DEF Section!Next, Section!ReadHeader, Section!AllocateNames, Section!ReadNames,
       Section!ReadSection, Section!SearchEnds, Section!AllocateBuffer, Section!ReadBuffer,
       Section!SetOutputs, Section!FreeNames
  <1>3. \/ index' = index /\ SearchAfter[step'] < SearchAfter[step]
        \/ index' = index + 1 /\ SearchAfter[step'] <= SearchAfter[step]
    BY DEF Section!Next, Section!ReadHeader, Section!AllocateNames, Section!ReadNames,
       Section!ReadSection, Section!SearchEnds, Section!AllocateBuffer, Section!ReadBuffer,
       Section!SetOutputs, Section!FreeNames, Section!GoOn, Section!Fail, Section!Read,
       SearchAfter
  <1>4. SearchAfter[step] \in 0 .. 8 /\ SearchAfter[step'] \in 0 .. 8
    BY DEF FileIInv, SectionIInv, Section!TypeOK, SearchAfter,
       Section!Next, Section!ReadHeader, Section!AllocateNames, Section!ReadNames,
       Section!ReadSection, Section!SearchEnds, Section!AllocateBuffer, Section!ReadBuffer,
       Section!SetOutputs, Section!FreeNames, Section!GoOn, Section!Fail, Section!Read
  <1>5. ASSUME NEW n \in Nat, NEW a \in 0 .. n, NEW b \in 0 .. 8, NEW a1, NEW b1 \in 0 .. 8,
               (a1 = a /\ b1 < b) \/ (a1 = a + 1 /\ b1 <= b)
        PROVE  n - a1 + b1 < n - a + b
    BY <1>5
  <1> QED
    BY <1>1, <1>2, <1>3, <1>4, <1>5 DEF SearchLeft

(* And so does the load of the segments.                                     *)
LEMMA LoadFalls ==
  ASSUME FileIInv, Step
  PROVE  LoadLeft' < LoadLeft
  <1>1. Len(file.segments) \in Nat /\ i \in 1 .. Len(file.segments) + 1
    BY LoadFacts DEF FileIInv
  <1>2. UNCHANGED file
    BY DEF Step, ReadHeader, ReadPhdr, AllocatePages, ReadSegment, ZeroRest, Finish
  <1>3. \/ i' = i /\ pc' # pc
           /\ \/ pc' = "returned"
              \/ pc = "header" /\ pc' = "phdr"
              \/ pc = "phdr" /\ pc' = "allocate"
              \/ pc = "allocate" /\ pc' = "read"
              \/ pc = "read" /\ pc' = "zero"
        \/ i' = i + 1 /\ pc' = "phdr" /\ pc \in { "phdr", "zero" }
    BY DEF Step, ReadHeader, ReadPhdr, AllocatePages, ReadSegment, ZeroRest, Finish, Fail
  <1>4. pc \in DOMAIN LoadAfter
    BY DEF FileIInv, LoadIInv, TypeOK, LoadAfter
  <1>5. /\ LoadAfter[pc] \in 0 .. 5 /\ LoadAfter[pc'] \in 0 .. 5
        /\ \/ i' = i /\ LoadAfter[pc'] < LoadAfter[pc]
           \/ i' = i + 1 /\ LoadAfter[pc'] < LoadAfter[pc] + 4
    BY <1>3, <1>4 DEF LoadAfter
  <1>6. ASSUME NEW n \in Nat, NEW a \in 1 .. n + 1, NEW b \in 0 .. 5, NEW a1, NEW b1 \in 0 .. 5,
               (a1 = a /\ b1 < b) \/ (a1 = a + 1 /\ b1 < b + 4)
        PROVE  4 * (n + 1 - a1) + b1 < 4 * (n + 1 - a) + b
    BY <1>6
  <1> QED
    BY <1>1, <1>2, <1>5, <1>6 DEF LoadLeft

(* The search and the load end, each step of either leaving less to do; what *)
(* the firmware takes meanwhile neither shortens nor prolongs them           *)
(* (ElfLoader.c:29-122).                                                     *)
THEOREM FileRunsDown ==
  FileSpec =>
    /\ [](/\ SearchLeft \in 0 .. Len(table.sections) + 8
          /\ LoadLeft \in 0 .. 4 * Len(file.segments) + 5)
    /\ [][/\ FindHeader => SearchLeft' < SearchLeft /\ LoadLeft' = LoadLeft
          /\ LoadImage => LoadLeft' < LoadLeft /\ SearchLeft' = SearchLeft
          /\ FirmwareEvent => UNCHANGED <<SearchLeft, LoadLeft>>]_fileVars
  <1>1. FileIInv /\ [FileNext]_fileVars =>
          [/\ FindHeader => SearchLeft' < SearchLeft /\ LoadLeft' = LoadLeft
           /\ LoadImage => LoadLeft' < LoadLeft /\ SearchLeft' = SearchLeft
           /\ FirmwareEvent => UNCHANGED <<SearchLeft, LoadLeft>>]_fileVars
    <2>1. UNCHANGED vars => LoadLeft' = LoadLeft
      BY DEF vars, LoadLeft
    <2>2. UNCHANGED section => SearchLeft' = SearchLeft
      BY DEF section, SearchLeft
    <2>3. FirmwareEvent => LoadLeft' = LoadLeft
      BY DEF FirmwareEvent, FirmwareTakes, LoadLeft
    <2> QED
      BY <2>1, <2>2, <2>3, SearchFalls, LoadFalls DEF FindHeader, LoadImage, FirmwareEvent
  <1>2. FileIInv =>
          /\ SearchLeft \in 0 .. Len(table.sections) + 8
          /\ LoadLeft \in 0 .. 4 * Len(file.segments) + 5
    BY SearchIsFinite, LoadIsFinite
  <1> QED
    BY <1>1, <1>2, FileInvariance, PTL DEF FileSpec
=============================================================================
