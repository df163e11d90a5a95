------------------------------ MODULE ElfLoader ------------------------------
(***************************************************************************)
(* LoadElf (src/Loader/ElfLoader.c): the segments of the kernel, one after *)
(* the other, into the physical addresses they are linked to, while the    *)
(* events of the firmware go on allocating pages.                          *)
(*                                                                         *)
(* A byte of memory holds the offset of a byte of the file, a zero the     *)
(* loader wrote, or whatever was there before.                             *)
(***************************************************************************)
EXTENDS KernelAddress, Sequences, FiniteSetsExt

CONSTANTS
  PageSize,    \* EFI_PAGE_SIZE
  MemorySize,  \* the number of pages
  Elves,       \* the kernels
  MaxEvents    \* bound: how many pages the firmware takes meanwhile

Before == -2
Zero   == -1

Segment == [load : BOOLEAN, vaddr : 0 .. AddressSpace - 1,
            memsz : Nat, filesz : Nat, offset : Nat]

(* The ELF format asks that a segment have no more bytes in the file than   *)
(* in memory.                                                               *)
ASSUME ElfLoaderAssumption ==
  /\ PageSize \in Nat \ {0} /\ MemorySize \in Nat /\ MaxEvents \in Nat
  /\ MemorySize * PageSize < AddressSpace
  /\ \A f \in Elves : /\ f.valid \in BOOLEAN /\ f.length \in Nat
                      /\ f.segments \in Seq(Segment)
                      /\ \A j \in DOMAIN f.segments :
                            f.segments[j].filesz <= f.segments[j].memsz

Pages     == 0 .. MemorySize - 1
Addresses == 0 .. MemorySize * PageSize - 1

VARIABLES
  file,     \* File
  pc,       \* the next call
  i,        \* the program header being looked at
  top,      \* Info->Top
  owner,    \* whose each page is
  memory,   \* what each byte holds
  status,   \* Status
  message,  \* what failed
  events    \* pages taken by the firmware

vars == <<file, pc, i, top, owner, memory, status, message, events>>

Init ==
  /\ file \in Elves
  /\ pc = "header"
  /\ i = 1
  /\ top = 0
  /\ owner \in [Pages -> { "free", "firmware" }]
  /\ memory = [a \in Addresses |-> Before]
  /\ status = "success"
  /\ message = "none"
  /\ events = 0

-----------------------------------------------------------------------------
segment  == file.segments[i]
LoadAddr == LoadAddress(segment.vaddr)

(* CHECK_STATUS, ASSERT_EXPR: what was allocated stays allocated. *)
Fail ==
  /\ status' = "error"
  /\ message' = pc
  /\ pc' = "returned"

(* The ELF header: it may not be read, and it may not be one. *)
ReadHeader ==
  /\ pc = "header"
  /\ \/ file.valid /\ pc' = "phdr" /\ UNCHANGED <<status, message>>
     \/ Fail
  /\ UNCHANGED <<file, i, top, owner, memory, events>>

NewTop(end)  == IF end > top THEN end ELSE top

(* The loop over the program headers.  Tmp is computed in 64 bits. *)
ReadPhdr ==
  /\ pc = "phdr"
  /\ i <= Len(file.segments)
  /\ \/ /\ ~segment.load
        /\ i' = i + 1
        /\ UNCHANGED <<pc, top, status, message>>
     \/ /\ segment.load
        /\ top' = NewTop((LoadAddr + segment.memsz) % AddressSpace)
        /\ pc' = "allocate"
        /\ UNCHANGED <<i, status, message>>
     \/ Fail /\ UNCHANGED <<i, top>>
  /\ UNCHANGED <<file, owner, memory, events>>

(* The pages of EFI_SIZE_TO_PAGES(memsz), counted from the segment's first  *)
(* one; the slip is to round down.                                          *)
FullPages == LoadAddr \div PageSize .. (LoadAddr + segment.memsz) \div PageSize - 1
SegmentPages ==
  LET first == LoadAddr \div PageSize
  IN  first .. first + (segment.memsz + PageSize - 1) \div PageSize - 1

(* The firmware refuses an address inside a page, no pages at all, and      *)
(* pages that somebody has.                                                 *)
MayAllocate ==
  /\ LoadAddr % PageSize = 0
  /\ segment.memsz > 0
  /\ \A p \in SegmentPages : p \in Pages /\ owner[p] = "free"

AllocatePages ==
  /\ pc = "allocate"
  /\ \/ /\ MayAllocate
        /\ owner' = [p \in Pages |-> IF p \in SegmentPages THEN "kernel" ELSE owner[p]]
        /\ pc' = "read"
        /\ UNCHANGED <<status, message>>
     \/ ~MayAllocate /\ Fail /\ UNCHANGED owner
  /\ UNCHANGED <<file, i, top, memory, events>>

(* FileRead: a read that fails, or that the end of the file cuts short, has *)
(* written n bytes before it does.                                          *)
ReadSegment ==
  /\ pc = "read"
  /\ \E n \in 0 .. Min({ segment.filesz, Max({ 0, file.length - segment.offset }) }) :
        /\ memory' = [a \in Addresses |->
              IF a \in LoadAddr .. LoadAddr + n - 1 THEN segment.offset + a - LoadAddr
                                                    ELSE memory[a]]
        /\ \/ n = segment.filesz /\ pc' = "zero" /\ UNCHANGED <<status, message>>
           \/ Fail
  /\ UNCHANGED <<file, i, top, owner, events>>

(* What ZeroMem clears; the slip is to clear it from the segment's start.   *)
ClearedFromStart == LoadAddr .. LoadAddr + segment.memsz - segment.filesz - 1
Cleared == LoadAddr + segment.filesz .. LoadAddr + segment.memsz - 1

(* A slip: the body counts the header as well as the loop. *)
ZeroRestCounting ==
  /\ pc = "zero"
  /\ memory' = [a \in Addresses |-> IF a \in Cleared THEN Zero ELSE memory[a]]
  /\ i' = i + 2
  /\ pc' = "phdr"
  /\ UNCHANGED <<file, top, owner, status, message, events>>

ZeroRest ==
  /\ pc = "zero"
  /\ memory' = [a \in Addresses |-> IF a \in Cleared THEN Zero ELSE memory[a]]
  /\ i' = i + 1
  /\ pc' = "phdr"
  /\ UNCHANGED <<file, top, owner, status, message, events>>

Finish ==
  /\ pc = "phdr"
  /\ i > Len(file.segments)
  /\ pc' = "returned"
  /\ UNCHANGED <<file, i, top, owner, memory, status, message, events>>

(* An event of the firmware takes a page. *)
FirmwareTakes(p) ==
  /\ pc # "returned" /\ events < MaxEvents
  /\ owner[p] = "free"
  /\ owner' = [owner EXCEPT ![p] = "firmware"]
  /\ events' = events + 1
  /\ UNCHANGED <<file, pc, i, top, memory, status, message>>

Terminated == pc = "returned" /\ UNCHANGED vars

Step == ReadHeader \/ ReadPhdr \/ AllocatePages \/ ReadSegment \/ ZeroRest \/ Finish

Next == Step \/ (\E p \in Pages : FirmwareTakes(p)) \/ Terminated

Spec == Init /\ [][Next]_vars

-----------------------------------------------------------------------------
TypeOK ==
  /\ file \in Elves
  /\ pc \in { "header", "phdr", "allocate", "read", "zero", "returned" }
  /\ i \in 1 .. Len(file.segments) + 1
  /\ pc \in { "allocate", "read", "zero" } => i <= Len(file.segments)
  /\ top \in 0 .. AddressSpace - 1
  /\ owner \in [Pages -> { "free", "firmware", "kernel" }]
  /\ memory \in [Addresses -> { Before, Zero } \cup Nat]
  /\ status \in { "success", "error" }
  /\ message \in { "none", "header", "phdr", "allocate", "read" }
  /\ events \in 0 .. MaxEvents

Loaded == { j \in DOMAIN file.segments : file.segments[j].load }

(* A load that went well has every segment in memory, the bytes of the file *)
(* and zeros after them, whatever was loaded after it; and Info->Top is the *)
(* end of the highest segment, in whatever order they came.                 *)
ImageIsLoaded ==
  pc = "returned" /\ status = "success" =>
    /\ \A j \in Loaded :
          LET s == file.segments[j]
              a == LoadAddress(s.vaddr)
          IN  \A k \in 0 .. s.memsz - 1 :
                 memory[a + k] = IF k < s.filesz THEN s.offset + k ELSE Zero
    /\ top = Max({ 0 } \cup { LoadAddress(file.segments[j].vaddr) + file.segments[j].memsz : j \in Loaded })

(* The loader writes to no page it did not get from the firmware, even when *)
(* the load fails half-way.                                                 *)
ForeignMemoryIntact ==
  \A a \in Addresses : memory[a] # Before => owner[a \div PageSize] = "kernel"

=============================================================================
