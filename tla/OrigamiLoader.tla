--------------------------- MODULE OrigamiLoader ----------------------------
(***************************************************************************)
(* LoadOrigamiKernel (src/Loader/Origami.c): from the boot entry to the    *)
(* jump into the kernel, one action per call it makes, while the events    *)
(* and timers of the firmware go on allocating and freeing memory between  *)
(* any two of them, until ExitBootServices.                                *)
(*                                                                         *)
(* Memory is the set of blocks somebody owns, each with its memory type;   *)
(* what is in a block is abstracted.  E820InPlace.tla has the conversion   *)
(* of the memory map, which is one step here.                              *)
(***************************************************************************)
EXTENDS MemoryTypes, FiniteSets

CONSTANTS
  MaxEvents,  \* bound: how often the firmware changes its memory map
  MaxGrowth   \* how many descriptors one change may add to the map

ASSUME OrigamiLoaderAssumption ==
  MaxEvents \in Nat /\ MaxGrowth \in Nat \ {0}

VARIABLES
  boot,      \* what is fixed when the load begins: the header's flags, ...
  pc,        \* the call LoadOrigamiKernel makes next
  resume,    \* where it goes on after KeyWait
  status,    \* Status
  message,   \* the call whose error message was printed last
  struct,    \* what the ORIGAMI_STRUCT holds
  lost,      \* whose allocations returned NULL
  entry,     \* Info.EntryPoint: "none", of the ELF file or of the header
  savedKey,  \* MapKey
  snapshot,  \* the memory map in Descriptors
  services,  \* have the boot services been exited?
  blocks,    \* the memory somebody owns
  key,       \* the firmware's map key
  grown,     \* descriptors added to the map since its size was asked
  window,    \* changes by the firmware since the last call to GetMemoryMap
  events,    \* all changes by the firmware
  pressed    \* is a key waiting in the console's buffer?

loader   == <<resume, status, message, struct, lost, entry, savedKey, snapshot>>
firmware == <<services, blocks, key, grown, window, events, pressed>>
vars     == <<boot, pc, loader, firmware>>

(* What the steps before the memory map leave alone. *)
kept    == <<savedKey, snapshot>>
outside == <<boot, services, window, events, pressed>>

Requests == { "framebuffer", "acpi", "epoch" }   \* bits 6, 3 and 2 of Flags

(* The boot entry's Tracing, the kernel's header (flags, and whether it     *)
(* names an entry point), and of the machine whether it has an ACPI table   *)
(* and a clock that can be read.                                            *)
Boots == [tracing : BOOLEAN, flags : SUBSET Requests,
          override : BOOLEAN, acpi : BOOLEAN, clock : BOOLEAN]

Owners == { "firmware", "event", "header", "kernel", "struct", "framebuffer",
            "rsdp", "pml3", "descriptors" }

Block == [owner : Owners, type : EfiReservedMemoryType .. EfiPersistentMemory]

Calls == { "openVolume", "openKernel", "loadSection", "trace", "loadElf",
           "allocStruct", "gopMode", "framebuffer", "acpi", "epoch", "paging",
           "mapSize", "allocMap", "getMap", "exitBootServices", "convert",
           "jump" }

(* The struct before anything is filled in. *)
EmptyStruct == [optInfo |-> {}, framebuffer |-> FALSE, rsdp |-> FALSE,
                epoch |-> FALSE, memmap |-> {}]

Init ==
  /\ boot \in Boots
  /\ pc = "openVolume"
  /\ resume = "none"
  /\ status = "success"
  /\ message = "none"
  /\ struct = EmptyStruct
  /\ lost = {}
  /\ entry = "none"
  /\ savedKey = 0
  /\ snapshot = {}
  /\ services = TRUE
  /\ blocks = { [owner |-> "firmware", type |-> EfiBootServicesCode] }
  /\ key = 0
  /\ grown = 0
  /\ window = 0
  /\ events = 0
  /\ pressed \in BOOLEAN

-----------------------------------------------------------------------------
(* CHECK_STATUS and ASSERT_EXPR: a call that went well, and one that did    *)
(* not: the message is printed and the function returns the error.          *)
Ok(next) ==
  /\ status' = "success"
  /\ pc' = next
  /\ UNCHANGED message

FailSilently ==         \* a slip: CHECK in place of CHECK_STATUS
  /\ UNCHANGED status
  /\ message' = pc
  /\ pc' = "returned"

Fail ==
  /\ status' = "error"
  /\ message' = pc
  /\ pc' = "returned"

(* A step that checks nothing. *)
GoOn(next) ==
  /\ pc' = next
  /\ UNCHANGED <<status, message>>

(* DO_IF(KeyWait(), Entry->Tracing) after a step that goes on at next. *)
PauseBefore(next) ==
  IF boot.tracing
    THEN pc' = "trace" /\ resume' = next
    ELSE pc' = next /\ UNCHANGED resume

(* Every change of the memory map changes the firmware's key, and may add   *)
(* descriptors to the map; grown counts them once the loader has asked for  *)
(* the size.                                                                *)
MapChanges ==
  /\ key' = key + 1
  /\ grown' \in grown .. grown + IF pc \in { "allocMap", "getMap" } THEN MaxGrowth ELSE 0

(* The library's allocators: they return the memory, or NULL.               *)
Allocate(owner, type) ==
  /\ blocks' = blocks \cup { [owner |-> owner, type |-> type] }
  /\ MapChanges
  /\ UNCHANGED lost

ReturnNull(owner) ==
  /\ lost' = lost \cup { owner }
  /\ UNCHANGED <<blocks, key, grown>>

NoAllocation == UNCHANGED <<blocks, key, grown, lost>>

-----------------------------------------------------------------------------
(* Entry->Fs->OpenVolume, Root->Open *)
OpenVolume ==
  /\ pc = "openVolume"
  /\ Ok("openKernel") \/ Fail
  /\ NoAllocation
  /\ UNCHANGED <<resume, struct, entry, kept, outside>>

OpenKernel ==
  /\ pc = "openKernel"
  /\ Ok("loadSection") \/ Fail
  /\ NoAllocation
  /\ UNCHANGED <<resume, struct, entry, kept, outside>>

(* LoadSection and the check of the header's size.  A header that was read  *)
(* stays allocated even when its size is wrong.  Two prompts follow.        *)
LoadSection ==
  /\ pc = "loadSection"
  /\ \/ Allocate("header", EfiBootServicesData) /\ status' = "success"
        /\ PauseBefore("trace2") /\ UNCHANGED message
     \/ (Allocate("header", EfiBootServicesData) \/ NoAllocation)
        /\ Fail /\ UNCHANGED resume
  /\ UNCHANGED <<struct, entry, kept, outside>>

TraceLoad ==
  /\ pc = "trace2"
  /\ PauseBefore("loadElf")
  /\ NoAllocation
  /\ UNCHANGED <<status, message, struct, entry, kept, outside>>

(* LoadElf, and the entry point of the header in place of the file's.  What *)
(* was allocated before a segment failed to load stays allocated.           *)
LoadElf ==
  /\ pc = "loadElf"
  /\ \/ /\ Allocate("kernel", EfiMemoryMappedIOPortSpace)
        /\ Ok("allocStruct")
        /\ entry' = IF boot.override THEN "header" ELSE "elf"
     \/ /\ Allocate("kernel", EfiMemoryMappedIOPortSpace) \/ NoAllocation
        /\ Fail
        /\ UNCHANGED entry
  /\ UNCHANGED <<resume, struct, kept, outside>>

(* AllocateZeroPool, then CHECK_STATUS(Struct != NULL, ...): TRUE is no     *)
(* error and neither is FALSE, so the check goes on either way, and a NULL  *)
(* Struct is filled in at address 0.                                        *)
AllocStruct ==
  /\ pc = "allocStruct"
  /\ \/ Allocate("struct", EfiBootServicesData) /\ status' = "true"
     \/ ReturnNull("struct") /\ status' = "success"
  /\ struct' = [EmptyStruct EXCEPT !.optInfo = { 7, 4 }]
  /\ pc' = "gopMode"
  /\ UNCHANGED <<resume, message, entry, kept, outside>>

(* SelectBestGopMode, called whether or not a framebuffer is requested.     *)
GopMode ==
  /\ pc = "gopMode"
  /\ Ok("framebuffer") \/ Fail
  /\ NoAllocation
  /\ UNCHANGED <<resume, struct, entry, kept, outside>>

(* The bit of OptInfo (the other one is the reserved bit next to it). *)
ReservedBit    == 5
FramebufferBit == 6

FramebufferAlways ==    \* a slip: whether it is requested is not looked at
  /\ pc = "framebuffer"
  /\ Allocate("framebuffer", EfiBootServicesData)
  /\ struct' = [struct EXCEPT !.framebuffer = TRUE, !.optInfo = @ \cup { FramebufferBit }]
  /\ GoOn("acpi")
  /\ UNCHANGED <<resume, entry, kept, outside>>

(* The framebuffer structure; when it cannot be allocated it is filled in   *)
(* at address 0 and the struct holds a null pointer.                        *)
Framebuffer ==
  /\ pc = "framebuffer"
  /\ IF "framebuffer" \in boot.flags
       THEN \/ /\ Allocate("framebuffer", EfiBootServicesData)
               /\ struct' = [struct EXCEPT !.framebuffer = TRUE, !.optInfo = @ \cup { FramebufferBit }]
            \/ /\ ReturnNull("framebuffer")
               /\ struct' = [struct EXCEPT !.optInfo = @ \cup { FramebufferBit }]
       ELSE NoAllocation /\ UNCHANGED struct
  /\ GoOn("acpi")
  /\ UNCHANGED <<resume, entry, kept, outside>>

(* The memory the RSDP is copied to, and what AllocateCopyPool would take.  *)
CopyPoolType == EfiBootServicesData
RsdpType     == EfiReservedMemoryType

(* The RSDP is copied to reserved memory; a copy that cannot be allocated   *)
(* leaves a null pointer.                                                   *)
Acpi ==
  /\ pc = "acpi"
  /\ IF "acpi" \in boot.flags
       THEN /\ \/ ~boot.acpi /\ NoAllocation /\ UNCHANGED struct
               \/ /\ boot.acpi
                  /\ Allocate("rsdp", RsdpType)
                  /\ struct' = [struct EXCEPT !.rsdp = TRUE, !.optInfo = @ \cup { 4 }]
               \/ /\ boot.acpi
                  /\ ReturnNull("rsdp")
                  /\ struct' = [struct EXCEPT !.optInfo = @ \cup { 4 }]
            /\ PauseBefore("epoch")
       ELSE NoAllocation /\ pc' = "epoch" /\ UNCHANGED <<struct, resume>>
  /\ UNCHANGED <<status, message, entry, kept, outside>>

(* The time; when EfiGetTime fails, the epoch stays 0. *)
Epoch ==
  /\ pc = "epoch"
  /\ IF "epoch" \in boot.flags
       THEN /\ struct' = [struct EXCEPT !.epoch = boot.clock]
            /\ PauseBefore("paging")
       ELSE pc' = "paging" /\ UNCHANGED <<struct, resume>>
  /\ NoAllocation
  /\ UNCHANGED <<status, message, entry, kept, outside>>

(* The higher half: the table for the kernel's addresses is allocated, or,  *)
(* when it cannot be, made of the page at address 0.                        *)
Paging ==
  /\ pc = "paging"
  /\ Allocate("pml3", EfiReservedMemoryType) \/ ReturnNull("pml3")
  /\ PauseBefore("mapSize")
  /\ UNCHANGED <<status, message, struct, entry, kept, outside>>

(* The first GetMemoryMap, for the size: the loader leaves room for         *)
(* SpareDescriptors more.  Only a version of the descriptors it does not    *)
(* know makes it give up here.                                              *)
NoSpareDescriptors == 0
SpareDescriptors   == 10

MapSize ==
  /\ pc = "mapSize"
  /\ \/ Ok("allocMap") /\ savedKey' = key /\ window' = 0 /\ grown' = 0
     \/ Fail /\ UNCHANGED <<savedKey, window, grown>>
  /\ UNCHANGED <<boot, resume, struct, lost, entry, snapshot,
                 services, blocks, key, events, pressed>>

(* AllocatePool for the map; the check of its result never fails either.    *)
AllocMap ==
  /\ pc = "allocMap"
  /\ \/ Allocate("descriptors", EfiBootServicesData) /\ status' = "true"
     \/ ReturnNull("descriptors") /\ status' = "success"
  /\ pc' = "getMap"
  /\ UNCHANGED <<resume, message, struct, entry, kept, outside>>

(* The second GetMemoryMap: it refuses a buffer that is too small, and a    *)
(* null pointer.                                                            *)
MapFits == grown <= SpareDescriptors /\ "descriptors" \notin lost

GetMapKeepingKey ==     \* a slip: the key of the first call is used
  /\ pc = "getMap"
  /\ MapFits
  /\ Ok("exitBootServices")
  /\ snapshot' = blocks /\ window' = 0 /\ grown' = 0
  /\ UNCHANGED <<boot, resume, struct, lost, entry, savedKey,
                 services, blocks, key, events, pressed>>

GetMapTooEarly ==       \* a slip: the map is from before its own allocation
  /\ pc = "getMap"
  /\ MapFits
  /\ Ok("exitBootServices")
  /\ snapshot' = { b \in blocks : b.owner # "descriptors" } /\ savedKey' = key
  /\ window' = 0 /\ grown' = 0
  /\ UNCHANGED <<boot, resume, struct, lost, entry,
                 services, blocks, key, events, pressed>>

GetMap ==
  /\ pc = "getMap"
  /\ \/ /\ MapFits
        /\ Ok("exitBootServices")
        /\ snapshot' = blocks /\ savedKey' = key
        /\ window' = 0 /\ grown' = 0
     \/ /\ ~MapFits
        /\ Fail
        /\ UNCHANGED <<snapshot, savedKey, window, grown>>
  /\ UNCHANGED <<boot, resume, struct, lost, entry,
                 services, blocks, key, events, pressed>>

(* ExitBootServices accepts the key of the current memory map only; the     *)
(* loader does not ask for the map again when it is refused.                *)
ExitBootServices ==
  /\ pc = "exitBootServices"
  /\ \/ savedKey = key /\ Ok("convert") /\ services' = FALSE
     \/ savedKey # key /\ Fail /\ UNCHANGED services
  /\ NoAllocation
  /\ UNCHANGED <<boot, resume, struct, entry, savedKey, snapshot,
                 window, events, pressed>>

(* The E820 map: what is in each block, by the E820 type the kernel sees.   *)
Convert ==
  /\ pc = "convert"
  /\ struct' = [struct EXCEPT !.memmap =
        { [owner |-> b.owner, type |-> EfiTypeToE820Type[b.type]] : b \in snapshot }]
  /\ GoOn("jump")
  /\ UNCHANGED <<boot, resume, lost, entry, savedKey, snapshot, firmware>>

JumpToKernel ==
  /\ pc = "jump"
  /\ GoOn("kernel")
  /\ UNCHANGED <<boot, resume, struct, lost, entry, savedKey, snapshot, firmware>>

-----------------------------------------------------------------------------
(* KeyWait: the keys typed before the prompt are dropped, the buffer is     *)
(* polled, and whatever else was typed is dropped.  A console that fails    *)
(* ends the wait as well.                                                   *)
ResetConsole ==
  /\ pc = "trace"
  /\ pressed' = FALSE
  /\ pc' = "poll"
  /\ UNCHANGED <<boot, loader, services, blocks, key, grown, window, events>>

PollKeyResetting ==     \* a slip: the buffer is cleared before every read
  /\ pc = "poll"
  /\ pressed
  /\ pressed' = FALSE
  /\ UNCHANGED <<boot, pc, loader, services, blocks, key, grown, window, events>>

PollKey ==
  /\ pc = "poll"
  /\ pressed
  /\ pressed' = FALSE
  /\ pc' = resume
  /\ UNCHANGED <<boot, loader, services, blocks, key, grown, window, events>>

PollFails ==
  /\ pc = "poll"
  /\ pressed' = FALSE
  /\ pc' = resume
  /\ UNCHANGED <<boot, loader, services, blocks, key, grown, window, events>>

-----------------------------------------------------------------------------
(* Somebody presses a key; only KeyWait looks. *)
PressKey ==
  /\ boot.tracing /\ services /\ ~pressed /\ pc # "returned"
  /\ pressed' = TRUE
  /\ UNCHANGED <<boot, pc, loader, services, blocks, key, grown, window, events>>

(* An event or timer of the firmware allocates memory or frees it, as long  *)
(* as there are boot services (MaxEvents bounds how often).                 *)
FirmwareEvent ==
  /\ services /\ events < MaxEvents /\ pc # "returned"
  /\ LET b == [owner |-> "event", type |-> EfiBootServicesData] IN
       blocks' = IF b \in blocks THEN blocks \ { b } ELSE blocks \cup { b }
  /\ MapChanges
  /\ events' = events + 1
  /\ window' = window + 1
  /\ UNCHANGED <<boot, pc, loader, services, pressed>>

(* The end: the kernel runs, or SplashScreen leaves its loop for good.      *)
Terminated == pc \in { "kernel", "returned" } /\ UNCHANGED vars

Step ==
  \/ OpenVolume \/ OpenKernel \/ LoadSection \/ TraceLoad \/ LoadElf
  \/ AllocStruct \/ GopMode \/ Framebuffer \/ Acpi \/ Epoch \/ Paging
  \/ MapSize \/ AllocMap \/ GetMap \/ ExitBootServices \/ Convert \/ JumpToKernel
  \/ ResetConsole \/ PollKey

Next == Step \/ PollFails \/ PressKey \/ FirmwareEvent \/ Terminated

Spec == Init /\ [][Next]_vars

(* The loader is the only thread, so a step it can take is taken; whoever   *)
(* turned tracing on answers the prompts.                                   *)
FairSpec == Spec /\ WF_vars(Step) /\ WF_vars(PressKey)

-----------------------------------------------------------------------------
TypeOK ==
  /\ boot \in Boots
  /\ pc \in Calls \cup { "trace2", "poll", "kernel", "returned" }
  /\ resume \in Calls \cup { "none", "trace2" }
  /\ status \in { "success", "true", "error" }
  /\ message \in Calls \cup { "none" }
  /\ struct \in [optInfo : SUBSET { 4, 6, 7 }, framebuffer : BOOLEAN,
                 rsdp : BOOLEAN, epoch : BOOLEAN,
                 memmap : SUBSET [owner : Owners, type : E820Enumerators]]
  /\ lost \subseteq Owners
  /\ entry \in { "none", "elf", "header" }
  /\ savedKey \in Nat
  /\ snapshot \subseteq Block
  /\ services \in BOOLEAN
  /\ blocks \subseteq Block
  /\ key \in Nat
  /\ grown \in Nat
  /\ window \in Nat
  /\ events \in 0 .. MaxEvents
  /\ pressed \in BOOLEAN

(* The map the kernel receives is the memory as it is when the kernel       *)
(* starts: nothing was allocated or freed after it was taken, not even the  *)
(* buffer it is in.  A map that could not be allocated never reaches the    *)
(* kernel, although the check that should see to it cannot fail.            *)
MapIsCurrent ==
  pc \in { "jump", "kernel" } =>
    /\ "descriptors" \notin lost
    /\ struct.memmap =
         { [owner |-> b.owner, type |-> EfiTypeToE820Type[b.type]] : b \in blocks }

(* ExitBootServices is refused only because the firmware changed the map    *)
(* between two calls: the loader itself does nothing in between that does.  *)
LoaderKeepsMapKey == message = "exitBootServices" => window > 0

(* The buffer has room enough for the loader's own allocation of it and for *)
(* one change of the map by the firmware between the two calls, as long as  *)
(* no change adds more than five descriptors: it takes two to outgrow it.   *)
RoomForTheMap ==
  message = "getMap" /\ "descriptors" \notin lost /\ MaxGrowth <= 5 => window > 1

(* A load that gives up returns an error to SplashScreen, and only a load   *)
(* without one goes on to the kernel.                                       *)
FailureIsReported ==
  /\ pc = "returned" => status = "error"
  /\ pc \in { "convert", "jump", "kernel" } => status = "success" /\ message = "none"

(* What the kernel needs to go on running (its image, the table its         *)
(* addresses are mapped with, the copy of the RSDP) is in the map, and not  *)
(* as memory that is free to use.                                           *)
KernelMemoryKept ==
  pc = "kernel" =>
    \A o \in { "kernel", "pml3", "rsdp" } \ lost :
       (o = "rsdp" => struct.rsdp) =>
         /\ \E e \in struct.memmap : e.owner = o
         /\ \A e \in struct.memmap : e.owner = o => e.type # E820_TYPE_RAM

(* Unless memory runs out, the kernel finds all that its header asked for   *)
(* and the machine has (the framebuffer, the RSDP, the time) and nothing it *)
(* did not ask for.  The bit of the framebuffer agrees; those of the        *)
(* firmware and of ACPI are set on every machine, so that a kernel cannot   *)
(* learn from bit 4 that there is no ACPI, as spec/origami.h:65 has it: a   *)
(* null RSDP it asked for is what tells it.                                 *)
RequestsAnswered ==
  pc = "kernel" /\ lost = {} =>
    /\ struct.framebuffer = ("framebuffer" \in boot.flags)
    /\ struct.rsdp = ("acpi" \in boot.flags /\ boot.acpi)
    /\ struct.epoch = ("epoch" \in boot.flags /\ boot.clock)
    /\ struct.optInfo = { 7, 4 } \cup IF struct.framebuffer THEN { 6 } ELSE {}

(* Every load comes to an end: the kernel runs or an error is returned.     *)
LoadEnds == <>(pc \in { "kernel", "returned" })

(* What a message says, and the code does not do: "System ran out of        *)
(* resources", a load without memory for the struct gives up.               *)
OutOfResourcesEndsTheLoad == "struct" \in lost => pc # "kernel"
=============================================================================
