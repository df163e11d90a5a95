------------------------ MODULE OrigamiLoader_proofs ------------------------
(***************************************************************************)
(* Proofs about OrigamiLoader, for every number and size of the changes    *)
(* the firmware makes to its memory map, and about GopMode, for every list *)
(* of modes: the search is one step of the load, and the two modules share *)
(* no variable.                                                            *)
(*                                                                         *)
(* The argument about the map is one of keys: from the second call of      *)
(* GetMemoryMap on, the firmware's key is ahead of the loader's by the     *)
(* changes the firmware made since, so that the two are equal just when    *)
(* the map that was taken is still the memory.  Everything else follows    *)
(* from how far the load has come.                                         *)
(***************************************************************************)
EXTENDS OrigamiLoader, GopMode, TLAPS

(* How far the load has come, a prompt being part of the call after it.     *)
at == IF pc \in { "trace", "poll" } THEN resume ELSE pc

Exited      == { "convert", "jump", "kernel" }
MapTaken    == { "exitBootServices" } \cup Exited
TableMade   == { "mapSize", "allocMap", "getMap" } \cup MapTaken
EpochDone   == { "paging" } \cup TableMade
AcpiDone    == { "epoch" } \cup EpochDone
FramesDone  == { "acpi" } \cup AcpiDone
ImageLoaded == { "allocStruct", "gopMode", "framebuffer" } \cup FramesDone

Has(owner)  == \E b \in blocks : b.owner = owner

(* A prompt is followed by one of the calls the code has a prompt before.   *)
Prompts ==
  pc \in { "trace", "poll" } =>
    resume \in { "trace2", "loadElf", "epoch", "paging", "mapSize" }

(* A message is printed on the way out only, and only with an error.        *)
Reporting ==
  /\ message # "none" => pc = "returned"
  /\ pc = "returned" => status = "error"
  /\ pc \in Exited => status = "success"

(* What a block is allocated as depends on its owner alone.                 *)
TypeOfOwner(owner) ==
  CASE owner = "firmware"           -> EfiBootServicesCode
    [] owner = "kernel"             -> EfiMemoryMappedIOPortSpace
    [] owner \in { "rsdp", "pml3" } -> EfiReservedMemoryType
    [] OTHER                        -> EfiBootServicesData

Typed ==
  /\ \A b \in blocks : b.type = TypeOfOwner(b.owner)
  /\ \A b \in snapshot : b.type = TypeOfOwner(b.owner)

(* What the kernel needs is allocated, and nobody frees it.                 *)
Kept ==
  /\ at \in ImageLoaded => Has("kernel")
  /\ at \in TableMade => "pml3" \in lost \/ Has("pml3")
  /\ struct.rsdp => Has("rsdp")

(* The key tells whether the map is still the memory.                       *)
Keyed ==
  /\ pc \in MapTaken => "descriptors" \notin lost
  /\ pc = "exitBootServices" =>
       /\ key = savedKey + window
       /\ window = 0 => snapshot = blocks
  /\ pc \in Exited => ~services /\ snapshot = blocks
  /\ pc \in { "jump", "kernel" } =>
       struct.memmap =
         { [owner |-> b.owner, type |-> EfiTypeToE820Type[b.type]] : b \in blocks }

(* No more descriptors than the changes since the size was asked account    *)
(* for, the loader's own among them.                                        *)
Growth ==
  MaxGrowth <= 5 =>
    /\ pc = "allocMap" => grown <= 5 * window
    /\ pc = "getMap" => grown <= 5 * (window + 1)

(* What the struct holds of the requests, as far as they were looked at.    *)
Requested ==
  /\ at \in { "gopMode", "framebuffer" } => ~struct.framebuffer /\ 6 \notin struct.optInfo
  /\ at \in { "gopMode", "framebuffer", "acpi" } => ~struct.rsdp
  /\ at \in { "gopMode", "framebuffer", "acpi", "epoch" } => ~struct.epoch
  /\ at \in { "gopMode", "framebuffer" } \cup FramesDone => { 7, 4 } \subseteq struct.optInfo
  /\ at \in FramesDone /\ lost = {} =>
       /\ struct.framebuffer = ("framebuffer" \in boot.flags)
       /\ (6 \in struct.optInfo) = struct.framebuffer
  /\ at \in AcpiDone /\ lost = {} => struct.rsdp = ("acpi" \in boot.flags /\ boot.acpi)
  /\ at \in EpochDone => struct.epoch = ("epoch" \in boot.flags /\ boot.clock)

IInv ==
  /\ TypeOK /\ Prompts /\ Reporting /\ Typed /\ Kept /\ Keyed /\ Growth /\ Requested
  /\ LoaderKeepsMapKey /\ RoomForTheMap

(* TypeOK in three parts, for the proofs: where the load is, what the struct  *)
(* holds, and the memory.                                                   *)
ControlOK ==
  /\ boot \in Boots
  /\ pc \in Calls \cup { "trace2", "poll", "kernel", "returned" }
  /\ resume \in Calls \cup { "none", "trace2" }
  /\ status \in { "success", "true", "error" }
  /\ message \in Calls \cup { "none" }
  /\ lost \subseteq Owners
  /\ entry \in { "none", "elf", "header" }
  /\ services \in BOOLEAN
  /\ pressed \in BOOLEAN

StructOK ==
  struct \in [optInfo : SUBSET { 4, 6, 7 }, framebuffer : BOOLEAN,
              rsdp : BOOLEAN, epoch : BOOLEAN,
              memmap : SUBSET [owner : Owners, type : E820Enumerators]]

MemoryOK ==
  /\ savedKey \in Nat
  /\ snapshot \subseteq Block
  /\ blocks \subseteq Block
  /\ key \in Nat
  /\ grown \in Nat
  /\ window \in Nat
  /\ events \in 0 .. MaxEvents

-----------------------------------------------------------------------------
(* The parts are the whole.                                                 *)
LEMMA TypeParts == TypeOK <=> ControlOK /\ StructOK /\ MemoryOK
  BY DEF TypeOK, ControlOK, StructOK, MemoryOK

(* The types the loader allocates with are types of UEFI, and each of them  *)
(* has an element in the table that converts it.                            *)
LEMMA BlockTypes ==
  ASSUME NEW o \in Owners
  PROVE  /\ TypeOfOwner(o) \in EfiReservedMemoryType .. EfiPersistentMemory
         /\ EfiTypeToE820Type[TypeOfOwner(o)] \in E820Enumerators
  BY DEF TypeOfOwner, Owners, EfiTypeToE820Type, EfiReservedMemoryType,
         EfiLoaderCode, EfiLoaderData, EfiBootServicesCode, EfiBootServicesData,
         EfiRuntimeServicesCode, EfiRuntimeServicesData, EfiConventionalMemory,
         EfiUnusableMemory, EfiACPIReclaimMemory, EfiACPIMemoryNVS,
         EfiMemoryMappedIO, EfiMemoryMappedIOPortSpace, EfiPalCode,
         EfiPersistentMemory, E820_TYPE_RAM, E820_TYPE_RESERVED, E820_TYPE_ACPI,
         E820_TYPE_NVS, E820_TYPE_UNUSABLE, E820_TYPE_RESERVED_KERN,
         E820Enumerators

(* What the kernel needs is not free to use. *)
LEMMA KernelTypes ==
  ASSUME NEW o \in { "kernel", "pml3", "rsdp" }
  PROVE  EfiTypeToE820Type[TypeOfOwner(o)] # E820_TYPE_RAM
  BY DEF TypeOfOwner, EfiTypeToE820Type, EfiReservedMemoryType,
         EfiLoaderCode, EfiLoaderData, EfiBootServicesCode, EfiBootServicesData,
         EfiRuntimeServicesCode, EfiRuntimeServicesData, EfiConventionalMemory,
         EfiUnusableMemory, EfiACPIReclaimMemory, EfiACPIMemoryNVS,
         EfiMemoryMappedIO, EfiMemoryMappedIOPortSpace, EfiPalCode,
         E820_TYPE_RAM, E820_TYPE_RESERVED, E820_TYPE_ACPI, E820_TYPE_NVS,
         E820_TYPE_UNUSABLE, E820_TYPE_RESERVED_KERN

(* The owner of memory that was allocated has it. *)
LEMMA AllocatorHas ==
  ASSUME NEW o, NEW t, Allocate(o, t)
  PROVE  Has(o)'
  <1>1. [owner |-> o, type |-> t] \in blocks'
    BY DEF Allocate
  <1>2. [owner |-> o, type |-> t].owner = o
    OBVIOUS
  <1> QED BY <1>1, <1>2, Zenon DEF Has

(* Only events of the firmware free memory, and only their own.             *)
LEMMA OwnersKeep == IInv /\ [Next]_vars => \A o \in Owners \ { "event" } : Has(o) => Has(o)'
  <1> SUFFICES ASSUME IInv, [Next]_vars PROVE \A o \in Owners \ { "event" } : Has(o) => Has(o)'
    OBVIOUS
  <1>0. TypeOK
    BY DEF IInv
  <1>1. CASE OpenVolume \/ OpenKernel \/ GopMode
    BY <1>0, <1>1 DEF Has, OpenVolume, OpenKernel, GopMode, Ok, Fail,
           NoAllocation, kept, outside
  <1>2. CASE LoadSection
    BY <1>0, <1>2 DEF Has, LoadSection, Allocate, MapChanges, PauseBefore,
           Fail, NoAllocation, kept, outside
  <1>3. CASE TraceLoad
    BY <1>0, <1>3 DEF Has, TraceLoad, PauseBefore, NoAllocation, kept, outside
  <1>4. CASE LoadElf
    BY <1>0, <1>4 DEF Has, LoadElf, Allocate, MapChanges, Ok, Fail,
           NoAllocation, kept, outside
  <1>5. CASE AllocStruct
    BY <1>0, <1>5 DEF Has, AllocStruct, Allocate, MapChanges, ReturnNull,
           EmptyStruct, kept, outside
  <1>6. CASE Framebuffer
    BY <1>0, <1>6 DEF Has, Framebuffer, Allocate, MapChanges, ReturnNull,
           NoAllocation, GoOn, FramebufferBit, kept, outside
  <1>7. CASE Acpi
    BY <1>0, <1>7 DEF Has, Acpi, Allocate, MapChanges, ReturnNull,
           NoAllocation, PauseBefore, RsdpType, kept, outside
  <1>8. CASE Epoch
    BY <1>0, <1>8 DEF Has, Epoch, PauseBefore, NoAllocation, kept, outside
  <1>9. CASE Paging
    BY <1>0, <1>9 DEF Has, Paging, Allocate, MapChanges, ReturnNull,
           PauseBefore, kept, outside
  <1>10. CASE MapSize
    BY <1>0, <1>10 DEF Has, MapSize, Ok, Fail
  <1>11. CASE AllocMap
    BY <1>0, <1>11 DEF Has, AllocMap, Allocate, MapChanges, ReturnNull, kept,
           outside
  <1>12. CASE GetMap
    BY <1>0, <1>12 DEF Has, GetMap, Ok, Fail, MapFits, SpareDescriptors
  <1>13. CASE ExitBootServices
    BY <1>0, <1>13 DEF Has, ExitBootServices, Ok, Fail, NoAllocation
  <1>14. CASE Convert
    BY <1>0, <1>14 DEF Has, Convert, GoOn, firmware
  <1>15. CASE JumpToKernel
    BY <1>0, <1>15 DEF Has, JumpToKernel, GoOn, firmware
  <1>16. CASE ResetConsole \/ PollKey \/ PollFails \/ PressKey
    BY <1>0, <1>16 DEF Has, ResetConsole, PollKey, PollFails, PressKey, loader
  <1>17. CASE FirmwareEvent
    BY <1>0, <1>17 DEF Has, FirmwareEvent, MapChanges, loader
  <1>18. CASE UNCHANGED vars
    BY <1>0, <1>18 DEF Has, vars, loader, firmware
  <1> QED
    BY <1>1, <1>2, <1>3, <1>4, <1>5, <1>6, <1>7, <1>8, <1>9, <1>10, <1>11,
       <1>12, <1>13, <1>14, <1>15, <1>16, <1>17, <1>18
    DEF Next, Step, Terminated

(* The prompts go on where the code goes on after them.                     *)
LEMMA PromptsStep == IInv /\ [Next]_vars => Prompts'
  <1> SUFFICES ASSUME IInv, [Next]_vars PROVE Prompts'
    OBVIOUS
  <1>0. Prompts
    BY DEF IInv
  <1>1. CASE OpenVolume \/ OpenKernel \/ GopMode
    BY <1>0, <1>1 DEF Prompts, OpenVolume, OpenKernel, GopMode, Ok, Fail,
           NoAllocation, kept, outside
  <1>2. CASE LoadSection
    BY <1>0, <1>2 DEF Prompts, LoadSection, Allocate, MapChanges, PauseBefore,
           Fail, NoAllocation, kept, outside
  <1>3. CASE TraceLoad
    BY <1>0, <1>3 DEF Prompts, TraceLoad, PauseBefore, NoAllocation, kept,
           outside
  <1>4. CASE LoadElf
    BY <1>0, <1>4 DEF Prompts, LoadElf, Allocate, MapChanges, Ok, Fail,
           NoAllocation, kept, outside
  <1>5. CASE AllocStruct
    BY <1>0, <1>5 DEF Prompts, AllocStruct, Allocate, MapChanges, ReturnNull,
           EmptyStruct, kept, outside
  <1>6. CASE Framebuffer
    BY <1>0, <1>6 DEF Prompts, Framebuffer, Allocate, MapChanges, ReturnNull,
           NoAllocation, GoOn, FramebufferBit, kept, outside
  <1>7. CASE Acpi
    BY <1>0, <1>7 DEF Prompts, Acpi, Allocate, MapChanges, ReturnNull,
           NoAllocation, PauseBefore, RsdpType, kept, outside
  <1>8. CASE Epoch
    BY <1>0, <1>8 DEF Prompts, Epoch, PauseBefore, NoAllocation, kept, outside
  <1>9. CASE Paging
    BY <1>0, <1>9 DEF Prompts, Paging, Allocate, MapChanges, ReturnNull,
           PauseBefore, kept, outside
  <1>10. CASE MapSize
    BY <1>0, <1>10 DEF Prompts, MapSize, Ok, Fail
  <1>11. CASE AllocMap
    BY <1>0, <1>11 DEF Prompts, AllocMap, Allocate, MapChanges, ReturnNull,
           kept, outside
  <1>12. CASE GetMap
    BY <1>0, <1>12 DEF Prompts, GetMap, Ok, Fail, MapFits, SpareDescriptors
  <1>13. CASE ExitBootServices
    BY <1>0, <1>13 DEF Prompts, ExitBootServices, Ok, Fail, NoAllocation
  <1>14. CASE Convert
    BY <1>0, <1>14 DEF Prompts, Convert, GoOn, firmware
  <1>15. CASE JumpToKernel
    BY <1>0, <1>15 DEF Prompts, JumpToKernel, GoOn, firmware
  <1>16. CASE ResetConsole \/ PollKey \/ PollFails \/ PressKey
    BY <1>0, <1>16 DEF Prompts, ResetConsole, PollKey, PollFails, PressKey,
           loader
  <1>17. CASE FirmwareEvent
    BY <1>0, <1>17 DEF Prompts, FirmwareEvent, MapChanges, loader
  <1>18. CASE UNCHANGED vars
    BY <1>0, <1>18 DEF Prompts, vars, loader, firmware
  <1> QED
    BY <1>1, <1>2, <1>3, <1>4, <1>5, <1>6, <1>7, <1>8, <1>9, <1>10, <1>11,
       <1>12, <1>13, <1>14, <1>15, <1>16, <1>17, <1>18
    DEF Next, Step, Terminated

(* The types of what the load keeps of its course.                          *)
LEMMA ControlStep == IInv /\ [Next]_vars => ControlOK'
  <1> SUFFICES ASSUME IInv, [Next]_vars PROVE ControlOK'
    OBVIOUS
  <1>0. ControlOK /\ Prompts
    BY TypeParts DEF IInv
  <1>1. CASE OpenVolume \/ OpenKernel \/ GopMode
    BY <1>0, <1>1 DEF ControlOK, Prompts, Calls, Owners, OpenVolume,
           OpenKernel, GopMode, Ok, Fail, NoAllocation, kept, outside
  <1>2. CASE LoadSection
    BY <1>0, <1>2 DEF ControlOK, Prompts, Calls, Owners, LoadSection,
           Allocate, MapChanges, PauseBefore, Fail, NoAllocation, kept,
           outside
  <1>3. CASE TraceLoad
    BY <1>0, <1>3 DEF ControlOK, Prompts, Calls, Owners, TraceLoad,
           PauseBefore, NoAllocation, kept, outside
  <1>4. CASE LoadElf
    BY <1>0, <1>4 DEF ControlOK, Prompts, Calls, Owners, LoadElf, Allocate,
           MapChanges, Ok, Fail, NoAllocation, kept, outside
  <1>5. CASE AllocStruct
    BY <1>0, <1>5 DEF ControlOK, Prompts, Calls, Owners, AllocStruct,
           Allocate, MapChanges, ReturnNull, EmptyStruct, kept, outside
  <1>6. CASE Framebuffer
    BY <1>0, <1>6 DEF ControlOK, Prompts, Calls, Owners, Framebuffer,
           Allocate, MapChanges, ReturnNull, NoAllocation, GoOn,
           FramebufferBit, kept, outside
  <1>7. CASE Acpi
    BY <1>0, <1>7 DEF ControlOK, Prompts, Calls, Owners, Acpi, Allocate,
           MapChanges, ReturnNull, NoAllocation, PauseBefore, RsdpType, kept,
           outside
  <1>8. CASE Epoch
    BY <1>0, <1>8 DEF ControlOK, Prompts, Calls, Owners, Epoch, PauseBefore,
           NoAllocation, kept, outside
  <1>9. CASE Paging
    <2>1. /\ lost' \in { lost, lost \cup { "pml3" } }
          /\ pc' \in { "trace", "mapSize" } /\ resume' \in { resume, "mapSize" }
          /\ UNCHANGED <<boot, status, message, entry, services, pressed>>
      BY <1>9, Zenon DEF Paging, Allocate, ReturnNull, PauseBefore, outside
    <2> QED BY <1>0, <2>1 DEF ControlOK, Calls, Owners
  <1>10. CASE MapSize
    BY <1>0, <1>10 DEF ControlOK, Prompts, Calls, Owners, MapSize, Ok, Fail
  <1>11. CASE AllocMap
    <2>1. /\ lost' \in { lost, lost \cup { "descriptors" } }
          /\ pc' = "getMap" /\ status' \in { "true", "success" }
          /\ UNCHANGED <<boot, resume, message, entry, services, pressed>>
      BY <1>11, Zenon DEF AllocMap, Allocate, ReturnNull, outside
    <2> QED BY <1>0, <2>1 DEF ControlOK, Calls, Owners
  <1>12. CASE GetMap
    BY <1>0, <1>12 DEF ControlOK, Prompts, Calls, Owners, GetMap, Ok, Fail,
           MapFits, SpareDescriptors
  <1>13. CASE ExitBootServices
    BY <1>0, <1>13 DEF ControlOK, Prompts, Calls, Owners, ExitBootServices,
           Ok, Fail, NoAllocation
  <1>14. CASE Convert
    BY <1>0, <1>14 DEF ControlOK, Prompts, Calls, Owners, Convert, GoOn,
           firmware
  <1>15. CASE JumpToKernel
    BY <1>0, <1>15 DEF ControlOK, Prompts, Calls, Owners, JumpToKernel, GoOn,
           firmware
  <1>16. CASE ResetConsole \/ PollKey \/ PollFails \/ PressKey
    BY <1>0, <1>16 DEF ControlOK, Prompts, Calls, Owners, ResetConsole,
           PollKey, PollFails, PressKey, loader
  <1>17. CASE FirmwareEvent
    BY <1>0, <1>17 DEF ControlOK, Prompts, Calls, Owners, FirmwareEvent,
           MapChanges, loader
  <1>18. CASE UNCHANGED vars
    BY <1>0, <1>18 DEF ControlOK, Prompts, Calls, Owners, vars, loader,
           firmware
  <1> QED
    BY <1>1, <1>2, <1>3, <1>4, <1>5, <1>6, <1>7, <1>8, <1>9, <1>10, <1>11,
       <1>12, <1>13, <1>14, <1>15, <1>16, <1>17, <1>18
    DEF Next, Step, Terminated

(* The epoch is the only field the time is written to. *)
LEMMA EpochFills ==
  ASSUME boot \in Boots, StructOK, Epoch
  PROVE  /\ StructOK'
         /\ struct'.optInfo = struct.optInfo
         /\ struct'.framebuffer = struct.framebuffer /\ struct'.rsdp = struct.rsdp
         /\ "epoch" \in boot.flags => struct'.epoch = boot.clock
         /\ "epoch" \notin boot.flags => struct'.epoch = struct.epoch
  <1>1. boot.clock \in BOOLEAN
    BY DEF Boots
  <1>2. CASE "epoch" \in boot.flags
    <2>1. struct' = [struct EXCEPT !.epoch = boot.clock]
      BY <1>2 DEF Epoch
    <2> QED BY <1>1, <1>2, <2>1 DEF StructOK
  <1>3. CASE "epoch" \notin boot.flags
    <2>1. struct' = struct
      BY <1>3 DEF Epoch
    <2> QED BY <1>3, <2>1 DEF StructOK
  <1> QED BY <1>2, <1>3

(* The struct is well typed: every entry of the map has a type of the E820 map. *)
LEMMA StructStep == IInv /\ [Next]_vars => StructOK'
  <1> SUFFICES ASSUME IInv, [Next]_vars PROVE StructOK'
    OBVIOUS
  <1>0. StructOK /\ Typed /\ MemoryOK
    BY TypeParts DEF IInv
  <1>1. CASE OpenVolume \/ OpenKernel \/ GopMode
    BY <1>0, <1>1 DEF StructOK, OpenVolume, OpenKernel, GopMode, Ok, Fail,
           NoAllocation, kept, outside
  <1>2. CASE LoadSection
    BY <1>0, <1>2 DEF StructOK, LoadSection, Allocate, MapChanges,
           PauseBefore, Fail, NoAllocation, kept, outside
  <1>3. CASE TraceLoad
    BY <1>0, <1>3 DEF StructOK, TraceLoad, PauseBefore, NoAllocation, kept,
           outside
  <1>4. CASE LoadElf
    BY <1>0, <1>4 DEF StructOK, LoadElf, Allocate, MapChanges, Ok, Fail,
           NoAllocation, kept, outside
  <1>5. CASE AllocStruct
    BY <1>0, <1>5 DEF StructOK, AllocStruct, Allocate, MapChanges, ReturnNull,
           EmptyStruct, kept, outside
  <1>6. CASE Framebuffer
    <2>1. struct.optInfo \cup { 6 } \in SUBSET { 4, 6, 7 }
      BY <1>0 DEF StructOK
    <2>2. CASE struct' = [struct EXCEPT !.framebuffer = TRUE, !.optInfo = @ \cup { 6 }]
      BY <1>0, <2>1, <2>2 DEF StructOK
    <2>3. CASE struct' = [struct EXCEPT !.optInfo = @ \cup { 6 }]
      BY <1>0, <2>1, <2>3 DEF StructOK
    <2>4. CASE UNCHANGED struct
      BY <1>0, <2>4 DEF StructOK
    <2> QED BY <1>6, <2>2, <2>3, <2>4, Zenon DEF Framebuffer, FramebufferBit
  <1>7. CASE Acpi
    <2>1. struct.optInfo \cup { 4 } \in SUBSET { 4, 6, 7 }
      BY <1>0 DEF StructOK
    <2>2. CASE struct' = [struct EXCEPT !.rsdp = TRUE, !.optInfo = @ \cup { 4 }]
      BY <1>0, <2>1, <2>2 DEF StructOK
    <2>3. CASE struct' = [struct EXCEPT !.optInfo = @ \cup { 4 }]
      BY <1>0, <2>1, <2>3 DEF StructOK
    <2>4. CASE UNCHANGED struct
      BY <1>0, <2>4 DEF StructOK
    <2> QED BY <1>7, <2>2, <2>3, <2>4, Zenon DEF Acpi
  <1>8. CASE Epoch
    <2>1. boot \in Boots
      BY DEF IInv, TypeOK
    <2> QED BY <1>0, <1>8, <2>1, EpochFills
  <1>9. CASE Paging
    BY <1>0, <1>9 DEF StructOK, Paging, Allocate, MapChanges, ReturnNull,
           PauseBefore, kept, outside
  <1>10. CASE MapSize
    BY <1>0, <1>10 DEF StructOK, MapSize, Ok, Fail
  <1>11. CASE AllocMap
    BY <1>0, <1>11 DEF StructOK, AllocMap, Allocate, MapChanges, ReturnNull,
           kept, outside
  <1>12. CASE GetMap
    BY <1>0, <1>12 DEF StructOK, GetMap, Ok, Fail, MapFits, SpareDescriptors
  <1>13. CASE ExitBootServices
    BY <1>0, <1>13 DEF StructOK, ExitBootServices, Ok, Fail, NoAllocation
  <1>14. CASE Convert
    <2> DEFINE m == { [owner |-> b.owner, type |-> EfiTypeToE820Type[b.type]] : b \in snapshot }
    <2>1. ASSUME NEW b \in snapshot
          PROVE  b.owner \in Owners /\ EfiTypeToE820Type[b.type] \in E820Enumerators
      <3>1. b.owner \in Owners /\ b.type = TypeOfOwner(b.owner)
        BY <1>0 DEF Typed, MemoryOK, Block
      <3> QED BY <3>1, BlockTypes
    <2>2. m \in SUBSET [owner : Owners, type : E820Enumerators]
      BY <2>1
    <2>3. struct' = [struct EXCEPT !.memmap = m]
      BY <1>14 DEF Convert
    <2> HIDE DEF m
    <2> QED BY <1>0, <2>2, <2>3 DEF StructOK
  <1>15. CASE JumpToKernel
    BY <1>0, <1>15 DEF StructOK, JumpToKernel, GoOn, firmware
  <1>16. CASE ResetConsole \/ PollKey \/ PollFails \/ PressKey
    BY <1>0, <1>16 DEF StructOK, ResetConsole, PollKey, PollFails, PressKey,
           loader
  <1>17. CASE FirmwareEvent
    BY <1>0, <1>17 DEF StructOK, FirmwareEvent, MapChanges, loader
  <1>18. CASE UNCHANGED vars
    BY <1>0, <1>18 DEF StructOK, vars, loader, firmware
  <1> QED
    BY <1>1, <1>2, <1>3, <1>4, <1>5, <1>6, <1>7, <1>8, <1>9, <1>10, <1>11,
       <1>12, <1>13, <1>14, <1>15, <1>16, <1>17, <1>18
    DEF Next, Step, Terminated

(* The blocks and counters are well typed.                                  *)
LEMMA MemoryStep == IInv /\ [Next]_vars => MemoryOK'
  <1> SUFFICES ASSUME IInv, [Next]_vars PROVE MemoryOK'
    OBVIOUS
  <1>0. MemoryOK
    BY TypeParts DEF IInv
  <1>t. { EfiReservedMemoryType, EfiBootServicesData, EfiMemoryMappedIOPortSpace }
          \subseteq EfiReservedMemoryType .. EfiPersistentMemory
    BY DEF EfiReservedMemoryType, EfiBootServicesData,
           EfiMemoryMappedIOPortSpace, EfiPersistentMemory
  <1>1. CASE OpenVolume \/ OpenKernel \/ GopMode
    BY <1>0, <1>1, <1>t, OrigamiLoaderAssumption DEF MemoryOK, Block, Owners,
           OpenVolume, OpenKernel, GopMode, Ok, Fail, NoAllocation, kept,
           outside
  <1>2. CASE LoadSection
    BY <1>0, <1>2, <1>t, OrigamiLoaderAssumption DEF MemoryOK, Block, Owners,
           LoadSection, Allocate, MapChanges, PauseBefore, Fail, NoAllocation,
           kept, outside
  <1>3. CASE TraceLoad
    BY <1>0, <1>3, <1>t, OrigamiLoaderAssumption DEF MemoryOK, Block, Owners,
           TraceLoad, PauseBefore, NoAllocation, kept, outside
  <1>4. CASE LoadElf
    BY <1>0, <1>4, <1>t, OrigamiLoaderAssumption DEF MemoryOK, Block, Owners,
           LoadElf, Allocate, MapChanges, Ok, Fail, NoAllocation, kept,
           outside
  <1>5. CASE AllocStruct
    BY <1>0, <1>5, <1>t, OrigamiLoaderAssumption DEF MemoryOK, Block, Owners,
           AllocStruct, Allocate, MapChanges, ReturnNull, EmptyStruct, kept,
           outside
  <1>6. CASE Framebuffer
    BY <1>0, <1>6, <1>t, OrigamiLoaderAssumption DEF MemoryOK, Block, Owners,
           Framebuffer, Allocate, MapChanges, ReturnNull, NoAllocation, GoOn,
           FramebufferBit, kept, outside
  <1>7. CASE Acpi
    BY <1>0, <1>7, <1>t, OrigamiLoaderAssumption DEF MemoryOK, Block, Owners,
           Acpi, Allocate, MapChanges, ReturnNull, NoAllocation, PauseBefore,
           RsdpType, kept, outside
  <1>8. CASE Epoch
    BY <1>0, <1>8, <1>t, OrigamiLoaderAssumption DEF MemoryOK, Block, Owners,
           Epoch, PauseBefore, NoAllocation, kept, outside
  <1>9. CASE Paging
    BY <1>0, <1>9, <1>t, OrigamiLoaderAssumption DEF MemoryOK, Block, Owners,
           Paging, Allocate, MapChanges, ReturnNull, PauseBefore, kept,
           outside
  <1>10. CASE MapSize
    BY <1>0, <1>10, <1>t, OrigamiLoaderAssumption DEF MemoryOK, Block, Owners,
           MapSize, Ok, Fail
  <1>11. CASE AllocMap
    BY <1>0, <1>11, <1>t, OrigamiLoaderAssumption DEF MemoryOK, Block, Owners,
           AllocMap, Allocate, MapChanges, ReturnNull, kept, outside
  <1>12. CASE GetMap
    BY <1>0, <1>12, <1>t, OrigamiLoaderAssumption DEF MemoryOK, Block, Owners,
           GetMap, Ok, Fail, MapFits, SpareDescriptors
  <1>13. CASE ExitBootServices
    BY <1>0, <1>13, <1>t, OrigamiLoaderAssumption DEF MemoryOK, Block, Owners,
           ExitBootServices, Ok, Fail, NoAllocation
  <1>14. CASE Convert
    BY <1>0, <1>14, <1>t, OrigamiLoaderAssumption DEF MemoryOK, Block, Owners,
           Convert, GoOn, firmware
  <1>15. CASE JumpToKernel
    BY <1>0, <1>15, <1>t, OrigamiLoaderAssumption DEF MemoryOK, Block, Owners,
           JumpToKernel, GoOn, firmware
  <1>16. CASE ResetConsole \/ PollKey \/ PollFails \/ PressKey
    BY <1>0, <1>16, <1>t, OrigamiLoaderAssumption DEF MemoryOK, Block, Owners,
           ResetConsole, PollKey, PollFails, PressKey, loader
  <1>17. CASE FirmwareEvent
    BY <1>0, <1>17, <1>t, OrigamiLoaderAssumption DEF MemoryOK, Block, Owners,
           FirmwareEvent, MapChanges, loader
  <1>18. CASE UNCHANGED vars
    BY <1>0, <1>18, <1>t, OrigamiLoaderAssumption DEF MemoryOK, Block, Owners,
           vars, loader, firmware
  <1> QED
    BY <1>1, <1>2, <1>3, <1>4, <1>5, <1>6, <1>7, <1>8, <1>9, <1>10, <1>11,
       <1>12, <1>13, <1>14, <1>15, <1>16, <1>17, <1>18
    DEF Next, Step, Terminated

(* An error is returned with its message; the kernel is started without one. *)
LEMMA ReportingStep == IInv /\ [Next]_vars => Reporting'
  <1> SUFFICES ASSUME IInv, [Next]_vars PROVE Reporting'
    OBVIOUS
  <1>0. Prompts /\ Reporting
    BY DEF IInv
  <1>1. CASE OpenVolume \/ OpenKernel \/ GopMode
    BY <1>0, <1>1 DEF Prompts, Reporting, Exited, OpenVolume, OpenKernel,
           GopMode, Ok, Fail, NoAllocation, kept, outside
  <1>2. CASE LoadSection
    BY <1>0, <1>2 DEF Prompts, Reporting, Exited, LoadSection, Allocate,
           MapChanges, PauseBefore, Fail, NoAllocation, kept, outside
  <1>3. CASE TraceLoad
    BY <1>0, <1>3 DEF Prompts, Reporting, Exited, TraceLoad, PauseBefore,
           NoAllocation, kept, outside
  <1>4. CASE LoadElf
    BY <1>0, <1>4 DEF Prompts, Reporting, Exited, LoadElf, Allocate,
           MapChanges, Ok, Fail, NoAllocation, kept, outside
  <1>5. CASE AllocStruct
    BY <1>0, <1>5 DEF Prompts, Reporting, Exited, AllocStruct, Allocate,
           MapChanges, ReturnNull, EmptyStruct, kept, outside
  <1>6. CASE Framebuffer
    BY <1>0, <1>6 DEF Prompts, Reporting, Exited, Framebuffer, Allocate,
           MapChanges, ReturnNull, NoAllocation, GoOn, FramebufferBit, kept,
           outside
  <1>7. CASE Acpi
    BY <1>0, <1>7 DEF Prompts, Reporting, Exited, Acpi, Allocate, MapChanges,
           ReturnNull, NoAllocation, PauseBefore, RsdpType, kept, outside
  <1>8. CASE Epoch
    BY <1>0, <1>8 DEF Prompts, Reporting, Exited, Epoch, PauseBefore,
           NoAllocation, kept, outside
  <1>9. CASE Paging
    BY <1>0, <1>9 DEF Prompts, Reporting, Exited, Paging, Allocate,
           MapChanges, ReturnNull, PauseBefore, kept, outside
  <1>10. CASE MapSize
    BY <1>0, <1>10 DEF Prompts, Reporting, Exited, MapSize, Ok, Fail
  <1>11. CASE AllocMap
    BY <1>0, <1>11 DEF Prompts, Reporting, Exited, AllocMap, Allocate,
           MapChanges, ReturnNull, kept, outside
  <1>12. CASE GetMap
    BY <1>0, <1>12 DEF Prompts, Reporting, Exited, GetMap, Ok, Fail, MapFits,
           SpareDescriptors
  <1>13. CASE ExitBootServices
    BY <1>0, <1>13 DEF Prompts, Reporting, Exited, ExitBootServices, Ok, Fail,
           NoAllocation
  <1>14. CASE Convert
    BY <1>0, <1>14 DEF Prompts, Reporting, Exited, Convert, GoOn, firmware
  <1>15. CASE JumpToKernel
    BY <1>0, <1>15 DEF Prompts, Reporting, Exited, JumpToKernel, GoOn,
           firmware
  <1>16. CASE ResetConsole \/ PollKey \/ PollFails \/ PressKey
    BY <1>0, <1>16 DEF Prompts, Reporting, Exited, ResetConsole, PollKey,
           PollFails, PressKey, loader
  <1>17. CASE FirmwareEvent
    BY <1>0, <1>17 DEF Prompts, Reporting, Exited, FirmwareEvent, MapChanges,
           loader
  <1>18. CASE UNCHANGED vars
    BY <1>0, <1>18 DEF Prompts, Reporting, Exited, vars, loader, firmware
  <1> QED
    BY <1>1, <1>2, <1>3, <1>4, <1>5, <1>6, <1>7, <1>8, <1>9, <1>10, <1>11,
       <1>12, <1>13, <1>14, <1>15, <1>16, <1>17, <1>18
    DEF Next, Step, Terminated

(* Every block is of its owner's type.                                      *)
LEMMA TypedStep == IInv /\ [Next]_vars => Typed'
  <1> SUFFICES ASSUME IInv, [Next]_vars PROVE Typed'
    OBVIOUS
  <1>0. Typed
    BY DEF IInv
  <1>1. CASE OpenVolume \/ OpenKernel \/ GopMode
    BY <1>0, <1>1 DEF Typed, TypeOfOwner, OpenVolume, OpenKernel, GopMode, Ok,
           Fail, NoAllocation, kept, outside
  <1>2. CASE LoadSection
    BY <1>0, <1>2 DEF Typed, TypeOfOwner, LoadSection, Allocate, MapChanges,
           PauseBefore, Fail, NoAllocation, kept, outside
  <1>3. CASE TraceLoad
    BY <1>0, <1>3 DEF Typed, TypeOfOwner, TraceLoad, PauseBefore,
           NoAllocation, kept, outside
  <1>4. CASE LoadElf
    BY <1>0, <1>4 DEF Typed, TypeOfOwner, LoadElf, Allocate, MapChanges, Ok,
           Fail, NoAllocation, kept, outside
  <1>5. CASE AllocStruct
    BY <1>0, <1>5 DEF Typed, TypeOfOwner, AllocStruct, Allocate, MapChanges,
           ReturnNull, EmptyStruct, kept, outside
  <1>6. CASE Framebuffer
    BY <1>0, <1>6 DEF Typed, TypeOfOwner, Framebuffer, Allocate, MapChanges,
           ReturnNull, NoAllocation, GoOn, FramebufferBit, kept, outside
  <1>7. CASE Acpi
    BY <1>0, <1>7 DEF Typed, TypeOfOwner, Acpi, Allocate, MapChanges,
           ReturnNull, NoAllocation, PauseBefore, RsdpType, kept, outside
  <1>8. CASE Epoch
    BY <1>0, <1>8 DEF Typed, TypeOfOwner, Epoch, PauseBefore, NoAllocation,
           kept, outside
  <1>9. CASE Paging
    BY <1>0, <1>9 DEF Typed, TypeOfOwner, Paging, Allocate, MapChanges,
           ReturnNull, PauseBefore, kept, outside
  <1>10. CASE MapSize
    BY <1>0, <1>10 DEF Typed, TypeOfOwner, MapSize, Ok, Fail
  <1>11. CASE AllocMap
    BY <1>0, <1>11 DEF Typed, TypeOfOwner, AllocMap, Allocate, MapChanges,
           ReturnNull, kept, outside
  <1>12. CASE GetMap
    BY <1>0, <1>12 DEF Typed, TypeOfOwner, GetMap, Ok, Fail, MapFits,
           SpareDescriptors
  <1>13. CASE ExitBootServices
    BY <1>0, <1>13 DEF Typed, TypeOfOwner, ExitBootServices, Ok, Fail,
           NoAllocation
  <1>14. CASE Convert
    BY <1>0, <1>14 DEF Typed, TypeOfOwner, Convert, GoOn, firmware
  <1>15. CASE JumpToKernel
    BY <1>0, <1>15 DEF Typed, TypeOfOwner, JumpToKernel, GoOn, firmware
  <1>16. CASE ResetConsole \/ PollKey \/ PollFails \/ PressKey
    BY <1>0, <1>16 DEF Typed, TypeOfOwner, ResetConsole, PollKey, PollFails,
           PressKey, loader
  <1>17. CASE FirmwareEvent
    BY <1>0, <1>17 DEF Typed, TypeOfOwner, FirmwareEvent, MapChanges, loader
  <1>18. CASE UNCHANGED vars
    BY <1>0, <1>18 DEF Typed, TypeOfOwner, vars, loader, firmware
  <1> QED
    BY <1>1, <1>2, <1>3, <1>4, <1>5, <1>6, <1>7, <1>8, <1>9, <1>10, <1>11,
       <1>12, <1>13, <1>14, <1>15, <1>16, <1>17, <1>18
    DEF Next, Step, Terminated

(* What the kernel needs has been allocated by the time it is needed.       *)
LEMMA KeptStep == IInv /\ [Next]_vars => Kept'
  <1> SUFFICES ASSUME IInv, [Next]_vars PROVE Kept'
    OBVIOUS
  <1>0. Kept /\ Prompts /\ StructOK
    BY TypeParts DEF IInv
  <1>k. \A o \in { "kernel", "pml3", "rsdp" } : Has(o) => Has(o)'
    BY OwnersKeep DEF Owners
  <1>1. CASE OpenVolume \/ OpenKernel \/ GopMode
    BY <1>0, <1>1, <1>k DEF Kept, Prompts, at, ImageLoaded, FramesDone,
           AcpiDone, EpochDone, TableMade, MapTaken, Exited, OpenVolume, OpenKernel,
           GopMode, Ok, Fail, NoAllocation, kept, outside
  <1>2. CASE LoadSection
    BY <1>0, <1>2, <1>k DEF Kept, Prompts, at, ImageLoaded, FramesDone,
           AcpiDone, EpochDone, TableMade, MapTaken, Exited, LoadSection, Allocate,
           MapChanges, PauseBefore, Fail, NoAllocation, kept, outside
  <1>3. CASE TraceLoad
    BY <1>0, <1>3, <1>k DEF Kept, Prompts, at, ImageLoaded, FramesDone,
           AcpiDone, EpochDone, TableMade, MapTaken, Exited, TraceLoad, PauseBefore,
           NoAllocation, kept, outside
  <1>4. CASE LoadElf
    <2>1. Has("kernel")' \/ pc' = "returned"
      BY <1>4, AllocatorHas DEF LoadElf, Fail
    <2> QED BY <1>0, <1>k, <1>4, <2>1 DEF Kept, LoadElf, Ok, Fail, kept, outside,
              at, ImageLoaded, FramesDone, AcpiDone, EpochDone, TableMade, MapTaken, Exited
  <1>5. CASE AllocStruct
    BY <1>0, <1>5, <1>k DEF Kept, Prompts, at, ImageLoaded, FramesDone,
           AcpiDone, EpochDone, TableMade, MapTaken, Exited, AllocStruct, Allocate,
           MapChanges, ReturnNull, EmptyStruct, kept, outside
  <1>6. CASE Framebuffer
    <2>1. at = "framebuffer" /\ at' = "acpi" /\ lost \subseteq lost'
      BY <1>6 DEF Framebuffer, GoOn, at, Allocate, ReturnNull, NoAllocation
    <2>2. struct'.rsdp = struct.rsdp
      <3>1. CASE struct' = [struct EXCEPT !.framebuffer = TRUE, !.optInfo = @ \cup { 6 }]
        BY <1>0, <3>1 DEF StructOK
      <3>2. CASE struct' = [struct EXCEPT !.optInfo = @ \cup { 6 }]
        BY <1>0, <3>2 DEF StructOK
      <3>3. CASE UNCHANGED struct
        BY <3>3
      <3> QED BY <1>6, <3>1, <3>2, <3>3, Zenon DEF Framebuffer, FramebufferBit
    <2> QED BY <1>0, <1>k, <2>1, <2>2 DEF Kept, ImageLoaded, FramesDone, AcpiDone, EpochDone,
              TableMade, MapTaken, Exited
  <1>7. CASE Acpi
    <2>1. \/ struct'.rsdp = struct.rsdp
          \/ Has("rsdp")'
      BY <1>0, <1>7, AllocatorHas DEF Acpi, StructOK
    <2>2. /\ at = "acpi" /\ at' \in { "epoch", "trace", "poll" }
          /\ lost \subseteq lost'
      BY <1>7 DEF Acpi, PauseBefore, at, Allocate, ReturnNull, NoAllocation
    <2> QED BY <1>0, <1>k, <2>1, <2>2 DEF Kept, ImageLoaded, FramesDone, AcpiDone, EpochDone,
              TableMade, MapTaken, Exited
  <1>8. CASE Epoch
    <2>1. /\ at = "epoch" /\ at' = "paging"
          /\ lost' = lost
      BY <1>8 DEF Epoch, PauseBefore, at, NoAllocation
    <2>2. struct'.rsdp = struct.rsdp
      BY <1>0, <1>8 DEF Epoch, StructOK
    <2> QED BY <1>0, <1>k, <2>1, <2>2 DEF Kept, ImageLoaded, FramesDone, AcpiDone, EpochDone,
              TableMade, MapTaken, Exited
  <1>9. CASE Paging
    <2>1. "pml3" \in lost' \/ Has("pml3")'
      BY <1>9, AllocatorHas DEF Paging, ReturnNull
    <2>2. at = "paging" /\ struct' = struct
      BY <1>9 DEF Paging, at
    <2> QED BY <1>0, <1>k, <2>1, <2>2 DEF Kept, ImageLoaded, FramesDone, AcpiDone, EpochDone,
              TableMade, MapTaken, Exited
  <1>10. CASE MapSize
    BY <1>0, <1>10, <1>k DEF Kept, Prompts, at, ImageLoaded, FramesDone,
           AcpiDone, EpochDone, TableMade, MapTaken, Exited, MapSize, Ok, Fail
  <1>11. CASE AllocMap
    BY <1>0, <1>11, <1>k DEF Kept, Prompts, at, ImageLoaded, FramesDone,
           AcpiDone, EpochDone, TableMade, MapTaken, Exited, AllocMap, Allocate,
           MapChanges, ReturnNull, kept, outside
  <1>12. CASE GetMap
    BY <1>0, <1>12, <1>k DEF Kept, Prompts, at, ImageLoaded, FramesDone,
           AcpiDone, EpochDone, TableMade, MapTaken, Exited, GetMap, Ok, Fail, MapFits,
           SpareDescriptors
  <1>13. CASE ExitBootServices
    BY <1>0, <1>13, <1>k DEF Kept, Prompts, at, ImageLoaded, FramesDone,
           AcpiDone, EpochDone, TableMade, MapTaken, Exited, ExitBootServices, Ok, Fail,
           NoAllocation
  <1>14. CASE Convert
    BY <1>0, <1>14, <1>k DEF Kept, Prompts, at, ImageLoaded, FramesDone,
           AcpiDone, EpochDone, TableMade, MapTaken, Exited, Convert, GoOn, firmware
  <1>15. CASE JumpToKernel
    BY <1>0, <1>15, <1>k DEF Kept, Prompts, at, ImageLoaded, FramesDone,
           AcpiDone, EpochDone, TableMade, MapTaken, Exited, JumpToKernel, GoOn, firmware
  <1>16. CASE ResetConsole \/ PollKey \/ PollFails \/ PressKey
    BY <1>0, <1>16, <1>k DEF Kept, Prompts, at, ImageLoaded, FramesDone,
           AcpiDone, EpochDone, TableMade, MapTaken, Exited, ResetConsole, PollKey,
           PollFails, PressKey, loader
  <1>17. CASE FirmwareEvent
    BY <1>0, <1>17, <1>k DEF Kept, Prompts, at, ImageLoaded, FramesDone,
           AcpiDone, EpochDone, TableMade, MapTaken, Exited, FirmwareEvent, MapChanges,
           loader
  <1>18. CASE UNCHANGED vars
    BY <1>0, <1>18, <1>k DEF Kept, Prompts, at, ImageLoaded, FramesDone,
           AcpiDone, EpochDone, TableMade, MapTaken, Exited, vars, loader, firmware
  <1> QED
    BY <1>1, <1>2, <1>3, <1>4, <1>5, <1>6, <1>7, <1>8, <1>9, <1>10, <1>11,
       <1>12, <1>13, <1>14, <1>15, <1>16, <1>17, <1>18
    DEF Next, Step, Terminated

(* The key follows the changes of the map.                                  *)
LEMMA KeyedStep == IInv /\ [Next]_vars => Keyed'
  <1> SUFFICES ASSUME IInv, [Next]_vars PROVE Keyed'
    OBVIOUS
  <1>0. TypeOK /\ Keyed /\ Prompts
    BY DEF IInv
  <1>1. CASE OpenVolume \/ OpenKernel \/ GopMode
    BY <1>0, <1>1 DEF TypeOK, Keyed, Prompts, MapTaken, Exited, OpenVolume,
           OpenKernel, GopMode, Ok, Fail, NoAllocation, kept, outside
  <1>2. CASE LoadSection
    BY <1>0, <1>2 DEF TypeOK, Keyed, Prompts, MapTaken, Exited, LoadSection,
           Allocate, MapChanges, PauseBefore, Fail, NoAllocation, kept,
           outside
  <1>3. CASE TraceLoad
    BY <1>0, <1>3 DEF TypeOK, Keyed, Prompts, MapTaken, Exited, TraceLoad,
           PauseBefore, NoAllocation, kept, outside
  <1>4. CASE LoadElf
    BY <1>0, <1>4 DEF TypeOK, Keyed, Prompts, MapTaken, Exited, LoadElf,
           Allocate, MapChanges, Ok, Fail, NoAllocation, kept, outside
  <1>5. CASE AllocStruct
    BY <1>0, <1>5 DEF TypeOK, Keyed, Prompts, MapTaken, Exited, AllocStruct,
           Allocate, MapChanges, ReturnNull, EmptyStruct, kept, outside
  <1>6. CASE Framebuffer
    BY <1>0, <1>6 DEF TypeOK, Keyed, Prompts, MapTaken, Exited, Framebuffer,
           Allocate, MapChanges, ReturnNull, NoAllocation, GoOn,
           FramebufferBit, kept, outside
  <1>7. CASE Acpi
    BY <1>0, <1>7 DEF TypeOK, Keyed, Prompts, MapTaken, Exited, Acpi,
           Allocate, MapChanges, ReturnNull, NoAllocation, PauseBefore,
           RsdpType, kept, outside
  <1>8. CASE Epoch
    BY <1>0, <1>8 DEF TypeOK, Keyed, Prompts, MapTaken, Exited, Epoch,
           PauseBefore, NoAllocation, kept, outside
  <1>9. CASE Paging
    BY <1>0, <1>9 DEF TypeOK, Keyed, Prompts, MapTaken, Exited, Paging,
           Allocate, MapChanges, ReturnNull, PauseBefore, kept, outside
  <1>10. CASE MapSize
    BY <1>0, <1>10 DEF TypeOK, Keyed, Prompts, MapTaken, Exited, MapSize, Ok,
           Fail
  <1>11. CASE AllocMap
    BY <1>0, <1>11 DEF TypeOK, Keyed, Prompts, MapTaken, Exited, AllocMap,
           Allocate, MapChanges, ReturnNull, kept, outside
  <1>12. CASE GetMap
    BY <1>0, <1>12 DEF TypeOK, Keyed, Prompts, MapTaken, Exited, GetMap, Ok,
           Fail, MapFits, SpareDescriptors
  <1>13. CASE ExitBootServices
    BY <1>0, <1>13 DEF TypeOK, Keyed, Prompts, MapTaken, Exited,
           ExitBootServices, Ok, Fail, NoAllocation
  <1>14. CASE Convert
    BY <1>0, <1>14 DEF TypeOK, Keyed, Prompts, MapTaken, Exited, Convert,
           GoOn, firmware
  <1>15. CASE JumpToKernel
    BY <1>0, <1>15 DEF TypeOK, Keyed, Prompts, MapTaken, Exited, JumpToKernel,
           GoOn, firmware
  <1>16. CASE ResetConsole \/ PollKey \/ PollFails \/ PressKey
    BY <1>0, <1>16 DEF TypeOK, Keyed, Prompts, MapTaken, Exited, ResetConsole,
           PollKey, PollFails, PressKey, loader
  <1>17. CASE FirmwareEvent
    BY <1>0, <1>17 DEF TypeOK, Keyed, Prompts, MapTaken, Exited,
           FirmwareEvent, MapChanges, loader
  <1>18. CASE UNCHANGED vars
    BY <1>0, <1>18 DEF TypeOK, Keyed, Prompts, MapTaken, Exited, vars, loader,
           firmware
  <1> QED
    BY <1>1, <1>2, <1>3, <1>4, <1>5, <1>6, <1>7, <1>8, <1>9, <1>10, <1>11,
       <1>12, <1>13, <1>14, <1>15, <1>16, <1>17, <1>18
    DEF Next, Step, Terminated

(* The map grows with the changes and no more.                              *)
LEMMA GrowthStep == IInv /\ [Next]_vars => Growth'
  <1> SUFFICES ASSUME IInv, [Next]_vars PROVE Growth'
    OBVIOUS
  <1>0. TypeOK /\ Growth /\ Prompts
    BY DEF IInv
  <1>1. CASE OpenVolume \/ OpenKernel \/ GopMode
    BY <1>0, <1>1, OrigamiLoaderAssumption DEF TypeOK, Growth, Prompts,
           OpenVolume, OpenKernel, GopMode, Ok, Fail, NoAllocation, kept,
           outside
  <1>2. CASE LoadSection
    BY <1>0, <1>2, OrigamiLoaderAssumption DEF TypeOK, Growth, Prompts,
           LoadSection, Allocate, MapChanges, PauseBefore, Fail, NoAllocation,
           kept, outside
  <1>3. CASE TraceLoad
    BY <1>0, <1>3, OrigamiLoaderAssumption DEF TypeOK, Growth, Prompts,
           TraceLoad, PauseBefore, NoAllocation, kept, outside
  <1>4. CASE LoadElf
    BY <1>0, <1>4, OrigamiLoaderAssumption DEF TypeOK, Growth, Prompts,
           LoadElf, Allocate, MapChanges, Ok, Fail, NoAllocation, kept,
           outside
  <1>5. CASE AllocStruct
    BY <1>0, <1>5, OrigamiLoaderAssumption DEF TypeOK, Growth, Prompts,
           AllocStruct, Allocate, MapChanges, ReturnNull, EmptyStruct, kept,
           outside
  <1>6. CASE Framebuffer
    BY <1>0, <1>6, OrigamiLoaderAssumption DEF TypeOK, Growth, Prompts,
           Framebuffer, Allocate, MapChanges, ReturnNull, NoAllocation, GoOn,
           FramebufferBit, kept, outside
  <1>7. CASE Acpi
    BY <1>0, <1>7, OrigamiLoaderAssumption DEF TypeOK, Growth, Prompts, Acpi,
           Allocate, MapChanges, ReturnNull, NoAllocation, PauseBefore,
           RsdpType, kept, outside
  <1>8. CASE Epoch
    BY <1>0, <1>8, OrigamiLoaderAssumption DEF TypeOK, Growth, Prompts, Epoch,
           PauseBefore, NoAllocation, kept, outside
  <1>9. CASE Paging
    BY <1>0, <1>9, OrigamiLoaderAssumption DEF TypeOK, Growth, Prompts,
           Paging, Allocate, MapChanges, ReturnNull, PauseBefore, kept,
           outside
  <1>10. CASE MapSize
    BY <1>0, <1>10, OrigamiLoaderAssumption DEF TypeOK, Growth, Prompts,
           MapSize, Ok, Fail
  <1>11. CASE AllocMap
    BY <1>0, <1>11, OrigamiLoaderAssumption DEF TypeOK, Growth, Prompts,
           AllocMap, Allocate, MapChanges, ReturnNull, kept, outside
  <1>12. CASE GetMap
    BY <1>0, <1>12, OrigamiLoaderAssumption DEF TypeOK, Growth, Prompts,
           GetMap, Ok, Fail, MapFits, SpareDescriptors
  <1>13. CASE ExitBootServices
    BY <1>0, <1>13, OrigamiLoaderAssumption DEF TypeOK, Growth, Prompts,
           ExitBootServices, Ok, Fail, NoAllocation
  <1>14. CASE Convert
    BY <1>0, <1>14, OrigamiLoaderAssumption DEF TypeOK, Growth, Prompts,
           Convert, GoOn, firmware
  <1>15. CASE JumpToKernel
    BY <1>0, <1>15, OrigamiLoaderAssumption DEF TypeOK, Growth, Prompts,
           JumpToKernel, GoOn, firmware
  <1>16. CASE ResetConsole \/ PollKey \/ PollFails \/ PressKey
    BY <1>0, <1>16, OrigamiLoaderAssumption DEF TypeOK, Growth, Prompts,
           ResetConsole, PollKey, PollFails, PressKey, loader
  <1>17. CASE FirmwareEvent
    BY <1>0, <1>17, OrigamiLoaderAssumption DEF TypeOK, Growth, Prompts,
           FirmwareEvent, MapChanges, loader
  <1>18. CASE UNCHANGED vars
    BY <1>0, <1>18, OrigamiLoaderAssumption DEF TypeOK, Growth, Prompts, vars,
           loader, firmware
  <1> QED
    BY <1>1, <1>2, <1>3, <1>4, <1>5, <1>6, <1>7, <1>8, <1>9, <1>10, <1>11,
       <1>12, <1>13, <1>14, <1>15, <1>16, <1>17, <1>18
    DEF Next, Step, Terminated

(* The struct holds what was asked for, one request after the other.        *)
LEMMA RequestedStep == IInv /\ [Next]_vars => Requested'
  <1> SUFFICES ASSUME IInv, [Next]_vars PROVE Requested'
    OBVIOUS
  <1>0. StructOK /\ Prompts /\ Requested
    BY TypeParts DEF IInv
  <1>1. CASE OpenVolume \/ OpenKernel \/ GopMode
    BY <1>0, <1>1 DEF StructOK, Requested, Prompts, at, ImageLoaded,
           FramesDone, AcpiDone, EpochDone, TableMade, MapTaken, Exited, OpenVolume,
           OpenKernel, GopMode, Ok, Fail, NoAllocation, kept, outside
  <1>2. CASE LoadSection
    BY <1>0, <1>2 DEF StructOK, Requested, Prompts, at, ImageLoaded,
           FramesDone, AcpiDone, EpochDone, TableMade, MapTaken, Exited, LoadSection,
           Allocate, MapChanges, PauseBefore, Fail, NoAllocation, kept,
           outside
  <1>3. CASE TraceLoad
    BY <1>0, <1>3 DEF StructOK, Requested, Prompts, at, ImageLoaded,
           FramesDone, AcpiDone, EpochDone, TableMade, MapTaken, Exited, TraceLoad,
           PauseBefore, NoAllocation, kept, outside
  <1>4. CASE LoadElf
    BY <1>0, <1>4 DEF StructOK, Requested, Prompts, at, ImageLoaded,
           FramesDone, AcpiDone, EpochDone, TableMade, MapTaken, Exited, LoadElf,
           Allocate, MapChanges, Ok, Fail, NoAllocation, kept, outside
  <1>5. CASE AllocStruct
    BY <1>0, <1>5 DEF StructOK, Requested, Prompts, at, ImageLoaded,
           FramesDone, AcpiDone, EpochDone, TableMade, MapTaken, Exited, AllocStruct,
           Allocate, MapChanges, ReturnNull, EmptyStruct, kept, outside
  <1>6. CASE Framebuffer
    <2>1. /\ at = "framebuffer" /\ at' = "acpi" /\ UNCHANGED boot
          /\ lost \subseteq lost'
      BY <1>6 DEF Framebuffer, GoOn, at, Allocate, ReturnNull, NoAllocation, outside
    <2>2. /\ struct'.rsdp = struct.rsdp /\ struct'.epoch = struct.epoch
          /\ lost' = {} => /\ struct'.framebuffer = ("framebuffer" \in boot.flags)
                           /\ (6 \in struct'.optInfo) = struct'.framebuffer
      <3>1. CASE "framebuffer" \notin boot.flags /\ UNCHANGED struct
        BY <1>0, <2>1, <3>1 DEF Requested, StructOK
      <3>2. CASE "framebuffer" \in boot.flags
                 /\ struct' = [struct EXCEPT !.framebuffer = TRUE, !.optInfo = @ \cup { 6 }]
        <4>1. struct'.framebuffer = TRUE /\ 6 \in struct'.optInfo
              /\ struct'.rsdp = struct.rsdp /\ struct'.epoch = struct.epoch
          BY <1>0, <3>2 DEF StructOK
        <4> QED BY <3>2, <4>1
      <3>3. CASE /\ "framebuffer" \in boot.flags /\ lost' # {}
                 /\ struct' = [struct EXCEPT !.optInfo = @ \cup { 6 }]
        BY <1>0, <3>3 DEF StructOK
      <3>4. ReturnNull("framebuffer") => lost' # {}
        BY DEF ReturnNull
      <3> QED BY <1>6, <3>1, <3>2, <3>3, <3>4, Zenon DEF Framebuffer, FramebufferBit
    <2>3. { 7, 4 } \subseteq struct'.optInfo
      BY <1>0, <1>6, <2>1 DEF Requested, StructOK, Framebuffer, FramebufferBit
    <2> QED BY <1>0, <2>1, <2>2, <2>3 DEF Requested, FramesDone, AcpiDone, EpochDone,
              TableMade, MapTaken, Exited
  <1>7. CASE Acpi
    <2>1. /\ at = "acpi" /\ at' = "epoch" /\ UNCHANGED boot
          /\ lost \subseteq lost'
      BY <1>7 DEF Acpi, PauseBefore, at, Allocate, ReturnNull, NoAllocation, outside
    <2>2. /\ struct'.framebuffer = struct.framebuffer /\ struct'.epoch = struct.epoch
          /\ (6 \in struct'.optInfo) = (6 \in struct.optInfo)
          /\ lost' = {} => struct'.rsdp = ("acpi" \in boot.flags /\ boot.acpi)
      <3>1. CASE UNCHANGED struct /\ ~("acpi" \in boot.flags /\ boot.acpi)
        BY <1>0, <2>1, <3>1 DEF Requested, StructOK
      <3>2. CASE "acpi" \in boot.flags /\ boot.acpi
                 /\ struct' = [struct EXCEPT !.rsdp = TRUE, !.optInfo = @ \cup { 4 }]
        <4>1. /\ struct'.rsdp = TRUE /\ struct'.optInfo = struct.optInfo \cup { 4 }
              /\ struct'.framebuffer = struct.framebuffer /\ struct'.epoch = struct.epoch
          BY <1>0, <3>2 DEF StructOK
        <4>2. (6 \in struct'.optInfo) = (6 \in struct.optInfo)
          BY <4>1
        <4>3. ("acpi" \in boot.flags /\ boot.acpi) = TRUE
          BY <3>2, Zenon
        <4> QED BY <4>1, <4>2, <4>3, Zenon
      <3>3. CASE /\ lost' # {}
                 /\ struct' = [struct EXCEPT !.optInfo = @ \cup { 4 }]
        <4>1. /\ struct'.optInfo = struct.optInfo \cup { 4 }
              /\ struct'.framebuffer = struct.framebuffer /\ struct'.epoch = struct.epoch
          BY <1>0, <3>3 DEF StructOK
        <4> QED BY <3>3, <4>1
      <3>4. ReturnNull("rsdp") => lost' # {}
        BY DEF ReturnNull
      <3> QED BY <1>7, <3>1, <3>2, <3>3, <3>4, Zenon DEF Acpi
    <2>3. { 7, 4 } \subseteq struct'.optInfo
      BY <1>0, <1>7, <2>1 DEF Requested, FramesDone, StructOK, Acpi
    <2> QED BY <1>0, <2>1, <2>2, <2>3 DEF Requested, FramesDone, AcpiDone, EpochDone,
              TableMade, MapTaken, Exited
  <1>8. CASE Epoch
    <2>1. /\ at = "epoch" /\ at' = "paging" /\ UNCHANGED boot /\ lost' = lost
      BY <1>8 DEF Epoch, PauseBefore, at, NoAllocation, outside
    <2>2. boot \in Boots /\ boot.clock \in BOOLEAN
      BY DEF IInv, TypeOK, Boots
    <2>3. /\ struct'.optInfo = struct.optInfo
          /\ struct'.framebuffer = struct.framebuffer /\ struct'.rsdp = struct.rsdp
      BY <1>0, <1>8, <2>2, EpochFills
    <2>4. struct'.epoch = ("epoch" \in boot.flags /\ boot.clock)
      <3>1. CASE "epoch" \in boot.flags
        <4>1. struct'.epoch = boot.clock
          BY <1>0, <1>8, <2>2, <3>1, EpochFills
        <4> QED BY <2>2, <3>1, <4>1
      <3>2. CASE "epoch" \notin boot.flags
        <4>1. struct'.epoch = struct.epoch /\ ~struct.epoch
          BY <1>0, <1>8, <2>1, <2>2, <3>2, EpochFills DEF Requested
        <4>2. struct.epoch \in BOOLEAN
          BY <1>0 DEF StructOK
        <4> QED BY <3>2, <4>1, <4>2
      <3> QED BY <3>1, <3>2
    <2>5. /\ 6 \in struct'.optInfo <=> 6 \in struct.optInfo
          /\ { 7, 4 } \subseteq struct'.optInfo
      BY <1>0, <2>1, <2>3 DEF Requested, FramesDone, AcpiDone
    <2> QED BY <1>0, <2>1, <2>3, <2>4, <2>5 DEF Requested, FramesDone, AcpiDone,
              EpochDone, TableMade, MapTaken, Exited
  <1>9. CASE Paging
    BY <1>0, <1>9 DEF StructOK, Requested, Prompts, at, ImageLoaded,
           FramesDone, AcpiDone, EpochDone, TableMade, MapTaken, Exited, Paging,
           Allocate, MapChanges, ReturnNull, PauseBefore, kept, outside
  <1>10. CASE MapSize
    BY <1>0, <1>10 DEF StructOK, Requested, Prompts, at, ImageLoaded,
           FramesDone, AcpiDone, EpochDone, TableMade, MapTaken, Exited, MapSize, Ok,
           Fail
  <1>11. CASE AllocMap
    BY <1>0, <1>11 DEF StructOK, Requested, Prompts, at, ImageLoaded,
           FramesDone, AcpiDone, EpochDone, TableMade, MapTaken, Exited, AllocMap,
           Allocate, MapChanges, ReturnNull, kept, outside
  <1>12. CASE GetMap
    BY <1>0, <1>12 DEF StructOK, Requested, Prompts, at, ImageLoaded,
           FramesDone, AcpiDone, EpochDone, TableMade, MapTaken, Exited, GetMap, Ok,
           Fail, MapFits, SpareDescriptors
  <1>13. CASE ExitBootServices
    BY <1>0, <1>13 DEF StructOK, Requested, Prompts, at, ImageLoaded,
           FramesDone, AcpiDone, EpochDone, TableMade, MapTaken, Exited,
           ExitBootServices, Ok, Fail, NoAllocation
  <1>14. CASE Convert
    BY <1>0, <1>14 DEF StructOK, Requested, Prompts, at, ImageLoaded,
           FramesDone, AcpiDone, EpochDone, TableMade, MapTaken, Exited, Convert, GoOn,
           firmware
  <1>15. CASE JumpToKernel
    BY <1>0, <1>15 DEF StructOK, Requested, Prompts, at, ImageLoaded,
           FramesDone, AcpiDone, EpochDone, TableMade, MapTaken, Exited, JumpToKernel,
           GoOn, firmware
  <1>16. CASE ResetConsole \/ PollKey \/ PollFails \/ PressKey
    BY <1>0, <1>16 DEF StructOK, Requested, Prompts, at, ImageLoaded,
           FramesDone, AcpiDone, EpochDone, TableMade, MapTaken, Exited, ResetConsole,
           PollKey, PollFails, PressKey, loader
  <1>17. CASE FirmwareEvent
    BY <1>0, <1>17 DEF StructOK, Requested, Prompts, at, ImageLoaded,
           FramesDone, AcpiDone, EpochDone, TableMade, MapTaken, Exited, FirmwareEvent,
           MapChanges, loader
  <1>18. CASE UNCHANGED vars
    BY <1>0, <1>18 DEF StructOK, Requested, Prompts, at, ImageLoaded,
           FramesDone, AcpiDone, EpochDone, TableMade, MapTaken, Exited, vars, loader,
           firmware
  <1> QED
    BY <1>1, <1>2, <1>3, <1>4, <1>5, <1>6, <1>7, <1>8, <1>9, <1>10, <1>11,
       <1>12, <1>13, <1>14, <1>15, <1>16, <1>17, <1>18
    DEF Next, Step, Terminated

(* ExitBootServices refuses a key only after a change by the firmware.      *)
LEMMA MapKeyStep == IInv /\ [Next]_vars => LoaderKeepsMapKey'
  <1> SUFFICES ASSUME IInv, [Next]_vars PROVE LoaderKeepsMapKey'
    OBVIOUS
  <1>0. Keyed /\ LoaderKeepsMapKey /\ Reporting /\ TypeOK
    BY DEF IInv
  <1>1. CASE OpenVolume \/ OpenKernel \/ GopMode
    BY <1>0, <1>1 DEF Keyed, Reporting, LoaderKeepsMapKey, TypeOK, OpenVolume,
           OpenKernel, GopMode, Ok, Fail, NoAllocation, kept, outside
  <1>2. CASE LoadSection
    BY <1>0, <1>2 DEF Keyed, Reporting, LoaderKeepsMapKey, TypeOK,
           LoadSection, Allocate, MapChanges, PauseBefore, Fail, NoAllocation,
           kept, outside
  <1>3. CASE TraceLoad
    BY <1>0, <1>3 DEF Keyed, Reporting, LoaderKeepsMapKey, TypeOK, TraceLoad,
           PauseBefore, NoAllocation, kept, outside
  <1>4. CASE LoadElf
    BY <1>0, <1>4 DEF Keyed, Reporting, LoaderKeepsMapKey, TypeOK, LoadElf,
           Allocate, MapChanges, Ok, Fail, NoAllocation, kept, outside
  <1>5. CASE AllocStruct
    BY <1>0, <1>5 DEF Keyed, Reporting, LoaderKeepsMapKey, TypeOK,
           AllocStruct, Allocate, MapChanges, ReturnNull, EmptyStruct, kept,
           outside
  <1>6. CASE Framebuffer
    BY <1>0, <1>6 DEF Keyed, Reporting, LoaderKeepsMapKey, TypeOK,
           Framebuffer, Allocate, MapChanges, ReturnNull, NoAllocation, GoOn,
           FramebufferBit, kept, outside
  <1>7. CASE Acpi
    BY <1>0, <1>7 DEF Keyed, Reporting, LoaderKeepsMapKey, TypeOK, Acpi,
           Allocate, MapChanges, ReturnNull, NoAllocation, PauseBefore,
           RsdpType, kept, outside
  <1>8. CASE Epoch
    BY <1>0, <1>8 DEF Keyed, Reporting, LoaderKeepsMapKey, TypeOK, Epoch,
           PauseBefore, NoAllocation, kept, outside
  <1>9. CASE Paging
    BY <1>0, <1>9 DEF Keyed, Reporting, LoaderKeepsMapKey, TypeOK, Paging,
           Allocate, MapChanges, ReturnNull, PauseBefore, kept, outside
  <1>10. CASE MapSize
    BY <1>0, <1>10 DEF Keyed, Reporting, LoaderKeepsMapKey, TypeOK, MapSize,
           Ok, Fail
  <1>11. CASE AllocMap
    BY <1>0, <1>11 DEF Keyed, Reporting, LoaderKeepsMapKey, TypeOK, AllocMap,
           Allocate, MapChanges, ReturnNull, kept, outside
  <1>12. CASE GetMap
    BY <1>0, <1>12 DEF Keyed, Reporting, LoaderKeepsMapKey, TypeOK, GetMap,
           Ok, Fail, MapFits, SpareDescriptors
  <1>13. CASE ExitBootServices
    BY <1>0, <1>13 DEF Keyed, Reporting, LoaderKeepsMapKey, TypeOK,
           ExitBootServices, Ok, Fail, NoAllocation
  <1>14. CASE Convert
    BY <1>0, <1>14 DEF Keyed, Reporting, LoaderKeepsMapKey, TypeOK, Convert,
           GoOn, firmware
  <1>15. CASE JumpToKernel
    BY <1>0, <1>15 DEF Keyed, Reporting, LoaderKeepsMapKey, TypeOK,
           JumpToKernel, GoOn, firmware
  <1>16. CASE ResetConsole \/ PollKey \/ PollFails \/ PressKey
    BY <1>0, <1>16 DEF Keyed, Reporting, LoaderKeepsMapKey, TypeOK,
           ResetConsole, PollKey, PollFails, PressKey, loader
  <1>17. CASE FirmwareEvent
    BY <1>0, <1>17 DEF Keyed, Reporting, LoaderKeepsMapKey, TypeOK,
           FirmwareEvent, MapChanges, loader
  <1>18. CASE UNCHANGED vars
    BY <1>0, <1>18 DEF Keyed, Reporting, LoaderKeepsMapKey, TypeOK, vars,
           loader, firmware
  <1> QED
    BY <1>1, <1>2, <1>3, <1>4, <1>5, <1>6, <1>7, <1>8, <1>9, <1>10, <1>11,
       <1>12, <1>13, <1>14, <1>15, <1>16, <1>17, <1>18
    DEF Next, Step, Terminated

(* GetMemoryMap refuses the buffer only after two.                          *)
LEMMA RoomStep == IInv /\ [Next]_vars => RoomForTheMap'
  <1> SUFFICES ASSUME IInv, [Next]_vars PROVE RoomForTheMap'
    OBVIOUS
  <1>0. TypeOK /\ Growth /\ RoomForTheMap /\ Reporting
    BY DEF IInv
  <1>1. CASE OpenVolume \/ OpenKernel \/ GopMode
    BY <1>0, <1>1, OrigamiLoaderAssumption DEF TypeOK, Growth, Reporting,
           RoomForTheMap, OpenVolume, OpenKernel, GopMode, Ok, Fail,
           NoAllocation, kept, outside
  <1>2. CASE LoadSection
    BY <1>0, <1>2, OrigamiLoaderAssumption DEF TypeOK, Growth, Reporting,
           RoomForTheMap, LoadSection, Allocate, MapChanges, PauseBefore,
           Fail, NoAllocation, kept, outside
  <1>3. CASE TraceLoad
    BY <1>0, <1>3, OrigamiLoaderAssumption DEF TypeOK, Growth, Reporting,
           RoomForTheMap, TraceLoad, PauseBefore, NoAllocation, kept, outside
  <1>4. CASE LoadElf
    BY <1>0, <1>4, OrigamiLoaderAssumption DEF TypeOK, Growth, Reporting,
           RoomForTheMap, LoadElf, Allocate, MapChanges, Ok, Fail,
           NoAllocation, kept, outside
  <1>5. CASE AllocStruct
    BY <1>0, <1>5, OrigamiLoaderAssumption DEF TypeOK, Growth, Reporting,
           RoomForTheMap, AllocStruct, Allocate, MapChanges, ReturnNull,
           EmptyStruct, kept, outside
  <1>6. CASE Framebuffer
    BY <1>0, <1>6, OrigamiLoaderAssumption DEF TypeOK, Growth, Reporting,
           RoomForTheMap, Framebuffer, Allocate, MapChanges, ReturnNull,
           NoAllocation, GoOn, FramebufferBit, kept, outside
  <1>7. CASE Acpi
    BY <1>0, <1>7, OrigamiLoaderAssumption DEF TypeOK, Growth, Reporting,
           RoomForTheMap, Acpi, Allocate, MapChanges, ReturnNull,
           NoAllocation, PauseBefore, RsdpType, kept, outside
  <1>8. CASE Epoch
    BY <1>0, <1>8, OrigamiLoaderAssumption DEF TypeOK, Growth, Reporting,
           RoomForTheMap, Epoch, PauseBefore, NoAllocation, kept, outside
  <1>9. CASE Paging
    BY <1>0, <1>9, OrigamiLoaderAssumption DEF TypeOK, Growth, Reporting,
           RoomForTheMap, Paging, Allocate, MapChanges, ReturnNull,
           PauseBefore, kept, outside
  <1>10. CASE MapSize
    BY <1>0, <1>10, OrigamiLoaderAssumption DEF TypeOK, Growth, Reporting,
           RoomForTheMap, MapSize, Ok, Fail
  <1>11. CASE AllocMap
    BY <1>0, <1>11, OrigamiLoaderAssumption DEF TypeOK, Growth, Reporting,
           RoomForTheMap, AllocMap, Allocate, MapChanges, ReturnNull, kept,
           outside
  <1>12. CASE GetMap
    BY <1>0, <1>12, OrigamiLoaderAssumption DEF TypeOK, Growth, Reporting,
           RoomForTheMap, GetMap, Ok, Fail, MapFits, SpareDescriptors
  <1>13. CASE ExitBootServices
    BY <1>0, <1>13, OrigamiLoaderAssumption DEF TypeOK, Growth, Reporting,
           RoomForTheMap, ExitBootServices, Ok, Fail, NoAllocation
  <1>14. CASE Convert
    BY <1>0, <1>14, OrigamiLoaderAssumption DEF TypeOK, Growth, Reporting,
           RoomForTheMap, Convert, GoOn, firmware
  <1>15. CASE JumpToKernel
    BY <1>0, <1>15, OrigamiLoaderAssumption DEF TypeOK, Growth, Reporting,
           RoomForTheMap, JumpToKernel, GoOn, firmware
  <1>16. CASE ResetConsole \/ PollKey \/ PollFails \/ PressKey
    BY <1>0, <1>16, OrigamiLoaderAssumption DEF TypeOK, Growth, Reporting,
           RoomForTheMap, ResetConsole, PollKey, PollFails, PressKey, loader
  <1>17. CASE FirmwareEvent
    BY <1>0, <1>17, OrigamiLoaderAssumption DEF TypeOK, Growth, Reporting,
           RoomForTheMap, FirmwareEvent, MapChanges, loader
  <1>18. CASE UNCHANGED vars
    BY <1>0, <1>18, OrigamiLoaderAssumption DEF TypeOK, Growth, Reporting,
           RoomForTheMap, vars, loader, firmware
  <1> QED
    BY <1>1, <1>2, <1>3, <1>4, <1>5, <1>6, <1>7, <1>8, <1>9, <1>10, <1>11,
       <1>12, <1>13, <1>14, <1>15, <1>16, <1>17, <1>18
    DEF Next, Step, Terminated

-----------------------------------------------------------------------------
(* The invariant holds at first, is kept by every step, and so always holds. *)
LEMMA Initially == Init => IInv
  <1> SUFFICES ASSUME Init PROVE IInv
    OBVIOUS
  <1> USE DEF Init
  <1>1. ControlOK
    BY DEF ControlOK, Calls
  <1>2. StructOK
    BY DEF StructOK, EmptyStruct
  <1>3. MemoryOK
    BY OrigamiLoaderAssumption
    DEF MemoryOK, Block, Owners, EfiBootServicesCode, EfiReservedMemoryType,
        EfiPersistentMemory
  <1>4. Prompts /\ Reporting /\ Growth
    BY DEF Prompts, Reporting, Growth, Exited
  <1>5. Typed
    BY DEF Typed, TypeOfOwner
  <1>6. Kept /\ Keyed /\ Requested
    BY DEF Kept, Keyed, Requested, EmptyStruct, at, ImageLoaded, FramesDone,
           AcpiDone, EpochDone, TableMade, MapTaken, Exited
  <1>7. LoaderKeepsMapKey /\ RoomForTheMap
    BY DEF LoaderKeepsMapKey, RoomForTheMap
  <1> QED BY <1>1, <1>2, <1>3, <1>4, <1>5, <1>6, <1>7, TypeParts DEF IInv

LEMMA Inductive == IInv /\ [Next]_vars => IInv'
  <1> SUFFICES ASSUME IInv, [Next]_vars PROVE IInv'
    OBVIOUS
  <1>1. TypeOK'
    BY ControlStep, StructStep, MemoryStep DEF TypeOK, ControlOK, StructOK, MemoryOK
  <1> QED
    BY <1>1, PromptsStep, ReportingStep, TypedStep, KeptStep, KeyedStep,
       GrowthStep, RequestedStep, MapKeyStep, RoomStep DEF IInv

LEMMA Invariance == Spec => []IInv
  BY Initially, Inductive, PTL DEF Spec

-----------------------------------------------------------------------------
(* Every state of a load is well typed; in particular every entry of the    *)
(* map the kernel gets has one of the types of the E820 map: no memory the  *)
(* loader or the firmware allocates meets the end of the table.             *)
THEOREM TypeCorrect == Spec => []TypeOK
  <1>1. IInv => TypeOK
    BY DEF IInv
  <1> QED BY <1>1, Invariance, PTL

(* However often the firmware changes its map, and at whatever time, the    *)
(* map the kernel is started with is the memory as it is then.              *)
THEOREM MapStaysCurrent == Spec => []MapIsCurrent
  <1>1. IInv => MapIsCurrent
    BY DEF IInv, MapIsCurrent, Keyed, MapTaken, Exited
  <1> QED BY <1>1, Invariance, PTL

(* ExitBootServices is never refused because of what the loader itself did. *)
THEOREM LoaderKeepsItsKey == Spec => []LoaderKeepsMapKey
  <1>1. IInv => LoaderKeepsMapKey
    BY DEF IInv
  <1> QED BY <1>1, Invariance, PTL

(* One change of the map between the two calls of GetMemoryMap never        *)
(* outgrows the buffer, if it adds up to five descriptors.                  *)
THEOREM BufferIsLargeEnough == Spec => []RoomForTheMap
  <1>1. IInv => RoomForTheMap
    BY DEF IInv
  <1> QED BY <1>1, Invariance, PTL

(* A load that gives up returns an error, and one that goes on had none.    *)
THEOREM FailuresAreReported == Spec => []FailureIsReported
  <1>1. IInv => FailureIsReported
    BY DEF IInv, FailureIsReported, Reporting, Exited
  <1> QED BY <1>1, Invariance, PTL

(* The kernel's image, its page table and its copy of the RSDP are in the   *)
(* map the kernel gets, and not as memory that is free.                     *)
THEOREM KernelMemoryIsKept == Spec => []KernelMemoryKept
  <1>1. IInv => KernelMemoryKept
    <2> SUFFICES ASSUME IInv, pc = "kernel",
                        NEW o \in { "kernel", "pml3", "rsdp" } \ lost,
                        o = "rsdp" => struct.rsdp
                 PROVE  /\ \E e \in struct.memmap : e.owner = o
                        /\ \A e \in struct.memmap : e.owner = o => e.type # E820_TYPE_RAM
      BY DEF KernelMemoryKept
    <2> DEFINE Entry(b) == [owner |-> b.owner, type |-> EfiTypeToE820Type[b.type]]
    <2>1. struct.memmap = { Entry(b) : b \in blocks }
      BY DEF IInv, Keyed
    <2>2. Has(o)
      BY DEF IInv, Kept, at, ImageLoaded, FramesDone, AcpiDone, EpochDone, TableMade,
             MapTaken, Exited
    <2>3. ASSUME NEW b \in blocks, b.owner = o
          PROVE  Entry(b).type # E820_TYPE_RAM
      <3>1. b.type = TypeOfOwner(o)
        BY <2>3 DEF IInv, Typed
      <3>2. EfiTypeToE820Type[TypeOfOwner(o)] # E820_TYPE_RAM
        BY KernelTypes
      <3> QED BY <3>1, <3>2
    <2>4. \A b \in blocks : Entry(b).owner = b.owner
      OBVIOUS
    <2> HIDE DEF Entry
    <2> QED BY <2>1, <2>2, <2>3, <2>4 DEF Has
  <1> QED BY <1>1, Invariance, PTL

(* Unless memory runs out, the kernel finds exactly what its header asked   *)
(* for and the machine has; the framebuffer's bit agrees, and the bits of   *)
(* the firmware and of ACPI are set, with or without ACPI.                  *)
THEOREM RequestsAreAnswered == Spec => []RequestsAnswered
  <1>1. ASSUME IInv PROVE RequestsAnswered
    <2> SUFFICES ASSUME pc = "kernel", lost = {}
                 PROVE  /\ struct.framebuffer = ("framebuffer" \in boot.flags)
                        /\ struct.rsdp = ("acpi" \in boot.flags /\ boot.acpi)
                        /\ struct.epoch = ("epoch" \in boot.flags /\ boot.clock)
                        /\ struct.optInfo =
                             { 7, 4 } \cup IF struct.framebuffer THEN { 6 } ELSE {}
      BY DEF RequestsAnswered
    <2>1. at = "kernel" /\ at \in FramesDone /\ at \in AcpiDone /\ at \in EpochDone
      BY DEF at, FramesDone, AcpiDone, EpochDone, TableMade, MapTaken, Exited
    <2>2. /\ struct.framebuffer = ("framebuffer" \in boot.flags)
          /\ struct.rsdp = ("acpi" \in boot.flags /\ boot.acpi)
          /\ struct.epoch = ("epoch" \in boot.flags /\ boot.clock)
          /\ (6 \in struct.optInfo) = struct.framebuffer
          /\ { 7, 4 } \subseteq struct.optInfo
      BY <1>1, <2>1, Zenon DEF IInv, Requested
    <2>3. struct.optInfo \subseteq { 4, 6, 7 } /\ struct.framebuffer \in BOOLEAN
      BY <1>1 DEF IInv, TypeOK
    <2> QED BY <2>2, <2>3
  <1> QED BY <1>1, Invariance, PTL

-----------------------------------------------------------------------------
(* SelectBestGopMode (GopMode.tla): what the call of the loader does, a      *)
(* program with a state of its own.                                          *)

(* The modes the search has looked at. *)
Seen == { j \in UsableModes : j < i }

(* Where the search stands: it has found nothing it could take, or the best *)
(* mode so far is one of those it has seen.                                 *)
Candidate ==
  \/ /\ best = [width |-> 0, height |-> 0] /\ good = current
     /\ \A j \in Seen : IsTooBig(modes[j])
  \/ /\ good \in Seen /\ ~IsTooBig(modes[good])
     /\ best = [width |-> modes[good].width, height |-> modes[good].height]

(* What is known of the candidate during the search ...                     *)
Searched ==
  call \in { "locate", "query" } =>
    /\ Candidate
    /\ \A j \in Seen : ~Asked(j)
    /\ \A j \in Seen : j > good => IsTooBig(modes[j]) \/ Larger(good, j)
    /\ IsChain => \A j \in Seen : IsTooBig(modes[j]) \/ j = good \/ Larger(good, j)

(* ... and of the mode that is settled on.                                  *)
SettledOn(m) ==
  /\ (\E j \in UsableModes : Asked(j)) => Asked(m) /\ m \in UsableModes
  /\ (\E j \in UsableModes : ~IsTooBig(modes[j])) => modes[m].usable
  /\ IsChain /\ request = [width |-> 0, height |-> 0] =>
       \A j \in UsableModes : j = m \/ Larger(m, j)
  /\ (\A j \in UsableModes : ~Asked(j)) =>
       \A j \in UsableModes : j > m => IsTooBig(modes[j]) \/ Larger(m, j)

(* The machine may be put into it. *)
Fits(m) == modes[m].usable /\ ~IsTooBig(modes[m])

Settled ==
  outcome = "success" /\ call \notin { "locate", "query" } =>
    /\ SettledOn(good)
    /\ good # current => Fits(good)
    /\ call # "set" => current = good

(* What the caller and the kernel are told is of the mode that is set.      *)
Told ==
  outcome = "success" =>
    /\ call \in { "report", "returned" } => output = Outputs(modes[current])
    /\ call = "returned" =>
         reported = [field \in DOMAIN Nothing |-> Outputs(modes[current])[field] % FieldValues]

GopIInv ==
  /\ GopTypeOK /\ Searched /\ Settled /\ Told
  /\ call # "returned" => outcome = "success"

LEMMA ModRange ==
  ASSUME NEW w \in Nat \ {0}, NEW a \in Nat PROVE a % w \in 0 .. w - 1
  BY SMT

-----------------------------------------------------------------------------
(* The modes of a well-typed state are modes, and their sizes are numbers a *)
(* request for no size does not reach.                                      *)
LEMMA ModesAre ==
  ASSUME GopTypeOK
  PROVE  /\ Len(modes) \in Nat /\ DOMAIN modes = 1 .. Len(modes)
         /\ \A j \in DOMAIN modes :
              /\ modes[j] \in Mode /\ modes[j].usable \in BOOLEAN
              /\ modes[j].width \in 1 .. MaxUintn - 1
              /\ modes[j].height \in 1 .. MaxUintn - 1
              /\ modes[j].scanline \in 1 .. MaxUintn - 1
  <1>1. modes \in Seq(Mode)
    BY DEF GopTypeOK
  <1>2. Len(modes) \in Nat /\ DOMAIN modes = 1 .. Len(modes)
    BY <1>1
  <1>3. \A j \in DOMAIN modes : modes[j] \in Mode
    BY <1>1, <1>2
  <1>4. \A m \in Mode : m \in [usable : BOOLEAN, width : 1 .. MaxUintn - 1,
                               height : 1 .. MaxUintn - 1, scanline : 1 .. MaxUintn - 1]
    BY GopModeAssumption
  <1> QED
    BY <1>2, <1>3, <1>4

LEMMA SizesAre ==
  ASSUME GopTypeOK
  PROVE  /\ MaxUintn \in Nat
         /\ Width \in 0 .. MaxUintn /\ Height \in 0 .. MaxUintn
         /\ request = [width |-> 0, height |-> 0] => Width = MaxUintn /\ Height = MaxUintn
  <1>1. request \in [width : 0 .. MaxUintn, height : 0 .. MaxUintn] /\ MaxUintn \in Nat
    BY GopModeAssumption DEF GopTypeOK
  <1> QED
    BY <1>1 DEF Width, Height, Wanted

LEMMA GopInitIInv == GopInit => GopIInv
  <1> SUFFICES ASSUME GopInit PROVE GopIInv
    OBVIOUS
  <1>1. PICK n \in 1 .. MaxModes : modes \in [1 .. n -> Mode] /\ current \in 1 .. n
    BY DEF GopInit
  <1>2. n \in Nat /\ n >= 1
    BY GopModeAssumption
  <1>3. modes \in Seq(Mode) /\ Len(modes) = n /\ DOMAIN modes = 1 .. n
    BY <1>1, <1>2
  <1>4. 0 \in 0 .. MaxUintn - 1
    <2>1. \A j \in 1 .. n : modes[j].width \in 1 .. MaxUintn - 1
      BY <1>1, GopModeAssumption
    <2> QED
      BY <1>1, <1>2, <2>1, GopModeAssumption
  <1>5. GopTypeOK
    <2>1. /\ output \in [DOMAIN Nothing -> 0 .. MaxUintn - 1]
          /\ reported \in [DOMAIN Nothing -> 0 .. FieldValues - 1]
      <3>1. DOMAIN Nothing = { "width", "height", "pitch" }
        BY DEF Nothing
      <3>2. \A f \in DOMAIN Nothing : Nothing[f] = 0
        BY <3>1 DEF Nothing
      <3>3. Nothing = [f \in DOMAIN Nothing |-> Nothing[f]]
        BY DEF Nothing
      <3>4. 0 \in 0 .. FieldValues - 1
        BY DEF FieldValues
      <3> QED
        BY <1>4, <3>2, <3>3, <3>4 DEF GopInit
    <2>2. Len(modes) \in 1 .. MaxModes /\ i \in 1 .. Len(modes) + 1
      BY <1>2, <1>3 DEF GopInit
    <2> QED
      BY <1>1, <1>3, <1>4, <2>1, <2>2 DEF GopInit, GopTypeOK
  <1>6. Seen = {}
    BY <1>2, <1>3 DEF Seen, UsableModes, GopInit
  <1>7. /\ call = "locate" /\ outcome = "success" /\ good = current
        /\ best = [width |-> 0, height |-> 0]
    BY DEF GopInit
  <1> QED
    BY <1>5, <1>6, <1>7 DEF GopIInv, Searched, Candidate, Settled, Told

LEMMA GopTypeStep == GopTypeOK /\ [GopNext]_gopVars => GopTypeOK'
  <1> SUFFICES ASSUME GopTypeOK, [GopNext]_gopVars PROVE GopTypeOK'
    OBVIOUS
  <1>0. /\ Len(modes) \in Nat /\ DOMAIN modes = 1 .. Len(modes)
        /\ \A j \in DOMAIN modes : /\ modes[j].width \in 0 .. MaxUintn - 1
                                   /\ modes[j].height \in 0 .. MaxUintn - 1
                                   /\ modes[j].scanline \in 0 .. MaxUintn - 1
    BY ModesAre
  <1>1. CASE LocateProtocol \/ SearchEnds \/ SetMode
    BY <1>1 DEF GopTypeOK, LocateProtocol, SearchEnds, SetMode, GiveUp, given
  <1>2. CASE QueryMode
    <2>1. i \in DOMAIN modes /\ UNCHANGED <<modes, request, current, output, reported>>
      BY <1>0, <1>2 DEF QueryMode, GopTypeOK, given
    <2>2. /\ i' \in 1 .. Len(modes) + 1 /\ good' \in DOMAIN modes
          /\ best' \in { best, [width |-> modes[i].width, height |-> modes[i].height] }
          /\ call' \in { "query", "set", "returned" } /\ outcome' \in { "success", "error" }
      BY <1>0, <1>2, <2>1 DEF QueryMode, GopTypeOK, Take, GiveUp
    <2>3. best' \in [width : 0 .. MaxUintn - 1, height : 0 .. MaxUintn - 1]
      BY <1>0, <2>1, <2>2 DEF GopTypeOK
    <2> QED
      BY <2>1, <2>2, <2>3 DEF GopTypeOK
  <1>3. CASE SetOutputs
    <2>1. output' \in [DOMAIN Nothing -> 0 .. MaxUintn - 1]
      BY <1>0, <1>3 DEF SetOutputs, Outputs, GopTypeOK, Nothing
    <2> QED
      BY <1>3, <2>1 DEF GopTypeOK, SetOutputs, given
  <1>4. CASE Report
    <2>1. ASSUME NEW n \in 0 .. MaxUintn - 1
          PROVE  n % FieldValues \in 0 .. FieldValues - 1
      <3>1. n \in Nat /\ FieldValues \in Nat \ {0}
        BY GopModeAssumption DEF FieldValues
      <3> QED
        BY <3>1, ModRange
    <2>2. reported' \in [DOMAIN Nothing -> 0 .. FieldValues - 1]
      BY <1>4, <2>1 DEF Report, GopTypeOK
    <2> QED
      BY <1>4, <2>2 DEF GopTypeOK, Report, given
  <1>5. CASE UNCHANGED gopVars
    BY <1>5 DEF GopTypeOK, gopVars, given
  <1> QED
    BY <1>1, <1>2, <1>3, <1>4, <1>5 DEF GopNext, Finished
LEMMA SearchedStep == GopIInv /\ [GopNext]_gopVars => Searched'
  <1> SUFFICES ASSUME GopIInv, [GopNext]_gopVars, call' \in { "locate", "query" }
               PROVE  Searched'
    BY DEF Searched
  <1>0. GopTypeOK /\ Searched /\ Len(modes) \in Nat /\ DOMAIN modes = 1 .. Len(modes)
    BY ModesAre DEF GopIInv
  <1>1. CASE UNCHANGED <<given, current, i, good, best>> /\ call \in { "locate", "query" }
    BY <1>0, <1>1 DEF Searched, Candidate, Seen, UsableModes, IsTooBig, IsChain, Asked,
                      Larger, Width, Height, given
  <1>2. CASE QueryMode
    <2>1. /\ i \in DOMAIN modes /\ i' = i + 1 /\ UNCHANGED <<given, current>>
          /\ call = "query"
      BY <1>0, <1>2 DEF QueryMode, GopTypeOK, GiveUp
    <2>2. /\ \A j : IsTooBig(modes[j])' <=> IsTooBig(modes[j])
          /\ \A j : Asked(j)' <=> Asked(j)
          /\ IsChain' <=> IsChain
          /\ \A j, k : Larger(j, k)' <=> Larger(j, k)
      BY <2>1 DEF IsTooBig, Asked, IsChain, Larger, UsableModes, Width, Height, given
    <2>3. /\ modes[i].width \in 1 .. MaxUintn - 1 /\ modes[i].height \in 1 .. MaxUintn - 1
          /\ \A j \in DOMAIN modes : modes[j].width \in Nat /\ modes[j].height \in Nat
      BY <1>0, <2>1, ModesAre, SizesAre
    <2>4. CASE /\ ~IsUsable(modes[i])
               /\ UNCHANGED <<good, best>>
      <3>1. Seen' = Seen
        BY <1>0, <2>1, <2>4 DEF Seen, UsableModes, IsUsable, given, GopTypeOK
      <3> QED
        BY <1>0, <2>1, <2>2, <2>4, <3>1 DEF Searched, Candidate, given
    <2>5. CASE IsUsable(modes[i]) /\ ~IsExact(modes[i])
      <3>1. Seen' = Seen \cup { i } /\ i \in UsableModes /\ i \notin Seen
        BY <1>0, <2>1, <2>5 DEF Seen, UsableModes, IsUsable, given, GopTypeOK
      <3>2. ~Asked(i)
        BY <2>5 DEF Asked, IsExact
      <3>3. Seen \subseteq UsableModes /\ UsableModes \subseteq DOMAIN modes
        BY DEF Seen, UsableModes
      <3>4. CASE IsTooBig(modes[i]) /\ UNCHANGED <<good, best>>
        BY <1>0, <2>1, <2>2, <3>1, <3>2, <3>4 DEF Searched, Candidate, given
      <3>5. CASE IsSmaller(modes[i]) /\ UNCHANGED <<good, best>>
        <4>1. /\ good \in Seen /\ ~IsTooBig(modes[good])
              /\ best = [width |-> modes[good].width, height |-> modes[good].height]
          BY <1>0, <2>1, <2>3, <3>5 DEF Searched, Candidate, IsSmaller
        <4>2. Larger(good, i)
          BY <4>1, <3>5 DEF IsSmaller, Larger
        <4> QED
          BY <1>0, <2>1, <2>2, <3>1, <3>2, <3>5, <4>1, <4>2 DEF Searched, Candidate, given
      <3>6. CASE ~IsTooBig(modes[i]) /\ ~IsSmaller(modes[i]) /\ Take(modes[i])
        <4>1. Candidate'
          BY <2>1, <2>2, <3>1, <3>6 DEF Candidate, Take, given
        <4>2. ASSUME IsChain, NEW j \in Seen
              PROVE  IsTooBig(modes[j]) \/ Larger(i, j)
          <5>1. CASE \A k \in Seen : IsTooBig(modes[k])
            BY <5>1, <4>2
          <5>2. CASE /\ good \in Seen
                     /\ best = [width |-> modes[good].width, height |-> modes[good].height]
            <6>1. Larger(i, good)
              <7>1. Larger(i, good) \/ Larger(good, i)
                BY <3>1, <3>3, <4>2, <5>2 DEF IsChain
              <7>2. ~Larger(good, i)
                BY <3>6, <5>2 DEF IsSmaller, Larger
              <7> QED
                BY <7>1, <7>2
            <6>2. IsTooBig(modes[j]) \/ j = good \/ Larger(good, j)
              BY <1>0, <2>1, <4>2 DEF Searched
            <6> QED
              BY <2>1, <2>3, <3>3, <4>2, <5>2, <6>1, <6>2 DEF Larger
          <5> QED
            BY <1>0, <2>1, <5>1, <5>2 DEF Searched, Candidate
        <4>3. good' = i /\ \A j \in Seen' : ~(j > good')
          BY <1>0, <2>1, <3>1, <3>6 DEF Take, Seen, UsableModes
        <4> QED
          BY <1>0, <2>1, <2>2, <3>1, <3>2, <3>6, <4>1, <4>2, <4>3 DEF Searched, Take
      <3> QED
        BY <1>2, <2>5, <3>4, <3>5, <3>6 DEF QueryMode, GiveUp
    <2> QED
      BY <1>2, <2>4, <2>5 DEF QueryMode, GiveUp
  <1> QED
    BY <1>1, <1>2 DEF GopNext, LocateProtocol, SearchEnds, SetMode, SetOutputs, Report,
                      GiveUp, Finished, gopVars

LEMMA SettledStep == GopIInv /\ [GopNext]_gopVars => Settled'
  <1> SUFFICES ASSUME GopIInv, [GopNext]_gopVars,
                      outcome' = "success", call' \notin { "locate", "query" }
               PROVE  /\ SettledOn(good)' /\ (call' # "set" => current' = good')
                      /\ (good # current => Fits(good))'
    BY DEF Settled
  <1>0. /\ GopTypeOK /\ Searched /\ Settled
        /\ Len(modes) \in Nat /\ DOMAIN modes = 1 .. Len(modes)
        /\ call # "returned" => outcome = "success"
    BY ModesAre DEF GopIInv
  <1>1. UNCHANGED given
    BY DEF GopNext, LocateProtocol, QueryMode, SearchEnds, SetMode, SetOutputs, Report,
           Finished, gopVars, given
  <1>2. \A m : SettledOn(m) => SettledOn(m)'
    BY <1>1 DEF SettledOn, IsTooBig, Asked, IsChain, Larger, UsableModes, Width, Height, given
  <1>2a. \A m : Fits(m) => Fits(m)'
    BY <1>1 DEF Fits, IsTooBig, Width, Height, given
  <1>3. CASE UNCHANGED good /\ call' # "set" /\ call \notin { "locate", "query" }
    BY <1>0, <1>2, <1>2a, <1>3 DEF Settled, GopNext, LocateProtocol, QueryMode, SearchEnds, SetMode,
           SetOutputs, Report, Finished, gopVars, GiveUp
  <1>4. CASE QueryMode /\ call' = "set"
    <2>1. i \in UsableModes /\ Asked(i) /\ good' = i /\ ~IsTooBig(modes[i])
      BY <1>0, <1>4, ModesAre, SizesAre
      DEF QueryMode, GopTypeOK, GiveUp, IsUsable, IsExact, IsTooBig, UsableModes, Asked
    <2>2. SettledOn(i)
      <3>1. request # [width |-> 0, height |-> 0]
        BY <1>0, <2>1, ModesAre, SizesAre DEF Asked, UsableModes
      <3> QED
        BY <2>1, <3>1 DEF SettledOn, UsableModes
    <2>3. Fits(i)
      BY <2>1 DEF Fits, UsableModes
    <2> QED
      BY <1>2, <1>2a, <1>4, <2>1, <2>2, <2>3
  <1>5. CASE SearchEnds
    <2>1. Seen = UsableModes /\ call = "query" /\ UNCHANGED good
      BY <1>0, <1>5 DEF SearchEnds, Seen, UsableModes, GopTypeOK
    <2>2. request = [width |-> 0, height |-> 0] => \A j \in UsableModes : ~IsTooBig(modes[j])
      BY <1>0, ModesAre, SizesAre DEF IsTooBig, UsableModes
    <2>3. SettledOn(good)
      BY <1>0, <2>1, <2>2 DEF SettledOn, Searched, Candidate, UsableModes
    <2>4. good # current => Fits(good)
      BY <1>0, <2>1 DEF Searched, Candidate, Fits, UsableModes
    <2>5. UNCHANGED <<good, current>> /\ call' = "set"
      BY <1>5 DEF SearchEnds
    <2> QED
      BY <1>2, <1>2a, <2>3, <2>4, <2>5
  <1>6. CASE UNCHANGED gopVars
    BY <1>0, <1>2, <1>2a, <1>6 DEF Settled, gopVars
  <1> QED
    BY <1>0, <1>3, <1>4, <1>5, <1>6
    DEF GopNext, LocateProtocol, QueryMode, SearchEnds, SetMode, SetOutputs, Report,
        Finished, GiveUp

LEMMA ToldStep == GopIInv /\ [GopNext]_gopVars => Told'
  <1> SUFFICES ASSUME GopIInv, [GopNext]_gopVars, outcome' = "success" PROVE Told'
    BY DEF Told
  <1>0. GopTypeOK /\ Told /\ (call # "returned" => outcome = "success")
    BY DEF GopIInv
  <1>1. CASE LocateProtocol \/ QueryMode \/ SearchEnds \/ SetMode
    BY <1>0, <1>1 DEF Told, LocateProtocol, QueryMode, SearchEnds, SetMode, GiveUp, GopTypeOK
  <1>2. CASE SetOutputs
    BY <1>2 DEF Told, SetOutputs, given
  <1>3. CASE Report
    BY <1>0, <1>3 DEF Told, Outputs, Report, Nothing, given
  <1>4. CASE UNCHANGED gopVars
    BY <1>0, <1>4 DEF Told, gopVars, given
  <1> QED
    BY <1>1, <1>2, <1>3, <1>4 DEF GopNext, Finished

LEMMA GopInvariance == GopSpec => []GopIInv
  <1>1. GopIInv /\ [GopNext]_gopVars => (call # "returned" => outcome = "success")'
    BY DEF GopIInv, GopNext, LocateProtocol, QueryMode, SearchEnds, SetMode, SetOutputs,
           Report, Finished, GiveUp, gopVars
  <1>2. GopIInv /\ [GopNext]_gopVars => GopIInv'
    BY <1>1, GopTypeStep, SearchedStep, SettledStep, ToldStep DEF GopIInv
  <1> QED
    BY <1>2, GopInitIInv, PTL DEF GopSpec

(* Every state of the search is well typed: the mode it looks at, the best   *)
(* one and the current one are modes of the firmware's list.                *)
THEOREM GopTypeCorrect == GopSpec => []GopTypeOK
  <1>1. GopIInv => GopTypeOK
    BY DEF GopIInv
  <1> QED
    BY <1>1, GopInvariance, PTL

(* The mode that is set (misc.c:53-70): for every list of modes in every     *)
(* order and every size asked for, of exactly that size if there is one, the *)
(* greatest if they can be compared, and usable if one that fits is.         *)
THEOREM TheModeIsChosen == GopSpec => []ModeIsChosen
  <1>1. GopIInv => ModeIsChosen
    <2> SUFFICES ASSUME GopIInv, Ready PROVE ModeIsChosen
      BY DEF ModeIsChosen, ExactModeWins, LargestOfAChain, UsableModeIsSet,
             NothingBetterFollows
    <2>1. current = good /\ SettledOn(good)
      BY DEF GopIInv, Settled, Ready
    <2> QED
      BY <2>1 DEF ModeIsChosen, ExactModeWins, LargestOfAChain, UsableModeIsSet,
                  NothingBetterFollows, SettledOn
  <1> QED
    BY <1>1, GopInvariance, PTL

(* The machine is put into no mode of another format and into none that is  *)
(* too big (misc.c:53-72), whatever modes there are and whichever call      *)
(* fails: when nothing fits it stays in the mode it was in.                 *)
THEOREM OnlyFittingModesAreTaken == GopSpec => OnlyFittingModesAreSet
  <1>1. GopIInv /\ [GopNext]_gopVars =>
          [current' # current => modes[current'].usable /\ ~IsTooBig(modes[current'])]_gopVars
    <2> SUFFICES ASSUME GopIInv, [GopNext]_gopVars, current' # current
                 PROVE  Fits(current')
      BY DEF Fits
    <2>1. SetMode /\ current' = good
      BY DEF GopNext, LocateProtocol, QueryMode, SearchEnds, SetMode, SetOutputs, Report,
             Finished, gopVars
    <2>2. call = "set" /\ outcome = "success"
      BY <2>1 DEF SetMode, GopIInv
    <2>3. good # current => Fits(good)
      BY <2>2 DEF GopIInv, Settled
    <2> QED
      BY <2>1, <2>3
  <1> QED
    BY <1>1, GopInvariance, PTL DEF GopSpec, OnlyFittingModesAreSet

(* What the kernel is told (Origami.c:98-101) is of the mode the firmware is *)
(* in, the one the search settled on, for modes of every size: the fields   *)
(* keep the low 16 bits of its numbers.                                     *)
THEOREM TheReportIsOfTheModeSet == GopSpec => []ReportIsOfTheModeSet
  <1>1. GopIInv => ReportIsOfTheModeSet
    BY DEF GopIInv, Settled, Told, Ready, ReportIsOfTheModeSet
  <1> QED
    BY <1>1, GopInvariance, PTL

-----------------------------------------------------------------------------
(* What is left of the search: the modes still to be looked at, and the     *)
(* calls after each call.                                                   *)
GopCallsAfter ==
  [locate |-> 5, query |-> 4, set |-> 3, output |-> 2, report |-> 1, returned |-> 0]

SearchLeft == Len(modes) + 1 - i + GopCallsAfter[call]

(* The search ends (misc.c:46-70): each of its steps leaves less to do, from *)
(* the number of modes and five more on.                                    *)
THEOREM SearchRunsDown ==
  GopSpec => /\ [](SearchLeft \in 0 .. Len(modes) + 5)
             /\ [][SearchLeft' < SearchLeft]_gopVars
  <1>1. GopIInv => SearchLeft \in 0 .. Len(modes) + 5
    BY ModesAre DEF GopIInv, GopTypeOK, SearchLeft, GopCallsAfter
  <1>2. GopIInv /\ [GopNext]_gopVars => [SearchLeft' < SearchLeft]_gopVars
    <2> SUFFICES ASSUME GopIInv, GopNext, ~UNCHANGED gopVars PROVE SearchLeft' < SearchLeft
      OBVIOUS
    <2>1. Len(modes) \in Nat /\ i \in 1 .. Len(modes) + 1
      BY ModesAre DEF GopIInv, GopTypeOK
    <2>2. CASE LocateProtocol \/ SearchEnds \/ SetMode
      BY <2>1, <2>2 DEF LocateProtocol, SearchEnds, SetMode, GiveUp, given, SearchLeft, GopCallsAfter
    <2>3. CASE QueryMode
      BY <2>1, <2>3 DEF QueryMode, GiveUp, given, SearchLeft, GopCallsAfter
    <2>4. CASE SetOutputs \/ Report
      BY <2>1, <2>4 DEF SetOutputs, Report, given, SearchLeft, GopCallsAfter
    <2> QED
      BY <2>2, <2>3, <2>4 DEF GopNext, Finished
  <1> QED
    BY <1>1, <1>2, GopInvariance, PTL DEF GopSpec

-----------------------------------------------------------------------------
(* The calls of LoadOrigamiKernel that are still to come after each, if     *)
(* none fails, and the steps of the loader that takes, a prompt being two.  *)
CallsAfter ==
  [openVolume |-> 17, openKernel |-> 16, loadSection |-> 15, trace2 |-> 14, loadElf |-> 13,
   allocStruct |-> 12, gopMode |-> 11, framebuffer |-> 10, acpi |-> 9, epoch |-> 8,
   paging |-> 7, mapSize |-> 6, allocMap |-> 5, getMap |-> 4, exitBootServices |-> 3,
   convert |-> 2, jump |-> 1, kernel |-> 0, returned |-> 0]

StepsLeft ==
  3 * CallsAfter[at] + IF pc = "trace" THEN 2 ELSE IF pc = "poll" THEN 1 ELSE 0

(* At most seventeen calls come after the first.                             *)
LEMMA StepsAreFew == IInv => StepsLeft \in 0 .. 51
  <1> SUFFICES ASSUME IInv PROVE StepsLeft \in 0 .. 51
    OBVIOUS
  <1>1. /\ at \in DOMAIN CallsAfter
        /\ pc \in { "trace", "poll" } => CallsAfter[at] \in 0 .. 14
    BY DEF IInv, TypeOK, Prompts, Calls, at, CallsAfter
  <1>2. \A c \in DOMAIN CallsAfter : CallsAfter[c] \in 0 .. 17
    BY DEF CallsAfter
  <1> QED
    BY <1>1, <1>2 DEF StepsLeft

(* Whatever a call of the loader does, fewer come after it.                 *)
LEMMA StepsFall == IInv /\ (Step \/ PollFails) => StepsLeft' < StepsLeft
  <1> SUFFICES ASSUME IInv, Step \/ PollFails PROVE StepsLeft' < StepsLeft
    OBVIOUS
  <1>1. CASE OpenVolume \/ OpenKernel \/ GopMode
    BY <1>1 DEF OpenVolume, OpenKernel, GopMode, Ok, Fail, StepsLeft, at, CallsAfter
  <1>2. CASE LoadSection \/ TraceLoad
    BY <1>2 DEF LoadSection, TraceLoad, PauseBefore, Fail, StepsLeft, at, CallsAfter
  <1>3. CASE LoadElf \/ MapSize \/ GetMap \/ ExitBootServices
    BY <1>3 DEF LoadElf, MapSize, GetMap, ExitBootServices, Ok, Fail, StepsLeft, at, CallsAfter
  <1>4. CASE AllocStruct \/ AllocMap
    BY <1>4 DEF AllocStruct, AllocMap, StepsLeft, at, CallsAfter
  <1>5. CASE Framebuffer \/ Convert \/ JumpToKernel
    BY <1>5 DEF Framebuffer, Convert, JumpToKernel, GoOn, StepsLeft, at, CallsAfter
  <1>6. CASE Acpi \/ Epoch \/ Paging
    BY <1>6 DEF Acpi, Epoch, Paging, PauseBefore, StepsLeft, at, CallsAfter
  <1>7. CASE ResetConsole
    BY <1>7 DEF ResetConsole, IInv, Prompts, loader, StepsLeft, at, CallsAfter
  <1>8. CASE PollKey \/ PollFails
    BY <1>8 DEF PollKey, PollFails, IInv, Prompts, loader, StepsLeft, at, CallsAfter
  <1> QED
    BY <1>1, <1>2, <1>3, <1>4, <1>5, <1>6, <1>7, <1>8 DEF Step

(* Nobody else moves the load on.                                           *)
LEMMA OthersWait == PressKey \/ FirmwareEvent => StepsLeft' = StepsLeft
  BY DEF PressKey, FirmwareEvent, loader, StepsLeft, at

(* What is left to do is bounded from the start, every step of the loader   *)
(* makes it less, and no event, timer or key makes it more: a load comes to *)
(* an end after 51 steps of its own at the latest (Origami.c:44-226).       *)
THEOREM LoadRunsDown ==
  Spec => /\ [](StepsLeft \in 0 .. 51)
          /\ [][/\ Step \/ PollFails => StepsLeft' < StepsLeft
                /\ PressKey \/ FirmwareEvent => StepsLeft' = StepsLeft]_vars
  <1>1. IInv /\ [Next]_vars =>
          [/\ Step \/ PollFails => StepsLeft' < StepsLeft
           /\ PressKey \/ FirmwareEvent => StepsLeft' = StepsLeft]_vars
    BY StepsFall, OthersWait
  <1> QED
    BY <1>1, StepsAreFew, Invariance, PTL DEF Spec
=============================================================================
