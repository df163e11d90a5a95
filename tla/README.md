# Origami in TLA+

Origami is a UEFI boot loader for x86-64 kernels: it shows a menu, reads a
configuration file, loads an ELF kernel, fills in the structure its boot
protocol promises (`src/spec/origami.h`), takes the memory map from the
firmware, leaves the boot services and jumps into the kernel.  Its own code is
about 650 lines of C and 25 of assembly (`src/src`); the rest of the
repository is EDK II support code (`src/libedk2`).

This directory holds TLA+ specifications of that code, configurations that
check them with TLC, and theorems about them that TLAPS proves for every value
of the constants.  `PROJECT.json` says, definition by definition, which lines
of the source each one stands for.

## 1. Inventory

There is one thread.  What makes the program hard is the firmware under it:
events and timers run between any two of its calls and change the memory map,
every call may fail, allocations may return nothing, and the keyboard is a
buffer that fills at any time.

| Component | Source | State | Operations | Where it is modelled |
|---|---|---|---|---|
| Entry point and menu | `main.c`, `Menu/Splash.c` | the local `Key` | constructors, `SplashScreen`'s polling loop, boot, reset, dead loop | `Menu`, `MenuBoot` |
| Prompts | `util/misc.c` `KeyWait` | the console's buffer of keystrokes | clear, poll, clear | `Menu`, `OrigamiLoader` |
| Kernel loading | `Loader/Origami.c` | `Status`, `Struct`, `Info`, `MapKey`, `Descriptors`, the pages it allocated | `LoadOrigamiKernel`, one call after the other | `OrigamiLoader` |
| Memory map conversion | `Loader/Origami.c:186-217` | the buffer of descriptors, `Index`, `Current`, `MemmapEntries` | the loop at the end of `LoadOrigamiKernel` | `MemoryTypes`, `E820Types`, `E820Map`, `E820InPlace` |
| Boot configuration | `Config/BootConfig.c` | `gEntry`, the file's position | `GetBootEntry`, `LoadBootEntry`, line by line | `BootConfig`, `MenuBoot`; one step of `Menu` |
| ELF loader | `Loader/ElfLoader.c` | pages of the kernel, `Info`, the two buffers of the section search | `FileRead`, `LoadSection`, `LoadElf` | `ElfLoader`, `ElfSection`, `KernelFile`, `KernelAddress`; two steps of `OrigamiLoader` |
| Graphics mode | `util/misc.c` `SelectBestGopMode` | the best mode so far, the firmware's current mode | the search over the modes, `SetMode`, the framebuffer structure | `GopMode`; one step of `OrigamiLoader` |
| Higher half | `Loader/Origami.c:148-163` | two page tables, CR0.WP | the writes to them | `HigherHalf`, `KernelEntry`; one step of `OrigamiLoader` |
| Jump | `Loader/Origami.asm` | the registers | `JumpToKernel` | `JumpToKernel`, `KernelEntry`; one step of `OrigamiLoader` |
| Reading lines | `libedk2/.../UefiFileHandleLib.c` | the file's position | `FileHandleReadLine` | a step of `BootConfig` |
| Copying | `libedk2/.../CopyMem.c` | memory | `CopyMem` | `MemoryCopy` |

How they interact: `EfiMain` calls `SplashScreen`, which calls `GetBootEntry`
and then `LoadOrigamiKernel` with the one global entry `gEntry`;
`LoadOrigamiKernel` calls the ELF loader, the mode search and the firmware in
turn.  Prompts and menu share the console's buffer; the loader and the
firmware's events share the memory map; the E820 map and the UEFI map share
one buffer.

### What is hard, and what must hold

* **The conversion in place.**  `Struct->Memmap` and `Descriptors` are the
  same memory.  Entries of 20 bytes are written over descriptors of 40 or more
  that are still to be read; the first one is written over the descriptor it is
  made from, so the order of its three assignments matters.  The kernel must
  find the map that a conversion into separate memory would have produced,
  and that map must say what the firmware's said: nothing lost, nothing
  invented, no overlap, neighbours merged, whatever order the firmware lists
  its descriptors in.
* **The memory map is a snapshot.**  Whatever is allocated or freed between
  `GetMemoryMap` and `ExitBootServices` makes it stale.  The map the kernel
  gets must be the memory as it is when the kernel starts; the loader itself
  must not spoil it; the buffer must be large enough although its own
  allocation adds to the map.
* **What the kernel goes on using** (its image, the page table, the RSDP) must
  be in the map and must not be called free RAM there.
* **Failures.**  Every call may fail, and the checks of three allocations
  are written so that they cannot.  A load that gives up must return an error,
  and one that did not must have gone well.
* **The configuration.**  One global entry is filled in over a whole file, line
  by line, and any call may fail and any copy be lost on the way.  What the
  loader then takes for granted (a file system, a path) must be there on
  success, and no handle may stay open.
* **The kernel's image.**  Segments come in any order, share address space with
  the firmware's pages, and may fail to load half-way.  What is in memory after
  a success must be the whole image, and nothing may ever be written to a page
  the firmware did not give.
* **The page tables in use.**  The loader and the firmware's interrupt handlers
  run on the tables that are being changed: between any two statements every
  address that is used must lead where it did, and none to a stale entry.
* **Arithmetic at the edges.**  Two's complement addresses, sizes in bytes and
  indices in characters, words and the bytes that do not fill one.
* **The keyboard.**  Keys typed ahead, keys left over, a keyboard that fails,
  a key variable nobody initialised: nothing must be booted or reset that the
  user did not ask for, no prompt answered by an earlier key, and no key that
  means something ignored.

`PROJECT.json` lists the hazards line by line with the properties that cover
them.

## 2. The modules

`MemoryTypes` is the two enumerations and the table that converts one into the
other, `E820Types` the descriptors and entries, the 64-bit arithmetic, and what
the firmware guarantees of a map.  Types are the real ones; the width of a word
(`Half`, the number of values of 32 bits), the page size and the maps are
constants.

`E820Map` is the **abstract specification** of the conversion: `Convert` takes
the next descriptor and lets the last entry grow or adds one.  A sequence of
entries beside the map, no buffer.

`E820InPlace` is the **code**: the buffer as 32-bit cells, and the loop one
statement at a time: `LookUpType`, the condition (`Contiguous`) with `Merge` or
`Advance`, then `WriteAddress`, `WriteSize`, `WriteType`.  Its property
`ImplementsE820Map` is `E820Map`'s specification under the refinement mapping
`done <- index, out <- Reported`, where `Reported` is what a reader finds in
the buffer, so a write that hits an entry or an unread descriptor shows.  The
four properties of the map (`NothingLost`, `NothingInvented`, `EntriesDisjoint`,
`NoMergeLeft`) are defined in `E820Map` and stated here of `Reported`.

`OrigamiLoader` is `LoadOrigamiKernel` up to the jump, one action per call it
makes, in the source's order, with the source's checks.  Memory is the set of
blocks somebody owns with its UEFI type; every allocation and every
`FirmwareEvent` changes the firmware's map key, and may add descriptors to the
map.  `lost` records the allocations that returned NULL, since the code goes on
after most of them.  `KeyWait` is `ResetConsole`, `PollKey`, `PollFails`.

`Menu` is everything that reads the keyboard: `EfiMain`, the loop of
`SplashScreen`, and the prompts inside the two calls a boot makes, which are
reduced to what the menu sees.  The console's buffer is a sequence of keys the
user appends to at any time, `key` the uninitialised variable.  Whether
`ReadKeyStroke` clears the key when none is waiting is up to the firmware
(the constant `ClearsKey`).

`BootConfig` is `GetBootEntry` and `LoadBootEntry`.  A configuration file is an
encoding and a sequence of lines; a line is what the parser tells apart (an
entry, one of three options, anything else), its text, and whether its length
fits.  `ReadLine` is `FileHandleReadLine` as the loop calls it (`ReadAsAscii`,
`Seen`, `Fits` are what it makes of a line), followed by one of `ParseEntry`,
`ParsePath`, `ParseCmdline`, `ParseTracing`, `Ignore`.  `Described` states
without a loop which entry a sequence of lines describes.

`MenuBoot` **composes** `Menu` and `BootConfig`: in place of the menu's one step
`BootEntry` stand the steps of `GetBootEntry`, with its prompt (`Ask`) and its
return.  The two share the prompt, the tracing flag and the status; `step` is
`BootConfig`'s program counter.  The properties of `Menu` are checked of the
composition.  `ImplementsMenu` is `Menu`'s specification with its fairness, so
that the composition is shown to refine the menu, and `LoadHasAnEntry` says what
the load may then take for granted.

`ElfLoader` is `LoadElf` over a memory of bytes and pages: a byte holds the
offset of a byte of the file, a zero the loader wrote, or what was there
before; a page is free, the firmware's or the kernel's.  `SegmentPages` is what
is asked of the firmware, `MayAllocate` when it agrees; a read may stop at any
byte.  `ElfSection` is `LoadSection`, with the pool it takes its buffers from.
`KernelFile` **composes** the two as `LoadOrigamiKernel` calls them: the header
first, and the image only if there is one of the right size, while the firmware
takes pages all the while.
`KernelAddress` is the one operator `LoadAddress` that `ElfLoader` and
`HigherHalf` must agree on.

`GopMode` is `SelectBestGopMode` and the framebuffer structure filled in from
its outputs; `IsUsable`, `IsExact`, `IsTooBig` and `IsSmaller` are the four
conditions of its loop, and `Outputs` what its outputs are of a mode: the
vertical resolution as the width, and a pitch in pixels.  The firmware's current
mode is a variable, since the
outputs are read from it and not from the search.  None of its names is one of
`OrigamiLoader`, of which the search is one step, so that one module can extend
both.

`HigherHalf` is the PML4 and the PML3s it leads to, with a gigabyte as the unit
of an address.  `Statements` is the order of the code, one action each;
`Translate` is what the processor finds at an address after any of them.  The
mask of an entry, the low bits of CR3 and the TLB are left out.

`JumpToKernel` is the assembly as a sequence of instructions over the registers.

`KernelEntry` **composes** `HigherHalf` and `JumpToKernel`, which run one after
the other at the end of `LoadOrigamiKernel`; what the loader does in between
touches neither the page tables nor those registers.

`MemoryCopy` is `CopyMem`: the size of a word by alignment, the direction by the
order of the buffers, one word or byte after the other.  The copies in 64-bit
words, in 32-bit words and in bytes are three copies of one loop in the source,
and one here (`word`).

The operators named as slips (`ContiguousAnyType`, `GetMapKeepingKey`, ...) are
variants of one definition with a plausible bug; `PROJECT.json` pairs each with
the property that notices it.

## 3. What TLC checks

| Run | What it shows |
|---|---|
| `MCE820InPlace.cfg` | no descriptor is overwritten before it is read (`UnreadIntact`); in the map the kernel finds nothing is lost (`NothingLost`), nothing is invented, and RAM is what the table calls RAM or else persistent memory (`NothingInvented`), no two entries overlap (`EntriesDisjoint`) and none are left to merge (`NoMergeLeft`); the loop implements `E820Map` (`ImplementsE820Map`) |
| `MCOrigamiLoader.cfg` | the map is current and was allocated (`MapIsCurrent`), the loader keeps its own key (`LoaderKeepsMapKey`), the buffer is large enough (`RoomForTheMap`), errors are reported (`FailureIsReported`), what the kernel needs is kept (`KernelMemoryKept`), the kernel has the framebuffer, the RSDP and the time exactly if it asked for them and the machine has them, with the bits of `OptInfo` the code sets (`RequestsAnswered`), every load ends (`LoadEnds`) |
| `MCBootConfig.cfg` | the entry is what the lines describe (`EntryIsDescribed`), a success can be booted (`BootableOnSuccess`), nothing stays open (`HandlesClosed`), every file is read to an end (`ParsingEnds`) |
| `MCMenuBoot.cfg` | menu, prompts and configuration together: boot and reset only on request (`ActsOnRequest`), prompts answered afresh (`PromptAnsweredAfresh`), keys acted upon (`KeyIsActedUpon`), the load starts with a whole entry and no open file (`LoadHasAnEntry`), and all of it implements `Menu` (`ImplementsMenu`) |
| `MCKernelFile.cfg` | the header is the first section of its name with its own size, the caller's pointer is untouched by a failure, the names are freed and nothing is loaded without a header (`HeaderIsFound`); after a success every byte is in place and `Info->Top` is the end (`ImageIsLoaded`); no foreign page is ever written to (`ForeignMemoryIntact`) |
| `MCGopMode.cfg` | a mode of the size asked for is set, the largest of a list of one aspect ratio is, a usable one is, and nothing that could have replaced it follows in the list (`ModeIsChosen`: `ExactModeWins`, `LargestOfAChain`, `UsableModeIsSet`, `NothingBetterFollows`); the machine is put into no mode of another format or too big, and stays in its own if there is no other (`OnlyFittingModesAreSet`); what the kernel is told is `Outputs` of the mode the machine is in (`ReportIsOfTheModeSet`) |
| `MCKernelEntry.cfg` | kernels are found where they were loaded (`KernelIsWhereItWasLoaded`); between any two statements the lower half stays, no stale entry is live and tables are written unprotected only (`TablesStayUsable`: `LowerHalfKept`, `NoJunk`, `WrittenUnprotected`); the arguments arrive, `rbp` is as the loader left it, `r8` holds the entry point, and the other registers are zero (`ArgumentsArrive`) |
| `MCMemoryCopy.cfg` | the copy is exact and nothing else is written (`CopyIsExact`) |
| `MCOutOfResources.cfg` | **violated**: `OutOfResourcesEndsTheLoad` |
| `MCEncoding.cfg` | **violated**: `EncodingIsKept` |
| `MCFramebuffer.cfg` | **violated**: `WidthOrPitchIsRight`, by a mode of which both are wrong |
| `MCPersistentMemory.cfg` | **violated**: `PersistentMemoryIsPersistent` |

Each passing run checks a type invariant as well.

### Bounds, and why they are enough

* Maps: all sequences of up to three of four regions, in every order, with
  every choice of four types.  Three regions touch and one is apart; sizes of
  one and two pages; addresses carry from the low to the high half of a word
  (`Half` is 256, `PageSize` 4).  The types are two that convert to RAM, the one
  past the end of the table and one past the end of the enumeration.  What an
  iteration does depends on the last entry and the next descriptor alone; three
  descriptors reach a merge after a merge, an addition after a merge, a merge
  after an addition, and neighbours in memory that are apart in the list.  The
  stride is the smallest there is (40 bytes), where entries come closest to
  unread descriptors; section 4 has the theorem for every stride.
* Loader: three events (`MaxEvents`) of up to four descriptors each
  (`MaxGrowth`).  With the loader's own allocation they can add sixteen
  descriptors between the two calls of `GetMemoryMap`, so the ten spare ones
  can be outgrown, but not by one event.  Every header (each of the three
  requests made or not), with and without ACPI and a clock that answers.
* Configuration: all files of up to three lines of eight kinds, and of four
  lines with two entries, a path and a command line, in both encodings.  A field
  depends on the first entry, the last one, and the last line of its own kind:
  four lines hold them all, in every order.
* Menu with configuration: a buffer of three keys holds an ordinary key, Enter
  and ESC in every order; the empty file, and files of three lines that name an
  entry, give it a path, turn tracing on, name another entry or are too long: a
  boot that prompts, one that does not, and every way to fail.
* ELF: four pages of two bytes, free or in use in every combination, one more
  taken by the firmware at any time, an address space of 32 bytes whose upper
  eight are the kernel's; kernels of up to two program headers out of nine,
  which touch, overlap, wrap to the same page from above and below, or are
  empty.  Two segments are enough for one to spoil another.
* Sections: tables of up to three, so that one may come before the match and one
  after it, of the header's size and of another.  All of them are tried with one
  image, and all images with one table: the two share nothing but the file.
* Modes: up to three, of nine sizes, usable or not, in every order; three is
  where an order can make the search settle on a mode that is beaten.
* Page tables: four entries each, the firmware's lowest table filled or not
  entry by entry, the PML4's other entries absent or in use.  The indices the
  code writes to (the middle one, the last one, the last two of the new table)
  are all different with four.  The registers that hold no argument hold
  something the kernel must not see, which is the hardest case for each.
* Copies: 24 bytes of memory and up to 13 bytes: a word of eight, one of four and
  a single byte, in every alignment and overlap.  Section 4 has the theorem.

### Fairness

The program is one thread that never blocks, so a step it can take is taken:
`WF_vars(Step)`.  In the loader and in the prompts, whoever turned tracing on
presses a key in the end, which is the only way a prompt ends on a working
console.  The prompt at the end of `BootConfig` is one step for the same reason,
and `MenuBoot` has the real one.
Nothing is assumed of the firmware's events, of failing calls or of a key in the
menu: `LoadEnds` holds whatever they do, and `KeyIsActedUpon` starts from a key
that was pressed.

### Findings

What a comment, a document or a test of the repository says and the code does
not do.  The first five are violated properties, the other two are stated by a
property that holds, the way the code has them:

1. `CHECK_STATUS(Struct != NULL, ...)` (`Origami.c:78`): a comparison is never
   an EFI error, so a load without memory for the struct goes on to the kernel
   (`OutOfResourcesEndsTheLoad`).  The same slip at line 181 is harmless:
   `GetMemoryMap` refuses the null pointer, and `MapIsCurrent` has that no such
   map reaches the kernel.
2. `Ascii` is set to TRUE for every line (`BootConfig.c:58`), while
   `FileHandleReadLine` looks for the file tag at position 0 only and asks
   (`UefiFileHandleLib.c:931`) that the value be kept: all but the first line of
   a UCS-2 file are lost (`EncodingIsKept`).
3. Width and height are exchanged on the way to the kernel (`misc.c:73-74`), ...
4. ... and the pitch is passed on in pixels (`Origami.c:100`), where the test
   kernel takes it for bytes (`tests/kernel.c:36`): `WidthOrPitchIsRight` asks
   for either to be right, and there are modes of which neither is.
5. `EfiTypeToE820Type` has no element for persistent memory, which is indexed
   all the same (`Origami.c:196-197`): the kernel gets whatever lies behind the
   table as the type (`ConvertedTypes`), while `spec/origami.h:31` has a type for
   it (`PersistentMemoryIsPersistent`).  That it may even be RAM, and that no
   other memory of the firmware can be taken for RAM this way, is
   `NothingInvented`.
6. `rbp` and `r8` are not cleared before the jump (`Origami.asm:7-25`), against
   `README.md:49`, by which all registers but `rdi` and `rsp` are 0.
   `ArgumentsArrive` states what the kernel finds in both.
7. Bit 4 of `OptInfo` is set from the start (`Origami.c:83`), while
   `spec/origami.h:65` says it is 0 on a system without ACPI.  `RequestsAnswered`
   states that it is always set.

Other divergences, which the models have as the code has them and which can be
read off one line, so that no property of their own states them:

* Bit 6 of `OptInfo` is set although there may have been no memory for the
  framebuffer structure (`Origami.c:95-104`, `origami.h:63`).
* The table calls the memory of the runtime services RAM (`Origami.c:27-28`),
  as `RamTypes` has it.
* `Key` is read before anything is stored in it (`Splash.c:44-47`): on a
  firmware that leaves it alone when no key is waiting (`ClearsKey` FALSE), the
  menu may boot or reset unasked.
* `LineSize` is 255, the characters of `Line` (`BootConfig.c:57`), and taken as
  bytes (`UefiFileHandleLib.c:938`): a line of more than 126 characters fails
  the boot (`Lengths`).
* A segment that begins inside a page, shares one with another segment or is
  empty ends the load (`ElfLoader.c:106`), which `README.md:7` calls complete
  (`MayAllocate`).
* `SelectBestGopMode` may settle on a mode that another one beats in width and
  in height (`misc.c:61-69`): a narrower but taller mode replaces the best one,
  and a third then replaces that.  `LargestOfAChain` is what does hold, and of
  any list `NothingBetterFollows`: what beats the mode that is set came before it.

## 4. What TLAPS proves

Each theorem is of a specification the runs check, for every value of the
constants its modules assume to be possible.  The invariants of the runs are
proved from inductive ones, named `IInv` (`FileIInv`, `EntryIInv`, `BootIInv`
in the compositions, `GopIInv` in `GopMode`, `CopyInvariant` in `MemoryCopy`), each with a lemma per
conjunct that has one step per action.

`E820Map_proofs`: `TypeCorrect`, `NothingIsLost`, `NothingIsInvented`,
`EntriesAreDisjoint`, `NothingLeftToMerge`: the type invariant and the four
properties of the map, for maps of every length and order.  Assumed is `E820TypesAssumption`: 32-bit values
are more than the E820 types, a page is not empty, and every map the firmware
returns is a finite sequence of disjoint descriptors that end below the end of
the address space.  The inductive invariant is `TypeOK /\ EndsTogether`: the last
entry ends exactly where the last converted descriptor ends.  It is needed
because the test of the code compares sums in 64-bit arithmetic: only an entry
known to end where a descriptor does is known not to wrap, and only then does
growing it add the addresses of the new descriptor and nothing else
(`StepRegions`).  What an entry of RAM may come from is a matter of the table and
of what lies behind it (`RamComesFrom`).  `EntriesDisjoint` needs `NothingInvented` as well: an
unconverted descriptor shares no address with an entry because every address of
an entry is of a converted one (`FreshDescriptor`).

`E820InPlace_proofs`: `TypeCorrect`, `NothingUnreadIsLost`,
`LoopImplementsE820Map`, `NothingIsLost`, `NothingIsInvented`,
`EntriesAreDisjoint`, `NothingLeftToMerge`: all the properties of the run, with a descriptor of at least 40
bytes, as its structure is (`E820InPlaceAssumption`).  The argument is a distance.
There are never more entries than descriptors converted and an entry is at most
half a descriptor, so every entry but the first ends before the descriptor being
read begins (`EntryCells`); the first one is written over the first descriptor,
each statement onto cells already read or never read (`Untouched`,
`SameUnread`).  The inductive invariant is `TypeOK /\ Counters /\ UnreadIntact /\
Iteration`: `Counters` relates `Index`, `Current` and `MemmapEntries`, and
`Iteration` says what the earlier statements of an iteration leave for the later
ones.  `ContiguousExtends` shows that the condition in the code, which reads the
buffer, is the abstract one; then `Merge` and `WriteType` are the two ways to
`Convert`, and every other statement changes nothing that is reported.
`E820Map_proofs` is instanced under the refinement mapping, so that its lemmas
speak of the buffer; the lemma `BufferIsInOrder` draws the conclusion, of which
the last four theorems are the parts.

`OrigamiLoader_proofs`: `TypeCorrect`, `MapStaysCurrent`, `LoaderKeepsItsKey`,
`BufferIsLargeEnough`, `FailuresAreReported`, `KernelMemoryIsKept`,
`RequestsAreAnswered`: all the invariants of the run, for any number of firmware
events that add any number of descriptors.  The inductive invariant says by how
far the load has come (`at`) what must be true.  The part about the map is
`Keyed`: from the second `GetMemoryMap` on the firmware's key is the loader's
plus the changes made since, and without such a change the map that was taken is
the memory.  `ExitBootServices` succeeds on equal keys only, hence on a current
map.  `Growth` counts the descriptors added since the size was asked, the
loader's own among them, which is what the ten spare ones are compared with.
`Kept` and `Typed` say who owns a block and as what it was allocated: nothing the
kernel needs is freed, and none of it is of a type that converts to RAM.
`RequestsAnswered` does not follow from the last step, since nothing looks at the
requests again: `Requested` carries each answer from the call that gave it, and
`EpochDone` says from where on the time is there exactly if it was asked for and
the clock answered.

`GopTypeCorrect`, `TheModeIsChosen`, `OnlyFittingModesAreTaken` and
`TheReportIsOfTheModeSet`, in the same module, are about `GopMode`, for every list of modes in every order.  `Searched`
is the invariant of the search: either nothing it has seen could be taken, or the
best mode is one it has seen (`Candidate`), none of those seen is the one asked
for, and if any two modes can be compared, the best one is the greatest of those
that fit.  It does not say more because the search may settle on a mode that is
beaten (section 3).  `Settled` carries what follows at the end of the loop over
`SetMode`, and `Told` to the structure, whose fields keep the low 16 bits of
numbers of any size.

`BootConfig_proofs`: `TypeCorrect`, `EntryFollowsTheFile`, `SuccessIsBootable`,
`NoHandleIsLeft`, for files of every length.  `EntryIsDescribed` compares an entry
that is filled in step by step with the description of all the lines read; the
lemma `DescriptionGrows` is that one more line changes the description the way
parsing it changes the entry (`LastTextGrows` for the lines of one kind), as long
as no copy of a string was lost.  `Staged` and `Filled` say, for each point of the program, which handles are open
and which fields are set.  `BootConfigAssumption` says that `"yes"` is among the
texts of a line, that the absence of a text is not, and that a file is a finite
sequence of lines.

`MenuBoot_proofs`: `BootTypeCorrect`, `LoadsAnEntry`,
`BootPromptsAreAnsweredAfresh`, `BootRequestsAreActedOn` and `BootRefinesMenu`,
with the same for the menu alone, for every size of the console's buffer but
zero.  The invariants of the menu relate its key and the keys in the buffer to
those typed since it was shown (`Requested`), and the end of a prompt to the keys
after it (`Answered`).  `BootRefinesMenu` shows that every step of the
composition is a step of the menu or changes nothing of it; the end of
`GetBootEntry` is the menu's `BootEntry`, which is where the invariants of the
parser are needed, and `Joined`, which says where the two programs stand
relative to each other.  The properties of the menu then hold of the composition
because they hold of the menu.  `ActsOnRequest` has the hypothesis `ClearsKey`
(section 3, findings: without it the property is false), and the run is of
such a firmware.

`KernelFile_proofs`: `FileTypeCorrect`, `TheHeaderIsFound`, `TheImageIsLoaded`,
`ForeignMemoryIsIntact`, for any number of sections and segments in any order, any
memory and page size, and any allocation of the firmware in between.  Of the
section search the invariant says which section each pointer may be of
(`Searched`, `Handed`).  Of the image, `Allocated` says that the pages of the
segments loaded so far are the kernel's and apart from those of the segment
being read.  The code never compares segments: it holds because the firmware
gives away free pages only.  Hence what is read and zeroed now disturbs neither
earlier segments (`Written`) nor anybody else's page, and `Topped` says that
`Info->Top` is the greatest end so far.  `ElfLoaderAssumption` has memory end
below the end of the address space: a segment that ended exactly there would
wrap `Info->Top` to zero.

`KernelEntry_proofs`: `EntryTypeCorrect`, `TheKernelIsWhereItWasLoaded`,
`TablesRemainUsable`, `TheArgumentsArrive`, for tables of every even size from four
on and every address space they divide.  `Mapped` is what is written after each
statement, and that only the last entry of the PML4 leads to the new table, only
once it has been cleared; an address below the middle thus never meets what is
written (`TablesStayUsable`).  `Executed` is what each register holds after each
instruction.

`MemoryCopy_proofs`: `TypeCorrect`, `CopyIsCorrect` and `NothingElseIsWritten` (at
every step, not only at the end), for
buffers of every length, alignment and overlap, with only the assumption that
memory is finite.  The inductive invariant is `CopyInvariant`: at every offset
the destination holds what it should if it has been copied, and what it held
before if not; nothing outside it has changed.  It is enough because of the
direction: a source byte inside the destination lies, upwards, further up than
what is being copied, and downwards no further up, so it has not been
overwritten yet (`UpwardsStep`, `DownwardsStep`).  `SizeFits` says that a word
never runs past the end, in either direction.

**That things end.**  Liveness is beyond TLAPS, but not what it rests on.  For every
program here a number of steps left is defined (`StepsLeft`, `SearchLeft`,
`LoadLeft`), and the theorem is that it is bounded, that each step of the program
makes it less, and that nobody else changes it:

| Theorem | of | at most |
|---|---|---|
| `LoadRunsDown` | `LoadOrigamiKernel` with its prompts | 51, whatever the firmware and the user do meanwhile |
| `SearchRunsDown` | `SelectBestGopMode` | the modes and 5 |
| `ParsingRunsDown`, `BootRunsDown` | `GetBootEntry`, alone and under the menu | twice the lines and 9 |
| `FileRunsDown` | `LoadSection` and `LoadElf` | the sections and 8, four times the segments and 5 |
| `LoopRunsDown` | the conversion in place | five times the descriptors and 5 |
| `CopyRunsDown` | `CopyMem` | the bytes and 2 |

In the load the steps are those of the calls to come, three for each, since a
prompt before one takes two.  The conversion is where this could fail
unnoticed, as it writes to the memory that its conditions read; in the copy it
is that no step copies nothing.  `KeysComeNearer` and `BootKeysComeNearer` are the
same for `KeyIsActedUpon`: a key in the buffer that means something (`Waiting`)
comes one read nearer with each step of the menu, unless it or one before it is
acted upon, and no key pressed later moves it back.

Only model-checked, with TLC: what remains of the liveness properties (`LoadEnds`,
`ParsingEnds`, `KeyIsActedUpon`, the fairness in `ImplementsMenu`), which is that a
program that is not at its end can take a step, and that under the fairness
assumed it does.  The four properties found violated (section 3) are refuted by
their runs.

## 5. What is not modelled

* The contents of the kernel, the struct's wording, and printing.
* In `BootConfig`: the spellings of an option (`PATH` and `KERNEL_PATH` are one
  kind), how `StrnCmp` and `StrStr` make an option and a value of a line, and the
  empty line that the last byte of a UCS-2 file is read as.
* Kernels whose segments have more bytes in the file than in memory
  (`ElfLoaderAssumption`): they are not ELF files, and what the code then
  overwrites depends on what lies behind the segment.
* A write through a null pointer: the model records that the allocation failed
  (`lost`) and goes on as the code does; what such a write hits is up to the
  firmware's page tables.  For the same reason `HigherHalf` has its table.
* Which of the two ACPI tables is found: `OrigamiLoader` has one flag for both.
* Modes wider or higher than 65535, which the 16-bit fields of the framebuffer
  structure cut off: `Report` has it and the theorem includes them, but no
  instance for TLC has such a mode.
* A kernel that reuses memory the map calls RAM although the struct, the
  E820 map and the framebuffer structure are in it.
* The conversion of the clock to the epoch (`TimeBaseLib.c`): arithmetic on one
  value, without state.  `FileHandleReadLine` has the one step it is in
  `BootConfig`, as this loader calls it.
* EDK II beyond what the code uses of it.  Nearly all of `libedk2` is code and
  headers the loader never calls (device paths, safe strings, ACPI and CPU
  register definitions), so the share of the repository's lines that the
  modules cover is small, while all of `src/src` is covered.

## 6. Plan

`ElfLoader` and `GopMode` composed with `OrigamiLoader` in place of their steps, as
`MenuBoot` composes `BootConfig` with `Menu`.
