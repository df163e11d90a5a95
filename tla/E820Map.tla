------------------------------- MODULE E820Map -------------------------------
(***************************************************************************)
(* What the conversion of the memory map promises, whatever memory it      *)
(* works in: the descriptors of the UEFI map are taken in order and each   *)
(* one either extends the last E820 entry or starts a new one.             *)
(*                                                                         *)
(* E820InPlace.tla is the code, which builds the entries on top of the     *)
(* descriptors it has yet to read, and implements this specification.      *)
(***************************************************************************)
EXTENDS E820Types

VARIABLES
  map,    \* the map GetMemoryMap returned, which never changes
  done,   \* how many of its descriptors are converted
  out     \* the E820 entries the kernel will see

vars == <<map, done, out>>

Init ==
  /\ map \in Maps
  /\ done = 0
  /\ out = << >>

-----------------------------------------------------------------------------
(* Does a descriptor converted to type v continue the last entry? *)
Extends(d, v) ==
  /\ out # << >>
  /\ out[Len(out)].type = v
  /\ (out[Len(out)].address + out[Len(out)].size) % Word = d.start

Grow(d) ==
  out' = [out EXCEPT ![Len(out)].size = (@ + PagesToSize(d.pages)) % Word]

Add(d, v) ==
  out' = Append(out, [address |-> d.start,
                      size    |-> PagesToSize(d.pages),
                      type    |-> v])

Convert ==
  /\ done < Len(map)
  /\ LET d == map[done + 1] IN
       \E v \in ConvertedTypes(d.type) :
          \/ Extends(d, v) /\ Grow(d)
          \/ ~Extends(d, v) /\ Add(d, v)
  /\ done' = done + 1
  /\ UNCHANGED map

Next == Convert

Spec == Init /\ [][Next]_vars

-----------------------------------------------------------------------------
TypeOK ==
  /\ map \in Maps
  /\ done \in 0 .. Len(map)
  /\ out \in Seq(Entry)

(* Nothing is lost: every address of a converted descriptor is covered by   *)
(* an entry whose type that descriptor converts to.                         *)
NothingLost ==
  \A i \in 1 .. done : \A a \in DescriptorRegion(map[i]) :
     \E j \in 1 .. Len(out) : /\ a \in EntryRegion(out[j])
                              /\ out[j].type \in ConvertedTypes(map[i].type)

(* Nothing is invented: an entry covers only addresses of descriptors that  *)
(* convert to its type.  What an entry calls RAM the firmware called memory  *)
(* the table has as RAM, or persistent memory: the table has no element for  *)
(* that type, and what lies behind it may be the number of RAM.  For any     *)
(* other type the firmware uses, RAM is never reported in its place.         *)
NothingInvented ==
  \A j \in 1 .. Len(out) : \A a \in EntryRegion(out[j]) :
     \E i \in 1 .. done :
        /\ a \in DescriptorRegion(map[i])
        /\ out[j].type \in ConvertedTypes(map[i].type)
        /\ out[j].type = E820_TYPE_RAM =>
             \/ map[i].type \in RamTypes
             \/ map[i].type = EfiPersistentMemory /\ E820_TYPE_RAM \in StrayTypes

(* No two entries claim the same address. *)
EntriesDisjoint ==
  \A i, j \in 1 .. Len(out) :
     i # j => EntryRegion(out[i]) \cap EntryRegion(out[j]) = {}

(* The map is as short as merging neighbours can make it: two consecutive   *)
(* entries of one type are never adjacent.                                  *)
NoMergeLeft ==
  \A i \in 1 .. Len(out) - 1 :
     out[i].type = out[i + 1].type
       => (out[i].address + out[i].size) % Word # out[i + 1].address
=============================================================================
