----------------------------- MODULE ElfSection -------------------------------
(***************************************************************************)
(* LoadSection (src/Loader/ElfLoader.c): the search of the kernel's file   *)
(* for the section of a given name, and the two buffers it takes from the  *)
(* pool on the way.  Every read and every allocation may fail.             *)
(*                                                                         *)
(* Of a section's name the search sees whether it is the one asked for;    *)
(* a name outside the table of names is read from whatever follows it.     *)
(***************************************************************************)
EXTENDS Naturals, Sequences

CONSTANTS
  Sizes,       \* sh_size: natural numbers
  MaxSections  \* bound: e_shnum

Section == [name : { "asked", "other", "outside" }, size : Sizes]

Files == [valid : BOOLEAN, sections : UNION { [1 .. n -> Section] : n \in 0 .. MaxSections }]

VARIABLES
  file,       \* File
  pc,         \* the next call
  i,          \* the section headers read; Section is the last of them
  newBuffer,  \* NewBuffer: the section it is for, or null
  pool,       \* the buffers taken and not given back
  output,     \* *Buffer, as the section that is in it, and *Size
  status      \* Status

vars == <<file, pc, i, newBuffer, pool, output, status>>

Null == 0

Init ==
  /\ file \in Files
  /\ pc = "header"
  /\ i = 0
  /\ newBuffer = Null
  /\ pool = {}
  /\ output = [buffer |-> Null, size |-> 0]
  /\ status = "success"

-----------------------------------------------------------------------------
Fail == status' = "error" /\ pc' = "end"

GoOn(next) == pc' = next /\ UNCHANGED status

(* FileRead: all that was asked for, or a failure. *)
Read(next) == GoOn(next) \/ Fail

(* The ELF header, and the section header of the table of names. *)
ReadHeader ==
  /\ pc = "header"
  /\ (file.valid /\ GoOn("allocateNames")) \/ Fail
  /\ UNCHANGED <<file, i, newBuffer, pool, output>>

AllocateNames ==
  /\ pc = "allocateNames"
  /\ \/ pool' = { "names" } /\ GoOn("readNames")
     \/ Fail /\ UNCHANGED pool
  /\ UNCHANGED <<file, i, newBuffer, output>>

ReadNames ==
  /\ pc = "readNames"
  /\ Read("section")
  /\ UNCHANGED <<file, i, newBuffer, pool, output>>

(* One turn of the loop.  A name outside the table may look like any other. *)
ReadSection ==
  /\ pc = "section"
  /\ i < Len(file.sections)
  /\ i' = i + 1
  /\ \/ file.sections[i + 1].name # "other" /\ GoOn("allocate")
     \/ file.sections[i + 1].name # "asked" /\ GoOn("section")
     \/ Fail
  /\ UNCHANGED <<file, newBuffer, pool, output>>

SearchEnds ==
  /\ pc = "section"
  /\ i = Len(file.sections)
  /\ GoOn("set")
  /\ UNCHANGED <<file, i, newBuffer, pool, output>>

AllocateBuffer ==
  /\ pc = "allocate"
  /\ \/ /\ newBuffer' = i
        /\ pool' = pool \cup { "section" }
        /\ GoOn("read")
     \/ Fail /\ UNCHANGED <<newBuffer, pool>>
  /\ UNCHANGED <<file, i, output>>

(* A slip: no break after the match. *)
ReadBufferAndGoOn ==
  /\ pc = "read"
  /\ Read("section")
  /\ UNCHANGED <<file, i, newBuffer, pool, output>>

ReadBuffer ==
  /\ pc = "read"
  /\ Read("set")
  /\ UNCHANGED <<file, i, newBuffer, pool, output>>

SetOutputs ==
  /\ pc = "set"
  /\ \/ /\ newBuffer # Null
        /\ output' = [buffer |-> newBuffer, size |-> file.sections[i].size]
        /\ GoOn("end")
     \/ newBuffer = Null /\ Fail /\ UNCHANGED output
  /\ UNCHANGED <<file, i, newBuffer, pool>>

FreeNames ==
  /\ pc = "end"
  /\ pool' = pool \ { "names" }
  /\ GoOn("returned")
  /\ UNCHANGED <<file, i, newBuffer, output>>

Next ==
  \/ ReadHeader \/ AllocateNames \/ ReadNames \/ ReadSection \/ SearchEnds
  \/ AllocateBuffer \/ ReadBuffer \/ SetOutputs \/ FreeNames

Spec == Init /\ [][Next]_vars

-----------------------------------------------------------------------------
TypeOK ==
  /\ file \in Files
  /\ pc \in { "header", "allocateNames", "readNames", "section", "allocate",
              "read", "set", "end", "returned" }
  /\ i \in 0 .. Len(file.sections)
  /\ newBuffer \in 0 .. Len(file.sections)
  /\ pool \subseteq { "names", "section" }
  /\ output \in [buffer : 0 .. Len(file.sections), size : Nat]
  /\ status \in { "success", "error" }

(* What the caller gets is the first section of the name, with its own size, *)
(* unless the name of the one it gets is outside the table.                  *)
SectionIsTheFirst ==
  pc = "returned" /\ status = "success" =>
    /\ output.buffer # Null
    /\ file.sections[output.buffer].name # "other"
    /\ output.size = file.sections[output.buffer].size
    /\ \A j \in 1 .. output.buffer - 1 : file.sections[j].name # "asked"

(* A search that fails leaves the caller's pointer and size alone: the       *)
(* caller returns without looking at them.                                   *)
CallerKeepsItsPointer == status = "error" => output = [buffer |-> Null, size |-> 0]

(* However the search ends, the table of names is given back, and the        *)
(* caller's buffer is not.                                                   *)
NamesFreed ==
  pc = "returned" =>
    /\ "names" \notin pool
    /\ status = "success" => "section" \in pool
=============================================================================
