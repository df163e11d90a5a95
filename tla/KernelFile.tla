------------------------------ MODULE KernelFile ------------------------------
(***************************************************************************)
(* The two things LoadOrigamiKernel (src/Loader/Origami.c) takes from the  *)
(* kernel's file, one after the other: the Origami header, a section of    *)
(* the file (ElfSection.tla), and the image, its segments (ElfLoader.tla). *)
(* The firmware takes pages all the while.                                 *)
(***************************************************************************)
EXTENDS ElfLoader

CONSTANTS
  Sizes, MaxSections,  \* as in ElfSection.tla
  HeaderSize,          \* sizeof(struct ORIGAMI_HEADER)
  Kernels              \* the kernels, as what each of the two sees of them

VARIABLES table, step, index, newBuffer, pool, header, outcome

section  == <<table, step, index, newBuffer, pool, header, outcome>>
fileVars == <<vars, section>>

Section ==
  INSTANCE ElfSection WITH
    file <- table, pc <- step, i <- index, output <- header, status <- outcome

ASSUME KernelFileAssumption ==
  /\ Sizes \subseteq Nat /\ MaxSections \in Nat /\ HeaderSize \in Nat
  /\ \A k \in Kernels : /\ k.table \in Section!Files /\ k.image \in Elves
                        /\ k.table.valid = k.image.valid

FileInit ==
  /\ \E k \in Kernels : table = k.table /\ file = k.image
  /\ Init
  /\ Section!Init

-----------------------------------------------------------------------------
(* CHECK_STATUS(LoadSection(...)), ASSERT_EXPR(HeaderSize == sizeof ...).    *)
HeaderFound == step = "returned" /\ outcome = "success" /\ header.size = HeaderSize

FindHeader == Section!Next /\ UNCHANGED vars

LoadImage == HeaderFound /\ pc # "returned" /\ Step /\ UNCHANGED section

FirmwareEvent == (\E p \in Pages : FirmwareTakes(p)) /\ UNCHANGED section

Returned == step = "returned" /\ (HeaderFound => pc = "returned")

FileNext ==
  FindHeader \/ LoadImage \/ FirmwareEvent \/ (Returned /\ UNCHANGED fileVars)

FileSpec == FileInit /\ [][FileNext]_fileVars

-----------------------------------------------------------------------------
FileTypeOK == TypeOK /\ Section!TypeOK

(* What the loader takes for the Origami header is the first section of that *)
(* name and of the header's size; otherwise the caller's pointer is left     *)
(* alone and no segment is loaded.  The table of names is given back on      *)
(* every path.                                                               *)
HeaderIsFound ==
  /\ Section!SectionIsTheFirst
  /\ Section!CallerKeepsItsPointer
  /\ Section!NamesFreed
  /\ pc # "header" => table.sections[header.buffer].size = HeaderSize
=============================================================================
