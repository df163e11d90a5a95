----------------------------- MODULE MCKernelFile ------------------------------
(***************************************************************************)
(* Four pages of two bytes, each of them free or in use.  Images of up to  *)
(* two program headers: segments of one page and of two, linked low and    *)
(* high, with and without bytes to clear, one that no memory is at, an     *)
(* empty one, one that begins inside a page and one that is not loaded;    *)
(* files that are complete and files that are cut off.  Tables of up to    *)
(* three sections, by any name, of the header's size and of another, with  *)
(* one image; and all images, with a header.                               *)
(***************************************************************************)
EXTENDS KernelFile

MCHeaderSize == 17
MCSizes == { MCHeaderSize, 18 }

Load(vaddr, memsz, filesz, offset) ==
  [load |-> TRUE, vaddr |-> vaddr, memsz |-> memsz, filesz |-> filesz, offset |-> offset]

MCSegments ==
  { Load(2, 3, 2, 1), Load(0, 2, 2, 0), Load(26, 4, 1, 2), Load(28, 1, 0, 0),
    Load(4, 2, 1, 3), Load(20, 2, 1, 0), Load(4, 0, 0, 0), Load(3, 1, 1, 0),
    [Load(0, 2, 2, 0) EXCEPT !.load = FALSE] }

MCElves ==
  [valid : BOOLEAN, length : { 2, 4 },
   segments : UNION { [1 .. n -> MCSegments] : n \in 0 .. 2 }]

HeaderOnly == << [name |-> "asked", size |-> MCHeaderSize] >>

MCKernels ==
  { [table |-> [valid |-> f.valid, sections |-> HeaderOnly], image |-> f] : f \in MCElves }
  \cup
  { [table |-> t, image |-> [valid |-> t.valid, length |-> 4, segments |-> << Load(0, 2, 2, 0) >>]] :
      t \in Section!Files }
=============================================================================
