------------------------------ MODULE MCGopMode -------------------------------
(***************************************************************************)
(* Up to three modes of nine sizes, usable or not, in every order; the     *)
(* request of the loader, which asks for no size, and one for a size of    *)
(* which there are modes both smaller and larger.                          *)
(***************************************************************************)
EXTENDS GopMode

MCMode == [usable : BOOLEAN, width : 1 .. 3, height : 1 .. 3, scanline : { 4 }]

MCSizes == { [width |-> 0, height |-> 0], [width |-> 2, height |-> 2] }
=============================================================================
