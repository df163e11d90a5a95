------------------------------- MODULE MCMaps --------------------------------
(***************************************************************************)
(* Small memory maps for the model checker: up to three distinct regions   *)
(* of a fixed layout, in every order (the firmware need not sort its map), *)
(* with every choice of types.                                             *)
(***************************************************************************)
EXTENDS Naturals, Sequences

MCHalf     == 256
MCPageSize == 4

(* Three regions that touch (248, two pages at 252, 260), then a gap, then *)
(* one more.  The addresses carry from the low to the high half of a word. *)
Regions == { <<248, 1>>, <<252, 2>>, <<260, 1>>, <<268, 1>> }

(* Conventional memory and loader data (both RAM), persistent memory (past *)
(* the end of the table) and a type above EfiMaxMemoryType (reserved).     *)
MCTypes == { 7, 2, 14, 200 }

(* Zero-filled padding, which is no E820 type, or RAM by chance. *)
MCStrayTypes == { 0, 1 }

Descriptors ==
  { [type |-> t, start |-> r[1], pages |-> r[2]] : t \in MCTypes, r \in Regions }

MCMaps ==
  { m \in UNION { [1 .. k -> Descriptors] : k \in 1 .. 3 } :
      \A i, j \in DOMAIN m : i # j => m[i].start # m[j].start }
=============================================================================
