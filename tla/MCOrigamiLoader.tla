--------------------------- MODULE MCOrigamiLoader ---------------------------
(* Three changes of the map by the firmware, of up to four descriptors each *)
(* (an event may make two allocations, and each splits a free region in     *)
(* three): enough to outgrow the ten spare descriptors, and not enough to   *)
(* do so at once.                                                           *)
EXTENDS OrigamiLoader

MCMaxEvents == 3
MCMaxGrowth == 4
=============================================================================
