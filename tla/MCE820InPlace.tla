---------------------------- MODULE MCE820InPlace ----------------------------
EXTENDS E820InPlace, MCMaps
=============================================================================
