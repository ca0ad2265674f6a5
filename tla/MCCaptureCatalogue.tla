------------------------ MODULE MCCaptureCatalogue --------------------------
(* Small instances of CaptureCatalogue; the constants in the configurations   *)
(* are the bounds.                                                            *)
EXTENDS CaptureCatalogue, TLC
CONSTANTS n1, n2, p1, loop, helper
MCNames == <<n1, n2>>
MCPart == <<p1>>
=============================================================================
