------------------------ MODULE MCOperationsHealth -------------------------
(* Small instances of OperationsHealth; the constants in the configurations  *)
(* are the bounds.                                                           *)
EXTENDS OperationsHealth, TLC
=============================================================================
