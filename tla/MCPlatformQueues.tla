-------------------------- MODULE MCPlatformQueues --------------------------
(* Small instances of PlatformQueues; the constants in the configurations are  *)
(* the bounds.                                                                 *)
EXTENDS PlatformQueues, TLC
CONSTANTS r1, r2, telegram, discord
\* Two recordings of which the second has the first one's file name.
MCName == [r \in {r1, r2} |-> r1]
MCRoute == <<telegram, discord>>
=============================================================================
