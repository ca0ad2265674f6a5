-------------------------- MODULE MCRecordingFiles --------------------------
(* Small instances of RecordingFiles; the constants in the configurations are  *)
(* the bounds.                                                                 *)
EXTENDS RecordingFiles
CONSTANTS r1, r2, v1, v2, api, loop
MCSegments == <<r1, r2>>
\* The threads that verify differ in nothing.
MCSymmetry == Permutations({v1, v2})
=============================================================================
