-------------------------- MODULE MCYouTubeCapture --------------------------
(* Small instances of YouTubeCapture; the constants in the configurations are  *)
(* the bounds.                                                                 *)
EXTENDS YouTubeCapture, TLC
=============================================================================
