-------------------------- MODULE MCChannelControl --------------------------
(* Small instances of ChannelControl.  Captures are interchangeable, and so    *)
(* are commands.                                                               *)
EXTENDS ChannelControl, TLC

Interchangeable == Permutations(Captures) \cup Permutations(Commands)

\* Nothing reads whether a capture that is gone was launched in this run, or
\* recorded: states that differ only there behave alike.
Observable ==
    LET there == {c \in Captures : group[c] # "absent"}
    IN  <<guard, group, mine \cap there, recorded \cap there, controlVars>>
=============================================================================
