----------------------------- MODULE DurableJob -----------------------------
(***************************************************************************)
(* What docs/v2/README.md ("Persistence and restart") promises of a media  *)
(* job, without tables, leases or workers: a job is accepted before it     *)
(* executes, its output is intended before it may exist, an execution      *)
(* whose fate is unknown is held and neither retried nor cancelled, an     *)
(* intended output is settled before the job may execute again, and a      *)
(* completed job stays completed.                                          *)
(***************************************************************************)

CONSTANT Jobs

VARIABLES
    phase,   \* where each job is in its life
    output   \* what is known of its output

durableVars == <<phase, output>>

DurableTypeOK ==
    /\ phase \in [Jobs -> {"absent", "waiting", "executing", "held", "ended", "done"}]
    /\ output \in [Jobs -> {"none", "intended", "committed"}]

DurableInit ==
    /\ phase = [j \in Jobs |-> "absent"]
    /\ output = [j \in Jobs |-> "none"]

Move(j, from, to) ==
    /\ phase[j] \in from
    /\ phase' = [phase EXCEPT ![j] = to]

SetOutput(j, o) == output' = [output EXCEPT ![j] = o]

Accept(j) ==
    /\ Move(j, {"absent"}, "waiting")
    /\ UNCHANGED output

\* A row of an older installation: provenance that this system never ran.
Adopt(j, to) ==
    /\ to \in {"held", "ended", "done"}
    /\ Move(j, {"absent"}, to)
    /\ UNCHANGED output

Execute(j) ==
    /\ output[j] = "none"
    /\ Move(j, {"waiting"}, "executing")
    /\ UNCHANGED output

Intend(j) ==
    /\ phase[j] = "executing"
    /\ output[j] = "none"
    /\ SetOutput(j, "intended")
    /\ UNCHANGED phase

\* The owner of the execution proved that no output appeared.
Withdraw(j) ==
    /\ phase[j] = "executing"
    /\ output[j] = "intended"
    /\ SetOutput(j, "none")
    /\ UNCHANGED phase

Hold(j) ==
    /\ Move(j, {"executing", "held"}, "held")
    /\ UNCHANGED output

\* Success: an intended output becomes the job's output.
Complete(j) ==
    /\ output[j] # "intended" => phase[j] = "executing"
    /\ Move(j, {"executing", "held"}, "done")
    /\ IF output[j] = "intended" THEN SetOutput(j, "committed") ELSE UNCHANGED output

\* Anything but success, and only with nothing of the execution left over.
Settle(j, to) ==
    /\ to \in {"waiting", "ended"}
    /\ Move(j, {"executing", "held"}, to)
    /\ SetOutput(j, "none")

Cancel(j) ==
    /\ Move(j, {"waiting"}, "ended")
    /\ UNCHANGED output

Retry(j) ==
    /\ Move(j, {"ended"}, "waiting")
    /\ UNCHANGED output

DurableNext ==
    \E j \in Jobs :
      \/ Accept(j)
      \/ \E to \in {"held", "ended", "done"} : Adopt(j, to)
      \/ Execute(j)
      \/ Intend(j)
      \/ Withdraw(j)
      \/ Hold(j)
      \/ Complete(j)
      \/ \E to \in {"waiting", "ended"} : Settle(j, to)
      \/ Cancel(j)
      \/ Retry(j)

DurableSpec == DurableInit /\ [][DurableNext]_durableVars

=============================================================================
