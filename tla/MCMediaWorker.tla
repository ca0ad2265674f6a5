---------------------------- MODULE MCMediaWorker ----------------------------
(* Small instances of MediaWorker: a media job and a verification, two starts *)
(* of the application, no idempotency keys (the run of JobStore covers them). *)
EXTENDS MediaWorker

CONSTANTS j1, j2, w1, w2

MCOwners == {w1, w2}

\* Bound of both runs: one job exists at a time, whichever lane it is for,
\* nothing is at a path that no job uses, and a job meets a changed input or
\* another program's file, not both.
OneJob ==
    /\ \E k \in Jobs : \A j \in Jobs \ {k} :
         job[j].state = "absent" /\ file[j] = Nothing /\ ~inputChanged[j]
    /\ \A j \in Jobs : inputChanged[j] => file[j] # Foreign
    /\ \A j \in VerifyJobs : file[j] = Nothing

\* For the liveness run: inputs keep their revision and no other program writes
\* to the final path, which the safety runs allow.
QuietNext ==
    /\ WorkerNext
    /\ UNCHANGED inputChanged
    /\ \A j \in Jobs : file'[j] # Foreign
    /\ OneJob'

QuietSpec == WorkerInit /\ [][QuietNext]_vars /\ Fairness
=============================================================================
