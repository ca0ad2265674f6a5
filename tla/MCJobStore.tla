----------------------------- MODULE MCJobStore -----------------------------
(* A small instance of JobStore: one job, two worker identities, one        *)
(* idempotency key.  The job counts as a verification, which only adds the  *)
(* calls that save validation metadata of a failure.                        *)
EXTENDS JobStore

CONSTANTS j1, w1, w2, k1

MCJobs == {j1}
MCOwners == {w1, w2}
MCKeys == {k1}
MCLimits == {1, 2}

=============================================================================
