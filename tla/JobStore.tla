------------------------------ MODULE JobStore ------------------------------
(***************************************************************************)
(* The durable media-job tables of module/v2_repository.py: jobs,          *)
(* job_attempts, publications and the job half of idempotency_keys.        *)
(*                                                                         *)
(* Every method of V2Repository that writes these tables runs in one       *)
(* BEGIN IMMEDIATE transaction, so each is one action here.  A call that   *)
(* raises (Conflict, LeaseLost, NotFound, ValueError) rolls back: it is    *)
(* an action that is not enabled.  The module says nothing of who calls:   *)
(* StoreNext lets any client call any method with any arguments, and       *)
(* MediaWorker restricts the calls to those the worker makes.              *)
(*                                                                         *)
(* Time is reduced to what the code compares: lease_until is "live" or     *)
(* "expired" and LeaseExpires is the passing of time.  next_run_at only    *)
(* postpones a claim and is left out.  attempt_count and generation are    *)
(* both written by claim_job alone, in one UPDATE that adds one to each,   *)
(* so gen stands for both columns.                                         *)
(***************************************************************************)
EXTENDS Integers

CONSTANTS
    Jobs,        \* identities (kind, target, input revision, options)
    Owners,      \* worker identities, one per application start
    NoOwner,     \* the NULL owner
    Keys,        \* Idempotency-Key values a client may send
    NoKey,       \* a request without the header
    Limits,      \* values of max_attempts a request may carry
    RetryGrant,  \* attempts that retry_job adds (5 in the code)
    MaxGen,      \* bound on claims of one job
    VerifyJobs   \* the jobs whose kind is verify; they publish no file

ASSUME ConstantsAssumption ==
    /\ MaxGen \in Nat
    /\ RetryGrant \in Nat
    /\ Limits \subseteq 1..MaxGen
    /\ NoOwner \notin Owners
    /\ NoKey \notin Keys
    /\ VerifyJobs \subseteq Jobs

VARIABLES
    job,           \* the jobs table, one row per identity
    attempt,       \* job_attempts: outcome and recorded process, per generation
    pub,           \* publications: state per generation
    keys,          \* idempotency_keys: the request a key is bound to
    inputChanged   \* the target's catalog revision left input_revision

storeVars == <<job, attempt, pub, keys, inputChanged>>

Gens == 1..MaxGen

ActiveStates == {"running", "cancel_requested"}
FinishStates == {"succeeded", "failed", "blocked", "cancelled", "retry_wait"}
JobStates == FinishStates \cup ActiveStates \cup {"queued", "interrupted"}

\* error_code, as far as any decision depends on it: no code,
\* PROCESS_IDENTITY_UNCERTAIN, PUBLICATION_RECONCILE_REQUIRED,
\* LEGACY_PROCESS_UNRECONCILED, and all the others.
Unresolved == {"uncertain", "reconcile", "legacy"}
Codes == Unresolved \cup {"none", "other"}

\* "absent": the row does not exist yet.
JobRow == [state  : JobStates \cup {"absent"},
           owner  : Owners \cup {NoOwner},
           gen    : 0..MaxGen,
           lease  : {"none", "live", "expired"},
           cancel : BOOLEAN,
           code   : Codes,
           max    : 0..MaxGen]

Outcomes == FinishStates \cup {"none", "running", "interrupted", "unknown"}
AttemptRow == [outcome : Outcomes, pid : BOOLEAN]

Request == [job : Jobs, max : Limits]
NoRequest == [job |-> NoOwner, max |-> 0]

NoRow == [state |-> "absent", owner |-> NoOwner, gen |-> 0, lease |-> "none",
          cancel |-> FALSE, code |-> "none", max |-> 0]
NoAttempt == [outcome |-> "none", pid |-> FALSE]

StoreTypeOK ==
    /\ job \in [Jobs -> JobRow]
    /\ attempt \in [Jobs -> [Gens -> AttemptRow]]
    /\ pub \in [Jobs -> [Gens -> {"none", "pending", "committed", "abandoned"}]]
    /\ keys \in [Keys -> Request \cup {NoRequest}]
    /\ inputChanged \in [Jobs -> BOOLEAN]

StoreInit ==
    /\ job = [j \in Jobs |-> NoRow]
    /\ attempt = [j \in Jobs |-> [g \in Gens |-> NoAttempt]]
    /\ pub = [j \in Jobs |-> [g \in Gens |-> "none"]]
    /\ keys = [k \in Keys |-> NoRequest]
    /\ inputChanged = [j \in Jobs |-> FALSE]

-----------------------------------------------------------------------------
(* The columns that several methods write together. *)

\* state and error_code are set; owner and lease_until become NULL.
Release(row, s, c) ==
    [row EXCEPT !.state = s, !.code = c, !.owner = NoOwner, !.lease = "none"]

\* Mutant: the attempt's outcome is not written.
EndAttemptUnwritten(j, g, o) == attempt' = attempt

EndAttempt(j, g, o) ==
    attempt' = [attempt EXCEPT ![j][g].outcome = o]

\* Mutant: the generation is not compared.
FencedByOwner(j, o, g) ==
    job[j].state \in ActiveStates /\ job[j].owner = o /\ job[j].lease = "live"

\* _fenced: the caller owns an active, unexpired lease of this generation.
Fenced(j, o, g) ==
    /\ job[j].state \in ActiveStates
    /\ job[j].owner = o
    /\ job[j].gen = g
    /\ job[j].lease = "live"

HasPending(j) == \E g \in Gens : pub[j][g] = "pending"

Exhausted(j) == job[j].gen >= job[j].max

-----------------------------------------------------------------------------
(* Requests of the API and of the migration script. *)

\* A key that is already bound answers with its job, or conflicts: no change.
\* An identity that already has a row keeps it, and only the key is bound.
CreateJob(j, m, k) ==
    /\ k # NoKey => keys[k] = NoRequest
    /\ IF job[j].state = "absent"
       THEN job' = [job EXCEPT ![j].state = "queued", ![j].max = m]
       ELSE job' = job
    /\ IF k = NoKey
       THEN keys' = keys
       ELSE keys' = [keys EXCEPT ![k] = [job |-> j, max |-> m]]
    /\ UNCHANGED <<attempt, pub, inputChanged>>

\* import_legacy_records: provenance rows, never executed before.
ImportLegacyJob(j, s, m) ==
    /\ job[j].state = "absent"
    /\ s \in {"succeeded", "cancelled", "failed", "interrupted"}
    /\ job' = [job EXCEPT ![j].state = s, ![j].max = m,
                          ![j].code = IF s = "interrupted" THEN "legacy" ELSE "none"]
    /\ UNCHANGED <<attempt, pub, keys, inputChanged>>

MayCancel(j) ==
    /\ job[j].state \notin {"absent", "succeeded", "cancelled", "failed"}
    /\ job[j].code \notin Unresolved

RequestCancel(j) ==
    /\ MayCancel(j)
    /\ job' = [job EXCEPT
                 ![j].state = IF job[j].state \in ActiveStates
                              THEN "cancel_requested" ELSE "cancelled",
                 ![j].cancel = TRUE]
    /\ UNCHANGED <<attempt, pub, keys, inputChanged>>

\* (Mutated: an unresolved job may be retried.)
MayRetryAny(j) == job[j].state \in {"failed", "blocked", "cancelled", "interrupted"}

MayRetry(j) ==
    /\ job[j].state \in {"failed", "blocked", "cancelled", "interrupted"}
    /\ job[j].code \notin Unresolved

\* MAX(max_attempts, attempt_count + 5)
Granted(j) ==
    LET granted == job[j].gen + RetryGrant
    IN  IF job[j].max > granted THEN job[j].max ELSE granted

\* The first conjunct, on MaxGen, is the model's bound.
RetryJob(j) ==
    /\ job[j].gen + RetryGrant <= MaxGen
    /\ MayRetry(j)
    /\ job' = [job EXCEPT ![j] = [Release(job[j], "queued", "none") EXCEPT
                                    !.cancel = FALSE, !.max = Granted(j)]]
    /\ UNCHANGED <<attempt, pub, keys, inputChanged>>

-----------------------------------------------------------------------------
(* The fenced writes of a worker. *)

Claimable(j) == job[j].state \in {"queued", "retry_wait"} /\ job[j].gen < job[j].max

ClaimJob(j, o) ==
    /\ Claimable(j)
    /\ job' = [job EXCEPT ![j].state = "running", ![j].owner = o,
                          ![j].gen = job[j].gen + 1, ![j].lease = "live",
                          ![j].code = "none"]
    /\ attempt' = [attempt EXCEPT ![j][job[j].gen + 1] =
                     [outcome |-> "running", pid |-> FALSE]]
    /\ UNCHANGED <<pub, keys, inputChanged>>

\* set_process with a process identity (recorded) or with pid=None.
SetProcess(j, o, g, recorded) ==
    /\ Fenced(j, o, g)
    /\ attempt' = [attempt EXCEPT ![j][g].pid = recorded]
    /\ UNCHANGED <<job, pub, keys, inputChanged>>

\* A second call in the same generation returns the existing intent.
RecordPublication(j, o, g) ==
    /\ Fenced(j, o, g)
    /\ job[j].state # "cancel_requested"
    /\ pub[j][g] = "none"
    /\ pub' = [pub EXCEPT ![j][g] = "pending"]
    /\ UNCHANGED <<job, attempt, keys, inputChanged>>

AbandonPublication(j, o, g) ==
    /\ Fenced(j, o, g)
    /\ pub[j][g] = "pending"
    /\ pub' = [pub EXCEPT ![j][g] = "abandoned"]
    /\ UNCHANGED <<job, attempt, keys, inputChanged>>

\* The state a finish really writes: a pending publication blocks everything
\* but success, and an exhausted job does not wait for a retry.
FinishState(j, g, s) ==
    IF pub[j][g] = "pending" /\ s # "succeeded" THEN "blocked"
    ELSE IF s = "retry_wait" /\ Exhausted(j) THEN "failed"
    ELSE s

FinishCode(j, g, s) ==
    IF s = "succeeded" THEN "none"
    ELSE IF pub[j][g] = "pending" THEN "reconcile"
    ELSE "other"

\* artifact: the call carries catalog metadata, which is refused when the
\* target's revision moved, and allowed for a failure of a verification only.
FinishJob(j, o, g, s, artifact) ==
    /\ Fenced(j, o, g)
    /\ artifact => /\ ~inputChanged[j]
                   /\ \/ FinishState(j, g, s) = "succeeded"
                      \/ FinishState(j, g, s) = "failed" /\ j \in VerifyJobs
    /\ job' = [job EXCEPT ![j] =
                 Release(job[j], FinishState(j, g, s), FinishCode(j, g, s))]
    /\ EndAttempt(j, g, FinishState(j, g, s))
    /\ pub' = IF pub[j][g] = "pending" /\ s = "succeeded"
              THEN [pub EXCEPT ![j][g] = "committed"] ELSE pub
    /\ UNCHANGED <<keys, inputChanged>>

-----------------------------------------------------------------------------
(* Recovery: writes that hold no lease. *)

\* The second transaction of recover_expired, for a candidate whose
\* generation and state (g, s) were read before the process was examined.
\* absent: the checker returned True.
RecoverJob(j, g, s, absent, includeUnexpired) ==
    /\ job[j].gen = g
    /\ job[j].state = s
    /\ includeUnexpired \/ job[j].lease # "live"
    /\ LET next == CASE ~absent -> [s |-> "blocked", c |-> "uncertain"]
                     [] absent /\ HasPending(j) -> [s |-> "blocked", c |-> "reconcile"]
                     [] absent /\ ~HasPending(j) /\ job[j].cancel ->
                           [s |-> "cancelled", c |-> "none"]
                     [] OTHER -> [s |-> IF Exhausted(j) THEN "failed" ELSE "retry_wait",
                                  c |-> "other"]
       IN  job' = [job EXCEPT ![j] = Release(job[j], next.s, next.c)]
    /\ EndAttempt(j, g, IF absent THEN "interrupted" ELSE "unknown")
    /\ UNCHANGED <<pub, keys, inputChanged>>

\* reconcile_publication: no lease and no state is looked at, only that the
\* publication is pending and of the job's generation.
ReconcilePublication(j, g, published) ==
    /\ pub[j][g] = "pending"
    /\ job[j].gen = g
    /\ pub' = [pub EXCEPT ![j][g] = IF published THEN "committed" ELSE "abandoned"]
    /\ LET s == IF published THEN "succeeded"
                ELSE IF job[j].cancel THEN "cancelled"
                ELSE IF Exhausted(j) THEN "failed" ELSE "retry_wait"
       IN  job' = [job EXCEPT ![j] =
                     Release(job[j], s, IF published THEN "none" ELSE "other")]
    /\ EndAttempt(j, g, IF published THEN "succeeded"
                        ELSE IF job[j].cancel THEN "cancelled" ELSE "interrupted")
    /\ UNCHANGED <<keys, inputChanged>>

RejectPublication(j, g) ==
    /\ pub[j][g] = "pending"
    /\ job[j].gen = g
    /\ job' = [job EXCEPT ![j] = Release(job[j], "blocked", "reconcile")]
    /\ UNCHANGED <<attempt, pub, keys, inputChanged>>

-----------------------------------------------------------------------------
(* The environment. *)

\* lease_until passes; every heartbeat before it keeps the lease live.
LeaseExpires(j) ==
    /\ job[j].lease = "live"
    /\ job' = [job EXCEPT ![j].lease = "expired"]
    /\ UNCHANGED <<attempt, pub, keys, inputChanged>>

\* _save_artifact bumps the revision of a target whose path or size changed.
InputChanges(j) ==
    /\ ~inputChanged[j]
    /\ inputChanged' = [inputChanged EXCEPT ![j] = TRUE]
    /\ UNCHANGED <<job, attempt, pub, keys>>

-----------------------------------------------------------------------------
ClientStep(j) ==
    \/ \E m \in Limits, k \in Keys \cup {NoKey} : CreateJob(j, m, k)
    \/ \E m \in Limits, s \in JobStates : ImportLegacyJob(j, s, m)
    \/ RequestCancel(j)
    \/ RetryJob(j)

OwnerStep(j, o) ==
    \/ ClaimJob(j, o)
    \/ \E g \in Gens :
         \/ \E recorded \in BOOLEAN : SetProcess(j, o, g, recorded)
         \/ RecordPublication(j, o, g)
         \/ AbandonPublication(j, o, g)
         \/ \E s \in FinishStates, artifact \in BOOLEAN : FinishJob(j, o, g, s, artifact)

\* recover_expired takes its candidates from the active jobs and from those
\* blocked with PROCESS_IDENTITY_UNCERTAIN; by the time it writes, the latter
\* may have been turned into PUBLICATION_RECONCILE_REQUIRED.
RecoverStep(j) ==
    \E g \in Gens :
      \/ \E absent, all \in BOOLEAN :
           /\ \/ job[j].state \in ActiveStates
              \/ job[j].code \in {"uncertain", "reconcile"}
           /\ RecoverJob(j, g, job[j].state, absent, all)
      \/ \E published \in BOOLEAN : ReconcilePublication(j, g, published)
      \/ RejectPublication(j, g)

StoreNext ==
    \E j \in Jobs :
      \/ ClientStep(j)
      \/ \E o \in Owners : OwnerStep(j, o)
      \/ RecoverStep(j)
      \/ LeaseExpires(j)
      \/ InputChanges(j)

StoreSpec == StoreInit /\ [][StoreNext]_storeVars

-----------------------------------------------------------------------------
(* Properties. *)

\* A pending publication belongs to the job's current generation, and its job
\* is executing or blocked until the publication is settled.  This is what
\* lets reconcile_publication look at the generation alone, without the state,
\* and what keeps it from ever answering "belongs to an older generation".
PendingIsCurrent ==
    \A j \in Jobs, g \in Gens :
      pub[j][g] = "pending" =>
        /\ g = job[j].gen
        /\ \/ job[j].state \in ActiveStates
           \/ job[j].state = "blocked" /\ job[j].code \in {"uncertain", "reconcile"}

\* The three codes that close retry_job and request_cancel always leave another
\* way out: a job that must reconcile a publication has one that is pending, and
\* a job whose process is uncertain is blocked, where recover_expired finds it.
UnresolvedHasAWayOut ==
    \A j \in Jobs :
      /\ job[j].code = "reconcile" =>
           /\ job[j].state = "blocked"
           /\ \E g \in Gens : pub[j][g] = "pending"
      /\ job[j].code = "uncertain" => job[j].state = "blocked" /\ job[j].gen \in Gens
      /\ job[j].code = "legacy" => job[j].state = "interrupted"

\* A committed publication is that of the last execution of a job that
\* succeeded: no job commits twice, and none runs again after it committed.
CommittedIsFinal ==
    \A j \in Jobs, g \in Gens :
      pub[j][g] = "committed" => job[j].state = "succeeded" /\ job[j].gen = g

\* The ledger of attempts agrees with the job: an attempt that reads "running"
\* is the current one of a job that is active or whose publication is still to
\* be reconciled, and one that reads "succeeded" is that of a succeeded job.
LedgerAgrees ==
    \A j \in Jobs, g \in Gens :
      /\ attempt[j][g].outcome = "running" =>
           /\ g = job[j].gen
           /\ job[j].state \in ActiveStates \/ job[j].code = "reconcile"
      /\ attempt[j][g].outcome = "succeeded" =>
           g = job[j].gen /\ job[j].state = "succeeded"

\* A job has an owner and a lease exactly while it is active: recover_expired
\* finds abandoned work by its lease, so an active row without one would never
\* be recovered, and a leased row that is not active would look alive for ever.
LeasedIffActive ==
    \A j \in Jobs :
      /\ job[j].state \in ActiveStates <=> job[j].lease # "none"
      /\ job[j].state \in ActiveStates <=> job[j].owner # NoOwner

\* "Stale owners cannot commit" (docs/v2/IMPLEMENTATION.md): once a job has
\* moved on to another generation, nothing changes what earlier attempts and
\* their publications say.
StaleAttemptsAreFrozen ==
    [][\A j \in Jobs, g \in Gens :
         g < job[j].gen => attempt'[j][g] = attempt[j][g] /\ pub'[j][g] = pub[j][g]]_storeVars

\* Success is final: no call, in any order, moves a job out of succeeded, and
\* its attempts and publications stay as they are.
SuccessIsFinal ==
    [][\A j \in Jobs :
         job[j].state = "succeeded" =>
           /\ job'[j] = job[j]
           /\ attempt'[j] = attempt[j]
           /\ pub'[j] = pub[j]]_storeVars

\* The invariant that an induction over StoreNext can carry.
StoreInv ==
    /\ StoreTypeOK
    /\ PendingIsCurrent
    /\ UnresolvedHasAWayOut
    /\ CommittedIsFinal
    /\ LedgerAgrees
    /\ LeasedIffActive

\* The abstract life of a job that the tables implement.
PhaseOf(row) ==
    CASE row.state = "absent" -> "absent"
      [] row.state \in {"queued", "retry_wait"} -> "waiting"
      [] row.state \in ActiveStates -> "executing"
      [] row.state = "succeeded" -> "done"
      [] row.state \in {"blocked", "interrupted"} /\ row.code \in Unresolved -> "held"
      [] OTHER -> "ended"

OutputOf(j) ==
    IF \E g \in Gens : pub[j][g] = "committed" THEN "committed"
    ELSE IF HasPending(j) THEN "intended" ELSE "none"

Durable == INSTANCE DurableJob WITH
    phase <- [j \in Jobs |-> PhaseOf(job[j])],
    output <- [j \in Jobs |-> OutputOf(j)]

\* The tables implement the promised life of a job.
ImplementsDurableJob == Durable!DurableSpec

=============================================================================
