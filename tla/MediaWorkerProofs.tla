-------------------------- MODULE MediaWorkerProofs --------------------------
(***************************************************************************)
(* Machine-checked proofs about JobStore and MediaWorker, for any number   *)
(* of jobs, workers, starts of the application, keys, claims and tools.    *)
(* First the job tables alone; then the worker: every step of it is a      *)
(* legal call of the tables, so that what is shown of them holds of the    *)
(* composed system, and the worker's own invariants.                       *)
(***************************************************************************)
EXTENDS MediaWorker, TLAPS

-----------------------------------------------------------------------------
(***************************************************************************)
(* The job tables.                                                         *)
(***************************************************************************)

LEMMA InitEstablishes == StoreInit => StoreInv
<1> SUFFICES ASSUME StoreInit PROVE StoreInv
  OBVIOUS
<1> USE ConstantsAssumption
<1>1. StoreTypeOK
  <2>1. NoRow \in JobRow
    BY DEF NoRow, JobRow, Codes
  <2>2. NoAttempt \in AttemptRow
    BY DEF NoAttempt, AttemptRow, Outcomes
  <2>3. QED
    BY <2>1, <2>2 DEF StoreInit, StoreTypeOK
<1>2. PendingIsCurrent /\ UnresolvedHasAWayOut /\ CommittedIsFinal /\ LedgerAgrees
  BY DEF StoreInit, PendingIsCurrent, UnresolvedHasAWayOut, CommittedIsFinal,
         LedgerAgrees, NoRow, NoAttempt
<1>3. LeasedIffActive
  BY DEF StoreInit, LeasedIffActive, NoRow, ActiveStates
<1>4. QED
  BY <1>1, <1>2, <1>3 DEF StoreInv

\* The words the tables use, so that the steps below need not enumerate sets.
LEMMA Vocabulary ==
  /\ "queued" \in JobStates /\ "running" \in JobStates /\ "cancel_requested" \in JobStates
  /\ "retry_wait" \in JobStates /\ "blocked" \in JobStates /\ "failed" \in JobStates
  /\ "succeeded" \in JobStates /\ "cancelled" \in JobStates
  /\ "none" \in Codes /\ "other" \in Codes /\ "uncertain" \in Codes
  /\ "reconcile" \in Codes /\ "legacy" \in Codes
  /\ \A s \in FinishStates : s \in JobStates /\ s \in Outcomes
  /\ "blocked" \in FinishStates /\ "failed" \in FinishStates
  /\ "running" \in Outcomes /\ "succeeded" \in Outcomes /\ "cancelled" \in Outcomes
  /\ "interrupted" \in Outcomes /\ "unknown" \in Outcomes
BY DEF JobStates, Codes, FinishStates, ActiveStates, Unresolved, Outcomes

\* Replacing one row keeps the jobs table well typed.
LEMMA RowUpdate ==
  ASSUME StoreTypeOK, NEW j \in Jobs, NEW row \in JobRow, job' = [job EXCEPT ![j] = row]
  PROVE  job' \in [Jobs -> JobRow]
BY DEF StoreTypeOK

\* So does Release, which every call that gives up a lease applies.
LEMMA ReleaseType ==
  ASSUME NEW row \in JobRow, NEW s \in JobStates, NEW c \in Codes
  PROVE  Release(row, s, c) \in JobRow
BY DEF Release, JobRow

\* Replacing one attempt keeps job_attempts well typed.
LEMMA AttemptUpdate ==
  ASSUME StoreTypeOK, NEW j \in Jobs, NEW g \in Gens, NEW row \in AttemptRow,
         attempt' = [attempt EXCEPT ![j][g] = row]
  PROVE  attempt' \in [Jobs -> [Gens -> AttemptRow]]
BY DEF StoreTypeOK

LEMMA EndAttemptType ==
  ASSUME StoreTypeOK, NEW j \in Jobs, NEW g \in Gens, NEW o \in Outcomes, EndAttempt(j, g, o)
  PROVE  attempt' \in [Jobs -> [Gens -> AttemptRow]]
<1> DEFINE row == [attempt[j][g] EXCEPT !.outcome = o]
<1>1. attempt[j][g] \in AttemptRow
  BY DEF StoreTypeOK
<1>2. row \in AttemptRow
  BY <1>1 DEF AttemptRow
<1>3. attempt' = [attempt EXCEPT ![j][g] = row]
  BY DEF EndAttempt
<1>4. QED
  BY <1>2, <1>3, AttemptUpdate

-----------------------------------------------------------------------------
(* Each action preserves the invariant. *)

LEMMA CreatePreserves ==
  ASSUME StoreInv, NEW j \in Jobs, NEW m \in Limits, NEW k \in Keys \cup {NoKey},
         CreateJob(j, m, k)
  PROVE  StoreInv'
<1>1. StoreTypeOK'
  <2> USE DEF StoreInv
  <2>1. job' \in [Jobs -> JobRow]
    <3>1. CASE job[j].state = "absent"
      <4> DEFINE row == [job[j] EXCEPT !.state = "queued", !.max = m]
      <4>1. job[j] \in JobRow
        BY DEF StoreTypeOK
      <4>2. m \in 0..MaxGen
        BY ConstantsAssumption
      <4>3. row \in JobRow
        BY <4>1, <4>2, Vocabulary DEF JobRow
      <4>4. job' = [job EXCEPT ![j] = row]
        BY <3>1 DEF CreateJob
      <4>5. QED
        BY <4>3, <4>4, RowUpdate
    <3>2. CASE job[j].state # "absent"
      BY <3>2 DEF StoreTypeOK, CreateJob
    <3>3. QED
      BY <3>1, <3>2
  <2>2. attempt' \in [Jobs -> [Gens -> AttemptRow]]
    BY DEF StoreTypeOK, CreateJob
  <2>3. /\ pub' \in [Jobs -> [Gens -> {"none", "pending", "committed", "abandoned"}]]
        /\ keys' \in [Keys -> Request \cup {NoRequest}]
        /\ inputChanged' \in [Jobs -> BOOLEAN]
    BY DEF StoreTypeOK, Request, CreateJob
  <2>4. QED
    BY <2>1, <2>2, <2>3 DEF StoreTypeOK
<1> USE ConstantsAssumption DEF StoreInv, Gens
<1>0. /\ \A i \in Jobs :
           /\ job'[i].gen = job[i].gen /\ job'[i].code = job[i].code
           /\ job'[i].owner = job[i].owner /\ job'[i].lease = job[i].lease
           /\ \/ job'[i].state = job[i].state
              \/ job[i].state = "absent" /\ job'[i].state = "queued"
      /\ pub' = pub /\ attempt' = attempt
  <2>1. CASE job[j].state = "absent"
    <3>1. job' = [job EXCEPT ![j].state = "queued", ![j].max = m]
      BY <2>1 DEF CreateJob
    <3>2. QED
      BY <2>1, <3>1 DEF StoreTypeOK, JobRow, CreateJob
  <2>2. CASE job[j].state # "absent"
    <3>1. job' = job
      BY <2>2 DEF CreateJob
    <3>2. QED
      BY <3>1 DEF CreateJob
  <2>3. QED
    BY <2>1, <2>2
<1>2. PendingIsCurrent'
  BY <1>0 DEF PendingIsCurrent, ActiveStates
<1>3. UnresolvedHasAWayOut'
  BY <1>0 DEF UnresolvedHasAWayOut
<1>4. CommittedIsFinal'
  BY <1>0 DEF CommittedIsFinal
<1>5. LedgerAgrees'
  BY <1>0 DEF LedgerAgrees, ActiveStates
<1>6. LeasedIffActive'
  BY <1>0 DEF LeasedIffActive, ActiveStates
<1>7. QED
  BY <1>1, <1>2, <1>3, <1>4, <1>5, <1>6

LEMMA ImportPreserves ==
  ASSUME StoreInv, NEW j \in Jobs, NEW m \in Limits, NEW s \in JobStates,
         ImportLegacyJob(j, s, m)
  PROVE  StoreInv'
<1>1. StoreTypeOK'
  <2> USE DEF StoreInv
  <2>1. job' \in [Jobs -> JobRow]
    <3> DEFINE row == [job[j] EXCEPT !.state = s, !.max = m,
                         !.code = IF s = "interrupted" THEN "legacy" ELSE "none"]
    <3>1. job[j] \in JobRow
      BY DEF StoreTypeOK
    <3>2. m \in 0..MaxGen
      BY <3>1, ConstantsAssumption
    <3>3. row \in JobRow
      BY <3>1, <3>2, Vocabulary DEF JobRow
    <3>4. job' = [job EXCEPT ![j] = row]
      BY DEF ImportLegacyJob
    <3>5. QED
      BY <3>3, <3>4, RowUpdate
  <2>2. attempt' \in [Jobs -> [Gens -> AttemptRow]]
    BY DEF StoreTypeOK, ImportLegacyJob
  <2>3. /\ pub' \in [Jobs -> [Gens -> {"none", "pending", "committed", "abandoned"}]]
        /\ keys' \in [Keys -> Request \cup {NoRequest}]
        /\ inputChanged' \in [Jobs -> BOOLEAN]
    BY DEF StoreTypeOK, Request, ImportLegacyJob
  <2>4. QED
    BY <2>1, <2>2, <2>3 DEF StoreTypeOK
<1> USE ConstantsAssumption DEF StoreInv, Gens, ImportLegacyJob
<1>2. PendingIsCurrent'
  BY DEF StoreTypeOK, JobRow, PendingIsCurrent, ActiveStates, Unresolved,
         FinishStates, CommittedIsFinal, UnresolvedHasAWayOut
<1>3. UnresolvedHasAWayOut'
  BY DEF StoreTypeOK, JobRow, UnresolvedHasAWayOut, PendingIsCurrent, ActiveStates,
         FinishStates, Unresolved
<1>4. CommittedIsFinal'
  BY DEF StoreTypeOK, JobRow, CommittedIsFinal, PendingIsCurrent, ActiveStates,
         UnresolvedHasAWayOut, FinishStates
<1>5. LedgerAgrees'
  BY DEF StoreTypeOK, JobRow, AttemptRow, LedgerAgrees, PendingIsCurrent,
         UnresolvedHasAWayOut, ActiveStates, FinishStates, Unresolved
<1>6. LeasedIffActive'
  BY DEF StoreTypeOK, JobRow, FinishStates, LeasedIffActive, ActiveStates
<1>7. QED
  BY <1>1, <1>2, <1>3, <1>4, <1>5, <1>6

LEMMA CancelPreserves ==
  ASSUME StoreInv, NEW j \in Jobs,
         RequestCancel(j)
  PROVE  StoreInv'
<1>1. StoreTypeOK'
  <2> USE DEF StoreInv
  <2>1. job' \in [Jobs -> JobRow]
    <3> DEFINE row == [job[j] EXCEPT !.state = IF job[j].state \in ActiveStates
                         THEN "cancel_requested" ELSE "cancelled", !.cancel = TRUE]
    <3>1. job[j] \in JobRow
      BY DEF StoreTypeOK
    <3>2. row \in JobRow
      BY <3>1, Vocabulary, ConstantsAssumption DEF JobRow, RequestCancel, MayCancel
    <3>3. job' = [job EXCEPT ![j] = row]
      BY DEF RequestCancel, MayCancel
    <3>4. QED
      BY <3>2, <3>3, RowUpdate
  <2>2. attempt' \in [Jobs -> [Gens -> AttemptRow]]
    BY DEF StoreTypeOK, RequestCancel, MayCancel
  <2>3. /\ pub' \in [Jobs -> [Gens -> {"none", "pending", "committed", "abandoned"}]]
        /\ keys' \in [Keys -> Request \cup {NoRequest}]
        /\ inputChanged' \in [Jobs -> BOOLEAN]
    BY DEF StoreTypeOK, Request, RequestCancel, MayCancel
  <2>4. QED
    BY <2>1, <2>2, <2>3 DEF StoreTypeOK
<1> USE ConstantsAssumption DEF StoreInv, Gens, RequestCancel, MayCancel
<1>2. PendingIsCurrent'
  BY DEF StoreTypeOK, JobRow, PendingIsCurrent, ActiveStates, Unresolved,
         FinishStates, CommittedIsFinal, UnresolvedHasAWayOut
<1>3. UnresolvedHasAWayOut'
  <2>1. \A i \in Jobs : i # j => job'[i] = job[i]
    BY DEF StoreTypeOK
  <2>2. job'[j].code \notin Unresolved
    BY DEF StoreTypeOK, JobRow
  <2>3. pub' = pub
    OBVIOUS
  <2>4. UnresolvedHasAWayOut
    OBVIOUS
  <2> HIDE DEF StoreInv, RequestCancel, MayCancel
  <2>5. QED
    BY <2>1, <2>2, <2>3, <2>4 DEF UnresolvedHasAWayOut, Unresolved
<1>4. CommittedIsFinal'
  BY DEF StoreTypeOK, JobRow, CommittedIsFinal, PendingIsCurrent, ActiveStates,
         UnresolvedHasAWayOut, FinishStates
<1>5. LedgerAgrees'
  BY DEF StoreTypeOK, JobRow, AttemptRow, LedgerAgrees, PendingIsCurrent,
         UnresolvedHasAWayOut, ActiveStates, FinishStates, Unresolved
<1>6. LeasedIffActive'
  BY DEF StoreTypeOK, JobRow, FinishStates, LeasedIffActive, ActiveStates
<1>7. QED
  BY <1>1, <1>2, <1>3, <1>4, <1>5, <1>6

LEMMA RetryPreserves ==
  ASSUME StoreInv, NEW j \in Jobs,
         RetryJob(j)
  PROVE  StoreInv'
<1>1. StoreTypeOK'
  <2> USE DEF StoreInv
  <2>1. job' \in [Jobs -> JobRow]
    <3> DEFINE granted == job[j].gen + RetryGrant
               released == Release(job[j], "queued", "none")
               row == [released EXCEPT !.cancel = FALSE,
                         !.max = IF job[j].max > granted THEN job[j].max ELSE granted]
    <3>1. job[j] \in JobRow
      BY DEF StoreTypeOK
    <3>2. released \in JobRow
      BY <3>1, Vocabulary, ReleaseType
    <3>3. granted \in 0..MaxGen
      BY <3>1, ConstantsAssumption DEF RetryJob, MayRetry, Granted, JobRow
    <3>4. job[j].max \in 0..MaxGen
      BY <3>1 DEF JobRow
    <3>5. row \in JobRow
      <4> HIDE DEF released, granted
      <4>1. QED
        BY <3>2, <3>3, <3>4 DEF JobRow
    <3>6. job' = [job EXCEPT ![j] = row]
      BY DEF RetryJob, MayRetry, Granted
    <3>7. QED
      BY <3>5, <3>6, RowUpdate
  <2>2. attempt' \in [Jobs -> [Gens -> AttemptRow]]
    BY DEF StoreTypeOK, RetryJob, MayRetry
  <2>3. /\ pub' \in [Jobs -> [Gens -> {"none", "pending", "committed", "abandoned"}]]
        /\ keys' \in [Keys -> Request \cup {NoRequest}]
        /\ inputChanged' \in [Jobs -> BOOLEAN]
    BY DEF StoreTypeOK, Request, RetryJob, MayRetry
  <2>4. QED
    BY <2>1, <2>2, <2>3 DEF StoreTypeOK
<1> USE ConstantsAssumption DEF StoreInv, Gens, RetryJob, MayRetry, Granted, Release
<1>2. PendingIsCurrent'
  BY DEF StoreTypeOK, JobRow, PendingIsCurrent, ActiveStates, Unresolved,
         FinishStates, CommittedIsFinal, UnresolvedHasAWayOut
<1>3. UnresolvedHasAWayOut'
  BY DEF StoreTypeOK, JobRow, UnresolvedHasAWayOut, PendingIsCurrent, ActiveStates,
         FinishStates, Unresolved
<1>4. CommittedIsFinal'
  BY DEF StoreTypeOK, JobRow, CommittedIsFinal, PendingIsCurrent, ActiveStates,
         UnresolvedHasAWayOut, FinishStates
<1>5. LedgerAgrees'
  BY DEF StoreTypeOK, JobRow, AttemptRow, LedgerAgrees, PendingIsCurrent,
         UnresolvedHasAWayOut, ActiveStates, FinishStates, Unresolved
<1>6. LeasedIffActive'
  BY DEF StoreTypeOK, JobRow, FinishStates, LeasedIffActive, ActiveStates
<1>7. QED
  BY <1>1, <1>2, <1>3, <1>4, <1>5, <1>6

LEMMA ClaimPreserves ==
  ASSUME StoreInv, NEW j \in Jobs, NEW o \in Owners,
         ClaimJob(j, o)
  PROVE  StoreInv'
<1>1. StoreTypeOK'
  <2> USE DEF StoreInv
  <2>1. job' \in [Jobs -> JobRow]
    <3> DEFINE row == [job[j] EXCEPT !.state = "running", !.owner = o, !.gen = job[j].gen + 1,
                         !.lease = "live", !.code = "none"]
    <3>1. job[j] \in JobRow
      BY DEF StoreTypeOK
    <3>2. job[j].gen + 1 \in 0..MaxGen
      BY <3>1, ConstantsAssumption DEF JobRow, ClaimJob, Claimable
    <3>3. row \in JobRow
      BY <3>1, <3>2, Vocabulary DEF JobRow
    <3>4. job' = [job EXCEPT ![j] = row]
      BY DEF ClaimJob, Claimable
    <3>5. QED
      BY <3>3, <3>4, RowUpdate
  <2>2. attempt' \in [Jobs -> [Gens -> AttemptRow]]
    <3>1. job[j].gen + 1 \in Gens
      BY ConstantsAssumption DEF StoreTypeOK, JobRow, ClaimJob, Claimable, Gens
    <3>2. [outcome |-> "running", pid |-> FALSE] \in AttemptRow
      BY Vocabulary DEF AttemptRow
    <3>3. QED
      BY <3>1, <3>2, AttemptUpdate DEF ClaimJob, Claimable
  <2>3. /\ pub' \in [Jobs -> [Gens -> {"none", "pending", "committed", "abandoned"}]]
        /\ keys' \in [Keys -> Request \cup {NoRequest}]
        /\ inputChanged' \in [Jobs -> BOOLEAN]
    BY DEF StoreTypeOK, Request, ClaimJob, Claimable
  <2>4. QED
    BY <2>1, <2>2, <2>3 DEF StoreTypeOK
<1> USE ConstantsAssumption DEF StoreInv, Gens, ClaimJob, Claimable
<1>2. PendingIsCurrent'
  BY DEF StoreTypeOK, JobRow, PendingIsCurrent, ActiveStates, Unresolved,
         FinishStates, CommittedIsFinal, UnresolvedHasAWayOut
<1>3. UnresolvedHasAWayOut'
  BY DEF StoreTypeOK, JobRow, UnresolvedHasAWayOut, PendingIsCurrent, ActiveStates,
         FinishStates, Unresolved
<1>4. CommittedIsFinal'
  BY DEF StoreTypeOK, JobRow, CommittedIsFinal, PendingIsCurrent, ActiveStates,
         UnresolvedHasAWayOut, FinishStates
<1>5. LedgerAgrees'
  BY DEF StoreTypeOK, JobRow, AttemptRow, LedgerAgrees, PendingIsCurrent,
         UnresolvedHasAWayOut, ActiveStates, FinishStates, Unresolved
<1>6. LeasedIffActive'
  BY DEF StoreTypeOK, JobRow, FinishStates, LeasedIffActive, ActiveStates
<1>7. QED
  BY <1>1, <1>2, <1>3, <1>4, <1>5, <1>6

LEMMA SetProcessPreserves ==
  ASSUME StoreInv, NEW j \in Jobs, NEW o \in Owners, NEW g \in Gens, NEW recorded \in BOOLEAN,
         SetProcess(j, o, g, recorded)
  PROVE  StoreInv'
<1>1. StoreTypeOK'
  <2> USE DEF StoreInv
  <2>1. job' \in [Jobs -> JobRow]
    BY DEF StoreTypeOK, SetProcess
  <2>2. attempt' \in [Jobs -> [Gens -> AttemptRow]]
    <3> DEFINE row == [attempt[j][g] EXCEPT !.pid = recorded]
    <3>1. attempt[j][g] \in AttemptRow
      BY DEF StoreTypeOK
    <3>2. row \in AttemptRow
      BY <3>1 DEF AttemptRow
    <3>3. attempt' = [attempt EXCEPT ![j][g] = row]
      BY DEF SetProcess
    <3>4. QED
      BY <3>2, <3>3, AttemptUpdate
  <2>3. /\ pub' \in [Jobs -> [Gens -> {"none", "pending", "committed", "abandoned"}]]
        /\ keys' \in [Keys -> Request \cup {NoRequest}]
        /\ inputChanged' \in [Jobs -> BOOLEAN]
    BY DEF StoreTypeOK, Request, SetProcess
  <2>4. QED
    BY <2>1, <2>2, <2>3 DEF StoreTypeOK
<1> USE ConstantsAssumption DEF StoreInv, Gens, SetProcess, Fenced
<1>2. PendingIsCurrent'
  BY DEF StoreTypeOK, JobRow, PendingIsCurrent, ActiveStates, Unresolved,
         FinishStates, CommittedIsFinal, UnresolvedHasAWayOut
<1>3. UnresolvedHasAWayOut'
  BY DEF StoreTypeOK, JobRow, UnresolvedHasAWayOut, PendingIsCurrent, ActiveStates,
         FinishStates, Unresolved
<1>4. CommittedIsFinal'
  BY DEF StoreTypeOK, JobRow, CommittedIsFinal, PendingIsCurrent, ActiveStates,
         UnresolvedHasAWayOut, FinishStates
<1>5. LedgerAgrees'
  BY DEF StoreTypeOK, JobRow, AttemptRow, LedgerAgrees, PendingIsCurrent,
         UnresolvedHasAWayOut, ActiveStates, FinishStates, Unresolved
<1>6. LeasedIffActive'
  BY DEF StoreTypeOK, JobRow, FinishStates, LeasedIffActive, ActiveStates
<1>7. QED
  BY <1>1, <1>2, <1>3, <1>4, <1>5, <1>6

LEMMA RecordPreserves ==
  ASSUME StoreInv, NEW j \in Jobs, NEW o \in Owners, NEW g \in Gens,
         RecordPublication(j, o, g)
  PROVE  StoreInv'
<1>1. StoreTypeOK'
  <2> USE DEF StoreInv
  <2>1. job' \in [Jobs -> JobRow]
    BY DEF StoreTypeOK, RecordPublication
  <2>2. attempt' \in [Jobs -> [Gens -> AttemptRow]]
    BY DEF StoreTypeOK, RecordPublication
  <2>3. /\ pub' \in [Jobs -> [Gens -> {"none", "pending", "committed", "abandoned"}]]
        /\ keys' \in [Keys -> Request \cup {NoRequest}]
        /\ inputChanged' \in [Jobs -> BOOLEAN]
    BY DEF StoreTypeOK, Request, RecordPublication
  <2>4. QED
    BY <2>1, <2>2, <2>3 DEF StoreTypeOK
<1> USE ConstantsAssumption DEF StoreInv, Gens, RecordPublication, Fenced
<1>2. PendingIsCurrent'
  BY DEF StoreTypeOK, JobRow, PendingIsCurrent, ActiveStates, Unresolved,
         FinishStates, CommittedIsFinal, UnresolvedHasAWayOut
<1>3. UnresolvedHasAWayOut'
  BY DEF StoreTypeOK, JobRow, UnresolvedHasAWayOut, PendingIsCurrent, ActiveStates,
         FinishStates, Unresolved
<1>4. CommittedIsFinal'
  BY DEF StoreTypeOK, JobRow, CommittedIsFinal, PendingIsCurrent, ActiveStates,
         UnresolvedHasAWayOut, FinishStates
<1>5. LedgerAgrees'
  BY DEF StoreTypeOK, JobRow, AttemptRow, LedgerAgrees, PendingIsCurrent,
         UnresolvedHasAWayOut, ActiveStates, FinishStates, Unresolved
<1>6. LeasedIffActive'
  BY DEF StoreTypeOK, JobRow, FinishStates, LeasedIffActive, ActiveStates
<1>7. QED
  BY <1>1, <1>2, <1>3, <1>4, <1>5, <1>6

LEMMA AbandonPreserves ==
  ASSUME StoreInv, NEW j \in Jobs, NEW o \in Owners, NEW g \in Gens,
         AbandonPublication(j, o, g)
  PROVE  StoreInv'
<1>1. StoreTypeOK'
  <2> USE DEF StoreInv
  <2>1. job' \in [Jobs -> JobRow]
    BY DEF StoreTypeOK, AbandonPublication
  <2>2. attempt' \in [Jobs -> [Gens -> AttemptRow]]
    BY DEF StoreTypeOK, AbandonPublication
  <2>3. /\ pub' \in [Jobs -> [Gens -> {"none", "pending", "committed", "abandoned"}]]
        /\ keys' \in [Keys -> Request \cup {NoRequest}]
        /\ inputChanged' \in [Jobs -> BOOLEAN]
    BY DEF StoreTypeOK, Request, AbandonPublication
  <2>4. QED
    BY <2>1, <2>2, <2>3 DEF StoreTypeOK
<1> USE ConstantsAssumption DEF StoreInv, Gens, AbandonPublication, Fenced
<1>2. PendingIsCurrent'
  BY DEF StoreTypeOK, JobRow, PendingIsCurrent, ActiveStates, Unresolved,
         FinishStates, CommittedIsFinal, UnresolvedHasAWayOut
<1>3. UnresolvedHasAWayOut'
  BY DEF StoreTypeOK, JobRow, UnresolvedHasAWayOut, PendingIsCurrent, ActiveStates,
         FinishStates, Unresolved
<1>4. CommittedIsFinal'
  BY DEF StoreTypeOK, JobRow, CommittedIsFinal, PendingIsCurrent, ActiveStates,
         UnresolvedHasAWayOut, FinishStates
<1>5. LedgerAgrees'
  BY DEF StoreTypeOK, JobRow, AttemptRow, LedgerAgrees, PendingIsCurrent,
         UnresolvedHasAWayOut, ActiveStates, FinishStates, Unresolved
<1>6. LeasedIffActive'
  BY DEF StoreTypeOK, JobRow, FinishStates, LeasedIffActive, ActiveStates
<1>7. QED
  BY <1>1, <1>2, <1>3, <1>4, <1>5, <1>6

LEMMA FinishPreserves ==
  ASSUME StoreInv, NEW j \in Jobs, NEW o \in Owners, NEW g \in Gens,
         NEW s \in FinishStates, NEW artifact \in BOOLEAN,
         FinishJob(j, o, g, s, artifact)
  PROVE  StoreInv'
<1>1. StoreTypeOK'
  <2> USE DEF StoreInv
  <2>1. job' \in [Jobs -> JobRow]
    <3> DEFINE s1 == FinishState(j, g, s)
               c1 == FinishCode(j, g, s)
    <3>1. job[j] \in JobRow
      BY DEF StoreTypeOK
    <3>2. s1 \in JobStates /\ c1 \in Codes
      BY Vocabulary
         DEF FinishState, FinishCode
    <3>3. job' = [job EXCEPT ![j] = Release(job[j], s1, c1)]
      BY DEF FinishJob
    <3>4. QED
      BY <3>1, <3>2, <3>3, ReleaseType, RowUpdate
  <2>2. attempt' \in [Jobs -> [Gens -> AttemptRow]]
    <3> DEFINE o1 == FinishState(j, g, s)
    <3>1. o1 \in Outcomes
      BY Vocabulary
         DEF FinishState, FinishCode
    <3>2. EndAttempt(j, g, o1)
      BY DEF FinishJob
    <3>3. QED
      BY <3>1, <3>2, EndAttemptType
  <2>3. /\ pub' \in [Jobs -> [Gens -> {"none", "pending", "committed", "abandoned"}]]
        /\ keys' \in [Keys -> Request \cup {NoRequest}]
        /\ inputChanged' \in [Jobs -> BOOLEAN]
    BY DEF StoreTypeOK, Request, FinishJob
  <2>4. QED
    BY <2>1, <2>2, <2>3 DEF StoreTypeOK
<1> USE ConstantsAssumption DEF StoreInv, Gens, FinishJob, FinishState, FinishCode, Exhausted, EndAttempt, Release, Fenced
<1>2. PendingIsCurrent'
  BY DEF StoreTypeOK, JobRow, PendingIsCurrent, ActiveStates, Unresolved,
         FinishStates, CommittedIsFinal, UnresolvedHasAWayOut
<1>3. UnresolvedHasAWayOut'
  BY DEF StoreTypeOK, JobRow, UnresolvedHasAWayOut, PendingIsCurrent, ActiveStates,
         FinishStates, Unresolved
<1>4. CommittedIsFinal'
  BY DEF StoreTypeOK, JobRow, CommittedIsFinal, PendingIsCurrent, ActiveStates,
         UnresolvedHasAWayOut, FinishStates
<1>5. LedgerAgrees'
  BY DEF StoreTypeOK, JobRow, AttemptRow, LedgerAgrees, PendingIsCurrent,
         UnresolvedHasAWayOut, ActiveStates, FinishStates, Unresolved
<1>6. LeasedIffActive'
  BY DEF StoreTypeOK, JobRow, FinishStates, LeasedIffActive, ActiveStates
<1>7. QED
  BY <1>1, <1>2, <1>3, <1>4, <1>5, <1>6

LEMMA RecoverPreserves ==
  ASSUME StoreInv, NEW j \in Jobs, NEW g \in Gens, NEW absent \in BOOLEAN, NEW all \in BOOLEAN,
         job[j].state \in ActiveStates \/ job[j].code \in {"uncertain", "reconcile"},
         RecoverJob(j, g, job[j].state, absent, all)
  PROVE  StoreInv'
<1>1. StoreTypeOK'
  <2> USE DEF StoreInv
  <2>1. job' \in [Jobs -> JobRow]
    <3>1. PICK s1 \in JobStates, c1 \in Codes : job' = [job EXCEPT ![j] = Release(job[j], s1, c1)]
      BY Vocabulary DEF RecoverJob
    <3>2. job[j] \in JobRow
      BY DEF StoreTypeOK
    <3>3. QED
      BY <3>1, <3>2, ReleaseType, RowUpdate
  <2>2. attempt' \in [Jobs -> [Gens -> AttemptRow]]
    <3> DEFINE o1 == IF absent THEN "interrupted" ELSE "unknown"
    <3>1. o1 \in Outcomes
      BY Vocabulary
    <3>2. EndAttempt(j, g, o1)
      BY DEF RecoverJob
    <3>3. QED
      BY <3>1, <3>2, EndAttemptType
  <2>3. /\ pub' \in [Jobs -> [Gens -> {"none", "pending", "committed", "abandoned"}]]
        /\ keys' \in [Keys -> Request \cup {NoRequest}]
        /\ inputChanged' \in [Jobs -> BOOLEAN]
    BY DEF StoreTypeOK, Request, RecoverJob
  <2>4. QED
    BY <2>1, <2>2, <2>3 DEF StoreTypeOK
<1> USE ConstantsAssumption DEF StoreInv, Gens, RecoverJob, HasPending, Exhausted, EndAttempt, Release
<1>2. PendingIsCurrent'
  BY DEF StoreTypeOK, JobRow, PendingIsCurrent, ActiveStates, Unresolved,
         FinishStates, CommittedIsFinal, UnresolvedHasAWayOut
<1>3. UnresolvedHasAWayOut'
  BY DEF StoreTypeOK, JobRow, UnresolvedHasAWayOut, PendingIsCurrent, ActiveStates,
         FinishStates, Unresolved
<1>4. CommittedIsFinal'
  BY DEF StoreTypeOK, JobRow, CommittedIsFinal, PendingIsCurrent, ActiveStates,
         UnresolvedHasAWayOut, FinishStates
<1>5. LedgerAgrees'
  BY DEF StoreTypeOK, JobRow, AttemptRow, LedgerAgrees, PendingIsCurrent,
         UnresolvedHasAWayOut, ActiveStates, FinishStates, Unresolved
<1>6. LeasedIffActive'
  BY DEF StoreTypeOK, JobRow, FinishStates, LeasedIffActive, ActiveStates
<1>7. QED
  BY <1>1, <1>2, <1>3, <1>4, <1>5, <1>6

LEMMA ReconcilePreserves ==
  ASSUME StoreInv, NEW j \in Jobs, NEW g \in Gens, NEW published \in BOOLEAN,
         ReconcilePublication(j, g, published)
  PROVE  StoreInv'
<1>1. StoreTypeOK'
  <2> USE DEF StoreInv
  <2>1. job' \in [Jobs -> JobRow]
    <3> DEFINE s1 == IF published THEN "succeeded"
                     ELSE IF job[j].cancel THEN "cancelled"
                     ELSE IF Exhausted(j) THEN "failed" ELSE "retry_wait"
               c1 == IF published THEN "none" ELSE "other"
    <3>1. job[j] \in JobRow
      BY DEF StoreTypeOK
    <3>2. s1 \in JobStates /\ c1 \in Codes
      BY Vocabulary
    <3>3. job' = [job EXCEPT ![j] = Release(job[j], s1, c1)]
      BY DEF ReconcilePublication
    <3>4. QED
      BY <3>1, <3>2, <3>3, ReleaseType, RowUpdate
  <2>2. attempt' \in [Jobs -> [Gens -> AttemptRow]]
    <3> DEFINE o1 == IF published THEN "succeeded"
                     ELSE IF job[j].cancel THEN "cancelled" ELSE "interrupted"
    <3>1. o1 \in Outcomes
      BY Vocabulary
    <3>2. EndAttempt(j, g, o1)
      BY DEF ReconcilePublication
    <3>3. QED
      BY <3>1, <3>2, EndAttemptType
  <2>3. /\ pub' \in [Jobs -> [Gens -> {"none", "pending", "committed", "abandoned"}]]
        /\ keys' \in [Keys -> Request \cup {NoRequest}]
        /\ inputChanged' \in [Jobs -> BOOLEAN]
    BY DEF StoreTypeOK, Request, ReconcilePublication
  <2>4. QED
    BY <2>1, <2>2, <2>3 DEF StoreTypeOK
<1> USE ConstantsAssumption DEF StoreInv, Gens, ReconcilePublication, Exhausted, EndAttempt, Release
<1>2. PendingIsCurrent'
  BY DEF StoreTypeOK, JobRow, PendingIsCurrent, ActiveStates, Unresolved,
         FinishStates, CommittedIsFinal, UnresolvedHasAWayOut
<1>3. UnresolvedHasAWayOut'
  BY DEF StoreTypeOK, JobRow, UnresolvedHasAWayOut, PendingIsCurrent, ActiveStates,
         FinishStates, Unresolved
<1>4. CommittedIsFinal'
  BY DEF StoreTypeOK, JobRow, CommittedIsFinal, PendingIsCurrent, ActiveStates,
         UnresolvedHasAWayOut, FinishStates
<1>5. LedgerAgrees'
  BY DEF StoreTypeOK, JobRow, AttemptRow, LedgerAgrees, PendingIsCurrent,
         UnresolvedHasAWayOut, ActiveStates, FinishStates, Unresolved
<1>6. LeasedIffActive'
  BY DEF StoreTypeOK, JobRow, FinishStates, LeasedIffActive, ActiveStates
<1>7. QED
  BY <1>1, <1>2, <1>3, <1>4, <1>5, <1>6

LEMMA RejectPreserves ==
  ASSUME StoreInv, NEW j \in Jobs, NEW g \in Gens,
         RejectPublication(j, g)
  PROVE  StoreInv'
<1>1. StoreTypeOK'
  <2> USE DEF StoreInv
  <2>1. job' \in [Jobs -> JobRow]
    <3> DEFINE s1 == "blocked"
               c1 == "reconcile"
    <3>1. job[j] \in JobRow
      BY DEF StoreTypeOK
    <3>2. s1 \in JobStates /\ c1 \in Codes
      BY Vocabulary
    <3>3. job' = [job EXCEPT ![j] = Release(job[j], s1, c1)]
      BY DEF RejectPublication
    <3>4. QED
      BY <3>1, <3>2, <3>3, ReleaseType, RowUpdate
  <2>2. attempt' \in [Jobs -> [Gens -> AttemptRow]]
    BY DEF StoreTypeOK, RejectPublication
  <2>3. /\ pub' \in [Jobs -> [Gens -> {"none", "pending", "committed", "abandoned"}]]
        /\ keys' \in [Keys -> Request \cup {NoRequest}]
        /\ inputChanged' \in [Jobs -> BOOLEAN]
    BY DEF StoreTypeOK, Request, RejectPublication
  <2>4. QED
    BY <2>1, <2>2, <2>3 DEF StoreTypeOK
<1> USE ConstantsAssumption DEF StoreInv, Gens, RejectPublication, Release
<1>2. PendingIsCurrent'
  BY DEF StoreTypeOK, JobRow, PendingIsCurrent, ActiveStates, Unresolved,
         FinishStates, CommittedIsFinal, UnresolvedHasAWayOut
<1>3. UnresolvedHasAWayOut'
  BY DEF StoreTypeOK, JobRow, UnresolvedHasAWayOut, PendingIsCurrent, ActiveStates,
         FinishStates, Unresolved
<1>4. CommittedIsFinal'
  BY DEF StoreTypeOK, JobRow, CommittedIsFinal, PendingIsCurrent, ActiveStates,
         UnresolvedHasAWayOut, FinishStates
<1>5. LedgerAgrees'
  BY DEF StoreTypeOK, JobRow, AttemptRow, LedgerAgrees, PendingIsCurrent,
         UnresolvedHasAWayOut, ActiveStates, FinishStates, Unresolved
<1>6. LeasedIffActive'
  BY DEF StoreTypeOK, JobRow, FinishStates, LeasedIffActive, ActiveStates
<1>7. QED
  BY <1>1, <1>2, <1>3, <1>4, <1>5, <1>6

LEMMA ExpirePreserves ==
  ASSUME StoreInv, NEW j \in Jobs,
         LeaseExpires(j)
  PROVE  StoreInv'
<1>1. StoreTypeOK'
  <2> USE DEF StoreInv
  <2>1. job' \in [Jobs -> JobRow]
    <3> DEFINE row == [job[j] EXCEPT !.lease = "expired"]
    <3>1. job[j] \in JobRow
      BY DEF StoreTypeOK
    <3>2. row \in JobRow
      BY <3>1, Vocabulary, ConstantsAssumption DEF JobRow, LeaseExpires
    <3>3. job' = [job EXCEPT ![j] = row]
      BY DEF LeaseExpires
    <3>4. QED
      BY <3>2, <3>3, RowUpdate
  <2>2. attempt' \in [Jobs -> [Gens -> AttemptRow]]
    BY DEF StoreTypeOK, LeaseExpires
  <2>3. /\ pub' \in [Jobs -> [Gens -> {"none", "pending", "committed", "abandoned"}]]
        /\ keys' \in [Keys -> Request \cup {NoRequest}]
        /\ inputChanged' \in [Jobs -> BOOLEAN]
    BY DEF StoreTypeOK, Request, LeaseExpires
  <2>4. QED
    BY <2>1, <2>2, <2>3 DEF StoreTypeOK
<1> USE ConstantsAssumption DEF StoreInv, Gens, LeaseExpires
<1>2. PendingIsCurrent'
  BY DEF StoreTypeOK, JobRow, PendingIsCurrent, ActiveStates, Unresolved,
         FinishStates, CommittedIsFinal, UnresolvedHasAWayOut
<1>3. UnresolvedHasAWayOut'
  BY DEF StoreTypeOK, JobRow, UnresolvedHasAWayOut, PendingIsCurrent, ActiveStates,
         FinishStates, Unresolved
<1>4. CommittedIsFinal'
  BY DEF StoreTypeOK, JobRow, CommittedIsFinal, PendingIsCurrent, ActiveStates,
         UnresolvedHasAWayOut, FinishStates
<1>5. LedgerAgrees'
  BY DEF StoreTypeOK, JobRow, AttemptRow, LedgerAgrees, PendingIsCurrent,
         UnresolvedHasAWayOut, ActiveStates, FinishStates, Unresolved
<1>6. LeasedIffActive'
  BY DEF StoreTypeOK, JobRow, FinishStates, LeasedIffActive, ActiveStates
<1>7. QED
  BY <1>1, <1>2, <1>3, <1>4, <1>5, <1>6

LEMMA InputChangePreserves ==
  ASSUME StoreInv, NEW j \in Jobs,
         InputChanges(j)
  PROVE  StoreInv'
<1>1. StoreTypeOK'
  <2> USE DEF StoreInv
  <2>1. job' \in [Jobs -> JobRow]
    BY DEF StoreTypeOK, InputChanges
  <2>2. attempt' \in [Jobs -> [Gens -> AttemptRow]]
    BY DEF StoreTypeOK, InputChanges
  <2>3. /\ pub' \in [Jobs -> [Gens -> {"none", "pending", "committed", "abandoned"}]]
        /\ keys' \in [Keys -> Request \cup {NoRequest}]
        /\ inputChanged' \in [Jobs -> BOOLEAN]
    BY DEF StoreTypeOK, Request, InputChanges
  <2>4. QED
    BY <2>1, <2>2, <2>3 DEF StoreTypeOK
<1> USE ConstantsAssumption DEF StoreInv, Gens, InputChanges
<1>2. PendingIsCurrent'
  BY DEF StoreTypeOK, JobRow, PendingIsCurrent, ActiveStates, Unresolved,
         FinishStates, CommittedIsFinal, UnresolvedHasAWayOut
<1>3. UnresolvedHasAWayOut'
  BY DEF StoreTypeOK, JobRow, UnresolvedHasAWayOut, PendingIsCurrent, ActiveStates,
         FinishStates, Unresolved
<1>4. CommittedIsFinal'
  BY DEF StoreTypeOK, JobRow, CommittedIsFinal, PendingIsCurrent, ActiveStates,
         UnresolvedHasAWayOut, FinishStates
<1>5. LedgerAgrees'
  BY DEF StoreTypeOK, JobRow, AttemptRow, LedgerAgrees, PendingIsCurrent,
         UnresolvedHasAWayOut, ActiveStates, FinishStates, Unresolved
<1>6. LeasedIffActive'
  BY DEF StoreTypeOK, JobRow, FinishStates, LeasedIffActive, ActiveStates
<1>7. QED
  BY <1>1, <1>2, <1>3, <1>4, <1>5, <1>6

-----------------------------------------------------------------------------
(* The invariant holds of every behaviour. *)

LEMMA NextPreserves == StoreInv /\ [StoreNext]_storeVars => StoreInv'
<1> SUFFICES ASSUME StoreInv, [StoreNext]_storeVars PROVE StoreInv'
  OBVIOUS
<1>1. ASSUME NEW j \in Jobs, ClientStep(j) PROVE StoreInv'
  BY <1>1, CreatePreserves, ImportPreserves, CancelPreserves, RetryPreserves DEF ClientStep
<1>2. ASSUME NEW j \in Jobs, NEW o \in Owners, OwnerStep(j, o) PROVE StoreInv'
  BY <1>2, ClaimPreserves, SetProcessPreserves, RecordPreserves, AbandonPreserves,
     FinishPreserves DEF OwnerStep
<1>3. ASSUME NEW j \in Jobs, RecoverStep(j) PROVE StoreInv'
  BY <1>3, RecoverPreserves, ReconcilePreserves, RejectPreserves DEF RecoverStep
<1>4. CASE UNCHANGED storeVars
  BY <1>4 DEF storeVars, StoreInv, StoreTypeOK, PendingIsCurrent, UnresolvedHasAWayOut,
              CommittedIsFinal, LedgerAgrees, LeasedIffActive
<1>5. CASE StoreNext
  BY <1>1, <1>2, <1>3, <1>5, ExpirePreserves, InputChangePreserves DEF StoreNext
<1>6. QED
  BY <1>4, <1>5

\* Whatever the clients, the workers and the recovery call, in any order, the
\* tables stay well typed and the invariants hold.
THEOREM StoreInvariant == StoreSpec => []StoreInv
<1>1. QED
  BY InitEstablishes, NextPreserves, PTL DEF StoreSpec

\* A pending publication is always the current generation's, and its job is
\* executing or blocked until it is settled.
THEOREM PendingPublicationIsCurrent == StoreSpec => []PendingIsCurrent
<1>1. StoreInv => PendingIsCurrent
  BY DEF StoreInv
<1>2. QED
  BY <1>1, StoreInvariant, PTL

\* A committed publication is the last execution's of a job that succeeded.
THEOREM CommitsOnce == StoreSpec => []CommittedIsFinal
<1>1. StoreInv => CommittedIsFinal
  BY DEF StoreInv
<1>2. QED
  BY <1>1, StoreInvariant, PTL

-----------------------------------------------------------------------------
(* What no step may do. *)

LEMMA StepFreezesStaleAttempts ==
  ASSUME StoreInv, [StoreNext]_storeVars, NEW i \in Jobs, NEW h \in Gens, h < job[i].gen
  PROVE  attempt'[i][h] = attempt[i][h] /\ pub'[i][h] = pub[i][h]
<1> USE DEF StoreInv, StoreTypeOK, JobRow, Gens
<1> USE ConstantsAssumption
<1>1. ASSUME NEW j \in Jobs, ClientStep(j)
      PROVE  attempt' = attempt /\ pub' = pub
  BY <1>1 DEF ClientStep, CreateJob, ImportLegacyJob, RequestCancel, MayCancel, RetryJob, MayRetry
<1>2. ASSUME NEW j \in Jobs, NEW o \in Owners, OwnerStep(j, o)
      PROVE  attempt'[i][h] = attempt[i][h] /\ pub'[i][h] = pub[i][h]
  <2>1. CASE ClaimJob(j, o)
    BY <2>1 DEF ClaimJob, Claimable
  <2>2. ASSUME NEW g \in Gens, NEW recorded \in BOOLEAN, SetProcess(j, o, g, recorded)
        PROVE  attempt'[i][h] = attempt[i][h] /\ pub'[i][h] = pub[i][h]
    BY <2>2 DEF SetProcess, Fenced
  <2>3. ASSUME NEW g \in Gens, RecordPublication(j, o, g) \/ AbandonPublication(j, o, g)
        PROVE  attempt'[i][h] = attempt[i][h] /\ pub'[i][h] = pub[i][h]
    <3>1. CASE RecordPublication(j, o, g)
      BY <3>1 DEF RecordPublication, Fenced
    <3>2. CASE AbandonPublication(j, o, g)
      BY <3>2 DEF AbandonPublication, Fenced
    <3>3. QED
      BY <2>3, <3>1, <3>2
  <2>4. ASSUME NEW g \in Gens, NEW s \in FinishStates, NEW artifact \in BOOLEAN,
               FinishJob(j, o, g, s, artifact)
        PROVE  attempt'[i][h] = attempt[i][h] /\ pub'[i][h] = pub[i][h]
    BY <2>4 DEF FinishJob, Fenced, EndAttempt
  <2>5. QED
    BY <1>2, <2>1, <2>2, <2>3, <2>4 DEF OwnerStep
<1>3. ASSUME NEW j \in Jobs, RecoverStep(j)
      PROVE  attempt'[i][h] = attempt[i][h] /\ pub'[i][h] = pub[i][h]
  <2>1. PICK g \in Gens :
          \/ \E absent, all \in BOOLEAN : RecoverJob(j, g, job[j].state, absent, all)
          \/ \E published \in BOOLEAN : ReconcilePublication(j, g, published)
          \/ RejectPublication(j, g)
    BY <1>3 DEF RecoverStep
  <2>2. ASSUME NEW absent \in BOOLEAN, NEW all \in BOOLEAN,
               RecoverJob(j, g, job[j].state, absent, all)
        PROVE  attempt'[i][h] = attempt[i][h] /\ pub'[i][h] = pub[i][h]
    BY <2>2 DEF RecoverJob, EndAttempt
  <2>3. ASSUME NEW published \in BOOLEAN, ReconcilePublication(j, g, published)
        PROVE  attempt'[i][h] = attempt[i][h] /\ pub'[i][h] = pub[i][h]
    BY <2>3 DEF ReconcilePublication, EndAttempt
  <2>4. CASE RejectPublication(j, g)
    BY <2>4 DEF RejectPublication
  <2>5. QED
    BY <2>1, <2>2, <2>3, <2>4
<1>4. ASSUME NEW j \in Jobs, LeaseExpires(j) \/ InputChanges(j)
      PROVE  attempt' = attempt /\ pub' = pub
  BY <1>4 DEF LeaseExpires, InputChanges
<1>5. CASE UNCHANGED storeVars
  BY <1>5 DEF storeVars
<1>6. CASE StoreNext
  BY <1>1, <1>2, <1>3, <1>4, <1>6 DEF StoreNext
<1>7. QED
  BY <1>5, <1>6

\* Stale owners cannot commit: nothing rewrites an earlier attempt or its
\* publication once the job has been claimed again.
THEOREM StaleOwnersCannotCommit == StoreSpec => StaleAttemptsAreFrozen
<1>1. StoreInv /\ [StoreNext]_storeVars =>
        [\A j \in Jobs, g \in Gens :
           g < job[j].gen => attempt'[j][g] = attempt[j][g] /\ pub'[j][g] = pub[j][g]]_storeVars
  BY StepFreezesStaleAttempts
<1>2. QED
  BY <1>1, StoreInvariant, PTL DEF StoreSpec, StaleAttemptsAreFrozen

LEMMA StepKeepsSuccess ==
  ASSUME StoreInv, [StoreNext]_storeVars, NEW i \in Jobs, job[i].state = "succeeded"
  PROVE  job'[i] = job[i] /\ attempt'[i] = attempt[i] /\ pub'[i] = pub[i]
<1> USE DEF StoreInv, StoreTypeOK, JobRow, Gens
<1> USE ConstantsAssumption
<1>1. ASSUME NEW j \in Jobs, ClientStep(j)
      PROVE  job'[i] = job[i] /\ attempt' = attempt /\ pub' = pub
  <2>1. ASSUME NEW m \in Limits, NEW k \in Keys \cup {NoKey}, CreateJob(j, m, k)
        PROVE  job'[i] = job[i] /\ attempt' = attempt /\ pub' = pub
    BY <2>1 DEF CreateJob
  <2>2. ASSUME NEW m \in Limits, NEW s \in JobStates, ImportLegacyJob(j, s, m)
        PROVE  job'[i] = job[i] /\ attempt' = attempt /\ pub' = pub
    BY <2>2 DEF ImportLegacyJob
  <2>3. CASE RequestCancel(j) \/ RetryJob(j)
    BY <2>3 DEF RequestCancel, MayCancel, RetryJob, MayRetry
  <2>4. QED
    BY <1>1, <2>1, <2>2, <2>3 DEF ClientStep
<1>2. ASSUME NEW j \in Jobs, NEW o \in Owners, OwnerStep(j, o)
      PROVE  job'[i] = job[i] /\ attempt'[i] = attempt[i] /\ pub'[i] = pub[i]
  <2>1. i # j
    BY <1>2 DEF OwnerStep, ClaimJob, Claimable, SetProcess, RecordPublication, AbandonPublication,
                FinishJob, Fenced, ActiveStates
  <2>2. QED
    BY <1>2, <2>1 DEF OwnerStep, ClaimJob, Claimable, SetProcess, RecordPublication,
                      AbandonPublication, FinishJob, EndAttempt
<1>3. ASSUME NEW j \in Jobs, RecoverStep(j)
      PROVE  job'[i] = job[i] /\ attempt'[i] = attempt[i] /\ pub'[i] = pub[i]
  <2>1. i # j
    BY <1>3 DEF RecoverStep, ReconcilePublication, RejectPublication, ActiveStates,
                PendingIsCurrent, UnresolvedHasAWayOut
  <2>2. QED
    BY <1>3, <2>1 DEF RecoverStep, RecoverJob, ReconcilePublication, RejectPublication,
                      EndAttempt
<1>4. ASSUME NEW j \in Jobs, LeaseExpires(j) \/ InputChanges(j)
      PROVE  job'[i] = job[i] /\ attempt' = attempt /\ pub' = pub
  <2>1. CASE InputChanges(j)
    BY <2>1 DEF InputChanges
  <2>2. CASE LeaseExpires(j)
    BY <2>2 DEF LeaseExpires, LeasedIffActive, ActiveStates
  <2>3. QED
    BY <1>4, <2>1, <2>2
<1>5. CASE UNCHANGED storeVars
  BY <1>5 DEF storeVars
<1>6. CASE StoreNext
  BY <1>1, <1>2, <1>3, <1>4, <1>6 DEF StoreNext
<1>7. QED
  BY <1>5, <1>6

\* No call, in any order, moves a job out of success or rewrites its record.
THEOREM SucceededForever == StoreSpec => SuccessIsFinal
<1>1. StoreInv /\ [StoreNext]_storeVars =>
        [\A j \in Jobs :
           job[j].state = "succeeded" =>
             /\ job'[j] = job[j]
             /\ attempt'[j] = attempt[j]
             /\ pub'[j] = pub[j]]_storeVars
  BY StepKeepsSuccess
<1>2. QED
  BY <1>1, StoreInvariant, PTL DEF StoreSpec, SuccessIsFinal

-----------------------------------------------------------------------------
(* The tables implement DurableJob. *)

Phases == [j \in Jobs |-> PhaseOf(job[j])]
Outputs == [j \in Jobs |-> OutputOf(j)]

\* A step that leaves every row but j's alone changes the abstract state at j only.
LEMMA LocalStep ==
  ASSUME NEW j \in Jobs,
         \A i \in Jobs : i # j => job'[i] = job[i] /\ pub'[i] = pub[i]
  PROVE  /\ Phases' = [Phases EXCEPT ![j] = PhaseOf(job'[j])]
         /\ Outputs' = [Outputs EXCEPT ![j] = OutputOf(j)']
<1>1. \A i \in Jobs : i # j => PhaseOf(job'[i]) = PhaseOf(job[i]) /\ OutputOf(i)' = OutputOf(i)
  BY DEF OutputOf, HasPending
<1>2. QED
  BY <1>1 DEF Phases, Outputs

\* What the output is in terms of the current generation's publication.
LEMMA OutputCases ==
  ASSUME StoreInv, NEW j \in Jobs
  PROVE  /\ OutputOf(j) \in {"none", "intended", "committed"}
         /\ OutputOf(j) = "intended" <=> HasPending(j)
         /\ OutputOf(j) = "committed" => job[j].state = "succeeded"
         /\ HasPending(j) => PhaseOf(job[j]) \in {"executing", "held"}
         /\ HasPending(j) => pub[j][job[j].gen] = "pending"
         /\ \A g \in Gens : pub[j][g] = "pending" => g = job[j].gen
BY DEF StoreInv, OutputOf, HasPending, CommittedIsFinal, PendingIsCurrent, PhaseOf,
       ActiveStates, Unresolved

LEMMA ClientStepSimulates ==
  ASSUME StoreInv, NEW j \in Jobs, ClientStep(j)
  PROVE  Durable!DurableNext \/ UNCHANGED <<Phases, Outputs>>
<1> USE DEF StoreInv, StoreTypeOK
<1>0. pub' = pub /\ OutputOf(j)' = OutputOf(j)
  BY DEF ClientStep, CreateJob, ImportLegacyJob, RequestCancel, MayCancel, RetryJob, MayRetry, OutputOf, HasPending
<1>1. ASSUME NEW m \in Limits, NEW k \in Keys \cup {NoKey}, CreateJob(j, m, k)
      PROVE  Durable!DurableNext \/ UNCHANGED <<Phases, Outputs>>
  <2>1. CASE job[j].state = "absent"
    <3>1. job' = [job EXCEPT ![j].state = "queued", ![j].max = m]
      BY <1>1, <2>1 DEF CreateJob
    <3>2. PhaseOf(job[j]) = "absent" /\ PhaseOf(job'[j]) = "waiting"
      BY <2>1, <3>1 DEF PhaseOf, JobRow, ActiveStates
    <3>3. Durable!Accept(j)
      BY <1>0, <3>1, <3>2, LocalStep DEF Durable!Accept, Durable!Move, Phases, Outputs
    <3>4. QED
      BY <3>3 DEF Durable!DurableNext
  <2>2. CASE job[j].state # "absent"
    <3>1. job' = job
      BY <1>1, <2>2 DEF CreateJob
    <3>2. QED
      BY <1>0, <3>1 DEF Phases, Outputs, OutputOf, HasPending
  <2>3. QED
    BY <2>1, <2>2
<1>2. ASSUME NEW m \in Limits, NEW s \in JobStates, ImportLegacyJob(j, s, m)
      PROVE  Durable!DurableNext
  <2>1. /\ PhaseOf(job[j]) = "absent"
        /\ PhaseOf(job'[j]) \in {"held", "ended", "done"}
        /\ \A i \in Jobs : i # j => job'[i] = job[i]
    <3>1. job'[j].state = s /\ job'[j].code = IF s = "interrupted" THEN "legacy" ELSE "none"
      BY <1>2 DEF ImportLegacyJob, JobRow
    <3>2. PhaseOf(job'[j]) \in {"held", "ended", "done"}
      BY <1>2, <3>1 DEF ImportLegacyJob, PhaseOf, ActiveStates, Unresolved
    <3>3. QED
      BY <1>2, <3>2 DEF ImportLegacyJob, PhaseOf, ActiveStates
  <2>2. Durable!Adopt(j, PhaseOf(job'[j]))
    BY <1>0, <2>1, LocalStep DEF Durable!Adopt, Durable!Move, Phases, Outputs
  <2>3. QED
    BY <2>1, <2>2 DEF Durable!DurableNext
<1>3. CASE RequestCancel(j)
  <2>1. /\ job'[j].code = job[j].code
        /\ job'[j].state = IF job[j].state \in ActiveStates THEN "cancel_requested"
                           ELSE "cancelled"
        /\ \A i \in Jobs : i # j => job'[i] = job[i]
    BY <1>3 DEF RequestCancel, MayCancel, JobRow
  <2>2. CASE job[j].state \in {"queued", "retry_wait"}
    <3>1. PhaseOf(job[j]) = "waiting" /\ PhaseOf(job'[j]) = "ended"
      BY <1>3, <2>1, <2>2 DEF RequestCancel, MayCancel, PhaseOf, ActiveStates
    <3>2. Durable!Cancel(j)
      BY <1>0, <2>1, <3>1, LocalStep DEF Durable!Cancel, Durable!Move, Phases, Outputs
    <3>3. QED
      BY <3>2 DEF Durable!DurableNext
  <2>3. CASE job[j].state \notin {"queued", "retry_wait"}
    <3>1. PhaseOf(job'[j]) = PhaseOf(job[j])
      BY <1>3, <2>1, <2>3 DEF RequestCancel, MayCancel, PhaseOf, ActiveStates, UnresolvedHasAWayOut
    <3>2. Phases' = Phases /\ Outputs' = Outputs
      BY <1>0, <2>1, <3>1, LocalStep DEF Phases, Outputs
    <3>3. QED
      BY <3>2
  <2>4. QED
    BY <2>2, <2>3
<1>4. CASE RetryJob(j)
  <2>1. job'[j].state = "queued" /\ \A i \in Jobs : i # j => job'[i] = job[i]
    BY <1>4 DEF RetryJob, MayRetry, Granted, Release, JobRow
  <2>2. PhaseOf(job[j]) = "ended" /\ PhaseOf(job'[j]) = "waiting"
    BY <1>4, <2>1 DEF RetryJob, MayRetry, PhaseOf, ActiveStates, Unresolved
  <2>3. Durable!Retry(j)
    BY <1>0, <2>1, <2>2, LocalStep DEF Durable!Retry, Durable!Move, Phases, Outputs
  <2>4. QED
    BY <2>3 DEF Durable!DurableNext
<1>5. QED
  BY <1>1, <1>2, <1>3, <1>4 DEF ClientStep

\* A claim, a fenced write or a finish is a step of the job's abstract life, or
\* changes nothing that it shows (the recorded process).
LEMMA OwnerStepSimulates ==
  ASSUME StoreInv, NEW j \in Jobs, NEW o \in Owners, OwnerStep(j, o)
  PROVE  Durable!DurableNext \/ UNCHANGED <<Phases, Outputs>>
<1> USE DEF StoreInv, StoreTypeOK
<1>0. /\ \A i \in Jobs : i # j => job'[i] = job[i] /\ pub'[i] = pub[i]
      /\ Phases' = [Phases EXCEPT ![j] = PhaseOf(job'[j])]
      /\ Outputs' = [Outputs EXCEPT ![j] = OutputOf(j)']
      /\ Phases[j] = PhaseOf(job[j]) /\ Outputs[j] = OutputOf(j)
  <2>1. \A i \in Jobs : i # j => job'[i] = job[i] /\ pub'[i] = pub[i]
    BY DEF OwnerStep, ClaimJob, Claimable, SetProcess, RecordPublication, AbandonPublication, FinishJob
  <2>2. QED
    BY <2>1, LocalStep DEF Phases, Outputs
<1>1. CASE ClaimJob(j, o)
  <2>1. PhaseOf(job[j]) = "waiting" /\ PhaseOf(job'[j]) = "executing"
    BY <1>1 DEF ClaimJob, Claimable, PhaseOf, JobRow, ActiveStates
  <2>2. OutputOf(j) = "none" /\ OutputOf(j)' = OutputOf(j)
    BY <1>1, <2>1, OutputCases DEF ClaimJob, Claimable, OutputOf, HasPending
  <2>3. Durable!Execute(j)
    BY <1>0, <2>1, <2>2 DEF Durable!Execute, Durable!Move, Phases, Outputs
  <2>4. QED
    BY <2>3 DEF Durable!DurableNext
<1>2. ASSUME NEW g \in Gens, NEW recorded \in BOOLEAN, SetProcess(j, o, g, recorded)
      PROVE  UNCHANGED <<Phases, Outputs>>
  BY <1>2 DEF SetProcess, Phases, Outputs, OutputOf, HasPending
<1>3. ASSUME NEW g \in Gens, RecordPublication(j, o, g)
      PROVE  Durable!DurableNext
  <2>1. PhaseOf(job[j]) = "executing" /\ job' = job
    BY <1>3 DEF RecordPublication, Fenced, PhaseOf, ActiveStates
  <2>2. OutputOf(j) = "none"
    <3>1. ~HasPending(j)
      BY <1>3, OutputCases DEF RecordPublication, Fenced
    <3>2. job[j].state # "succeeded"
      BY <1>3 DEF RecordPublication, Fenced, ActiveStates
    <3>3. QED
      BY <3>1, <3>2, OutputCases
  <2>3. OutputOf(j)' = "intended"
    <3>1. pub'[j][g] = "pending"
      BY <1>3 DEF RecordPublication
    <3>2. \A h \in Gens : pub'[j][h] # "committed"
      BY <1>3, <2>2 DEF RecordPublication, OutputOf
    <3>3. QED
      BY <3>1, <3>2 DEF OutputOf, HasPending
  <2>4. Durable!Intend(j)
    BY <1>0, <2>1, <2>2, <2>3 DEF Durable!Intend, Durable!SetOutput, Phases, Outputs
  <2>5. QED
    BY <2>4 DEF Durable!DurableNext
<1>4. ASSUME NEW g \in Gens, AbandonPublication(j, o, g)
      PROVE  Durable!DurableNext
  <2>1. PhaseOf(job[j]) = "executing" /\ job' = job
    BY <1>4 DEF AbandonPublication, Fenced, PhaseOf, ActiveStates
  <2>2. OutputOf(j) = "intended"
    BY <1>4, OutputCases DEF AbandonPublication, HasPending
  <2>3. OutputOf(j)' = "none"
    <3>1. \A h \in Gens : pub'[j][h] # "pending"
      BY <1>4, OutputCases DEF AbandonPublication, Fenced
    <3>2. \A h \in Gens : pub'[j][h] # "committed"
      BY <1>4, <2>2 DEF AbandonPublication, OutputOf
    <3>3. QED
      BY <3>1, <3>2 DEF OutputOf, HasPending
  <2>4. Durable!Withdraw(j)
    BY <1>0, <2>1, <2>2, <2>3 DEF Durable!Withdraw, Durable!SetOutput, Phases, Outputs
  <2>5. QED
    BY <2>4 DEF Durable!DurableNext
<1>5. ASSUME NEW g \in Gens, NEW s \in FinishStates, NEW artifact \in BOOLEAN,
             FinishJob(j, o, g, s, artifact)
      PROVE  Durable!DurableNext
  <2>1. /\ PhaseOf(job[j]) = "executing"
        /\ HasPending(j) <=> pub[j][g] = "pending"
        /\ OutputOf(j) \in {"none", "intended"}
        /\ OutputOf(j) = "intended" <=> pub[j][g] = "pending"
    BY <1>5, OutputCases DEF FinishJob, Fenced, PhaseOf, ActiveStates, HasPending
  <2>2. /\ job'[j].state = FinishState(j, g, s)
        /\ job'[j].code = FinishCode(j, g, s)
    BY <1>5 DEF FinishJob, Release, JobRow
  <2>3. CASE s = "succeeded"
    <3>1. PhaseOf(job'[j]) = "done"
      BY <2>2, <2>3 DEF FinishState, FinishCode, PhaseOf, ActiveStates, Unresolved
    <3>2. OutputOf(j)' = IF OutputOf(j) = "intended" THEN "committed" ELSE OutputOf(j)
      BY <1>5, <2>1, <2>3 DEF FinishJob, OutputOf, HasPending
    <3>3. Durable!Complete(j)
      BY <1>0, <2>1, <3>1, <3>2
         DEF Durable!Complete, Durable!Move, Durable!SetOutput, Phases, Outputs
    <3>4. QED
      BY <3>3 DEF Durable!DurableNext
  <2>4. CASE s # "succeeded" /\ pub[j][g] = "pending"
    <3>1. PhaseOf(job'[j]) = "held"
      BY <2>2, <2>4 DEF FinishState, FinishCode, PhaseOf, ActiveStates, Unresolved
    <3>2. OutputOf(j)' = OutputOf(j)
      BY <1>5, <2>4 DEF FinishJob, OutputOf, HasPending
    <3>3. Durable!Hold(j)
      BY <1>0, <2>1, <3>1, <3>2 DEF Durable!Hold, Durable!Move, Phases, Outputs
    <3>4. QED
      BY <3>3 DEF Durable!DurableNext
  <2>5. CASE s # "succeeded" /\ pub[j][g] # "pending"
    <3>1. PhaseOf(job'[j]) \in {"waiting", "ended"}
      BY <2>2, <2>5 DEF FinishState, FinishCode, FinishStates, PhaseOf, ActiveStates, Unresolved
    <3>2. OutputOf(j) = "none" /\ OutputOf(j)' = "none"
      BY <1>5, <2>1, <2>5 DEF FinishJob, OutputOf, HasPending
    <3>3. Durable!Settle(j, PhaseOf(job'[j]))
      BY <1>0, <2>1, <3>1, <3>2
         DEF Durable!Settle, Durable!Move, Durable!SetOutput, Phases, Outputs
    <3>4. QED
      BY <3>1, <3>3 DEF Durable!DurableNext
  <2>6. QED
    BY <2>3, <2>4, <2>5
<1>6. QED
  BY <1>1, <1>2, <1>3, <1>4, <1>5 DEF OwnerStep

LEMMA RecoverStepSimulates ==
  ASSUME StoreInv, NEW j \in Jobs, RecoverStep(j)
  PROVE  Durable!DurableNext
<1> USE DEF StoreInv, StoreTypeOK
<1>0. /\ Phases' = [Phases EXCEPT ![j] = PhaseOf(job'[j])]
      /\ Outputs' = [Outputs EXCEPT ![j] = OutputOf(j)']
      /\ Phases[j] = PhaseOf(job[j]) /\ Outputs[j] = OutputOf(j)
  <2>1. \A i \in Jobs : i # j => job'[i] = job[i] /\ pub'[i] = pub[i]
    BY DEF RecoverStep, RecoverJob, ReconcilePublication, RejectPublication
  <2>2. QED
    BY <2>1, LocalStep DEF Phases, Outputs
<1>1. ASSUME NEW g \in Gens, NEW absent \in BOOLEAN, NEW all \in BOOLEAN,
             job[j].state \in ActiveStates \/ job[j].code \in {"uncertain", "reconcile"},
             RecoverJob(j, g, job[j].state, absent, all)
      PROVE  Durable!DurableNext
  <2>1. /\ PhaseOf(job[j]) \in {"executing", "held"}
        /\ OutputOf(j) \in {"none", "intended"}
        /\ OutputOf(j) = "intended" <=> HasPending(j)
        /\ OutputOf(j)' = OutputOf(j)
    <3>1. pub' = pub
      BY <1>1 DEF RecoverJob
    <3>2. PhaseOf(job[j]) \in {"executing", "held"} /\ job[j].state # "succeeded"
      BY <1>1 DEF PhaseOf, ActiveStates, Unresolved, UnresolvedHasAWayOut
    <3>3. QED
      BY <3>1, <3>2, OutputCases DEF OutputOf, HasPending
  <2>2. CASE ~absent \/ HasPending(j)
    <3>1. job'[j].state = "blocked" /\ job'[j].code \in {"uncertain", "reconcile"}
      BY <1>1, <2>2 DEF RecoverJob, Release, JobRow
    <3>2. PhaseOf(job'[j]) = "held"
      BY <3>1 DEF PhaseOf, ActiveStates, Unresolved
    <3>3. Durable!Hold(j)
      BY <1>0, <2>1, <3>2 DEF Durable!Hold, Durable!Move, Phases, Outputs
    <3>4. QED
      BY <3>3 DEF Durable!DurableNext
  <2>3. CASE absent /\ ~HasPending(j)
    <3>1. /\ job'[j].state \in {"cancelled", "failed", "retry_wait"}
          /\ job'[j].code \in {"none", "other"}
      BY <1>1, <2>3 DEF RecoverJob, Release, JobRow
    <3>2. PhaseOf(job'[j]) \in {"waiting", "ended"}
      BY <3>1 DEF PhaseOf, ActiveStates, Unresolved
    <3>3. Durable!Settle(j, PhaseOf(job'[j]))
      BY <1>0, <2>1, <2>3, <3>2
         DEF Durable!Settle, Durable!Move, Durable!SetOutput, Phases, Outputs
    <3>4. QED
      BY <3>2, <3>3 DEF Durable!DurableNext
  <2>4. QED
    BY <2>2, <2>3
<1>2. ASSUME NEW g \in Gens, NEW published \in BOOLEAN, ReconcilePublication(j, g, published)
      PROVE  Durable!DurableNext
  <2>1. PhaseOf(job[j]) \in {"executing", "held"} /\ OutputOf(j) = "intended"
    BY <1>2, OutputCases DEF ReconcilePublication, HasPending
  <2>2. \A h \in Gens : h # g => pub'[j][h] = pub[j][h] /\ pub[j][h] \notin {"pending", "committed"}
    BY <1>2, <2>1, OutputCases DEF ReconcilePublication, OutputOf
  <2>3. CASE published
    <3>1. job'[j].state = "succeeded"
      BY <1>2, <2>3 DEF ReconcilePublication, Release, JobRow
    <3>2. PhaseOf(job'[j]) = "done"
      BY <3>1 DEF PhaseOf, ActiveStates
    <3>3. OutputOf(j)' = "committed"
      BY <1>2, <2>3 DEF ReconcilePublication, OutputOf
    <3>4. Durable!Complete(j)
      BY <1>0, <2>1, <3>2, <3>3
         DEF Durable!Complete, Durable!Move, Durable!SetOutput, Phases, Outputs
    <3>5. QED
      BY <3>4 DEF Durable!DurableNext
  <2>4. CASE ~published
    <3>1. job'[j].state \in {"cancelled", "failed", "retry_wait"} /\ job'[j].code = "other"
      BY <1>2, <2>4 DEF ReconcilePublication, Release, JobRow
    <3>2. PhaseOf(job'[j]) \in {"waiting", "ended"}
      BY <3>1 DEF PhaseOf, ActiveStates, Unresolved
    <3>3. OutputOf(j)' = "none"
      BY <1>2, <2>2, <2>4 DEF ReconcilePublication, OutputOf, HasPending
    <3>4. Durable!Settle(j, PhaseOf(job'[j]))
      BY <1>0, <2>1, <3>2, <3>3
         DEF Durable!Settle, Durable!Move, Durable!SetOutput, Phases, Outputs
    <3>5. QED
      BY <3>2, <3>4 DEF Durable!DurableNext
  <2>5. QED
    BY <2>3, <2>4
<1>3. ASSUME NEW g \in Gens, RejectPublication(j, g)
      PROVE  Durable!DurableNext
  <2>1. PhaseOf(job[j]) \in {"executing", "held"}
    BY <1>3, OutputCases DEF RejectPublication, HasPending
  <2>2. job'[j].state = "blocked" /\ job'[j].code = "reconcile" /\ OutputOf(j)' = OutputOf(j)
    BY <1>3 DEF RejectPublication, Release, JobRow, OutputOf, HasPending
  <2>3. PhaseOf(job'[j]) = "held"
    BY <2>2 DEF PhaseOf, ActiveStates, Unresolved
  <2>4. Durable!Hold(j)
    BY <1>0, <2>1, <2>2, <2>3 DEF Durable!Hold, Durable!Move, Phases, Outputs
  <2>5. QED
    BY <2>4 DEF Durable!DurableNext
<1>4. QED
  BY <1>1, <1>2, <1>3 DEF RecoverStep

LEMMA StepSimulates ==
  StoreInv /\ [StoreNext]_storeVars => [Durable!DurableNext]_<<Phases, Outputs>>
<1> SUFFICES ASSUME StoreInv, [StoreNext]_storeVars
             PROVE  Durable!DurableNext \/ UNCHANGED <<Phases, Outputs>>
  OBVIOUS
<1>1. ASSUME NEW j \in Jobs, LeaseExpires(j) \/ InputChanges(j)
      PROVE  UNCHANGED <<Phases, Outputs>>
  <2>1. \A i \in Jobs : job'[i].state = job[i].state /\ job'[i].code = job[i].code
    <3>1. CASE LeaseExpires(j)
      BY <3>1 DEF LeaseExpires, StoreInv, StoreTypeOK, JobRow
    <3>2. CASE InputChanges(j)
      BY <3>2 DEF InputChanges
    <3>3. QED
      BY <1>1, <3>1, <3>2
  <2>2. pub' = pub
    BY <1>1 DEF LeaseExpires, InputChanges
  <2>3. QED
    BY <2>1, <2>2 DEF Phases, Outputs, PhaseOf, OutputOf, HasPending
<1>2. CASE UNCHANGED storeVars
  BY <1>2 DEF storeVars, Phases, Outputs, OutputOf, HasPending
<1>3. CASE StoreNext
  BY <1>1, <1>3, ClientStepSimulates, OwnerStepSimulates, RecoverStepSimulates DEF StoreNext
<1>4. QED
  BY <1>2, <1>3

LEMMA InitSimulates == StoreInit => Durable!DurableInit
BY DEF StoreInit, Durable!DurableInit, PhaseOf, OutputOf, HasPending, NoRow, ActiveStates

\* The tables implement the promised life of a job: every sequence of repository
\* calls is, row by row, a behaviour of DurableJob.
THEOREM StoreImplementsDurableJob == StoreSpec => ImplementsDurableJob
<1>1. StoreInv /\ [StoreNext]_storeVars => [Durable!DurableNext]_(Durable!durableVars)
  BY StepSimulates DEF Durable!durableVars, Phases, Outputs
<1>2. QED
  BY <1>1, InitSimulates, StoreInvariant, PTL
     DEF StoreSpec, ImplementsDurableJob, Durable!DurableSpec

-----------------------------------------------------------------------------
(***************************************************************************)
(* The worker.                                                             *)
(***************************************************************************)

\* What an induction over WorkerNext carries: the tables' invariant, what each
\* thread relies on, and the two statements about tools and outputs.
WorkerIInv ==
    /\ StoreInv
    /\ WorkerInv
    /\ NoVerdictWhileAlive
    /\ OutputMatchesVerdict

\* The lane's steps from which only a live lease leads on.
Waiting == {"claimed", "begin", "failing", "leaving"}

-----------------------------------------------------------------------------
(* Types. *)

LEMMA LaneTyped ==
  ASSUME WorkerTypeOK, NEW l \in Lanes
  PROVE  lane[l] \in LaneRow
BY DEF WorkerTypeOK

\* A lane at work holds a job, and the current generation of it.
LEMMA LaneAtWork ==
  ASSUME WorkerIInv, NEW l \in Lanes, lane[l].pc # "idle"
  PROVE  /\ lane[l].job \in Jobs
         /\ lane[l].gen \in Gens
         /\ lane[l].gen = job[lane[l].job].gen
         /\ app.phase \in {"up", "stopping"}
         /\ Me \in Owners
BY DEF WorkerIInv, WorkerInv, LanesHold, LaneHolds, AppHolds, Me

LEMMA WorkerInitEstablishes == WorkerInit => WorkerIInv
<1> SUFFICES ASSUME WorkerInit PROVE WorkerIInv
  OBVIOUS
<1> USE ConstantsAssumption
<1>1. StoreInv
  BY InitEstablishes DEF WorkerInit
<1>2. IdleLane \in LaneRow
  BY MediaToolsAssumption DEF IdleLane, LaneRow, LaneSteps, Errors
<1>3. WorkerTypeOK
  BY <1>1, <1>2 DEF StoreInv, WorkerInit, WorkerTypeOK, Down, IdleRecon, ReconSteps,
                    Gens, ProcStates, Nothing
<1>4. LanesHold /\ AppHolds /\ PassHolds
  BY DEF WorkerInit, LanesHold, LaneHolds, IdleLane, AppHolds, Down, PassHolds, IdleRecon
<1>5. \A j \in Jobs, g \in Gens : /\ proc[j][g] = "none"
                                  /\ pub[j][g] = "none"
  BY DEF WorkerInit, StoreInit
<1>6. \A j \in Jobs : file[j] = Nothing /\ job[j].state = "absent"
  BY DEF WorkerInit, StoreInit, NoRow
<1>7. ReleasedIsRecorded /\ GenerationsInOrder /\ ToolsPrecedeOutput /\ NoVerdictWhileAlive
  BY <1>5, <1>6 DEF ReleasedIsRecorded, GenerationsInOrder, ToolsPrecedeOutput,
                    NoVerdictWhileAlive, Alive, ActiveStates
<1>8. OutputMatchesVerdict
  BY <1>6 DEF OutputMatchesVerdict, Nothing, Gens, MediaJobs
<1>9. QED
  BY <1>1, <1>3, <1>4, <1>7, <1>8 DEF WorkerIInv, WorkerInv

-----------------------------------------------------------------------------
(* Steps of a lane that only move it. *)

\* A lane may go to any step whose facts hold, except from a waiting one on
\* without a live lease.
LEMMA LaneMoves ==
  ASSUME WorkerIInv, NEW l \in Lanes, lane[l].pc # "idle", NEW a \in LaneRow,
         lane' = [lane EXCEPT ![l] = a],
         a.pc # "idle" => a.job = lane[l].job,
         LaneHolds(l, a),
         a.pc \in Waiting \cup {"idle"} \/ lane[l].pc \notin Waiting
                                        \/ job[lane[l].job].lease = "live",
         UNCHANGED <<storeVars, app, spent, recon, proc, file>>
  PROVE  WorkerIInv'
<1> USE DEF WorkerIInv, WorkerInv
<1>1. StoreInv'
  BY NextPreserves DEF storeVars
<1>2. WorkerTypeOK'
  BY <1>1 DEF WorkerTypeOK, storeVars, StoreInv
<1>3. LanesHold'
  <2> SUFFICES ASSUME NEW k \in Lanes PROVE LaneHolds(k, lane[k])'
    BY DEF LanesHold
  <2>1. CASE k = l
    BY <2>1, LaneTyped DEF LaneHolds, storeVars, WorkerTypeOK, MayRun
  <2>2. CASE k # l
    BY <2>2 DEF LanesHold, LaneHolds, storeVars, WorkerTypeOK, MayRun
  <2>3. QED
    BY <2>1, <2>2
<1>4. PassHolds'
  <2>1. \A c \in Candidate : StaysRecoverable(c) => StaysRecoverable(c)'
    BY DEF StaysRecoverable, storeVars, Starting
  <2>2. \A k \in Lanes : lane'[k].pc # "idle" => lane[k].pc # "idle" /\ lane'[k].job = lane[k].job
    BY DEF WorkerTypeOK
  <2>3. ASSUME NEW k \in Lanes, recon.pc = "write", recon.absent,
               job[recon.cur[1]].gen = recon.cur[2],
               lane'[k].pc # "idle", lane'[k].job = recon.cur[1]
        PROVE  lane'[k].pc \in Waiting
    <3>1. job[recon.cur[1]].lease # "live"
      BY <2>2, <2>3, LaneAtWork DEF PassHolds, StaysRecoverable, Starting
    <3>2. lane[k].pc \in Waiting
      BY <2>2, <2>3 DEF PassHolds, Waiting
    <3>3. QED
      BY <2>2, <2>3, <3>1, <3>2 DEF WorkerTypeOK
  <2>4. recon.cands \subseteq Candidate
    BY DEF WorkerTypeOK
  <2>5. QED
    BY <2>1, <2>2, <2>3, <2>4 DEF PassHolds, storeVars, Waiting
<1>5. QED
  BY <1>1, <1>2, <1>3, <1>4 DEF ReleasedIsRecorded, GenerationsInOrder, ToolsPrecedeOutput,
     AppHolds, NoVerdictWhileAlive, OutputMatchesVerdict, storeVars, MayRun, MediaJobs

\* The lane's record after Go.
LEMMA GoneTo ==
  ASSUME WorkerTypeOK, NEW l \in Lanes, NEW from, NEW to \in LaneSteps, Go(l, from, to)
  PROVE  /\ [lane[l] EXCEPT !.pc = to] \in LaneRow
         /\ lane' = [lane EXCEPT ![l] = [lane[l] EXCEPT !.pc = to]]
         /\ lane[l].pc = from
<1>1. lane[l] \in LaneRow
  BY LaneTyped
<1>2. QED
  BY <1>1 DEF Go, LaneRow, WorkerTypeOK

LEMMA GoPreserves ==
  ASSUME WorkerIInv, NEW l \in Lanes, NEW from, NEW to \in LaneSteps, Go(l, from, to),
         from # "idle", to # "idle",
         LaneHolds(l, [lane[l] EXCEPT !.pc = to]),
         to \in Waiting \/ from \notin Waiting \/ job[lane[l].job].lease = "live",
         UNCHANGED <<storeVars, app, spent, recon, proc, file>>
  PROVE  WorkerIInv'
<1> DEFINE a == [lane[l] EXCEPT !.pc = to]
<1>1. WorkerTypeOK
  BY DEF WorkerIInv, WorkerInv
<1>2. a \in LaneRow /\ lane' = [lane EXCEPT ![l] = a] /\ lane[l].pc = from
  BY <1>1, GoneTo
<1>3. a.pc = to /\ a.job = lane[l].job
  BY <1>1, LaneTyped DEF LaneRow
<1>4. QED
  BY <1>2, <1>3, LaneMoves

LEMMA RegisterPreserves ==
  ASSUME WorkerIInv, NEW l \in Lanes, Register(l) PROVE WorkerIInv'
<1>1. LaneHolds(l, lane[l]) /\ lane[l].pc = "claimed" /\ lane[l] \in LaneRow
  BY LaneTyped DEF WorkerIInv, WorkerInv, LanesHold, Register, Go
<1>2. LaneHolds(l, [lane[l] EXCEPT !.pc = "begin"])
  BY <1>1 DEF LaneHolds, LaneRow, BeforeIntent, Publishing, ToolSteps
<1>3. QED
  BY <1>2, GoPreserves DEF Register, OthersSame, Waiting, LaneSteps

\* The steps that a check of the attempt guards.
LEMMA CheckedStepsPreserve ==
  ASSUME WorkerIInv, NEW l \in Lanes,
         \/ Begin(l) \/ CheckBeforeGate(l) \/ ProcessEnded(l) \/ Verified(l)
         \/ CheckBeforeLink(l) \/ CheckAfterLink(l)
  PROVE  WorkerIInv'
<1> DEFINE at(to) == [lane[l] EXCEPT !.pc = to]
<1>1. LaneHolds(l, lane[l]) /\ lane[l] \in LaneRow
  BY LaneTyped DEF WorkerIInv, WorkerInv, LanesHold
<1>2. \A to : at(to).pc = to /\ at(to).job = lane[l].job /\ at(to).gen = lane[l].gen
              /\ at(to).err = lane[l].err /\ at(to).runs = lane[l].runs
  BY <1>1 DEF LaneRow
<1> HIDE DEF at
<1> USE DEF LaneHolds, BeforeIntent, Publishing, ToolSteps, Go, OthersSame, Waiting
<1>3. CASE Begin(l)
  <2>1. LaneHolds(l, at("ready")) /\ job[lane[l].job].lease = "live"
    BY SMTT(40), <1>1, <1>2, <1>3 DEF Begin, CheckPasses, Fenced
  <2>2. QED
    BY <1>3, <2>1, GoPreserves DEF Begin, at, LaneSteps
<1>4. CASE CheckBeforeGate(l)
  <2>1. LaneHolds(l, at("checked"))
    BY SMTT(40), <1>1, <1>2, <1>4 DEF CheckBeforeGate, CheckPasses, Fenced, MayRun
  <2>2. QED
    BY <1>4, <2>1, GoPreserves DEF CheckBeforeGate, at, LaneSteps
<1>5. CASE ProcessEnded(l)
  <2>1. LaneHolds(l, at("exited"))
    BY SMTT(40), <1>1, <1>2, <1>5 DEF ProcessEnded, Alive
  <2>2. QED
    BY <1>5, <2>1, GoPreserves DEF ProcessEnded, at, LaneSteps
<1>6. CASE Verified(l)
  <2>1. LaneHolds(l, at("verified"))
    BY SMTT(40), <1>1, <1>2, <1>6 DEF Verified
  <2>2. QED
    BY <1>6, <2>1, GoPreserves DEF Verified, at, LaneSteps
<1>7. CASE CheckBeforeLink(l)
  <2>1. LaneHolds(l, at("linking"))
    BY SMTT(40), <1>1, <1>2, <1>7 DEF CheckBeforeLink
  <2>2. QED
    BY <1>7, <2>1, GoPreserves DEF CheckBeforeLink, at, LaneSteps
<1>8. CASE CheckAfterLink(l)
  <2>1. LaneHolds(l, at("committing"))
    BY <1>1, <1>2, <1>8 DEF CheckAfterLink
  <2>2. QED
    BY <1>8, <2>1, GoPreserves DEF CheckAfterLink, at, LaneSteps
<1>9. QED
  BY <1>3, <1>4, <1>5, <1>6, <1>7, <1>8

LEMMA ClassifyPreserves ==
  ASSUME WorkerIInv, NEW l \in Lanes, Classify(l) PROVE WorkerIInv'
<1> DEFINE e == IF job[lane[l].job].state = "cancel_requested" THEN "cancelled" ELSE lane[l].err
           a == [lane[l] EXCEPT !.pc = "finishing", !.err = e]
<1>1. LaneHolds(l, lane[l]) /\ lane[l] \in LaneRow /\ WorkerTypeOK
  BY LaneTyped DEF WorkerIInv, WorkerInv, LanesHold
<1>2. lane' = [lane EXCEPT ![l] = a]
  BY <1>1 DEF Classify, WorkerTypeOK
<1>3. /\ a \in LaneRow
      /\ a.pc = "finishing" /\ a.job = lane[l].job /\ a.gen = lane[l].gen /\ a.err = e
  BY <1>1 DEF LaneRow, LaneSteps, Errors
<1>4. LaneHolds(l, a) /\ job[lane[l].job].lease = "live"
  BY <1>1, <1>3 DEF LaneHolds, BeforeIntent, Publishing, ToolSteps, Classify, Fenced
<1>5. QED
  BY <1>2, <1>3, <1>4, LaneMoves DEF Classify, OthersSame

LEMMA LeavePreserves ==
  ASSUME WorkerIInv, NEW l \in Lanes, Leave(l) PROVE WorkerIInv'
<1>1. IdleLane \in LaneRow /\ IdleLane.pc = "idle"
  BY ConstantsAssumption, MediaToolsAssumption DEF IdleLane, LaneRow, LaneSteps, Errors
<1>2. LaneHolds(l, IdleLane)
  BY <1>1 DEF LaneHolds
<1>3. QED
  BY <1>1, <1>2, LaneMoves DEF Leave, OthersSame

-----------------------------------------------------------------------------
(* Steps of a lane that start, release or end its process. *)

\* A process may come to life only under a lane that is past the waiting steps,
\* with its pid recorded and no output intended.
LEMMA LaneRuns ==
  ASSUME WorkerIInv, NEW l \in Lanes, lane[l].pc # "idle", NEW a \in LaneRow,
         lane' = [lane EXCEPT ![l] = a],
         a.pc # "idle", a.job = lane[l].job,
         NEW v \in ProcStates,
         proc' = [proc EXCEPT ![lane[l].job][lane[l].gen] = v],
         v \in Alive => /\ attempt[lane[l].job][lane[l].gen].pid
                        /\ MayRun(lane[l].job)
                        /\ pub[lane[l].job][lane[l].gen] = "none"
                        /\ lane[l].pc \notin Waiting,
         LaneHolds(l, lane[l])',
         a.pc \in Waiting \/ lane[l].pc \notin Waiting
                          \/ job[lane[l].job].lease = "live",
         UNCHANGED <<storeVars, app, spent, recon, file>>
  PROVE  WorkerIInv'
<1> USE DEF WorkerIInv, WorkerInv
<1> DEFINE j0 == lane[l].job
           g0 == lane[l].gen
<1>0. j0 \in Jobs /\ g0 \in Gens /\ g0 = job[j0].gen
  BY LaneAtWork
<1>1. StoreInv'
  BY NextPreserves DEF storeVars
<1>2. WorkerTypeOK'
  BY <1>0, <1>1 DEF WorkerTypeOK, storeVars, StoreInv
<1>3. \A j \in Jobs, g \in Gens :
        \/ j = j0 /\ g = g0 /\ proc'[j][g] = v
        \/ (j # j0 \/ g # g0) /\ proc'[j][g] = proc[j][g]
  BY <1>0 DEF WorkerTypeOK
<1>4. LanesHold'
  <2> SUFFICES ASSUME NEW k \in Lanes PROVE LaneHolds(k, lane[k])'
    BY DEF LanesHold
  <2>1. CASE k = l
    BY <2>1 DEF WorkerTypeOK
  <2>2. CASE k # l
    <3>1. lane'[k] = lane[k] /\ LaneHolds(k, lane[k])
      BY <2>2 DEF LanesHold, WorkerTypeOK
    <3>2. lane[k].pc # "idle" => lane[k].job # j0
      BY <2>2, <3>1 DEF LanesHold, LaneHolds, Lanes
    <3>3. lane[k].pc # "idle" => /\ lane[k].job \in Jobs /\ lane[k].gen \in Gens
                                 /\ proc'[lane[k].job][lane[k].gen] = proc[lane[k].job][lane[k].gen]
      BY <1>3, <3>1, <3>2 DEF LaneHolds
    <3>4. UNCHANGED <<app, job, attempt, pub, file>>
      BY DEF storeVars
    <3> HIDE DEF WorkerIInv, WorkerInv
    <3>5. QED
      BY <3>1, <3>3, <3>4 DEF LaneHolds, MayRun
  <2>3. QED
    BY <2>1, <2>2
<1>5. PassHolds'
  <2>1. \A c \in Candidate : StaysRecoverable(c) => StaysRecoverable(c)'
    BY DEF StaysRecoverable, storeVars, Starting
  <2>2. \A k \in Lanes : lane'[k].pc # "idle" => lane[k].pc # "idle" /\ lane'[k].job = lane[k].job
    BY DEF WorkerTypeOK
  <2>3. ASSUME recon.pc = "write", recon.absent, job[recon.cur[1]].gen = recon.cur[2]
        PROVE  /\ proc'[recon.cur[1]][recon.cur[2]] \notin Alive
               /\ \A k \in Lanes : lane'[k].pc # "idle" /\ lane'[k].job = recon.cur[1]
                                     => lane'[k].pc \in Waiting
    <3>1. recon.cur[1] \in Jobs /\ recon.cur[2] \in Gens
      BY <2>3 DEF PassHolds, StaysRecoverable, Candidate
    <3>2. recon.cur[1] = j0 => lane[l].pc \in Waiting
      BY <2>3 DEF PassHolds, Waiting
    <3>3. recon.cur[1] = j0 => job[j0].lease # "live"
      BY <2>3, LaneAtWork DEF PassHolds, StaysRecoverable, Starting
    <3>4. proc'[recon.cur[1]][recon.cur[2]] \notin Alive
      BY <1>3, <2>3, <3>1, <3>2 DEF PassHolds
    <3>5. ASSUME NEW k \in Lanes, lane'[k].pc # "idle", lane'[k].job = recon.cur[1]
          PROVE  lane'[k].pc \in Waiting
      <4>1. lane[k].pc \in Waiting
        BY <2>2, <2>3, <3>5 DEF PassHolds, Waiting
      <4>2. QED
        BY <2>2, <3>3, <3>5, <4>1 DEF WorkerTypeOK
    <3>6. QED
      BY <3>4, <3>5
  <2>4. recon.cands \subseteq Candidate
    BY DEF WorkerTypeOK
  <2>5. QED
    BY <2>1, <2>2, <2>3, <2>4 DEF PassHolds, storeVars, Waiting
<1>6. ReleasedIsRecorded' /\ ToolsPrecedeOutput' /\ NoVerdictWhileAlive'
  <2>1. UNCHANGED <<job, attempt, pub>>
    BY DEF storeVars
  <2>2. ReleasedIsRecorded'
    BY <1>0, <1>3, <2>1 DEF ReleasedIsRecorded
  <2>3. ToolsPrecedeOutput'
    BY <1>0, <1>3, <2>1 DEF ToolsPrecedeOutput
  <2>4. NoVerdictWhileAlive'
    BY <1>0, <1>3, <2>1 DEF NoVerdictWhileAlive, MayRun
  <2>5. QED
    BY <2>2, <2>3, <2>4
<1>7. QED
  BY <1>1, <1>2, <1>4, <1>5, <1>6 DEF GenerationsInOrder, AppHolds, OutputMatchesVerdict,
     storeVars, MediaJobs

LEMMA SpawnPreserves ==
  ASSUME WorkerIInv, NEW l \in Lanes, Spawn(l) PROVE WorkerIInv'
<1> DEFINE a == [lane[l] EXCEPT !.pc = "spawned"]
<1>1. WorkerTypeOK /\ LaneHolds(l, lane[l]) /\ lane[l] \in LaneRow
  BY LaneTyped DEF WorkerIInv, WorkerInv, LanesHold
<1>2. a \in LaneRow /\ lane' = [lane EXCEPT ![l] = a] /\ lane[l].pc = "ready"
  BY <1>1, GoneTo DEF Spawn, LaneSteps
<1>3. lane'[l] = a /\ a.pc = "spawned" /\ a.job = lane[l].job /\ a.gen = lane[l].gen /\ a.runs = lane[l].runs
  BY <1>1, <1>2 DEF LaneRow, WorkerTypeOK
<1>4. proc'[lane[l].job][lane[l].gen] = "gated"
  BY <1>1, <1>2 DEF Spawn, WorkerTypeOK, LaneHolds
<1>5. lane[l].runs < MediaTools
  BY <1>1, <1>2, MediaToolsAssumption DEF Spawn, MoreTools, Tools, LaneRow
<1>6. LaneHolds(l, lane[l])'
  BY SMTT(40), <1>1, <1>2, <1>3, <1>4, <1>5 DEF LaneHolds, BeforeIntent, Publishing, ToolSteps, Spawn,
     OthersSame, storeVars, Alive, MayRun
<1>7. QED
  BY <1>2, <1>3, <1>6, LaneRuns DEF Spawn, OthersSame, Alive, ProcStates, Waiting

LEMMA OpenGatePreserves ==
  ASSUME WorkerIInv, NEW l \in Lanes, OpenGate(l) PROVE WorkerIInv'
<1> DEFINE a == [lane[l] EXCEPT !.pc = "running"]
<1>1. WorkerTypeOK /\ LaneHolds(l, lane[l]) /\ lane[l] \in LaneRow
  BY LaneTyped DEF WorkerIInv, WorkerInv, LanesHold
<1>2. a \in LaneRow /\ lane' = [lane EXCEPT ![l] = a] /\ lane[l].pc = "checked"
  BY <1>1, GoneTo DEF OpenGate, LaneSteps
<1>3. lane'[l] = a /\ a.pc = "running" /\ a.job = lane[l].job /\ a.gen = lane[l].gen /\ a.runs = lane[l].runs
  BY <1>1, <1>2 DEF LaneRow, WorkerTypeOK
<1>4. LaneHolds(l, lane[l])'
  BY ZenonT(60), <1>1, <1>2, <1>3 DEF LaneHolds, BeforeIntent, Publishing, ToolSteps, OpenGate,
     OthersSame, storeVars
<1>5. /\ attempt[lane[l].job][lane[l].gen].pid
      /\ MayRun(lane[l].job)
      /\ pub[lane[l].job][lane[l].gen] = "none"
  BY <1>1, <1>2 DEF LaneHolds, BeforeIntent, ToolSteps
<1>6. QED
  BY <1>2, <1>3, <1>4, <1>5, LaneRuns DEF OpenGate, OthersSame, ProcStates, Waiting

LEMMA TerminatePreserves ==
  ASSUME WorkerIInv, NEW l \in Lanes, Terminate(l) PROVE WorkerIInv'
<1>1. WorkerTypeOK /\ LaneHolds(l, lane[l]) /\ lane[l] \in LaneRow
  BY LaneTyped DEF WorkerIInv, WorkerInv, LanesHold
<1> DEFINE to == IF lane[l].pc = "unwind" THEN "exited" ELSE "failing"
           a == [lane[l] EXCEPT !.pc = to]
<1>2. lane' = [lane EXCEPT ![l] = a] /\ lane[l].pc \in {"unwind", "discard"}
  BY <1>1 DEF Terminate, Go, WorkerTypeOK
<1>3. a \in LaneRow
  BY <1>1 DEF LaneRow, LaneSteps
<1>4. /\ lane'[l] = a
      /\ a.pc = to /\ a.job = lane[l].job /\ a.gen = lane[l].gen /\ a.runs = lane[l].runs
      /\ a.err = lane[l].err
  BY <1>1, <1>2 DEF LaneRow, WorkerTypeOK
<1>5. proc'[lane[l].job][lane[l].gen] = "none"
  BY <1>1, <1>2 DEF Terminate, WorkerTypeOK, LaneHolds
<1>6. LaneHolds(l, lane[l])'
  BY <1>1, <1>2, <1>4, <1>5 DEF LaneHolds, BeforeIntent, Publishing, ToolSteps,
     Terminate, OthersSame, storeVars, Alive
<1>7. /\ "none" \in ProcStates /\ "none" \notin Alive
      /\ lane[l].pc # "idle" /\ lane[l].pc \notin Waiting
      /\ a.pc # "idle"
  BY <1>2, <1>4 DEF ProcStates, Alive, Waiting
<1>8. /\ proc' = [proc EXCEPT ![lane[l].job][lane[l].gen] = "none"]
      /\ UNCHANGED <<storeVars, app, spent, recon, file>>
  BY DEF Terminate, OthersSame
<1> HIDE DEF a
<1>9. QED
  BY <1>2, <1>3, <1>4, <1>6, <1>7, <1>8, LaneRuns

LEMMA LaneFailsPreserves ==
  ASSUME WorkerIInv, NEW l \in Lanes, LaneFails(l) PROVE WorkerIInv'
<1>1. WorkerTypeOK /\ LaneHolds(l, lane[l]) /\ lane[l] \in LaneRow
  BY LaneTyped DEF WorkerIInv, WorkerInv, LanesHold
<1> DEFINE to == OnError(lane[l].pc)
<1>2. PICK e \in Raised(l) :
        lane' = [lane EXCEPT ![l].pc = to, ![l].err = IF to = "leaving" THEN "none" ELSE e]
  BY DEF LaneFails
<1>3. /\ lane[l].pc \notin {"idle", "claimed", "leaving"}
      /\ lane[l].pc \in {"begin", "ready", "verified"} => to = "failing"
      /\ lane[l].pc = "spawned" => to = "discard"
      /\ lane[l].pc \in {"recorded", "checked", "running"} => to = "unwind"
      /\ lane[l].pc \in {"intended", "linking"} => to = "abandon"
      /\ lane[l].pc \in {"discard", "unwind", "exited", "linked", "committing", "abandon",
                         "failing", "finishing"} => to = "leaving"
  BY DEF LaneFails, OnError
<1>4. /\ to \in {"failing", "discard", "unwind", "abandon", "leaving"}
      /\ e \in Errors /\ e # "none"
  BY <1>1, <1>3 DEF LaneRow, LaneSteps, Raised, Errors
<1> HIDE DEF to
<1> DEFINE a == [lane[l] EXCEPT !.pc = to, !.err = IF to = "leaving" THEN "none" ELSE e]
<1>5. lane' = [lane EXCEPT ![l] = a]
  BY <1>1, <1>2 DEF WorkerTypeOK
<1>6. /\ a \in LaneRow
      /\ a.pc = to /\ a.job = lane[l].job /\ a.gen = lane[l].gen /\ a.runs = lane[l].runs
      /\ to # "leaving" => a.err # "none"
      /\ lane'[l] = a
  BY ZenonT(60), <1>1, <1>4, <1>5 DEF LaneRow, LaneSteps, Errors, WorkerTypeOK
<1>7. CASE lane[l].pc \in {"spawned", "recorded", "checked"}
  <2>1. proc' = [proc EXCEPT ![lane[l].job][lane[l].gen] = "none"]
    BY <1>7 DEF LaneFails
  <2>2. proc'[lane[l].job][lane[l].gen] = "none"
    BY <1>1, <1>7, <2>1 DEF WorkerTypeOK, LaneHolds
  <2>3. LaneHolds(l, lane[l])'
    BY ZenonT(60), <1>1, <1>3, <1>6, <1>7, <2>2 DEF LaneHolds, BeforeIntent, Publishing, ToolSteps,
       LaneFails, OthersSame, storeVars, Alive
  <2>4. QED
    BY <1>3, <1>5, <1>6, <1>7, <2>1, <2>3, LaneRuns DEF LaneFails, OthersSame, Alive,
       ProcStates, Waiting
<1>8. CASE lane[l].pc \notin {"spawned", "recorded", "checked"}
  <2>1. LaneHolds(l, a)
    BY <1>1, <1>3, <1>4, <1>6, <1>8 DEF LaneHolds, LaneRow, LaneSteps, BeforeIntent, Publishing,
       ToolSteps
  <2>2. lane[l].pc \in Waiting => a.pc \in Waiting
    BY <1>3, <1>6 DEF Waiting
  <2>3. QED
    BY <1>3, <1>5, <1>6, <1>8, <2>1, <2>2, LaneMoves DEF LaneFails, OthersSame
<1>9. QED
  BY <1>7, <1>8

-----------------------------------------------------------------------------
(* Every step of the worker is a call of the tables, or none. *)

LEMMA LaneUsesStore ==
  ASSUME WorkerIInv, NEW l \in Lanes, LaneStep(l)
  PROVE  [StoreNext]_storeVars
<1> DEFINE j0 == lane[l].job
           g0 == lane[l].gen
<1>1. WorkerTypeOK /\ LaneHolds(l, lane[l]) /\ lane[l] \in LaneRow
  BY LaneTyped DEF WorkerIInv, WorkerInv, LanesHold
<1>2. lane[l].pc # "idle" => j0 \in Jobs /\ g0 \in Gens /\ Me \in Owners
  BY LaneAtWork
<1>3. ASSUME NEW j \in Jobs, Claim(l, j) PROVE StoreNext
  <2>1. Me \in Owners
    BY <1>3 DEF WorkerIInv, WorkerInv, AppHolds, Claim, Me
  <2>2. QED
    BY <1>3, <2>1 DEF Claim, StoreNext, OwnerStep
<1>4. CASE RecordProcess(l) \/ ClearProcess(l)
  <2>1. lane[l].pc # "idle" /\ \E b \in BOOLEAN : SetProcess(j0, Me, g0, b)
    BY <1>4 DEF RecordProcess, ClearProcess, Go
  <2>2. QED
    BY <1>2, <2>1 DEF StoreNext, OwnerStep
<1>5. CASE FinishVerify(l) \/ Commit(l) \/ FinishFailed(l)
  <2>1. lane[l].pc = "finishing" => lane[l].err \in FinishStates
    BY <1>1 DEF LaneHolds, LaneRow, Errors, FinishStates
  <2>2. lane[l].pc # "idle"
        /\ \E s \in FinishStates, b \in BOOLEAN : FinishJob(j0, Me, g0, s, b)
    BY <1>5, <2>1 DEF FinishVerify, Commit, FinishFailed, Go, FinishStates
  <2>3. QED
    BY <1>2, <2>2 DEF StoreNext, OwnerStep
<1>6. CASE Intend(l)
  BY <1>2, <1>6 DEF Intend, Go, StoreNext, OwnerStep
<1>7. CASE Abandon(l)
  BY <1>2, <1>7 DEF Abandon, Go, StoreNext, OwnerStep
<1>8. CASE \/ Register(l) \/ Begin(l) \/ Spawn(l) \/ CheckBeforeGate(l) \/ OpenGate(l)
           \/ ProcessEnded(l) \/ Terminate(l) \/ Verified(l) \/ CheckBeforeLink(l)
           \/ Link(l) \/ CheckAfterLink(l) \/ Classify(l) \/ Leave(l) \/ LaneFails(l)
  BY <1>8 DEF Register, Begin, Spawn, CheckBeforeGate, OpenGate, ProcessEnded, Terminate,
     Verified, CheckBeforeLink, Link, CheckAfterLink, Classify, Leave, LaneFails
<1>9. QED
  BY <1>3, <1>4, <1>5, <1>6, <1>7, <1>8 DEF LaneStep

\* A pass writes with the generation it read, for a job that is still there.
LEMMA PassUsesStore ==
  ASSUME WorkerIInv, ReconcileStep
  PROVE  [StoreNext]_storeVars
<1>1. CASE SettlePublication
  <2>1. recon.cur[1] \in Jobs /\ recon.cur[2] \in Gens
    BY <1>1 DEF SettlePublication, WorkerIInv, WorkerInv, PassHolds, Publication
  <2>2. QED
    BY <1>1, <2>1 DEF SettlePublication, StoreNext, RecoverStep
<1>2. CASE Reject
  <2>1. recon.cur[1] \in Jobs /\ recon.cur[2] \in Gens
    BY <1>2 DEF Reject, WorkerIInv, WorkerInv, PassHolds, Publication
  <2>2. QED
    BY <1>2, <2>1 DEF Reject, StoreNext, RecoverStep
<1>3. CASE RecoverCandidate
  <2> DEFINE j == recon.cur[1]
             g == recon.cur[2]
  <2>1. /\ j \in Jobs /\ g \in Gens /\ StaysRecoverable(recon.cur)
        /\ recon.absent \in BOOLEAN
    BY <1>3 DEF RecoverCandidate, WorkerIInv, WorkerInv, PassHolds, WorkerTypeOK, Candidate,
       StaysRecoverable
  <2>2. CASE UNCHANGED storeVars
    BY <2>2
  <2>3. CASE RecoverJob(j, g, recon.cur[3], recon.absent, Starting)
    <3>1. job[j].gen = g /\ job[j].state = recon.cur[3]
      BY <2>3 DEF RecoverJob
    <3>2. job[j].state \in ActiveStates \/ job[j].code \in {"uncertain", "reconcile"}
      BY <2>1, <3>1 DEF StaysRecoverable
    <3>3. Starting \in BOOLEAN
      BY DEF Starting
    <3>4. RecoverJob(j, g, job[j].state, recon.absent, Starting)
      BY <2>3, <3>1
    <3>5. RecoverStep(j)
      BY <2>1, <3>2, <3>3, <3>4 DEF RecoverStep
    <3>6. QED
      BY <2>1, <3>5 DEF StoreNext
  <2>4. QED
    BY <1>3, <2>2, <2>3 DEF RecoverCandidate
<1>4. CASE \/ ListPublications \/ (\E p \in Publication : ExaminePublication(p))
           \/ LookAtFile \/ DoubtPublication \/ RejectRefused \/ ListCandidates
           \/ (\E c \in recon.cands, absent \in BOOLEAN : InspectCandidate(c, absent))
           \/ Reconciled
  BY <1>4 DEF ListPublications, ExaminePublication, LookAtFile, DoubtPublication,
     RejectRefused, EndPass, ListCandidates, InspectCandidate, Reconciled
<1>5. QED
  BY <1>1, <1>2, <1>3, <1>4 DEF ReconcileStep

LEMMA StepUsesStore ==
  ASSUME WorkerIInv, [WorkerNext]_vars
  PROVE  [StoreNext]_storeVars
<1>1. ASSUME NEW j \in Jobs, ApiCall(j) \/ Elapse(j) \/ Revise(j) \/ OtherFile(j)
      PROVE  [StoreNext]_storeVars
  BY <1>1 DEF ApiCall, Elapse, Revise, OtherFile, StoreNext, ClientStep
<1>2. ASSUME NEW j \in Jobs, NEW g \in Gens, NEW rest, ProcessExits(j, g, rest)
      PROVE  [StoreNext]_storeVars
  BY <1>2 DEF ProcessExits
<1>3. CASE ReconcileFails \/ (\E o \in Owners : AppStart(o)) \/ Stop \/ Stopped \/ Crash
  BY <1>3 DEF ReconcileFails, EndPass, AppStart, Stop, Stopped, Crash
<1>4. CASE UNCHANGED vars
  BY <1>4 DEF vars
<1>5. QED
  BY <1>1, <1>2, <1>3, <1>4, LaneUsesStore, PassUsesStore DEF WorkerNext

-----------------------------------------------------------------------------
(* Steps of a lane that write to its row, or put its file. *)

\* Only row j of the tables may change.
OnlyRow(j) ==
  \A i \in Jobs : i # j => /\ job'[i] = job[i]
                           /\ attempt'[i] = attempt[i]
                           /\ pub'[i] = pub[i]

\* A write under a live lease, with no tool at work, that keeps the generation,
\* withdraws no publication to "none" and intends no other than its own.
LEMMA LaneWrites ==
  ASSUME WorkerIInv, NEW l \in Lanes, lane[l].pc # "idle",
         Fenced(lane[l].job, Me, lane[l].gen),
         proc[lane[l].job][lane[l].gen] \notin Alive,
         NEW a \in LaneRow, lane' = [lane EXCEPT ![l] = a], a.pc # "idle", a.job = lane[l].job,
         OnlyRow(lane[l].job), [StoreNext]_storeVars,
         job'[lane[l].job].gen = job[lane[l].job].gen,
         \A g \in Gens :
           \/ pub'[lane[l].job][g] = pub[lane[l].job][g]
           \/ /\ g = lane[l].gen
              /\ pub'[lane[l].job][g] # "none"
              /\ pub[lane[l].job][g] = "none" \/ pub'[lane[l].job][g] # "pending",
         LaneHolds(l, lane[l])',
         OutputMatchesVerdict',
         UNCHANGED <<app, spent, recon, proc, file>>
  PROVE  WorkerIInv'
<1> USE DEF WorkerIInv, WorkerInv
<1> DEFINE j0 == lane[l].job
           g0 == lane[l].gen
<1>0. j0 \in Jobs /\ g0 \in Gens /\ g0 = job[j0].gen /\ app.phase \in {"up", "stopping"}
  BY LaneAtWork
<1>1. StoreInv'
  BY NextPreserves
<1>2. WorkerTypeOK'
  BY <1>1 DEF WorkerTypeOK, StoreInv
<1>3. GenerationsInOrder'
  <2> SUFFICES ASSUME NEW j \in Jobs
               PROVE  /\ job'[j].state \in ActiveStates => job'[j].gen \in Gens
                      /\ \A g \in Gens : pub'[j][g] # "none" => g <= job'[j].gen
    BY DEF GenerationsInOrder
  <2>1. CASE j = j0
    BY <1>0, <2>1, ConstantsAssumption DEF GenerationsInOrder, Gens
  <2>2. CASE j # j0
    BY <2>2 DEF OnlyRow, GenerationsInOrder
  <2>3. QED
    BY <2>1, <2>2
<1>4. LanesHold'
  <2> SUFFICES ASSUME NEW k \in Lanes PROVE LaneHolds(k, lane[k])'
    BY DEF LanesHold
  <2>1. CASE k # l
    <3>1. lane'[k] = lane[k] /\ LaneHolds(k, lane[k])
      BY <2>1 DEF LanesHold, WorkerTypeOK
    <3>2. lane[k].pc # "idle" => lane[k].job \in Jobs /\ lane[k].job # j0
      BY <2>1, <3>1 DEF LanesHold, LaneHolds, Lanes
    <3>3. QED
      BY <3>1, <3>2 DEF LaneHolds, MayRun, OnlyRow
  <2>2. QED
    BY <2>1
<1>5. PassHolds'
  <2>1. ASSUME NEW c \in Candidate, StaysRecoverable(c) PROVE StaysRecoverable(c)'
    <3>1. CASE c[1] = j0
      BY <1>0, <2>1, <3>1 DEF StaysRecoverable, Starting, Fenced
    <3>2. CASE c[1] # j0
      BY <2>1, <3>2 DEF StaysRecoverable, Starting, OnlyRow, Candidate
    <3>3. QED
      BY <3>1, <3>2
  <2>2. \A k \in Lanes : lane'[k].pc # "idle" => lane[k].pc # "idle" /\ lane'[k].job = lane[k].job
    BY DEF WorkerTypeOK
  <2>3. ASSUME NEW p \in Publication, pub[p[1]][p[2]] # "none"
        PROVE  /\ pub'[p[1]][p[2]] # "none"
               /\ pub'[p[1]][p[2]] = "pending" => pub[p[1]][p[2]] = "pending"
    BY <2>3 DEF Publication, OnlyRow
  <2>4. ASSUME recon.pc = "write", recon.absent, job'[recon.cur[1]].gen = recon.cur[2]
        PROVE  /\ proc[recon.cur[1]][recon.cur[2]] \notin Alive
               /\ \A k \in Lanes : lane'[k].pc # "idle" /\ lane'[k].job = recon.cur[1]
                                     => lane'[k].pc \in Waiting
    <3>1. recon.cur[1] \in Jobs /\ recon.cur[1] # j0
      BY <1>0, <2>4 DEF PassHolds, StaysRecoverable, Candidate, Starting, Fenced
    <3>2. job[recon.cur[1]].gen = recon.cur[2]
      BY <2>4, <3>1 DEF OnlyRow
    <3>3. QED
      BY <2>2, <2>4, <3>1, <3>2 DEF PassHolds, Waiting, WorkerTypeOK
  <2>5. recon.cands \subseteq Candidate /\ recon.pubs \subseteq Publication
    BY DEF WorkerTypeOK
  <2>6. QED
    BY <2>1, <2>2, <2>3, <2>4, <2>5 DEF PassHolds, Waiting
<1>6. \A j \in Jobs, g \in Gens : proc[j][g] \in Alive => j # j0
  BY <1>0 DEF ReleasedIsRecorded
<1>7. ReleasedIsRecorded' /\ ToolsPrecedeOutput' /\ NoVerdictWhileAlive'
  BY <1>6 DEF ReleasedIsRecorded, ToolsPrecedeOutput, NoVerdictWhileAlive, MayRun, OnlyRow
<1>8. QED
  BY <1>1, <1>2, <1>3, <1>4, <1>5, <1>7 DEF AppHolds

\* What a fenced call does to its row, and to nothing else.
LEMMA SetProcessWrites ==
  ASSUME StoreTypeOK, NEW j \in Jobs, NEW g \in Gens, NEW o, NEW b \in BOOLEAN,
         SetProcess(j, o, g, b)
  PROVE  /\ Fenced(j, o, g) /\ OnlyRow(j)
         /\ job' = job /\ pub' = pub /\ attempt'[j][g].pid = b
BY DEF SetProcess, StoreTypeOK, AttemptRow, OnlyRow

LEMMA RecordProcessPreserves ==
  ASSUME WorkerIInv, NEW l \in Lanes, RecordProcess(l) PROVE WorkerIInv'
<1> DEFINE a == [lane[l] EXCEPT !.pc = "recorded"]
<1>1. WorkerTypeOK /\ LaneHolds(l, lane[l]) /\ lane[l] \in LaneRow /\ StoreTypeOK
  BY LaneTyped DEF WorkerIInv, WorkerInv, LanesHold, StoreInv
<1>2. a \in LaneRow /\ lane' = [lane EXCEPT ![l] = a] /\ lane[l].pc = "spawned"
  BY <1>1, GoneTo DEF RecordProcess, LaneSteps
<1>3. lane'[l] = a /\ a.pc = "recorded" /\ a.job = lane[l].job /\ a.gen = lane[l].gen
      /\ a.runs = lane[l].runs
  BY <1>1, <1>2 DEF LaneRow, WorkerTypeOK
<1>4. lane[l].job \in Jobs /\ lane[l].gen \in Gens
  BY <1>2, LaneAtWork
<1>5. /\ Fenced(lane[l].job, Me, lane[l].gen) /\ OnlyRow(lane[l].job)
      /\ job' = job /\ pub' = pub /\ attempt'[lane[l].job][lane[l].gen].pid
  BY <1>1, <1>4, SetProcessWrites DEF RecordProcess
<1>6. LaneHolds(l, lane[l])'
  BY <1>1, <1>2, <1>3, <1>5 DEF LaneHolds, BeforeIntent, Publishing, ToolSteps, RecordProcess,
     OthersSame
<1>7. OutputMatchesVerdict'
  BY <1>5 DEF WorkerIInv, OutputMatchesVerdict, RecordProcess, MediaJobs
<1>8. [StoreNext]_storeVars
  BY LaneUsesStore DEF LaneStep
<1>9. proc[lane[l].job][lane[l].gen] \notin Alive
  BY <1>1, <1>2 DEF LaneHolds
<1>10. QED
  BY <1>2, <1>3, <1>5, <1>6, <1>7, <1>8, <1>9, LaneWrites DEF RecordProcess, OthersSame

LEMMA ClearProcessPreserves ==
  ASSUME WorkerIInv, NEW l \in Lanes, ClearProcess(l) PROVE WorkerIInv'
<1> DEFINE to == IF lane[l].err = "none" THEN "ready" ELSE "failing"
           a == [lane[l] EXCEPT !.pc = to, !.runs = lane[l].runs + 1]
<1>1. WorkerTypeOK /\ LaneHolds(l, lane[l]) /\ lane[l] \in LaneRow /\ StoreTypeOK
  BY LaneTyped DEF WorkerIInv, WorkerInv, LanesHold, StoreInv
<1>2. lane' = [lane EXCEPT ![l] = a] /\ lane[l].pc = "exited"
  BY <1>1 DEF ClearProcess, WorkerTypeOK
<1>3. lane[l].runs + 1 \in 0..MediaTools
  BY <1>1, <1>2, MediaToolsAssumption DEF LaneHolds, LaneRow, ToolSteps
<1>4. /\ a \in LaneRow
      /\ lane'[l] = a /\ a.pc = to /\ a.job = lane[l].job /\ a.gen = lane[l].gen
      /\ a.err = lane[l].err
  BY <1>1, <1>2, <1>3 DEF LaneRow, LaneSteps, WorkerTypeOK
<1>5. /\ a.pc = "ready" \/ (a.pc = "failing" /\ a.err # "none")
      /\ lane[l].pc # "idle"
  BY <1>2, <1>4
<1>6. lane[l].job \in Jobs /\ lane[l].gen \in Gens
  BY <1>2, LaneAtWork
<1>7. /\ Fenced(lane[l].job, Me, lane[l].gen) /\ OnlyRow(lane[l].job)
      /\ job' = job /\ pub' = pub
  BY <1>1, <1>6, SetProcessWrites DEF ClearProcess
<1>8. UNCHANGED <<app, spent, recon, proc, file>>
  BY DEF ClearProcess, OthersSame
<1>9. [StoreNext]_storeVars
  BY LaneUsesStore DEF LaneStep
<1>10. proc[lane[l].job][lane[l].gen] \notin Alive
  BY <1>1, <1>2 DEF LaneHolds
<1> HIDE DEF a, to
<1>11. LaneHolds(l, lane[l])'
  BY <1>1, <1>2, <1>4, <1>5, <1>7, <1>8, <1>10 DEF LaneHolds, BeforeIntent, Publishing, ToolSteps
<1>12. OutputMatchesVerdict'
  BY <1>7, <1>8 DEF WorkerIInv, OutputMatchesVerdict, MediaJobs
<1>13. QED
  BY <1>2, <1>4, <1>5, <1>7, <1>8, <1>9, <1>10, <1>11, <1>12, LaneWrites

LEMMA IntendPreserves ==
  ASSUME WorkerIInv, NEW l \in Lanes, Intend(l) PROVE WorkerIInv'
<1> DEFINE a == [lane[l] EXCEPT !.pc = "intended"]
           j0 == lane[l].job
           g0 == lane[l].gen
<1>1. WorkerTypeOK /\ LaneHolds(l, lane[l]) /\ lane[l] \in LaneRow /\ StoreTypeOK
  BY LaneTyped DEF WorkerIInv, WorkerInv, LanesHold, StoreInv
<1>2. a \in LaneRow /\ lane' = [lane EXCEPT ![l] = a] /\ lane[l].pc = "ready"
  BY <1>1, GoneTo DEF Intend, LaneSteps
<1>3. lane'[l] = a /\ a.pc = "intended" /\ a.job = j0 /\ a.gen = g0
  BY <1>1, <1>2 DEF LaneRow, WorkerTypeOK
<1>4. j0 \in Jobs /\ g0 \in Gens
  BY <1>2, LaneAtWork
<1>5. /\ Fenced(j0, Me, g0) /\ OnlyRow(j0) /\ job' = job
      /\ \A g \in Gens : pub'[j0][g] = IF g = g0 THEN "pending" ELSE pub[j0][g]
      /\ pub[j0][g0] = "none"
  BY <1>1, <1>4 DEF Intend, RecordPublication, StoreTypeOK, OnlyRow
<1>6. LaneHolds(l, lane[l])'
  BY ZenonT(60), <1>1, <1>2, <1>3, <1>4, <1>5 DEF LaneHolds, BeforeIntent, Publishing, ToolSteps, Intend,
     OthersSame
<1>7. OutputMatchesVerdict'
  <2>1. \A j \in MediaJobs : job[j].state = "succeeded" => j # j0
    BY <1>5 DEF Fenced, ActiveStates
  <2>2. QED
    BY <1>4, <1>5, <2>1 DEF WorkerIInv, OutputMatchesVerdict, Intend, MediaJobs, OnlyRow
<1>8. [StoreNext]_storeVars
  BY LaneUsesStore DEF LaneStep
<1>9. proc[j0][g0] \notin Alive
  BY SMTT(40), <1>1, <1>2 DEF LaneHolds, ToolSteps
<1>10. QED
  BY <1>2, <1>3, <1>5, <1>6, <1>7, <1>8, <1>9, LaneWrites DEF Intend, OthersSame

\* An attempt that finishes leaves, whatever its verdict.
LEMMA VerdictPreserves ==
  ASSUME WorkerIInv, NEW l \in Lanes, NEW s \in FinishStates, NEW b \in BOOLEAN,
         lane[l].pc \in {"verified", "committing", "finishing"},
         Go(l, lane[l].pc, "leaving"),
         FinishJob(lane[l].job, Me, lane[l].gen, s, b),
         s = "succeeded" => lane[l].pc = "committing" \/ lane[l].job \in VerifyJobs,
         LaneStep(l),
         UNCHANGED <<app, spent, recon, proc, file>>
  PROVE  WorkerIInv'
<1> DEFINE j0 == lane[l].job
           g0 == lane[l].gen
           a == [lane[l] EXCEPT !.pc = "leaving"]
<1>1. WorkerTypeOK /\ LaneHolds(l, lane[l]) /\ lane[l] \in LaneRow /\ StoreTypeOK
  BY LaneTyped DEF WorkerIInv, WorkerInv, LanesHold, StoreInv
<1>2. a \in LaneRow /\ lane' = [lane EXCEPT ![l] = a]
  BY <1>1, GoneTo DEF LaneSteps
<1>3. lane'[l] = a /\ a.pc = "leaving" /\ a.job = j0 /\ a.gen = g0
  BY <1>1, <1>2 DEF LaneRow, WorkerTypeOK
<1>4. /\ lane[l].pc # "idle" /\ j0 \in Jobs /\ g0 \in Gens /\ g0 = job[j0].gen
      /\ FinishJob(j0, Me, g0, s, b) /\ j0 = lane[l].job /\ g0 = lane[l].gen
  BY LaneAtWork
<1> HIDE DEF a, j0, g0
<1>5. /\ Fenced(j0, Me, g0) /\ OnlyRow(j0)
      /\ job'[j0].gen = job[j0].gen
      /\ job'[j0].state = FinishState(j0, g0, s)
      /\ \A h \in Gens :
           \/ pub'[j0][h] = pub[j0][h]
           \/ h = g0 /\ pub[j0][h] = "pending" /\ s = "succeeded" /\ pub'[j0][h] = "committed"
      /\ pub[j0][g0] = "pending" /\ s = "succeeded" => pub'[j0][g0] = "committed"
  <2> DEFINE row == Release(job[j0], FinishState(j0, g0, s), FinishCode(j0, g0, s))
  <2>1. /\ Fenced(j0, Me, g0) /\ job' = [job EXCEPT ![j0] = row]
        /\ EndAttempt(j0, g0, FinishState(j0, g0, s))
        /\ pub' = IF pub[j0][g0] = "pending" /\ s = "succeeded"
                  THEN [pub EXCEPT ![j0][g0] = "committed"] ELSE pub
    BY <1>4 DEF FinishJob
  <2>2. row.gen = job[j0].gen /\ row.state = FinishState(j0, g0, s)
    BY <1>1, <1>4 DEF Release, StoreTypeOK, JobRow
  <2> HIDE DEF row
  <2>3. job'[j0] = row /\ \A i \in Jobs : i # j0 => job'[i] = job[i]
    BY <1>1, <1>4, <2>1 DEF StoreTypeOK
  <2>4. \A i \in Jobs : i # j0 => attempt'[i] = attempt[i]
    BY SMTT(40), <1>1, <2>1 DEF StoreTypeOK, EndAttempt
  <2>5. /\ \A i \in Jobs : i # j0 => pub'[i] = pub[i]
        /\ \A h \in Gens :
           \/ pub'[j0][h] = pub[j0][h]
           \/ h = g0 /\ pub[j0][h] = "pending" /\ s = "succeeded" /\ pub'[j0][h] = "committed"
        /\ pub[j0][g0] = "pending" /\ s = "succeeded" => pub'[j0][g0] = "committed"
    BY <1>1, <1>4, <2>1 DEF StoreTypeOK
  <2>6. QED
    BY SMTT(40), <2>1, <2>2, <2>3, <2>4, <2>5 DEF OnlyRow
<1>6. [StoreNext]_storeVars
  BY LaneUsesStore
<1>7. proc[j0][g0] \notin Alive
  BY SMTT(40), <1>1, <1>4 DEF LaneHolds
<1>8. LaneHolds(l, lane[l])'
  BY <1>1, <1>3, <1>4, <1>5 DEF LaneHolds, BeforeIntent, Publishing, ToolSteps
<1>9. OutputMatchesVerdict'
  <2>1. j0 \in MediaJobs /\ job'[j0].state = "succeeded" => pub'[j0][g0] = "committed"
    <3>1. job'[j0].state = "succeeded" => s = "succeeded"
      BY <1>5 DEF FinishState
    <3>2. lane[l].pc = "committing" => pub[j0][g0] = "pending"
      BY <1>1, <1>4 DEF LaneHolds, Publishing
    <3>3. QED
      BY <1>4, <1>5, <3>1, <3>2 DEF MediaJobs
  <2>2. \A j \in Jobs : file[j] \in Gens => pub[j][file[j]] \in {"pending", "committed"}
    BY DEF WorkerIInv, OutputMatchesVerdict
  <2>3. \A j \in Jobs : file[j] \in Gens => pub'[j][file[j]] \in {"pending", "committed"}
    BY <1>5, <2>2 DEF OnlyRow
  <2>4. \A j \in MediaJobs : j # j0 /\ job'[j].state = "succeeded" => pub'[j][job'[j].gen] = "committed"
    BY <1>5 DEF OnlyRow, MediaJobs, WorkerIInv, OutputMatchesVerdict
  <2>5. QED
    BY <1>4, <1>5, <2>1, <2>3, <2>4 DEF OutputMatchesVerdict
<1>10. QED
  BY <1>2, <1>3, <1>4, <1>5, <1>6, <1>7, <1>8, <1>9, LaneWrites

LEMMA FinishStepsPreserve ==
  ASSUME WorkerIInv, NEW l \in Lanes, FinishVerify(l) \/ Commit(l) \/ FinishFailed(l)
  PROVE  WorkerIInv'
<1>1. LaneHolds(l, lane[l]) /\ lane[l] \in LaneRow
  BY LaneTyped DEF WorkerIInv, WorkerInv, LanesHold
<1>2. LaneStep(l)
  BY DEF LaneStep
<1>3. CASE FinishVerify(l)
  <2>1. PICK s \in {"succeeded", "failed"} : FinishJob(lane[l].job, Me, lane[l].gen, s, TRUE)
    BY <1>3 DEF FinishVerify
  <2>2. lane[l].pc = "verified" /\ lane[l].job \in VerifyJobs /\ s \in FinishStates
    BY <1>1, <1>3 DEF FinishVerify, Go, LaneHolds, FinishStates
  <2>3. QED
    BY <1>2, <1>3, <2>1, <2>2, VerdictPreserves DEF FinishVerify, OthersSame
<1>4. CASE Commit(l)
  <2>1. /\ lane[l].pc = "committing" /\ Go(l, lane[l].pc, "leaving")
        /\ FinishJob(lane[l].job, Me, lane[l].gen, "succeeded", TRUE)
        /\ UNCHANGED <<app, spent, recon, proc, file>>
    BY <1>4 DEF Commit, OthersSame, Go
  <2>2. "succeeded" \in FinishStates
    BY DEF FinishStates
  <2>3. QED
    BY <1>2, <2>1, <2>2, VerdictPreserves
<1>5. CASE FinishFailed(l)
  <2>1. lane[l].pc = "finishing" /\ lane[l].err \in FinishStates /\ lane[l].err # "succeeded"
    BY <1>1, <1>5 DEF FinishFailed, Go, LaneHolds, LaneRow, Errors, FinishStates
  <2>2. /\ Go(l, lane[l].pc, "leaving")
        /\ FinishJob(lane[l].job, Me, lane[l].gen, lane[l].err, FALSE)
        /\ UNCHANGED <<app, spent, recon, proc, file>>
    BY <1>5, <2>1 DEF FinishFailed, OthersSame, Go
  <2>3. QED
    BY <1>2, <2>1, <2>2, VerdictPreserves
<1>6. QED
  BY <1>3, <1>4, <1>5

LEMMA AbandonStepPreserves ==
  ASSUME WorkerIInv, NEW l \in Lanes, Abandon(l) PROVE WorkerIInv'
<1> DEFINE j0 == lane[l].job
           g0 == lane[l].gen
           a == [lane[l] EXCEPT !.pc = "failing"]
<1>1. WorkerTypeOK /\ LaneHolds(l, lane[l]) /\ lane[l] \in LaneRow /\ StoreTypeOK
  BY LaneTyped DEF WorkerIInv, WorkerInv, LanesHold, StoreInv
<1>2. a \in LaneRow /\ lane' = [lane EXCEPT ![l] = a] /\ lane[l].pc = "abandon"
  BY <1>1, GoneTo DEF Abandon, LaneSteps
<1>3. lane'[l] = a /\ a.pc = "failing" /\ a.job = j0 /\ a.gen = g0 /\ a.err = lane[l].err
  BY <1>1, <1>2 DEF LaneRow, WorkerTypeOK
<1>4. j0 \in Jobs /\ g0 \in Gens
  BY <1>2, LaneAtWork
<1>5. /\ Fenced(j0, Me, g0) /\ OnlyRow(j0) /\ job' = job
      /\ \A g \in Gens : pub'[j0][g] = IF g = g0 THEN "abandoned" ELSE pub[j0][g]
      /\ pub[j0][g0] = "pending" /\ file[j0] # g0
  BY <1>1, <1>4 DEF Abandon, AbandonPublication, StoreTypeOK, OnlyRow
<1>6. UNCHANGED <<app, spent, recon, proc, file>>
  BY DEF Abandon, OthersSame
<1>7. [StoreNext]_storeVars
  BY LaneUsesStore DEF LaneStep
<1>8. proc[j0][g0] \notin Alive
  BY <1>1, <1>2 DEF LaneHolds, ToolSteps
<1>9. LaneHolds(l, lane[l])'
  <2>1. /\ app.phase \in {"up", "stopping"} /\ g0 = job[j0].gen /\ lane[l].err # "none"
        /\ (l = "verify" <=> j0 \in VerifyJobs)
    BY <1>1, <1>2 DEF LaneHolds
  <2>2. pub'[j0][g0] = "abandoned" /\ job' = job /\ app' = app /\ proc' = proc
    BY <1>4, <1>5, <1>6
  <2> HIDE DEF j0, g0, a
  <2>3. QED
    BY <1>3, <1>4, <1>8, <2>1, <2>2 DEF LaneHolds, BeforeIntent, Publishing, ToolSteps
<1>10. OutputMatchesVerdict'
  <2>1. \A j \in MediaJobs : job[j].state = "succeeded" => j # j0
    BY <1>5 DEF Fenced, ActiveStates
  <2>2. QED
    BY <1>4, <1>5, <1>6, <2>1 DEF WorkerIInv, OutputMatchesVerdict, MediaJobs, OnlyRow
<1>11. QED
  BY <1>2, <1>3, <1>5, <1>6, <1>7, <1>8, <1>9, <1>10, LaneWrites

LEMMA LinkPreserves ==
  ASSUME WorkerIInv, NEW l \in Lanes, Link(l) PROVE WorkerIInv'
<1> DEFINE a == [lane[l] EXCEPT !.pc = "linked"]
           j0 == lane[l].job
           g0 == lane[l].gen
<1>1. WorkerTypeOK /\ LaneHolds(l, lane[l]) /\ lane[l] \in LaneRow
  BY LaneTyped DEF WorkerIInv, WorkerInv, LanesHold
<1>2. a \in LaneRow /\ lane' = [lane EXCEPT ![l] = a] /\ lane[l].pc = "linking"
  BY <1>1, GoneTo DEF Link, LaneSteps
<1>3. lane'[l] = a /\ a.pc = "linked" /\ a.job = j0 /\ a.gen = g0
  BY <1>1, <1>2 DEF LaneRow, WorkerTypeOK
<1>4. /\ lane[l].pc # "idle" /\ j0 \in Jobs /\ g0 \in Gens /\ g0 = job[j0].gen
      /\ pub[j0][g0] = "pending" /\ proc[j0][g0] \notin Alive
  BY <1>1, <1>2, LaneAtWork DEF LaneHolds, Publishing
<1>5. /\ file' = [file EXCEPT ![j0] = g0] /\ file'[j0] = g0
      /\ \A j \in Jobs : j # j0 => file'[j] = file[j]
  BY <1>1, <1>4 DEF Link, WorkerTypeOK
<1>6. UNCHANGED <<job, attempt, pub, keys, inputChanged, app, spent, recon, proc>>
  BY DEF Link, OthersSame, storeVars
<1>7. StoreInv'
  BY <1>6, NextPreserves DEF WorkerIInv, storeVars
<1>8. \A k \in Lanes : k # l => lane'[k] = lane[k]
  BY <1>1, <1>2 DEF WorkerTypeOK
<1> HIDE DEF a
<1>9. WorkerTypeOK'
  BY <1>1, <1>2, <1>4, <1>5, <1>6, <1>7 DEF WorkerTypeOK, StoreInv
<1>10. LanesHold'
  <2> SUFFICES ASSUME NEW k \in Lanes PROVE LaneHolds(k, lane[k])'
    BY DEF LanesHold
  <2>1. CASE k = l
    BY <1>1, <1>2, <1>3, <1>4, <1>5, <1>6, <2>1 DEF LaneHolds, BeforeIntent, Publishing, ToolSteps
  <2>2. CASE k # l
    <3>1. lane'[k] = lane[k] /\ LaneHolds(k, lane[k])
      BY <1>8, <2>2 DEF LanesHold, WorkerIInv, WorkerInv
    <3>2. lane[k].pc # "idle" => lane[k].job \in Jobs /\ lane[k].job # j0
      BY <1>1, <1>4, <2>2, <3>1 DEF LaneHolds, Lanes
    <3>3. QED
      BY <1>5, <1>6, <3>1, <3>2 DEF LaneHolds, MayRun
  <2>3. QED
    BY <2>1, <2>2
<1>11. PassHolds'
  <2>0. PassHolds
    BY DEF WorkerIInv, WorkerInv
  <2>1. \A c \in Candidate : StaysRecoverable(c) => StaysRecoverable(c)'
    BY <1>6 DEF StaysRecoverable, Starting
  <2>2. \A k \in Lanes : lane'[k].pc # "idle" => lane[k].pc # "idle" /\ lane'[k].job = lane[k].job
    BY <1>3, <1>4, <1>8
  <2>3. ASSUME recon.pc \in {"look", "publish", "unpublish"}, pub[recon.cur[1]][recon.cur[2]] = "pending"
        PROVE  recon.cur[1] \in Jobs /\ recon.cur[1] # j0
    BY <1>4, <2>0, <2>3 DEF PassHolds, Publication
  <2>4. ASSUME recon.pc = "write", recon.absent, job[recon.cur[1]].gen = recon.cur[2]
        PROVE  \A k \in Lanes : lane'[k].pc # "idle" /\ lane'[k].job = recon.cur[1]
                                  => lane'[k].pc \in Waiting
    <3>1. recon.cur[1] # j0
      BY <1>2, <1>4, <2>0, <2>4 DEF PassHolds
    <3>2. QED
      BY <1>3, <1>8, <2>0, <2>4, <3>1 DEF PassHolds, Waiting
  <2>5. recon.cands \subseteq Candidate
    BY <1>1 DEF WorkerTypeOK
  <2>6. QED
    BY <1>5, <1>6, <2>0, <2>1, <2>2, <2>3, <2>4, <2>5 DEF PassHolds, Waiting
<1>12. OutputMatchesVerdict'
  BY <1>4, <1>5, <1>6 DEF WorkerIInv, OutputMatchesVerdict, MediaJobs
<1>13. ReleasedIsRecorded' /\ GenerationsInOrder' /\ ToolsPrecedeOutput' /\ AppHolds' /\ NoVerdictWhileAlive'
  BY <1>6 DEF WorkerIInv, WorkerInv, ReleasedIsRecorded, GenerationsInOrder, ToolsPrecedeOutput,
     AppHolds, NoVerdictWhileAlive, MayRun
<1>14. QED
  BY <1>7, <1>9, <1>10, <1>11, <1>12, <1>13 DEF WorkerIInv, WorkerInv

\* A claim moves the job to a generation that nothing was done in, and that no
\* publication or candidate of a pass refers to.
LEMMA ClaimStepPreserves ==
  ASSUME WorkerIInv, NEW l \in Lanes, NEW j0 \in Jobs, Claim(l, j0) PROVE WorkerIInv'
<1> DEFINE g0 == job[j0].gen + 1
           a == [pc |-> "claimed", job |-> j0, gen |-> g0, runs |-> 0, err |-> "none"]
<1>1. WorkerTypeOK /\ StoreTypeOK /\ Claimable(j0) /\ app.phase = "up" /\ Me \in Owners
  BY DEF WorkerIInv, WorkerInv, StoreInv, Claim, ClaimJob, AppHolds, Me
<1>2. job[j0] \in JobRow /\ g0 \in Gens /\ g0 \in 0..MaxGen
  BY <1>1, ConstantsAssumption DEF StoreTypeOK, JobRow, Claimable, Gens
<1>3. /\ a \in LaneRow /\ lane'[l] = a
      /\ \A k \in Lanes : k # l => lane'[k] = lane[k]
      /\ lane' \in [Lanes -> LaneRow]
  BY <1>1, <1>2, MediaToolsAssumption DEF Claim, WorkerTypeOK, LaneRow, LaneSteps, Errors
<1>4. a.pc = "claimed" /\ a.job = j0 /\ a.gen = g0
  OBVIOUS
<1>5. /\ job'[j0].gen = g0 /\ job'[j0].state = "running"
      /\ OnlyRow(j0) /\ pub' = pub
  BY <1>1, <1>2 DEF Claim, ClaimJob, StoreTypeOK, OnlyRow, JobRow
<1>6. UNCHANGED <<app, spent, recon, proc, file>>
  BY DEF Claim, OthersSame
<1>7. StoreInv'
  BY NextPreserves, LaneUsesStore DEF WorkerIInv, LaneStep
<1>8. \A g \in Gens : proc[j0][g] \notin Alive
  BY <1>1 DEF WorkerIInv, NoVerdictWhileAlive, MayRun, Claimable, ActiveStates
<1>9. /\ pub[j0][g0] = "none"
      /\ \A g \in Gens : pub[j0][g] # "pending"
      /\ \A g \in Gens : pub[j0][g] # "none" => g <= g0
  <2>1. \A g \in Gens : pub[j0][g] # "none" => g <= job[j0].gen
    BY DEF WorkerIInv, WorkerInv, GenerationsInOrder
  <2>2. \A g \in Gens : pub[j0][g] # "pending"
    BY <1>1 DEF WorkerIInv, StoreInv, PendingIsCurrent, Claimable, ActiveStates
  <2>3. QED
    BY <1>2, <2>1, <2>2, ConstantsAssumption DEF Gens, JobRow
<1>10. l = "verify" <=> j0 \in VerifyJobs
  BY DEF Claim
<1> HIDE DEF a
<1>11. WorkerTypeOK'
  BY <1>1, <1>3, <1>6, <1>7 DEF WorkerTypeOK, StoreInv
<1>12. LanesHold'
  <2> SUFFICES ASSUME NEW k \in Lanes PROVE LaneHolds(k, lane[k])'
    BY DEF LanesHold
  <2>1. CASE k = l
    <3>1. proc[j0][g0] \notin Alive
      BY <1>2, <1>8
    <3>2. QED
      BY <1>1, <1>2, <1>3, <1>4, <1>5, <1>6, <1>9, <1>10, <2>1, <3>1 DEF LaneHolds, BeforeIntent,
         Publishing, ToolSteps
  <2>2. CASE k # l
    <3>1. lane'[k] = lane[k] /\ LaneHolds(k, lane[k])
      BY <1>3, <2>2 DEF LanesHold, WorkerIInv, WorkerInv
    <3>2. lane[k].pc # "idle" => lane[k].job \in Jobs /\ lane[k].job # j0
      BY <1>10, <2>2, <3>1 DEF LaneHolds, Lanes
    <3>3. QED
      BY <1>5, <1>6, <3>1, <3>2 DEF LaneHolds, MayRun, OnlyRow
  <2>3. QED
    BY <2>1, <2>2
<1>13. PassHolds'
  <2>0. PassHolds /\ recon.cands \subseteq Candidate /\ recon.pubs \subseteq Publication
    BY <1>1 DEF WorkerIInv, WorkerInv, WorkerTypeOK
  <2>1. ASSUME NEW c \in Candidate, StaysRecoverable(c)
        PROVE  /\ StaysRecoverable(c)'
               /\ job'[c[1]].gen = c[2] => c[1] # j0
    <3>1. CASE c[1] = j0
      <4>1. c[2] \in Gens /\ c[2] <= job[j0].gen /\ c[3] \in ActiveStates \cup {"blocked"}
        BY <2>1, <3>1 DEF StaysRecoverable
      <4>2. c[2] <= g0 /\ c[2] # g0
        BY <1>2, <4>1, ConstantsAssumption DEF Gens, JobRow
      <4>3. QED
        BY <1>5, <3>1, <4>1, <4>2 DEF StaysRecoverable
    <3>2. CASE c[1] # j0
      BY <1>5, <1>6, <2>1, <3>2 DEF StaysRecoverable, Starting, OnlyRow, Candidate
    <3>3. QED
      BY <3>1, <3>2
  <2>2. ASSUME recon.pc \in {"look", "publish", "unpublish"}, pub[recon.cur[1]][recon.cur[2]] = "pending"
        PROVE  recon.cur[1] \in Jobs /\ recon.cur[1] # j0
    BY <1>9, <2>0, <2>2 DEF PassHolds, Publication
  <2>3. ASSUME recon.pc = "write", recon.absent, job'[recon.cur[1]].gen = recon.cur[2]
        PROVE  /\ proc[recon.cur[1]][recon.cur[2]] \notin Alive
               /\ \A k \in Lanes : lane'[k].pc # "idle" /\ lane'[k].job = recon.cur[1]
                                  => lane'[k].pc \in Waiting
    <3>1. recon.cur[1] # j0 /\ recon.cur[1] \in Jobs
      BY <2>0, <2>1, <2>3 DEF PassHolds, Candidate
    <3>2. job[recon.cur[1]].gen = recon.cur[2]
      BY <1>5, <2>3, <3>1 DEF OnlyRow
    <3>3. QED
      BY <1>3, <1>4, <2>0, <2>3, <3>1, <3>2 DEF PassHolds, Waiting
  <2>4. \A k \in Lanes : lane'[k].pc # "idle" /\ lane'[k].job # j0
                           => lane[k].pc # "idle" /\ lane'[k].job = lane[k].job
    BY <1>3, <1>4
  <2>5. recon.pc \in {"look", "publish", "unpublish"} /\ pub[recon.cur[1]][recon.cur[2]] = "pending" =>
          \A k \in Lanes : lane'[k].pc # "idle" => lane'[k].job # recon.cur[1]
    BY <1>3, <1>4, <2>0, <2>2 DEF PassHolds
  <2>6. QED
    BY <1>5, <1>6, <2>0, <2>1, <2>3, <2>5 DEF PassHolds, Waiting
<1>14. OutputMatchesVerdict'
  BY <1>5, <1>6 DEF WorkerIInv, OutputMatchesVerdict, MediaJobs, OnlyRow
<1>15. ReleasedIsRecorded' /\ ToolsPrecedeOutput' /\ NoVerdictWhileAlive'
  BY <1>5, <1>6, <1>8 DEF WorkerIInv, WorkerInv, ReleasedIsRecorded, ToolsPrecedeOutput,
     NoVerdictWhileAlive, MayRun, OnlyRow
<1>16. GenerationsInOrder' /\ AppHolds'
  BY <1>2, <1>5, <1>6, <1>9 DEF WorkerIInv, WorkerInv, GenerationsInOrder, AppHolds, OnlyRow
<1>17. QED
  BY <1>7, <1>11, <1>12, <1>13, <1>14, <1>15, <1>16 DEF WorkerIInv, WorkerInv

LEMMA LaneStepPreserves ==
  ASSUME WorkerIInv, NEW l \in Lanes, LaneStep(l)
  PROVE  WorkerIInv'
<1>1. ASSUME NEW j \in Jobs, Claim(l, j) PROVE WorkerIInv'
  BY <1>1, ClaimStepPreserves
<1>2. CASE Register(l) \/ Spawn(l) \/ RecordProcess(l) \/ OpenGate(l) \/ Terminate(l) \/ ClearProcess(l)
  BY <1>2, RegisterPreserves, SpawnPreserves, RecordProcessPreserves, OpenGatePreserves,
     TerminatePreserves, ClearProcessPreserves
<1>3. CASE \/ Begin(l) \/ CheckBeforeGate(l) \/ ProcessEnded(l) \/ Verified(l)
           \/ CheckBeforeLink(l) \/ CheckAfterLink(l)
  BY <1>3, CheckedStepsPreserve
<1>4. CASE FinishVerify(l) \/ Commit(l) \/ FinishFailed(l)
  BY <1>4, FinishStepsPreserve
<1>5. CASE Intend(l) \/ Link(l) \/ Abandon(l) \/ Classify(l) \/ Leave(l) \/ LaneFails(l)
  BY <1>5, IntendPreserves, LinkPreserves, AbandonStepPreserves, ClassifyPreserves,
     LeavePreserves, LaneFailsPreserves
<1>6. QED
  BY <1>1, <1>2, <1>3, <1>4, <1>5 DEF LaneStep

-----------------------------------------------------------------------------
(* Steps of a pass that only look. *)

ReconRow == [pc : ReconSteps, pubs : SUBSET Publication, cands : SUBSET Candidate,
             cur : {<<>>} \cup Publication \cup Candidate, absent : BOOLEAN]

LEMMA PassMoves ==
  ASSUME WorkerIInv, recon' \in ReconRow, PassHolds',
         \/ app' = app
         \/ Starting /\ app' = Down
         \/ Starting /\ app' = [app EXCEPT !.phase = "up"],
         UNCHANGED <<storeVars, spent, lane, proc, file>>
  PROVE  WorkerIInv'
<1> USE DEF WorkerIInv, WorkerInv
<1>1. StoreInv'
  BY NextPreserves DEF storeVars
<1>2. WorkerTypeOK'
  <2>1. app' \in [phase : {"down", "starting", "up", "stopping"}, me : Owners \cup {NoOwner}]
    BY DEF WorkerTypeOK, Down
  <2>2. QED
    BY <1>1, <2>1 DEF WorkerTypeOK, StoreInv, ReconRow
<1>3. LanesHold'
  <2> SUFFICES ASSUME NEW l \in Lanes, lane[l].pc # "idle" PROVE LaneHolds(l, lane[l])'
    BY DEF LanesHold, LaneHolds
  <2>1. ~Starting /\ LaneHolds(l, lane[l])
    BY LaneAtWork DEF Starting, LanesHold
  <2>2. QED
    BY <2>1 DEF LaneHolds, MayRun, storeVars
<1>4. AppHolds'
  BY DEF AppHolds, Starting, Down, WorkerTypeOK
<1>5. QED
  BY <1>1, <1>2, <1>3, <1>4 DEF ReleasedIsRecorded, GenerationsInOrder, ToolsPrecedeOutput,
     NoVerdictWhileAlive, OutputMatchesVerdict, storeVars, MayRun, MediaJobs

\* A pass that is over holds nothing.
LEMMA IdlePass ==
  ASSUME recon' = IdleRecon
  PROVE  recon' \in ReconRow /\ PassHolds'
BY DEF IdleRecon, ReconRow, ReconSteps, PassHolds

LEMMA EndPassPreserves ==
  ASSUME WorkerIInv, EndPass PROVE WorkerIInv'
BY IdlePass, PassMoves DEF EndPass

LEMMA ReconciledPreserves ==
  ASSUME WorkerIInv, Reconciled PROVE WorkerIInv'
BY IdlePass, PassMoves DEF Reconciled

LEMMA ListPublicationsPreserves ==
  ASSUME WorkerIInv, ListPublications PROVE WorkerIInv'
<1>1. /\ recon'.pc = "pubs" /\ recon'.cands = {} /\ recon' \in ReconRow
      /\ \A p \in recon'.pubs : pub[p[1]][p[2]] = "pending"
  BY DEF ListPublications, IdleRecon, ReconRow, ReconSteps
<1>2. pub' = pub
  BY DEF ListPublications, storeVars
<1>3. PassHolds'
  BY <1>1, <1>2 DEF PassHolds
<1>4. QED
  BY <1>1, <1>3, PassMoves DEF ListPublications, LanesSame

LEMMA ExaminePublicationPreserves ==
  ASSUME WorkerIInv, NEW p \in Publication, ExaminePublication(p) PROVE WorkerIInv'
<1>1. /\ recon \in ReconRow /\ PassHolds /\ recon.pc = "pubs" /\ p \in recon.pubs
      /\ p[1] \in Jobs /\ p[2] \in Gens
  BY DEF WorkerIInv, WorkerInv, WorkerTypeOK, ReconRow, ExaminePublication, Publication
<1>2. \/ recon' = [recon EXCEPT !.pubs = @ \ {p}]
      \/ ~Active(p[1]) /\ recon' = [recon EXCEPT !.pubs = @ \ {p}, !.cur = p, !.pc = "look"]
      \/ recon' = [recon EXCEPT !.pubs = @ \ {p}, !.cur = p, !.pc = "reject"]
  BY DEF ExaminePublication
<1>3. /\ recon' \in ReconRow
      /\ recon'.pubs = recon.pubs \ {p} /\ recon'.cands = recon.cands
      /\ \/ recon'.pc = "pubs"
         \/ recon'.pc = "look" /\ recon'.cur = p /\ ~Active(p[1])
         \/ recon'.pc = "reject" /\ recon'.cur = p
  BY ZenonT(60), <1>1, <1>2 DEF ReconRow, ReconSteps
<1>4. ASSUME ~Active(p[1]), pub[p[1]][p[2]] = "pending"
      PROVE  \A l \in Lanes : lane[l].pc # "idle" => lane[l].job # p[1]
  <2> SUFFICES ASSUME NEW l \in Lanes, lane[l].pc # "idle", lane[l].job = p[1] PROVE FALSE
    OBVIOUS
  <2>1. lane[l].pc = "claimed"
    BY <1>4 DEF Active
  <2>2. p[2] = job[p[1]].gen
    BY <1>1, <1>4 DEF WorkerIInv, StoreInv, PendingIsCurrent
  <2>3. LaneHolds(l, lane[l])
    BY DEF WorkerIInv, WorkerInv, LanesHold
  <2>4. QED
    BY <1>4, <2>1, <2>2, <2>3 DEF LaneHolds, BeforeIntent
<1>5. UNCHANGED <<app, spent, lane, proc, file, storeVars>>
  BY DEF ExaminePublication, LanesSame
<1>6. \A c \in recon.cands : StaysRecoverable(c)'
  BY <1>1, <1>5 DEF PassHolds, StaysRecoverable, Starting, storeVars
<1>7. PassHolds'
  BY <1>1, <1>3, <1>4, <1>5, <1>6 DEF PassHolds, storeVars
<1>8. QED
  BY <1>3, <1>5, <1>7, PassMoves

LEMMA LookAtFilePreserves ==
  ASSUME WorkerIInv, LookAtFile PROVE WorkerIInv'
<1> DEFINE v == FileVerdict(recon.cur[1], recon.cur[2])
<1>1. /\ recon \in ReconRow /\ PassHolds /\ recon.pc = "look" /\ recon.cur \in Publication
      /\ recon' = [recon EXCEPT !.pc = v]
  BY DEF WorkerIInv, WorkerInv, WorkerTypeOK, ReconRow, LookAtFile, PassHolds
<1>2. /\ v \in {"publish", "unpublish", "reject"}
      /\ v = "publish" => file[recon.cur[1]] = recon.cur[2]
      /\ v = "unpublish" => file[recon.cur[1]] # recon.cur[2]
  BY <1>1, ConstantsAssumption DEF FileVerdict, Nothing, Publication, Gens
<1> HIDE DEF v
<1>3. /\ recon' \in ReconRow /\ recon'.pc = v
      /\ recon'.pubs = recon.pubs /\ recon'.cands = recon.cands /\ recon'.cur = recon.cur
  BY <1>1, <1>2 DEF ReconRow, ReconSteps
<1>4. UNCHANGED <<app, spent, lane, proc, file, storeVars>>
  BY DEF LookAtFile, LanesSame
<1>5. \A c \in recon.cands : StaysRecoverable(c)'
  BY <1>1, <1>4 DEF PassHolds, StaysRecoverable, Starting, storeVars
<1>6. PassHolds'
  BY <1>1, <1>2, <1>3, <1>4, <1>5 DEF PassHolds, storeVars
<1>7. QED
  BY <1>3, <1>4, <1>6, PassMoves

LEMMA DoubtPublicationPreserves ==
  ASSUME WorkerIInv, DoubtPublication PROVE WorkerIInv'
<1>1. /\ recon \in ReconRow /\ PassHolds /\ recon.cur \in Publication
      /\ recon.pc \in {"look", "publish", "unpublish"}
      /\ recon' = [recon EXCEPT !.pc = "reject"]
  BY DEF WorkerIInv, WorkerInv, WorkerTypeOK, ReconRow, DoubtPublication, PassHolds
<1>2. /\ recon' \in ReconRow /\ recon'.pc = "reject"
      /\ recon'.pubs = recon.pubs /\ recon'.cands = recon.cands /\ recon'.cur = recon.cur
  BY <1>1 DEF ReconRow, ReconSteps
<1>3. UNCHANGED <<app, spent, lane, proc, file, storeVars>>
  BY DEF DoubtPublication, LanesSame
<1>4. \A c \in recon.cands : StaysRecoverable(c)'
  BY <1>1, <1>3 DEF PassHolds, StaysRecoverable, Starting, storeVars
<1>5. PassHolds'
  BY <1>1, <1>2, <1>3, <1>4 DEF PassHolds, storeVars
<1>6. QED
  BY <1>2, <1>3, <1>5, PassMoves

LEMMA ListCandidatesPreserves ==
  ASSUME WorkerIInv, ListCandidates PROVE WorkerIInv'
<1> DEFINE cs == {<<j, job[j].gen, job[j].state>> : j \in {i \in Jobs : Recoverable(i)}}
<1>1. /\ recon \in ReconRow /\ recon.pubs = {}
      /\ recon' = [recon EXCEPT !.pc = "recover", !.cands = cs]
  BY DEF WorkerIInv, WorkerInv, WorkerTypeOK, ReconRow, ListCandidates
<1>2. ASSUME NEW j \in Jobs, Recoverable(j)
      PROVE  /\ job[j].gen \in Gens /\ job[j].state \in ActiveStates \cup {"blocked"}
             /\ ~Starting => job[j].lease # "live"
             /\ job[j].state = "blocked" => job[j].code = "uncertain"
  <2>1. job[j].state \in ActiveStates => job[j].gen \in Gens
    BY DEF WorkerIInv, WorkerInv, GenerationsInOrder
  <2>2. job[j].code = "uncertain" => job[j].gen \in Gens
    BY DEF WorkerIInv, StoreInv, UnresolvedHasAWayOut
  <2>3. job[j].state = "blocked" => job[j].lease # "live"
    BY DEF WorkerIInv, StoreInv, LeasedIffActive, ActiveStates
  <2>4. QED
    BY <1>2, <2>1, <2>2, <2>3 DEF Recoverable, Abandoned, ActiveStates
<1>3. UNCHANGED <<app, spent, lane, proc, file, storeVars>>
  BY DEF ListCandidates, LanesSame
<1>4. ASSUME NEW c \in cs PROVE c \in Candidate /\ StaysRecoverable(c)'
  <2>1. PICK j \in Jobs : Recoverable(j) /\ c = <<j, job[j].gen, job[j].state>>
    OBVIOUS
  <2>2. c[1] = j /\ c[2] = job[j].gen /\ c[3] = job[j].state
    BY <2>1
  <2>3. job[j] \in JobRow
    BY DEF WorkerIInv, StoreInv, StoreTypeOK
  <2>4. c \in Candidate
    BY <1>2, <2>1, <2>3 DEF Candidate, JobStates, ActiveStates, FinishStates, JobRow
  <2>5. job[j].gen <= job[j].gen
    BY <2>3, ConstantsAssumption DEF JobRow
  <2>6. QED
    BY <1>2, <1>3, <2>1, <2>2, <2>4, <2>5 DEF StaysRecoverable, Starting, storeVars, ActiveStates
<1> HIDE DEF cs
<1>5. /\ recon' \in ReconRow /\ recon'.pc = "recover" /\ recon'.pubs = {} /\ recon'.cands = cs
  BY <1>1, <1>4 DEF ReconRow, ReconSteps
<1>6. PassHolds'
  BY <1>4, <1>5 DEF PassHolds
<1>7. QED
  BY <1>3, <1>5, <1>6, PassMoves

LEMMA InspectCandidatePreserves ==
  ASSUME WorkerIInv, NEW c \in recon.cands, NEW absent \in BOOLEAN, InspectCandidate(c, absent)
  PROVE  WorkerIInv'
<1>1. /\ recon \in ReconRow /\ PassHolds /\ c \in Candidate /\ StaysRecoverable(c)
      /\ recon' = [recon EXCEPT !.pc = "write", !.cands = @ \ {c}, !.cur = c, !.absent = absent]
  BY DEF WorkerIInv, WorkerInv, WorkerTypeOK, ReconRow, InspectCandidate, PassHolds
<1>2. /\ recon' \in ReconRow /\ recon'.pc = "write" /\ recon'.pubs = recon.pubs
      /\ recon'.cands = recon.cands \ {c} /\ recon'.cur = c /\ recon'.absent = absent
  BY <1>1 DEF ReconRow, ReconSteps
<1>3. UNCHANGED <<app, spent, lane, proc, file, storeVars>>
  BY DEF InspectCandidate, LanesSame
<1>4. c[1] \in Jobs /\ c[2] \in Gens
  BY <1>1 DEF Candidate, StaysRecoverable
<1>5. ASSUME absent
      PROVE  /\ proc[c[1]][c[2]] \notin Alive
             /\ \A l \in Lanes : lane[l].pc # "idle" /\ lane[l].job = c[1] => lane[l].pc = "claimed"
  <2>1. ~Active(c[1]) /\ TRUE \in AbsenceAnswers(c[1], c[2])
    BY <1>5 DEF InspectCandidate
  <2>2. proc[c[1]][c[2]] \in Alive => attempt[c[1]][c[2]].pid
    BY <1>4 DEF WorkerIInv, WorkerInv, ReleasedIsRecorded
  <2>3. QED
    BY <2>1, <2>2 DEF AbsenceAnswers, Alive, Active
<1>6. \A d \in recon.cands : StaysRecoverable(d)'
  BY <1>1, <1>3 DEF PassHolds, StaysRecoverable, Starting, storeVars
<1>7. PassHolds'
  BY <1>1, <1>2, <1>3, <1>5, <1>6 DEF PassHolds, storeVars
<1>8. QED
  BY <1>2, <1>3, <1>7, PassMoves

-----------------------------------------------------------------------------
(* Steps of a pass that write, without a lease. *)

\* A write that ends the execution of row j0, keeps its generation and what is
\* known of its process, and settles at most a publication no lane holds.
LEMMA PassWrites ==
  ASSUME WorkerIInv, NEW j0 \in Jobs, OnlyRow(j0), [StoreNext]_storeVars,
         job'[j0].gen = job[j0].gen, job'[j0].lease = "none",
         job'[j0].state \notin ActiveStates,
         job'[j0].state = "blocked" => job'[j0].code \in {"uncertain", "reconcile"},
         \A g \in Gens : attempt'[j0][g].pid = attempt[j0][g].pid,
         \A g \in Gens :
           \/ pub'[j0][g] = pub[j0][g]
           \/ /\ pub[j0][g] = "pending" /\ pub'[j0][g] # "none"
              /\ \A l \in Lanes : lane[l].pc # "idle" => lane[l].job # j0,
         \/ MayRun(j0)'
         \/ /\ \A g \in Gens : proc[j0][g] \notin Alive
            /\ \A l \in Lanes : lane[l].job = j0 => lane[l].pc # "checked",
         OutputMatchesVerdict',
         recon' \in ReconRow, recon'.pc \in {"pubs", "recover"},
         recon'.pubs = recon.pubs, recon'.cands = recon.cands,
         UNCHANGED <<app, spent, lane, proc, file>>
  PROVE  WorkerIInv'
<1> USE DEF WorkerIInv, WorkerInv
<1>1. StoreInv'
  BY NextPreserves
<1>2. WorkerTypeOK'
  BY <1>1 DEF WorkerTypeOK, StoreInv, ReconRow
<1>3. LanesHold'
  <2> SUFFICES ASSUME NEW l \in Lanes, lane[l].pc # "idle" PROVE LaneHolds(l, lane[l])'
    BY DEF LanesHold, LaneHolds
  <2>1. LaneHolds(l, lane[l]) /\ lane[l].job \in Jobs /\ lane[l].gen \in Gens
    BY LaneAtWork DEF LanesHold
  <2>2. CASE lane[l].job # j0
    BY <2>1, <2>2 DEF LaneHolds, MayRun, OnlyRow
  <2>3. CASE lane[l].job = j0
    <3>1. pub'[j0][lane[l].gen] = pub[j0][lane[l].gen]
      BY <2>1, <2>3
    <3>2. lane[l].pc = "checked" => MayRun(j0)'
      BY <2>3
    <3>3. QED
      BY <2>1, <2>3, <3>1, <3>2 DEF LaneHolds, MayRun
  <2>4. QED
    BY <2>2, <2>3
<1>4. PassHolds'
  <2>1. ASSUME NEW c \in Candidate, StaysRecoverable(c) PROVE StaysRecoverable(c)'
    <3>1. CASE c[1] = j0
      BY <2>1, <3>1 DEF StaysRecoverable, Starting
    <3>2. CASE c[1] # j0
      BY <2>1, <3>2 DEF StaysRecoverable, Starting, OnlyRow, Candidate
    <3>3. QED
      BY <3>1, <3>2
  <2>2. recon.cands \subseteq Candidate /\ recon.pubs \subseteq Publication
    BY DEF WorkerTypeOK
  <2>3. \A p \in Publication : pub[p[1]][p[2]] # "none" => pub'[p[1]][p[2]] # "none"
    BY DEF Publication, OnlyRow
  <2>4. QED
    BY <2>1, <2>2, <2>3 DEF PassHolds
<1>5. ReleasedIsRecorded' /\ GenerationsInOrder'
  BY DEF ReleasedIsRecorded, GenerationsInOrder, OnlyRow
<1>6. ToolsPrecedeOutput' /\ NoVerdictWhileAlive'
  BY DEF ToolsPrecedeOutput, NoVerdictWhileAlive, MayRun, OnlyRow
<1>7. QED
  BY <1>1, <1>2, <1>3, <1>4, <1>5, <1>6 DEF AppHolds

\* What Release leaves, and what EndAttempt keeps.
LEMMA Released ==
  ASSUME StoreTypeOK, NEW j \in Jobs, NEW s, NEW c, job' = [job EXCEPT ![j] = Release(job[j], s, c)]
  PROVE  /\ job'[j].state = s /\ job'[j].code = c /\ job'[j].lease = "none"
         /\ job'[j].gen = job[j].gen
         /\ \A i \in Jobs : i # j => job'[i] = job[i]
BY DEF Release, StoreTypeOK, JobRow

LEMMA EndedAttempt ==
  ASSUME StoreTypeOK, NEW j \in Jobs, NEW g \in Gens, NEW o, EndAttempt(j, g, o)
  PROVE  /\ \A h \in Gens : attempt'[j][h].pid = attempt[j][h].pid
         /\ \A i \in Jobs : i # j => attempt'[i] = attempt[i]
BY DEF EndAttempt, StoreTypeOK, AttemptRow

\* While a publication is pending no tool of its job is at work.
LEMMA PendingIsQuiet ==
  ASSUME WorkerIInv, NEW j \in Jobs, NEW g \in Gens, pub[j][g] = "pending"
  PROVE  \A h \in Gens : proc[j][h] \notin Alive
BY DEF WorkerIInv, WorkerInv, StoreInv, PendingIsCurrent, ReleasedIsRecorded, ToolsPrecedeOutput

LEMMA SettlePublicationPreserves ==
  ASSUME WorkerIInv, SettlePublication PROVE WorkerIInv'
<1>1. /\ recon \in ReconRow /\ PassHolds /\ StoreTypeOK
      /\ recon.pc \in {"publish", "unpublish"} /\ recon.cur \in Publication
      /\ recon.cur[1] \in Jobs /\ recon.cur[2] \in Gens
  BY DEF WorkerIInv, WorkerInv, WorkerTypeOK, ReconRow, SettlePublication, PassHolds, Publication
<1>2. PICK j0 \in Jobs, g0 \in Gens : j0 = recon.cur[1] /\ g0 = recon.cur[2]
  BY <1>1
<1> DEFINE published == recon.pc = "publish"
<1>3. /\ recon' \in ReconRow /\ recon'.pc = "pubs"
      /\ recon'.pubs = recon.pubs /\ recon'.cands = recon.cands
  BY <1>1 DEF SettlePublication, ReconRow, ReconSteps
<1>4. UNCHANGED <<app, spent, lane, proc, file>>
  BY DEF SettlePublication, LanesSame
<1>5. CASE pub[j0][g0] # "pending"
  <2>1. UNCHANGED storeVars
    BY <1>2, <1>5 DEF SettlePublication
  <2>2. \A c \in recon.cands : StaysRecoverable(c)'
    BY <1>1, <1>2, <1>4, <2>1 DEF PassHolds, StaysRecoverable, Starting, storeVars
  <2>3. PassHolds'
    BY <1>1, <1>2, <1>3, <2>1, <2>2 DEF PassHolds, storeVars
  <2>4. QED
    BY <1>3, <1>4, <2>1, <2>3, PassMoves
<1>6. CASE pub[j0][g0] = "pending"
  <2>1. ReconcilePublication(j0, g0, published)
    BY SMTT(40), <1>2, <1>6 DEF SettlePublication
  <2>2. PICK s \in {"succeeded", "cancelled", "failed", "retry_wait"}, c \in Codes, o \in Outcomes :
          /\ job' = [job EXCEPT ![j0] = Release(job[j0], s, c)]
          /\ EndAttempt(j0, g0, o)
          /\ s = "succeeded" => published
    BY <1>2, <2>1 DEF ReconcilePublication, Codes, Outcomes, FinishStates
  <2>3. /\ job'[j0].state = s /\ job'[j0].lease = "none" /\ job'[j0].gen = job[j0].gen
        /\ g0 = job[j0].gen
        /\ \A i \in Jobs : i # j0 => job'[i] = job[i]
    <3>1. StoreTypeOK /\ g0 = job[j0].gen
      BY <1>1, <2>1 DEF ReconcilePublication
    <3>2. QED
      BY <2>2, <3>1, Released
  <2>4. /\ \A g \in Gens : pub'[j0][g] = IF g # g0 THEN pub[j0][g]
                                         ELSE IF published THEN "committed" ELSE "abandoned"
        /\ \A i \in Jobs : i # j0 => pub'[i] = pub[i]
    BY <1>1, <1>2, <2>1 DEF ReconcilePublication, StoreTypeOK
  <2>5. /\ \A g \in Gens : attempt'[j0][g].pid = attempt[j0][g].pid
        /\ \A i \in Jobs : i # j0 => attempt'[i] = attempt[i]
    BY <1>1, <2>2, EndedAttempt
  <2>6. /\ \A l \in Lanes : lane[l].pc # "idle" => lane[l].job # j0
        /\ published => file[j0] = g0
        /\ ~published => file[j0] # g0
    BY <1>1, <1>2, <1>6 DEF PassHolds
  <2>7. OutputMatchesVerdict'
    BY <1>1, <1>4, <2>2, <2>3, <2>4, <2>6 DEF WorkerIInv, OutputMatchesVerdict, MediaJobs
  <2>8. [StoreNext]_storeVars
    BY PassUsesStore DEF ReconcileStep
  <2>9. \A g \in Gens : proc[j0][g] \notin Alive
    BY <1>1, <1>6, PendingIsQuiet
  <2>10. OnlyRow(j0)
    BY <2>3, <2>4, <2>5 DEF OnlyRow
  <2>11. s \notin ActiveStates /\ s # "blocked"
    BY DEF ActiveStates
  <2>12. \A g \in Gens :
           \/ pub'[j0][g] = pub[j0][g]
           \/ /\ pub[j0][g] = "pending" /\ pub'[j0][g] # "none"
              /\ \A l \in Lanes : lane[l].pc # "idle" => lane[l].job # j0
    BY <1>6, <2>4, <2>6
  <2>13. \A l \in Lanes : lane[l].job = j0 => lane[l].pc # "checked"
    BY <2>6
  <2> HIDE DEF published
  <2>14. QED
    BY <1>1, <1>3, <1>4, <2>3, <2>5, <2>7, <2>8, <2>9, <2>10, <2>11, <2>12, <2>13, PassWrites
<1>7. QED
  BY <1>5, <1>6

LEMMA RejectStepPreserves ==
  ASSUME WorkerIInv, Reject PROVE WorkerIInv'
<1>1. /\ recon \in ReconRow /\ PassHolds /\ StoreTypeOK
      /\ recon.pc = "reject" /\ recon.cur \in Publication
      /\ recon.cur[1] \in Jobs /\ recon.cur[2] \in Gens
  BY DEF WorkerIInv, WorkerInv, WorkerTypeOK, ReconRow, Reject, PassHolds, Publication
<1>2. PICK j0 \in Jobs, g0 \in Gens : j0 = recon.cur[1] /\ g0 = recon.cur[2]
  BY <1>1
<1>3. /\ recon' \in ReconRow /\ recon'.pc = "pubs"
      /\ recon'.pubs = recon.pubs /\ recon'.cands = recon.cands
  BY <1>1 DEF Reject, ReconRow, ReconSteps
<1>4. UNCHANGED <<app, spent, lane, proc, file>>
  BY DEF Reject, LanesSame
<1>5. /\ pub[j0][g0] = "pending" /\ job[j0].gen = g0 /\ attempt' = attempt /\ pub' = pub
      /\ job' = [job EXCEPT ![j0] = Release(job[j0], "blocked", "reconcile")]
  BY <1>2 DEF Reject, RejectPublication
<1>6. /\ job'[j0].state = "blocked" /\ job'[j0].code = "reconcile"
      /\ job'[j0].lease = "none" /\ job'[j0].gen = job[j0].gen
      /\ \A i \in Jobs : i # j0 => job'[i] = job[i]
  BY <1>1, <1>5 DEF Release, StoreTypeOK, JobRow
<1>7. OutputMatchesVerdict'
  BY <1>1, <1>4, <1>5, <1>6 DEF WorkerIInv, OutputMatchesVerdict, MediaJobs
<1>8. [StoreNext]_storeVars
  BY PassUsesStore DEF ReconcileStep
<1>9. \A g \in Gens : proc[j0][g] \notin Alive
  BY <1>1, <1>5, PendingIsQuiet
<1>10. ASSUME NEW l \in Lanes, lane[l].job = j0 PROVE lane[l].pc # "checked"
  <2>1. LaneHolds(l, lane[l])
    BY DEF WorkerIInv, WorkerInv, LanesHold
  <2>2. QED
    BY <1>5, <1>10, <2>1 DEF LaneHolds, BeforeIntent, ToolSteps
<1>11. OnlyRow(j0) /\ job'[j0].state \notin ActiveStates
  BY <1>5, <1>6 DEF OnlyRow, ActiveStates
<1>12. QED
  BY <1>1, <1>3, <1>4, <1>5, <1>6, <1>7, <1>8, <1>9, <1>10, <1>11, PassWrites

LEMMA RecoverCandidatePreserves ==
  ASSUME WorkerIInv, RecoverCandidate PROVE WorkerIInv'
<1>1. /\ recon \in ReconRow /\ PassHolds /\ StoreTypeOK
      /\ recon.pc = "write" /\ recon.cur \in Candidate /\ StaysRecoverable(recon.cur)
      /\ recon.cur[1] \in Jobs /\ recon.cur[2] \in Gens /\ recon.absent \in BOOLEAN
  BY DEF WorkerIInv, WorkerInv, WorkerTypeOK, ReconRow, RecoverCandidate, PassHolds, Candidate,
     StaysRecoverable
<1>2. PICK j0 \in Jobs, g0 \in Gens : j0 = recon.cur[1] /\ g0 = recon.cur[2]
  BY <1>1
<1>3. /\ recon' \in ReconRow /\ recon'.pc = "recover"
      /\ recon'.pubs = recon.pubs /\ recon'.cands = recon.cands
  BY <1>1 DEF RecoverCandidate, ReconRow, ReconSteps
<1>4. UNCHANGED <<app, spent, lane, proc, file>>
  BY DEF RecoverCandidate, LanesSame
<1>5. CASE UNCHANGED storeVars
  <2>1. \A c \in recon.cands : StaysRecoverable(c)'
    BY <1>1, <1>2, <1>4, <1>5 DEF PassHolds, StaysRecoverable, Starting, storeVars
  <2>2. PassHolds'
    BY <1>1, <1>2, <1>3, <1>5, <2>1 DEF PassHolds, storeVars
  <2>3. QED
    BY <1>3, <1>4, <1>5, <2>2, PassMoves
<1>6. CASE RecoverJob(j0, g0, recon.cur[3], recon.absent, Starting)
  <2>1. PICK s \in {"blocked", "cancelled", "failed", "retry_wait"}, c \in Codes, o \in Outcomes :
          /\ job' = [job EXCEPT ![j0] = Release(job[j0], s, c)]
          /\ EndAttempt(j0, g0, o)
          /\ s = "blocked" => c \in {"uncertain", "reconcile"}
          /\ ~recon.absent => s = "blocked" /\ c = "uncertain"
    BY <1>1, <1>2, <1>6 DEF RecoverJob, Codes, Unresolved, Outcomes, FinishStates
  <2>2. job[j0].gen = g0 /\ pub' = pub
    BY <1>2, <1>6 DEF RecoverJob
  <2>3. recon.absent => /\ proc[j0][g0] \notin Alive
                        /\ \A l \in Lanes : lane[l].job = j0 => lane[l].pc # "checked"
    BY <1>1, <1>2, <2>2 DEF PassHolds
  <2>4. j0 \in Jobs /\ g0 \in Gens /\ StoreTypeOK /\ recon.absent \in BOOLEAN
    BY <1>1
  <2>5. /\ job'[j0].state = s /\ job'[j0].code = c
        /\ job'[j0].lease = "none" /\ job'[j0].gen = job[j0].gen
        /\ \A i \in Jobs : i # j0 => job'[i] = job[i]
    BY ZenonT(60), <2>1, <2>4, Released
  <2>6. /\ \A g \in Gens : attempt'[j0][g].pid = attempt[j0][g].pid
        /\ \A i \in Jobs : i # j0 => attempt'[i] = attempt[i]
    BY <2>1, <2>4, EndedAttempt
  <2>7. OutputMatchesVerdict'
    BY <1>4, <2>2, <2>4, <2>5 DEF WorkerIInv, OutputMatchesVerdict, MediaJobs
  <2>8. [StoreNext]_storeVars
    BY PassUsesStore DEF ReconcileStep
  <2>9. \/ MayRun(j0)'
        \/ /\ \A g \in Gens : proc[j0][g] \notin Alive
           /\ \A l \in Lanes : lane[l].job = j0 => lane[l].pc # "checked"
    <3>1. CASE ~recon.absent
      <4>1. s = "blocked" /\ c = "uncertain"
        BY <2>1, <3>1
      <4>2. job'[j0].state = "blocked" /\ job'[j0].code = "uncertain"
        BY <2>5, <4>1
      <4>3. QED
        BY <4>2 DEF MayRun
    <3>2. CASE recon.absent
      <4>1. \A g \in Gens : proc[j0][g] \notin Alive
        BY <2>2, <2>3, <2>4, <3>2 DEF WorkerIInv, WorkerInv, ReleasedIsRecorded
      <4>2. QED
        BY <2>3, <3>2, <4>1
    <3>3. QED
      BY <2>4, <3>1, <3>2
  <2>10. OnlyRow(j0) /\ job'[j0].state \notin ActiveStates
    BY <2>2, <2>5, <2>6 DEF OnlyRow, ActiveStates
  <2>11. job'[j0].state = "blocked" => job'[j0].code \in {"uncertain", "reconcile"}
    BY <2>1, <2>5
  <2>12. QED
    BY SMTT(40), <1>3, <1>4, <2>2, <2>4, <2>5, <2>6, <2>7, <2>8, <2>9, <2>10, <2>11, PassWrites
<1>7. QED
  BY <1>2, <1>5, <1>6 DEF RecoverCandidate

LEMMA ReconcileStepPreserves ==
  ASSUME WorkerIInv, ReconcileStep PROVE WorkerIInv'
<1>1. ASSUME NEW p \in Publication, ExaminePublication(p) PROVE WorkerIInv'
  BY <1>1, ExaminePublicationPreserves
<1>2. ASSUME NEW c \in recon.cands, NEW absent \in BOOLEAN, InspectCandidate(c, absent)
      PROVE  WorkerIInv'
  BY <1>2, InspectCandidatePreserves
<1>3. CASE RejectRefused
  BY <1>3, EndPassPreserves DEF RejectRefused
<1>4. CASE ListPublications \/ LookAtFile \/ SettlePublication \/ DoubtPublication
  BY <1>4, ListPublicationsPreserves, LookAtFilePreserves, SettlePublicationPreserves,
     DoubtPublicationPreserves
<1>5. CASE Reject \/ ListCandidates \/ RecoverCandidate \/ Reconciled
  BY <1>5, RejectStepPreserves, ListCandidatesPreserves, RecoverCandidatePreserves, ReconciledPreserves
<1>6. QED
  BY <1>1, <1>2, <1>3, <1>4, <1>5 DEF ReconcileStep

-----------------------------------------------------------------------------
(* The API, the passing of time and the rest of the machine. *)

\* A call from outside keeps generations, publications and attempts; it grants
\* no lease, starts no execution, and touches neither a result nor a job that
\* may have a tool at work.
LEMMA OutsideCall ==
  ASSUME WorkerIInv, NEW j0 \in Jobs, [StoreNext]_storeVars,
         \A j \in Jobs : j # j0 => job'[j] = job[j],
         job'[j0].gen = job[j0].gen,
         job'[j0].lease = "live" => job[j0].lease = "live",
         MayRun(j0) => MayRun(j0)',
         job'[j0].state \in ActiveStates => job[j0].state \in ActiveStates,
         job'[j0].state = "blocked" => job[j0].state = "blocked" /\ job'[j0].code = job[j0].code,
         job'[j0].state = "succeeded" => job[j0].state = "succeeded",
         UNCHANGED <<attempt, pub, workerVars>>
  PROVE  WorkerIInv'
<1> USE DEF WorkerIInv, WorkerInv, workerVars
<1>1. StoreInv'
  BY NextPreserves
<1>2. WorkerTypeOK'
  BY <1>1 DEF WorkerTypeOK, StoreInv
<1>3. \A j \in Jobs : job'[j].gen = job[j].gen /\ (MayRun(j) => MayRun(j)')
  BY DEF MayRun
<1>4. LanesHold'
  BY <1>3 DEF LanesHold, LaneHolds
<1>5. ASSUME NEW c \in Candidate, StaysRecoverable(c) PROVE StaysRecoverable(c)'
  BY <1>5 DEF StaysRecoverable, Starting, Candidate
<1>6. PassHolds'
  <2>1. recon.cands \subseteq Candidate
    BY DEF WorkerTypeOK
  <2>2. recon.cur \in Candidate => recon.cur[1] \in Jobs
    BY DEF Candidate
  <2>3. QED
    BY <1>3, <1>5, <2>1, <2>2 DEF PassHolds
<1>7. ReleasedIsRecorded' /\ ToolsPrecedeOutput' /\ NoVerdictWhileAlive'
  BY <1>3 DEF ReleasedIsRecorded, ToolsPrecedeOutput, NoVerdictWhileAlive
<1>8. GenerationsInOrder' /\ OutputMatchesVerdict' /\ AppHolds'
  BY <1>3 DEF GenerationsInOrder, OutputMatchesVerdict, AppHolds, MediaJobs
<1>9. QED
  BY <1>1, <1>2, <1>4, <1>6, <1>7, <1>8

LEMMA ApiCallPreserves ==
  ASSUME WorkerIInv, NEW j \in Jobs, ApiCall(j) \/ Elapse(j) \/ Revise(j)
  PROVE  WorkerIInv'
<1>1. StoreTypeOK /\ job[j] \in JobRow
  BY DEF WorkerIInv, WorkerInv, StoreInv, StoreTypeOK
<1>2. [StoreNext]_storeVars
  BY DEF ApiCall, Elapse, Revise, StoreNext, ClientStep
<1> USE DEF MayRun, ActiveStates
<1>3. ASSUME NEW m \in Limits, NEW k \in Keys \cup {NoKey}, CreateJob(j, m, k), UNCHANGED workerVars
      PROVE  WorkerIInv'
  <2>1. /\ job' = job \/ (job[j].state = "absent" /\ job'[j].state = "queued")
        /\ job'[j].gen = job[j].gen /\ job'[j].lease = job[j].lease /\ job'[j].code = job[j].code
        /\ \A i \in Jobs : i # j => job'[i] = job[i]
    BY <1>1, <1>3 DEF CreateJob, StoreTypeOK, JobRow
  <2>2. QED
    BY <1>2, <1>3, <2>1, OutsideCall DEF CreateJob
<1>4. CASE RequestCancel(j) /\ UNCHANGED workerVars
  <2>1. /\ job[j].state \in ActiveStates => job'[j].state = "cancel_requested"
        /\ job[j].state \notin ActiveStates => job'[j].state = "cancelled"
        /\ job[j].code # "uncertain"
        /\ job'[j].gen = job[j].gen /\ job'[j].lease = job[j].lease
        /\ \A i \in Jobs : i # j => job'[i] = job[i]
    BY <1>1, <1>4 DEF RequestCancel, MayCancel, Unresolved, StoreTypeOK, JobRow
  <2>2. QED
    BY <1>2, <1>4, <2>1, OutsideCall DEF RequestCancel
<1>5. CASE RetryJob(j) /\ UNCHANGED workerVars
  <2>1. /\ job'[j].state = "queued" /\ job'[j].lease = "none" /\ job'[j].gen = job[j].gen
        /\ \A i \in Jobs : i # j => job'[i] = job[i]
    BY <1>1, <1>5 DEF RetryJob, Release, StoreTypeOK, JobRow
  <2>2. ~MayRun(j)
    BY <1>5 DEF RetryJob, MayRetry, Unresolved
  <2>3. QED
    BY <1>2, <1>5, <2>1, <2>2, OutsideCall DEF RetryJob
<1>6. CASE Elapse(j)
  <2>1. /\ job'[j].state = job[j].state /\ job'[j].code = job[j].code
        /\ job'[j].gen = job[j].gen /\ job'[j].lease = "expired"
        /\ \A i \in Jobs : i # j => job'[i] = job[i]
    BY <1>1, <1>6 DEF Elapse, LeaseExpires, StoreTypeOK, JobRow
  <2>2. QED
    BY <1>2, <1>6, <2>1, OutsideCall DEF Elapse, LeaseExpires
<1>7. CASE Revise(j)
  <2>1. job' = job /\ UNCHANGED <<attempt, pub, workerVars>>
    BY <1>7 DEF Revise, InputChanges
  <2>2. MayRun(j) => MayRun(j)'
    BY <2>1
  <2>3. QED
    BY <1>2, <2>1, <2>2, OutsideCall
<1>8. QED
  BY <1>3, <1>4, <1>5, <1>6, <1>7 DEF ApiCall

LEMMA OtherFilePreserves ==
  ASSUME WorkerIInv, NEW j0 \in Jobs, OtherFile(j0) PROVE WorkerIInv'
<1> USE DEF WorkerIInv, WorkerInv
<1>1. PICK f \in {Nothing, Foreign} : file' = [file EXCEPT ![j0] = f]
  BY DEF OtherFile
<1>2. /\ file'[j0] = f /\ f \notin Gens /\ f \in {Nothing, Foreign}
      /\ \A j \in Jobs : j # j0 => file'[j] = file[j]
  BY <1>1, ConstantsAssumption DEF WorkerTypeOK, Nothing, Foreign, Gens
<1>3. \A g \in Gens : pub[j0][g] = "pending" => file[j0] # g
  BY DEF OtherFile
<1>4. UNCHANGED <<storeVars, app, spent, lane, recon, proc>>
  BY DEF OtherFile
<1>5. StoreInv'
  BY <1>4, NextPreserves
<1>6. WorkerTypeOK'
  BY <1>1, <1>4, <1>5 DEF WorkerTypeOK, StoreInv
<1>7. LanesHold'
  <2> SUFFICES ASSUME NEW l \in Lanes, lane[l].pc # "idle" PROVE LaneHolds(l, lane[l])'
    BY <1>4 DEF LanesHold, LaneHolds
  <2>1. LaneHolds(l, lane[l]) /\ lane[l].job \in Jobs /\ lane[l].gen \in Gens
    BY LaneAtWork DEF LanesHold
  <2>2. lane[l].pc \in {"linked", "committing"} => lane[l].job # j0
    BY <1>3, <2>1 DEF LaneHolds, Publishing
  <2>3. QED
    BY <1>2, <1>4, <2>1, <2>2 DEF LaneHolds, MayRun, storeVars
<1>8. PassHolds'
  <2>1. \A c \in Candidate : StaysRecoverable(c) => StaysRecoverable(c)'
    BY <1>4 DEF StaysRecoverable, storeVars, Starting
  <2>2. ASSUME recon.pc \in {"publish", "unpublish"}, pub[recon.cur[1]][recon.cur[2]] = "pending"
        PROVE  /\ recon.pc = "publish" => file'[recon.cur[1]] = recon.cur[2]
               /\ recon.pc = "unpublish" => file'[recon.cur[1]] # recon.cur[2]
    <3>1. recon.cur[1] \in Jobs /\ recon.cur[2] \in Gens
      BY <2>2 DEF PassHolds, Publication
    <3>2. QED
      BY <1>2, <1>3, <2>2, <3>1 DEF PassHolds
  <2>3. recon.cands \subseteq Candidate
    BY DEF WorkerTypeOK
  <2>4. QED
    BY <1>4, <2>1, <2>2, <2>3 DEF PassHolds, storeVars
<1>9. OutputMatchesVerdict'
  BY <1>2, <1>4 DEF OutputMatchesVerdict, storeVars, MediaJobs
<1>10. QED
  BY <1>4, <1>5, <1>6, <1>7, <1>8, <1>9 DEF ReleasedIsRecorded, GenerationsInOrder,
     ToolsPrecedeOutput, AppHolds, NoVerdictWhileAlive, storeVars, MayRun

\* Processes only end.
LEMMA FewerProcesses ==
  ASSUME WorkerIInv, UNCHANGED <<storeVars, app, spent, lane, recon, file>>,
         proc' \in [Jobs -> [Gens -> ProcStates]],
         \A j \in Jobs, g \in Gens : proc'[j][g] \in Alive => proc[j][g] \in Alive
  PROVE  WorkerIInv'
<1> USE DEF WorkerIInv, WorkerInv
<1>1. StoreInv'
  BY NextPreserves
<1>2. WorkerTypeOK'
  BY <1>1 DEF WorkerTypeOK, StoreInv
<1>3. LanesHold'
  BY DEF LanesHold, LaneHolds, storeVars, MayRun
<1>4. PassHolds'
  <2>1. \A c \in Candidate : StaysRecoverable(c) => StaysRecoverable(c)'
    BY DEF StaysRecoverable, storeVars, Starting
  <2>2. recon.cands \subseteq Candidate
    BY DEF WorkerTypeOK
  <2>3. recon.pc = "write" => recon.cur[1] \in Jobs /\ recon.cur[2] \in Gens
    BY DEF PassHolds, Candidate, StaysRecoverable
  <2>4. QED
    BY <2>1, <2>2, <2>3 DEF PassHolds, storeVars
<1>5. QED
  BY <1>1, <1>2, <1>3, <1>4 DEF ReleasedIsRecorded, GenerationsInOrder, ToolsPrecedeOutput,
     AppHolds, NoVerdictWhileAlive, OutputMatchesVerdict, storeVars, MayRun, MediaJobs

LEMMA ProcessExitsPreserves ==
  ASSUME WorkerIInv, NEW j \in Jobs, NEW g \in Gens, NEW rest \in {"none", "orphaned"},
         ProcessExits(j, g, rest)
  PROVE  WorkerIInv'
<1>1. proc \in [Jobs -> [Gens -> ProcStates]] /\ proc[j][g] \in Alive
  BY DEF WorkerIInv, WorkerInv, WorkerTypeOK, ProcessExits
<1>2. proc' = [proc EXCEPT ![j][g] = rest] /\ rest \in ProcStates
  BY DEF ProcessExits, ProcStates
<1>3. /\ proc' \in [Jobs -> [Gens -> ProcStates]]
      /\ \A i \in Jobs, h \in Gens : proc'[i][h] \in Alive => proc[i][h] \in Alive
  BY <1>1, <1>2
<1>4. QED
  BY <1>3, FewerProcesses DEF ProcessExits

-----------------------------------------------------------------------------
(* The application. *)

\* Without a lane at work the application's phase matters to nobody else.
LEMMA AppMoves ==
  ASSUME WorkerIInv,
         app' \in [phase : {"down", "starting", "up", "stopping"}, me : Owners \cup {NoOwner}],
         spent' \subseteq Owners,
         app'.phase # "down" => app'.me \in Owners,
         Starting => Starting',
         app'.phase \in {"up", "stopping"} \/ \A l \in Lanes : lane[l].pc = "idle",
         UNCHANGED <<storeVars, lane, recon, proc, file>>
  PROVE  WorkerIInv'
<1> USE DEF WorkerIInv, WorkerInv
<1>1. StoreInv'
  BY NextPreserves
<1>2. WorkerTypeOK'
  BY <1>1 DEF WorkerTypeOK, StoreInv
<1>3. LanesHold'
  BY DEF LanesHold, LaneHolds, storeVars, MayRun
<1>4. PassHolds'
  <2>1. \A c \in Candidate : StaysRecoverable(c) => StaysRecoverable(c)'
    BY DEF StaysRecoverable, storeVars
  <2>2. recon.cands \subseteq Candidate
    BY DEF WorkerTypeOK
  <2>3. QED
    BY <2>1, <2>2 DEF PassHolds, storeVars
<1>5. QED
  BY <1>1, <1>2, <1>3, <1>4 DEF ReleasedIsRecorded, GenerationsInOrder, ToolsPrecedeOutput,
     AppHolds, NoVerdictWhileAlive, OutputMatchesVerdict, storeVars, MayRun, MediaJobs

LEMMA AppStepsPreserve ==
  ASSUME WorkerIInv, (\E o \in Owners : AppStart(o)) \/ Stop \/ Stopped
  PROVE  WorkerIInv'
<1>1. WorkerTypeOK /\ AppHolds
  BY DEF WorkerIInv, WorkerInv
<1>2. app.phase = "down" => \A l \in Lanes : lane[l].pc = "idle"
  BY LaneAtWork
<1>3. ASSUME NEW o \in Owners, AppStart(o) PROVE WorkerIInv'
  <2>1. /\ app' = [phase |-> "starting", me |-> o] /\ spent' \subseteq Owners
        /\ app.phase = "down" /\ UNCHANGED <<storeVars, lane, recon, proc, file>>
    BY <1>1, <1>3 DEF AppStart, WorkerTypeOK
  <2>2. QED
    BY <1>2, <2>1, AppMoves DEF Starting
<1>4. CASE Stop
  <2>1. /\ app'.phase = "stopping" /\ app'.me = app.me /\ app.phase = "up"
        /\ app' \in [phase : {"down", "starting", "up", "stopping"}, me : Owners \cup {NoOwner}]
        /\ spent' \subseteq Owners /\ UNCHANGED <<storeVars, lane, recon, proc, file>>
    BY <1>1, <1>4 DEF Stop, WorkerTypeOK
  <2>2. QED
    BY <1>1, <2>1, AppMoves DEF Starting, AppHolds
<1>5. CASE Stopped
  <2>1. /\ app' = Down /\ app.phase = "stopping" /\ spent' \subseteq Owners
        /\ \A l \in Lanes : lane[l].pc = "idle"
        /\ UNCHANGED <<storeVars, lane, recon, proc, file>>
    BY <1>1, <1>5 DEF Stopped, WorkerTypeOK
  <2>2. QED
    BY <2>1, AppMoves DEF Starting, Down
<1>6. QED
  BY <1>3, <1>4, <1>5

LEMMA CrashPreserves ==
  ASSUME WorkerIInv, Crash PROVE WorkerIInv'
<1> USE DEF WorkerIInv, WorkerInv
<1>1. UNCHANGED <<storeVars, spent, file>>
  BY DEF Crash
<1>2. StoreInv'
  BY <1>1, NextPreserves
<1>3. recon' \in ReconRow /\ PassHolds'
  BY IdlePass DEF Crash
<1>4. IdleLane \in LaneRow
  BY ConstantsAssumption, MediaToolsAssumption DEF IdleLane, LaneRow, LaneSteps, Errors
<1>5. /\ proc' \in [Jobs -> [Gens -> ProcStates]]
      /\ \A j \in Jobs, g \in Gens : proc'[j][g] \in Alive => proc[j][g] \in Alive
  BY DEF Crash, WorkerTypeOK, ProcStates, Alive
<1>6. WorkerTypeOK'
  BY <1>1, <1>2, <1>3, <1>4, <1>5 DEF Crash, WorkerTypeOK, StoreInv, ReconRow, Down
<1>7. LanesHold' /\ AppHolds'
  BY DEF Crash, LanesHold, LaneHolds, IdleLane, AppHolds, Down
<1>8. QED
  BY <1>1, <1>2, <1>3, <1>5, <1>6, <1>7 DEF ReleasedIsRecorded, GenerationsInOrder,
     ToolsPrecedeOutput, NoVerdictWhileAlive, OutputMatchesVerdict, storeVars, MayRun, MediaJobs

-----------------------------------------------------------------------------
(* The worker's invariants. *)

LEMMA WorkerNextPreserves ==
  ASSUME WorkerIInv, [WorkerNext]_vars
  PROVE  WorkerIInv'
<1>1. ASSUME NEW l \in Lanes, LaneStep(l) PROVE WorkerIInv'
  BY <1>1, LaneStepPreserves
<1>2. CASE ReconcileStep
  BY <1>2, ReconcileStepPreserves
<1>3. CASE ReconcileFails
  BY <1>3, EndPassPreserves DEF ReconcileFails
<1>4. CASE (\E o \in Owners : AppStart(o)) \/ Stop \/ Stopped
  BY <1>4, AppStepsPreserve
<1>5. CASE Crash
  BY <1>5, CrashPreserves
<1>6. ASSUME NEW j \in Jobs, ApiCall(j) \/ Elapse(j) \/ Revise(j) \/ OtherFile(j)
      PROVE  WorkerIInv'
  BY <1>6, ApiCallPreserves, OtherFilePreserves
<1>7. ASSUME NEW j \in Jobs, NEW g \in Gens, NEW rest \in {"none", "orphaned"},
             ProcessExits(j, g, rest)
      PROVE  WorkerIInv'
  BY <1>7, ProcessExitsPreserves
<1>8. CASE UNCHANGED vars
  <2>1. /\ UNCHANGED <<storeVars, app, spent, lane, recon, file>>
        /\ proc' = proc
    BY <1>8 DEF vars, workerVars
  <2>2. proc \in [Jobs -> [Gens -> ProcStates]]
    BY DEF WorkerIInv, WorkerInv, WorkerTypeOK
  <2>3. QED
    BY <2>1, <2>2, FewerProcesses
<1>9. QED
  BY <1>1, <1>2, <1>3, <1>4, <1>5, <1>6, <1>7, <1>8 DEF WorkerNext

\* What every thread relies on between its steps, the record of released
\* processes and the tables' own invariant hold in every state, for any number
\* of jobs, claims and starts of the application, whatever crashes or expires.
THEOREM WorkerIsSafe == WorkerSpec => []WorkerIInv
<1>1. QED
  BY WorkerInitEstablishes, WorkerNextPreserves, PTL DEF WorkerSpec

\* A lane finds its generation, its process, its intent and its file as it left
\* them, and a pass writes only what is still true of what it read.
THEOREM ThreadsRelyOnTheirs == WorkerSpec => []WorkerInv
<1>1. WorkerIInv => WorkerInv
  BY DEF WorkerIInv
<1>2. QED
  BY <1>1, WorkerIsSafe, PTL

\* While a released process lives, its job reads as executing or uncertain: an
\* expired lease, a restart or a cancellation never declares it over.
THEOREM NoEarlyVerdict == WorkerSpec => []NoVerdictWhileAlive
<1>1. WorkerIInv => NoVerdictWhileAlive
  BY DEF WorkerIInv
<1>2. QED
  BY <1>1, WorkerIsSafe, PTL

\* A file that an attempt linked has an intent that is pending or committed, and
\* a media job that reads as succeeded has a committed output.
THEOREM OutputsHaveIntents == WorkerSpec => []OutputMatchesVerdict
<1>1. WorkerIInv => OutputMatchesVerdict
  BY DEF WorkerIInv
<1>2. QED
  BY <1>1, WorkerIsSafe, PTL

-----------------------------------------------------------------------------
(* What the worker may never do, and what it inherits from the tables. *)

\* The worker, its reconciliation and its restarts call the tables only as
\* StoreNext allows: with the generation they hold or read.
THEOREM WorkerUsesTheStore == WorkerSpec => UsesTheStore
<1>1. WorkerInit => StoreInit
  BY DEF WorkerInit
<1>2. WorkerIInv /\ [WorkerNext]_vars => [StoreNext]_storeVars
  BY StepUsesStore
<1>3. QED
  BY <1>1, <1>2, WorkerIsSafe, PTL DEF WorkerSpec, UsesTheStore, StoreSpec

\* So what was proved of the tables under arbitrary calls holds of the composed
\* system: a job of the worker lives the life that DurableJob promises.
THEOREM WorkerImplementsDurableJob == WorkerSpec => ImplementsDurableJob
BY WorkerUsesTheStore, StoreImplementsDurableJob, PTL DEF UsesTheStore

\* A lane that lost its lease changes no attempt or publication but the current
\* one's, and neither does a pass that acts on an old snapshot.
THEOREM WorkerLeavesStaleAttempts == WorkerSpec => StaleAttemptsAreFrozen
BY WorkerUsesTheStore, StaleOwnersCannotCommit, PTL DEF UsesTheStore

\* Only two steps commit: a lane whose file is linked, and a pass that saw it.
LEMMA CommitsFollowTheFile ==
  ASSUME WorkerIInv, [WorkerNext]_vars, NEW j \in Jobs, NEW g \in Gens,
         pub[j][g] # "committed", pub'[j][g] = "committed"
  PROVE  file[j] = g
<1>1. StoreTypeOK /\ PassHolds /\ LanesHold
  BY DEF WorkerIInv, WorkerInv, StoreInv
<1>2. pub' # pub
  OBVIOUS
<1>3. ASSUME NEW l \in Lanes, LaneStep(l) PROVE file[j] = g
  <2>1. LaneHolds(l, lane[l])
    BY <1>1 DEF LanesHold
  <2>2. lane[l].pc # "idle" => lane[l].job \in Jobs /\ lane[l].gen \in Gens
    BY LaneAtWork
  <2>3. CASE Intend(l) \/ Abandon(l)
    BY SMTT(40), <1>1, <2>2, <2>3 DEF Intend, Abandon, Go, RecordPublication, AbandonPublication, StoreTypeOK
  <2>4. CASE FinishVerify(l) \/ Commit(l) \/ FinishFailed(l)
    <3>1. PICK s \in FinishStates, b \in BOOLEAN :
            /\ FinishJob(lane[l].job, Me, lane[l].gen, s, b)
            /\ lane[l].pc \in {"verified", "committing", "finishing"}
      <4>1. lane[l] \in LaneRow
        BY LaneTyped DEF WorkerIInv, WorkerInv
      <4>2. lane[l].pc = "finishing" => lane[l].err \in FinishStates
        BY <2>1, <4>1 DEF LaneHolds, LaneRow, Errors, FinishStates
      <4>3. QED
        BY <2>4, <4>2 DEF FinishVerify, Commit, FinishFailed, Go, FinishStates
    <3>2. /\ pub[lane[l].job][lane[l].gen] = "pending"
          /\ j = lane[l].job /\ g = lane[l].gen
      BY <1>1, <2>2, <3>1 DEF FinishJob, StoreTypeOK
    <3>3. lane[l].pc = "committing"
      BY <2>1, <3>1, <3>2 DEF LaneHolds, BeforeIntent
    <3>4. QED
      BY <2>1, <3>2, <3>3 DEF LaneHolds
  <2>5. ASSUME NEW i \in Jobs, Claim(l, i) PROVE FALSE
    BY <1>2, <2>5 DEF Claim, ClaimJob
  <2>6. CASE RecordProcess(l) \/ ClearProcess(l)
    BY <1>2, <2>6 DEF RecordProcess, ClearProcess, SetProcess
  <2>7. CASE \/ Register(l) \/ Begin(l) \/ Spawn(l) \/ CheckBeforeGate(l) \/ OpenGate(l)
             \/ ProcessEnded(l) \/ Terminate(l) \/ Verified(l) \/ CheckBeforeLink(l)
             \/ Link(l) \/ CheckAfterLink(l) \/ Classify(l) \/ Leave(l) \/ LaneFails(l)
    BY <1>2, <2>7 DEF Register, Begin, Spawn, CheckBeforeGate, OpenGate, ProcessEnded, Terminate,
       Verified, CheckBeforeLink, Link, CheckAfterLink, Classify, Leave, LaneFails, storeVars
  <2>8. QED
    BY <1>3, <2>3, <2>4, <2>5, <2>6, <2>7 DEF LaneStep
<1>4. CASE ReconcileStep
  <2>1. CASE SettlePublication
    <3>1. PICK j0 \in Jobs, g0 \in Gens : j0 = recon.cur[1] /\ g0 = recon.cur[2]
      BY <1>1, <2>1 DEF SettlePublication, PassHolds, Publication
    <3>2. pub[j0][g0] = "pending" /\ ReconcilePublication(j0, g0, recon.pc = "publish")
      BY <1>2, <2>1, <3>1 DEF SettlePublication, storeVars
    <3>3. j = j0 /\ g = g0 /\ recon.pc = "publish"
      BY <1>1, <3>2 DEF ReconcilePublication, StoreTypeOK
    <3>4. QED
      BY <1>1, <3>1, <3>2, <3>3 DEF PassHolds
  <2>2. CASE Reject
    BY <1>2, <2>2 DEF Reject, RejectPublication
  <2>3. CASE RecoverCandidate
    BY <1>2, <2>3 DEF RecoverCandidate, RecoverJob, storeVars
  <2>4. CASE \/ ListPublications \/ (\E p \in Publication : ExaminePublication(p))
             \/ LookAtFile \/ DoubtPublication \/ RejectRefused \/ ListCandidates
             \/ (\E c \in recon.cands, absent \in BOOLEAN : InspectCandidate(c, absent))
             \/ Reconciled
    BY <1>2, <2>4 DEF ListPublications, ExaminePublication, LookAtFile, DoubtPublication,
       RejectRefused, EndPass, ListCandidates, InspectCandidate, Reconciled, storeVars
  <2>5. QED
    BY <1>4, <2>1, <2>2, <2>3, <2>4 DEF ReconcileStep
<1>5. ASSUME NEW i \in Jobs, ApiCall(i) \/ Elapse(i) \/ Revise(i) \/ OtherFile(i) PROVE FALSE
  BY <1>2, <1>5 DEF ApiCall, Elapse, Revise, OtherFile, CreateJob, RequestCancel, RetryJob,
     LeaseExpires, InputChanges, storeVars
<1>6. ASSUME NEW i \in Jobs, NEW h \in Gens, NEW rest, ProcessExits(i, h, rest) PROVE FALSE
  BY <1>2, <1>6 DEF ProcessExits, storeVars
<1>7. CASE ReconcileFails \/ (\E o \in Owners : AppStart(o)) \/ Stop \/ Stopped \/ Crash
  BY <1>2, <1>7 DEF ReconcileFails, EndPass, AppStart, Stop, Stopped, Crash, storeVars
<1>8. CASE UNCHANGED vars
  BY <1>2, <1>8 DEF vars, storeVars
<1>9. QED
  BY <1>3, <1>4, <1>5, <1>6, <1>7, <1>8 DEF WorkerNext

\* An output is committed only while its own file is at the final path.
THEOREM CommitsOnlyOwnOutputs == WorkerSpec => CommitsOnlyItsOutput
<1>1. WorkerIInv /\ [WorkerNext]_vars =>
        [\A j \in Jobs, g \in Gens :
           pub[j][g] # "committed" /\ pub'[j][g] = "committed" => file[j] = g]_vars
  BY CommitsFollowTheFile
<1>2. QED
  BY <1>1, WorkerIsSafe, PTL DEF WorkerSpec, CommitsOnlyItsOutput
=============================================================================
