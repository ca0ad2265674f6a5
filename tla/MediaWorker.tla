----------------------------- MODULE MediaWorker -----------------------------
(***************************************************************************)
(* The worker of module/v2_worker.py over the tables of JobStore: its two  *)
(* lanes, the gated media process of an attempt, the publication of an     *)
(* output by hard link, reconciliation, and the application's starts,      *)
(* stops and crashes.                                                      *)
(*                                                                         *)
(* A step of a lane is what happens between two points where another actor *)
(* can be observed: one repository transaction, one file operation or one  *)
(* process operation.  A check that is followed by a step that only its    *)
(* own lane can see is part of that step.                                  *)
(*                                                                         *)
(* Any repository, storage or process call of a lane may raise (a locked   *)
(* database, a full disk, a lost lease, a missing file): LaneFails takes   *)
(* the lane to the except or finally clause that is then next.             *)
(***************************************************************************)
EXTENDS JobStore

CONSTANT MediaTools   \* tools that a media job runs one after another: one
                      \* probe for archive, render and probe for recover and
                      \* remux, a probe per input and those two for merge

ASSUME MediaToolsAssumption == MediaTools \in Nat \ {0}

VARIABLES
    app,     \* the application: phase, and the owner identity of its worker
    spent,   \* owner identities of earlier starts (uuid4: never used again)
    lane,    \* the two lanes' control state and the attempt they hold
    recon,   \* the reconciliation that runs in the verification lane's thread
    proc,    \* the process group an attempt started last
    file     \* what is at a job's final path

workerVars == <<app, spent, lane, recon, proc, file>>
vars == <<storeVars, workerVars>>

Lanes == {"verify", "media"}
Errors == {"none", "failed", "blocked", "retry_wait", "cancelled"}

\* Where a lane is.  "claimed": the job is claimed and not yet in _active.
LaneSteps == {"idle", "claimed", "begin", "ready", "spawned", "recorded", "checked",
              "running", "exited", "discard", "unwind", "verified",
              "intended", "linking", "linked", "committing", "abandon",
              "failing", "finishing", "leaving"}

LaneRow == [pc : LaneSteps, job : Jobs \cup {NoOwner}, gen : 0..MaxGen,
            runs : 0..MediaTools, err : Errors]

IdleLane == [pc |-> "idle", job |-> NoOwner, gen |-> 0, runs |-> 0,
             err |-> "none"]

\* cur is the publication or candidate at hand, cands the snapshot of jobs to
\* recover with the generation and state that were read.
IdleRecon == [pc |-> "idle", pubs |-> {}, cands |-> {}, cur |-> <<>>, absent |-> FALSE]

Down == [phase |-> "down", me |-> NoOwner]

MediaJobs == Jobs \ VerifyJobs
Me == app.me

\* "gated": started and blocked on its gate.  "orphaned": the group's leader
\* exited and other members live.
ProcStates == {"none", "gated", "running", "orphaned"}
Alive == {"running", "orphaned"}

\* What is at a final path: no entry, the output that a generation linked, or a
\* file that no attempt of this job made.
Nothing == 0
Foreign == MaxGen + 1

ReconSteps == {"idle", "pubs", "look", "publish", "unpublish", "reject", "recover", "write"}

Publication == Jobs \X Gens
Candidate == Jobs \X (0..MaxGen) \X JobStates

WorkerTypeOK ==
    /\ StoreTypeOK
    /\ app \in [phase : {"down", "starting", "up", "stopping"}, me : Owners \cup {NoOwner}]
    /\ spent \subseteq Owners
    /\ lane \in [Lanes -> LaneRow]
    /\ recon \in [pc : ReconSteps, pubs : SUBSET Publication, cands : SUBSET Candidate,
                  cur : {<<>>} \cup Publication \cup Candidate, absent : BOOLEAN]
    /\ proc \in [Jobs -> [Gens -> ProcStates]]
    /\ file \in [Jobs -> Gens \cup {Nothing, Foreign}]

WorkerInit ==
    /\ StoreInit
    /\ app = Down
    /\ spent = {}
    /\ lane = [l \in Lanes |-> IdleLane]
    /\ recon = IdleRecon
    /\ proc = [j \in Jobs |-> [g \in Gens |-> "none"]]
    /\ file = [j \in Jobs |-> Nothing]

-----------------------------------------------------------------------------
(* What the code looks at. *)

\* Mutant: nothing counts as active.
ActiveNever(j) == FALSE

\* _active: the jobs between _active[id] = ctx and _active.pop(id).
Active(j) == \E l \in Lanes : lane[l].job = j /\ lane[l].pc # "claimed"

CancelSeen(j) == job[j].state = "cancel_requested" \/ job[j].cancel

\* AttemptContext.check() returns instead of raising.
CheckPasses(l) ==
    /\ app.phase # "stopping"
    /\ Fenced(lane[l].job, Me, lane[l].gen)
    /\ ~CancelSeen(lane[l].job)

\* The state that the raised error carries, WorkerStopping and JobCancelled
\* included.
Raised(l) ==
    {"failed", "blocked", "retry_wait"}
        \cup (IF CancelSeen(lane[l].job) THEN {"cancelled"} ELSE {})

\* Mutant: an expired lease is taken for an absent process.
AbsenceAssumed(j, g) == {TRUE}

\* process_confirmed_absent(attempt) is True.  Without a recorded pid the gate
\* was never opened; with one, a live group is never taken for absent, and an
\* absent one may still be uncertain (a reused pid, another user's process).
AbsenceAnswers(j, g) ==
    IF ~attempt[j][g].pid THEN {TRUE}
    ELSE IF proc[j][g] # "none" THEN {FALSE} ELSE {TRUE, FALSE}

-----------------------------------------------------------------------------
(* A lane. *)

Go(l, from, to) ==
    /\ lane[l].pc = from
    /\ lane' = [lane EXCEPT ![l].pc = to]

OthersSame == UNCHANGED <<app, spent, recon>>

\* The verification lane reconciles and executes in one thread.
Claim(l, j) ==
    /\ app.phase = "up"
    /\ lane[l].pc = "idle"
    /\ l = "verify" <=> j \in VerifyJobs
    /\ l = "verify" => recon.pc = "idle"
    /\ ClaimJob(j, Me)
    /\ lane' = [lane EXCEPT ![l] = [pc |-> "claimed", job |-> j,
                                    gen |-> job[j].gen + 1, runs |-> 0,
                                    err |-> "none"]]
    /\ OthersSame
    /\ UNCHANGED <<proc, file>>

Register(l) ==
    /\ Go(l, "claimed", "begin")
    /\ OthersSame
    /\ UNCHANGED <<storeVars, proc, file>>

\* _inputs compares the catalog revision, _output refuses an existing path.
Begin(l) ==
    /\ Go(l, "begin", "ready")
    /\ CheckPasses(l)
    /\ ~inputChanged[lane[l].job]
    /\ lane[l].job \in MediaJobs => file[lane[l].job] = Nothing
    /\ OthersSame
    /\ UNCHANGED <<storeVars, proc, file>>

Tools(j) == IF j \in VerifyJobs THEN 1 ELSE MediaTools

MoreTools(l) == lane[l].runs < Tools(lane[l].job)

Spawn(l) ==
    /\ Go(l, "ready", "spawned")
    /\ MoreTools(l)
    /\ CheckPasses(l)
    /\ proc' = [proc EXCEPT ![lane[l].job][lane[l].gen] = "gated"]
    /\ OthersSame
    /\ UNCHANGED <<storeVars, file>>

RecordProcess(l) ==
    /\ Go(l, "spawned", "recorded")
    /\ SetProcess(lane[l].job, Me, lane[l].gen, TRUE)
    /\ OthersSame
    /\ UNCHANGED <<proc, file>>

CheckBeforeGate(l) ==
    /\ Go(l, "recorded", "checked")
    /\ CheckPasses(l)
    /\ OthersSame
    /\ UNCHANGED <<storeVars, proc, file>>

\* Mutant: the gate is opened before the process is recorded.
OpenGateUnrecorded(l) ==
    /\ Go(l, "spawned", "running")
    /\ proc' = [proc EXCEPT ![lane[l].job][lane[l].gen] = "running"]
    /\ OthersSame
    /\ UNCHANGED <<storeVars, file>>

OpenGate(l) ==
    /\ Go(l, "checked", "running")
    /\ proc' = [proc EXCEPT ![lane[l].job][lane[l].gen] = "running"]
    /\ OthersSame
    /\ UNCHANGED <<storeVars, file>>

\* The leader was reaped and its group is empty.
ProcessEnded(l) ==
    /\ Go(l, "running", "exited")
    /\ proc[lane[l].job][lane[l].gen] = "none"
    /\ CheckPasses(l)
    /\ OthersSame
    /\ UNCHANGED <<storeVars, proc, file>>

\* _terminate of a failed run: SIGTERM, SIGKILL, and an empty group.
Terminate(l) ==
    /\ Go(l, "unwind", "exited") \/ Go(l, "discard", "failing")
    /\ proc' = [proc EXCEPT ![lane[l].job][lane[l].gen] = "none"]
    /\ OthersSame
    /\ UNCHANGED <<storeVars, file>>

\* set_process(pid=None) in the finally clause of run.
ClearProcess(l) ==
    /\ lane[l].pc = "exited"
    /\ lane' = [lane EXCEPT ![l].pc = IF lane[l].err = "none" THEN "ready" ELSE "failing",
                            ![l].runs = lane[l].runs + 1]
    /\ SetProcess(lane[l].job, Me, lane[l].gen, FALSE)
    /\ OthersSame
    /\ UNCHANGED <<proc, file>>

-----------------------------------------------------------------------------
(* The end of a verification, and the publication of a media job's output. *)

Verified(l) ==
    /\ lane[l].job \in VerifyJobs
    /\ Go(l, "ready", "verified")
    /\ lane[l].runs = Tools(lane[l].job)
    /\ CheckPasses(l)
    /\ ~inputChanged[lane[l].job]
    /\ OthersSame
    /\ UNCHANGED <<storeVars, proc, file>>

FinishVerify(l) ==
    /\ Go(l, "verified", "leaving")
    /\ \E s \in {"succeeded", "failed"} : FinishJob(lane[l].job, Me, lane[l].gen, s, TRUE)
    /\ OthersSame
    /\ UNCHANGED <<proc, file>>

Intend(l) ==
    /\ lane[l].job \in MediaJobs
    /\ Go(l, "ready", "intended")
    /\ lane[l].runs = Tools(lane[l].job)
    /\ CheckPasses(l)
    /\ ~inputChanged[lane[l].job]
    /\ RecordPublication(lane[l].job, Me, lane[l].gen)
    /\ OthersSame
    /\ UNCHANGED <<proc, file>>

CheckBeforeLink(l) ==
    /\ Go(l, "intended", "linking")
    /\ CheckPasses(l)
    /\ OthersSame
    /\ UNCHANGED <<storeVars, proc, file>>

\* os.link never replaces: with an entry at the path only LaneFails is left.
Link(l) ==
    /\ Go(l, "linking", "linked")
    /\ file[lane[l].job] = Nothing
    /\ file' = [file EXCEPT ![lane[l].job] = lane[l].gen]
    /\ OthersSame
    /\ UNCHANGED <<storeVars, proc>>

\* check(allow_cancel=True): the lease is still held, and neither a
\* cancellation nor a stop counts any more.
CheckAfterLink(l) ==
    /\ Go(l, "linked", "committing")
    /\ Fenced(lane[l].job, Me, lane[l].gen)
    /\ OthersSame
    /\ UNCHANGED <<storeVars, proc, file>>

Commit(l) ==
    /\ Go(l, "committing", "leaving")
    /\ FinishJob(lane[l].job, Me, lane[l].gen, "succeeded", TRUE)
    /\ OthersSame
    /\ UNCHANGED <<proc, file>>

\* Mutant: the publication is withdrawn without the lease.
AbandonUnfenced(l) ==
    /\ Go(l, "abandon", "failing")
    /\ pub' = [pub EXCEPT ![lane[l].job][lane[l].gen] = "abandoned"]
    /\ OthersSame
    /\ UNCHANGED <<job, attempt, keys, inputChanged, proc, file>>

\* Nothing of this attempt is at the final path.
Abandon(l) ==
    /\ Go(l, "abandon", "failing")
    /\ file[lane[l].job] # lane[l].gen
    /\ AbandonPublication(lane[l].job, Me, lane[l].gen)
    /\ OthersSame
    /\ UNCHANGED <<proc, file>>

\* The handler of run_once chooses the state, then finishes with it.
Classify(l) ==
    /\ lane[l].pc = "failing"
    /\ Fenced(lane[l].job, Me, lane[l].gen)
    /\ lane' = [lane EXCEPT
                  ![l].pc = "finishing",
                  ![l].err = IF job[lane[l].job].state = "cancel_requested"
                             THEN "cancelled" ELSE lane[l].err]
    /\ OthersSame
    /\ UNCHANGED <<storeVars, proc, file>>

FinishFailed(l) ==
    /\ Go(l, "finishing", "leaving")
    /\ FinishJob(lane[l].job, Me, lane[l].gen, lane[l].err, FALSE)
    /\ OthersSame
    /\ UNCHANGED <<proc, file>>

\* cleanup, and _active.pop.
Leave(l) ==
    /\ lane[l].pc = "leaving"
    /\ lane' = [lane EXCEPT ![l] = IdleLane]
    /\ OthersSame
    /\ UNCHANGED <<storeVars, proc, file>>

\* Where an exception takes the lane.  "leaving" keeps preserve_work or
\* published: the handler then writes nothing, and recovery decides later.
OnError(pc) ==
    CASE pc \in {"begin", "ready", "verified"} -> "failing"
      [] pc = "spawned" -> "discard"
      [] pc \in {"recorded", "checked", "running"} -> "unwind"
      [] pc \in {"intended", "linking"} -> "abandon"
      [] pc \in {"discard", "unwind", "exited", "linked", "committing", "abandon",
                 "failing", "finishing"} -> "leaving"

\* Closing the gate makes a child that was not released exit.
LaneFails(l) ==
    /\ lane[l].pc \notin {"idle", "claimed", "leaving"}
    /\ \E e \in Raised(l) :
         lane' = [lane EXCEPT ![l].pc = OnError(lane[l].pc),
                              ![l].err = IF OnError(lane[l].pc) = "leaving" THEN "none" ELSE e]
    /\ IF lane[l].pc \in {"spawned", "recorded", "checked"}
       THEN proc' = [proc EXCEPT ![lane[l].job][lane[l].gen] = "none"]
       ELSE UNCHANGED proc
    /\ OthersSame
    /\ UNCHANGED <<storeVars, file>>

LaneStep(l) ==
    \/ \E j \in Jobs : Claim(l, j)
    \/ Register(l) \/ Begin(l)
    \/ Spawn(l) \/ RecordProcess(l) \/ CheckBeforeGate(l) \/ OpenGate(l)
    \/ ProcessEnded(l) \/ Terminate(l) \/ ClearProcess(l)
    \/ Verified(l) \/ FinishVerify(l)
    \/ Intend(l) \/ CheckBeforeLink(l) \/ Link(l) \/ CheckAfterLink(l) \/ Commit(l)
    \/ Abandon(l) \/ Classify(l) \/ FinishFailed(l)
    \/ Leave(l) \/ LaneFails(l)

-----------------------------------------------------------------------------
\* Bound of the instance: its last start is neither stopped nor killed, and
\* none of its reconciliation passes is given up.
Disturbed == spent # Owners

-----------------------------------------------------------------------------
(* Reconciliation: at startup, before the lanes exist, and then every 15    *)
(* seconds in the verification lane's thread, beside the media lane.        *)

LanesSame == UNCHANGED <<app, spent, lane, proc, file>>

Starting == app.phase = "starting"

\* Mutant: publications are reconciled at startup only.
PassMayStartOnce == Starting

PassMayStart == Starting \/ (app.phase = "up" /\ lane["verify"].pc = "idle")

\* list_publications(states=("pending",)).
ListPublications ==
    /\ recon.pc = "idle"
    /\ PassMayStart
    /\ recon' = [IdleRecon EXCEPT
                   !.pc = "pubs",
                   !.pubs = {p \in Publication : pub[p[1]][p[2]] = "pending"}]
    /\ LanesSame
    /\ UNCHANGED storeVars

\* The publication's job is looked up in _active and its process examined.
ExaminePublication(p) ==
    /\ recon.pc = "pubs"
    /\ p \in recon.pubs
    /\ IF Active(p[1])
       THEN recon' = [recon EXCEPT !.pubs = @ \ {p}]
       ELSE \E absent \in AbsenceAnswers(p[1], p[2]) :
              recon' = [recon EXCEPT !.pubs = @ \ {p}, !.cur = p,
                                     !.pc = IF absent THEN "look" ELSE "reject"]
    /\ LanesSame
    /\ UNCHANGED storeVars

\* Mutant: any file at the final path counts as the output.
FileVerdictByPath(j, g) == IF file[j] = Nothing THEN "unpublish" ELSE "publish"

\* lexists, then device, inode, size and hash against the intent's.
FileVerdict(j, g) ==
    CASE file[j] = Nothing -> "unpublish"
      [] file[j] = g -> "publish"
      [] OTHER -> "reject"

LookAtFile ==
    /\ recon.pc = "look"
    /\ recon' = [recon EXCEPT !.pc = FileVerdict(recon.cur[1], recon.cur[2])]
    /\ LanesSame
    /\ UNCHANGED storeVars

\* A publication that was settled meanwhile is left as it is.
SettlePublication ==
    /\ recon.pc \in {"publish", "unpublish"}
    /\ LET j == recon.cur[1]
           g == recon.cur[2]
       IN  IF pub[j][g] = "pending"
           THEN ReconcilePublication(j, g, recon.pc = "publish")
           ELSE UNCHANGED storeVars
    /\ recon' = [recon EXCEPT !.pc = "pubs", !.cur = <<>>]
    /\ LanesSame

\* A file that cannot be examined, or a settlement that raised.
DoubtPublication ==
    /\ recon.pc \in {"look", "publish", "unpublish"}
    /\ recon' = [recon EXCEPT !.pc = "reject"]
    /\ LanesSame
    /\ UNCHANGED storeVars

Reject ==
    /\ recon.pc = "reject"
    /\ RejectPublication(recon.cur[1], recon.cur[2])
    /\ recon' = [recon EXCEPT !.pc = "pubs", !.cur = <<>>]
    /\ LanesSame

\* reject_publication raises Conflict for a publication that its lane settled
\* after the pass had listed it.  The pass ends, and at startup the application.
EndPass ==
    /\ recon' = IdleRecon
    /\ app' = IF Starting THEN Down ELSE app
    /\ UNCHANGED <<storeVars, spent, lane, proc, file>>

RejectRefused ==
    /\ recon.pc = "reject"
    /\ \/ pub[recon.cur[1]][recon.cur[2]] # "pending"
       \/ job[recon.cur[1]].gen # recon.cur[2]
    /\ EndPass

Abandoned(j) == job[j].state \in ActiveStates /\ (Starting \/ job[j].lease # "live")

\* Mutant: a job blocked by an uncertain process is not looked at again.
RecoverableOnce(j) == Abandoned(j)

Recoverable(j) == Abandoned(j) \/ (job[j].state = "blocked" /\ job[j].code = "uncertain")

\* The first query of recover_expired.
ListCandidates ==
    /\ recon.pc = "pubs"
    /\ recon.pubs = {}
    /\ recon' = [recon EXCEPT
                   !.pc = "recover",
                   !.cands = {<<j, job[j].gen, job[j].state>> :
                                j \in {i \in Jobs : Recoverable(i)}}]
    /\ LanesSame
    /\ UNCHANGED storeVars

\* inspect(attempt): a job of _active counts as alive.
InspectCandidate(c, absent) ==
    /\ recon.pc = "recover"
    /\ c \in recon.cands
    /\ absent \in (IF Active(c[1]) THEN {FALSE} ELSE AbsenceAnswers(c[1], c[2]))
    /\ recon' = [recon EXCEPT !.pc = "write", !.cands = @ \ {c},
                              !.cur = c, !.absent = absent]
    /\ LanesSame
    /\ UNCHANGED storeVars

\* The second transaction skips a job that moved on meanwhile.
RecoverCandidate ==
    /\ recon.pc = "write"
    /\ LET j == recon.cur[1]
           unchanged == /\ job[j].gen = recon.cur[2]
                        /\ job[j].state = recon.cur[3]
                        /\ Starting \/ job[j].lease # "live"
       IN  IF unchanged
           THEN RecoverJob(j, recon.cur[2], recon.cur[3], recon.absent, Starting)
           ELSE UNCHANGED storeVars
    /\ recon' = [recon EXCEPT !.pc = "recover", !.cur = <<>>, !.absent = FALSE]
    /\ LanesSame

\* The lanes start after the first reconciliation.
Reconciled ==
    /\ recon.pc = "recover"
    /\ recon.cands = {}
    /\ recon' = IdleRecon
    /\ app' = IF Starting THEN [app EXCEPT !.phase = "up"] ELSE app
    /\ UNCHANGED <<storeVars, spent, lane, proc, file>>

\* A call of the pass that raises, other than those above (a locked database).
ReconcileFails ==
    /\ Disturbed
    /\ recon.pc # "idle"
    /\ EndPass

ReconcileStep ==
    \/ ListPublications
    \/ \E p \in Publication : ExaminePublication(p)
    \/ LookAtFile \/ SettlePublication \/ DoubtPublication
    \/ Reject \/ RejectRefused
    \/ ListCandidates
    \/ \E c \in recon.cands, absent \in BOOLEAN : InspectCandidate(c, absent)
    \/ RecoverCandidate \/ Reconciled

-----------------------------------------------------------------------------
(* The application and its surroundings. *)

\* The lock on v2.instance.lock admits one application at a time, and the
\* kernel releases it with the process.
AppStart(o) ==
    /\ app.phase = "down"
    /\ o \notin spent
    /\ app' = [phase |-> "starting", me |-> o]
    /\ spent' = spent \cup {o}
    /\ UNCHANGED <<storeVars, lane, recon, proc, file>>

Stop ==
    /\ Disturbed
    /\ app.phase = "up"
    /\ app' = [app EXCEPT !.phase = "stopping"]
    /\ UNCHANGED <<storeVars, spent, lane, recon, proc, file>>

\* stop() unlocks when both lanes' threads have ended.
Stopped ==
    /\ app.phase = "stopping"
    /\ \A l \in Lanes : lane[l].pc = "idle"
    /\ recon.pc = "idle"
    /\ app' = Down
    /\ UNCHANGED <<storeVars, spent, lane, recon, proc, file>>

\* Threads and gates die with the application, released processes do not.
Crash ==
    /\ Disturbed
    /\ app.phase # "down"
    /\ app' = Down
    /\ lane' = [l \in Lanes |-> IdleLane]
    /\ recon' = IdleRecon
    /\ proc' = [j \in Jobs |-> [g \in Gens |->
                  IF proc[j][g] = "gated" THEN "none" ELSE proc[j][g]]]
    /\ UNCHANGED <<storeVars, spent, file>>

\* The whole group ends, or its leader alone.
ProcessExits(j, g, rest) ==
    /\ proc[j][g] \in Alive \ {rest}
    /\ proc' = [proc EXCEPT ![j][g] = rest]
    /\ UNCHANGED <<storeVars, app, spent, lane, recon, file>>

\* Another program puts a file at the final path, or removes one; an output is
\* left alone until its publication is settled.
OtherFile(j) ==
    /\ file[j] \in Gens => pub[j][file[j]] = "committed"
    /\ \E f \in {Nothing, Foreign} \ {file[j]} : file' = [file EXCEPT ![j] = f]
    /\ UNCHANGED <<storeVars, app, spent, lane, recon, proc>>

\* The API answers while the application is up.
ApiCall(j) ==
    /\ app.phase = "up"
    /\ \/ \E m \in Limits, k \in Keys \cup {NoKey} : CreateJob(j, m, k)
       \/ RequestCancel(j)
       \/ RetryJob(j)
    /\ UNCHANGED workerVars

Elapse(j) == LeaseExpires(j) /\ UNCHANGED workerVars

\* The recording runtime or a catalog import writes another revision.
Revise(j) == InputChanges(j) /\ UNCHANGED workerVars

WorkerNext ==
    \/ \E l \in Lanes : LaneStep(l)
    \/ ReconcileStep \/ ReconcileFails
    \/ \E o \in Owners : AppStart(o)
    \/ Stop \/ Stopped \/ Crash
    \/ \E j \in Jobs : ApiCall(j) \/ Elapse(j) \/ Revise(j) \/ OtherFile(j)
    \/ \E j \in Jobs, g \in Gens, rest \in {"none", "orphaned"} : ProcessExits(j, g, rest)

WorkerSpec == WorkerInit /\ [][WorkerNext]_vars

-----------------------------------------------------------------------------
(* Safety. *)

\* A media process that was released has its pid in the ledger of the current
\* attempt, so that a restart can find it (AttemptContext.run records it before
\* it opens the gate, and a failure to terminate leaves it recorded).
ReleasedIsRecorded ==
    \A j \in Jobs, g \in Gens :
      proc[j][g] \in Alive => g = job[j].gen /\ attempt[j][g].pid

\* Generations are used in order: nothing is published for a later one, and an
\* active job has one.
GenerationsInOrder ==
    \A j \in Jobs :
      /\ job[j].state \in ActiveStates => job[j].gen \in Gens
      /\ \A g \in Gens : pub[j][g] # "none" => g <= job[j].gen

\* A job that may have a tool at work reads as executing or as uncertain.
MayRun(j) ==
    \/ job[j].state \in ActiveStates
    \/ job[j].state = "blocked" /\ job[j].code = "uncertain"

\* A tool ran before its attempt intended an output, never after.
ToolsPrecedeOutput ==
    \A j \in Jobs, g \in Gens : proc[j][g] \in Alive => pub[j][g] = "none"

\* Steps of a lane before the end of its tools, and around the publication.
ToolSteps == {"spawned", "recorded", "checked", "running", "exited", "unwind"}
BeforeIntent == ToolSteps \cup {"claimed", "begin", "ready", "discard", "verified"}
Publishing == {"intended", "linking", "linked", "committing", "abandon"}

\* What lane l, being at a, may rely on: the generation it holds is its job's
\* current one, whatever was recovered meanwhile, and its process, its intent
\* and its file are as its own steps left them.
LaneHolds(l, a) ==
    a.pc # "idle" =>
      /\ app.phase \in {"up", "stopping"}
      /\ a.job \in Jobs
      /\ a.gen \in Gens
      /\ a.gen = job[a.job].gen
      /\ l = "verify" <=> a.job \in VerifyJobs
      /\ a.pc = "verified" => a.job \in VerifyJobs
      /\ a.pc \in BeforeIntent => pub[a.job][a.gen] = "none"
      /\ a.pc \in Publishing => pub[a.job][a.gen] = "pending"
      /\ a.pc \in {"failing", "finishing"} => pub[a.job][a.gen] \in {"none", "abandoned"}
      /\ a.pc \in {"linked", "committing"} => file[a.job] = a.gen
      /\ a.pc \in {"recorded", "checked"} => attempt[a.job][a.gen].pid
      /\ a.pc = "checked" => MayRun(a.job)
      /\ a.pc \notin {"running", "unwind", "leaving"} => proc[a.job][a.gen] \notin Alive
      /\ a.pc \in {"discard", "unwind", "abandon", "failing", "finishing"} => a.err # "none"
      /\ a.pc \in ToolSteps => a.runs < MediaTools

LanesHold == \A l \in Lanes : LaneHolds(l, lane[l])

\* Candidate c can no longer be executed under the lease that was read, and one
\* that was blocked has not been executed since.
StaysRecoverable(c) ==
    /\ c[2] \in Gens /\ c[2] <= job[c[1]].gen
    /\ c[3] \in ActiveStates \cup {"blocked"}
    /\ job[c[1]].gen = c[2] =>
         /\ ~Starting => job[c[1]].lease # "live"
         /\ c[3] = "blocked" =>
              /\ job[c[1]].state \notin ActiveStates
              /\ job[c[1]].state = "blocked" => job[c[1]].code \in {"uncertain", "reconcile"}

\* What a pass may rely on between what it read and what it writes: a listed
\* publication was intended; one whose process is gone has no lane that could
\* still link its file, and the file is as it was seen; a candidate that was
\* found absent has no tool and no lane that could still start one.
PassHolds ==
    /\ recon.pc \in {"look", "publish", "unpublish", "reject"} =>
         recon.cur \in Publication /\ pub[recon.cur[1]][recon.cur[2]] # "none"
    /\ recon.pc = "write" => recon.cur \in Candidate
    /\ \A p \in recon.pubs : pub[p[1]][p[2]] # "none"
    /\ recon.pc \in {"look", "publish", "unpublish"} /\ pub[recon.cur[1]][recon.cur[2]] = "pending" =>
         /\ \A l \in Lanes : lane[l].pc # "idle" => lane[l].job # recon.cur[1]
         /\ recon.pc = "publish" => file[recon.cur[1]] = recon.cur[2]
         /\ recon.pc = "unpublish" => file[recon.cur[1]] # recon.cur[2]
    /\ \A c \in recon.cands : StaysRecoverable(c)
    /\ recon.pc = "write" =>
         /\ StaysRecoverable(recon.cur)
         /\ recon.absent /\ job[recon.cur[1]].gen = recon.cur[2] =>
              /\ proc[recon.cur[1]][recon.cur[2]] \notin Alive
              /\ \A l \in Lanes :
                   lane[l].pc # "idle" /\ lane[l].job = recon.cur[1] =>
                     lane[l].pc \in {"claimed", "begin", "failing", "leaving"}

\* Everything that runs has an identity to lease jobs under.
AppHolds == app.phase # "down" => app.me \in Owners

\* Types, the record of released processes, and what each thread relies on
\* between two of its steps while the others run: with the two invariants
\* below and those of the job tables this is inductive.
WorkerInv ==
    /\ WorkerTypeOK
    /\ ReleasedIsRecorded
    /\ GenerationsInOrder
    /\ ToolsPrecedeOutput
    /\ LanesHold
    /\ PassHolds
    /\ AppHolds

\* "Expired leases alone do not authorize relaunch" and "cancellation of a
\* running operation is a request until process termination is confirmed"
\* (docs/v2/README.md): while a released process lives its job reads as
\* executing or as uncertain, never as finished, cancelled or waiting.
NoVerdictWhileAlive ==
    \A j \in Jobs, g \in Gens : proc[j][g] \in Alive => MayRun(j)

\* "Publication intent is durable before the file appears" and is not withdrawn
\* after: a file that an attempt linked has a publication that is pending or
\* committed, whoever settles it and however late the link came.  And a media
\* job never reads as succeeded without the commit of its last attempt.
OutputMatchesVerdict ==
    /\ \A j \in Jobs :
         file[j] \in Gens => pub[j][file[j]] \in {"pending", "committed"}
    /\ \A j \in MediaJobs :
         job[j].state = "succeeded" => pub[j][job[j].gen] = "committed"

\* A publication is committed only while its own output is at the final path:
\* neither a missing file nor another program's becomes a job's result.
CommitsOnlyItsOutput ==
    [][\A j \in Jobs, g \in Gens :
         pub[j][g] # "committed" /\ pub'[j][g] = "committed" => file[j] = g]_vars

\* Every step of the worker is a legal sequence of repository calls, with the
\* arguments that StoreNext allows: what is proved of StoreSpec holds here.
UsesTheStore == StoreSpec

\* What finish_job enforces and tests/test_v2_repository.py:203 names ("content
\* change before commit rolls back artifact and job"): no output is committed
\* after the revision of its input has moved on.
ChangedInputIsNotCommitted ==
    [][\A j \in Jobs, g \in Gens :
         pub[j][g] # "committed" /\ pub'[j][g] = "committed" => ~inputChanged[j]]_vars

-----------------------------------------------------------------------------
(* Liveness. *)

\* A pass that is started although a verification could be claimed: _lane calls
\* run_once after every pass and starts the next one 15 seconds later.
PassBeforeWork ==
    /\ ListPublications
    /\ app.phase = "up"
    /\ \E j \in VerifyJobs : Claimable(j)

\* The lanes' threads run, and every call in them returns or raises: tools have
\* a time limit.  The supervisor starts the application again.  A process that
\* nobody waits for ends, and a lease that no lane renews runs out.  The verify
\* lane reconciles again and again, from some pass on the database lets it, and
\* between two passes the lane looks for a job.  A storage that is examined again
\* and again is reachable in the end, and a process that is gone is not doubted
\* for ever.
Fairness ==
    /\ \A l \in Lanes : WF_vars(LaneStep(l))
    /\ WF_vars(ReconcileStep)
    /\ <>[][~ReconcileFails /\ ~PassBeforeWork]_vars
    /\ SF_vars(LookAtFile)
    /\ SF_vars(SettlePublication)
    /\ SF_vars(\E c \in recon.cands : InspectCandidate(c, TRUE))
    /\ WF_vars(\E o \in Owners : AppStart(o))
    /\ WF_vars(Stopped)
    /\ \A j \in Jobs :
         /\ WF_vars(~Active(j) /\ Elapse(j))
         /\ WF_vars(\E g \in Gens : ProcessExits(j, g, "none"))

FairWorkerSpec == WorkerSpec /\ Fairness

\* No execution lasts for ever, whatever crashed under it: the job leaves the
\* active states, and the blocked state that waits for an uncertain process.
ExecutionEnds ==
    \A j \in Jobs :
      (job[j].state \in ActiveStates \/ job[j].code = "uncertain")
        ~> (job[j].state \notin ActiveStates /\ job[j].code # "uncertain")

\* An intended publication is settled, unless another program's file lies at the
\* final path: that is left for an operator.
IntentSettles ==
    \A j \in MediaJobs, g \in Gens :
      pub[j][g] = "pending" ~> (pub[j][g] # "pending" \/ file[j] = Foreign)

\* A cancellation that was accepted reaches a verdict: it does not get lost in a
\* job that waits or executes, even when it arrives between the check and the
\* finish of a failing attempt and the job is put back into retry_wait.
CancelSettles ==
    \A j \in Jobs :
      job[j].cancel ~> \/ job[j].state \in {"cancelled", "succeeded", "failed", "blocked"}
                       \/ ~job[j].cancel

\* What was intended or asked for is settled: outputs and cancellations.
CommitmentsSettle == IntentSettles /\ CancelSettles
=============================================================================
