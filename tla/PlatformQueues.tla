--------------------------- MODULE PlatformQueues ---------------------------
(***************************************************************************)
(* The platform runtime (module/operations_platform_v3.py): the archive    *)
(* jobs and the notification queue, two tables of the catalogue database,  *)
(* each worked by one loop of the event loop that hands the slow part      *)
(* (rclone, the HTTP calls) to a thread, and the recordings' archive       *)
(* status that mirrors the jobs.                                           *)
(*                                                                         *)
(* A callback of the event loop commits several transactions one after the *)
(* other.  No other callback runs between them, but a thread does, and the *)
(* application may die between any two: todo holds the ones that are left. *)
(***************************************************************************)
EXTENDS Integers, Sequences, FiniteSets, Functions

CONSTANTS
    Recs,           \* recordings in the catalogue
    Name,           \* the name of each recording's file, which another may share
    Before,         \* recordings that were archived before, by jobs that are left out
    Route,          \* destinations of notifications in their order: Telegram,
                    \* Discord, webhooks
    Events,         \* the events that the settings have announced
    Swallows,       \* those whose sender reports no failure (sendTelegram)
    JobAttempts,    \* max_attempts of archive jobs
    NoteAttempts,   \* max_attempts of notifications
    MaxJobs,        \* bound: archive jobs
    MaxCrashes,     \* bound: deaths of the application
    MaxRetries      \* bound: notifications that a user queues again

ASSUME PlatformAssumption ==
    /\ Route \in Seq(Range(Route)) /\ IsInjective(Route)
    /\ Name \in [Recs -> Range(Name)]
    /\ Before \subseteq Recs /\ \A r, s \in Before : Name[r] = Name[s] => r = s
    /\ Swallows \subseteq Range(Route) /\ Events \subseteq {"archive.completed", "archive.failed"}
    /\ JobAttempts \in Nat \ {0} /\ NoteAttempts \in Nat \ {0}
    /\ MaxJobs \in Nat /\ MaxCrashes \in Nat /\ MaxRetries \in Nat

VARIABLES
    up,         \* whether the application runs
    local,      \* recordings whose file is in its folder
    remote,     \* the objects in the remote store, one at most of a name
    status,     \* archive_status of each recording
    jobs,       \* table archive_jobs, by id
    notes,      \* table notification_queue, by id
    arch,       \* the archive loop's job, its settings, and how far its thread is
    sender,     \* the notification loop's row as it was read, and its thread
    todo,       \* transactions the running callback has still to commit
    got,        \* history: times each destination that reports its failures accepted
                \* each notification
    unread,     \* history: recordings last filed as archived with their sizes not compared
    replaced,   \* history: recordings whose object another one's upload took the place of,
                \* and that were not archived with their sizes compared since
    spent       \* history: crashes and repeated notifications

Dests == Range(Route)
Honest == Dests \ Swallows

disk == <<local, remote>>
tables == <<status, jobs, notes>>
history == <<got, unread, replaced, spent>>
vars == <<up, disk, tables, history, arch, sender, todo>>

\* Bound: an acceptance and those that follow are not told apart.
Once == 0..1
Again(n) == 1

JobActive == {"queued", "retry", "uploading"}
JobStatus == JobActive \cup {"completed", "failed"}
Job == [rec : Recs, status : JobStatus, attempts : 0..JobAttempts]

NoteStatus == {"queued", "retry", "sent", "failed"}
Delivery == [Dests -> {"none", "sent", "failed"}]
Note == [event : {"archive.completed", "archive.failed"}, rec : Recs, status : NoteStatus,
         attempts : 0..NoteAttempts, delivery : Delivery]

NewJob(r) == [rec |-> r, status |-> "queued", attempts |-> 0]
NewNote(e, r) == [event |-> e, rec |-> r, status |-> "queued", attempts |-> 0,
                  delivery |-> [d \in Dests |-> "none"]]

Object == [of : Recs, kept : {"partial", "whole"}]
At(name) == {o \in remote : Name[o.of] = name}
Whole(r) == [of |-> r, kept |-> "whole"] \in remote

Idle == [pc |-> "idle", job |-> 0, delete |-> FALSE, verify |-> FALSE]
Silent == [note |-> 0, attempts |-> 0, delivery |-> [d \in Dests |-> "none"], left |-> << >>]

\* enqueue_notification: an event that the settings do not name is dropped.
Enqueue(e, r) ==
    IF e \in Events
    THEN /\ notes' = Append(notes, NewNote(e, r))
         /\ got' = Append(got, [d \in Honest |-> 0])
    ELSE UNCHANGED <<notes, got>>

\* What a callback may have left to commit: a recording's status, or a notification.
Writes == [kind : {"status"}, rec : Recs, status : JobStatus]
              \cup [kind : {"note"}, rec : Recs, event : {"archive.completed", "archive.failed"}]
StatusWrite(r, s) == [kind |-> "status", rec |-> r, status |-> s]
NoteWrite(r, e) == [kind |-> "note", rec |-> r, event |-> e]

Processing == sender.note # 0
LoopFree == up /\ todo = << >>

PlatformTypeOK ==
    /\ up \in BOOLEAN
    /\ local \subseteq Recs
    /\ remote \subseteq Object
    /\ \A o, p \in remote : Name[o.of] = Name[p.of] => o = p
    /\ status \in [Recs -> JobStatus \cup {"none"}]
    /\ jobs \in Seq(Job) /\ Len(jobs) <= MaxJobs
    /\ notes \in Seq(Note)
    /\ arch \in [pc : {"idle", "claimed", "copying", "copied", "filed", "announced", "done", "broken"},
                 job : 0..MaxJobs, delete : BOOLEAN, verify : BOOLEAN]
    /\ sender \in [note : 0..Len(notes), attempts : 0..NoteAttempts,
                   delivery : Delivery, left : Seq(Dests)]
    /\ todo \in Seq(Writes)
    /\ got \in [1..Len(notes) -> [Honest -> Once]]
    /\ unread \subseteq Recs /\ replaced \subseteq Recs
    /\ spent \in [crashes : 0..MaxCrashes, retries : 0..MaxRetries]

Init ==
    /\ up = TRUE
    /\ \E gone \in SUBSET Before : local = Recs \ gone
    /\ remote = {[of |-> r, kept |-> "whole"] : r \in Before}
    /\ status = [r \in Recs |-> IF r \in Before THEN "completed" ELSE "none"]
    /\ jobs = << >> /\ notes = << >> /\ got = << >>
    /\ arch = Idle /\ sender = Silent
    /\ todo = << >>
    /\ unread = {} /\ replaced = {}
    /\ spent = [crashes |-> 0, retries |-> 0]

-----------------------------------------------------------------------------
(* The queue of archive jobs.                                              *)

Queued(r) == \E i \in DOMAIN jobs : jobs[i].rec = r /\ jobs[i].status \in JobActive

\* A user asks for a recording to be archived; a job that is not over is reused.
EnqueueArchive(r) ==
    /\ LoopFree /\ Len(jobs) < MaxJobs
    /\ ~Queued(r)
    /\ jobs' = Append(jobs, NewJob(r))
    /\ todo' = <<StatusWrite(r, "queued")>>
    /\ UNCHANGED <<up, disk, status, notes, history, arch, sender>>

\* The next transaction of the callback.
Commit ==
    /\ up /\ todo # << >>
    /\ todo' = Tail(todo)
    /\ LET w == Head(todo) IN
         \/ /\ w.kind = "status"
            /\ status' = [status EXCEPT ![w.rec] = w.status]
            /\ UNCHANGED <<notes, got>>
         \/ /\ w.kind = "note"
            /\ Enqueue(w.event, w.rec)
            /\ UNCHANGED status
    /\ UNCHANGED <<up, disk, jobs, unread, replaced, spent, arch, sender>>

\* A queued job is due, one that failed is due after a delay nobody bounds here.
Waiting(i) == jobs[i].status \in {"queued", "retry"}

\* The loop marks the first job that is due and gives it to a thread.
ClaimJob ==
    /\ LoopFree /\ arch = Idle
    /\ \E i \in DOMAIN jobs :
         /\ Waiting(i) /\ \A k \in 1..(i - 1) : jobs[k].status # "queued"
         /\ jobs' = [jobs EXCEPT ![i].status = "uploading"]
         /\ arch' = [Idle EXCEPT !.pc = "claimed", !.job = i]
    /\ UNCHANGED <<up, disk, status, notes, history, sender, todo>>

Rec == jobs[arch.job].rec

\* The thread: the file must be there, the row says uploading, and delete_after
\* and verify_size are what the settings say now.
BeginUpload ==
    /\ up /\ arch.pc = "claimed"
    /\ \/ /\ Rec \in local
          /\ status' = [status EXCEPT ![Rec] = "uploading"]
          /\ \E delete \in BOOLEAN, verify \in BOOLEAN :
               arch' = [arch EXCEPT !.pc = "copying", !.delete = delete, !.verify = verify]
       \/ /\ Rec \notin local
          /\ arch' = [arch EXCEPT !.pc = "broken"]
          /\ UNCHANGED status
    /\ UNCHANGED <<up, disk, jobs, notes, history, sender, todo>>

\* What a copy of r may leave at its name: an object of r, in part or whole, over
\* what another recording of that name had there; or what was there; or nothing.
\* What is whole already is left as it is.
Written(r) == {[of |-> r, kept |-> k] : k \in {"partial", "whole"}}
Copies(r) == IF Whole(r) THEN {At(Name[r])} ELSE {{o} : o \in Written(r)}
Leavings(r) == IF Whole(r) THEN {At(Name[r])} ELSE Copies(r) \cup {{}, At(Name[r])}
Leaves(r, objects) ==
    /\ remote' = (remote \ At(Name[r])) \cup objects
    /\ replaced' = replaced \cup ({o.of : o \in At(Name[r]) \ objects} \ {r})

\* rclone copyto: a copy that ends well has written an object of its own.
Upload ==
    /\ up /\ arch.pc = "copying"
    /\ \/ /\ \E objects \in Copies(Rec) : Leaves(Rec, objects)
          /\ arch' = [arch EXCEPT !.pc = "copied"]
       \/ /\ \E objects \in Leavings(Rec) : Leaves(Rec, objects)
          /\ arch' = [arch EXCEPT !.pc = "broken"]
    /\ UNCHANGED <<up, local, tables, got, unread, spent, sender, todo>>

\* (Mutated: the size is not compared.)
SizesUnread(r) == r \in local
SizesAgree(r) == r \in local /\ Whole(r)

\* With verify_size the remote size is compared with the local one; the row then
\* says completed.
CheckSize ==
    /\ up /\ arch.pc = "copied"
    /\ \/ /\ arch.verify => SizesAgree(Rec)
          /\ status' = [status EXCEPT ![Rec] = "completed"]
          /\ unread' = IF arch.verify THEN unread \ {Rec} ELSE unread \cup {Rec}
          /\ replaced' = IF arch.verify THEN replaced \ {Rec} ELSE replaced
          /\ arch' = [arch EXCEPT !.pc = "filed"]
       \/ /\ arch.verify
          /\ arch' = [arch EXCEPT !.pc = "broken"]
          /\ UNCHANGED <<status, unread, replaced>>
    /\ UNCHANGED <<up, disk, jobs, notes, got, spent, sender, todo>>

\* (Mutated: nothing is said of an upload whose file goes.)
AnnounceIfKept ==
    /\ up /\ arch.pc = "filed"
    /\ IF arch.delete THEN UNCHANGED <<notes, got>> ELSE Enqueue("archive.completed", Rec)
    /\ arch' = [arch EXCEPT !.pc = "announced"]
    /\ UNCHANGED <<up, disk, status, jobs, unread, replaced, spent, sender, todo>>

\* The thread queues the notification of the completed upload.
AnnounceUpload ==
    /\ up /\ arch.pc = "filed"
    /\ Enqueue("archive.completed", Rec)
    /\ arch' = [arch EXCEPT !.pc = "announced"]
    /\ UNCHANGED <<up, disk, status, jobs, unread, replaced, spent, sender, todo>>

\* With delete_after the local file goes; a failure to remove it fails the job.
DeleteLocal ==
    /\ up /\ arch.pc = "announced"
    /\ \/ /\ arch.delete
          /\ local' = local \ {Rec}
          /\ arch' = [arch EXCEPT !.pc = "done"]
       \/ /\ arch.delete
          /\ arch' = [arch EXCEPT !.pc = "broken"]
          /\ UNCHANGED local
       \/ /\ ~arch.delete
          /\ arch' = [arch EXCEPT !.pc = "done"]
          /\ UNCHANGED local
    /\ UNCHANGED <<up, remote, tables, history, sender, todo>>

\* Back in the loop: the job is completed.
CompleteJob ==
    /\ LoopFree /\ arch.pc = "done"
    /\ jobs' = [jobs EXCEPT ![arch.job].status = "completed"]
    /\ arch' = Idle
    /\ UNCHANGED <<up, disk, status, notes, history, sender, todo>>

Verdict(attempts, most) == IF attempts >= most THEN "failed" ELSE "retry"

\* An attempt that failed: the job waits or has failed, then the row, then the word.
FailJob ==
    /\ LoopFree /\ arch.pc = "broken"
    /\ LET attempts == jobs[arch.job].attempts + 1
           verdict == Verdict(attempts, JobAttempts) IN
         /\ jobs' = [jobs EXCEPT ![arch.job].status = verdict, ![arch.job].attempts = attempts]
         /\ todo' = <<StatusWrite(Rec, verdict)>>
                        \o IF verdict = "failed" THEN <<NoteWrite(Rec, "archive.failed")>> ELSE << >>
    /\ arch' = Idle
    /\ UNCHANGED <<up, disk, status, notes, history, sender>>

-----------------------------------------------------------------------------
(* The notification queue.                                                 *)

Pending(n) == notes[n].status \in {"queued", "retry"}

\* Outside quiet hours the loop reads the first row that is due; it marks nothing.
TakeNote ==
    /\ LoopFree /\ ~Processing
    /\ \E n \in DOMAIN notes :
         /\ Pending(n) /\ \A k \in 1..(n - 1) : notes[k].status # "queued"
         /\ sender' = [note |-> n, attempts |-> notes[n].attempts,
                       delivery |-> notes[n].delivery, left |-> Route]
    /\ UNCHANGED <<up, disk, tables, history, arch, todo>>

\* Whether the thread skips a destination.
Delivered(d) == sender.delivery[d] = "sent"

\* The next destination: skipped, or tried; an error may follow an acceptance,
\* and a sender that swallows its failures returns as if all were well.
Deliver ==
    /\ up /\ Processing /\ sender.left # << >>
    /\ LET d == Head(sender.left) IN
         \/ /\ Delivered(d)
            /\ sender' = [sender EXCEPT !.left = Tail(@)]
            /\ UNCHANGED got
         \/ /\ ~Delivered(d) /\ d \in Swallows
            /\ sender' = [sender EXCEPT !.left = Tail(@), !.delivery[d] = "sent"]
            /\ UNCHANGED got
         \/ /\ ~Delivered(d) /\ d \in Honest
            /\ \E accepted \in BOOLEAN, error \in BOOLEAN :
                 /\ accepted \/ error
                 /\ sender' = [sender EXCEPT !.left = Tail(@),
                                             !.delivery[d] = IF error THEN "failed" ELSE "sent"]
                 /\ got' = IF accepted THEN [got EXCEPT ![sender.note][d] = Again(@)] ELSE got
    /\ UNCHANGED <<up, disk, tables, unread, replaced, spent, arch, todo>>

\* Whether no destination failed.  (Mutated: whether one was reached.)
SettledByOne(deliveries) == \E d \in Dests : deliveries[d] = "sent"
Settled(deliveries) == \A d \in Dests : deliveries[d] # "failed"

\* Back in the loop: the row is written from what was read before the thread ran.
FileNote ==
    /\ LoopFree /\ Processing /\ sender.left = << >>
    /\ LET n == sender.note
           attempts == sender.attempts + 1 IN
         \/ /\ Settled(sender.delivery)
            /\ notes' = [notes EXCEPT ![n].status = "sent", ![n].delivery = sender.delivery]
         \/ /\ ~Settled(sender.delivery)
            /\ notes' = [notes EXCEPT ![n].status = Verdict(attempts, NoteAttempts),
                                      ![n].attempts = attempts,
                                      ![n].delivery = sender.delivery]
    /\ sender' = Silent
    /\ UNCHANGED <<up, disk, status, jobs, history, arch, todo>>

\* A user queues a notification again, whatever its status.
RetryNote(n) ==
    /\ LoopFree /\ spent.retries < MaxRetries
    /\ notes' = [notes EXCEPT ![n].status = "retry", ![n].attempts = 0]
    /\ spent' = [spent EXCEPT !.retries = @ + 1]
    /\ UNCHANGED <<up, disk, status, jobs, got, unread, replaced, arch, sender, todo>>

-----------------------------------------------------------------------------
(* The application's life.                                                 *)

\* The application dies with its threads; a copy under way may leave a part behind.
Crash ==
    /\ up /\ spent.crashes < MaxCrashes
    /\ up' = FALSE
    /\ \/ UNCHANGED <<remote, replaced>>
       \/ /\ arch.pc = "copying"
          /\ \E objects \in Leavings(Rec) : Leaves(Rec, objects)
    /\ arch' = Idle /\ sender' = Silent /\ todo' = << >>
    /\ spent' = [spent EXCEPT !.crashes = @ + 1]
    /\ UNCHANGED <<local, tables, got, unread>>

\* (Mutated: a start looks for no interrupted job.)
InterruptedNever(i) == FALSE
Interrupted(i) == jobs[i].status = "uploading"

\* The next start puts interrupted jobs back and lets each row follow.
Restart ==
    /\ ~up
    /\ up' = TRUE
    /\ LET cut == {i \in DOMAIN jobs : Interrupted(i)} IN
         /\ jobs' = [i \in DOMAIN jobs |->
                       IF i \in cut THEN [jobs[i] EXCEPT !.status = "retry"] ELSE jobs[i]]
         /\ status' = [r \in Recs |->
                         IF \E i \in cut : jobs[i].rec = r THEN "queued" ELSE status[r]]
    /\ UNCHANGED <<disk, notes, history, arch, sender, todo>>

Next ==
    \/ \E r \in Recs : EnqueueArchive(r)
    \/ Commit \/ ClaimJob \/ BeginUpload \/ Upload \/ CheckSize \/ AnnounceUpload
    \/ DeleteLocal \/ CompleteJob \/ FailJob
    \/ TakeNote \/ Deliver \/ FileNote
    \/ \E n \in DOMAIN notes : RetryNote(n)
    \/ Crash \/ Restart

\* Both loops and their threads run on (the commands have timeouts), time
\* passes, every quiet hour ends and the application is started again.
Fairness ==
    /\ WF_vars(Commit) /\ WF_vars(ClaimJob) /\ WF_vars(BeginUpload) /\ WF_vars(Upload)
    /\ WF_vars(CheckSize) /\ WF_vars(AnnounceUpload) /\ WF_vars(DeleteLocal)
    /\ WF_vars(CompleteJob) /\ WF_vars(FailJob)
    /\ WF_vars(TakeNote) /\ WF_vars(FileNote) /\ WF_vars(Deliver)
    /\ WF_vars(Restart)

PlatformSpec == Init /\ [][Next]_vars /\ Fairness

-----------------------------------------------------------------------------
(* Properties.                                                             *)

\* What the catalogue or a job calls archived is whole in the remote store, and no
\* recording's file leaves its folder before that (_archive_once): unless it was
\* archived with verify_size off, or another recording's file of the same name was
\* uploaded over it.
ArchivedIsKept ==
    \A r \in Recs \ (unread \cup replaced) :
        /\ status[r] = "completed" => Whole(r)
        /\ (\E i \in DOMAIN jobs : jobs[i].rec = r /\ jobs[i].status = "completed") => Whole(r)
        /\ r \in local \/ Whole(r)

\* Types, and no file or word of an archived recording is ahead of the upload,
\* in whichever transaction the application dies.
PlatformInv == PlatformTypeOK /\ ArchivedIsKept

\* A completed archive job was announced if the settings want it, wherever the
\* application died: the thread queues the word before the loop closes the job.
CompletionIsAnnounced ==
    "archive.completed" \in Events => \A i \in DOMAIN jobs : jobs[i].status = "completed" =>
        \E n \in DOMAIN notes : notes[n].rec = jobs[i].rec /\ notes[n].event = "archive.completed"

\* A notification that is filed as sent was accepted by every destination that
\* reports its failures, over all its attempts, retries and crashes.
SentMeansReceived ==
    \A n \in DOMAIN notes : notes[n].status = "sent" =>
        \A d \in Honest : got[n][d] > 0

\* Every archive job and every notification comes to an end.
JobsOver == \A i \in DOMAIN jobs : jobs[i].status \notin JobActive
NotesOver == \A n \in DOMAIN notes : notes[n].status \in {"sent", "failed"}
QueuesSettle == []<>(JobsOver /\ NotesOver)

\* A recording that was archived is not reported as failed for want of the
\* local file that the archiving itself removed.
ArchivedIsNotFailed ==
    \A i \in DOMAIN jobs : jobs[i].status = "failed" =>
        (Whole(jobs[i].rec) => jobs[i].rec \in local)

\* A recording's file is in its folder or whole in the remote store.
SomeCopyIsWhole == \A r \in Recs : r \in local \/ Whole(r)

\* When nothing is under way the recording's status is that of its last job.
RowFollowsJob ==
    (LoopFree /\ arch = Idle) =>
        \A i \in DOMAIN jobs :
            (\A k \in DOMAIN jobs : jobs[k].rec = jobs[i].rec => k <= i)
                => status[jobs[i].rec] \in {jobs[i].status, "queued"}
=============================================================================
