-------------------------- MODULE CaptureCatalogue --------------------------
(***************************************************************************)
(* What becomes of a channel's captures on record: the events that         *)
(* ChannelControlService sends when a capture starts and ends              *)
(* (module/v2_channels.py), the rows that recording_catalog makes of them, *)
(* the projection of those rows into the v2 repository, which the event    *)
(* loop and helper threads compute at the same time, and the verification  *)
(* jobs that are queued on the way.                                        *)
(*                                                                         *)
(* A row is known by the base name that its file had at first; the         *)
(* artifact projected from it carries a revision that stands for its       *)
(* content, and a job is about one revision.                               *)
(***************************************************************************)
EXTENDS Integers, Sequences, FiniteSets, SequencesExt

CONSTANTS
    Names,          \* base names that uniqueFilename tries for a live, in order
    Parts,          \* base names of the parts of a split recording, in order
    Broadcasts,     \* identities of the lives
    Loop,           \* the event loop: engine, events, automatic verification
    Helpers,        \* threads that verify_recording and merge_broadcast run in
    Moves,          \* moveAfterProcessing
    MaxCaptures,    \* bound: captures
    MaxNotes,       \* bound: writes of an archive status
    MaxSyncs,       \* bound: projections by helpers
    MaxFaults       \* bound: events that the catalogue fails to write, and crashes

ASSUME CatalogueAssumption ==
    /\ Names \in Seq(ToSet(Names)) /\ Parts \in Seq(ToSet(Parts))
    /\ Len(Names) >= MaxCaptures /\ Names # << >> /\ IsInjective(Names)
    /\ Broadcasts # {}
    /\ ToSet(Names) \cap ToSet(Parts) = {} /\ IsInjective(Parts)
    /\ Loop \notin Helpers /\ Moves \in BOOLEAN
    /\ {MaxCaptures, MaxNotes, MaxSyncs, MaxFaults} \subseteq Nat

VARIABLES
    rows,       \* recordings of the legacy catalogue; the id is the place
    disk,       \* paths at which there is a file
    cap,        \* the capture in _captures
    todo,       \* events of an ended capture that are still to be sent
    proj,       \* the artifact of each row
    sync,       \* what each thread does about the projection
    jobs,       \* verification jobs: row, revision, state; history: the file it is about
    bound,      \* revision that the key auto-verify:<row> is bound to, 0 for none
    work,       \* the job that the worker verifies
    clean,      \* history: the projection saw the newest rows, and no older ones since
    reused,     \* history: rows that a further capture of the same name took over when
                \* their key was bound
    raced,      \* history: rows of ended captures whose projection began while a thread
                \* had still to import the row as it had read it before
    spent       \* history: what is bounded

past == <<reused, raced>>
vars == <<rows, disk, cap, todo, proj, sync, jobs, bound, work, clean, past, spent>>

Threads == {Loop} \cup Helpers
Bases == ToSet(Names) \cup ToSet(Parts)
MaxRows == Cardinality(Bases)
Ids == 1..MaxRows

\* A path: the base name, and where; n makes it unique in the destination, and is
\* the directory of a split recording.
Path == [base : Bases, in : {"out", "dest", "split"}, n : 0..MaxCaptures]
Out(b) == [base |-> b, in |-> "out", n |-> 0]
\* The base name that the catalogue has in its column filename.
File(p) == <<p.base, IF p.in = "dest" THEN p.n ELSE 0>>

Row == [key : Bases, of : Broadcasts, index : Ids, path : Path,
        status : {"recording", "completed", "failed"}, note : 0..MaxNotes]
NoRow == [status |-> "none"]
NoCap == [on |-> FALSE, of |-> CHOOSE b \in Broadcasts : TRUE, split |-> FALSE,
          first |-> Names[1], path |-> Out(Names[1])]
NoSync == [pc |-> "idle", snap |-> <<>>, next |-> 1, rec |-> 0, solo |-> FALSE]
NoArt == [rev |-> 0, path |-> Out(Names[1]), sized |-> FALSE, status |-> "none",
          verdict |-> "", judged |-> Out(Names[1]), seen |-> NoRow]
NoWork == [rec |-> 0, rev |-> 0, path |-> Out(Names[1])]

\* Types, and: one row per first name, the rows of a broadcast are numbered, one
\* job per revision, and what the key is bound to is a job.
CatalogueTypeOK ==
    /\ rows \in Seq(Row) /\ Len(rows) <= MaxRows
    /\ \A i, k \in DOMAIN rows : i # k =>
         /\ rows[i].key # rows[k].key
         /\ rows[i].of = rows[k].of => rows[i].index # rows[k].index
    /\ disk \subseteq Path
    /\ cap \in [on : BOOLEAN, of : Broadcasts, split : BOOLEAN, first : Bases, path : Path]
    /\ todo \in Seq([event : {"started", "stopped", "failed"}, first : Bases, path : Path,
                     of : Broadcasts])
    /\ \A i \in Ids : /\ proj[i].verdict \in {"", "ok", "invalid"}
                      /\ proj[i].rev = 0 => proj[i] = NoArt
                      /\ proj[i].seen \in Row \cup {NoRow}
    /\ \A t \in Threads : /\ sync[t].pc \in {"idle", "asked", "import", "queue"}
                          /\ sync[t].snap \in Seq(Row) /\ sync[t].rec \in {0} \cup DOMAIN rows
    /\ jobs \subseteq [rec : Ids, rev : Nat, about : Path,
                     state : {"queued", "succeeded", "failed", "blocked"}]
    /\ \A j, k \in jobs : (j.rec = k.rec /\ j.rev = k.rev) => j = k
    /\ \A i \in Ids : bound[i] # 0 => \E j \in jobs : j.rec = i /\ j.rev = bound[i]
    /\ work.rec \in {0} \cup DOMAIN rows
    /\ clean \in BOOLEAN
    /\ reused \subseteq Ids /\ raced \subseteq Ids

Init ==
    /\ rows = <<>> /\ disk = {} /\ cap = NoCap /\ todo = <<>>
    /\ proj = [i \in Ids |-> NoArt]
    /\ sync = [t \in Threads |-> NoSync]
    /\ jobs = {} /\ bound = [i \in Ids |-> 0]
    /\ work = NoWork
    /\ clean = TRUE /\ reused = {} /\ raced = {}
    /\ spent = [captures |-> 0, notes |-> 0, syncs |-> 0, faults |-> 0]

\* Whoever changes a row makes every projection that is under way an old one.
RowsChange ==
    /\ clean' = FALSE
    /\ sync' = [t \in Threads |-> [sync[t] EXCEPT !.solo = FALSE]]

-----------------------------------------------------------------------------
(* The catalogue: record_event.                                            *)

\* A row whose first name returns is taken over: it keeps its broadcast and index.
Counted(of) == Cardinality({i \in DOMAIN rows : rows[i].of = of})
SegmentIndex(of) == Counted(of) + 1

TakenOver(e) ==
    {i \in DOMAIN rows : e.event = "started" /\ rows[i].key = e.first /\ bound[i] # 0}

WithStart(e) ==
    IF \E i \in DOMAIN rows : rows[i].key = e.first
    THEN [i \in DOMAIN rows |->
            IF rows[i].key = e.first
            THEN [rows[i] EXCEPT !.path = e.path, !.status = "recording"] ELSE rows[i]]
    ELSE Append(rows, [key |-> e.first, of |-> e.of, index |-> SegmentIndex(e.of),
                       path |-> e.path, status |-> "recording", note |-> 0])

\* The end of a capture goes to the row that has its first name as file name, and
\* gives it the final one.  (Mutated: to the one that has the final name.)
IsEndOfFinal(e, i) == File(rows[i].path) = File(e.path)
IsEndOf(e, i) == File(rows[i].path) = <<e.first, 0>>

WithEnd(e) ==
    [i \in DOMAIN rows |->
        IF IsEndOf(e, i)
        THEN [rows[i] EXCEPT !.path = e.path,
                             !.status = IF e.event = "stopped" THEN "completed" ELSE "failed"]
        ELSE rows[i]]

After(e) == IF e.event = "started" THEN WithStart(e) ELSE WithEnd(e)

-----------------------------------------------------------------------------
(* The engine, on the event loop.                                          *)

LoopFree == sync[Loop].pc = "idle" /\ todo = <<>>

FreeName == Names[CHOOSE k \in DOMAIN Names :
                    /\ Out(Names[k]) \notin disk
                    /\ \A l \in 1..(k - 1) : Out(Names[l]) \in disk]

\* A capture into one file is announced when it starts; it may get no data.
Starts(of) ==
    /\ ~cap.on /\ LoopFree /\ spent.captures < MaxCaptures
    /\ LET p == Out(FreeName)
           e == [event |-> "started", first |-> FreeName, path |-> p, of |-> of] IN
         /\ cap' = [on |-> TRUE, of |-> of, split |-> FALSE, first |-> FreeName, path |-> p]
         /\ disk' \in {disk, disk \cup {p}}
         /\ reused' = reused \cup TakenOver(e)
         /\ \/ rows' = After(e) /\ RowsChange /\ spent' = [spent EXCEPT !.captures = @ + 1]
            \/ /\ spent.faults < MaxFaults
               /\ spent' = [spent EXCEPT !.captures = @ + 1, !.faults = @ + 1]
               /\ UNCHANGED <<rows, clean, sync>>
    /\ UNCHANGED <<todo, proj, jobs, bound, work, raced>>

\* A split recording has a new directory, and says nothing before it ends.
StartsSplit(of) ==
    /\ ~cap.on /\ LoopFree /\ spent.captures < MaxCaptures
    /\ FreeName = Names[1] /\ Parts # <<>>
    /\ cap' = [on |-> TRUE, of |-> of, split |-> TRUE, first |-> Parts[1],
               path |-> [base |-> Parts[1], in |-> "split", n |-> spent.captures]]
    /\ spent' = [spent EXCEPT !.captures = @ + 1]
    /\ UNCHANGED <<rows, disk, todo, proj, sync, jobs, bound, work, clean, past>>

\* moveDirectory: to the destination under a name that is free there.
FreeDest(b) == CHOOSE p \in {q \in Path : q.base = b /\ q.in = "dest"} :
                 /\ p \notin disk
                 /\ \A k \in 0..(p.n - 1) : [p EXCEPT !.n = k] \in disk

\* The engine moves the file of its capture, which capture_moved follows; a file
\* that is moved later on, by a background conversion, is not followed.
MovesFile(p) ==
    /\ Moves /\ p.in = "out" /\ LoopFree
    /\ disk' = (disk \ {p}) \cup {FreeDest(p.base)}
    /\ cap' = IF cap.on /\ cap.path = p THEN [cap EXCEPT !.path = FreeDest(p.base)] ELSE cap
    /\ UNCHANGED <<rows, todo, proj, sync, jobs, bound, work, clean, past, spent>>

\* What capture_finished sends of a file, once the process group is gone: that the
\* capture stopped, or failed if there is nothing in it; a part is announced first.
Event(what, first, p) == [event |-> what, first |-> first, path |-> p, of |-> cap.of]
Part(j) == [base |-> Parts[j], in |-> "split", n |-> cap.path.n]
PartEvent(x, empty) ==
    LET j == (x + 1) \div 2 IN
    Event(IF x % 2 = 1 THEN "started" ELSE IF j \in empty THEN "failed" ELSE "stopped",
          Parts[j], Part(j))

Finishes ==
    /\ cap.on /\ LoopFree
    /\ cap' = NoCap
    /\ \/ /\ cap.split
          /\ \E k \in 0..Len(Parts) : \E empty \in SUBSET (1..k) :
               /\ disk' = disk \cup {Part(j) : j \in 1..k}
               /\ todo' = [x \in 1..(2 * k) |-> PartEvent(x, empty)]
       \/ /\ ~cap.split
          /\ \E what \in {"stopped", "failed"} :
               /\ what = "stopped" => cap.path \in disk
               /\ todo' = <<Event(what, cap.first, cap.path)>>
          /\ UNCHANGED disk
    /\ UNCHANGED <<rows, proj, sync, jobs, bound, work, clean, past, spent>>

\* log_event and queue_validation: the catalogue has the event, or fails and is
\* not asked again; after a stop the row of the final name is to be verified.
Found(p) == {i \in DOMAIN rows' : File(rows'[i].path) = File(p)}
Logs ==
    /\ todo # <<>> /\ sync[Loop].pc = "idle"
    /\ LET e == Head(todo) IN
         /\ todo' = Tail(todo)
         /\ reused' = reused \cup TakenOver(e)
         /\ \/ rows' = After(e) /\ clean' = FALSE /\ UNCHANGED spent
            \/ /\ spent.faults < MaxFaults /\ spent' = [spent EXCEPT !.faults = @ + 1]
               /\ UNCHANGED <<rows, clean>>
         /\ sync' = [t \in Threads |->
              IF t = Loop
              THEN IF e.event = "stopped" /\ Found(e.path) # {}
                   THEN [NoSync EXCEPT !.pc = "asked", !.rec = CHOOSE i \in Found(e.path) : TRUE]
                   ELSE NoSync
              ELSE [sync[t] EXCEPT !.solo = @ /\ rows' = rows]]
    /\ UNCHANGED <<disk, cap, proj, jobs, bound, work, raced>>

-----------------------------------------------------------------------------
(* The projection: sync_legacy_catalog, and the jobs that follow it.       *)

\* A helper projects, and may then queue the verification of a recording.
HelperAsks(t) ==
    /\ sync[t].pc = "idle" /\ spent.syncs < MaxSyncs
    /\ \E i \in {0} \cup DOMAIN rows :
         sync' = [sync EXCEPT ![t] = [NoSync EXCEPT !.pc = "asked", !.rec = i]]
    /\ spent' = [spent EXCEPT !.syncs = @ + 1]
    /\ UNCHANGED <<rows, disk, cap, todo, proj, jobs, bound, work, clean, past>>

\* Threads that have still to import a row as they read it.
Importing(i) == {u \in Threads : sync[u].pc = "import" /\ i \in sync[u].next..Len(sync[u].snap)}

\* The rows are read in one transaction of the legacy database.
SyncBegins(t) ==
    /\ sync[t].pc = "asked"
    /\ raced' = IF t = Loop /\ Importing(sync[t].rec) # {} THEN raced \cup {sync[t].rec} ELSE raced
    /\ LET others == {u \in Threads \ {t} : sync[u].pc = "import"} IN
       sync' = [u \in Threads |->
                  IF u = t
                  THEN [sync[t] EXCEPT !.pc = "import", !.snap = rows, !.solo = others = {}]
                  ELSE [sync[u] EXCEPT !.solo = FALSE]]
    /\ UNCHANGED <<rows, disk, cap, todo, proj, jobs, bound, work, clean, reused, spent>>

\* A new path or size is a new content: another revision, without a verdict.
\* (Mutated: the verdict stays.)
ArtOfKeepingVerdict(a, r) ==
    [a EXCEPT !.seen = r, !.status = r.status, !.path = r.path, !.sized = FALSE,
              !.rev = IF a.rev = 0 \/ a.path # r.path \/ a.sized THEN @ + 1 ELSE @]
ArtOf(a, r) ==
    IF a.rev # 0 /\ a.path = r.path /\ ~a.sized
    THEN [a EXCEPT !.seen = r, !.status = r.status]
    ELSE [NoArt EXCEPT !.seen = r, !.status = r.status, !.path = r.path, !.rev = a.rev + 1]

\* Each row is imported in a transaction of its own; one whose digest is known is
\* skipped.  (Mutated: the digest is that of the path.)
KnownByPath(a, r) == a.rev # 0 /\ a.path = r.path
Known(a, r) == a.seen = r
Imports(t) ==
    /\ sync[t].pc = "import" /\ sync[t].next <= Len(sync[t].snap)
    /\ LET i == sync[t].next
           r == sync[t].snap[i] IN
         proj' = IF Known(proj[i], r) THEN proj ELSE [proj EXCEPT ![i] = ArtOf(@, r)]
    /\ sync' = [sync EXCEPT ![t].next = @ + 1]
    /\ UNCHANGED <<rows, disk, cap, todo, jobs, bound, work, clean, past, spent>>

SyncEnds(t) ==
    /\ sync[t].pc = "import" /\ sync[t].next > Len(sync[t].snap)
    /\ sync' = [sync EXCEPT ![t] = [NoSync EXCEPT !.rec = sync[t].rec,
                                    !.pc = IF sync[t].rec = 0 THEN "idle" ELSE "queue"]]
    /\ clean' = (clean \/ sync[t].solo)
    /\ UNCHANGED <<rows, disk, cap, todo, proj, jobs, bound, work, past, spent>>

WithJob(i, rev) ==
    IF \E j \in jobs : j.rec = i /\ j.rev = rev THEN jobs
    ELSE jobs \cup {[rec |-> i, rev |-> rev, about |-> proj[i].path, state |-> "queued"]}

\* create_job: automatically under the key of the row, which is refused when it is
\* bound to another revision; by request only what is not being recorded.
Queues(t) ==
    /\ sync[t].pc = "queue"
    /\ LET i == sync[t].rec
           rev == proj[i].rev IN
         IF t = Loop
         THEN IF bound[i] \in {0, rev}
              THEN bound' = [bound EXCEPT ![i] = rev] /\ jobs' = WithJob(i, rev)
              ELSE UNCHANGED <<bound, jobs>>
         ELSE /\ jobs' = IF proj[i].status = "recording" THEN jobs ELSE WithJob(i, rev)
              /\ UNCHANGED bound
    /\ sync' = [sync EXCEPT ![t] = NoSync]
    /\ UNCHANGED <<rows, disk, cap, todo, proj, work, clean, past, spent>>

\* The archive queue notes its progress in the row.
ArchiveNotes(i) ==
    /\ rows[i].status # "recording" /\ spent.notes < MaxNotes
    /\ rows' = [rows EXCEPT ![i].note = @ + 1]
    /\ RowsChange /\ spent' = [spent EXCEPT !.notes = @ + 1]
    /\ UNCHANGED <<disk, cap, todo, proj, jobs, bound, work, past>>

-----------------------------------------------------------------------------
(* The worker's verification, and crashes.                                 *)

JobEnds(j, state) == jobs' = (jobs \ {j}) \cup {[j EXCEPT !.state = state]}

\* The input is of the job's revision, not being recorded, and there.
Usable(a, rev) == a.status # "recording" /\ a.rev = rev

VerifyBegins(j) ==
    /\ work.rec = 0 /\ j.state = "queued"
    /\ LET a == proj[j.rec] IN
         IF Usable(a, j.rev) /\ a.path \in disk
         THEN work' = [rec |-> j.rec, rev |-> j.rev, path |-> a.path] /\ UNCHANGED jobs
         ELSE JobEnds(j, IF a.status = "recording" THEN "blocked" ELSE "failed") /\ UNCHANGED work
    /\ UNCHANGED <<rows, disk, cap, todo, proj, sync, bound, clean, past, spent>>

\* The verdict is saved with the file's size, which the rows do not have: the
\* revision moves with the first one.  A file that changes meanwhile has none.
VerifyEnds ==
    /\ work.rec # 0
    /\ \E j \in jobs :
         /\ j.rec = work.rec /\ j.rev = work.rev
         /\ IF Usable(proj[j.rec], j.rev)
            THEN \/ \E verdict \in {"ok", "invalid"} :
                      /\ proj' = [proj EXCEPT ![j.rec].verdict = verdict,
                                              ![j.rec].judged = work.path,
                                              ![j.rec].sized = TRUE,
                                              ![j.rec].rev = IF proj[j.rec].sized THEN @ ELSE @ + 1]
                      /\ JobEnds(j, IF verdict = "ok" THEN "succeeded" ELSE "failed")
                 \/ cap.on /\ cap.path = work.path /\ JobEnds(j, "failed") /\ UNCHANGED proj
            ELSE /\ JobEnds(j, IF proj[j.rec].status = "recording" THEN "blocked" ELSE "failed")
                 /\ UNCHANGED proj
    /\ work' = NoWork
    /\ UNCHANGED <<rows, disk, cap, todo, sync, bound, clean, past, spent>>

\* Threads, capture and worker go; the files that a split recording has written stay.
Crash ==
    /\ spent.faults < MaxFaults /\ spent' = [spent EXCEPT !.faults = @ + 1]
    /\ cap' = NoCap /\ todo' = <<>>
    /\ sync' = [t \in Threads |-> NoSync]
    /\ work' = NoWork
    /\ UNCHANGED <<rows, disk, proj, jobs, bound, clean, past>>

Next ==
    \/ \E of \in Broadcasts : Starts(of) \/ StartsSplit(of)
    \/ \E p \in disk : MovesFile(p)
    \/ Finishes \/ Logs
    \/ \E t \in Helpers : HelperAsks(t)
    \/ \E t \in Threads : SyncBegins(t) \/ Imports(t) \/ SyncEnds(t) \/ Queues(t)
    \/ \E i \in DOMAIN rows : ArchiveNotes(i)
    \/ \E j \in jobs : VerifyBegins(j)
    \/ VerifyEnds \/ Crash

CatalogueSpec == Init /\ [][Next]_vars

-----------------------------------------------------------------------------
(* Properties.                                                             *)

\* A projection that no other one overlapped and that read the newest rows leaves
\* every artifact with the status and the path of its row, until a row changes.
ProjectionFollows ==
    clean => \A i \in DOMAIN rows : /\ proj[i].status = rows[i].status
                                    /\ proj[i].path = rows[i].path

\* However moves, projections of old rows and verifications overlap, a verdict
\* stands beside the file that it was reached about.
VerdictIsOfItsFile == \A i \in Ids : proj[i].verdict # "" => proj[i].judged = proj[i].path

\* Types, with one row per identity, one index per row of a broadcast and one job
\* per revision, and no verdict beside a file that it was not reached about.
CatalogueInv == CatalogueTypeOK /\ VerdictIsOfItsFile

Undisturbed == spent.faults = 0

\* The job that the automatic verification of a row stands for is about the file
\* that the row has.
Settled(i) == \E j \in jobs : j.rec = i /\ j.rev = bound[i] /\ j.about = rows[i].path

\* Where no event is lost and nothing crashes, a capture that has ended is not on
\* record as going on, and the file it stored is queued for verification: unless it
\* took over a row whose key stands for an earlier one's file, or a thread imported
\* the row as it had been before.
EndedIsSettled ==
    (Undisturbed /\ ~cap.on /\ LoopFree) =>
        \A i \in DOMAIN rows :
            /\ rows[i].status # "recording"
            /\ rows[i].status = "completed" /\ i \notin reused \cup raced => Settled(i)

\* Each capture that ends with a file has it queued for verification.
EveryEndIsQueued ==
    (Undisturbed /\ ~cap.on /\ LoopFree) =>
        \A i \in DOMAIN rows : rows[i].status = "completed" => Settled(i)

\* A projection leaves a verdict alone unless the file is another one.
SyncPreservesVerdict ==
    [][\A i \in Ids : (proj[i].verdict # "" /\ proj'[i].verdict = "")
                        => proj'[i].path # proj[i].path]_vars

\* A file that was captured is in the catalogue.
EveryFileIsListed ==
    (Undisturbed /\ ~cap.on /\ LoopFree /\ ~Moves) =>
        \A p \in disk : \E i \in DOMAIN rows : rows[i].path = p
=============================================================================
