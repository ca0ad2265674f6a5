--------------------------- MODULE RecordingFiles ---------------------------
(***************************************************************************)
(* The files of one broadcast's recordings without v2: verification and    *)
(* repair (module/recording_verify.py), merging of the segments            *)
(* (module/recording_merge.py) with its row in the catalogue, and the      *)
(* retention clean-up (module/operations_common.py), each in threads of    *)
(* their own.  A step is one call of the file system or of the database,   *)
(* or a program that is run; between any two the application may die.      *)
(***************************************************************************)
EXTENDS Integers, Sequences, FiniteSets, SequencesExt

CONSTANTS
    Segments,       \* the recordings of the broadcast, in order
    Verifiers,      \* threads that verify a recording
    Mergers,        \* callers of merge_broadcast: the API, the maintenance loop
    Maintenance,    \* those that take the broadcast from the list of candidates
    Kept,           \* recordings that keep_recent_per_channel protects
    DeletesSegments,\* delete_segments_after_merge, or the request's
    MaxVerify,      \* bound: verifications
    MaxMerge,       \* bound: merges
    MaxCleanup,     \* bound: files that the retention deletes
    MaxCrashes      \* bound: deaths of the application

ASSUME FilesAssumption ==
    /\ Segments \in Seq(ToSet(Segments)) /\ Len(Segments) = Cardinality(ToSet(Segments))
    /\ Len(Segments) > 1
    /\ Maintenance \subseteq Mergers /\ Kept \subseteq ToSet(Segments)
    /\ DeletesSegments \in BOOLEAN
    /\ {MaxVerify, MaxMerge, MaxCleanup, MaxCrashes} \subseteq Nat

VARIABLES
    path,       \* the file at each recording's path
    backup,     \* the file beside it, named .unrepaired
    merged,     \* the recordings that each merged output holds
    left,       \* recordings of which a crash left a repaired copy in the folder
    valid,      \* validation_status of each recording
    row,        \* status of the broadcast in broadcast_merges
    active,     \* _ACTIVE_MERGES: who merges the broadcast
    ver,        \* the verification in each thread
    mer,        \* the merge of each caller
    cleaned,    \* history: recordings that a file was deleted of by the retention
    raced,      \* history: recordings with two repairs under way at once
    refused,    \* history: recordings whose repaired file could not take its place
    omitted,    \* history: recordings left out of an output that was published
    spent       \* history: what is bounded

files == <<path, backup, merged, left>>
rows == <<valid, row>>
faults == <<raced, refused, omitted>>
vars == <<files, rows, active, ver, mer, cleaned, faults, spent>>

Recs == ToSet(Segments)
Outputs == 1..MaxMerge
Media == {"none", "damaged", "whole"}

NoVer == [pc |-> "idle", rec |-> Segments[1], temp |-> "none"]
NoMer == [pc |-> "idle", read |-> {}, next |-> 1]

FilesTypeOK ==
    /\ path \in [Recs -> Media] /\ backup \in [Recs -> Media]
    /\ merged \in [Outputs -> SUBSET Recs]
    /\ left \subseteq Recs
    /\ valid \in [Recs -> {"", "ok", "repaired", "invalid", "missing"}]
    /\ row \in {"", "merging", "completed", "failed"}
    /\ ver \in [Verifiers -> [pc : {"idle", "remux", "clear", "aside", "in", "drop", "discard",
                                     "file", "fail"},
                              rec : Recs, temp : {"none", "whole"}]]
    /\ mer \in [Mergers -> [pc : {"idle", "listed", "mark", "read", "publish", "complete", "delete", "broken"},
                            read : SUBSET Recs, next : 1..(Len(Segments) + 1)]]
    /\ active = {m \in Mergers : mer[m].pc \notin {"idle", "listed"}}
    /\ Cardinality(active) <= 1
    /\ cleaned \subseteq Recs
    /\ raced \subseteq Recs /\ refused \subseteq Recs /\ omitted \subseteq Recs
    /\ spent \in [verify : 0..MaxVerify, merge : 0..MaxMerge, cleanup : 0..MaxCleanup,
                  crash : 0..MaxCrashes]

Init ==
    /\ path \in [Recs -> {"damaged", "whole"}]
    /\ backup = [r \in Recs |-> "none"]
    /\ merged = [i \in Outputs |-> {}] /\ left = {}
    /\ valid = [r \in Recs |-> ""] /\ row = ""
    /\ active = {}
    /\ ver = [v \in Verifiers |-> NoVer] /\ mer = [m \in Mergers |-> NoMer]
    /\ cleaned = {} /\ raced = {} /\ refused = {} /\ omitted = {}
    /\ spent = [verify |-> 0, merge |-> 0, cleanup |-> 0, crash |-> 0]

There(r) == path[r] # "none"

-----------------------------------------------------------------------------
(* Verification and repair.                                                *)

\* The threads that repair r: nothing keeps a second one from doing so.
Repairing(r) == {v \in Verifiers : ver[v].pc # "idle" /\ ver[v].rec = r}

\* verify_recording finds the file and probes it: one that cannot be played is
\* repaired if the caller wants it to.
Verify(v, r) ==
    /\ ver[v].pc = "idle" /\ spent.verify < MaxVerify
    /\ spent' = [spent EXCEPT !.verify = @ + 1]
    /\ \/ /\ ~There(r)
          /\ valid' = [valid EXCEPT ![r] = "missing"]
          /\ UNCHANGED <<ver, raced>>
       \/ /\ path[r] = "whole"
          /\ valid' = [valid EXCEPT ![r] = "ok"]
          /\ UNCHANGED <<ver, raced>>
       \/ /\ path[r] = "damaged"
          /\ \/ valid' = [valid EXCEPT ![r] = "invalid"] /\ UNCHANGED <<ver, raced>>
             \/ /\ ver' = [ver EXCEPT ![v] = [pc |-> "remux", rec |-> r, temp |-> "none"]]
                /\ raced' = IF Repairing(r) # {} THEN raced \cup {r} ELSE raced
                /\ UNCHANGED valid
    /\ UNCHANGED <<files, row, active, mer, cleaned, refused, omitted>>

To(v, pc) == ver' = [ver EXCEPT ![v].pc = pc]

\* ffmpeg copies what it can read into a file of this thread's own, which is probed.
Remux(v) ==
    /\ ver[v].pc = "remux"
    /\ \/ There(ver[v].rec) /\ ver' = [ver EXCEPT ![v].pc = "clear", ![v].temp = "whole"]
       \/ To(v, "fail")
    /\ UNCHANGED <<files, rows, active, mer, cleaned, faults, spent>>

\* An older backup goes, or cannot be removed, which ends the repair.
ClearBackup(v) ==
    /\ ver[v].pc = "clear"
    /\ \/ /\ backup' = [backup EXCEPT ![ver[v].rec] = "none"]
          /\ To(v, "aside")
       \/ /\ backup[ver[v].rec] # "none"
          /\ UNCHANGED backup /\ To(v, "discard")
    /\ UNCHANGED <<path, merged, left, rows, active, mer, cleaned, faults, spent>>

\* The file steps aside; another thread's may have done so already, or it cannot.
StepAside(v) ==
    /\ ver[v].pc = "aside"
    /\ LET r == ver[v].rec IN
         \/ /\ There(r)
            /\ backup' = [backup EXCEPT ![r] = path[r]]
            /\ path' = [path EXCEPT ![r] = "none"]
            /\ To(v, "in")
         \/ UNCHANGED <<path, backup>> /\ To(v, "discard")
    /\ UNCHANGED <<merged, left, rows, active, mer, cleaned, faults, spent>>

\* The repaired file takes the place, atomically and over what is there.
InPlace(v) ==
    /\ path' = [path EXCEPT ![ver[v].rec] = ver[v].temp]
    /\ ver' = [ver EXCEPT ![v].pc = "drop", ![v].temp = "none"]
    /\ UNCHANGED refused

\* The rename fails: the repair ends with the original still set aside.
NotInPlace(v) ==
    /\ To(v, "discard")
    /\ refused' = refused \cup {ver[v].rec}
    /\ UNCHANGED path

\* (Mutated: the backup goes before the repaired file is in its place.)
MoveInLate(v) ==
    /\ ver[v].pc = "in"
    /\ InPlace(v) \/ NotInPlace(v)
    /\ backup' = [backup EXCEPT ![ver[v].rec] = "none"]
    /\ UNCHANGED <<merged, left, rows, active, mer, cleaned, raced, omitted, spent>>

\* The move ends in either way; the backup is not touched before.
MoveIn(v) ==
    /\ ver[v].pc = "in"
    /\ InPlace(v) \/ NotInPlace(v)
    /\ UNCHANGED <<backup, merged, left, rows, active, mer, cleaned, raced, omitted, spent>>

\* A repair that failed drops its copy; one that cannot be removed stays.
Discard(v) ==
    /\ ver[v].pc = "discard"
    /\ left' = left \/ left' = left \cup {ver[v].rec}
    /\ ver' = [ver EXCEPT ![v].pc = "fail", ![v].temp = "none"]
    /\ UNCHANGED <<path, backup, merged, rows, active, mer, cleaned, faults, spent>>

\* The backup goes, or stays if it cannot be removed.
DropBackup(v) ==
    /\ ver[v].pc = "drop"
    /\ backup' = [backup EXCEPT ![ver[v].rec] = "none"] \/ UNCHANGED backup
    /\ To(v, "file")
    /\ UNCHANGED <<path, merged, left, rows, active, mer, cleaned, faults, spent>>

\* The verdict; without a file to measure the call ends in an error instead.
FileVerdict(v) ==
    /\ ver[v].pc \in {"file", "fail"}
    /\ LET r == ver[v].rec
           verdict == IF ver[v].pc = "file" THEN "repaired" ELSE "invalid" IN
         valid' = IF There(r) THEN [valid EXCEPT ![r] = verdict] ELSE valid
    /\ ver' = [ver EXCEPT ![v] = NoVer]
    /\ UNCHANGED <<files, row, active, mer, cleaned, faults, spent>>

-----------------------------------------------------------------------------
(* Merging.                                                                *)

\* A caller of merge_broadcast goes on to its next part, or is done.
Goes(m, pc) == mer' = [mer EXCEPT ![m] = [NoMer EXCEPT !.pc = pc]]

\* The maintenance loop lists broadcasts whose merge is neither under way nor done.
ListCandidate(m) ==
    /\ m \in Maintenance /\ mer[m].pc = "idle"
    /\ row \notin {"merging", "completed"} /\ spent.merge < MaxMerge
    /\ Goes(m, "listed")
    /\ UNCHANGED <<files, rows, active, ver, cleaned, faults, spent>>

\* merge_broadcast admits one caller; every segment must be there.
Admit(m) ==
    /\ mer[m].pc = IF m \in Maintenance THEN "listed" ELSE "idle"
    /\ spent.merge < MaxMerge
    /\ active = {}
    /\ \/ /\ \A r \in Recs : There(r)
          /\ active' = {m}
          /\ Goes(m, "mark")
          /\ spent' = [spent EXCEPT !.merge = @ + 1]
       \/ /\ m \in Maintenance
          /\ \E r \in Recs : ~There(r)
          /\ Goes(m, "idle")
          /\ UNCHANGED <<active, spent>>
    /\ UNCHANGED <<files, rows, ver, cleaned, faults>>

\* A candidate that another caller merges is left to it.
Refuse(m) ==
    /\ mer[m].pc = "listed" /\ active # {}
    /\ Goes(m, "idle")
    /\ UNCHANGED <<files, rows, active, ver, cleaned, faults, spent>>

MarkMerging(m) ==
    /\ mer[m].pc = "mark"
    /\ row' = "merging"
    /\ Goes(m, "read")
    /\ UNCHANGED <<files, valid, active, ver, cleaned, faults, spent>>

\* Into a directory of its own ffmpeg concatenates the segments, one by one.  A
\* segment that it cannot read, or only in part, fails the merge, or is left out
\* by an ffmpeg that ends well all the same: alone, or with all that follow.
LeftOut(m, r) ==
    \E n \in {mer[m].next + 1, Len(Segments) + 1} :
      \E taken \in IF There(r) THEN {{}, {r}} ELSE {{}} :
        mer' = [mer EXCEPT ![m].next = n, ![m].read = @ \cup taken]
ReadSegment(m) ==
    /\ mer[m].pc = "read" /\ mer[m].next <= Len(Segments)
    /\ LET r == Segments[mer[m].next] IN
         \/ /\ There(r)
            /\ mer' = [mer EXCEPT ![m].next = @ + 1, ![m].read = @ \cup {r}]
         \/ /\ path[r] # "whole"
            /\ Goes(m, "broken") \/ LeftOut(m, r)
    /\ UNCHANGED <<files, rows, active, ver, cleaned, faults, spent>>

\* The output must not be empty and must last; it is then linked to the first
\* free name.  A file system without links fails the merge.
FirstFree == CHOOSE i \in Outputs : merged[i] = {} /\ \A k \in 1..(i - 1) : merged[k] # {}
Publish(m) ==
    /\ mer[m].pc = "read" /\ mer[m].next > Len(Segments)
    /\ \/ /\ mer[m].read # {}
          /\ merged' = [merged EXCEPT ![FirstFree] = mer[m].read]
          /\ omitted' = omitted \cup (Recs \ mer[m].read)
          /\ Goes(m, "complete")
       \/ /\ Goes(m, "broken")
          /\ UNCHANGED <<merged, omitted>>
    /\ UNCHANGED <<path, backup, left, rows, active, ver, cleaned, raced, refused, spent>>

\* The caller leaves _ACTIVE_MERGES however it ends.
Released(m) == active \ {m}

\* The row is completed; if that fails the merge does, and its output stays.
CompleteMerge(m) ==
    /\ mer[m].pc = "complete"
    /\ \/ /\ row' = "completed"
          /\ Goes(m, IF DeletesSegments THEN "delete" ELSE "idle")
          /\ active' = IF DeletesSegments THEN active ELSE Released(m)
       \/ /\ Goes(m, "broken")
          /\ UNCHANGED <<row, active>>
    /\ UNCHANGED <<files, valid, ver, cleaned, faults, spent>>

\* With delete_segments the paths go one by one; what cannot be removed stays.
DeleteSegment(m) ==
    /\ mer[m].pc = "delete" /\ mer[m].next <= Len(Segments)
    /\ \/ path' = [path EXCEPT ![Segments[mer[m].next]] = "none"]
       \/ UNCHANGED path
    /\ mer' = [mer EXCEPT ![m].next = @ + 1]
    /\ UNCHANGED <<backup, merged, left, rows, active, ver, cleaned, faults, spent>>

EndMerge(m) ==
    /\ mer[m].pc = "delete" /\ mer[m].next > Len(Segments)
    /\ Goes(m, "idle")
    /\ active' = Released(m)
    /\ UNCHANGED <<files, rows, ver, cleaned, faults, spent>>

FailMerge(m) ==
    /\ mer[m].pc = "broken"
    /\ row' = "failed"
    /\ Goes(m, "idle")
    /\ active' = Released(m)
    /\ UNCHANGED <<files, valid, ver, cleaned, faults, spent>>

-----------------------------------------------------------------------------
(* Retention and crashes.                                                  *)

\* run_cleanup deletes videos that are old or too many, but none at the path of
\* a protected recording; a repaired copy that a crash left is a video too.
Cleans ==
    /\ spent.cleanup < MaxCleanup
    /\ spent' = [spent EXCEPT !.cleanup = @ + 1]
    /\ \/ \E r \in Recs \ Kept :
            /\ There(r)
            /\ path' = [path EXCEPT ![r] = "none"]
            /\ cleaned' = cleaned \cup {r}
            /\ UNCHANGED <<merged, left>>
       \/ \E i \in Outputs :
            /\ merged[i] # {}
            /\ merged' = [merged EXCEPT ![i] = {}]
            /\ cleaned' = cleaned \cup merged[i]
            /\ UNCHANGED <<path, left>>
       \/ \E r \in left :
            /\ left' = left \ {r}
            /\ cleaned' = cleaned \cup {r}
            /\ UNCHANGED <<path, merged>>
    /\ UNCHANGED <<backup, rows, active, ver, mer, faults>>

\* The threads go with the application; their temporary files stay.
Crash ==
    /\ spent.crash < MaxCrashes
    /\ spent' = [spent EXCEPT !.crash = @ + 1]
    /\ left' = left \cup {ver[v].rec : v \in {w \in Verifiers : ver[w].temp = "whole"}}
    /\ ver' = [v \in Verifiers |-> NoVer] /\ mer' = [m \in Mergers |-> NoMer]
    /\ active' = {}
    /\ UNCHANGED <<path, backup, merged, rows, cleaned, faults>>

Next ==
    \/ \E v \in Verifiers :
         \/ \E r \in Recs : Verify(v, r)
         \/ Remux(v) \/ ClearBackup(v) \/ StepAside(v) \/ MoveIn(v) \/ DropBackup(v)
         \/ Discard(v) \/ FileVerdict(v)
    \/ \E m \in Mergers :
         \/ ListCandidate(m) \/ Admit(m) \/ Refuse(m) \/ MarkMerging(m) \/ ReadSegment(m)
         \/ Publish(m) \/ CompleteMerge(m) \/ DeleteSegment(m) \/ EndMerge(m) \/ FailMerge(m)
    \/ Cleans \/ Crash

FilesSpec == Init /\ [][Next]_vars

-----------------------------------------------------------------------------
(* Properties.                                                             *)

Held(r) ==
    \/ There(r) \/ backup[r] # "none" \/ r \in left
    \/ \E v \in Verifiers : ver[v].rec = r /\ ver[v].temp = "whole"
    \/ \E i \in Outputs : r \in merged[i]

\* However repairs, merges, failing calls and crashes interleave, some file holds
\* what a recording recorded, unless the retention deleted one that did.  There are
\* two exceptions, each named by what must come together: two repairs of one
\* recording, one of which cannot put its copy in place; and a merge that leaves
\* the segment out and is to delete the segments.  No other interleaving, and no
\* single failure in a repair, loses media.
MediaSurvives ==
    \A r \in Recs : \/ Held(r) \/ r \in cleaned
                    \/ r \in raced \cap refused
                    \/ DeletesSegments /\ r \in omitted

\* Types, and no recorded media is lost between the files that stand for it.
FilesInv == FilesTypeOK /\ MediaSurvives

\* A repair loses nothing, whoever else repairs and whatever fails.
RepairLosesNothing ==
    \A r \in Recs : Held(r) \/ r \in cleaned \/ (DeletesSegments /\ r \in omitted)

\* A broadcast that is on record as merged has an output with every segment in it.
CompletedMergeIsWhole ==
    row = "completed" => \/ \E i \in Outputs : merged[i] = Recs
                         \/ cleaned # {}

\* The retention leaves the recordings it is told to keep.
KeptSurvives == \A r \in Kept : Held(r)

\* A merge that nobody works on is not on record as under way.
MergingIsUnderWay == row = "merging" => active # {}
=============================================================================
