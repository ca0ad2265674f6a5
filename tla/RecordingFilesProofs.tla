------------------------ MODULE RecordingFilesProofs ------------------------
(***************************************************************************)
(* Machine-checked proofs about RecordingFiles, for any number of          *)
(* segments, verifying threads, merging callers and deaths of the          *)
(* application, whatever ffmpeg leaves out and whichever call fails.  The  *)
(* argument follows each recording along two lines.  As long as no thread  *)
(* failed to put its copy in place, a recording whose file stepped aside   *)
(* has a thread that holds the copy.  As long as no two threads repaired   *)
(* it at once, the file that stepped aside is in the backup, and nobody is *)
(* about to remove it.  A loss needs both to go wrong.  And a merge that   *)
(* deletes segments deletes only what its output holds or left out.        *)
(***************************************************************************)
EXTENDS RecordingFiles, FiniteSetTheorems, TLAPS

\* What no step takes back: the recording is in an output, or left out of one that
\* may cost its segment, or the retention deleted a file that held it.
Merged(r) ==
    \/ r \in cleaned
    \/ DeletesSegments /\ r \in omitted
    \/ \E i \in Outputs : r \in merged[i]

\* A crash or a failed repair left a copy, or the recording is merged.
Safe(r) == r \in left \/ Merged(r)

\* A repaired copy is about to take the place of r's file, which has gone.
MovingIn(r) == \E v \in Verifiers : ver[v].rec = r /\ ver[v].pc = "in"

\* The backup holds r, and no thread is about to remove or replace it.
Aside(r) ==
    /\ backup[r] # "none"
    /\ \A v \in Verifiers : ver[v].rec = r => ver[v].pc \notin {"clear", "aside", "drop"}

\* The first line: a copy stands for a file that stepped aside.
CopyStands == \A r \in Recs : r \notin refused => Safe(r) \/ There(r) \/ MovingIn(r)

\* The second line: the backup does.
BackupStands == \A r \in Recs : r \notin raced => Safe(r) \/ There(r) \/ Aside(r)

OneRepairs ==
    \A r \in Recs : r \notin raced => \A v, w \in Repairing(r) : v = w

CopiesAreMade ==
    \A v \in Verifiers : ver[v].pc \in {"clear", "aside", "in"} => ver[v].temp = "whole"

\* A merge that is about to delete the segments has no other to lose.
MergesAreKept ==
    \A m \in Mergers :
        /\ mer[m].pc = "delete" => DeletesSegments
        /\ mer[m].pc \in {"complete", "delete"} /\ DeletesSegments => \A r \in Recs : Merged(r)

\* A merge that is to publish finds a name that is free.
Names == {i \in Outputs : merged[i] # {}}
NamesAreLeft ==
    /\ \A i \in Names : i <= spent.merge
    /\ \A m \in Mergers :
          mer[m].pc \in {"mark", "read"} =>
                spent.merge \in Outputs /\ spent.merge \notin Names

FilesIInv ==
    /\ FilesTypeOK
    /\ \A m, n \in active : m = n
    /\ CopyStands /\ BackupStands
    /\ OneRepairs
    /\ CopiesAreMade
    /\ MergesAreKept
    /\ NamesAreLeft

-----------------------------------------------------------------------------
VerType == [pc : {"idle", "remux", "clear", "aside", "in", "drop", "discard", "file", "fail"},
            rec : Recs, temp : {"none", "whole"}]
MerType == [pc : {"idle", "listed", "mark", "read", "publish", "complete", "delete", "broken"},
            read : SUBSET Recs, next : 1..(Len(Segments) + 1)]
SpentType == [verify : 0..MaxVerify, merge : 0..MaxMerge, cleanup : 0..MaxCleanup,
              crash : 0..MaxCrashes]
ValidType == {"", "ok", "repaired", "invalid", "missing"}
RowType == {"", "merging", "completed", "failed"}

Busy(m) == mer[m].pc \notin {"idle", "listed"}

\* The number of callers that merge, as the type invariant has it.
LEMMA OneMerges ==
  ASSUME NEW S, \A x, y \in S : x = y
  PROVE  Cardinality(S) <= 1
<1>1. CASE S = {}
  BY <1>1, FS_EmptySet
<1>2. CASE S # {}
  <2>1. PICK x \in S : S = {x}
    BY <1>2
  <2>2. Cardinality({x}) = 1
    BY FS_Singleton
  <2>3. QED
    BY <2>1, <2>2
<1>3. QED
  BY <1>1, <1>2

LEMMA SegmentsAre ==
  /\ Len(Segments) \in Nat /\ Len(Segments) > 1
  /\ \A k \in 1..Len(Segments) : Segments[k] \in Recs
  /\ NoVer \in VerType /\ NoVer.pc = "idle" /\ NoVer.temp = "none"
  /\ Outputs \subseteq Nat /\ Maintenance \subseteq Mergers
  /\ MaxVerify \in Nat /\ MaxMerge \in Nat /\ MaxCleanup \in Nat /\ MaxCrashes \in Nat
<1>1. Segments \in Seq(Recs) /\ Len(Segments) \in Nat /\ Len(Segments) > 1
      /\ Recs = {Segments[k] : k \in DOMAIN Segments}
  BY FilesAssumption DEF Recs, ToSet
<1>2. DOMAIN Segments = 1..Len(Segments)
  BY <1>1
<1>3. \A k \in 1..Len(Segments) : Segments[k] \in Recs
  BY <1>1, <1>2
<1>4. NoVer \in VerType /\ NoVer.pc = "idle" /\ NoVer.temp = "none"
  BY <1>1, <1>3 DEF NoVer, VerType
<1>5. QED
  BY <1>1, <1>3, <1>4, FilesAssumption DEF Outputs

\* A merge that goes on to a part holds no state but that.
LEMMA PartsAre ==
  ASSUME NEW pc \in {"idle", "listed", "mark", "read", "publish", "complete", "delete", "broken"}
  PROVE  [NoMer EXCEPT !.pc = pc] \in MerType /\ [NoMer EXCEPT !.pc = pc].pc = pc
<1> DEFINE n == 1
<1>1. n \in 1..(Len(Segments) + 1)
  BY SegmentsAre
<1>2. NoMer = [pc |-> "idle", read |-> {}, next |-> n]
  BY DEF NoMer
<1> HIDE DEF n
<1>3. QED
  BY <1>1, <1>2 DEF MerType

\* The types, taken apart.
LEMMA TypesAre ==
  ASSUME FilesIInv
  PROVE  /\ path \in [Recs -> Media] /\ backup \in [Recs -> Media]
         /\ merged \in [Outputs -> SUBSET Recs] /\ left \subseteq Recs
         /\ valid \in [Recs -> ValidType] /\ row \in RowType
         /\ ver \in [Verifiers -> VerType] /\ mer \in [Mergers -> MerType]
         /\ active = {m \in Mergers : Busy(m)}
         /\ cleaned \subseteq Recs /\ raced \subseteq Recs
         /\ refused \subseteq Recs /\ omitted \subseteq Recs
         /\ spent \in SpentType
BY DEF FilesIInv, FilesTypeOK, VerType, MerType, ValidType, RowType, SpentType, Busy

-----------------------------------------------------------------------------
(***************************************************************************)
(* Verification and repair.                                                *)
(***************************************************************************)

\* A step that leaves the merges alone.
LEMMA VerifyingPreserves ==
  ASSUME FilesIInv, UNCHANGED <<merged, row, active, mer, cleaned, omitted>>,
         path' \in [Recs -> Media], backup' \in [Recs -> Media], left' \subseteq Recs,
         valid' \in [Recs -> ValidType], ver' \in [Verifiers -> VerType],
         raced' \subseteq Recs, refused' \subseteq Recs,
         CopiesAreMade', OneRepairs', CopyStands', BackupStands',
         spent' = spent \/ (\E n \in 0..MaxVerify : spent' = [spent EXCEPT !.verify = n])
  PROVE  FilesIInv'
<1>1. FilesTypeOK /\ spent \in SpentType
  BY TypesAre DEF FilesIInv
<1>2. spent'.merge = spent.merge /\ spent' \in SpentType
  BY <1>1 DEF SpentType
<1>3. FilesTypeOK'
  BY <1>1, <1>2 DEF FilesTypeOK, VerType, ValidType, SpentType
<1>4. Names' = Names /\ \A r : Merged(r)' <=> Merged(r)
  BY DEF Names, Merged
<1>5. NamesAreLeft' /\ MergesAreKept'
  BY <1>2, <1>4 DEF FilesIInv, NamesAreLeft, MergesAreKept
<1>6. QED
  BY <1>3, <1>5 DEF FilesIInv

\* A step of one repair that moves no file: it may remove the backup when the
\* thread was about to, and goes on to remove one only if the file is there.
LEMMA RepairPreserves ==
  ASSUME FilesIInv, NEW v \in Verifiers, NEW w \in VerType, ver' = [ver EXCEPT ![v] = w],
         UNCHANGED <<path, merged, row, active, mer, cleaned, raced, refused, omitted, spent>>,
         left \subseteq left', left' \subseteq Recs, valid' \in [Recs -> ValidType],
         backup' \in [Recs -> Media], ver[v].pc \notin {"idle", "in"}, w.pc # "in",
         w.pc \in {"clear", "aside"} => w.temp = "whole",
         w.pc = "idle" \/ w.rec = ver[v].rec,
         w.pc \in {"clear", "aside", "drop"} =>
             w.rec \in raced \/ Safe(w.rec) \/ There(w.rec),
         \A r \in Recs : \/ backup'[r] = backup[r]
                         \/ ver[v].rec = r /\ ver[v].pc \in {"clear", "drop"}
  PROVE  FilesIInv'
<1>1. ver \in [Verifiers -> VerType] /\ path \in [Recs -> Media]
      /\ raced \subseteq Recs /\ refused \subseteq Recs
  BY TypesAre
<1>2. /\ ver' \in [Verifiers -> VerType] /\ ver'[v] = w
      /\ \A u \in Verifiers : u # v => ver'[u] = ver[u]
  BY <1>1
<1>3. CopiesAreMade'
  BY <1>2 DEF FilesIInv, CopiesAreMade
<1>4. \A r \in Recs : Repairing(r)' \subseteq Repairing(r)
  BY <1>2 DEF Repairing
<1>5. OneRepairs'
  BY <1>4 DEF FilesIInv, OneRepairs
<1>6. \A r \in Recs : (Safe(r) => Safe(r)') /\ (There(r)' <=> There(r))
  BY DEF Safe, Merged, There
<1>7. CopyStands'
  <2>1. \A r \in Recs : MovingIn(r) => MovingIn(r)'
    BY <1>2 DEF MovingIn
  <2>2. QED
    BY <1>6, <2>1 DEF FilesIInv, CopyStands
<1>8. BackupStands'
  <2> SUFFICES ASSUME NEW r \in Recs, r \notin raced, Aside(r), ~There(r), ~Safe(r)
               PROVE  Aside(r)'
    BY <1>6 DEF FilesIInv, BackupStands
  <2>1. backup'[r] = backup[r]
    BY DEF Aside
  <2>2. \A u \in Verifiers : ver'[u].rec = r => ver'[u].pc \notin {"clear", "aside", "drop"}
    BY <1>2 DEF Aside
  <2>3. QED
    BY <2>1, <2>2 DEF Aside
<1>9. QED
  BY <1>1, <1>2, <1>3, <1>5, <1>7, <1>8, VerifyingPreserves

\* A thread begins a verification, alone or beside another of the same recording.
LEMMA VerifyPreserves ==
  ASSUME FilesIInv, NEW v \in Verifiers, NEW r \in Recs, Verify(v, r)
  PROVE  FilesIInv'
<1>1. /\ ver \in [Verifiers -> VerType] /\ valid \in [Recs -> ValidType]
      /\ path \in [Recs -> Media] /\ backup \in [Recs -> Media]
      /\ left \subseteq Recs /\ raced \subseteq Recs /\ refused \subseteq Recs
      /\ spent \in SpentType
  BY TypesAre
<1>2. UNCHANGED <<path, backup, left, merged, row, active, mer, cleaned, refused, omitted>>
      /\ ver[v].pc = "idle" /\ spent.verify < MaxVerify
  BY DEF Verify, files
<1>3. \E n \in 0..MaxVerify : spent' = [spent EXCEPT !.verify = n]
  <2>1. spent.verify \in 0..MaxVerify
    BY <1>1 DEF SpentType
  <2>2. spent.verify + 1 \in 0..MaxVerify
    BY <1>2, <2>1, SegmentsAre
  <2>3. spent' = [spent EXCEPT !.verify = spent.verify + 1]
    BY DEF Verify
  <2>4. QED
    BY <2>2, <2>3
<1>4. valid' \in [Recs -> ValidType]
  <2>1. valid' \in {valid, [valid EXCEPT ![r] = "missing"], [valid EXCEPT ![r] = "ok"],
                    [valid EXCEPT ![r] = "invalid"]}
    BY DEF Verify
  <2>2. QED
    BY <1>1, <2>1 DEF ValidType
<1> DEFINE w == [pc |-> "remux", rec |-> r, temp |-> "none"]
<1>5. w \in VerType /\ w.pc = "remux" /\ w.rec = r
  BY DEF VerType
<1>6. \/ ver' = ver /\ raced' = raced
      \/ /\ ver' = [ver EXCEPT ![v] = w]
         /\ raced' = IF Repairing(r) # {} THEN raced \cup {r} ELSE raced
  BY DEF Verify
<1> HIDE DEF w
<1>7. /\ \A s \in Recs : (Safe(s)' <=> Safe(s)) /\ (There(s)' <=> There(s))
      /\ raced' \subseteq Recs /\ raced \subseteq raced'
  BY <1>1, <1>2, <1>6 DEF Safe, Merged, There
<1>8. CASE ver' = ver /\ raced' = raced
  <2>1. CopiesAreMade' /\ OneRepairs' /\ CopyStands' /\ BackupStands'
    BY <1>2, <1>7, <1>8
    DEF FilesIInv, CopiesAreMade, OneRepairs, CopyStands, BackupStands, Repairing, MovingIn, Aside
  <2>2. QED
    BY <1>1, <1>2, <1>3, <1>4, <1>8, <2>1, VerifyingPreserves
<1>9. CASE /\ ver' = [ver EXCEPT ![v] = w]
           /\ raced' = IF Repairing(r) # {} THEN raced \cup {r} ELSE raced
  <2>1. /\ ver' \in [Verifiers -> VerType] /\ ver'[v] = w
        /\ \A u \in Verifiers : u # v => ver'[u] = ver[u]
    BY <1>1, <1>5, <1>9
  <2>2. CopiesAreMade'
    BY <1>5, <2>1 DEF FilesIInv, CopiesAreMade
  <2>3. OneRepairs'
    <3> SUFFICES ASSUME NEW s \in Recs, s \notin raced' PROVE \A x, y \in Repairing(s)' : x = y
      BY DEF OneRepairs
    <3>1. s \notin raced /\ \A x, y \in Repairing(s) : x = y
      BY <1>7 DEF FilesIInv, OneRepairs
    <3>2. CASE s = r
      <4>1. Repairing(r) = {}
        BY <1>9, <3>2
      <4>2. Repairing(r)' \subseteq {v}
        BY <2>1, <4>1 DEF Repairing
      <4>3. QED
        BY <3>2, <4>2
    <3>3. CASE s # r
      <4>1. Repairing(s)' \subseteq Repairing(s)
        BY <1>5, <2>1, <3>3 DEF Repairing
      <4>2. QED
        BY <3>1, <4>1
    <3>4. QED
      BY <3>2, <3>3
  <2>4. \A s \in Recs : (MovingIn(s) => MovingIn(s)') /\ (Aside(s) => Aside(s)')
    <3>1. \A s \in Recs : MovingIn(s) => MovingIn(s)'
      BY <1>2, <2>1 DEF MovingIn
    <3>2. \A s \in Recs : Aside(s) => Aside(s)'
      BY <1>2, <1>5, <2>1 DEF Aside
    <3>3. QED
      BY <3>1, <3>2
  <2>5. CopyStands' /\ BackupStands'
    BY <1>2, <1>7, <2>4 DEF FilesIInv, CopyStands, BackupStands
  <2>6. QED
    BY <1>1, <1>2, <1>3, <1>4, <1>7, <2>1, <2>2, <2>3, <2>5, VerifyingPreserves
<1>10. QED
  BY <1>6, <1>8, <1>9

\* The steps that move no file.
LEMMA QuietRepairPreserves ==
  ASSUME FilesIInv, NEW v \in Verifiers,
         Remux(v) \/ ClearBackup(v) \/ DropBackup(v) \/ Discard(v) \/ FileVerdict(v)
             \/ (ver[v].pc = "aside" /\ To(v, "discard")
                    /\ UNCHANGED <<files, rows, active, mer, cleaned, faults, spent>>)
  PROVE  FilesIInv'
<1>1. /\ ver \in [Verifiers -> VerType] /\ valid \in [Recs -> ValidType]
      /\ path \in [Recs -> Media] /\ backup \in [Recs -> Media] /\ left \subseteq Recs
  BY TypesAre
<1>2. ver[v] \in VerType /\ ver[v].rec \in Recs
  BY <1>1 DEF VerType
<1>3. CASE FileVerdict(v)
  <2>1. /\ ver' = [ver EXCEPT ![v] = NoVer] /\ ver[v].pc \notin {"idle", "in"}
        /\ UNCHANGED <<files, row, active, mer, cleaned, faults, spent>>
    BY <1>3 DEF FileVerdict
  <2>2. valid' \in [Recs -> ValidType]
    <3>1. valid' = valid \/ \E x \in ValidType : valid' = [valid EXCEPT ![ver[v].rec] = x]
      BY <1>3 DEF FileVerdict, ValidType
    <3>2. QED
      BY <1>1, <3>1
  <2>3. QED
    BY <1>1, <2>1, <2>2, SegmentsAre, RepairPreserves DEF files, faults
<1>4. ASSUME NEW pc \in {"clear", "aside", "discard", "file", "fail"}, NEW t \in {"none", "whole"},
             ver' = [ver EXCEPT ![v].pc = pc, ![v].temp = t],
             UNCHANGED <<path, merged, rows, active, mer, cleaned, faults, spent>>,
             left \subseteq left', left' \subseteq Recs, ver[v].pc \notin {"idle", "in"},
             pc \in {"clear", "aside"} => t = "whole",
             pc \in {"clear", "aside"} =>
                 ver[v].rec \in raced \/ Safe(ver[v].rec) \/ There(ver[v].rec),
             backup' = backup \/ (/\ backup' = [backup EXCEPT ![ver[v].rec] = "none"]
                                  /\ ver[v].pc \in {"clear", "drop"})
      PROVE  FilesIInv'
  <2> DEFINE w == [ver[v] EXCEPT !.pc = pc, !.temp = t]
  <2>1. w \in VerType /\ w.pc = pc /\ w.temp = t /\ w.rec = ver[v].rec
    BY <1>2 DEF VerType
  <2>2. ver' = [ver EXCEPT ![v] = w]
    BY <1>1, <1>4
  <2>3. backup' \in [Recs -> Media]
        /\ \A r \in Recs : \/ backup'[r] = backup[r]
                           \/ ver[v].rec = r /\ ver[v].pc \in {"clear", "drop"}
    BY <1>1, <1>2, <1>4 DEF Media
  <2> HIDE DEF w
  <2>4. QED
    BY <1>1, <1>4, <2>1, <2>2, <2>3, RepairPreserves DEF rows, faults
<1>5. /\ ver[v].temp \in {"none", "whole"}
      /\ ver[v].pc \in {"clear", "aside"} => ver[v].temp = "whole"
  BY <1>2 DEF VerType, FilesIInv, CopiesAreMade
<1>6. ASSUME NEW pc \in {"aside", "discard", "file", "fail"}, To(v, pc),
             UNCHANGED <<path, merged, left, rows, active, mer, cleaned, faults, spent>>,
             ver[v].pc \notin {"idle", "in"},
             pc = "aside" => ver[v].pc = "clear" /\
                 (ver[v].rec \in raced \/ Safe(ver[v].rec) \/ There(ver[v].rec)),
             backup' = backup \/ (/\ backup' = [backup EXCEPT ![ver[v].rec] = "none"]
                                  /\ ver[v].pc \in {"clear", "drop"})
      PROVE  FilesIInv'
  <2>1. PICK t \in {"none", "whole"} : t = ver[v].temp
    BY <1>5
  <2>2. ver' = [ver EXCEPT ![v].pc = pc, ![v].temp = t]
    BY <1>1, <1>2, <1>6, <2>1 DEF To, VerType
  <2>3. pc \in {"clear", "aside"} => t = "whole"
    BY <1>5, <1>6, <2>1
  <2>4. QED
    BY <1>1, <1>4, <1>6, <2>2, <2>3
<1>7. CASE Remux(v)
  <2>1. UNCHANGED <<files, rows, active, mer, cleaned, faults, spent>> /\ ver[v].pc = "remux"
    BY <1>7 DEF Remux
  <2>2. CASE There(ver[v].rec) /\ ver' = [ver EXCEPT ![v].pc = "clear", ![v].temp = "whole"]
    BY <1>1, <1>4, <2>1, <2>2 DEF files
  <2>3. CASE To(v, "fail")
    BY <1>6, <2>1, <2>3 DEF files
  <2>4. QED
    BY <1>7, <2>2, <2>3 DEF Remux
<1>8. CASE ClearBackup(v)
  <2>1. /\ UNCHANGED <<path, merged, left, rows, active, mer, cleaned, faults, spent>>
        /\ ver[v].pc = "clear"
    BY <1>8 DEF ClearBackup
  <2>2. ver[v].rec \in raced \/ Safe(ver[v].rec) \/ There(ver[v].rec)
    BY <1>2, <2>1 DEF FilesIInv, BackupStands, Aside
  <2>3. CASE backup' = [backup EXCEPT ![ver[v].rec] = "none"] /\ To(v, "aside")
    BY <1>6, <2>1, <2>2, <2>3
  <2>4. CASE backup' = backup /\ To(v, "discard")
    BY <1>6, <2>1, <2>4
  <2>5. QED
    BY <1>8, <2>3, <2>4 DEF ClearBackup
<1>9. CASE DropBackup(v)
  <2>1. /\ UNCHANGED <<path, merged, left, rows, active, mer, cleaned, faults, spent>>
        /\ ver[v].pc = "drop" /\ To(v, "file")
        /\ backup' = [backup EXCEPT ![ver[v].rec] = "none"] \/ backup' = backup
    BY <1>9 DEF DropBackup
  <2>2. QED
    BY <1>6, <2>1
<1>10. CASE Discard(v)
  <2>1. /\ UNCHANGED <<path, backup, merged, rows, active, mer, cleaned, faults, spent>>
        /\ ver[v].pc = "discard" /\ ver' = [ver EXCEPT ![v].pc = "fail", ![v].temp = "none"]
        /\ left \subseteq left' /\ left' \subseteq Recs
    BY <1>1, <1>2, <1>10 DEF Discard
  <2>2. QED
    BY <1>4, <2>1
<1>11. CASE /\ ver[v].pc = "aside" /\ To(v, "discard")
            /\ UNCHANGED <<files, rows, active, mer, cleaned, faults, spent>>
  BY <1>6, <1>11 DEF files
<1>12. QED
  BY <1>3, <1>7, <1>8, <1>9, <1>10, <1>11

\* The file steps aside: the copy and the backup both stand for it.
LEMMA StepAsidePreserves ==
  ASSUME FilesIInv, NEW v \in Verifiers, StepAside(v)
  PROVE  FilesIInv'
<1>1. /\ ver \in [Verifiers -> VerType] /\ path \in [Recs -> Media] /\ backup \in [Recs -> Media]
      /\ valid \in [Recs -> ValidType] /\ left \subseteq Recs
      /\ raced \subseteq Recs /\ refused \subseteq Recs
  BY TypesAre
<1>2. PICK r \in Recs : r = ver[v].rec
  BY <1>1 DEF VerType
<1>3. /\ UNCHANGED <<merged, left, valid, row, active, mer, cleaned, raced, refused, omitted, spent>>
      /\ ver[v].pc = "aside" /\ ver[v].temp = "whole"
  BY DEF StepAside, rows, faults, FilesIInv, CopiesAreMade
<1>4. CASE UNCHANGED <<path, backup>> /\ To(v, "discard")
  BY <1>3, <1>4, QuietRepairPreserves DEF files, rows, faults
<1>5. CASE /\ There(r)
           /\ backup' = [backup EXCEPT ![r] = path[r]] /\ path' = [path EXCEPT ![r] = "none"]
           /\ To(v, "in")
  <2> DEFINE w == [ver[v] EXCEPT !.pc = "in"]
  <2>1. w \in VerType /\ w.pc = "in" /\ w.temp = "whole" /\ w.rec = r
    BY <1>1, <1>2, <1>3 DEF VerType
  <2>2. ver' = [ver EXCEPT ![v] = w]
    BY <1>1, <1>5 DEF To
  <2> HIDE DEF w
  <2>3. /\ ver' \in [Verifiers -> VerType] /\ ver'[v] = w
        /\ \A u \in Verifiers : u # v => ver'[u] = ver[u]
    BY <1>1, <2>1, <2>2
  <2>4. /\ path' \in [Recs -> Media] /\ backup' \in [Recs -> Media] /\ backup'[r] # "none"
        /\ \A s \in Recs : s # r => path'[s] = path[s] /\ backup'[s] = backup[s]
    BY <1>1, <1>5 DEF Media, There
  <2>5. CopiesAreMade'
    BY <2>1, <2>3 DEF FilesIInv, CopiesAreMade
  <2>6. OneRepairs'
    <3>1. \A s \in Recs : Repairing(s)' = Repairing(s)
      BY <1>2, <1>3, <2>1, <2>3 DEF Repairing
    <3>2. QED
      BY <1>3, <3>1 DEF FilesIInv, OneRepairs
  <2>7. \A s \in Recs : (Safe(s)' <=> Safe(s)) /\ (s # r => (There(s)' <=> There(s)))
    BY <1>3, <2>4 DEF Safe, Merged, There
  <2>8. CopyStands'
    <3>1. MovingIn(r)' /\ \A s \in Recs : MovingIn(s) => MovingIn(s)'
      BY <1>2, <1>3, <2>1, <2>3 DEF MovingIn
    <3>2. QED
      BY <1>3, <2>7, <3>1 DEF FilesIInv, CopyStands
  <2>9. BackupStands'
    <3> SUFFICES ASSUME NEW s \in Recs, s \notin raced PROVE Safe(s)' \/ There(s)' \/ Aside(s)'
      BY <1>3 DEF BackupStands
    <3>1. CASE s = r
      <4>1. v \in Repairing(r) /\ \A u \in Repairing(r) : u = v
        BY <1>2, <1>3, <3>1 DEF FilesIInv, OneRepairs, Repairing
      <4>2. \A u \in Verifiers : u # v /\ ver[u].rec = r => ver[u].pc = "idle"
        BY <4>1 DEF Repairing
      <4>3. \A u \in Verifiers : ver'[u].rec = r => ver'[u].pc \in {"in", "idle"}
        BY <2>1, <2>3, <4>2
      <4>4. QED
        BY <2>4, <3>1, <4>3 DEF Aside
    <3>2. CASE s # r
      <4>1. Aside(s) => Aside(s)'
        BY <2>1, <2>3, <2>4, <3>2 DEF Aside
      <4>2. QED
        BY <2>7, <3>2, <4>1 DEF FilesIInv, BackupStands
    <3>3. QED
      BY <3>1, <3>2
  <2>10. QED
    BY <1>1, <1>3, <2>3, <2>4, <2>5, <2>6, <2>8, <2>9, VerifyingPreserves
<1>6. QED
  BY <1>2, <1>4, <1>5 DEF StepAside

\* The copy takes the place, or the backup is all that is left: nobody else removes
\* that unless two threads repair.
LEMMA MoveInPreserves ==
  ASSUME FilesIInv, NEW v \in Verifiers, MoveIn(v)
  PROVE  FilesIInv'
<1>1. /\ ver \in [Verifiers -> VerType] /\ path \in [Recs -> Media] /\ backup \in [Recs -> Media]
      /\ valid \in [Recs -> ValidType] /\ left \subseteq Recs
      /\ raced \subseteq Recs /\ refused \subseteq Recs
  BY TypesAre
<1>2. PICK r \in Recs : r = ver[v].rec
  BY <1>1 DEF VerType
<1>3. /\ UNCHANGED <<backup, merged, left, valid, row, active, mer, cleaned, raced, omitted, spent>>
      /\ ver[v].pc = "in" /\ ver[v].temp = "whole"
  BY DEF MoveIn, rows, FilesIInv, CopiesAreMade
<1> DEFINE a == [ver[v] EXCEPT !.pc = "drop", !.temp = "none"]
           b == [ver[v] EXCEPT !.pc = "discard"]
<1>4. /\ a \in VerType /\ a.pc = "drop" /\ a.rec = r
      /\ b \in VerType /\ b.pc = "discard" /\ b.rec = r
  BY <1>1, <1>2 DEF VerType
<1>5. \/ /\ ver' = [ver EXCEPT ![v] = a]
         /\ path' = [path EXCEPT ![r] = "whole"] /\ refused' = refused
      \/ /\ ver' = [ver EXCEPT ![v] = b]
         /\ path' = path /\ refused' = refused \cup {r}
  BY <1>1, <1>2, <1>3 DEF MoveIn, InPlace, NotInPlace, To
<1> HIDE DEF a, b
<1>6. PICK w \in {a, b} : ver' = [ver EXCEPT ![v] = w]
  BY <1>5
<1>7. /\ ver' \in [Verifiers -> VerType] /\ ver'[v] = w /\ w.rec = r /\ w.pc \in {"drop", "discard"}
      /\ \A u \in Verifiers : u # v => ver'[u] = ver[u]
  BY <1>1, <1>4, <1>6
<1>8. /\ path' \in [Recs -> Media] /\ refused \subseteq refused' /\ refused' \subseteq Recs
      /\ There(r)' \/ (w.pc = "discard" /\ r \in refused')
      /\ \A s \in Recs : There(s) => There(s)'
  <2>1. CASE /\ ver' = [ver EXCEPT ![v] = a]
             /\ path' = [path EXCEPT ![r] = "whole"] /\ refused' = refused
    BY <1>1, <2>1 DEF Media, There
  <2>2. CASE /\ ver' = [ver EXCEPT ![v] = b]
             /\ path' = path /\ refused' = refused \cup {r}
    BY <1>1, <1>4, <1>7, <2>2 DEF There
  <2>3. QED
    BY <1>5, <2>1, <2>2
<1>9. CopiesAreMade'
  BY <1>7 DEF FilesIInv, CopiesAreMade
<1>10. OneRepairs'
  <2>1. \A s \in Recs : Repairing(s)' = Repairing(s)
    BY <1>2, <1>3, <1>7 DEF Repairing
  <2>2. QED
    BY <1>3, <2>1 DEF FilesIInv, OneRepairs
<1>11. \A s \in Recs : Safe(s)' <=> Safe(s)
  BY <1>3 DEF Safe, Merged
<1>12. CopyStands'
  <2>1. \A s \in Recs : s # r /\ MovingIn(s) => MovingIn(s)'
    BY <1>2, <1>7 DEF MovingIn
  <2>2. QED
    BY <1>8, <1>11, <2>1 DEF FilesIInv, CopyStands
<1>13. BackupStands'
  <2>1. \A s \in Recs : Aside(s) => Aside(s)' \/ There(s)'
    BY <1>3, <1>7, <1>8 DEF Aside
  <2>2. QED
    BY <1>3, <1>8, <1>11, <2>1 DEF FilesIInv, BackupStands
<1>14. QED
  BY <1>1, <1>3, <1>7, <1>8, <1>9, <1>10, <1>12, <1>13, VerifyingPreserves

-----------------------------------------------------------------------------
(***************************************************************************)
(* Merging.                                                                *)
(***************************************************************************)

\* A step of one merge, as far as types and the admission of merges go.
LEMMA MergingTypes ==
  ASSUME FilesIInv, NEW m \in Mergers, NEW w \in MerType, mer' = [mer EXCEPT ![m] = w],
         UNCHANGED <<backup, left, valid, ver, cleaned, raced, refused>>,
         path' \in [Recs -> Media], merged' \in [Outputs -> SUBSET Recs],
         row' \in RowType, spent' \in SpentType, omitted' \subseteq Recs,
         active' = (IF w.pc \in {"idle", "listed"} THEN active \ {m} ELSE active \cup {m}),
         w.pc \in {"idle", "listed"} \/ Busy(m) \/ active = {}
  PROVE  FilesTypeOK' /\ (\A a, b \in active' : a = b) /\ CopiesAreMade' /\ OneRepairs'
<1>1. FilesTypeOK /\ (\A a, b \in active : a = b) /\ CopiesAreMade /\ OneRepairs
      /\ mer \in [Mergers -> MerType] /\ active = {n \in Mergers : Busy(n)}
  BY TypesAre DEF FilesIInv
<1>2. mer' \in [Mergers -> MerType]
  BY <1>1
<1>3. active' = {n \in Mergers : mer'[n].pc \notin {"idle", "listed"}}
  BY <1>1 DEF Busy
<1>4. \A a, b \in active' : a = b
  <2>1. m \in active \/ active = {} \/ w.pc \in {"idle", "listed"}
    BY <1>1
  <2>2. QED
    BY <1>1, <2>1
<1>5. Cardinality(active') <= 1
  BY <1>4, OneMerges
<1>6. FilesTypeOK'
  BY <1>1, <1>2, <1>3, <1>5 DEF FilesTypeOK, MerType, SpentType, RowType
<1>7. CopiesAreMade' /\ OneRepairs'
  BY <1>1 DEF CopiesAreMade, OneRepairs, Repairing
<1>8. QED
  BY <1>4, <1>6, <1>7

\* What stands for a recording still does when only the file of a merged one goes.
LEMMA Standing ==
  ASSUME FilesIInv, UNCHANGED <<backup, ver, raced, refused>>,
         \A r \in Recs : (Safe(r) => Safe(r)') /\ (There(r) => There(r)' \/ Safe(r)')
  PROVE  CopyStands' /\ BackupStands'
<1>1. \A r \in Recs : (MovingIn(r)' <=> MovingIn(r)) /\ (Aside(r)' <=> Aside(r))
  BY DEF MovingIn, Aside
<1>2. QED
  BY <1>1 DEF FilesIInv, CopyStands, BackupStands

\* A step of one merge that makes no output and removes no segment.
LEMMA QuietMergePreserves ==
  ASSUME FilesIInv, NEW m \in Mergers, NEW w \in MerType, mer' = [mer EXCEPT ![m] = w],
         UNCHANGED <<path, merged, backup, left, valid, ver, cleaned, faults, spent>>,
         row' \in RowType,
         active' = (IF w.pc \in {"idle", "listed"} THEN active \ {m} ELSE active),
         w.pc \in {"idle", "listed"} \/ Busy(m),
         w.pc # "mark", w.pc = "read" => mer[m].pc \in {"mark", "read"},
         w.pc = "delete" => DeletesSegments,
         w.pc \in {"complete", "delete"} => mer[m].pc \in {"complete", "delete"}
  PROVE  FilesIInv'
<1>1. /\ mer \in [Mergers -> MerType] /\ path \in [Recs -> Media] /\ spent \in SpentType
      /\ merged \in [Outputs -> SUBSET Recs] /\ active = {n \in Mergers : Busy(n)}
      /\ omitted \subseteq Recs
  BY TypesAre
<1>2. FilesTypeOK' /\ (\A a, b \in active' : a = b) /\ CopiesAreMade' /\ OneRepairs'
  <2>1. active' = IF w.pc \in {"idle", "listed"} THEN active \ {m} ELSE active \cup {m}
    BY <1>1
  <2>2. QED
    BY <1>1, <2>1, MergingTypes DEF faults
<1>3. \A r : (Merged(r)' <=> Merged(r)) /\ (Safe(r)' <=> Safe(r)) /\ (There(r)' <=> There(r))
  BY DEF Merged, Safe, There, faults
<1>4. CopyStands' /\ BackupStands'
  BY <1>3, Standing DEF faults
<1>5. mer'[m] = w /\ Names' = Names /\ \A n \in Mergers : n # m => mer'[n] = mer[n]
  BY <1>1 DEF Names
<1>6. NamesAreLeft' /\ MergesAreKept'
  BY <1>3, <1>5 DEF FilesIInv, NamesAreLeft, MergesAreKept
<1>7. QED
  BY <1>2, <1>4, <1>6 DEF FilesIInv

\* The same for a merge that goes on to a part.
LEMMA GoesPreserves ==
  ASSUME FilesIInv, NEW m \in Mergers,
         NEW pc \in {"idle", "listed", "read", "delete", "broken"}, Goes(m, pc),
         UNCHANGED <<path, merged, backup, left, valid, ver, cleaned, faults, spent>>,
         row' \in RowType,
         active' = (IF pc \in {"idle", "listed"} THEN active \ {m} ELSE active),
         pc \in {"idle", "listed"} \/ Busy(m),
         pc = "read" => mer[m].pc \in {"mark", "read"},
         pc = "delete" => DeletesSegments /\ mer[m].pc = "complete"
  PROVE  FilesIInv'
<1> DEFINE w == [NoMer EXCEPT !.pc = pc]
<1>1. w \in MerType /\ w.pc = pc /\ mer' = [mer EXCEPT ![m] = w]
  BY PartsAre DEF Goes
<1> HIDE DEF w
<1>2. QED
  BY <1>1, QuietMergePreserves

LEMMA AdmitPreserves ==
  ASSUME FilesIInv, NEW m \in Mergers, ListCandidate(m) \/ Admit(m) \/ Refuse(m)
  PROVE  FilesIInv'
<1>1. /\ mer \in [Mergers -> MerType] /\ path \in [Recs -> Media] /\ spent \in SpentType
      /\ merged \in [Outputs -> SUBSET Recs] /\ active = {n \in Mergers : Busy(n)}
      /\ row \in RowType /\ omitted \subseteq Recs /\ NamesAreLeft /\ MergesAreKept
  BY TypesAre DEF FilesIInv
<1>2. mer[m].pc \in {"idle", "listed"} /\ m \notin active
      /\ UNCHANGED <<path, merged, backup, left, valid, ver, cleaned, row, faults>>
  BY <1>1 DEF ListCandidate, Admit, Refuse, files, rows, Busy
<1>3. \/ Goes(m, "listed") /\ UNCHANGED <<active, spent>>
      \/ Goes(m, "idle") /\ UNCHANGED <<active, spent>>
      \/ /\ Goes(m, "mark") /\ active = {} /\ active' = {m}
         /\ spent.merge < MaxMerge /\ spent' = [spent EXCEPT !.merge = @ + 1]
  BY DEF ListCandidate, Admit, Refuse
<1>4. ASSUME NEW pc \in {"idle", "listed"}, Goes(m, pc), UNCHANGED <<active, spent>>
      PROVE  FilesIInv'
  <2>1. active' = IF pc \in {"idle", "listed"} THEN active \ {m} ELSE active
    BY <1>2, <1>4
  <2>2. QED
    BY <1>1, <1>2, <1>4, <2>1, GoesPreserves
<1>5. CASE /\ Goes(m, "mark") /\ active = {} /\ active' = {m}
           /\ spent.merge < MaxMerge /\ spent' = [spent EXCEPT !.merge = @ + 1]
  <2> DEFINE b == [NoMer EXCEPT !.pc = "mark"]
  <2>0. b \in MerType /\ b.pc = "mark" /\ mer' = [mer EXCEPT ![m] = b]
    BY <1>5, PartsAre DEF Goes
  <2> HIDE DEF b
  <2>1. spent.merge \in Nat /\ spent'.merge = spent.merge + 1 /\ spent' \in SpentType
        /\ spent'.merge \in Outputs
    <3>1. spent.merge \in 0..MaxMerge /\ spent.merge < MaxMerge /\ MaxMerge \in Nat
      BY <1>1, <1>5, SegmentsAre DEF SpentType
    <3> DEFINE k == spent.merge + 1
    <3>2. k \in 0..MaxMerge /\ k \in 1..MaxMerge /\ spent' = [spent EXCEPT !.merge = k]
      BY <1>5, <3>1
    <3> HIDE DEF k
    <3>3. spent' \in SpentType /\ spent'.merge = k
      BY <1>1, <3>2 DEF SpentType
    <3>4. QED
      BY <3>1, <3>2, <3>3 DEF Outputs, k
  <2>2. FilesTypeOK' /\ (\A x, y \in active' : x = y) /\ CopiesAreMade' /\ OneRepairs'
    <3>1. active' = IF b.pc \in {"idle", "listed"} THEN active \ {m} ELSE active \cup {m}
      BY <1>5, <2>0
    <3>2. QED
      BY <1>1, <1>2, <1>5, <2>0, <2>1, <3>1, MergingTypes DEF faults
  <2>3. \A r : (Merged(r)' <=> Merged(r)) /\ (Safe(r)' <=> Safe(r)) /\ (There(r)' <=> There(r))
    BY <1>2 DEF Merged, Safe, There, faults
  <2>4. CopyStands' /\ BackupStands'
    BY <1>2, <2>3, Standing DEF faults
  <2>5. /\ mer'[m] = b /\ Names' = Names
        /\ \A n \in Mergers : n # m => mer'[n] = mer[n] /\ ~Busy(n)
    BY <1>1, <1>2, <1>5, <2>0 DEF Names, Busy
  <2>6. \A i \in Names : i \in Nat /\ i <= spent.merge
    BY <1>1, SegmentsAre DEF NamesAreLeft, Names
  <2>7. NamesAreLeft'
    BY <2>0, <2>1, <2>5, <2>6 DEF NamesAreLeft, Busy
  <2>8. MergesAreKept'
    BY <1>1, <2>0, <2>3, <2>5 DEF MergesAreKept
  <2>9. QED
    BY <2>2, <2>4, <2>7, <2>8 DEF FilesIInv
<1>6. QED
  BY <1>3, <1>4, <1>5

LEMMA SegmentStepPreserves ==
  ASSUME FilesIInv, NEW m \in Mergers, MarkMerging(m) \/ ReadSegment(m) \/ CompleteMerge(m)
             \/ EndMerge(m) \/ FailMerge(m)
  PROVE  FilesIInv'
<1>1. /\ mer \in [Mergers -> MerType] /\ active = {n \in Mergers : Busy(n)} /\ row \in RowType
  BY TypesAre
<1>2. /\ UNCHANGED <<path, merged, backup, left, valid, ver, cleaned, faults, spent>>
      /\ mer[m] \in MerType /\ Busy(m) /\ m \in active
  BY <1>1 DEF MarkMerging, ReadSegment, CompleteMerge, EndMerge, FailMerge, files, rows, Busy
<1>3. CASE MarkMerging(m)
  <2>1. Goes(m, "read") /\ row' \in RowType /\ active' = active /\ mer[m].pc = "mark"
    BY <1>3 DEF MarkMerging, RowType
  <2>2. QED
    BY <1>1, <1>2, <2>1, GoesPreserves
<1>4. CASE ReadSegment(m)
  <2> DEFINE i == mer[m].next
             r == Segments[i]
  <2>1. /\ i \in 1..Len(Segments) /\ r \in Recs /\ mer[m].pc = "read"
        /\ i + 1 \in 1..(Len(Segments) + 1) /\ Len(Segments) + 1 \in 1..(Len(Segments) + 1)
        /\ row' \in RowType /\ active' = active
    <3>1. i \in 1..(Len(Segments) + 1) /\ i <= Len(Segments) /\ Len(Segments) \in Nat
      BY <1>2, <1>4, SegmentsAre DEF ReadSegment, MerType
    <3>2. /\ i \in 1..Len(Segments) /\ i + 1 \in 1..(Len(Segments) + 1)
          /\ Len(Segments) + 1 \in 1..(Len(Segments) + 1)
      BY <3>1
    <3>3. r \in Recs
      BY <3>2, SegmentsAre
    <3>4. QED
      BY <1>1, <1>4, <3>2, <3>3 DEF ReadSegment, rows
  <2>2. ASSUME NEW n \in 1..(Len(Segments) + 1), NEW read \in SUBSET Recs,
               mer' = [mer EXCEPT ![m].next = n, ![m].read = read]
        PROVE  FilesIInv'
    <3> DEFINE w == [mer[m] EXCEPT !.next = n, !.read = read]
    <3>1. w \in MerType /\ w.pc = "read" /\ mer' = [mer EXCEPT ![m] = w]
      BY <1>1, <1>2, <2>1, <2>2 DEF MerType
    <3> HIDE DEF w
    <3>2. QED
      BY <1>1, <1>2, <2>1, <3>1, QuietMergePreserves
  <2>3. mer[m].read \in SUBSET Recs
    BY <1>2 DEF MerType
  <2>4. CASE mer' = [mer EXCEPT ![m].next = @ + 1, ![m].read = @ \cup {r}]
    <3>1. mer' = [mer EXCEPT ![m].next = i + 1, ![m].read = mer[m].read \cup {r}]
      BY <1>1, <2>4
    <3>2. mer[m].read \cup {r} \in SUBSET Recs
      BY <2>1, <2>3
    <3> HIDE DEF i, r
    <3>3. QED
      BY <2>1, <2>2, <3>1, <3>2 DEF i
  <2>5. CASE Goes(m, "broken")
    BY <1>1, <1>2, <2>1, <2>5, GoesPreserves
  <2>6. CASE LeftOut(m, r)
    <3>1. PICK n \in {i + 1, Len(Segments) + 1},
               taken \in IF There(r) THEN {{}, {r}} ELSE {{}} :
            mer' = [mer EXCEPT ![m].next = n, ![m].read = mer[m].read \cup taken]
      BY <1>1, <2>6 DEF LeftOut
    <3>2. mer[m].read \cup taken \in SUBSET Recs
      BY <2>1, <2>3
    <3>3. n \in 1..(Len(Segments) + 1)
      BY <2>1
    <3>4. QED
      BY <2>2, <3>1, <3>2, <3>3
  <2>7. QED
    BY <1>4, <2>4, <2>5, <2>6 DEF ReadSegment
<1>5. CASE CompleteMerge(m)
  <2>1. mer[m].pc = "complete"
    BY <1>5 DEF CompleteMerge
  <2>2. CASE row' = "completed" /\ DeletesSegments /\ Goes(m, "delete") /\ active' = active
    BY <1>1, <1>2, <2>1, <2>2, GoesPreserves DEF RowType
  <2>3. CASE row' = "completed" /\ Goes(m, "idle") /\ active' = active \ {m}
    BY <1>1, <1>2, <2>1, <2>3, GoesPreserves DEF RowType
  <2>4. CASE Goes(m, "broken") /\ row' = row /\ active' = active
    BY <1>1, <1>2, <2>1, <2>4, GoesPreserves
  <2>5. QED
    BY <1>5, <2>2, <2>3, <2>4 DEF CompleteMerge, Released
<1>6. CASE EndMerge(m) \/ FailMerge(m)
  <2>1. Goes(m, "idle") /\ active' = active \ {m} /\ row' \in RowType
    BY <1>1, <1>6 DEF EndMerge, FailMerge, Released, rows, RowType
  <2>2. QED
    BY <1>1, <1>2, <2>1, GoesPreserves
<1>7. QED
  BY <1>3, <1>4, <1>5, <1>6

\* A free name is found, and it is none that a later merge would need.
LEMMA FirstFreeIs ==
  ASSUME NEW k \in Outputs, merged[k] = {}
  PROVE  FirstFree \in Outputs /\ merged[FirstFree] = {} /\ FirstFree <= k
<1> DEFINE S == {i \in Outputs : merged[i] = {}}
<1>1. S \subseteq Nat /\ S # {} /\ k \in S /\ k \in Nat
  BY SegmentsAre
<1>2. PICK x \in S : \A y \in S : ~(<<y, x>> \in OpToRel(<, Nat))
  BY <1>1, NatLessThanWellFounded, WFMin
<1>3. x \in Nat /\ \A y \in S : ~(y < x)
  BY <1>1, <1>2 DEF OpToRel
<1>4. \A y \in 1..(x - 1) : merged[y] # {}
  <2> SUFFICES ASSUME NEW y \in 1..(x - 1) PROVE y \notin S /\ y \in Outputs
    OBVIOUS
  <2>1. x \in 1..MaxMerge /\ MaxMerge \in Nat
    BY SegmentsAre DEF Outputs
  <2>2. y \in Outputs /\ y < x
    BY <2>1 DEF Outputs
  <2>3. QED
    BY <1>3, <2>2
<1>5. \E i \in Outputs : merged[i] = {} /\ \A j \in 1..(i - 1) : merged[j] # {}
  BY <1>4
<1>6. /\ FirstFree \in Outputs /\ merged[FirstFree] = {}
      /\ \A j \in 1..(FirstFree - 1) : merged[j] # {}
  BY <1>5 DEF FirstFree
<1>7. PICK f \in Outputs : f = FirstFree /\ \A j \in 1..(f - 1) : merged[j] # {}
  BY <1>6
<1>8. f \in Nat /\ k \in Nat /\ k >= 1
  BY SegmentsAre DEF Outputs
<1>9. f <= k
  BY <1>7, <1>8
<1>10. QED
  BY <1>6, <1>7, <1>9

LEMMA PublishPreserves ==
  ASSUME FilesIInv, NEW m \in Mergers, Publish(m)
  PROVE  FilesIInv'
<1>1. /\ mer \in [Mergers -> MerType] /\ path \in [Recs -> Media] /\ spent \in SpentType
      /\ merged \in [Outputs -> SUBSET Recs] /\ active = {n \in Mergers : Busy(n)}
      /\ row \in RowType /\ omitted \subseteq Recs /\ NamesAreLeft /\ MergesAreKept
      /\ \A a, b \in active : a = b
  BY TypesAre DEF FilesIInv
<1>2. /\ UNCHANGED <<path, backup, left, valid, row, active, ver, cleaned, raced, refused, spent>>
      /\ mer[m] \in MerType /\ Busy(m) /\ m \in active /\ mer[m].pc = "read"
  BY <1>1 DEF Publish, rows, Busy
<1> DEFINE read == mer[m].read
<1>3. read \in SUBSET Recs
  BY <1>2 DEF MerType
<1>4. \/ Goes(m, "broken") /\ UNCHANGED <<merged, omitted>>
      \/ /\ Goes(m, "complete") /\ read # {}
         /\ merged' = [merged EXCEPT ![FirstFree] = read]
         /\ omitted' = omitted \cup (Recs \ read)
  BY DEF Publish
<1>5. CASE Goes(m, "broken") /\ UNCHANGED <<merged, omitted>>
  BY <1>1, <1>2, <1>5, GoesPreserves DEF faults
<1>6. CASE /\ Goes(m, "complete") /\ read # {}
           /\ merged' = [merged EXCEPT ![FirstFree] = read]
           /\ omitted' = omitted \cup (Recs \ read)
  <2> DEFINE b == [NoMer EXCEPT !.pc = "complete"]
  <2>0. b \in MerType /\ b.pc = "complete" /\ mer' = [mer EXCEPT ![m] = b]
    BY <1>6, PartsAre DEF Goes
  <2> HIDE DEF b
  <2>1. spent.merge \in Outputs /\ spent.merge \in Nat /\ merged[spent.merge] = {}
    BY <1>1, <1>2, SegmentsAre DEF NamesAreLeft, Names
  <2>2. PICK f \in Outputs : f = FirstFree /\ merged[f] = {} /\ f <= spent.merge
    BY <2>1, FirstFreeIs
  <2>3. /\ merged' = [merged EXCEPT ![f] = read] /\ merged' \in [Outputs -> SUBSET Recs]
        /\ merged'[f] = read /\ \A i \in Outputs : i # f => merged'[i] = merged[i]
        /\ omitted' \subseteq Recs
    BY <1>1, <1>3, <1>6, <2>2
  <2>4. Names' = Names \cup {f}
    BY <1>6, <2>2, <2>3 DEF Names
  <2>5. /\ mer'[m] = b /\ \A n \in Mergers : n # m => mer'[n] = mer[n] /\ ~Busy(n)
    BY <1>1, <1>2, <2>0
  <2>6. FilesTypeOK' /\ (\A x, y \in active' : x = y) /\ CopiesAreMade' /\ OneRepairs'
    <3>1. active' = IF b.pc \in {"idle", "listed"} THEN active \ {m} ELSE active \cup {m}
      BY <1>2, <2>0
    <3>2. QED
      BY <1>1, <1>2, <2>0, <2>3, <3>1, MergingTypes
  <2>7. /\ \A r : Merged(r) => Merged(r)'
        /\ \A r \in Recs : (There(r) => There(r)') /\ (Safe(r) => Safe(r)')
    <3>1. \A r : \A i \in Outputs : r \in merged[i] => r \in merged'[i]
      BY <2>2, <2>3
    <3>2. QED
      BY <1>2, <1>6, <3>1 DEF Merged, Safe, There
  <2>8. CopyStands' /\ BackupStands'
    BY <1>2, <2>7, Standing
  <2>9. NamesAreLeft'
    <3>1. \A i \in Names' : i <= spent'.merge
      BY <1>1, <1>2, <2>2, <2>4 DEF NamesAreLeft
    <3>2. \A n \in Mergers : mer'[n].pc \notin {"mark", "read"}
      BY <2>0, <2>5 DEF Busy
    <3>3. QED
      BY <3>1, <3>2 DEF NamesAreLeft
  <2>10. MergesAreKept'
    <3>1. DeletesSegments => \A r \in Recs : Merged(r)'
      <4>1. \A r \in Recs : r \in merged'[f] \/ r \in omitted'
        BY <1>6, <2>3
      <4>2. QED
        BY <2>2, <4>1 DEF Merged
    <3>2. QED
      BY <2>0, <2>5, <3>1 DEF MergesAreKept, Busy
  <2>11. QED
    BY <2>6, <2>8, <2>9, <2>10 DEF FilesIInv
<1>7. QED
  BY <1>4, <1>5, <1>6

\* Segments go only when an output has them or has left them out.
LEMMA DeletePreserves ==
  ASSUME FilesIInv, NEW m \in Mergers, DeleteSegment(m)
  PROVE  FilesIInv'
<1>1. /\ mer \in [Mergers -> MerType] /\ path \in [Recs -> Media] /\ spent \in SpentType
      /\ merged \in [Outputs -> SUBSET Recs] /\ active = {n \in Mergers : Busy(n)}
      /\ row \in RowType /\ omitted \subseteq Recs /\ NamesAreLeft /\ MergesAreKept
  BY TypesAre DEF FilesIInv
<1>2. /\ UNCHANGED <<merged, backup, left, valid, row, active, ver, cleaned, faults, spent>>
      /\ mer[m] \in MerType /\ Busy(m) /\ m \in active /\ mer[m].pc = "delete"
  BY <1>1 DEF DeleteSegment, rows, Busy
<1>3. \A r \in Recs : Merged(r)
  BY <1>1, <1>2 DEF MergesAreKept
<1> DEFINE w == [mer[m] EXCEPT !.next = mer[m].next + 1]
<1>4. w \in MerType /\ w.pc = "delete" /\ mer' = [mer EXCEPT ![m] = w]
  <2>1. mer[m].next \in 1..(Len(Segments) + 1) /\ mer[m].next <= Len(Segments)
    BY <1>2 DEF MerType, DeleteSegment
  <2> DEFINE n == mer[m].next + 1
  <2>2. n \in 1..(Len(Segments) + 1)
    BY <2>1, SegmentsAre
  <2>3. w = [mer[m] EXCEPT !.next = n] /\ mer' = [mer EXCEPT ![m] = w]
    BY <1>1 DEF DeleteSegment
  <2> HIDE DEF n, w
  <2>4. QED
    BY <1>2, <2>2, <2>3 DEF MerType
<1> HIDE DEF w
<1>5. path' \in [Recs -> Media]
  BY <1>1 DEF DeleteSegment, Media
<1>6. FilesTypeOK' /\ (\A x, y \in active' : x = y) /\ CopiesAreMade' /\ OneRepairs'
  <2>1. active' = IF w.pc \in {"idle", "listed"} THEN active \ {m} ELSE active \cup {m}
    BY <1>2, <1>4
  <2>2. QED
    BY <1>1, <1>2, <1>4, <1>5, <2>1, MergingTypes DEF faults
<1>7. \A r : Merged(r)' <=> Merged(r)
  BY <1>2 DEF Merged, faults
<1>8. CopyStands' /\ BackupStands'
  <2>1. \A r \in Recs : Safe(r)'
    BY <1>3, <1>7 DEF Safe
  <2>2. QED
    BY <2>1 DEF CopyStands, BackupStands
<1>9. /\ mer'[m] = w /\ Names' = Names /\ \A n \in Mergers : n # m => mer'[n] = mer[n]
  BY <1>1, <1>2, <1>4 DEF Names
<1>10. NamesAreLeft' /\ MergesAreKept'
  BY <1>1, <1>2, <1>4, <1>7, <1>9 DEF NamesAreLeft, MergesAreKept
<1>11. QED
  BY <1>6, <1>8, <1>10 DEF FilesIInv

-----------------------------------------------------------------------------
(***************************************************************************)
(* Retention, crashes, and every step.                                     *)
(***************************************************************************)
LEMMA CleansPreserves == FilesIInv /\ Cleans => FilesIInv'
<1> SUFFICES ASSUME FilesIInv, Cleans PROVE FilesIInv'
  OBVIOUS
<1>1. /\ FilesTypeOK /\ path \in [Recs -> Media] /\ merged \in [Outputs -> SUBSET Recs]
      /\ left \subseteq Recs /\ cleaned \subseteq Recs /\ spent \in SpentType
      /\ NamesAreLeft /\ MergesAreKept /\ CopiesAreMade /\ OneRepairs
      /\ \A a, b \in active : a = b
  BY TypesAre DEF FilesIInv
<1>2. UNCHANGED <<backup, valid, row, active, ver, mer, raced, refused, omitted>>
  BY DEF Cleans, rows, faults
<1>3. spent'.merge = spent.merge /\ spent' \in SpentType
  <2> DEFINE n == spent.cleanup + 1
  <2>1. spent.cleanup \in 0..MaxCleanup /\ spent.cleanup < MaxCleanup
    BY <1>1 DEF Cleans, SpentType
  <2>2. n \in 0..MaxCleanup /\ spent' = [spent EXCEPT !.cleanup = n]
    BY <2>1, SegmentsAre DEF Cleans
  <2> HIDE DEF n
  <2>3. QED
    BY <1>1, <2>2 DEF SpentType
<1>4. /\ path' \in [Recs -> Media] /\ merged' \in [Outputs -> SUBSET Recs]
      /\ left' \subseteq Recs /\ cleaned' \subseteq Recs /\ cleaned \subseteq cleaned'
  <2>1. CASE UNCHANGED <<path, merged>>
    BY <1>1, <2>1 DEF Cleans
  <2>2. CASE UNCHANGED <<path, left>>
    BY <1>1, <2>2 DEF Cleans
  <2>3. CASE UNCHANGED <<merged, left>>
    BY <1>1, <2>3 DEF Cleans, Media
  <2>4. QED
    BY <2>1, <2>2, <2>3 DEF Cleans
<1>5. FilesTypeOK'
  BY <1>1, <1>2, <1>3, <1>4 DEF FilesTypeOK, SpentType
<1>6. /\ \A r \in Recs : There(r) => There(r)' \/ r \in cleaned'
      /\ left \subseteq left' \cup cleaned'
      /\ \A i \in Outputs : merged'[i] = merged[i] \/ (merged'[i] = {} /\ merged[i] \subseteq cleaned')
  BY <1>1 DEF Cleans, There
<1>7. \A r : Merged(r) => Merged(r)'
  BY <1>2, <1>4, <1>6 DEF Merged
<1>8. CopyStands' /\ BackupStands'
  <2>1. \A r \in Recs : (Safe(r) => Safe(r)') /\ (There(r) => There(r)' \/ Safe(r)')
    BY <1>6, <1>7 DEF Safe, Merged
  <2>2. QED
    BY <1>2, <2>1, Standing
<1>9. NamesAreLeft'
  <2>1. Names' \subseteq Names
    BY <1>6 DEF Names
  <2>2. QED
    BY <1>1, <1>2, <1>3, <2>1 DEF NamesAreLeft
<1>10. MergesAreKept'
  BY <1>1, <1>2, <1>7 DEF MergesAreKept
<1>11. CopiesAreMade' /\ OneRepairs'
  BY <1>1, <1>2 DEF CopiesAreMade, OneRepairs, Repairing
<1>12. QED
  BY <1>1, <1>2, <1>5, <1>8, <1>9, <1>10, <1>11 DEF FilesIInv

\* A crash leaves what was to be moved in.
LEMMA CrashPreserves == FilesIInv /\ Crash => FilesIInv'
<1> SUFFICES ASSUME FilesIInv, Crash PROVE FilesIInv'
  OBVIOUS
<1>1. /\ FilesTypeOK /\ ver \in [Verifiers -> VerType] /\ left \subseteq Recs
      /\ spent \in SpentType /\ NamesAreLeft /\ CopiesAreMade
  BY TypesAre DEF FilesIInv
<1>2. /\ UNCHANGED <<path, backup, merged, valid, row, cleaned, faults>> /\ active' = {}
      /\ ver' = [v \in Verifiers |-> NoVer] /\ mer' = [m \in Mergers |-> [NoMer EXCEPT !.pc = "idle"]]
      /\ left' = left \cup {ver[v].rec : v \in {w \in Verifiers : ver[w].temp = "whole"}}
  BY DEF Crash, rows, NoMer
<1>3. spent'.merge = spent.merge /\ spent' \in SpentType
  <2> DEFINE n == spent.crash + 1
  <2>1. spent.crash \in 0..MaxCrashes /\ spent.crash < MaxCrashes
    BY <1>1 DEF Crash, SpentType
  <2>2. n \in 0..MaxCrashes /\ spent' = [spent EXCEPT !.crash = n]
    BY <2>1, SegmentsAre DEF Crash
  <2> HIDE DEF n
  <2>3. QED
    BY <1>1, <2>2 DEF SpentType
<1>4. left' \subseteq Recs /\ left \subseteq left' /\ \A r \in Recs : MovingIn(r) => r \in left'
  <2>1. \A v \in Verifiers : ver[v].rec \in Recs
    BY <1>1 DEF VerType
  <2>2. \A v \in Verifiers : ver[v].pc = "in" => ver[v].temp = "whole"
    BY <1>1 DEF CopiesAreMade
  <2>3. QED
    BY <1>1, <1>2, <2>1, <2>2 DEF MovingIn
<1>5. \A r : (Merged(r)' <=> Merged(r)) /\ (Safe(r) => Safe(r)') /\ (There(r)' <=> There(r))
  BY <1>2, <1>4 DEF Merged, Safe, There, faults
<1>6. /\ ver' \in [Verifiers -> VerType] /\ \A v \in Verifiers : ver'[v].pc = "idle"
      /\ mer' \in [Mergers -> MerType] /\ \A m \in Mergers : mer'[m].pc = "idle"
  BY <1>2, SegmentsAre, PartsAre
<1>7. FilesTypeOK'
  <2>1. active' = {m \in Mergers : mer'[m].pc \notin {"idle", "listed"}}
    BY <1>2, <1>6
  <2>2. Cardinality(active') <= 1
    BY <1>2, FS_EmptySet
  <2>3. QED
    BY <1>1, <1>2, <1>3, <1>4, <1>6, <2>1, <2>2 DEF FilesTypeOK, SpentType, VerType, MerType, faults
<1>8. CopyStands'
  BY <1>2, <1>4, <1>5 DEF FilesIInv, CopyStands, Safe, faults
<1>9. BackupStands'
  <2>1. \A r \in Recs : Aside(r) => Aside(r)'
    BY <1>2, <1>6 DEF Aside
  <2>2. QED
    BY <1>2, <1>5, <2>1 DEF FilesIInv, BackupStands, faults
<1>10. CopiesAreMade' /\ OneRepairs' /\ MergesAreKept'
  BY <1>6 DEF CopiesAreMade, OneRepairs, Repairing, MergesAreKept
<1>11. NamesAreLeft'
  BY <1>1, <1>2, <1>3, <1>6 DEF NamesAreLeft, Names
<1>12. QED
  BY <1>2, <1>7, <1>8, <1>9, <1>10, <1>11 DEF FilesIInv

LEMMA FilesInitEstablishes == Init => FilesIInv
<1> SUFFICES ASSUME Init PROVE FilesIInv
  OBVIOUS
<1>1. /\ path \in [Recs -> {"damaged", "whole"}] /\ backup = [r \in Recs |-> "none"]
      /\ merged = [i \in Outputs |-> {}] /\ left = {} /\ active = {} /\ row = ""
      /\ cleaned = {} /\ raced = {} /\ refused = {} /\ omitted = {}
      /\ valid = [r \in Recs |-> ""]
      /\ ver = [v \in Verifiers |-> NoVer]
      /\ mer = [m \in Mergers |-> [NoMer EXCEPT !.pc = "idle"]]
      /\ spent = [verify |-> 0, merge |-> 0, cleanup |-> 0, crash |-> 0]
  BY DEF Init, NoMer
<1>2. \A r \in Recs : There(r)
  BY <1>1 DEF There
<1>3. /\ ver \in [Verifiers -> VerType] /\ \A v \in Verifiers : ver[v].pc = "idle"
      /\ mer \in [Mergers -> MerType] /\ \A m \in Mergers : mer[m].pc = "idle"
  BY <1>1, SegmentsAre, PartsAre
<1>4. FilesTypeOK
  <2>1. active = {m \in Mergers : mer[m].pc \notin {"idle", "listed"}}
    BY <1>1, <1>3
  <2>2. Cardinality(active) <= 1
    <3>1. Cardinality({}) = 0
      BY FS_EmptySet
    <3>2. active = {}
      BY <1>1
    <3>3. Cardinality(active) = 0
      BY <3>1, <3>2, Zenon
    <3>4. QED
      BY <3>3
  <2>3. path \in [Recs -> Media] /\ backup \in [Recs -> Media]
    BY <1>1 DEF Media
  <2>4. spent \in SpentType
    <3>1. 0 \in 0..MaxVerify /\ 0 \in 0..MaxMerge /\ 0 \in 0..MaxCleanup /\ 0 \in 0..MaxCrashes
      BY SegmentsAre
    <3>2. spent = [verify |-> 0, merge |-> 0, cleanup |-> 0, crash |-> 0]
      BY <1>1
    <3>3. QED
      BY <3>1, <3>2 DEF SpentType
  <2>5. QED
    BY <1>1, <1>3, <2>1, <2>2, <2>3, <2>4 DEF FilesTypeOK, SpentType, VerType, MerType
<1>5. Names = {}
  BY <1>1 DEF Names
<1>6. NamesAreLeft /\ CopiesAreMade /\ OneRepairs /\ MergesAreKept
  BY <1>3, <1>5 DEF NamesAreLeft, CopiesAreMade, OneRepairs, Repairing, MergesAreKept
<1>7. QED
  BY <1>1, <1>2, <1>4, <1>6 DEF FilesIInv, CopyStands, BackupStands

LEMMA FilesNextPreserves == FilesIInv /\ [Next]_vars => FilesIInv'
<1> SUFFICES ASSUME FilesIInv, [Next]_vars PROVE FilesIInv'
  OBVIOUS
<1>1. CASE \E v \in Verifiers :
             \/ \E r \in Recs : Verify(v, r)
             \/ Remux(v) \/ ClearBackup(v) \/ StepAside(v) \/ MoveIn(v) \/ DropBackup(v)
             \/ Discard(v) \/ FileVerdict(v)
  BY <1>1, VerifyPreserves, QuietRepairPreserves, StepAsidePreserves, MoveInPreserves
<1>2. CASE \E m \in Mergers :
             \/ ListCandidate(m) \/ Admit(m) \/ Refuse(m) \/ MarkMerging(m) \/ ReadSegment(m)
             \/ Publish(m) \/ CompleteMerge(m) \/ DeleteSegment(m) \/ EndMerge(m) \/ FailMerge(m)
  BY <1>2, AdmitPreserves, SegmentStepPreserves, PublishPreserves, DeletePreserves
<1>3. CASE Cleans \/ Crash
  BY <1>3, CleansPreserves, CrashPreserves
<1>4. CASE UNCHANGED vars
  <2>1. UNCHANGED <<path, backup, merged, left, valid, row, active, ver, mer, cleaned, raced,
                    refused, omitted, spent>>
    BY <1>4 DEF vars, files, rows, faults
  <2>2. FilesTypeOK'
    BY <2>1 DEF FilesIInv, FilesTypeOK
  <2>3. CopyStands' /\ BackupStands'
    BY <2>1 DEF FilesIInv, CopyStands, BackupStands, Safe, Merged, There, MovingIn, Aside
  <2>4. CopiesAreMade' /\ OneRepairs'
    BY <2>1 DEF FilesIInv, CopiesAreMade, OneRepairs, Repairing
  <2>5. NamesAreLeft' /\ MergesAreKept'
    BY <2>1 DEF FilesIInv, NamesAreLeft, Names, MergesAreKept, Merged
  <2>6. QED
    BY <2>1, <2>2, <2>3, <2>4, <2>5 DEF FilesIInv
<1>5. QED
  BY <1>1, <1>2, <1>3, <1>4 DEF Next

-----------------------------------------------------------------------------
(***************************************************************************)
(* What holds of the files of every broadcast.                             *)
(***************************************************************************)

\* The invariant: one merge at a time, and along both lines something stands for
\* every recording, with failing renames and an ffmpeg that leaves segments out.
THEOREM FilesAreSafe == FilesSpec => []FilesIInv
<1>1. Init => FilesIInv
  BY FilesInitEstablishes
<1>2. FilesIInv /\ [Next]_vars => FilesIInv'
  BY FilesNextPreserves
<1>3. QED
  BY <1>1, <1>2, PTL DEF FilesSpec

\* No interleaving of repairs, merges, failing calls and crashes loses what was
\* recorded, but for a repair that races another and then cannot put its copy in
\* place, and a merge that leaves out a segment it is to delete
\* (recording_verify.py, recording_merge.py).
THEOREM RecordedMediaIsKept == FilesSpec => []FilesInv
<1>1. FilesIInv => FilesInv
  <2> SUFFICES ASSUME FilesIInv, NEW r \in Recs
               PROVE  \/ Held(r) \/ r \in cleaned
                      \/ r \in raced \cap refused
                      \/ DeletesSegments /\ r \in omitted
    BY DEF FilesIInv, FilesInv, MediaSurvives
  <2>1. MovingIn(r) => \E v \in Verifiers : ver[v].rec = r /\ ver[v].temp = "whole"
    BY DEF FilesIInv, CopiesAreMade, MovingIn
  <2>2. CASE r \notin refused
    BY <2>1, <2>2 DEF FilesIInv, CopyStands, Safe, Merged, Held
  <2>3. CASE r \notin raced
    BY <2>3 DEF FilesIInv, BackupStands, Aside, Safe, Merged, Held
  <2>4. QED
    BY <2>2, <2>3
<1>2. QED
  BY <1>1, FilesAreSafe, PTL
=============================================================================
