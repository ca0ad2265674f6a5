----------------------- MODULE CaptureCatalogueProofs -----------------------
(***************************************************************************)
(* Machine-checked proofs about CaptureCatalogue, for any number of        *)
(* captures, names, parts, helper threads, notes, lost events and crashes. *)
(* The argument: a revision stands for one path, so a verdict on a         *)
(* revision is one on its file; a projection that nobody overlapped has    *)
(* copied the newest rows up to where it is; and while a row says          *)
(* recording, its capture or an event of it is still to come.  On top of   *)
(* that, a second invariant says what the verification of an ended capture *)
(* relies on: its row's key is free until the event loop queues it, and    *)
(* the artifact has the row's file by then.                                *)
(***************************************************************************)
EXTENDS CaptureCatalogue, WellFoundedInduction, FiniteSetTheorems, TLAPS

Statuses == {"recording", "completed", "failed"}
Art == [rev : Nat, path : Path, sized : BOOLEAN, status : {"none"} \cup Statuses,
        verdict : {"", "ok", "invalid"}, judged : Path, seen : Row \cup {NoRow}]
Sync == [pc : {"idle", "asked", "import", "queue"}, snap : Seq(Row), next : Nat \ {0},
         rec : {0} \cup Ids, solo : BOOLEAN]
Cap == [on : BOOLEAN, of : Broadcasts, split : BOOLEAN, first : Bases, path : Path]
EventType == [event : {"started", "stopped", "failed"}, first : Bases, path : Path, of : Broadcasts]
Job == [rec : Ids, rev : Nat, about : Path,
        state : {"queued", "succeeded", "failed", "blocked"}]
SpentType == [captures : 0..MaxCaptures, notes : 0..MaxNotes, syncs : Nat, faults : Nat]

Typed ==
    /\ rows \in Seq(Row) /\ Len(rows) <= MaxRows
    /\ disk \subseteq Path
    /\ cap \in Cap
    /\ todo \in Seq(EventType)
    /\ proj \in [Ids -> Art]
    /\ sync \in [Threads -> Sync]
    /\ jobs \subseteq Job
    /\ bound \in [Ids -> Nat]
    /\ work \in [rec : {0} \cup Ids, rev : Nat, path : Path]
    /\ clean \in BOOLEAN
    /\ spent \in SpentType

\* A row keeps the base name it is known by; the rows of a broadcast are numbered.
RowsHold ==
    \A i \in DOMAIN rows :
      /\ rows[i].path.base = rows[i].key
      /\ rows[i].index <= Counted(rows[i].of)
      /\ rows[i].note <= spent.notes
      /\ \A k \in DOMAIN rows : i # k =>
           /\ rows[i].key # rows[k].key
           /\ rows[i].of = rows[k].of => rows[i].index # rows[k].index

\* Every capture into one file makes at most one.
Singles == {p \in disk : p.in # "split"}
FilesAreFew == IsFiniteSet(Singles) /\ Cardinality(Singles) <= spent.captures

\* A capture and its events keep the first base name; a part is announced, in
\* its own directory, before it ends.
EventsHold ==
    /\ cap.path.base = cap.first
    /\ \A k \in DOMAIN todo :
         /\ todo[k].path.base = todo[k].first
         /\ todo[k].event = "started" =>
              /\ todo[k].path.in # "dest"
              /\ \E l \in DOMAIN todo : /\ l > k /\ todo[l].event # "started"
                                        /\ todo[l].first = todo[k].first

\* An artifact is that of the row it was last made of, and its verdict its file's.
ArtHolds(a) ==
    /\ a.rev = 0 <=> a.seen = NoRow
    /\ a.rev = 0 => a = NoArt
    /\ a.rev # 0 => a.status = a.seen.status /\ a.path = a.seen.path
    /\ a.verdict # "" => a.judged = a.path
ArtsHold == \A i \in Ids : ArtHolds(proj[i])

\* The revision that is verified has not come back with another path.
WorkHolds ==
    work.rec # 0 =>
      /\ work.rec \in DOMAIN rows
      /\ work.rev <= proj[work.rec].rev
      /\ work.rev = proj[work.rec].rev => work.path = proj[work.rec].path

JobsHold ==
    /\ \A j, k \in jobs : (j.rec = k.rec /\ j.rev = k.rev) => j = k
    /\ \A j \in jobs : j.rec \in DOMAIN rows /\ j.rev # 0
    /\ \A i \in Ids : bound[i] # 0 => \E j \in jobs : j.rec = i /\ j.rev = bound[i]

Follows(i) == proj[i].status = rows[i].status /\ proj[i].path = rows[i].path

\* A thread that projects has imported what it is past; the newest rows, if none
\* changed and none is projected by another since it began.
SyncHolds(t) ==
    /\ sync[t].rec \in {0} \cup DOMAIN rows
    /\ sync[t].pc # "import" => sync[t].next = 1
    /\ sync[t].pc = "import" =>
         /\ Len(sync[t].snap) <= Len(rows) /\ sync[t].rec <= Len(sync[t].snap)
         /\ sync[t].next <= Len(sync[t].snap) + 1
         /\ \A i \in 1..(sync[t].next - 1) : proj[i].rev # 0
         /\ clean => sync[t].snap = rows
    /\ sync[t].pc = "queue" => sync[t].rec # 0 /\ proj[sync[t].rec].rev # 0
    /\ sync[t].solo =>
         /\ sync[t].pc = "import" /\ sync[t].snap = rows
         /\ \A i \in 1..(sync[t].next - 1) : Follows(i)
         /\ \A u \in Threads \ {t} : sync[u].pc # "import"
SyncsHold == \A t \in Threads : SyncHolds(t)

\* Without a fault: who says recording is being recorded, or will be told of its
\* end; what is completed is queued, or the event loop is about to queue it.
EndsAt(i) ==
    \/ cap.on /\ ~cap.split /\ File(rows[i].path) = <<cap.first, 0>>
    \/ \E k \in DOMAIN todo : /\ todo[k].event # "started"
                              /\ File(rows[i].path) = <<todo[k].first, 0>>
SettlementHolds ==
    Undisturbed =>
      \A i \in DOMAIN rows :
        /\ rows[i].status = "recording" => EndsAt(i)
        /\ rows[i].status = "completed" =>
             bound[i] # 0 \/ (sync[Loop].pc # "idle" /\ sync[Loop].rec = i)

CatalogueIInv ==
    /\ Typed /\ RowsHold /\ FilesAreFew /\ EventsHold /\ ArtsHold /\ WorkHolds
    /\ JobsHold /\ SyncsHold /\ ProjectionFollows /\ SettlementHolds

\* On top of it, what the automatic verification of an ended capture relies on.
PastTyped == reused \subseteq Ids /\ raced \subseteq Ids

\* A capture begins when the event loop is done with the last one.
LoopWaits == cap.on => LoopFree

\* A job is about the file that the artifact had at its revision.
JobsAreAbout ==
    \A j \in jobs : /\ j.rev <= proj[j.rec].rev
                    /\ j.rev = proj[j.rec].rev => j.about = proj[j.rec].path

\* A file ends once.
EventsOnce ==
    \A k, l \in DOMAIN todo :
      ( /\ todo[k].event # "started" /\ todo[l].event # "started"
        /\ todo[k].first = todo[l].first ) => k = l

\* The row that a capture or an end is about says recording, or will by then.
Announced(k) ==
    \E l \in DOMAIN todo : l < k /\ todo[l].event = "started" /\ todo[l].first = todo[k].first
RecordingIsOnRecord ==
    Undisturbed =>
      \A i \in DOMAIN rows :
        /\ (cap.on /\ ~cap.split /\ cap.first = rows[i].key) => rows[i].status = "recording"
        /\ \A k \in DOMAIN todo :
             (todo[k].event # "started" /\ todo[k].first = rows[i].key)
               => rows[i].status = "recording" \/ Announced(k)

\* A row that was not taken over has its key free until its verification is queued.
Pending(i) == sync[Loop].pc # "idle" /\ sync[Loop].rec = i
KeysAreFree ==
    Undisturbed =>
      \A i \in DOMAIN rows \ reused :
        /\ rows[i].status = "recording" => bound[i] = 0
        /\ Pending(i) => rows[i].status = "completed" /\ bound[i] = 0

\* What is completed is queued under the file it has, or about to be.
CompletedIsQueued ==
    Undisturbed =>
      \A i \in DOMAIN rows \ (reused \cup raced) :
        rows[i].status = "completed" => Settled(i) \/ Pending(i)

\* The projection that goes before it takes the row as it is, and no thread has
\* another one of it to take.
Fresh(i) == \A u \in Importing(i) : sync[u].snap[i].path = rows[i].path
Taken(i) ==
    \/ sync[Loop].pc = "import" /\ sync[Loop].next <= i
    \/ proj[i].path = rows[i].path
ProjectedAsItIs ==
    Undisturbed =>
      \A i \in DOMAIN rows \ (reused \cup raced) :
        (Pending(i) /\ sync[Loop].pc \in {"import", "queue"}) => Fresh(i) /\ Taken(i)

QueueIInv ==
    /\ PastTyped /\ LoopWaits /\ JobsAreAbout /\ EventsOnce /\ RecordingIsOnRecord
    /\ KeysAreFree /\ CompletedIsQueued /\ ProjectedAsItIs

-----------------------------------------------------------------------------

LEMMA ConstantsAre ==
  /\ MaxCaptures \in Nat /\ MaxNotes \in Nat /\ MaxSyncs \in Nat /\ MaxFaults \in Nat
  /\ Len(Names) \in Nat /\ Len(Names) >= 1 /\ DOMAIN Names = 1..Len(Names)
  /\ Len(Parts) \in Nat /\ DOMAIN Parts = 1..Len(Parts)
  /\ Names[1] \in Bases /\ (\A k \in DOMAIN Names : Names[k] \in Bases)
  /\ \A k \in DOMAIN Parts : Parts[k] \in Bases
  /\ Moves \in BOOLEAN /\ Loop \in Threads /\ Loop \notin Helpers
<1>1. Names \in Seq(ToSet(Names)) /\ Parts \in Seq(ToSet(Parts)) /\ Names # << >>
  BY CatalogueAssumption
<1>2. /\ Len(Names) \in Nat /\ Len(Names) >= 1 /\ DOMAIN Names = 1..Len(Names)
      /\ Len(Parts) \in Nat /\ DOMAIN Parts = 1..Len(Parts)
  BY <1>1
<1>3. QED
  BY <1>2, CatalogueAssumption DEF ToSet, Bases, Threads

LEMMA BasesAreFinite == IsFiniteSet(Bases) /\ MaxRows \in Nat
<1>1. ASSUME NEW s, NEW n \in Nat, DOMAIN s = 1..n PROVE IsFiniteSet(ToSet(s))
  <2> DEFINE f == [i \in 1..n |-> s[i]]
  <2>1. f \in Surjection(1..n, ToSet(s))
    BY <1>1 DEF Surjection, ToSet
  <2>2. IsFiniteSet(1..n)
    BY <1>1, FS_Interval
  <2>3. QED
    BY <2>1, <2>2, FS_Surjection
<1>2. IsFiniteSet(ToSet(Names)) /\ IsFiniteSet(ToSet(Parts))
  BY <1>1, ConstantsAre
<1>3. QED
  BY <1>2, FS_Union, FS_CardinalityType DEF Bases, MaxRows

LEMMA NatsHaveLeast ==
  ASSUME NEW S, S \subseteq Nat, S # {}
  PROVE  \E x \in S : \A y \in S : x <= y
<1>1. PICK x \in S : \A y \in S : ~(<<y, x>> \in OpToRel(<, Nat))
  BY WFMin, NatLessThanWellFounded, Zenon
<1>2. \A y \in S : x <= y
  <2>1. SUFFICES ASSUME NEW y \in S PROVE ~(y < x)
    BY SMT
  <2>2. <<y, x>> \in Nat \X Nat /\ ~(<<y, x>> \in OpToRel(<, Nat))
    BY <1>1
  <2>3. QED
    BY <2>2, SMT DEF OpToRel
<1>3. QED
  BY <1>2

LEMMA OutIsPath ==
  \A b \in Bases : Out(b) \in Path /\ Out(b).base = b /\ Out(b).in = "out" /\ Out(b).n = 0
BY ConstantsAre DEF Out, Path

LEMMA IntervalIs ==
  ASSUME NEW m \in Nat
  PROVE  IsFiniteSet(1..m) /\ Cardinality(1..m) = m
<1>1. IsFiniteSet(1..m) /\ Cardinality(1..m) = IF 1 > m THEN 0 ELSE m - 1 + 1
  <2>1. m \in Int /\ 1 \in Int
    OBVIOUS
  <2>2. QED
    BY <2>1, FS_Interval, ZenonT(60)
<1>2. QED
  BY <1>1

\* uniqueFilename finds a name: there are more of them than files.
LEMMA FreeNameIs ==
  ASSUME FilesAreFew, disk \subseteq Path, spent.captures \in Nat, spent.captures < MaxCaptures
  PROVE  FreeName \in ToSet(Names) /\ FreeName \in Bases /\ Out(FreeName) \notin disk
<1> DEFINE F == {k \in DOMAIN Names : Out(Names[k]) \notin disk}
<1>1. F # {}
  <2> SUFFICES ASSUME F = {} PROVE FALSE
    OBVIOUS
  <2> DEFINE g == [k \in 1..Len(Names) |-> Out(Names[k])]
  <2>1. \A k \in 1..Len(Names) : Out(Names[k]) \in Singles
    BY ConstantsAre, OutIsPath DEF Singles
  <2>2. \A k, l \in 1..Len(Names) : Out(Names[k]) = Out(Names[l]) => k = l
    <3>1. \A k, l \in 1..Len(Names) : Names[k] = Names[l] => k = l
      BY ConstantsAre, CatalogueAssumption DEF IsInjective
    <3>2. QED
      BY <3>1, ConstantsAre, OutIsPath
  <2>3. g \in Injection(1..Len(Names), Singles)
    BY <2>1, <2>2 DEF Injection, IsInjective
  <2>4. Cardinality(1..Len(Names)) <= Cardinality(Singles)
    BY <2>3, FS_Injection DEF FilesAreFew
  <2>5. Cardinality(1..Len(Names)) = Len(Names) /\ Cardinality(Singles) \in Nat
    <3>1. Cardinality(1..Len(Names)) = Len(Names)
      BY ConstantsAre, IntervalIs
    <3>2. Cardinality(Singles) \in Nat
      BY FS_CardinalityType DEF FilesAreFew
    <3>3. QED
      BY <3>1, <3>2
  <2>6. QED
    BY <2>4, <2>5, ConstantsAre, CatalogueAssumption DEF FilesAreFew
<1>2. PICK k \in F : \A l \in F : k <= l
  <2>1. F \subseteq Nat
    BY ConstantsAre
  <2> HIDE DEF F
  <2>2. QED
    BY <1>1, <2>1, NatsHaveLeast
<1>3. k \in DOMAIN Names /\ Out(Names[k]) \notin disk
      /\ \A l \in 1..(k - 1) : Out(Names[l]) \in disk
  <2> SUFFICES ASSUME NEW l \in 1..(k - 1) PROVE l \in DOMAIN Names /\ ~(k <= l)
    BY <1>2
  <2>1. QED
    BY ConstantsAre
<1>4. QED
  BY <1>3, ConstantsAre DEF FreeName, ToSet

\* moveDirectory finds a place: every file there was an output once.
LEMMA FreeDestIs ==
  ASSUME FilesAreFew, disk \subseteq Path, spent.captures \in 0..MaxCaptures, NEW b \in Bases
  PROVE  /\ FreeDest(b) \in Path /\ FreeDest(b) \notin disk
         /\ FreeDest(b).base = b /\ FreeDest(b).in = "dest"
<1> DEFINE at(n) == [base |-> b, in |-> "dest", n |-> n]
           F == {n \in 0..MaxCaptures : at(n) \notin disk}
<1>0. /\ \A n \in 0..MaxCaptures : at(n) \in Path
      /\ \A n : at(n).n = n /\ at(n).base = b /\ at(n).in = "dest"
  BY DEF Path
<1>1. F # {}
  <2> SUFFICES ASSUME F = {} PROVE FALSE
    OBVIOUS
  <2> DEFINE g == [n \in 0..MaxCaptures |-> at(n)]
  <2>1. \A n \in 0..MaxCaptures : at(n) \in Singles
    BY <1>0 DEF Singles
  <2>2. \A n, m \in 0..MaxCaptures : at(n) = at(m) => n = m
    BY <1>0
  <2> HIDE DEF at
  <2>3. g \in Injection(0..MaxCaptures, Singles)
    BY <2>1, <2>2 DEF Injection, IsInjective
  <2>4. Cardinality(0..MaxCaptures) <= Cardinality(Singles)
    BY <2>3, FS_Injection DEF FilesAreFew
  <2>5. Cardinality(0..MaxCaptures) = MaxCaptures + 1 /\ Cardinality(Singles) \in Nat
    <3>1. 0 \in Int /\ MaxCaptures \in Int /\ ~(0 > MaxCaptures)
      BY ConstantsAre
    <3>2. Cardinality(0..MaxCaptures) = IF 0 > MaxCaptures THEN 0 ELSE MaxCaptures - 0 + 1
      BY <3>1, FS_Interval, ZenonT(60)
    <3>3. Cardinality(Singles) \in Nat
      BY FS_CardinalityType DEF FilesAreFew
    <3>4. QED
      BY <3>1, <3>2, <3>3
  <2>6. QED
    BY <2>4, <2>5, ConstantsAre DEF FilesAreFew
<1>2. PICK n \in F : \A m \in F : n <= m
  <2>1. F \subseteq Nat
    BY ConstantsAre
  <2> HIDE DEF F
  <2>2. QED
    BY <1>1, <2>1, NatsHaveLeast
<1>3. /\ at(n) \in {q \in Path : q.base = b /\ q.in = "dest"} /\ at(n) \notin disk
      /\ \A k \in 0..(at(n).n - 1) : [at(n) EXCEPT !.n = k] \in disk
  <2>1. ASSUME NEW k \in 0..(n - 1) PROVE [at(n) EXCEPT !.n = k] \in disk
    <3>1. k \in 0..MaxCaptures /\ ~(n <= k)
      BY <2>1, ConstantsAre
    <3>2. [at(n) EXCEPT !.n = k] = at(k)
      OBVIOUS
    <3>3. QED
      BY <3>1, <3>2, <1>2
  <2>2. QED
    BY <1>0, <1>2, <2>1
<1>4. \E p \in {q \in Path : q.base = b /\ q.in = "dest"} :
         p \notin disk /\ \A k \in 0..(p.n - 1) : [p EXCEPT !.n = k] \in disk
  BY <1>3
<1> HIDE DEF at
<1>5. QED
  BY <1>4 DEF FreeDest

-----------------------------------------------------------------------------
(* What an event makes of the rows.                                        *)

LEMMA CountIs ==
  ASSUME NEW r \in Seq(Row), NEW of
  PROVE  LET S == {i \in DOMAIN r : r[i].of = of} IN
         IsFiniteSet(S) /\ Cardinality(S) \in Nat /\ Cardinality(S) <= Len(r)
<1> DEFINE S == {i \in DOMAIN r : r[i].of = of}
<1>1. DOMAIN r = 1..Len(r) /\ Len(r) \in Nat
  OBVIOUS
<1>2. IsFiniteSet(1..Len(r)) /\ Cardinality(1..Len(r)) = Len(r)
  BY <1>1, IntervalIs
<1>3. S \in SUBSET (1..Len(r))
  BY <1>1
<1> HIDE DEF S
<1>4. IsFiniteSet(S) /\ Cardinality(S) <= Len(r)
  BY <1>2, <1>3, FS_Subset
<1>5. QED
  BY <1>4, FS_CardinalityType DEF S

LEMMA RowFields ==
  ASSUME NEW r \in Row
  PROVE  /\ r.key \in Bases /\ r.of \in Broadcasts /\ r.index \in Ids /\ r.index \in Nat
         /\ r.path \in Path /\ r.status \in Statuses /\ r.note \in 0..MaxNotes
         /\ r # NoRow
BY BasesAreFinite DEF Row, Ids, Statuses, NoRow

LEMMA RowsAre ==
  ASSUME NEW r \in Seq(Row)
  PROVE  Len(r) \in Nat /\ DOMAIN r = 1..Len(r) /\ \A i \in DOMAIN r : r[i] \in Row
OBVIOUS

\* Rows that keep their key, broadcast and index.
LEMMA IdentitiesStay ==
  ASSUME rows \in Seq(Row), RowsHold, rows' \in Seq(Row), Len(rows') = Len(rows),
         \A i \in DOMAIN rows : /\ rows'[i].key = rows[i].key /\ rows'[i].of = rows[i].of
                                /\ rows'[i].index = rows[i].index
                                /\ rows'[i].path.base = rows[i].key
                                /\ rows'[i].note <= spent'.notes
  PROVE  RowsHold'
<1>1. DOMAIN rows' = DOMAIN rows
  OBVIOUS
<1>2. ASSUME NEW of PROVE Counted(of)' = Counted(of)
  <2>1. {i \in DOMAIN rows' : rows'[i].of = of} = {i \in DOMAIN rows : rows[i].of = of}
    BY <1>1
  <2>2. QED
    BY <2>1 DEF Counted
<1>3. QED
  BY <1>1, <1>2 DEF RowsHold

\* A start takes over the row of its name or appends one.
LEMMA StartedRows ==
  ASSUME rows \in Seq(Row), Len(rows) <= MaxRows, RowsHold, NEW e \in EventType,
         e.path.base = e.first, rows' = WithStart(e), spent'.notes = spent.notes,
         spent.notes \in Nat
  PROVE  /\ rows' \in Seq(Row) /\ Len(rows') <= MaxRows /\ Len(rows') >= Len(rows) /\ RowsHold'
         /\ \A i \in DOMAIN rows' :
              \/ rows'[i].status = "recording" /\ rows'[i].path = e.path
              \/ i \in DOMAIN rows /\ rows'[i] = rows[i]
<1>0. /\ e.first \in Bases /\ e.path \in Path /\ e.of \in Broadcasts
      /\ Len(rows) \in Nat /\ DOMAIN rows = 1..Len(rows)
  BY DEF EventType
<1>1. CASE \E i \in DOMAIN rows : rows[i].key = e.first
  <2>1. rows' = [i \in DOMAIN rows |->
                   IF rows[i].key = e.first
                   THEN [rows[i] EXCEPT !.path = e.path, !.status = "recording"] ELSE rows[i]]
    BY <1>1 DEF WithStart
  <2>2. \A i \in DOMAIN rows :
          /\ rows'[i] \in Row
          /\ \/ rows[i].key # e.first /\ rows'[i] = rows[i]
             \/ /\ rows[i].key = e.first
                /\ rows'[i].key = rows[i].key /\ rows'[i].of = rows[i].of
                /\ rows'[i].index = rows[i].index /\ rows'[i].note = rows[i].note
                /\ rows'[i].status = "recording" /\ rows'[i].path = e.path
    <3> SUFFICES ASSUME NEW i \in DOMAIN rows
                 PROVE  /\ rows'[i] \in Row
                        /\ \/ rows[i].key # e.first /\ rows'[i] = rows[i]
                           \/ /\ rows[i].key = e.first
                              /\ rows'[i].key = rows[i].key /\ rows'[i].of = rows[i].of
                              /\ rows'[i].index = rows[i].index /\ rows'[i].note = rows[i].note
                              /\ rows'[i].status = "recording" /\ rows'[i].path = e.path
      OBVIOUS
    <3>1. rows[i] \in Row /\ "recording" \in Statuses
      BY DEF Statuses
    <3>2. CASE rows[i].key = e.first
      <4>1. rows'[i] = [rows[i] EXCEPT !.path = e.path, !.status = "recording"]
        BY <2>1, <3>2
      <4>2. /\ rows'[i] \in Row /\ rows'[i].path = e.path /\ rows'[i].status = "recording"
            /\ rows'[i].key = rows[i].key /\ rows'[i].of = rows[i].of
            /\ rows'[i].index = rows[i].index /\ rows'[i].note = rows[i].note
        BY <1>0, <3>1, <4>1 DEF Row, Statuses
      <4>3. QED
        BY <3>2, <4>2
    <3>3. CASE rows[i].key # e.first
      BY <2>1, <3>1, <3>3
    <3>4. QED
      BY <3>2, <3>3
  <2>3. DOMAIN rows' = 1..Len(rows)
    BY <1>0, <2>1
  <2>4. rows' \in Seq(Row) /\ Len(rows') = Len(rows)
    <3>1. rows' = [i \in 1..Len(rows) |-> rows'[i]]
      BY <1>0, <2>1
    <3>2. \A i \in 1..Len(rows) : rows'[i] \in Row
      BY <1>0, <2>2
    <3>3. QED
      BY <1>0, <3>1, <3>2
  <2>5. RowsHold'
    BY <2>2, <2>4, IdentitiesStay DEF RowsHold
  <2>6. QED
    BY <1>0, <2>2, <2>3, <2>4, <2>5
<1>2. CASE ~\E i \in DOMAIN rows : rows[i].key = e.first
  <2> DEFINE n == Len(rows) + 1
             r == [key |-> e.first, of |-> e.of, index |-> SegmentIndex(e.of),
                   path |-> e.path, status |-> "recording", note |-> 0]
  <2>1. rows' = Append(rows, r)
    BY <1>2 DEF WithStart
  <2>2. Counted(e.of) \in Nat /\ Counted(e.of) <= Len(rows) /\ \A of : Counted(of) \in Nat
    BY CountIs DEF Counted
  <2>3. /\ r.key = e.first /\ r.of = e.of /\ r.index = Counted(e.of) + 1
        /\ r.path = e.path /\ r.status = "recording" /\ r.note = 0
    BY DEF SegmentIndex
  <2>r. r = [key |-> e.first, of |-> e.of, index |-> Counted(e.of) + 1,
             path |-> e.path, status |-> "recording", note |-> 0]
    BY DEF SegmentIndex
  <2> HIDE DEF r
  <2>4. /\ DOMAIN rows' = 1..n /\ Len(rows') = n /\ n \in Nat
        /\ rows'[n] = r /\ \A i \in DOMAIN rows : rows'[i] = rows[i] /\ i # n /\ i \in 1..n
        /\ \A i \in 1..n : i = n \/ i \in DOMAIN rows
    BY <1>0, <2>1
  <2>5. \A i, k \in 1..n : i # k => rows'[i].key # rows'[k].key
    BY <1>2, <2>3, <2>4 DEF RowsHold
  <2>6. Len(rows) + 1 <= MaxRows
    <3> DEFINE f == [i \in 1..n |-> rows'[i].key]
    <3>0. \A i \in DOMAIN rows : rows[i].key \in Bases
      BY RowsAre, RowFields
    <3>1. \A i \in 1..n : rows'[i].key \in Bases
      BY <1>0, <2>3, <2>4, <3>0
    <3>2. f \in Injection(1..n, Bases)
      BY <2>5, <3>1 DEF Injection, IsInjective
    <3>3. Cardinality(1..n) <= Cardinality(Bases)
      BY <3>2, BasesAreFinite, FS_Injection
    <3>4. Cardinality(1..n) = n
      <4> HIDE DEF n
      <4>1. n \in Nat
        BY <1>0 DEF n
      <4>2. QED
        BY <4>1, IntervalIs
    <3>5. QED
      BY <3>3, <3>4 DEF MaxRows
  <2>7. r \in Row
    BY <1>0, <2>2, <2>r, <2>6, ConstantsAre, BasesAreFinite DEF Row, Ids
  <2>8. rows' \in Seq(Row)
    BY <2>1, <2>7
  <2>9. /\ \A of : of # e.of => Counted(of)' = Counted(of)
        /\ Counted(e.of)' = Counted(e.of) + 1
    <3>1. ASSUME NEW of, of # e.of PROVE Counted(of)' = Counted(of)
      <4>1. {i \in DOMAIN rows' : rows'[i].of = of} = {i \in DOMAIN rows : rows[i].of = of}
        BY <2>3, <2>4, <3>1
      <4>2. QED
        BY <4>1 DEF Counted
    <3>2. {i \in DOMAIN rows' : rows'[i].of = e.of} = {i \in DOMAIN rows : rows[i].of = e.of} \cup {n}
      BY <2>3, <2>4
    <3>3. n \notin {i \in DOMAIN rows : rows[i].of = e.of}
      BY <2>4
    <3>4. Cardinality({i \in DOMAIN rows : rows[i].of = e.of} \cup {n})
            = Cardinality({i \in DOMAIN rows : rows[i].of = e.of}) + 1
      <4>1. IsFiniteSet({i \in DOMAIN rows : rows[i].of = e.of})
        BY CountIs
      <4>2. QED
        BY <3>3, <4>1, FS_AddElement
    <3>5. QED
      BY <3>1, <3>2, <3>4 DEF Counted
  <2>10. \A of : Counted(of) <= Counted(of)'
    BY <2>2, <2>9
  <2>11. ASSUME NEW i \in DOMAIN rows'
         PROVE  /\ rows'[i].path.base = rows'[i].key
                /\ rows'[i].index <= Counted(rows[i].of)'
                /\ rows'[i].note <= spent'.notes
    <3>1. CASE i = n
      <4>1. rows'[i] = r /\ Counted(rows[i].of)' = Counted(e.of) + 1
        BY <2>3, <2>4, <2>9, <3>1
      <4>2. QED
        BY <2>2, <2>3, <4>1
    <3>2. CASE i \in DOMAIN rows
      <4>1. /\ rows[i].path.base = rows[i].key /\ rows[i].index <= Counted(rows[i].of)
            /\ rows[i].note <= spent.notes /\ rows[i].index \in Nat
        BY <3>2, RowsAre, RowFields DEF RowsHold
      <4>2. \E of : /\ of = rows[i].of /\ of = rows'[i].of /\ Counted(of) <= Counted(of)'
                    /\ Counted(of) \in Nat /\ Counted(of)' \in Nat
        BY <2>2, <2>4, <2>9, <3>2
      <4>3. rows'[i] = rows[i]
        BY <2>4, <3>2
      <4>4. QED
        BY <4>1, <4>2, <4>3
    <3>3. QED
      BY <2>4, <3>1, <3>2
  <2>12. ASSUME NEW i \in DOMAIN rows, rows[i].of = e.of PROVE rows[i].index # r.index
    BY <2>2, <2>3, <2>12, RowsAre, RowFields DEF RowsHold
  <2>13. \A i, k \in 1..n : i # k /\ rows'[i].of = rows'[k].of => rows'[i].index # rows'[k].index
    BY <2>3, <2>4, <2>12 DEF RowsHold
  <2>14. RowsHold'
    BY <2>4, <2>5, <2>11, <2>13 DEF RowsHold
  <2>15. \A i \in DOMAIN rows' :
              \/ rows'[i].status = "recording" /\ rows'[i].path = e.path
              \/ i \in DOMAIN rows /\ rows'[i] = rows[i]
    BY <2>3, <2>4
  <2>16. QED
    BY <2>4, <2>6, <2>8, <2>14, <2>15
<1>3. QED
  BY <1>1, <1>2

\* An end changes the rows that have its first name as file name.
LEMMA EndedRows ==
  ASSUME rows \in Seq(Row), Len(rows) <= MaxRows, RowsHold, NEW e \in EventType,
         e.event # "started", e.path.base = e.first, rows' = WithEnd(e),
         spent'.notes = spent.notes
  PROVE  /\ rows' \in Seq(Row) /\ Len(rows') = Len(rows) /\ RowsHold'
         /\ \A i \in DOMAIN rows :
              IF IsEndOf(e, i)
              THEN /\ rows'[i].path = e.path
                   /\ rows'[i].status = IF e.event = "stopped" THEN "completed" ELSE "failed"
              ELSE rows'[i] = rows[i]
<1>0. e.path \in Path /\ Len(rows) \in Nat /\ DOMAIN rows = 1..Len(rows)
  BY DEF EventType
<1>1. \A i \in DOMAIN rows : IsEndOf(e, i) => rows[i].key = e.first
  BY DEF IsEndOf, File, RowsHold
<1>2. \A i \in DOMAIN rows :
        /\ rows'[i] \in Row
        /\ \/ ~IsEndOf(e, i) /\ rows'[i] = rows[i]
           \/ /\ IsEndOf(e, i)
              /\ rows'[i].key = rows[i].key /\ rows'[i].of = rows[i].of
              /\ rows'[i].index = rows[i].index /\ rows'[i].note = rows[i].note
              /\ rows'[i].path = e.path
              /\ rows'[i].status = IF e.event = "stopped" THEN "completed" ELSE "failed"
  <2> DEFINE s == IF e.event = "stopped" THEN "completed" ELSE "failed"
  <2> SUFFICES ASSUME NEW i \in DOMAIN rows
               PROVE  /\ rows'[i] \in Row
                      /\ \/ ~IsEndOf(e, i) /\ rows'[i] = rows[i]
                         \/ /\ IsEndOf(e, i)
                            /\ rows'[i].key = rows[i].key /\ rows'[i].of = rows[i].of
                            /\ rows'[i].index = rows[i].index /\ rows'[i].note = rows[i].note
                            /\ rows'[i].path = e.path /\ rows'[i].status = s
    OBVIOUS
  <2>1. rows[i] \in Row /\ s \in Statuses
    BY DEF Statuses
  <2>2. CASE IsEndOf(e, i)
    <3>1. rows'[i] = [rows[i] EXCEPT !.path = e.path, !.status = s]
      BY <2>2 DEF WithEnd
    <3> HIDE DEF s
    <3>2. /\ rows'[i] \in Row /\ rows'[i].path = e.path /\ rows'[i].status = s
          /\ rows'[i].key = rows[i].key /\ rows'[i].of = rows[i].of
          /\ rows'[i].index = rows[i].index /\ rows'[i].note = rows[i].note
      BY <1>0, <2>1, <3>1 DEF Row, Statuses
    <3>3. QED
      BY <2>2, <3>2
  <2>3. CASE ~IsEndOf(e, i)
    BY <2>1, <2>3 DEF WithEnd
  <2>4. QED
    BY <2>2, <2>3
<1>3. DOMAIN rows' = 1..Len(rows)
  BY <1>0 DEF WithEnd
<1>4. rows' \in Seq(Row) /\ Len(rows') = Len(rows)
  <2>1. rows' = [i \in 1..Len(rows) |-> rows'[i]]
    BY <1>0 DEF WithEnd
  <2>2. \A i \in 1..Len(rows) : rows'[i] \in Row
    BY <1>0, <1>2
  <2>3. QED
    BY <1>0, <2>1, <2>2
<1>5. RowsHold'
  BY <1>1, <1>2, <1>4, IdentitiesStay DEF RowsHold
<1>6. QED
  BY <1>2, <1>4, <1>5

-----------------------------------------------------------------------------
(* What stays while others step.                                           *)

LEMMA TypesAre ==
  ASSUME Typed
  PROVE  /\ Len(rows) \in Nat /\ DOMAIN rows = 1..Len(rows) /\ DOMAIN rows \subseteq Ids
         /\ \A i \in DOMAIN rows : rows[i] \in Row
         /\ \A i \in Ids : proj[i] \in Art
         /\ \A t \in Threads : sync[t] \in Sync
         /\ spent.captures \in 0..MaxCaptures /\ spent.notes \in 0..MaxNotes
         /\ spent.syncs \in Nat /\ spent.faults \in Nat
         /\ MaxRows \in Nat /\ Ids \subseteq Nat
BY BasesAreFinite DEF Typed, SpentType, Ids

LEMMA SyncFields ==
  ASSUME NEW s \in Sync
  PROVE  /\ s.pc \in {"idle", "asked", "import", "queue"} /\ s.snap \in Seq(Row)
         /\ s.next \in Nat \ {0} /\ s.rec \in {0} \cup Ids /\ s.solo \in BOOLEAN
BY DEF Sync

LEMMA NoSyncIs ==
  /\ NoSync \in Sync /\ NoSync.pc = "idle" /\ NoSync.next = 1 /\ NoSync.rec = 0
  /\ NoSync.solo = FALSE /\ NoSync.snap = << >>
BY DEF NoSync, Sync

\* A thread's place in its projection, while the rows and the artifacts change.
LEMMA SyncStays ==
  ASSUME NEW t \in Threads, SyncHolds(t), sync[t] \in Sync,
         rows \in Seq(Row), rows' \in Seq(Row), Len(rows) <= Len(rows'), Len(rows) <= MaxRows,
         sync'[t].pc = sync[t].pc, sync'[t].snap = sync[t].snap, sync'[t].next = sync[t].next,
         sync'[t].rec = sync[t].rec,
         sync[t].pc = "import" /\ clean' => sync[t].snap = rows',
         \A i \in Ids : proj[i].rev # 0 => proj'[i].rev # 0,
         sync'[t].solo =>
           /\ sync[t].solo /\ rows' = rows
           /\ \A i \in Ids : Follows(i) => Follows(i)'
           /\ \A u \in Threads \ {t} : sync'[u].pc # "import"
  PROVE  SyncHolds(t)'
<1> DEFINE s == sync[t]
<1>0. /\ s.snap \in Seq(Row) /\ s.next \in Nat \ {0} /\ s.rec \in Nat /\ MaxRows \in Nat
      /\ Len(s.snap) \in Nat /\ Len(rows) \in Nat /\ Len(rows') \in Nat
      /\ DOMAIN rows = 1..Len(rows) /\ DOMAIN rows' = 1..Len(rows')
  BY SyncFields, BasesAreFinite DEF Ids
<1>1. s.pc = "import" => 1..(s.next - 1) \subseteq Ids
  BY <1>0 DEF SyncHolds, Ids
<1>2. s.pc = "queue" => s.rec \in Ids
  BY <1>0 DEF SyncHolds, Ids
<1>3. sync'[t].rec \in {0} \cup DOMAIN rows'
  BY <1>0 DEF SyncHolds
<1>4. sync'[t].pc # "import" => sync'[t].next = 1
  BY DEF SyncHolds
<1>5. sync'[t].pc = "import" =>
         /\ Len(sync'[t].snap) <= Len(rows') /\ sync'[t].rec <= Len(sync'[t].snap)
         /\ sync'[t].next <= Len(sync'[t].snap) + 1
         /\ \A i \in 1..(sync'[t].next - 1) : proj'[i].rev # 0
         /\ clean' => sync'[t].snap = rows'
  BY <1>0, <1>1 DEF SyncHolds
<1>6. sync'[t].pc = "queue" => sync'[t].rec # 0 /\ proj'[sync'[t].rec].rev # 0
  BY <1>2 DEF SyncHolds
<1>7. sync'[t].solo =>
         /\ sync'[t].pc = "import" /\ sync'[t].snap = rows'
         /\ \A i \in 1..(sync'[t].next - 1) : Follows(i)'
         /\ \A u \in Threads \ {t} : sync'[u].pc # "import"
  BY <1>1 DEF SyncHolds
<1>8. QED
  BY <1>3, <1>4, <1>5, <1>6, <1>7 DEF SyncHolds

\* Threads that nothing happened to, when neither rows nor artifacts change.
LEMMA SyncsStay ==
  ASSUME Typed, SyncsHold, UNCHANGED <<rows, proj, sync, clean>>
  PROVE  SyncsHold'
BY DEF SyncsHold, SyncHolds, Follows

LEMMA QuietSync ==
  ASSUME Typed, sync' = [t \in Threads |-> [sync[t] EXCEPT !.solo = FALSE]]
  PROVE  /\ sync' \in [Threads -> Sync]
         /\ \A t \in Threads : /\ sync'[t].pc = sync[t].pc /\ sync'[t].snap = sync[t].snap
                               /\ sync'[t].next = sync[t].next /\ sync'[t].rec = sync[t].rec
                               /\ sync'[t].solo = FALSE
BY ZenonT(40) DEF Typed, Sync

\* Rows that come or change make every projection an old one.
LEMMA RowsChangeKeeps ==
  ASSUME CatalogueIInv, rows' \in Seq(Row), Len(rows) <= Len(rows'), Len(rows') <= MaxRows,
         RowsChange, UNCHANGED <<proj, jobs, bound, work>>
  PROVE  /\ sync' \in [Threads -> Sync] /\ clean' \in BOOLEAN
         /\ ArtsHold' /\ WorkHolds' /\ JobsHold' /\ SyncsHold' /\ ProjectionFollows'
         /\ sync'[Loop].pc = sync[Loop].pc /\ sync'[Loop].rec = sync[Loop].rec
<1>1. /\ sync' \in [Threads -> Sync]
      /\ \A t \in Threads : /\ sync'[t].pc = sync[t].pc /\ sync'[t].snap = sync[t].snap
                            /\ sync'[t].next = sync[t].next /\ sync'[t].rec = sync[t].rec
                            /\ sync'[t].solo = FALSE
  BY QuietSync DEF CatalogueIInv, RowsChange
<1>2. clean' = FALSE
  BY DEF RowsChange
<1>3. DOMAIN rows \subseteq DOMAIN rows'
  <2>1. DOMAIN rows = 1..Len(rows) /\ DOMAIN rows' = 1..Len(rows')
        /\ Len(rows) \in Nat /\ Len(rows') \in Nat
    BY TypesAre DEF CatalogueIInv
  <2>2. QED
    BY <2>1
<1>4. ArtsHold' /\ WorkHolds' /\ JobsHold'
  BY <1>3 DEF CatalogueIInv, ArtsHold, ArtHolds, WorkHolds, JobsHold
<1>5. SyncsHold'
  <2> SUFFICES ASSUME NEW t \in Threads PROVE SyncHolds(t)'
    BY DEF SyncsHold
  <2>1. SyncHolds(t) /\ sync[t] \in Sync /\ rows \in Seq(Row) /\ Len(rows) <= MaxRows
    BY DEF CatalogueIInv, SyncsHold, Typed
  <2>2. QED
    BY <1>1, <1>2, <2>1, SyncStays
<1>6. QED
  BY <1>1, <1>2, <1>4, <1>5, ConstantsAre DEF ProjectionFollows

\* Everything that is read of the rows, their projection and their jobs.
TableVars == <<rows, proj, sync, jobs, bound, work, clean>>

LEMMA TablesStay ==
  ASSUME CatalogueIInv, UNCHANGED TableVars, spent'.notes = spent.notes
  PROVE  RowsHold' /\ ArtsHold' /\ WorkHolds' /\ JobsHold' /\ SyncsHold' /\ ProjectionFollows'
<1>0. UNCHANGED <<rows, proj, sync, jobs, bound, work, clean>>
  BY DEF TableVars
<1>1. RowsHold'
  BY <1>0 DEF CatalogueIInv, RowsHold, Counted
<1>2. ArtsHold' /\ WorkHolds' /\ ProjectionFollows'
  BY <1>0 DEF CatalogueIInv, ArtsHold, ArtHolds, WorkHolds, ProjectionFollows
<1>3. JobsHold'
  BY <1>0 DEF CatalogueIInv, JobsHold
<1>4. SyncsHold'
  BY <1>0, SyncsStay DEF CatalogueIInv
<1>5. QED
  BY <1>1, <1>2, <1>3, <1>4

\* What is counted moves one step at a time.
LEMMA SpentMoves ==
  ASSUME spent \in SpentType
  PROVE  /\ (spent.captures < MaxCaptures /\ spent' = [spent EXCEPT !.captures = @ + 1]) =>
            (spent' \in SpentType /\ spent'.captures = spent.captures + 1 /\ spent'.notes = spent.notes
             /\ spent'.syncs = spent.syncs /\ spent'.faults = spent.faults)
         /\ (spent.captures < MaxCaptures /\ spent' = [spent EXCEPT !.captures = @ + 1, !.faults = @ + 1]) =>
            (spent' \in SpentType /\ spent'.captures = spent.captures + 1 /\ spent'.notes = spent.notes
             /\ spent'.syncs = spent.syncs /\ spent'.faults = spent.faults + 1)
         /\ (spent.notes < MaxNotes /\ spent' = [spent EXCEPT !.notes = @ + 1]) =>
            (spent' \in SpentType /\ spent'.captures = spent.captures /\ spent'.notes = spent.notes + 1
             /\ spent'.syncs = spent.syncs /\ spent'.faults = spent.faults)
         /\ (spent' = [spent EXCEPT !.syncs = @ + 1]) =>
            (spent' \in SpentType /\ spent'.captures = spent.captures /\ spent'.notes = spent.notes
             /\ spent'.syncs = spent.syncs + 1 /\ spent'.faults = spent.faults)
         /\ (spent' = [spent EXCEPT !.faults = @ + 1]) =>
            (spent' \in SpentType /\ spent'.captures = spent.captures /\ spent'.notes = spent.notes
             /\ spent'.syncs = spent.syncs /\ spent'.faults = spent.faults + 1)
<1>1. (spent.captures < MaxCaptures /\ spent' = [spent EXCEPT !.captures = @ + 1]) =>
      (spent' \in SpentType /\ spent'.captures = spent.captures + 1 /\ spent'.notes = spent.notes
       /\ spent'.syncs = spent.syncs /\ spent'.faults = spent.faults)
  BY ConstantsAre DEF SpentType
<1>2. (spent.captures < MaxCaptures /\ spent' = [spent EXCEPT !.captures = @ + 1, !.faults = @ + 1]) =>
      (spent' \in SpentType /\ spent'.captures = spent.captures + 1 /\ spent'.notes = spent.notes
       /\ spent'.syncs = spent.syncs /\ spent'.faults = spent.faults + 1)
  <2> DEFINE c == spent.captures + 1
             f == spent.faults + 1
  <2>1. spent.captures < MaxCaptures => c \in 0..MaxCaptures /\ f \in Nat
    BY ConstantsAre DEF SpentType
  <2> HIDE DEF c, f
  <2>2. (spent.captures < MaxCaptures /\ spent' = [spent EXCEPT !.captures = c, !.faults = f]) =>
        (spent' \in SpentType /\ spent'.captures = c /\ spent'.notes = spent.notes
         /\ spent'.syncs = spent.syncs /\ spent'.faults = f)
    BY <2>1 DEF SpentType
  <2>3. QED
    BY <2>2 DEF c, f
<1>3. (spent.notes < MaxNotes /\ spent' = [spent EXCEPT !.notes = @ + 1]) =>
      (spent' \in SpentType /\ spent'.captures = spent.captures /\ spent'.notes = spent.notes + 1
       /\ spent'.syncs = spent.syncs /\ spent'.faults = spent.faults)
  BY ConstantsAre DEF SpentType
<1>4. (spent' = [spent EXCEPT !.syncs = @ + 1]) =>
      (spent' \in SpentType /\ spent'.captures = spent.captures /\ spent'.notes = spent.notes
       /\ spent'.syncs = spent.syncs + 1 /\ spent'.faults = spent.faults)
  BY ConstantsAre DEF SpentType
<1>5. (spent' = [spent EXCEPT !.faults = @ + 1]) =>
      (spent' \in SpentType /\ spent'.captures = spent.captures /\ spent'.notes = spent.notes
       /\ spent'.syncs = spent.syncs /\ spent'.faults = spent.faults + 1)
  BY ConstantsAre DEF SpentType
<1>6. QED
  BY <1>1, <1>2, <1>3, <1>4, <1>5

LEMMA SettlementStays ==
  ASSUME Typed, SettlementHolds, UNCHANGED <<rows, cap, todo>>,
         spent'.faults = 0 => spent.faults = 0,
         \A i \in DOMAIN rows :
           bound[i] # 0 \/ (sync[Loop].pc # "idle" /\ sync[Loop].rec = i)
             => bound'[i] # 0 \/ (sync'[Loop].pc # "idle" /\ sync'[Loop].rec = i)
  PROVE  SettlementHolds'
BY DEF SettlementHolds, Undisturbed, EndsAt

\* An event loop that is free has nothing left to settle.
LEMMA FreeIsSettled ==
  ASSUME SettlementHolds, Undisturbed, LoopFree, ~cap.on
  PROVE  \A i \in DOMAIN rows : /\ rows[i].status # "recording"
                                /\ rows[i].status = "completed" => bound[i] # 0
BY DEF SettlementHolds, LoopFree, EndsAt

-----------------------------------------------------------------------------
(* The engine's steps. *)

LEMMA EventFields ==
  ASSUME NEW e \in EventType
  PROVE  /\ e.event \in {"started", "stopped", "failed"} /\ e.first \in Bases
         /\ e.path \in Path /\ e.of \in Broadcasts
BY DEF EventType

\* The file of a new capture counts for it.
LEMMA OneFileMore ==
  ASSUME FilesAreFew, NEW p, disk' \in {disk, disk \cup {p}},
         spent.captures \in Nat, spent'.captures = spent.captures + 1
  PROVE  FilesAreFew'
<1>1. IsFiniteSet(Singles) /\ Cardinality(Singles) \in Nat /\ Cardinality(Singles) <= spent.captures
  BY FS_CardinalityType DEF FilesAreFew
<1>2. Singles' = Singles \/ Singles' = Singles \cup {p}
  BY DEF Singles
<1>3. IsFiniteSet(Singles \cup {p}) /\ Cardinality(Singles \cup {p}) <= Cardinality(Singles) + 1
  <2>1. /\ IsFiniteSet(Singles \cup {p})
        /\ \/ Cardinality(Singles \cup {p}) = Cardinality(Singles)
           \/ Cardinality(Singles \cup {p}) = Cardinality(Singles) + 1
    BY <1>1, FS_AddElement, Zenon
  <2>2. QED
    BY <1>1, <2>1
<1>4. Cardinality(Singles \cup {p}) \in Nat
  BY <1>3, FS_CardinalityType
<1>5. QED
  BY <1>1, <1>2, <1>3, <1>4 DEF FilesAreFew

LEMMA FilesStay ==
  ASSUME FilesAreFew, Singles' = Singles, spent.captures \in Nat, spent'.captures \in Nat,
         spent.captures <= spent'.captures
  PROVE  FilesAreFew'
<1>1. IsFiniteSet(Singles) /\ Cardinality(Singles) \in Nat /\ Cardinality(Singles) <= spent.captures
  BY FS_CardinalityType DEF FilesAreFew
<1>2. QED
  BY <1>1 DEF FilesAreFew

LEMMA StartsKeeps ==
  ASSUME CatalogueIInv, NEW of \in Broadcasts, Starts(of)
  PROVE  CatalogueIInv'
<1> DEFINE p == Out(FreeName)
           e == [event |-> "started", first |-> FreeName, path |-> p, of |-> of]
<1>1. Typed /\ RowsHold /\ FilesAreFew /\ EventsHold /\ SettlementHolds
  BY DEF CatalogueIInv
<1>2. /\ spent.captures \in Nat /\ spent.notes \in 0..MaxNotes /\ spent.faults \in Nat
      /\ rows \in Seq(Row) /\ Len(rows) <= MaxRows /\ disk \subseteq Path
      /\ spent.syncs \in Nat /\ spent.captures < MaxCaptures /\ MaxCaptures \in Nat /\ MaxNotes \in Nat
  BY <1>1, TypesAre, ConstantsAre DEF Typed, Starts
<1>3. FreeName \in Bases /\ p \in Path /\ p.base = FreeName /\ p.in = "out" /\ p.n = 0
  BY <1>1, <1>2, FreeNameIs, OutIsPath
<1>4. /\ e \in EventType /\ e.event = "started" /\ e.first = FreeName /\ e.path = p
      /\ File(e.path) = <<FreeName, 0>>
  BY <1>3 DEF EventType, File
<1>5. cap' = [on |-> TRUE, of |-> of, split |-> FALSE, first |-> FreeName, path |-> p]
      /\ disk' \in {disk, disk \cup {p}} /\ ~cap.on /\ LoopFree
      /\ UNCHANGED <<todo, proj, jobs, bound, work>>
  BY DEF Starts
<1>6. cap' \in Cap /\ cap'.on /\ ~cap'.split /\ cap'.first = FreeName /\ cap'.path = p
  BY <1>3, <1>5 DEF Cap
<1>7. disk' \subseteq Path
  BY <1>2, <1>3, <1>5
<1>8. EventsHold'
  BY <1>1, <1>3, <1>5, <1>6 DEF EventsHold
<1>9. \/ rows' = WithStart(e) /\ RowsChange /\ spent' = [spent EXCEPT !.captures = @ + 1]
      \/ /\ spent' = [spent EXCEPT !.captures = @ + 1, !.faults = @ + 1]
         /\ UNCHANGED <<rows, clean, sync>>
  BY <1>4 DEF Starts, After
<1>10. /\ spent' \in SpentType /\ spent'.captures = spent.captures + 1
       /\ spent'.notes = spent.notes
       /\ rows' = WithStart(e) /\ RowsChange => spent'.faults = spent.faults \/ spent'.faults # 0
  <2>1. spent \in SpentType
    BY <1>1 DEF Typed
  <2>2. QED
    BY <1>2, <1>9, <2>1, SpentMoves
<1>11. FilesAreFew'
  <2>1. FilesAreFew /\ spent.captures \in Nat /\ spent'.captures = spent.captures + 1
    BY <1>1, <1>2, <1>10
  <2>2. disk' \in {disk, disk \cup {p}}
    BY <1>5
  <2> HIDE DEF e, p
  <2>3. QED
    BY <2>1, <2>2, OneFileMore
<1> HIDE DEF e, p
<1>12. CASE rows' = WithStart(e) /\ RowsChange /\ spent' = [spent EXCEPT !.captures = @ + 1]
  <2>1. /\ rows' \in Seq(Row) /\ Len(rows') <= MaxRows /\ Len(rows') >= Len(rows) /\ RowsHold'
        /\ \A i \in DOMAIN rows' :
              \/ rows'[i].status = "recording" /\ rows'[i].path = e.path
              \/ i \in DOMAIN rows /\ rows'[i] = rows[i]
    BY <1>1, <1>2, <1>3, <1>4, <1>10, <1>12, StartedRows
  <2>2. Len(rows) \in Nat /\ Len(rows') \in Nat
    BY <1>2, <2>1
  <2>3. /\ sync' \in [Threads -> Sync] /\ clean' \in BOOLEAN
        /\ ArtsHold' /\ WorkHolds' /\ JobsHold' /\ SyncsHold' /\ ProjectionFollows'
    BY <1>5, <1>12, <2>1, <2>2, RowsChangeKeeps
  <2>4. Typed'
    BY <1>1, <1>5, <1>6, <1>7, <1>10, <2>1, <2>3 DEF Typed
  <2>5. SettlementHolds'
    <3> SUFFICES ASSUME Undisturbed', NEW i \in DOMAIN rows'
                 PROVE  /\ rows'[i].status = "recording" => EndsAt(i)'
                        /\ rows'[i].status = "completed" =>
                             bound'[i] # 0 \/ (sync'[Loop].pc # "idle" /\ sync'[Loop].rec = i)
      BY DEF SettlementHolds
    <3>1. Undisturbed
      BY <1>1, <1>12 DEF Undisturbed, Typed, SpentType
    <3>2. CASE rows'[i].status = "recording" /\ rows'[i].path = e.path
      BY <1>4, <1>6, <3>2 DEF EndsAt
    <3>3. CASE i \in DOMAIN rows /\ rows'[i] = rows[i]
      BY <1>1, <1>5, <3>1, <3>3, FreeIsSettled
    <3>4. QED
      BY <2>1, <3>2, <3>3
  <2>6. QED
    BY <1>8, <1>11, <2>1, <2>3, <2>4, <2>5 DEF CatalogueIInv
<1>13. CASE /\ spent' = [spent EXCEPT !.captures = @ + 1, !.faults = @ + 1]
            /\ UNCHANGED <<rows, clean, sync>>
  <2>1. spent'.faults # 0
    BY <1>1, <1>2, <1>13 DEF Typed, SpentType
  <2>2. Typed'
    BY <1>1, <1>5, <1>6, <1>7, <1>10, <1>13 DEF Typed
  <2>3. /\ RowsHold' /\ ArtsHold' /\ WorkHolds' /\ JobsHold' /\ SyncsHold' /\ ProjectionFollows'
    BY <1>5, <1>10, <1>13, TablesStay DEF TableVars
  <2>5. SettlementHolds'
    BY <2>1 DEF SettlementHolds, Undisturbed
  <2>6. QED
    BY <1>8, <1>11, <2>2, <2>3, <2>5 DEF CatalogueIInv
<1>14. QED
  BY <1>9, <1>12, <1>13

LEMMA StartsSplitKeeps ==
  ASSUME CatalogueIInv, NEW of \in Broadcasts, StartsSplit(of)
  PROVE  CatalogueIInv'
<1> DEFINE p == [base |-> Parts[1], in |-> "split", n |-> spent.captures]
<1>1. /\ Typed /\ FilesAreFew /\ EventsHold /\ SettlementHolds /\ ~cap.on /\ LoopFree
      /\ UNCHANGED <<rows, disk, todo, proj, sync, jobs, bound, work, clean>>
      /\ cap' = [on |-> TRUE, of |-> of, split |-> TRUE, first |-> Parts[1], path |-> p]
      /\ spent' = [spent EXCEPT !.captures = @ + 1] /\ spent.captures < MaxCaptures
  BY DEF CatalogueIInv, StartsSplit
<1>2. /\ spent.captures \in 0..MaxCaptures /\ spent' \in SpentType
      /\ spent'.captures = spent.captures + 1 /\ spent'.notes = spent.notes
      /\ spent'.faults = spent.faults
  BY <1>1, TypesAre, SpentMoves DEF Typed
<1>3. Parts[1] \in Bases
  <2>1. Parts # << >> /\ Parts \in Seq(ToSet(Parts))
    BY CatalogueAssumption DEF StartsSplit
  <2>2. 1 \in DOMAIN Parts
    BY <2>1, ConstantsAre
  <2>3. QED
    BY <2>2, ConstantsAre
<1>4. p \in Path /\ p.base = Parts[1]
  BY <1>2, <1>3 DEF Path
<1>5. cap' \in Cap /\ cap'.path = p /\ cap'.first = Parts[1] /\ cap'.split
  BY <1>1, <1>3, <1>4 DEF Cap
<1> HIDE DEF p
<1>6. Typed' /\ EventsHold'
  BY <1>1, <1>2, <1>4, <1>5 DEF Typed, EventsHold
<1>7. FilesAreFew'
  BY <1>1, <1>2, FilesStay DEF Singles
<1>8. SettlementHolds'
  BY <1>1, <1>2, FreeIsSettled DEF SettlementHolds, Undisturbed
<1>9. QED
  BY <1>1, <1>2, <1>6, <1>7, <1>8, TablesStay DEF CatalogueIInv, TableVars

-----------------------------------------------------------------------------
(* The steps of the threads that project. *)

\* What the engine has is not touched by the steps of the others.
LEMMA EngineStays ==
  ASSUME CatalogueIInv, UNCHANGED <<rows, disk, cap, todo>>,
         spent'.captures = spent.captures, spent'.notes = spent.notes
  PROVE  RowsHold' /\ FilesAreFew' /\ EventsHold'
<1>1. RowsHold'
  BY DEF CatalogueIInv, RowsHold, Counted
<1>2. FilesAreFew'
  BY DEF CatalogueIInv, FilesAreFew, Singles
<1>3. EventsHold'
  BY DEF CatalogueIInv, EventsHold
<1>4. QED
  BY <1>1, <1>2, <1>3

\* Artifacts and jobs are not touched by a thread that only moves on.
LEMMA ArtifactsStay ==
  ASSUME CatalogueIInv, UNCHANGED <<rows, proj, jobs, bound, work>>
  PROVE  ArtsHold' /\ WorkHolds' /\ JobsHold'
<1>1. ArtsHold'
  BY DEF CatalogueIInv, ArtsHold, ArtHolds
<1>2. WorkHolds'
  BY DEF CatalogueIInv, WorkHolds
<1>3. JobsHold'
  BY DEF CatalogueIInv, JobsHold
<1>4. QED
  BY <1>1, <1>2, <1>3

LEMMA HelperAsksKeeps ==
  ASSUME CatalogueIInv, NEW t \in Helpers, HelperAsks(t)
  PROVE  CatalogueIInv'
<1>1. PICK i \in {0} \cup DOMAIN rows :
        sync' = [sync EXCEPT ![t] = [NoSync EXCEPT !.pc = "asked", !.rec = i]]
  BY DEF HelperAsks
<1>2. /\ sync[t].pc = "idle" /\ spent' = [spent EXCEPT !.syncs = @ + 1]
      /\ UNCHANGED <<rows, disk, cap, todo, proj, jobs, bound, work, clean>>
  BY DEF HelperAsks
<1>3. /\ Typed /\ SettlementHolds /\ t \in Threads /\ Loop \in Threads /\ Loop # t
      /\ sync \in [Threads -> Sync] /\ i \in {0} \cup Ids
  BY ConstantsAre, TypesAre DEF CatalogueIInv, Typed, Threads
<1>4. /\ spent' \in SpentType /\ spent'.captures = spent.captures /\ spent'.notes = spent.notes
      /\ spent'.faults = spent.faults
  BY <1>2, <1>3, SpentMoves DEF Typed
<1>5. /\ sync' \in [Threads -> Sync] /\ sync'[t].pc = "asked" /\ sync'[t].rec = i
      /\ sync'[t].next = 1 /\ sync'[t].solo = FALSE
      /\ \A u \in Threads \ {t} : sync'[u] = sync[u]
  <2> DEFINE s == [NoSync EXCEPT !.pc = "asked", !.rec = i]
  <2>1. s \in Sync /\ s.pc = "asked" /\ s.rec = i /\ s.next = 1 /\ s.solo = FALSE
    BY <1>3, NoSyncIs DEF NoSync, Sync
  <2> HIDE DEF s
  <2>2. QED
    BY <1>1, <1>3, <2>1 DEF s
<1>6. Typed'
  BY <1>2, <1>3, <1>4, <1>5 DEF Typed
<1>7. RowsHold' /\ FilesAreFew' /\ EventsHold' /\ ArtsHold' /\ WorkHolds' /\ JobsHold'
  BY <1>2, <1>4, EngineStays, ArtifactsStay
<1>8. SyncsHold'
  <2> SUFFICES ASSUME NEW u \in Threads PROVE SyncHolds(u)'
    BY DEF SyncsHold
  <2>1. CASE u = t
    BY <1>1, <1>2, <1>5, <2>1 DEF SyncHolds
  <2>2. CASE u # t
    <3>1. SyncHolds(u) /\ sync'[u] = sync[u]
      BY <1>5, <2>2 DEF CatalogueIInv, SyncsHold
    <3>2. sync'[u].solo => \A v \in Threads \ {u} : sync'[v].pc # "import"
      BY <1>5, <3>1 DEF SyncHolds
    <3>3. QED
      BY <1>2, <3>1, <3>2 DEF SyncHolds, Follows
  <2>3. QED
    BY <2>1, <2>2
<1>9. ProjectionFollows'
  BY <1>2 DEF CatalogueIInv, ProjectionFollows
<1>10. SettlementHolds'
  BY <1>2, <1>3, <1>4, <1>5, SettlementStays
<1>11. QED
  BY <1>6, <1>7, <1>8, <1>9, <1>10 DEF CatalogueIInv

LEMMA SyncBeginsKeeps ==
  ASSUME CatalogueIInv, NEW t \in Threads, SyncBegins(t)
  PROVE  CatalogueIInv'
<1> DEFINE others == {u \in Threads \ {t} : sync[u].pc = "import"}
<1>1. /\ sync[t].pc = "asked"
      /\ sync' = [u \in Threads |->
                    IF u = t THEN [sync[t] EXCEPT !.pc = "import", !.snap = rows, !.solo = others = {}]
                             ELSE [sync[u] EXCEPT !.solo = FALSE]]
      /\ UNCHANGED <<rows, disk, cap, todo, proj, jobs, bound, work, clean, spent>>
  BY DEF SyncBegins
<1>2. /\ Typed /\ SettlementHolds /\ SyncsHold /\ sync \in [Threads -> Sync] /\ rows \in Seq(Row)
      /\ Len(rows) \in Nat /\ DOMAIN rows = 1..Len(rows) /\ Len(rows) <= MaxRows
      /\ Loop \in Threads
  BY TypesAre, ConstantsAre DEF CatalogueIInv, Typed
<1>3. /\ sync'[t] \in Sync /\ sync'[t].pc = "import" /\ sync'[t].snap = rows
      /\ sync'[t].next = sync[t].next /\ sync'[t].rec = sync[t].rec
      /\ sync'[t].solo => others = {}
  <2> DEFINE o == others = {}
  <2>1. o \in BOOLEAN /\ sync[t] \in Sync
    BY <1>2
  <2>2. sync'[t] = [sync[t] EXCEPT !.pc = "import", !.snap = rows, !.solo = o]
    BY <1>1
  <2> HIDE DEF o
  <2>3. /\ sync'[t] \in Sync /\ sync'[t].pc = "import" /\ sync'[t].snap = rows
        /\ sync'[t].next = sync[t].next /\ sync'[t].rec = sync[t].rec /\ sync'[t].solo = o
    BY <1>2, <2>1, <2>2 DEF Sync
  <2>4. QED
    BY <2>3 DEF o
<1>4. \A u \in Threads \ {t} :
        /\ sync'[u] \in Sync /\ sync'[u].pc = sync[u].pc /\ sync'[u].snap = sync[u].snap
        /\ sync'[u].next = sync[u].next /\ sync'[u].rec = sync[u].rec /\ sync'[u].solo = FALSE
  BY <1>1, <1>2 DEF Sync
<1>5. sync' \in [Threads -> Sync]
  <2>1. sync' = [u \in Threads |-> sync'[u]]
    BY <1>1
  <2>2. \A u \in Threads : sync'[u] \in Sync
    BY <1>3, <1>4
  <2>3. QED
    BY <2>1, <2>2
<1> HIDE DEF others
<1>6. Typed'
  BY <1>1, <1>2, <1>5 DEF Typed
<1>7. RowsHold' /\ FilesAreFew' /\ EventsHold' /\ ArtsHold' /\ WorkHolds' /\ JobsHold'
  BY <1>1, EngineStays, ArtifactsStay
<1>8. SyncsHold'
  <2> SUFFICES ASSUME NEW u \in Threads PROVE SyncHolds(u)'
    BY DEF SyncsHold
  <2>1. CASE u = t
    <3>1. sync[t].rec \in {0} \cup DOMAIN rows /\ sync[t].next = 1
      BY <1>1, <1>2 DEF SyncsHold, SyncHolds
    <3>2. sync'[t].solo => \A v \in Threads \ {t} : sync'[v].pc # "import"
      BY <1>3, <1>4 DEF others
    <3>3. sync'[t].rec <= Len(rows) /\ 1 <= Len(rows) + 1
      BY <1>2, <1>3, <3>1
    <3>4. 1..(sync'[t].next - 1) = {}
      BY <1>3, <3>1
    <3>5. sync'[t].solo =>
            /\ sync'[t].pc = "import" /\ sync'[t].snap = rows'
            /\ \A i \in 1..(sync'[t].next - 1) : Follows(i)'
            /\ \A v \in Threads \ {t} : sync'[v].pc # "import"
      BY <1>1, <1>3, <3>2, <3>4
    <3>6. /\ Len(sync'[t].snap) <= Len(rows') /\ sync'[t].rec <= Len(sync'[t].snap)
          /\ sync'[t].next <= Len(sync'[t].snap) + 1
          /\ \A i \in 1..(sync'[t].next - 1) : proj'[i].rev # 0
          /\ clean' => sync'[t].snap = rows'
      <4>1. sync'[t].snap = rows /\ rows' = rows /\ sync'[t].rec = sync[t].rec /\ sync'[t].next = 1
        BY <1>1, <1>3, <3>1
      <4>2. QED
        BY <1>2, <1>3, <3>3, <3>4, <4>1
    <3>7. sync'[t].rec \in {0} \cup DOMAIN rows' /\ sync'[t].pc = "import"
      BY <1>1, <1>3, <3>1
    <3>8. QED
      BY <2>1, <3>5, <3>6, <3>7 DEF SyncHolds
  <2>2. CASE u # t
    <3>1. SyncHolds(u) /\ sync[u] \in Sync
      BY <1>2 DEF SyncsHold
    <3>2. sync[u].pc = "import" /\ clean' => sync[u].snap = rows'
      BY <1>1, <3>1 DEF SyncHolds
    <3>3. /\ rows' \in Seq(Row) /\ Len(rows) <= Len(rows') /\ rows' = rows
          /\ \A i \in Ids : proj[i].rev # 0 => proj'[i].rev # 0
      <4>1. rows' = rows /\ proj' = proj
        BY <1>1
      <4>2. QED
        BY <1>2, <4>1
    <3>4. QED
      BY <1>2, <1>4, <2>2, <3>1, <3>2, <3>3, SyncStays
  <2>3. QED
    BY <2>1, <2>2
<1>9. ProjectionFollows'
  BY <1>1 DEF CatalogueIInv, ProjectionFollows
<1>10. SettlementHolds'
  BY <1>1, <1>2, <1>3, <1>4, SettlementStays
<1>11. QED
  BY <1>6, <1>7, <1>8, <1>9, <1>10 DEF CatalogueIInv

\* A row that is projected gives its artifact what it says; the revision moves
\* whenever the path does.
LEMMA ArtOfIs ==
  ASSUME NEW a \in Art, ArtHolds(a), NEW r \in Row
  PROVE  LET q == ArtOf(a, r) IN
         /\ q \in Art /\ ArtHolds(q) /\ q.rev # 0
         /\ q.status = r.status /\ q.path = r.path
         /\ a.rev <= q.rev /\ (q.rev = a.rev => q.path = a.path)
<1> DEFINE q == ArtOf(a, r)
<1> SUFFICES /\ q \in Art /\ ArtHolds(q) /\ q.rev # 0
             /\ q.status = r.status /\ q.path = r.path
             /\ a.rev <= q.rev /\ (q.rev = a.rev => q.path = a.path)
  OBVIOUS
<1> HIDE DEF q
<1>1. /\ a.rev \in Nat /\ r.path \in Path /\ r.status \in Statuses /\ r # NoRow
      /\ Out(Names[1]) \in Path
  BY RowFields, OutIsPath, ConstantsAre DEF Art
<1>2. CASE a.rev # 0 /\ a.path = r.path /\ ~a.sized
  <2>1. q = [a EXCEPT !.seen = r, !.status = r.status]
    BY <1>2 DEF ArtOf, q
  <2>2. /\ q \in Art /\ q.seen = r /\ q.status = r.status /\ q.rev = a.rev /\ q.path = a.path
        /\ q.verdict = a.verdict /\ q.judged = a.judged
    BY <1>1, <2>1 DEF Art
  <2>3. q.rev # 0 /\ q.seen # NoRow /\ q.status = q.seen.status
    BY <1>1, <1>2, <2>2
  <2>4. q.path = q.seen.path /\ q.path = r.path /\ q.status = r.status
    BY <1>2, <2>1, <2>2, <2>3 DEF Art
  <2>5. q.verdict # "" => q.judged = q.path
    BY <1>2, <2>2 DEF ArtHolds
  <2>6. ArtHolds(q)
    BY <2>3, <2>4, <2>5 DEF ArtHolds
  <2>7. QED
    BY <1>1, <1>2, <2>2, <2>3, <2>4, <2>6
<1>3. CASE ~(a.rev # 0 /\ a.path = r.path /\ ~a.sized)
  <2>1. PICK n \in Nat : n = a.rev + 1 /\ n # 0
    BY <1>1
  <2>2. q = [NoArt EXCEPT !.seen = r, !.status = r.status, !.path = r.path, !.rev = n]
    BY <1>3, <2>1 DEF ArtOf, q
  <2>3. q = [rev |-> n, path |-> r.path, sized |-> FALSE, status |-> r.status,
             verdict |-> "", judged |-> Out(Names[1]), seen |-> r]
    BY <2>2 DEF NoArt
  <2>4. /\ q.seen = r /\ q.status = r.status /\ q.rev = n /\ q.path = r.path
        /\ q.verdict = ""
    BY <2>3
  <2>5. q \in Art
    BY <1>1, <2>3 DEF Art
  <2>6. ArtHolds(q)
    BY <1>1, <2>1, <2>4 DEF ArtHolds
  <2>7. a.rev <= q.rev /\ q.rev # a.rev
    <3>1. a.rev <= n /\ n # a.rev
      BY <1>1, <2>1
    <3>2. QED
      BY <2>4, <3>1
  <2>8. QED
    BY <2>1, <2>4, <2>5, <2>6, <2>7
<1>4. QED
  BY <1>2, <1>3

\* A thread takes one row: the artifact of it follows the row that was read.
LEMMA RowImported ==
  ASSUME Typed, ArtsHold, NEW i \in Ids, NEW r \in Row,
         proj' = IF Known(proj[i], r) THEN proj ELSE [proj EXCEPT ![i] = ArtOf(@, r)]
  PROVE  /\ proj' \in [Ids -> Art] /\ ArtsHold'
         /\ proj'[i].rev # 0 /\ proj'[i].status = r.status /\ proj'[i].path = r.path
         /\ proj[i].rev <= proj'[i].rev
         /\ proj'[i].rev = proj[i].rev => proj'[i].path = proj[i].path
         /\ \A k \in Ids \ {i} : proj'[k] = proj[k]
<1>1. proj \in [Ids -> Art] /\ proj[i] \in Art /\ ArtHolds(proj[i]) /\ r # NoRow /\ proj[i].rev \in Nat
  BY RowFields DEF Typed, ArtsHold, Art
<1>2. CASE Known(proj[i], r)
  <2>1. proj' = proj /\ proj[i].seen = r
    BY <1>2 DEF Known
  <2>2. proj[i].rev # 0 /\ proj[i].status = r.status /\ proj[i].path = r.path
    BY <1>1, <2>1 DEF ArtHolds
  <2>3. ArtsHold'
    <3> SUFFICES ASSUME NEW k \in Ids PROVE ArtHolds(proj'[k])
      BY DEF ArtsHold, ArtHolds
    <3>1. QED
      BY <2>1 DEF ArtsHold
  <2>4. QED
    BY <1>1, <2>1, <2>2, <2>3
<1>3. CASE ~Known(proj[i], r)
  <2> DEFINE q == ArtOf(proj[i], r)
  <2>1. /\ q \in Art /\ ArtHolds(q) /\ q.rev # 0 /\ q.status = r.status /\ q.path = r.path
        /\ proj[i].rev <= q.rev /\ (q.rev = proj[i].rev => q.path = proj[i].path)
    BY <1>1, ArtOfIs
  <2>2. proj' = [proj EXCEPT ![i] = q]
    BY <1>1, <1>3
  <2> HIDE DEF q
  <2>3. /\ proj' \in [Ids -> Art] /\ proj'[i] = q
        /\ \A k \in Ids \ {i} : proj'[k] = proj[k]
    BY <1>1, <2>1, <2>2
  <2>4. ArtsHold'
    <3> SUFFICES ASSUME NEW k \in Ids PROVE ArtHolds(proj'[k])
      BY DEF ArtsHold, ArtHolds
    <3>1. CASE k = i
      BY <2>1, <2>3, <3>1
    <3>2. CASE k # i
      BY <2>3, <3>2 DEF ArtsHold
    <3>3. QED
      BY <3>1, <3>2
  <2>5. QED
    BY <2>1, <2>3, <2>4
<1>4. QED
  BY <1>2, <1>3

LEMMA ImportsKeeps ==
  ASSUME CatalogueIInv, NEW t \in Threads, Imports(t)
  PROVE  CatalogueIInv'
<1> DEFINE i == sync[t].next
           r == sync[t].snap[i]
<1>1. /\ sync[t].pc = "import" /\ i <= Len(sync[t].snap)
      /\ proj' = IF Known(proj[i], r) THEN proj ELSE [proj EXCEPT ![i] = ArtOf(@, r)]
      /\ sync' = [sync EXCEPT ![t].next = @ + 1]
      /\ UNCHANGED <<rows, disk, cap, todo, jobs, bound, work, clean, spent>>
  BY DEF Imports
<1>2. /\ Typed /\ SettlementHolds /\ SyncsHold /\ ArtsHold /\ WorkHolds /\ ProjectionFollows
      /\ sync \in [Threads -> Sync] /\ rows \in Seq(Row)
      /\ Len(rows) \in Nat /\ DOMAIN rows = 1..Len(rows) /\ Len(rows) <= MaxRows
      /\ DOMAIN rows \subseteq Ids /\ Loop \in Threads /\ SyncHolds(t) /\ sync[t] \in Sync
  BY TypesAre, ConstantsAre DEF CatalogueIInv, Typed, SyncsHold
<1>3. /\ sync[t].snap \in Seq(Row) /\ i \in Nat \ {0} /\ Len(sync[t].snap) \in Nat
      /\ Len(sync[t].snap) <= Len(rows) /\ (clean => sync[t].snap = rows)
  BY <1>1, <1>2, SyncFields DEF SyncHolds
<1>4. i \in Ids /\ r \in Row /\ i \in DOMAIN rows
  BY <1>1, <1>2, <1>3
<1>5. /\ sync'[t] \in Sync /\ sync'[t].pc = "import" /\ sync'[t].snap = sync[t].snap
      /\ sync'[t].next = i + 1 /\ sync'[t].rec = sync[t].rec /\ sync'[t].solo = sync[t].solo
  <2> DEFINE n == i + 1
  <2>1. n \in Nat \ {0}
    BY <1>3
  <2>2. sync'[t] = [sync[t] EXCEPT !.next = n]
    BY <1>1, <1>2
  <2> HIDE DEF n
  <2>3. /\ sync'[t] \in Sync /\ sync'[t].pc = sync[t].pc /\ sync'[t].snap = sync[t].snap
        /\ sync'[t].next = n /\ sync'[t].rec = sync[t].rec /\ sync'[t].solo = sync[t].solo
    BY <1>2, <2>1, <2>2 DEF Sync
  <2>4. QED
    BY <1>1, <2>3 DEF n
<1>6. /\ \A u \in Threads \ {t} : sync'[u] = sync[u]
      /\ sync' \in [Threads -> Sync]
  <2>1. \A u \in Threads \ {t} : sync'[u] = sync[u]
    BY <1>1, <1>2
  <2>2. sync' = [u \in Threads |-> sync'[u]]
    BY <1>1, <1>2
  <2>3. QED
    BY <1>2, <1>5, <2>1, <2>2
<1> HIDE DEF i, r
<1>7. /\ proj' \in [Ids -> Art] /\ ArtsHold'
      /\ proj'[i].rev # 0 /\ proj'[i].status = r.status /\ proj'[i].path = r.path
      /\ proj[i].rev <= proj'[i].rev
      /\ proj'[i].rev = proj[i].rev => proj'[i].path = proj[i].path
      /\ \A k \in Ids \ {i} : proj'[k] = proj[k]
  BY <1>1, <1>2, <1>4, RowImported
<1>8. Typed'
  BY <1>1, <1>2, <1>6, <1>7 DEF Typed
<1>9. RowsHold' /\ FilesAreFew' /\ EventsHold'
  BY <1>1, EngineStays
<1>10. JobsHold'
  BY <1>1 DEF CatalogueIInv, JobsHold
<1>11. WorkHolds'
  <2> SUFFICES ASSUME work.rec # 0
               PROVE  /\ work.rec \in DOMAIN rows
                      /\ work.rev <= proj'[work.rec].rev
                      /\ work.rev = proj'[work.rec].rev => work.path = proj'[work.rec].path
    BY <1>1 DEF WorkHolds
  <2>1. /\ work.rec \in DOMAIN rows /\ work.rec \in Ids /\ work.rev <= proj[work.rec].rev
        /\ work.rev = proj[work.rec].rev => work.path = proj[work.rec].path
    BY <1>2 DEF WorkHolds
  <2>2. work.rev \in Nat /\ proj[work.rec].rev \in Nat /\ proj'[work.rec].rev \in Nat
    BY <1>2, <1>7, <2>1 DEF Typed, Art
  <2>3. QED
    BY <1>7, <2>1, <2>2
<1>12. clean => proj'[i].status = rows[i].status /\ proj'[i].path = rows[i].path
  BY <1>3, <1>7 DEF r
<1>13. ProjectionFollows'
  BY <1>1, <1>2, <1>4, <1>7, <1>12 DEF ProjectionFollows
<1>14. \A k \in Ids : proj[k].rev # 0 => proj'[k].rev # 0
  BY <1>7
<1>15. SyncHolds(t)'
  <2>1. sync'[t].rec \in {0} \cup DOMAIN rows' /\ sync[t].rec <= Len(sync[t].snap)
    BY <1>1, <1>2, <1>5 DEF SyncHolds
  <2>2. \A k \in 1..i : k \in Ids /\ (k # i => k \in 1..(i - 1))
    BY <1>2, <1>3, <1>4 DEF Ids
  <2>3. \A k \in 1..i : proj'[k].rev # 0
    BY <1>1, <1>2, <1>7, <1>14, <2>2 DEF SyncHolds, i
  <2>4. 1..(sync'[t].next - 1) = 1..i
    BY <1>3, <1>5
  <2>5. /\ Len(sync'[t].snap) <= Len(rows') /\ sync'[t].rec <= Len(sync'[t].snap)
        /\ sync'[t].next <= Len(sync'[t].snap) + 1
        /\ \A k \in 1..(sync'[t].next - 1) : proj'[k].rev # 0
        /\ clean' => sync'[t].snap = rows'
    BY <1>1, <1>3, <1>5, <2>1, <2>3, <2>4 DEF i
  <2>6. ASSUME sync'[t].solo
        PROVE  /\ sync'[t].snap = rows'
               /\ \A k \in 1..(sync'[t].next - 1) : Follows(k)'
               /\ \A u \in Threads \ {t} : sync'[u].pc # "import"
    <3>1. /\ sync[t].snap = rows /\ \A u \in Threads \ {t} : sync[u].pc # "import"
          /\ \A k \in 1..(i - 1) : Follows(k)
      BY <1>2, <1>5, <2>6 DEF SyncHolds, i
    <3>2. \A k \in 1..i : k = i => Follows(k)'
      <4>1. r = rows'[i]
        BY <1>1, <3>1 DEF r
      <4>2. QED
        BY <1>7, <4>1 DEF Follows
    <3>3. \A k \in 1..i : k # i => Follows(k)'
      BY <1>1, <1>7, <2>2, <3>1 DEF Follows
    <3>4. \A k \in 1..(sync'[t].next - 1) : Follows(k)'
      BY <2>4, <3>2, <3>3
    <3>5. \A u \in Threads \ {t} : sync'[u].pc # "import"
      BY <1>6, <3>1
    <3>6. sync'[t].snap = rows'
      BY <1>1, <1>5, <3>1
    <3>7. QED
      BY <3>4, <3>5, <3>6
  <2>7. QED
    BY <1>5, <2>1, <2>5, <2>6 DEF SyncHolds
<1>16. SyncsHold'
  <2> SUFFICES ASSUME NEW u \in Threads \ {t} PROVE SyncHolds(u)'
    BY <1>15 DEF SyncsHold
  <2>1. SyncHolds(u) /\ sync[u] \in Sync /\ sync'[u] = sync[u] /\ ~sync[u].solo
    BY <1>1, <1>2, <1>6 DEF SyncsHold, SyncHolds
  <2>2. sync[u].pc = "import" /\ clean' => sync[u].snap = rows'
    BY <1>1, <2>1 DEF SyncHolds
  <2>3. rows' = rows /\ rows' \in Seq(Row) /\ Len(rows) <= Len(rows')
    BY <1>1, <1>2
  <2>4. QED
    BY <1>2, <1>14, <2>1, <2>2, <2>3, SyncStays
<1>17. SettlementHolds'
  <2>1. sync'[Loop].pc = sync[Loop].pc /\ sync'[Loop].rec = sync[Loop].rec
    BY <1>1, <1>2, <1>5, <1>6
  <2>2. QED
    BY <1>1, <1>2, <2>1, SettlementStays
<1>18. QED
  BY <1>8, <1>9, <1>7, <1>10, <1>11, <1>13, <1>16, <1>17 DEF CatalogueIInv

LEMMA SyncEndsKeeps ==
  ASSUME CatalogueIInv, NEW t \in Threads, SyncEnds(t)
  PROVE  CatalogueIInv'
<1>1. /\ sync[t].pc = "import" /\ sync[t].next > Len(sync[t].snap)
      /\ sync' = [sync EXCEPT ![t] = [NoSync EXCEPT !.rec = sync[t].rec,
                                      !.pc = IF sync[t].rec = 0 THEN "idle" ELSE "queue"]]
      /\ clean' = (clean \/ sync[t].solo)
      /\ UNCHANGED <<rows, disk, cap, todo, proj, jobs, bound, work, spent>>
  BY DEF SyncEnds
<1>2. /\ Typed /\ SettlementHolds /\ SyncsHold /\ sync \in [Threads -> Sync] /\ rows \in Seq(Row)
      /\ Len(rows) \in Nat /\ DOMAIN rows = 1..Len(rows) /\ Len(rows) <= MaxRows
      /\ Loop \in Threads /\ SyncHolds(t) /\ sync[t] \in Sync /\ clean \in BOOLEAN
  BY TypesAre, ConstantsAre DEF CatalogueIInv, Typed, SyncsHold
<1>3. /\ sync[t].snap \in Seq(Row) /\ Len(sync[t].snap) \in Nat /\ sync[t].next \in Nat
      /\ sync[t].rec \in {0} \cup Ids /\ sync[t].solo \in BOOLEAN
  BY <1>2, SyncFields
<1>4. /\ sync'[t] \in Sync /\ sync'[t].rec = sync[t].rec
      /\ sync'[t].pc = IF sync[t].rec = 0 THEN "idle" ELSE "queue"
      /\ sync'[t].next = 1 /\ sync'[t].solo = FALSE
  <2> DEFINE c == IF sync[t].rec = 0 THEN "idle" ELSE "queue"
             k == sync[t].rec
  <2>1. c \in {"idle", "queue"} /\ k \in {0} \cup Ids
    BY <1>3
  <2>2. sync'[t] = [NoSync EXCEPT !.rec = k, !.pc = c]
    BY <1>1, <1>2
  <2> HIDE DEF c, k
  <2>3. sync'[t] = [pc |-> c, snap |-> <<>>, next |-> 1, rec |-> k, solo |-> FALSE]
    BY <2>2 DEF NoSync
  <2>4. /\ sync'[t] \in Sync /\ sync'[t].rec = k /\ sync'[t].pc = c
        /\ sync'[t].next = 1 /\ sync'[t].solo = FALSE
    BY <2>1, <2>3 DEF Sync
  <2>5. QED
    BY <2>4 DEF c, k
<1>5. (\A u \in Threads \ {t} : sync'[u] = sync[u]) /\ sync' \in [Threads -> Sync]
  <2>1. \A u \in Threads \ {t} : sync'[u] = sync[u]
    BY <1>1, <1>2
  <2>2. sync' = [u \in Threads |-> sync'[u]]
    BY <1>1, <1>2
  <2>3. QED
    BY <1>2, <1>4, <2>1, <2>2
<1>6. Typed'
  BY <1>1, <1>2, <1>5 DEF Typed
<1>7. RowsHold' /\ FilesAreFew' /\ EventsHold' /\ ArtsHold' /\ WorkHolds' /\ JobsHold'
  BY <1>1, EngineStays, ArtifactsStay
<1>8. sync[t].solo => /\ sync[t].snap = rows /\ \A i \in DOMAIN rows : Follows(i)
                      /\ \A u \in Threads \ {t} : sync[u].pc # "import"
  <2> SUFFICES ASSUME sync[t].solo
               PROVE  /\ sync[t].snap = rows /\ \A i \in DOMAIN rows : Follows(i)
                      /\ \A u \in Threads \ {t} : sync[u].pc # "import"
    OBVIOUS
  <2>1. /\ sync[t].snap = rows /\ \A u \in Threads \ {t} : sync[u].pc # "import"
        /\ \A i \in 1..(sync[t].next - 1) : Follows(i)
    BY <1>2 DEF SyncHolds
  <2>2. DOMAIN rows \subseteq 1..(sync[t].next - 1)
    BY <1>1, <1>2, <1>3, <2>1
  <2>3. QED
    BY <2>1, <2>2
<1>9. SyncHolds(t)'
  <2>1. sync[t].rec \in {0} \cup DOMAIN rows /\ sync[t].rec <= Len(sync[t].snap)
        /\ \A i \in 1..(sync[t].next - 1) : proj[i].rev # 0
    BY <1>1, <1>2 DEF SyncHolds
  <2>2. sync[t].rec # 0 => sync[t].rec \in 1..(sync[t].next - 1)
    BY <1>1, <1>2, <1>3, <2>1
  <2>3. sync'[t].rec \in {0} \cup DOMAIN rows'
    BY <1>1, <1>4, <2>1
  <2>4. sync'[t].pc = "queue" => sync'[t].rec # 0 /\ proj'[sync'[t].rec].rev # 0
    BY <1>1, <1>4, <2>1, <2>2
  <2>5. sync'[t].pc # "import"
    BY <1>4
  <2>6. QED
    BY <1>4, <2>3, <2>4, <2>5 DEF SyncHolds
<1>10. SyncsHold'
  <2> SUFFICES ASSUME NEW u \in Threads \ {t} PROVE SyncHolds(u)'
    BY <1>9 DEF SyncsHold
  <2>1. SyncHolds(u) /\ sync[u] \in Sync /\ sync'[u] = sync[u] /\ ~sync[u].solo
    BY <1>1, <1>2, <1>5 DEF SyncsHold, SyncHolds
  <2>2. sync[u].pc = "import" /\ clean' => sync[u].snap = rows'
    BY <1>1, <1>2, <1>3, <1>8, <2>1 DEF SyncHolds
  <2>3. rows' = rows /\ rows' \in Seq(Row) /\ Len(rows) <= Len(rows') /\ proj' = proj
    BY <1>1, <1>2
  <2>4. \A k \in Ids : proj[k].rev # 0 => proj'[k].rev # 0
    BY <2>3
  <2>5. QED
    BY <1>2, <2>1, <2>2, <2>3, <2>4, SyncStays
<1>11. ProjectionFollows'
  <2>1. clean => \A i \in DOMAIN rows : Follows(i)
    BY DEF CatalogueIInv, ProjectionFollows, Follows
  <2>2. clean' => \A i \in DOMAIN rows : Follows(i)
    BY <1>1, <1>2, <1>3, <1>8, <2>1
  <2>3. QED
    BY <1>1, <2>2 DEF ProjectionFollows, Follows
<1>12. SettlementHolds'
  <2>1. \A i \in DOMAIN rows :
           sync[Loop].pc # "idle" /\ sync[Loop].rec = i
             => sync'[Loop].pc # "idle" /\ sync'[Loop].rec = i
    BY <1>2, <1>4, <1>5
  <2>2. QED
    BY <1>1, <1>2, <2>1, SettlementStays
<1>13. QED
  BY <1>6, <1>7, <1>10, <1>11, <1>12 DEF CatalogueIInv

\* A job is added unless its revision has one; a job that ends keeps its revision.
LEMMA JobsGrow ==
  ASSUME Typed, JobsHold, rows' = rows, NEW i \in DOMAIN rows, NEW n \in Nat \ {0},
         jobs' \in {jobs, WithJob(i, n)}, bound' \in [Ids -> Nat],
         \A k \in Ids : bound'[k] # bound[k] => k = i /\ bound'[k] = n /\ jobs' = WithJob(i, n)
  PROVE  jobs' \subseteq Job /\ JobsHold'
<1> DEFINE new == [rec |-> i, rev |-> n, about |-> proj[i].path, state |-> "queued"]
<1>1. new \in Job /\ new.rec = i /\ new.rev = n /\ jobs \subseteq Job
  <2>1. i \in Ids /\ proj[i] \in Art
    BY TypesAre DEF Typed
  <2>2. i \in Ids /\ proj[i].path \in Path
    BY <2>1 DEF Art
  <2>3. QED
    BY <2>2 DEF Job, Typed
<1>2. /\ \A j, k \in jobs : (j.rec = k.rec /\ j.rev = k.rev) => j = k
      /\ \A j \in jobs : j.rec \in DOMAIN rows /\ j.rev # 0
      /\ \A k \in Ids : bound[k] # 0 => \E j \in jobs : j.rec = k /\ j.rev = bound[k]
  BY DEF JobsHold
<1>3. \/ jobs' = jobs
      \/ jobs' = jobs \cup {new} /\ ~\E j \in jobs : j.rec = i /\ j.rev = n
  BY DEF WithJob
<1>4. jobs' = WithJob(i, n) => \E j \in jobs' : j.rec = i /\ j.rev = n
  BY <1>1 DEF WithJob
<1> HIDE DEF new
<1>5. jobs' \subseteq Job /\ jobs \subseteq jobs'
  BY <1>1, <1>3
<1>6. \A j, k \in jobs' : (j.rec = k.rec /\ j.rev = k.rev) => j = k
  BY <1>1, <1>2, <1>3
<1>7. \A j \in jobs' : j.rec \in DOMAIN rows' /\ j.rev # 0
  BY <1>1, <1>2, <1>3
<1>8. \A k \in Ids : bound'[k] # 0 => \E j \in jobs' : j.rec = k /\ j.rev = bound'[k]
  BY <1>2, <1>4, <1>5
<1>9. QED
  BY <1>5, <1>6, <1>7, <1>8 DEF JobsHold

LEMMA JobEndsIs ==
  ASSUME Typed, JobsHold, rows' = rows, bound' = bound, NEW j \in jobs,
         NEW s \in {"succeeded", "failed", "blocked"}, JobEnds(j, s)
  PROVE  jobs' \subseteq Job /\ JobsHold'
<1> DEFINE new == [j EXCEPT !.state = s]
<1>1. j \in Job /\ jobs \subseteq Job
  BY DEF Typed
<1>2. new \in Job /\ new.rec = j.rec /\ new.rev = j.rev
  BY <1>1 DEF Job
<1>3. jobs' = (jobs \ {j}) \cup {new}
  BY DEF JobEnds
<1> HIDE DEF new
<1>4. /\ \A l, k \in jobs : (l.rec = k.rec /\ l.rev = k.rev) => l = k
      /\ \A l \in jobs : l.rec \in DOMAIN rows /\ l.rev # 0
      /\ \A k \in Ids : bound[k] # 0 => \E l \in jobs : l.rec = k /\ l.rev = bound[k]
  BY DEF JobsHold
<1>5. \A l, k \in jobs' : (l.rec = k.rec /\ l.rev = k.rev) => l = k
  BY <1>2, <1>3, <1>4
<1>6. \A l \in jobs' : l.rec \in DOMAIN rows' /\ l.rev # 0
  BY <1>2, <1>3, <1>4
<1>7. \A k \in Ids : bound'[k] # 0 => \E l \in jobs' : l.rec = k /\ l.rev = bound'[k]
  BY <1>2, <1>3, <1>4
<1>8. QED
  BY <1>1, <1>2, <1>3, <1>5, <1>6, <1>7 DEF JobsHold

LEMMA QueuesKeeps ==
  ASSUME CatalogueIInv, NEW t \in Threads, Queues(t)
  PROVE  CatalogueIInv'
<1> DEFINE i == sync[t].rec
           n == proj[i].rev
<1>1. /\ sync[t].pc = "queue"
      /\ IF t = Loop
         THEN IF bound[i] \in {0, n}
              THEN bound' = [bound EXCEPT ![i] = n] /\ jobs' = WithJob(i, n)
              ELSE UNCHANGED <<bound, jobs>>
         ELSE /\ jobs' = IF proj[i].status = "recording" THEN jobs ELSE WithJob(i, n)
              /\ UNCHANGED bound
      /\ sync' = [sync EXCEPT ![t] = NoSync]
      /\ UNCHANGED <<rows, disk, cap, todo, proj, work, clean, spent>>
  BY DEF Queues
<1>2. /\ Typed /\ SettlementHolds /\ SyncsHold /\ JobsHold /\ sync \in [Threads -> Sync]
      /\ rows \in Seq(Row) /\ DOMAIN rows \subseteq Ids /\ bound \in [Ids -> Nat]
      /\ Loop \in Threads /\ SyncHolds(t) /\ proj \in [Ids -> Art]
  BY TypesAre, ConstantsAre DEF CatalogueIInv, Typed, SyncsHold
<1>3. i \in DOMAIN rows /\ i \in Ids /\ n \in Nat \ {0}
  <2>1. i \in DOMAIN rows /\ n # 0
    BY <1>1, <1>2 DEF SyncHolds
  <2>2. i \in Ids /\ proj[i] \in Art
    BY <1>2, <2>1
  <2>3. QED
    BY <2>1, <2>2 DEF Art
<1>4. /\ sync'[t] = NoSync /\ (\A u \in Threads \ {t} : sync'[u] = sync[u])
      /\ sync' \in [Threads -> Sync]
  BY <1>1, <1>2, NoSyncIs
<1> HIDE DEF i, n
<1>5. /\ jobs' \in {jobs, WithJob(i, n)} /\ bound' \in [Ids -> Nat]
      /\ \A k \in Ids : bound'[k] # bound[k] => k = i /\ bound'[k] = n /\ jobs' = WithJob(i, n)
      /\ \A k \in Ids : bound[k] # 0 => bound'[k] # 0
      /\ t = Loop => bound'[i] # 0
  <2>1. CASE bound' = [bound EXCEPT ![i] = n] /\ jobs' = WithJob(i, n)
    BY <1>2, <1>3, <2>1
  <2>2. CASE t = Loop /\ bound' = bound /\ jobs' = jobs /\ bound[i] # 0
    BY <1>2, <1>3, <2>2
  <2>3. CASE t # Loop /\ bound' = bound /\ jobs' \in {jobs, WithJob(i, n)}
    BY <1>2, <1>3, <2>3
  <2>4. QED
    BY <1>1, <2>1, <2>2, <2>3
<1>6. jobs' \subseteq Job /\ JobsHold'
  BY <1>1, <1>2, <1>3, <1>5, JobsGrow
<1>7. Typed'
  BY <1>1, <1>2, <1>4, <1>5, <1>6 DEF Typed
<1>8. RowsHold' /\ FilesAreFew' /\ EventsHold'
  BY <1>1, EngineStays
<1>9. ArtsHold' /\ WorkHolds' /\ ProjectionFollows'
  BY <1>1 DEF CatalogueIInv, ArtsHold, ArtHolds, WorkHolds, ProjectionFollows
<1>10. SyncsHold'
  <2> SUFFICES ASSUME NEW u \in Threads PROVE SyncHolds(u)'
    BY DEF SyncsHold
  <2>1. CASE u = t
    BY <1>4, <2>1, NoSyncIs DEF SyncHolds
  <2>2. CASE u # t
    <3>1. SyncHolds(u) /\ sync'[u] = sync[u]
      BY <1>2, <1>4, <2>2 DEF SyncsHold
    <3>2. sync'[u].solo => \A v \in Threads \ {u} : sync'[v].pc # "import"
      BY <1>4, <3>1, NoSyncIs DEF SyncHolds
    <3>3. QED
      BY <1>1, <3>1, <3>2 DEF SyncHolds, Follows
  <2>3. QED
    BY <2>1, <2>2
<1>11. SettlementHolds'
  <2>1. ASSUME NEW k \in DOMAIN rows, bound[k] # 0 \/ (sync[Loop].pc # "idle" /\ sync[Loop].rec = k)
        PROVE  bound'[k] # 0 \/ (sync'[Loop].pc # "idle" /\ sync'[Loop].rec = k)
    <3>1. CASE bound[k] # 0
      BY <1>2, <1>5, <3>1
    <3>2. CASE t = Loop /\ sync[Loop].rec = k
      BY <1>5, <3>2 DEF i
    <3>3. CASE t # Loop
      BY <1>2, <1>4, <1>5, <2>1, <3>3
    <3>4. QED
      BY <2>1, <3>1, <3>2, <3>3
  <2>2. QED
    BY <1>1, <1>2, <2>1, SettlementStays
<1>12. QED
  BY <1>6, <1>7, <1>8, <1>9, <1>10, <1>11 DEF CatalogueIInv

LEMMA ArchiveNotesKeeps ==
  ASSUME CatalogueIInv, NEW i \in DOMAIN rows, ArchiveNotes(i)
  PROVE  CatalogueIInv'
<1>1. /\ rows' = [rows EXCEPT ![i].note = @ + 1] /\ RowsChange /\ spent.notes < MaxNotes
      /\ spent' = [spent EXCEPT !.notes = @ + 1]
      /\ UNCHANGED <<disk, cap, todo, proj, jobs, bound, work>>
  BY DEF ArchiveNotes
<1>2. /\ Typed /\ RowsHold /\ SettlementHolds /\ FilesAreFew /\ EventsHold
      /\ rows \in Seq(Row) /\ Len(rows) \in Nat /\ DOMAIN rows = 1..Len(rows)
      /\ Len(rows) <= MaxRows /\ spent \in SpentType
      /\ spent.notes \in 0..MaxNotes /\ MaxNotes \in Nat
      /\ \A k \in DOMAIN rows : rows[k] \in Row /\ rows[k].note <= spent.notes /\ rows[k].note \in Nat
                                /\ rows[k].path.base = rows[k].key
  BY SMTT(40), TypesAre, ConstantsAre, RowFields DEF CatalogueIInv, Typed, RowsHold
<1>3. /\ spent' \in SpentType /\ spent'.captures = spent.captures
      /\ spent'.notes = spent.notes + 1 /\ spent'.faults = spent.faults
  BY <1>1, <1>2, SpentMoves
<1>4. \A k \in DOMAIN rows :
        /\ rows'[k] \in Row
        /\ rows'[k].key = rows[k].key /\ rows'[k].of = rows[k].of /\ rows'[k].index = rows[k].index
        /\ rows'[k].path = rows[k].path /\ rows'[k].status = rows[k].status
        /\ rows'[k].note <= spent'.notes
  <2> SUFFICES ASSUME NEW k \in DOMAIN rows
               PROVE  /\ rows'[k] \in Row
                      /\ rows'[k].key = rows[k].key /\ rows'[k].of = rows[k].of
                      /\ rows'[k].index = rows[k].index
                      /\ rows'[k].path = rows[k].path /\ rows'[k].status = rows[k].status
                      /\ rows'[k].note <= spent'.notes
    OBVIOUS
  <2>1. CASE k # i
    <3>1. rows'[k] = rows[k]
      BY <1>1, <2>1
    <3>2. rows[k].note <= spent'.notes
      BY <1>2, <1>3
    <3>3. QED
      BY <1>2, <3>1, <3>2
  <2>2. CASE k = i
    <3> DEFINE m == rows[i].note + 1
    <3>1. m \in 0..MaxNotes /\ m <= spent'.notes
      BY <1>1, <1>2, <1>3
    <3>2. rows'[i] = [rows[i] EXCEPT !.note = m]
      BY <1>1
    <3> HIDE DEF m
    <3>3. rows[i] \in Row
      BY <1>2
    <3>4. /\ rows'[i] \in Row
          /\ rows'[i].key = rows[i].key /\ rows'[i].of = rows[i].of
          /\ rows'[i].index = rows[i].index
          /\ rows'[i].path = rows[i].path /\ rows'[i].status = rows[i].status
          /\ rows'[i].note = m
      BY <3>1, <3>2, <3>3 DEF Row
    <3>5. QED
      BY <2>2, <3>1, <3>4
  <2>3. QED
    BY <2>1, <2>2
<1>5. rows' \in Seq(Row) /\ Len(rows') = Len(rows)
  <2>1. rows' = [k \in 1..Len(rows) |-> rows'[k]]
    BY <1>1, <1>2
  <2>2. \A k \in 1..Len(rows) : rows'[k] \in Row
    BY <1>2, <1>4
  <2>3. QED
    BY <1>2, <2>1, <2>2
<1>6. RowsHold'
  <2>1. \A k \in DOMAIN rows : rows'[k].path.base = rows[k].key
    BY <1>2, <1>4
  <2>2. QED
    BY <1>2, <1>4, <1>5, <2>1, IdentitiesStay
<1>7. /\ sync' \in [Threads -> Sync] /\ clean' \in BOOLEAN
      /\ ArtsHold' /\ WorkHolds' /\ JobsHold' /\ SyncsHold' /\ ProjectionFollows'
      /\ sync'[Loop].pc = sync[Loop].pc /\ sync'[Loop].rec = sync[Loop].rec
  BY <1>1, <1>2, <1>5, RowsChangeKeeps
<1>8. Typed'
  BY <1>1, <1>2, <1>3, <1>5, <1>7 DEF Typed
<1>9. EventsHold'
  BY <1>1, <1>2 DEF EventsHold
<1>10. FilesAreFew'
  BY <1>1, <1>2, <1>3 DEF FilesAreFew, Singles
<1>11. SettlementHolds'
  <2> SUFFICES ASSUME Undisturbed', NEW k \in DOMAIN rows'
               PROVE  /\ rows'[k].status = "recording" => EndsAt(k)'
                      /\ rows'[k].status = "completed" =>
                           bound'[k] # 0 \/ (sync'[Loop].pc # "idle" /\ sync'[Loop].rec = k)
    BY DEF SettlementHolds
  <2>1. Undisturbed /\ k \in DOMAIN rows
    BY <1>2, <1>3, <1>5 DEF Undisturbed
  <2>2. rows'[k].status = rows[k].status /\ rows'[k].path = rows[k].path
    BY <1>4, <2>1
  <2>3. EndsAt(k) => EndsAt(k)'
    BY <1>1, <2>2 DEF EndsAt
  <2>4. QED
    BY <1>1, <1>2, <1>7, <2>1, <2>2, <2>3 DEF SettlementHolds
<1>12. QED
  BY <1>6, <1>7, <1>8, <1>9, <1>10, <1>11 DEF CatalogueIInv

-----------------------------------------------------------------------------
(* The worker's steps, and crashes. *)

LEMMA VerifyBeginsKeeps ==
  ASSUME CatalogueIInv, NEW j \in jobs, VerifyBegins(j)
  PROVE  CatalogueIInv'
<1> DEFINE a == proj[j.rec]
<1>1. /\ work.rec = 0
      /\ IF Usable(a, j.rev) /\ a.path \in disk
         THEN work' = [rec |-> j.rec, rev |-> j.rev, path |-> a.path] /\ UNCHANGED jobs
         ELSE JobEnds(j, IF a.status = "recording" THEN "blocked" ELSE "failed") /\ UNCHANGED work
      /\ UNCHANGED <<rows, disk, cap, todo, proj, sync, bound, clean, spent>>
  BY DEF VerifyBegins
<1>2. /\ Typed /\ JobsHold /\ SettlementHolds /\ j \in Job /\ j.rec \in DOMAIN rows /\ j.rec \in Ids
      /\ a \in Art
  BY TypesAre DEF CatalogueIInv, JobsHold, Typed
<1>3. a.rev \in Nat /\ a.path \in Path /\ j.rev \in Nat
  BY <1>2 DEF Art, Job
<1> HIDE DEF a
<1>4. jobs' \subseteq Job /\ JobsHold'
  <2>1. CASE UNCHANGED jobs
    BY <1>1, <1>2, <2>1 DEF JobsHold, Typed
  <2>2. CASE JobEnds(j, IF a.status = "recording" THEN "blocked" ELSE "failed")
    <3>1. PICK s \in {"succeeded", "failed", "blocked"} : JobEnds(j, s)
      BY <2>2
    <3>2. QED
      BY <1>1, <1>2, <3>1, JobEndsIs
  <2>3. QED
    BY <1>1, <2>1, <2>2
<1>5. /\ work' \in [rec : {0} \cup Ids, rev : Nat, path : Path]
      /\ WorkHolds'
  <2>1. CASE /\ Usable(a, j.rev)
             /\ work' = [rec |-> j.rec, rev |-> j.rev, path |-> a.path]
    <3>1. a.rev = j.rev
      BY <2>1 DEF Usable
    <3>2. work'.rec = j.rec /\ work'.rev = j.rev /\ work'.path = a.path
      BY <2>1
    <3>3. /\ work'.rec \in DOMAIN rows' /\ work'.rev <= proj'[work'.rec].rev
          /\ work'.path = proj'[work'.rec].path
      BY <1>1, <1>2, <1>3, <3>1, <3>2 DEF a
    <3>4. QED
      BY <1>2, <1>3, <2>1, <3>3 DEF WorkHolds
  <2>2. CASE UNCHANGED work
    BY <1>1, <1>2, <2>2 DEF Typed, WorkHolds
  <2>3. QED
    BY <1>1, <2>1, <2>2
<1>6. Typed'
  BY <1>1, <1>2, <1>4, <1>5 DEF Typed
<1>7. RowsHold' /\ FilesAreFew' /\ EventsHold'
  BY <1>1, EngineStays
<1>8. ArtsHold' /\ ProjectionFollows'
  BY <1>1 DEF CatalogueIInv, ArtsHold, ArtHolds, ProjectionFollows
<1>9. SyncsHold'
  BY <1>1, <1>2, SyncsStay DEF CatalogueIInv
<1>10. SettlementHolds'
  BY <1>1, <1>2, SettlementStays
<1>11. QED
  BY <1>4, <1>5, <1>6, <1>7, <1>8, <1>9, <1>10 DEF CatalogueIInv

SavesVerdict(i, v) ==
  proj' = [proj EXCEPT ![i].verdict = v, ![i].judged = work.path, ![i].sized = TRUE,
                       ![i].rev = IF proj[i].sized THEN @ ELSE @ + 1]

\* A verdict goes beside the path it was reached on, which is still the path of
\* the artifact if the revision is the one that was verified.
LEMMA VerdictIsSaved ==
  ASSUME Typed, ArtsHold, WorkHolds, NEW i \in Ids, i = work.rec, i # 0,
         NEW v \in {"ok", "invalid"}, work.rev # 0, Usable(proj[i], work.rev),
         SavesVerdict(i, v)
  PROVE  /\ proj' \in [Ids -> Art] /\ ArtsHold'
         /\ \A k \in Ids : /\ proj'[k].status = proj[k].status /\ proj'[k].path = proj[k].path
                           /\ proj[k].rev # 0 => proj'[k].rev # 0
                           /\ proj[k].rev <= proj'[k].rev
<1>1. proj \in [Ids -> Art] /\ proj[i] \in Art /\ ArtHolds(proj[i]) /\ work.path \in Path
  BY DEF Typed, ArtsHold
<1>2. proj[i].rev = work.rev /\ proj[i].rev \in Nat /\ work.path = proj[i].path
  BY <1>1 DEF Usable, WorkHolds, Art
<1> DEFINE n == IF proj[i].sized THEN proj[i].rev ELSE proj[i].rev + 1
           w == work.path
           q == [proj[i] EXCEPT !.verdict = v, !.judged = w, !.sized = TRUE, !.rev = n]
<1>3. n \in Nat /\ n # 0 /\ proj[i].rev <= n
  BY <1>2
<1>4. proj' = [proj EXCEPT ![i] = q]
  BY <1>1 DEF SavesVerdict
<1> HIDE DEF n, w
<1>5. /\ q.rev = n /\ q.path = proj[i].path /\ q.status = proj[i].status /\ q.judged = w
      /\ q.seen = proj[i].seen /\ q.verdict = v /\ q \in Art
  BY <1>1, <1>3 DEF Art, w
<1> HIDE DEF q
<1>8. ArtHolds(q)
  BY <1>1, <1>2, <1>3, <1>5 DEF ArtHolds, w
<1>9. proj' \in [Ids -> Art] /\ proj'[i] = q /\ \A k \in Ids \ {i} : proj'[k] = proj[k]
  BY <1>1, <1>4, <1>5
<1>10. ArtsHold'
  <2> SUFFICES ASSUME NEW k \in Ids PROVE ArtHolds(proj'[k])
    BY DEF ArtsHold, ArtHolds
  <2>1. QED
    BY <1>8, <1>9 DEF ArtsHold
<1>11. \A k \in Ids : proj[k].rev \in Nat /\ proj[k].rev <= proj'[k].rev
  <2>1. \A k \in Ids : proj[k].rev \in Nat
    BY <1>1 DEF Art
  <2>2. QED
    BY <1>3, <1>5, <1>9, <2>1
<1>12. QED
  BY <1>3, <1>5, <1>9, <1>10, <1>11

LEMMA VerifyEndsKeeps ==
  ASSUME CatalogueIInv, VerifyEnds
  PROVE  CatalogueIInv'
<1>1. /\ work.rec # 0 /\ work' = NoWork
      /\ UNCHANGED <<rows, disk, cap, todo, sync, bound, clean, spent>>
  BY SMTT(60) DEF VerifyEnds
<1>2. PICK j \in jobs :
        /\ j.rec = work.rec /\ j.rev = work.rev
        /\ IF Usable(proj[j.rec], j.rev)
           THEN \/ \E verdict \in {"ok", "invalid"} :
                     /\ proj' = [proj EXCEPT ![j.rec].verdict = verdict,
                                             ![j.rec].judged = work.path,
                                             ![j.rec].sized = TRUE,
                                             ![j.rec].rev = IF proj[j.rec].sized THEN @ ELSE @ + 1]
                     /\ JobEnds(j, IF verdict = "ok" THEN "succeeded" ELSE "failed")
                \/ cap.on /\ cap.path = work.path /\ JobEnds(j, "failed") /\ UNCHANGED proj
           ELSE /\ JobEnds(j, IF proj[j.rec].status = "recording" THEN "blocked" ELSE "failed")
                /\ UNCHANGED proj
  BY DEF VerifyEnds
<1>3. /\ Typed /\ JobsHold /\ ArtsHold /\ WorkHolds /\ SyncsHold /\ SettlementHolds
      /\ ProjectionFollows /\ j.rec \in DOMAIN rows /\ j.rec \in Ids /\ j.rev # 0
      /\ rows \in Seq(Row) /\ Len(rows) \in Nat /\ Len(rows) <= MaxRows /\ DOMAIN rows \subseteq Ids
  BY TypesAre DEF CatalogueIInv, JobsHold, Typed
<1>4. \E s \in {"succeeded", "failed", "blocked"} : JobEnds(j, s)
  BY <1>2
<1>5. jobs' \subseteq Job /\ JobsHold'
  BY <1>1, <1>3, <1>4, JobEndsIs
<1>6. /\ proj' \in [Ids -> Art] /\ ArtsHold'
      /\ \A k \in Ids : /\ proj'[k].status = proj[k].status /\ proj'[k].path = proj[k].path
                        /\ proj[k].rev # 0 => proj'[k].rev # 0
  <2>1. CASE proj' = proj
    <3> SUFFICES ASSUME NEW k \in Ids PROVE ArtHolds(proj'[k])
      BY <1>3, <2>1 DEF Typed, ArtsHold, ArtHolds
    <3>1. QED
      BY <1>3, <2>1 DEF ArtsHold
  <2>2. ASSUME NEW v \in {"ok", "invalid"}, Usable(proj[j.rec], j.rev),
               proj' = [proj EXCEPT ![j.rec].verdict = v,
                                    ![j.rec].judged = work.path,
                                    ![j.rec].sized = TRUE,
                                    ![j.rec].rev = IF proj[j.rec].sized THEN @ ELSE @ + 1]
        PROVE  /\ proj' \in [Ids -> Art] /\ ArtsHold'
               /\ \A k \in Ids : /\ proj'[k].status = proj[k].status /\ proj'[k].path = proj[k].path
                                 /\ proj[k].rev # 0 => proj'[k].rev # 0
    BY <1>1, <1>2, <1>3, <2>2, VerdictIsSaved DEF SavesVerdict
  <2>3. QED
    BY <1>2, <2>1, <2>2
<1>7. work' \in [rec : {0} \cup Ids, rev : Nat, path : Path] /\ WorkHolds'
  BY <1>1, OutIsPath, ConstantsAre DEF NoWork, WorkHolds
<1>8. Typed'
  BY <1>1, <1>3, <1>5, <1>6, <1>7 DEF Typed
<1>9. RowsHold' /\ FilesAreFew' /\ EventsHold'
  BY <1>1, EngineStays
<1>10. ProjectionFollows'
  BY <1>1, <1>3, <1>6 DEF ProjectionFollows
<1>11. SyncsHold'
  <2> SUFFICES ASSUME NEW t \in Threads PROVE SyncHolds(t)'
    BY DEF SyncsHold
  <2>1. SyncHolds(t) /\ sync[t] \in Sync /\ sync'[t] = sync[t]
    BY <1>1, <1>3 DEF SyncsHold, Typed
  <2>2. sync[t].pc = "import" /\ clean' => sync[t].snap = rows'
    BY <1>1, <2>1 DEF SyncHolds
  <2>3. rows' = rows /\ rows' \in Seq(Row) /\ Len(rows) <= Len(rows')
    BY <1>1, <1>3
  <2>4. \A k \in Ids : Follows(k) => Follows(k)'
    BY <1>6, <2>3 DEF Follows
  <2>5. sync'[t].solo => sync[t].solo /\ \A u \in Threads \ {t} : sync'[u].pc # "import"
    BY <1>1, <2>1 DEF SyncHolds
  <2>6. QED
    BY <1>3, <1>6, <2>1, <2>2, <2>3, <2>4, <2>5, SyncStays
<1>12. SettlementHolds'
  BY <1>1, <1>3, SettlementStays
<1>13. QED
  BY <1>5, <1>6, <1>7, <1>8, <1>9, <1>10, <1>11, <1>12 DEF CatalogueIInv

LEMMA CrashKeeps ==
  ASSUME CatalogueIInv, Crash
  PROVE  CatalogueIInv'
<1>1. /\ cap' = NoCap /\ todo' = << >> /\ sync' = [t \in Threads |-> NoSync] /\ work' = NoWork
      /\ spent' = [spent EXCEPT !.faults = @ + 1]
      /\ UNCHANGED <<rows, disk, proj, jobs, bound, clean>>
  BY DEF Crash
<1>2. /\ Typed /\ RowsHold /\ FilesAreFew /\ ArtsHold /\ JobsHold /\ ProjectionFollows
      /\ spent \in SpentType /\ spent.faults \in Nat
  BY TypesAre DEF CatalogueIInv, Typed
<1>3. /\ spent' \in SpentType /\ spent'.captures = spent.captures
      /\ spent'.notes = spent.notes /\ spent'.faults # 0
  BY <1>1, <1>2, SpentMoves
<1>4. NoCap \in Cap /\ NoCap.path.base = NoCap.first
  BY OutIsPath, ConstantsAre, CatalogueAssumption DEF NoCap, Cap
<1>5. work' \in [rec : {0} \cup Ids, rev : Nat, path : Path] /\ WorkHolds'
  BY <1>1, OutIsPath, ConstantsAre DEF NoWork, WorkHolds
<1>6. sync' \in [Threads -> Sync] /\ SyncsHold'
  BY <1>1, NoSyncIs DEF SyncsHold, SyncHolds
<1>7. Typed'
  BY <1>1, <1>2, <1>3, <1>4, <1>5, <1>6 DEF Typed
<1>8. EventsHold'
  BY <1>1, <1>4 DEF EventsHold
<1>9. RowsHold'
  <2>1. \A i \in DOMAIN rows : rows[i].path.base = rows[i].key /\ rows[i].note <= spent'.notes
    BY <1>2, <1>3 DEF RowsHold
  <2>2. QED
    BY <1>1, <1>2, <2>1, IdentitiesStay DEF Typed
<1>10. FilesAreFew'
  BY <1>1, <1>2, <1>3 DEF FilesAreFew, Singles
<1>11. ArtsHold' /\ JobsHold' /\ ProjectionFollows'
  BY <1>1, <1>2 DEF ArtsHold, ArtHolds, JobsHold, ProjectionFollows
<1>12. SettlementHolds'
  BY <1>3 DEF SettlementHolds, Undisturbed
<1>13. QED
  BY <1>5, <1>6, <1>7, <1>8, <1>9, <1>10, <1>11, <1>12 DEF CatalogueIInv

-----------------------------------------------------------------------------
(* Files that move, captures that end, and their events. *)

\* A file that moves keeps its base name and is still one file.
LEMMA MovesFileKeeps ==
  ASSUME CatalogueIInv, NEW p \in disk, MovesFile(p)
  PROVE  CatalogueIInv'
<1> DEFINE q == FreeDest(p.base)
<1>1. /\ p.in = "out" /\ disk' = (disk \ {p}) \cup {q}
      /\ cap' = IF cap.on /\ cap.path = p THEN [cap EXCEPT !.path = q] ELSE cap
      /\ UNCHANGED <<rows, todo, proj, sync, jobs, bound, work, clean, spent>>
  BY DEF MovesFile
<1>2. /\ Typed /\ FilesAreFew /\ EventsHold /\ SettlementHolds /\ disk \subseteq Path /\ p \in Path
      /\ cap \in Cap /\ spent.captures \in 0..MaxCaptures /\ p.base \in Bases
  BY TypesAre DEF CatalogueIInv, Typed, Path
<1>3. q \in Path /\ q \notin disk /\ q.base = p.base /\ q.in = "dest"
  BY <1>2, FreeDestIs
<1> HIDE DEF q
<1>4. /\ cap' \in Cap /\ cap'.on = cap.on /\ cap'.split = cap.split /\ cap'.first = cap.first
      /\ cap'.path.base = cap'.first
  <2>1. CASE cap.on /\ cap.path = p
    <3>1. cap' = [cap EXCEPT !.path = q]
      BY <1>1, <2>1
    <3>2. /\ cap' \in Cap /\ cap'.on = cap.on /\ cap'.split = cap.split /\ cap'.first = cap.first
          /\ cap'.path = q
      BY <1>2, <1>3, <3>1 DEF Cap
    <3>3. QED
      BY <1>2, <1>3, <2>1, <3>2 DEF EventsHold
  <2>2. CASE ~(cap.on /\ cap.path = p)
    BY <1>1, <1>2, <2>2 DEF EventsHold
  <2>3. QED
    BY <2>1, <2>2
<1>5. EventsHold'
  BY <1>1, <1>2, <1>4 DEF EventsHold
<1>6. FilesAreFew'
  <2>1. p \in Singles /\ q \notin Singles /\ Singles' = (Singles \ {p}) \cup {q}
    BY <1>1, <1>3 DEF Singles
  <2>2. /\ IsFiniteSet(Singles) /\ Cardinality(Singles) \in Nat
        /\ Cardinality(Singles) <= spent.captures
    BY <1>2, FS_CardinalityType DEF FilesAreFew
  <2>3. IsFiniteSet(Singles \ {p}) /\ Cardinality(Singles \ {p}) = Cardinality(Singles) - 1
    BY <2>1, <2>2, FS_RemoveElement
  <2>4. /\ IsFiniteSet((Singles \ {p}) \cup {q})
        /\ Cardinality((Singles \ {p}) \cup {q}) = Cardinality(Singles \ {p}) + 1
    BY <2>1, <2>3, FS_AddElement
  <2>5. IsFiniteSet(Singles') /\ Cardinality(Singles') = Cardinality(Singles)
    BY <2>1, <2>2, <2>3, <2>4
  <2>6. QED
    BY <1>1, <2>2, <2>5 DEF FilesAreFew
<1>7. Typed'
  BY <1>1, <1>2, <1>3, <1>4 DEF Typed
<1>8. RowsHold' /\ ArtsHold' /\ WorkHolds' /\ JobsHold' /\ SyncsHold' /\ ProjectionFollows'
  BY <1>1, TablesStay DEF TableVars
<1>9. SettlementHolds'
  <2>1. \A i \in DOMAIN rows : EndsAt(i) => EndsAt(i)'
    BY <1>1, <1>4 DEF EndsAt
  <2>2. QED
    BY <1>1, <1>2, <2>1 DEF SettlementHolds, Undisturbed
<1>10. QED
  BY <1>5, <1>6, <1>7, <1>8, <1>9 DEF CatalogueIInv

\* The events of a file or of the parts of a directory.
Sent(k, empty) == [x \in 1..(2 * k) |-> PartEvent(x, empty)]

LEMMA PartEvents ==
  ASSUME cap \in Cap, NEW k \in 0..Len(Parts), NEW empty
  PROVE  LET s == Sent(k, empty) IN
         /\ s \in Seq(EventType) /\ Len(s) = 2 * k
         /\ \A j \in 1..k : Part(j) \in Path /\ Part(j).in = "split"
         /\ \A x, y \in DOMAIN s : ( /\ s[x].event # "started" /\ s[y].event # "started"
                                     /\ s[x].first = s[y].first ) => x = y
         /\ \A x \in DOMAIN s : s[x].event # "started" =>
              \E l \in DOMAIN s : l < x /\ s[l].event = "started" /\ s[l].first = s[x].first
         /\ \A x \in DOMAIN s :
              /\ s[x].path.base = s[x].first
              /\ s[x].event = "started" =>
                   /\ s[x].path.in # "dest"
                   /\ \E l \in DOMAIN s : /\ l > x /\ s[l].event # "started"
                                          /\ s[l].first = s[x].first
<1> DEFINE s == Sent(k, empty)
<1>1. Len(Parts) \in Nat /\ k \in Nat /\ k <= Len(Parts) /\ 2 * k \in Nat
  BY ConstantsAre
<1>2. cap.path.n \in 0..MaxCaptures /\ cap.of \in Broadcasts
  BY DEF Cap, Path
<1>3. \A j \in 1..k : /\ Parts[j] \in Bases /\ Part(j) \in Path /\ Part(j).in = "split"
                      /\ Part(j).base = Parts[j]
  <2> SUFFICES ASSUME NEW j \in 1..k
               PROVE  /\ Parts[j] \in Bases /\ Part(j) \in Path /\ Part(j).in = "split"
                      /\ Part(j).base = Parts[j]
    OBVIOUS
  <2>1. Parts[j] \in Bases
    BY <1>1, ConstantsAre
  <2>2. QED
    BY <1>2, <2>1 DEF Part, Path
<1>4. \A x \in 1..(2 * k) : (x + 1) \div 2 \in 1..k
  BY <1>1
<1>5. \A x \in 1..(2 * k) :
        /\ PartEvent(x, empty) \in EventType
        /\ PartEvent(x, empty).first = Parts[(x + 1) \div 2] /\ PartEvent(x, empty).path = Part((x + 1) \div 2)
        /\ PartEvent(x, empty).event = "started" <=> x % 2 = 1
  <2> SUFFICES ASSUME NEW x \in 1..(2 * k)
               PROVE  /\ PartEvent(x, empty) \in EventType
                      /\ PartEvent(x, empty).first = Parts[(x + 1) \div 2]
                      /\ PartEvent(x, empty).path = Part((x + 1) \div 2)
                      /\ PartEvent(x, empty).event = "started" <=> x % 2 = 1
    OBVIOUS
  <2> DEFINE j == (x + 1) \div 2
             w == IF x % 2 = 1 THEN "started" ELSE IF j \in empty THEN "failed" ELSE "stopped"
  <2>1. j \in 1..k /\ w \in {"started", "stopped", "failed"} /\ (w = "started" <=> x % 2 = 1)
    BY <1>4
  <2>2. PartEvent(x, empty) = [event |-> w, first |-> Parts[j], path |-> Part(j), of |-> cap.of]
    BY DEF PartEvent, Event
  <2> HIDE DEF j, w
  <2>3. Parts[j] \in Bases /\ Part(j) \in Path
    BY <1>3, <2>1
  <2>4. /\ PartEvent(x, empty) \in EventType /\ PartEvent(x, empty).first = Parts[j]
        /\ PartEvent(x, empty).path = Part(j) /\ PartEvent(x, empty).event = w
    BY <1>2, <2>1, <2>2, <2>3 DEF EventType
  <2>5. QED
    BY <2>4 DEF j, w
<1>6. /\ s \in Seq(EventType) /\ Len(s) = 2 * k /\ DOMAIN s = 1..(2 * k)
      /\ \A x \in 1..(2 * k) : s[x] = PartEvent(x, empty)
  <2> DEFINE n == 2 * k
  <2>1. n \in Nat
    BY <1>1
  <2>2. s = [x \in 1..n |-> PartEvent(x, empty)] /\ \A x \in 1..n : PartEvent(x, empty) \in EventType
    BY <1>5 DEF Sent
  <2> HIDE DEF n
  <2>3. s \in Seq(EventType) /\ Len(s) = n /\ DOMAIN s = 1..n
    BY <2>1, <2>2
  <2>4. QED
    BY <2>2, <2>3 DEF n
<1> HIDE DEF s
<1>0. ASSUME NEW x \in DOMAIN s
      PROVE  /\ x \in 1..(2 * k) /\ (x + 1) \div 2 \in 1..k
             /\ s[x].first = Parts[(x + 1) \div 2] /\ s[x].path = Part((x + 1) \div 2)
             /\ s[x].event = "started" => x % 2 = 1
             /\ x % 2 = 1 => s[x].event = "started"
  <2>1. x \in 1..(2 * k) /\ s[x] = PartEvent(x, empty)
    BY <1>6
  <2>2. (x + 1) \div 2 \in 1..k
    BY <1>4, <2>1
  <2>3. /\ PartEvent(x, empty).first = Parts[(x + 1) \div 2]
        /\ PartEvent(x, empty).path = Part((x + 1) \div 2)
        /\ PartEvent(x, empty).event = "started" <=> x % 2 = 1
    BY <1>5, <2>1
  <2>4. QED
    BY <2>1, <2>2, <2>3
<1>7. ASSUME NEW x \in DOMAIN s PROVE s[x].path.base = s[x].first
  <2>1. (x + 1) \div 2 \in 1..k /\ s[x].first = Parts[(x + 1) \div 2]
        /\ s[x].path = Part((x + 1) \div 2)
    BY <1>0
  <2>2. QED
    BY <1>3, <2>1
<1>8. ASSUME NEW x \in DOMAIN s, s[x].event = "started"
      PROVE  /\ s[x].path.in # "dest"
             /\ \E l \in DOMAIN s : l > x /\ s[l].event # "started" /\ s[l].first = s[x].first
  <2>1. x \in 1..(2 * k) /\ x % 2 = 1
    BY <1>0, <1>8
  <2>2. /\ x + 1 \in 1..(2 * k) /\ (x + 1) % 2 = 0
        /\ ((x + 1) + 1) \div 2 = (x + 1) \div 2
    BY <1>1, <2>1
  <2>3. s[x].path.in = "split"
    <3>1. (x + 1) \div 2 \in 1..k /\ s[x].path = Part((x + 1) \div 2)
      BY <1>0
    <3>2. QED
      BY <1>3, <3>1
  <2>4. s[x + 1].event # "started" /\ s[x + 1].first = s[x].first
    <3> DEFINE y == x + 1
    <3>1. y \in 1..(2 * k) /\ y % 2 = 0 /\ (y + 1) \div 2 = (x + 1) \div 2
      BY <2>2
    <3> HIDE DEF y
    <3>2. s[y] = PartEvent(y, empty) /\ PartEvent(y, empty).event # "started"
          /\ PartEvent(y, empty).first = Parts[(y + 1) \div 2]
      <4>1. s[y] = PartEvent(y, empty)
        BY <1>6, <3>1
      <4>2. /\ PartEvent(y, empty).first = Parts[(y + 1) \div 2]
            /\ PartEvent(y, empty).event = "started" <=> y % 2 = 1
        BY <1>5, <3>1
      <4>3. QED
        BY <3>1, <4>1, <4>2
    <3>3. s[x].first = Parts[(x + 1) \div 2]
      BY <1>5, <1>6, <2>1
    <3>4. s[y].event # "started" /\ s[y].first = s[x].first
      BY <3>1, <3>2, <3>3
    <3>5. QED
      BY <3>4 DEF y
  <2>5. x + 1 \in DOMAIN s /\ x + 1 > x
    BY <1>6, <2>1, <2>2
  <2>6. QED
    BY <2>3, <2>4, <2>5
<1>9. ASSUME NEW x \in DOMAIN s, NEW y \in DOMAIN s, s[x].event # "started",
             s[y].event # "started", s[x].first = s[y].first
      PROVE  x = y
  <2>1. x \in 1..(2 * k) /\ x % 2 = 0 /\ y \in 1..(2 * k) /\ y % 2 = 0
    <3>1. x \in 1..(2 * k) /\ y \in 1..(2 * k) /\ x % 2 # 1 /\ y % 2 # 1
      BY <1>0, <1>9
    <3>2. QED
      BY <1>1, <3>1
  <2>2. (x + 1) \div 2 \in DOMAIN Parts /\ (y + 1) \div 2 \in DOMAIN Parts
    <3>1. (x + 1) \div 2 \in 1..k /\ (y + 1) \div 2 \in 1..k
      BY <1>0
    <3>2. QED
      BY <1>1, <3>1, ConstantsAre
  <2>3. Parts[(x + 1) \div 2] = Parts[(y + 1) \div 2]
    BY <1>0, <1>9
  <2>4. (x + 1) \div 2 = (y + 1) \div 2
    BY <2>2, <2>3, CatalogueAssumption DEF IsInjective
  <2>5. QED
    BY <1>1, <2>1, <2>4
<1>10. ASSUME NEW x \in DOMAIN s, s[x].event # "started"
       PROVE  \E l \in DOMAIN s : l < x /\ s[l].event = "started" /\ s[l].first = s[x].first
  <2> DEFINE y == x - 1
  <2>1. x \in 1..(2 * k) /\ x % 2 = 0
    <3>1. x \in 1..(2 * k) /\ x % 2 # 1
      BY <1>0, <1>10
    <3>2. QED
      BY <1>1, <3>1
  <2>2. y \in 1..(2 * k) /\ y % 2 = 1 /\ y < x /\ (y + 1) \div 2 = (x + 1) \div 2
    BY <1>1, <2>1
  <2> HIDE DEF y
  <2>3. s[y].event = "started" /\ s[y].first = Parts[(y + 1) \div 2]
    BY <1>0, <1>6, <2>2
  <2>4. s[x].first = Parts[(x + 1) \div 2]
    BY <1>0
  <2>5. QED
    BY <1>6, <2>2, <2>3, <2>4
<1>11. QED
  BY <1>3, <1>6, <1>7, <1>8, <1>9, <1>10 DEF s

LEMMA FinishesKeeps ==
  ASSUME CatalogueIInv, Finishes
  PROVE  CatalogueIInv'
<1>1. /\ cap.on /\ LoopFree /\ cap' = NoCap
      /\ UNCHANGED <<rows, proj, sync, jobs, bound, work, clean, spent>>
  BY DEF Finishes
<1>2. /\ Typed /\ FilesAreFew /\ EventsHold /\ SettlementHolds /\ disk \subseteq Path
      /\ cap \in Cap
  BY DEF CatalogueIInv, Typed
<1>3. NoCap \in Cap /\ NoCap.path.base = NoCap.first
  BY OutIsPath, ConstantsAre, CatalogueAssumption DEF NoCap, Cap
<1>4. RowsHold' /\ ArtsHold' /\ WorkHolds' /\ JobsHold' /\ SyncsHold' /\ ProjectionFollows'
  BY <1>1, TablesStay DEF TableVars
<1>5. CASE cap.split /\ \E k \in 0..Len(Parts) : \E empty \in SUBSET (1..k) :
                          /\ disk' = disk \cup {Part(j) : j \in 1..k}
                          /\ todo' = [x \in 1..(2 * k) |-> PartEvent(x, empty)]
  <2>0. PICK k \in 0..Len(Parts) : \E empty \in SUBSET (1..k) :
             /\ disk' = disk \cup {Part(j) : j \in 1..k}
             /\ todo' = [x \in 1..(2 * k) |-> PartEvent(x, empty)]
    BY <1>5
  <2>1. PICK empty \in SUBSET (1..k) :
             /\ disk' = disk \cup {Part(j) : j \in 1..k}
             /\ todo' = [x \in 1..(2 * k) |-> PartEvent(x, empty)]
    BY <2>0
  <2>2. /\ todo' \in Seq(EventType)
        /\ \A j \in 1..k : Part(j) \in Path /\ Part(j).in = "split"
        /\ \A x \in DOMAIN todo' :
              /\ todo'[x].path.base = todo'[x].first
              /\ todo'[x].event = "started" =>
                   /\ todo'[x].path.in # "dest"
                   /\ \E l \in DOMAIN todo' : /\ l > x /\ todo'[l].event # "started"
                                              /\ todo'[l].first = todo'[x].first
    <3> DEFINE s == Sent(k, empty)
    <3>1. /\ s \in Seq(EventType)
          /\ \A j \in 1..k : Part(j) \in Path /\ Part(j).in = "split"
          /\ \A x \in DOMAIN s :
              /\ s[x].path.base = s[x].first
              /\ s[x].event = "started" =>
                   /\ s[x].path.in # "dest"
                   /\ \E l \in DOMAIN s : /\ l > x /\ s[l].event # "started"
                                          /\ s[l].first = s[x].first
      BY <1>2, PartEvents
    <3>2. todo' = s
      BY <2>1 DEF Sent
    <3> HIDE DEF s
    <3>3. QED
      BY <3>1, <3>2
  <2>3. disk' \subseteq Path /\ Singles' = Singles
    BY <1>2, <2>1, <2>2 DEF Singles
  <2>4. Typed'
    BY <1>1, <1>2, <1>3, <2>2, <2>3 DEF Typed
  <2>5. EventsHold'
    BY <1>1, <1>3, <2>2 DEF EventsHold
  <2>6. FilesAreFew'
    BY <1>1, <1>2, <2>3 DEF FilesAreFew
  <2>7. SettlementHolds'
    BY <1>1, <1>2, <1>5 DEF SettlementHolds, Undisturbed, LoopFree, EndsAt
  <2>8. QED
    BY <1>4, <2>4, <2>5, <2>6, <2>7 DEF CatalogueIInv
<1>6. ASSUME NEW w \in {"stopped", "failed"}, ~cap.split, UNCHANGED disk,
             todo' = <<Event(w, cap.first, cap.path)>>
      PROVE  CatalogueIInv'
  <2> DEFINE e == Event(w, cap.first, cap.path)
  <2>1. e = [event |-> w, first |-> cap.first, path |-> cap.path, of |-> cap.of]
    BY DEF Event
  <2>2. todo' = <<e>>
    BY <1>6
  <2> HIDE DEF e
  <2>3. /\ e.event # "started" /\ e.first = cap.first /\ e.path = cap.path
        /\ e \in EventType
    BY <1>2, <2>1 DEF Cap, EventType
  <2>4. DOMAIN todo' = {1} /\ todo'[1] = e /\ todo' \in Seq(EventType)
    BY <2>2, <2>3
  <2>5. Typed'
    BY <1>1, <1>2, <1>3, <1>6, <2>4 DEF Typed
  <2>6. EventsHold'
    BY <1>1, <1>2, <1>3, <2>3, <2>4 DEF EventsHold
  <2>7. FilesAreFew'
    BY <1>1, <1>2, <1>6 DEF FilesAreFew, Singles
  <2>8. \A i \in DOMAIN rows : EndsAt(i) => EndsAt(i)'
    BY <1>1, <2>3, <2>4 DEF EndsAt, LoopFree
  <2>9. SettlementHolds'
    BY <1>1, <1>2, <2>8 DEF SettlementHolds, Undisturbed
  <2>10. QED
    BY <1>4, <2>5, <2>6, <2>7, <2>9 DEF CatalogueIInv
<1>7. QED
  BY <1>5, <1>6 DEF Finishes

\* What the catalogue makes of the first event that is to be sent.
LEMMA LoggedRows ==
  ASSUME CatalogueIInv, NEW e \in EventType, e.path.base = e.first, rows' = After(e),
         spent'.notes = spent.notes
  PROVE  /\ rows' \in Seq(Row) /\ Len(rows) <= Len(rows') /\ Len(rows') <= MaxRows /\ RowsHold'
         /\ e.event = "started" =>
              \A i \in DOMAIN rows' :
                \/ rows'[i].status = "recording" /\ rows'[i].path = e.path
                \/ i \in DOMAIN rows /\ rows'[i] = rows[i]
         /\ e.event # "started" =>
              \A i \in DOMAIN rows' :
                /\ i \in DOMAIN rows
                /\ IF IsEndOf(e, i)
                   THEN /\ rows'[i].path = e.path
                        /\ rows'[i].status = IF e.event = "stopped" THEN "completed" ELSE "failed"
                   ELSE rows'[i] = rows[i]
<1>1. /\ Typed /\ RowsHold /\ rows \in Seq(Row) /\ Len(rows) <= MaxRows /\ spent.notes \in Nat
      /\ Len(rows) \in Nat /\ MaxRows \in Nat
  BY TypesAre, ConstantsAre DEF CatalogueIInv, Typed
<1>2. CASE e.event = "started"
  <2>1. rows' = WithStart(e)
    BY <1>2 DEF After
  <2>2. QED
    BY <1>1, <1>2, <2>1, StartedRows
<1>3. CASE e.event # "started"
  <2>1. rows' = WithEnd(e)
    BY <1>3 DEF After
  <2>2. /\ rows' \in Seq(Row) /\ Len(rows') = Len(rows) /\ RowsHold'
        /\ \A i \in DOMAIN rows :
              IF IsEndOf(e, i)
              THEN /\ rows'[i].path = e.path
                   /\ rows'[i].status = IF e.event = "stopped" THEN "completed" ELSE "failed"
              ELSE rows'[i] = rows[i]
    BY <1>1, <1>3, <2>1, EndedRows
  <2>3. DOMAIN rows' = DOMAIN rows /\ Len(rows) <= Len(rows')
    BY <1>1, <2>2
  <2>4. QED
    BY <1>1, <1>3, <2>2, <2>3
<1>4. QED
  BY <1>2, <1>3

\* The first event is sent, the others come one place nearer.
LEMMA TodoMoves ==
  ASSUME Typed, EventsHold, todo # << >>, todo' = Tail(todo), UNCHANGED cap
  PROVE  /\ todo[1] \in EventType /\ todo[1].path.base = todo[1].first
         /\ todo' \in Seq(EventType) /\ EventsHold'
         /\ \A k \in DOMAIN todo : k # 1 => k - 1 \in DOMAIN todo' /\ todo'[k - 1] = todo[k]
<1>1. /\ todo \in Seq(EventType) /\ Len(todo) \in Nat /\ Len(todo) >= 1
      /\ DOMAIN todo = 1..Len(todo)
  BY DEF Typed
<1>2. /\ todo' \in Seq(EventType) /\ DOMAIN todo' = 1..(Len(todo) - 1)
      /\ \A k \in 1..(Len(todo) - 1) : todo'[k] = todo[k + 1]
  BY <1>1
<1>3. todo[1] \in EventType /\ todo[1].path.base = todo[1].first
  BY <1>1 DEF EventsHold
<1>4. \A k \in DOMAIN todo : k # 1 => k - 1 \in DOMAIN todo' /\ todo'[k - 1] = todo[k]
  <2> SUFFICES ASSUME NEW k \in DOMAIN todo, k # 1
               PROVE  k - 1 \in DOMAIN todo' /\ todo'[k - 1] = todo[k]
    OBVIOUS
  <2>1. k - 1 \in 1..(Len(todo) - 1) /\ (k - 1) + 1 = k
    BY <1>1
  <2>2. QED
    BY <1>2, <2>1
<1>5. EventsHold'
  <2>1. cap'.path.base = cap'.first
    BY DEF EventsHold
  <2>2. ASSUME NEW k \in DOMAIN todo'
        PROVE  /\ todo'[k].path.base = todo'[k].first
               /\ todo'[k].event = "started" =>
                    /\ todo'[k].path.in # "dest"
                    /\ \E l \in DOMAIN todo' : /\ l > k /\ todo'[l].event # "started"
                                               /\ todo'[l].first = todo'[k].first
    <3> DEFINE m == k + 1
    <3>1. m \in DOMAIN todo /\ todo'[k] = todo[m] /\ k \in Nat
      BY <1>1, <1>2
    <3>2. /\ todo[m].path.base = todo[m].first
          /\ todo[m].event = "started" =>
               /\ todo[m].path.in # "dest"
               /\ \E l \in DOMAIN todo : /\ l > m /\ todo[l].event # "started"
                                         /\ todo[l].first = todo[m].first
      BY <3>1 DEF EventsHold
    <3>3. ASSUME NEW l \in DOMAIN todo, l > m, todo[l].event # "started",
                 todo[l].first = todo[m].first
          PROVE  \E j \in DOMAIN todo' : /\ j > k /\ todo'[j].event # "started"
                                         /\ todo'[j].first = todo'[k].first
      <4>1. l # 1 /\ l - 1 > k
        BY <1>1, <3>1, <3>3
      <4>2. l - 1 \in DOMAIN todo' /\ todo'[l - 1] = todo[l]
        BY <1>4, <4>1
      <4>3. QED
        BY <3>1, <3>3, <4>1, <4>2
    <3> HIDE DEF m
    <3>4. QED
      BY <3>1, <3>2, <3>3
  <2>3. QED
    BY <2>1, <2>2 DEF EventsHold
<1>6. QED
  BY <1>2, <1>3, <1>4, <1>5

LEMMA LogsKeeps ==
  ASSUME CatalogueIInv, Logs
  PROVE  CatalogueIInv'
<1> DEFINE e == todo[1]
           r == IF e.event = "stopped" /\ Found(e.path) # {}
                THEN CHOOSE i \in Found(e.path) : TRUE ELSE 0
           w == IF r = 0 THEN "idle" ELSE "asked"
<1>1. /\ todo # << >> /\ sync[Loop].pc = "idle" /\ todo' = Tail(todo)
      /\ UNCHANGED <<disk, cap, proj, jobs, bound, work>>
  BY DEF Logs
<1>2. /\ Typed /\ RowsHold /\ EventsHold /\ SettlementHolds /\ SyncsHold
      /\ rows \in Seq(Row) /\ Len(rows) <= MaxRows /\ Len(rows) \in Nat /\ MaxRows \in Nat
      /\ DOMAIN rows = 1..Len(rows) /\ sync \in [Threads -> Sync] /\ clean \in BOOLEAN
      /\ spent \in SpentType /\ Loop \in Threads /\ todo \in Seq(EventType)
  BY TypesAre, ConstantsAre DEF CatalogueIInv, Typed
<1>3. /\ e \in EventType /\ e.path.base = e.first /\ e = Head(todo)
      /\ todo' \in Seq(EventType) /\ EventsHold'
      /\ \A k \in DOMAIN todo : k # 1 => k - 1 \in DOMAIN todo' /\ todo'[k - 1] = todo[k]
  BY <1>1, <1>2, TodoMoves
<1>4. \/ rows' = After(e) /\ clean' = FALSE /\ spent' = spent
      \/ rows' = rows /\ clean' = clean /\ spent' = [spent EXCEPT !.faults = @ + 1]
  BY <1>3 DEF Logs
<1>5. sync' = [t \in Threads |->
                 IF t = Loop
                 THEN IF e.event = "stopped" /\ Found(e.path) # {}
                      THEN [NoSync EXCEPT !.pc = "asked",
                                          !.rec = CHOOSE i \in Found(e.path) : TRUE]
                      ELSE NoSync
                 ELSE [sync[t] EXCEPT !.solo = @ /\ rows' = rows]]
  BY <1>3 DEF Logs
<1> HIDE DEF e
<1>6. /\ spent' \in SpentType /\ spent'.captures = spent.captures /\ spent'.notes = spent.notes
      /\ (rows' = After(e) /\ clean' = FALSE /\ spent' = spent) \/ spent'.faults # 0
  <2>1. spent.faults \in Nat
    BY <1>2 DEF SpentType
  <2>2. QED
    BY <1>2, <1>4, <2>1, SpentMoves
<1>7. /\ rows' \in Seq(Row) /\ Len(rows) <= Len(rows') /\ Len(rows') <= MaxRows /\ RowsHold'
  <2>1. CASE rows' = After(e)
    BY <1>3, <1>6, <2>1, LoggedRows
  <2>2. CASE rows' = rows
    <3>1. \A i \in DOMAIN rows : rows[i].path.base = rows[i].key /\ rows[i].note <= spent'.notes
      BY <1>2, <1>6 DEF RowsHold
    <3>2. QED
      BY <1>2, <2>2, <3>1, IdentitiesStay
  <2>3. QED
    BY <1>4, <2>1, <2>2
<1>8. DOMAIN rows' = 1..Len(rows') /\ Len(rows') \in Nat /\ DOMAIN rows \subseteq DOMAIN rows'
      /\ DOMAIN rows' \subseteq Ids
  <2>1. DOMAIN rows' = 1..Len(rows') /\ Len(rows') \in Nat
    BY <1>7
  <2>2. QED
    BY <1>2, <1>7, <2>1 DEF Ids
<1>9. /\ r \in {0} \cup DOMAIN rows'
      /\ e.event = "stopped" /\ Found(e.path) # {} => r \in Found(e.path) /\ r # 0
  BY <1>8 DEF Found
<1>10. /\ sync'[Loop] = IF r = 0 THEN NoSync ELSE [NoSync EXCEPT !.pc = "asked", !.rec = r]
       /\ \A t \in Threads \ {Loop} : sync'[t] = [sync[t] EXCEPT !.solo = @ /\ rows' = rows]
  BY <1>2, <1>5, <1>9
<1> HIDE DEF r
<1>11. /\ sync'[Loop] \in Sync /\ sync'[Loop].rec = r /\ sync'[Loop].next = 1
       /\ sync'[Loop].pc = w /\ sync'[Loop].solo = FALSE
  <2>1. CASE r = 0
    BY <1>10, <2>1, NoSyncIs
  <2>2. CASE r # 0
    <3>1. sync'[Loop] = [NoSync EXCEPT !.pc = "asked", !.rec = r]
      BY <1>10, <2>2
    <3>2. r \in {0} \cup Ids
      BY <1>8, <1>9
    <3>3. /\ sync'[Loop] \in Sync /\ sync'[Loop].rec = r /\ sync'[Loop].next = 1
          /\ sync'[Loop].pc = "asked" /\ sync'[Loop].solo = FALSE
      BY <3>1, <3>2, NoSyncIs DEF NoSync, Sync
    <3>4. QED
      BY <2>2, <3>3
  <2>3. QED
    BY <2>1, <2>2
<1>12. \A t \in Threads \ {Loop} :
         /\ sync'[t] \in Sync /\ sync'[t].pc = sync[t].pc /\ sync'[t].snap = sync[t].snap
         /\ sync'[t].next = sync[t].next /\ sync'[t].rec = sync[t].rec
         /\ sync'[t].solo => sync[t].solo /\ rows' = rows
  <2> SUFFICES ASSUME NEW t \in Threads \ {Loop}
               PROVE  /\ sync'[t] \in Sync /\ sync'[t].pc = sync[t].pc
                      /\ sync'[t].snap = sync[t].snap
                      /\ sync'[t].next = sync[t].next /\ sync'[t].rec = sync[t].rec
                      /\ sync'[t].solo => sync[t].solo /\ rows' = rows
    OBVIOUS
  <2> DEFINE b == sync[t].solo /\ rows' = rows
  <2>1. sync[t] \in Sync /\ b \in BOOLEAN
    BY <1>2, SyncFields
  <2>2. sync'[t] = [sync[t] EXCEPT !.solo = b]
    BY <1>10
  <2> HIDE DEF b
  <2>3. /\ sync'[t] \in Sync /\ sync'[t].pc = sync[t].pc /\ sync'[t].snap = sync[t].snap
        /\ sync'[t].next = sync[t].next /\ sync'[t].rec = sync[t].rec /\ sync'[t].solo = b
    BY <2>1, <2>2 DEF Sync
  <2>4. QED
    BY <2>3 DEF b
<1>13. sync' \in [Threads -> Sync]
  <2>1. sync' = [t \in Threads |-> sync'[t]]
    BY <1>5
  <2>2. \A t \in Threads : sync'[t] \in Sync
    BY <1>11, <1>12
  <2>3. QED
    BY <2>1, <2>2
<1>14. clean' \in BOOLEAN
  BY <1>2, <1>4
<1>15. Typed'
  BY <1>1, <1>2, <1>3, <1>6, <1>7, <1>13, <1>14 DEF Typed
<1>16. FilesAreFew'
  BY <1>1, <1>6 DEF CatalogueIInv, FilesAreFew, Singles
<1>17. ArtsHold' /\ WorkHolds' /\ JobsHold'
  <2>1. ArtsHold'
    BY <1>1 DEF CatalogueIInv, ArtsHold, ArtHolds
  <2>2. WorkHolds' /\ JobsHold'
    BY <1>1, <1>8 DEF CatalogueIInv, WorkHolds, JobsHold
  <2>3. QED
    BY <2>1, <2>2
<1>18. SyncsHold'
  <2> SUFFICES ASSUME NEW t \in Threads PROVE SyncHolds(t)'
    BY DEF SyncsHold
  <2>1. CASE t = Loop
    BY <1>9, <1>11, <2>1 DEF SyncHolds
  <2>2. CASE t # Loop
    <3>1. SyncHolds(t) /\ sync[t] \in Sync
      BY <1>2 DEF SyncsHold
    <3>2. sync[t].pc = "import" /\ clean' => sync[t].snap = rows'
      BY <1>4, <3>1 DEF SyncHolds
    <3>3. \A i \in Ids : proj[i].rev # 0 => proj'[i].rev # 0
      BY <1>1
    <3>4. sync'[t].solo => /\ sync[t].solo /\ rows' = rows
                           /\ \A i \in Ids : Follows(i) => Follows(i)'
                           /\ \A u \in Threads \ {t} : sync'[u].pc # "import"
      <4>1. rows' = rows => \A i \in Ids : Follows(i) => Follows(i)'
        BY <1>1 DEF Follows
      <4>2. sync[t].solo => \A u \in Threads \ {t} : sync'[u].pc # "import"
        BY <1>11, <1>12, <3>1 DEF SyncHolds
      <4>3. QED
        BY <1>12, <2>2, <4>1, <4>2
    <3> HIDE DEF w
    <3>5. QED
      BY <1>2, <1>7, <1>12, <2>2, <3>1, <3>2, <3>3, <3>4, SyncStays
  <2>3. QED
    BY <2>1, <2>2
<1>19. ProjectionFollows'
  <2>1. CASE clean' = FALSE
    BY <2>1 DEF ProjectionFollows
  <2>2. CASE rows' = rows /\ clean' = clean
    BY <1>1, <2>2 DEF CatalogueIInv, ProjectionFollows
  <2>3. QED
    BY <1>4, <2>1, <2>2
<1>20. SettlementHolds'
  <2> SUFFICES ASSUME Undisturbed', NEW i \in DOMAIN rows'
               PROVE  /\ rows'[i].status = "recording" => EndsAt(i)'
                      /\ rows'[i].status = "completed" =>
                           bound'[i] # 0 \/ (sync'[Loop].pc # "idle" /\ sync'[Loop].rec = i)
    BY DEF SettlementHolds
  <2>1. rows' = After(e) /\ Undisturbed
    BY <1>6 DEF Undisturbed
  <2>2. /\ e.event = "started" =>
             \/ rows'[i].status = "recording" /\ rows'[i].path = e.path
             \/ i \in DOMAIN rows /\ rows'[i] = rows[i]
        /\ e.event # "started" =>
             /\ i \in DOMAIN rows
             /\ IF IsEndOf(e, i)
                THEN /\ rows'[i].path = e.path
                     /\ rows'[i].status = IF e.event = "stopped" THEN "completed" ELSE "failed"
                ELSE rows'[i] = rows[i]
    BY <1>3, <1>6, <2>1, LoggedRows
  <2>3. CASE /\ e.event = "started"
             /\ rows'[i].status = "recording" /\ rows'[i].path = e.path
    <3>1. PICK l \in DOMAIN todo : /\ l > 1 /\ todo[l].event # "started" /\ todo[l].first = e.first
      <4>1. 1 \in DOMAIN todo
        BY <1>1, <1>2
      <4>2. QED
        BY <1>2, <2>3, <4>1 DEF EventsHold, e
    <3>2. File(rows'[i].path) = <<e.first, 0>>
      <4>1. 1 \in DOMAIN todo
        BY <1>1, <1>2
      <4>2. e.path.in # "dest"
        BY <1>2, <2>3, <4>1 DEF EventsHold, e
      <4>3. QED
        BY <1>3, <2>3, <4>2 DEF File
    <3>3. l - 1 \in DOMAIN todo' /\ todo'[l - 1] = todo[l]
      BY <1>2, <1>3, <3>1
    <3>4. EndsAt(i)'
      BY <3>1, <3>2, <3>3 DEF EndsAt
    <3>5. QED
      BY <2>3, <3>4
  <2>4. CASE i \in DOMAIN rows /\ rows'[i] = rows[i] /\ (e.event = "started" \/ ~IsEndOf(e, i))
    <3>1. /\ rows[i].status = "recording" => EndsAt(i)
          /\ rows[i].status = "completed" => bound[i] # 0
      BY <1>1, <1>2, <2>1, <2>4 DEF SettlementHolds
    <3>2. ASSUME EndsAt(i) PROVE EndsAt(i)'
      <4>1. CASE cap.on /\ ~cap.split /\ File(rows[i].path) = <<cap.first, 0>>
        BY <1>1, <2>4, <4>1 DEF EndsAt
      <4>2. ASSUME NEW k \in DOMAIN todo, todo[k].event # "started",
                   File(rows[i].path) = <<todo[k].first, 0>>
            PROVE  EndsAt(i)'
        <5>1. k # 1
          BY <2>4, <4>2 DEF IsEndOf, e
        <5>2. k - 1 \in DOMAIN todo' /\ todo'[k - 1] = todo[k]
          BY <1>3, <5>1
        <5>3. QED
          BY <2>4, <4>2, <5>2 DEF EndsAt
      <4>3. QED
        BY <3>2, <4>1, <4>2 DEF EndsAt
    <3>3. QED
      BY <1>1, <2>4, <3>1, <3>2
  <2>5. CASE /\ e.event # "started" /\ IsEndOf(e, i) /\ rows'[i].path = e.path
             /\ rows'[i].status = IF e.event = "stopped" THEN "completed" ELSE "failed"
    <3>1. rows'[i].status # "recording"
      BY <2>5
    <3>2. rows'[i].status = "completed" => e.event = "stopped"
      BY <2>5
    <3>3. ASSUME e.event = "stopped" PROVE sync'[Loop].pc # "idle" /\ sync'[Loop].rec = i
      <4>1. i \in Found(e.path)
        BY <2>5 DEF Found
      <4>2. r \in Found(e.path) /\ r # 0
        BY <1>9, <3>3, <4>1
      <4>3. /\ r \in DOMAIN rows' /\ rows'[r].path.base = e.path.base
            /\ rows'[i].path.base = e.path.base
        BY <2>5, <4>2 DEF Found, File
      <4>4. r = i
        BY <1>7, <4>3 DEF RowsHold
      <4>5. QED
        BY <1>11, <4>2, <4>4
    <3>4. QED
      BY <3>1, <3>2, <3>3
  <2>6. QED
    BY <2>2, <2>3, <2>4, <2>5
<1>21. QED
  BY <1>3, <1>7, <1>15, <1>16, <1>17, <1>18, <1>19, <1>20 DEF CatalogueIInv

-----------------------------------------------------------------------------
(* What becomes of a capture's verification.                               *)

\* Threads other than the event loop, which import no row that they did not.
OthersStay ==
    \A u \in Threads \ {Loop} :
        sync'[u].pc = "import" => /\ sync[u].pc = "import" /\ sync'[u].snap = sync[u].snap
                                  /\ sync[u].next <= sync'[u].next
LoopStays ==
    /\ sync'[Loop].pc = sync[Loop].pc /\ sync'[Loop].snap = sync[Loop].snap
    /\ sync'[Loop].next = sync[Loop].next /\ sync'[Loop].rec = sync[Loop].rec
RowsLookAlike ==
    /\ DOMAIN rows' = DOMAIN rows
    /\ \A i \in DOMAIN rows : /\ rows'[i].key = rows[i].key /\ rows'[i].path = rows[i].path
                              /\ rows'[i].status = rows[i].status

LEMMA ImportingStays ==
  ASSUME Typed, Typed', LoopStays, OthersStay, NEW i \in Ids
  PROVE  \A u \in Importing(i)' : u \in Importing(i) /\ sync'[u].snap = sync[u].snap
<1> SUFFICES ASSUME NEW u \in Importing(i)'
             PROVE  u \in Importing(i) /\ sync'[u].snap = sync[u].snap
  OBVIOUS
<1>1. /\ u \in Threads /\ sync'[u].pc = "import" /\ i \in sync'[u].next..Len(sync'[u].snap)
  BY DEF Importing
<1>2. /\ sync[u].next \in Nat /\ sync'[u].next \in Nat /\ i \in Nat
  BY <1>1, TypesAre, SyncFields DEF Typed
<1>3. /\ sync[u].pc = "import" /\ sync'[u].snap = sync[u].snap /\ sync[u].next <= sync'[u].next
  <2>1. CASE u = Loop
    BY <1>1, <1>2, <2>1 DEF LoopStays
  <2>2. CASE u # Loop
    BY <1>1, <2>2 DEF OthersStay
  <2>3. QED
    BY <2>1, <2>2
<1>4. i \in sync[u].next..Len(sync[u].snap)
  BY <1>1, <1>2, <1>3
<1>5. QED
  BY <1>1, <1>3, <1>4 DEF Importing

\* Steps that touch neither rows nor events nor keys, and no path of an artifact.
LEMMA QueueStays ==
  ASSUME Typed, Typed', QueueIInv, Undisturbed' => Undisturbed, UNCHANGED past,
         bound' = bound, todo' = todo, RowsLookAlike, LoopStays, OthersStay,
         LoopWaits', JobsAreAbout',
         \A j \in jobs : \E n \in jobs' : n.rec = j.rec /\ n.rev = j.rev /\ n.about = j.about,
         \A i \in Ids : proj'[i].path = proj[i].path,
         cap'.on /\ ~cap'.split => cap.on /\ ~cap.split /\ cap'.first = cap.first
  PROVE  QueueIInv'
<1>1. PastTyped' /\ EventsOnce'
  BY DEF QueueIInv, PastTyped, EventsOnce, past
<1>2. RecordingIsOnRecord'
  BY DEF QueueIInv, RecordingIsOnRecord, RowsLookAlike, Announced
<1>3. KeysAreFree'
  BY DEF QueueIInv, KeysAreFree, RowsLookAlike, LoopStays, Pending, past
<1>4. DOMAIN rows \subseteq Ids
  BY TypesAre
<1>5. CompletedIsQueued'
  <2> SUFFICES ASSUME Undisturbed', NEW i \in DOMAIN rows' \ (reused' \cup raced'),
                      rows'[i].status = "completed"
               PROVE  Settled(i)' \/ Pending(i)'
    BY DEF CompletedIsQueued
  <2>1. i \in DOMAIN rows \ (reused \cup raced) /\ rows[i].status = "completed"
        /\ rows'[i].path = rows[i].path
    BY DEF RowsLookAlike, past
  <2>2. Settled(i) \/ Pending(i)
    BY <2>1 DEF QueueIInv, CompletedIsQueued
  <2>3. Pending(i) => Pending(i)'
    BY DEF Pending, LoopStays
  <2>4. Settled(i) => Settled(i)'
    BY <2>1 DEF Settled
  <2>5. QED
    BY <2>2, <2>3, <2>4
<1>6. ProjectedAsItIs'
  <2> SUFFICES ASSUME Undisturbed', NEW i \in DOMAIN rows' \ (reused' \cup raced'),
                      Pending(i)', sync'[Loop].pc \in {"import", "queue"}
               PROVE  Fresh(i)' /\ Taken(i)'
    BY DEF ProjectedAsItIs
  <2>1. /\ i \in DOMAIN rows \ (reused \cup raced) /\ rows'[i].path = rows[i].path
        /\ i \in Ids /\ proj'[i].path = proj[i].path
    BY <1>4 DEF RowsLookAlike, past
  <2>2. Fresh(i) /\ Taken(i)
    BY <2>1 DEF QueueIInv, ProjectedAsItIs, Pending, LoopStays
  <2>3. Taken(i)'
    BY <2>1, <2>2 DEF Taken, LoopStays
  <2>4. Fresh(i)'
    <3>1. \A u \in Importing(i)' : u \in Importing(i) /\ sync'[u].snap = sync[u].snap
      BY <2>1, ImportingStays
    <3>2. QED
      BY <2>1, <2>2, <3>1 DEF Fresh
  <2>5. QED
    BY <2>3, <2>4
<1>7. QED
  BY <1>1, <1>2, <1>3, <1>5, <1>6 DEF QueueIInv

\* What the event loop and the rows look like after a step that leaves them alone.
LEMMA UnchangedStays ==
  ASSUME Typed
  PROVE  /\ UNCHANGED rows => RowsLookAlike
         /\ UNCHANGED sync => LoopStays /\ OthersStay
<1>1. \A u \in Threads : sync[u].next \in Nat
  BY TypesAre, SyncFields
<1>2. QED
  BY <1>1 DEF RowsLookAlike, LoopStays, OthersStay

\* Threads that lose but the mark that nobody overlapped them.
LEMMA QuietStays ==
  ASSUME Typed, RowsChange
  PROVE  LoopStays /\ OthersStay
<1>1. \A t \in Threads : /\ sync'[t].pc = sync[t].pc /\ sync'[t].snap = sync[t].snap
                         /\ sync'[t].next = sync[t].next /\ sync'[t].rec = sync[t].rec
  BY QuietSync DEF RowsChange
<1>2. \A u \in Threads : sync[u].next \in Nat
  BY TypesAre, SyncFields
<1>3. QED
  BY <1>1, <1>2, ConstantsAre DEF LoopStays, OthersStay

LEMMA SamePast ==
  ASSUME UNCHANGED <<jobs, proj>>, JobsAreAbout
  PROVE  /\ JobsAreAbout'
         /\ \A j \in jobs : \E n \in jobs' : n.rec = j.rec /\ n.rev = j.rev /\ n.about = j.about
         /\ \A i \in Ids : proj'[i].path = proj[i].path
BY DEF JobsAreAbout

LEMMA StartsSplitQueues ==
  ASSUME CatalogueIInv, CatalogueIInv', QueueIInv, NEW of \in Broadcasts, StartsSplit(of)
  PROVE  QueueIInv'
<1>1. /\ LoopFree /\ cap'.on /\ cap'.split /\ spent'.faults = spent.faults
      /\ UNCHANGED <<rows, disk, todo, proj, sync, jobs, bound, work, clean, past>>
  <2>1. spent \in SpentType
    BY DEF CatalogueIInv, Typed
  <2>2. QED
    BY <2>1, SpentMoves DEF StartsSplit
<1>2. Typed /\ Typed' /\ JobsAreAbout
  BY DEF CatalogueIInv, QueueIInv
<1>3. LoopWaits'
  BY <1>1 DEF LoopWaits, LoopFree
<1>4. Undisturbed' => Undisturbed
  BY <1>1 DEF Undisturbed
<1>5. RowsLookAlike /\ LoopStays /\ OthersStay
  BY <1>1, <1>2, UnchangedStays
<1>6. QED
  BY <1>1, <1>2, <1>3, <1>4, <1>5, SamePast, QueueStays

LEMMA MovesFileQueues ==
  ASSUME CatalogueIInv, CatalogueIInv', QueueIInv, NEW p \in disk, MovesFile(p)
  PROVE  QueueIInv'
<1>1. /\ LoopFree
      /\ cap' = IF cap.on /\ cap.path = p THEN [cap EXCEPT !.path = FreeDest(p.base)] ELSE cap
      /\ UNCHANGED <<rows, todo, proj, sync, jobs, bound, work, clean, past, spent>>
  BY DEF MovesFile
<1>2. Typed /\ Typed' /\ JobsAreAbout /\ cap \in Cap
  BY DEF CatalogueIInv, QueueIInv, Typed
<1>3. cap'.on = cap.on /\ cap'.split = cap.split /\ cap'.first = cap.first
  BY <1>1, <1>2 DEF Cap
<1>4. LoopWaits'
  BY <1>1 DEF LoopWaits, LoopFree
<1>5. Undisturbed' => Undisturbed
  BY <1>1 DEF Undisturbed
<1>6. RowsLookAlike /\ LoopStays /\ OthersStay
  BY <1>1, <1>2, UnchangedStays
<1>7. QED
  BY <1>1, <1>2, <1>3, <1>4, <1>5, <1>6, SamePast, QueueStays

LEMMA ArchiveNotesQueues ==
  ASSUME CatalogueIInv, CatalogueIInv', QueueIInv, NEW i \in DOMAIN rows, ArchiveNotes(i)
  PROVE  QueueIInv'
<1>1. /\ rows' = [rows EXCEPT ![i].note = @ + 1] /\ RowsChange
      /\ spent' = [spent EXCEPT !.notes = @ + 1] /\ spent.notes < MaxNotes
      /\ UNCHANGED <<disk, cap, todo, proj, jobs, bound, work, past>>
  BY DEF ArchiveNotes
<1>2. /\ Typed /\ Typed' /\ JobsAreAbout /\ LoopWaits /\ spent \in SpentType
      /\ rows \in Seq(Row)
  BY DEF CatalogueIInv, QueueIInv, Typed
<1>3. RowsLookAlike
  <2>1. DOMAIN rows' = DOMAIN rows /\ \A k \in DOMAIN rows : rows[k] \in Row
    BY <1>1, <1>2
  <2>2. \A k \in DOMAIN rows : rows'[k] = rows[k] \/ rows'[k] = [rows[k] EXCEPT !.note = @ + 1]
    BY <1>1
  <2>3. \A k \in DOMAIN rows : /\ rows'[k].key = rows[k].key /\ rows'[k].path = rows[k].path
                               /\ rows'[k].status = rows[k].status
    BY <2>1, <2>2 DEF Row
  <2>4. QED
    BY <2>1, <2>3 DEF RowsLookAlike
<1>4. LoopStays /\ OthersStay
  BY <1>1, <1>2, QuietStays
<1>5. LoopWaits'
  BY <1>1, <1>2, <1>4 DEF LoopWaits, LoopFree, LoopStays
<1>6. Undisturbed' => Undisturbed
  BY <1>1, <1>2, SpentMoves DEF Undisturbed
<1>7. QED
  BY <1>1, <1>2, <1>3, <1>4, <1>5, <1>6, SamePast, QueueStays

LEMMA HelperAsksQueues ==
  ASSUME CatalogueIInv, CatalogueIInv', QueueIInv, NEW t \in Helpers, HelperAsks(t)
  PROVE  QueueIInv'
<1>1. PICK i \in {0} \cup DOMAIN rows :
        sync' = [sync EXCEPT ![t] = [NoSync EXCEPT !.pc = "asked", !.rec = i]]
  BY DEF HelperAsks
<1>2. /\ spent' = [spent EXCEPT !.syncs = @ + 1]
      /\ UNCHANGED <<rows, disk, cap, todo, proj, jobs, bound, work, clean, past>>
  BY DEF HelperAsks
<1>3. /\ Typed /\ Typed' /\ JobsAreAbout /\ LoopWaits /\ spent \in SpentType
      /\ sync \in [Threads -> Sync] /\ t \in Threads /\ Loop \in Threads /\ t # Loop
  BY ConstantsAre DEF CatalogueIInv, QueueIInv, Typed, Threads
<1>4. sync'[t].pc = "asked" /\ \A u \in Threads \ {t} : sync'[u] = sync[u]
  BY <1>1, <1>3 DEF NoSync
<1>5. LoopStays /\ OthersStay
  <2>1. \A u \in Threads : sync[u].next \in Nat
    BY <1>3, TypesAre, SyncFields
  <2>2. QED
    BY <1>3, <1>4, <2>1 DEF LoopStays, OthersStay
<1>6. LoopWaits'
  BY <1>2, <1>3, <1>5 DEF LoopWaits, LoopFree, LoopStays
<1>7. Undisturbed' => Undisturbed
  BY <1>2, <1>3, SpentMoves DEF Undisturbed
<1>8. RowsLookAlike
  BY <1>2, <1>3, UnchangedStays
<1>9. QED
  BY <1>2, <1>3, <1>5, <1>6, <1>7, <1>8, SamePast, QueueStays

\* A job that ends is about what it was about.
LEMMA JobEndsAbout ==
  ASSUME Typed, NEW j \in jobs, NEW s, JobEnds(j, s)
  PROVE  /\ \A k \in jobs : \E n \in jobs' : n.rec = k.rec /\ n.rev = k.rev /\ n.about = k.about
         /\ \A n \in jobs' : \E k \in jobs : n.rec = k.rec /\ n.rev = k.rev /\ n.about = k.about
<1> DEFINE new == [j EXCEPT !.state = s]
<1>1. j \in Job /\ jobs' = (jobs \ {j}) \cup {new}
  BY DEF Typed, JobEnds
<1>2. new.rec = j.rec /\ new.rev = j.rev /\ new.about = j.about
  BY <1>1 DEF Job
<1> HIDE DEF new
<1>3. QED
  BY <1>1, <1>2

LEMMA AboutStays ==
  ASSUME Typed, JobsHold, JobsAreAbout,
         \A n \in jobs' : \E k \in jobs : n.rec = k.rec /\ n.rev = k.rev /\ n.about = k.about,
         \A i \in Ids : /\ proj[i].rev <= proj'[i].rev
                        /\ proj'[i].rev = proj[i].rev => proj'[i].path = proj[i].path,
         \A i \in Ids : proj'[i].rev \in Nat
  PROVE  JobsAreAbout'
<1> SUFFICES ASSUME NEW n \in jobs'
             PROVE  /\ n.rev <= proj'[n.rec].rev
                    /\ n.rev = proj'[n.rec].rev => n.about = proj'[n.rec].path
  BY DEF JobsAreAbout
<1>1. PICK k \in jobs : n.rec = k.rec /\ n.rev = k.rev /\ n.about = k.about
  OBVIOUS
<1>2. /\ k.rec \in Ids /\ k.rev \in Nat /\ proj[k.rec].rev \in Nat
      /\ k.rev <= proj[k.rec].rev
      /\ k.rev = proj[k.rec].rev => k.about = proj[k.rec].path
  <2>1. k \in Job /\ proj \in [Ids -> Art]
    BY DEF Typed
  <2>2. k.rec \in Ids /\ k.rev \in Nat
    BY <2>1 DEF Job
  <2>3. proj[k.rec].rev \in Nat
    BY <2>1, <2>2 DEF Art
  <2>4. QED
    BY <2>2, <2>3 DEF JobsAreAbout
<1>3. /\ proj[k.rec].rev <= proj'[k.rec].rev /\ proj'[k.rec].rev \in Nat
      /\ proj'[k.rec].rev = proj[k.rec].rev => proj'[k.rec].path = proj[k.rec].path
  BY <1>2
<1>4. QED
  BY <1>1, <1>2, <1>3

LEMMA VerifyBeginsQueues ==
  ASSUME CatalogueIInv, CatalogueIInv', QueueIInv, NEW j \in jobs, VerifyBegins(j)
  PROVE  QueueIInv'
<1>1. /\ UNCHANGED jobs \/ \E s : JobEnds(j, s)
      /\ UNCHANGED <<rows, disk, cap, todo, proj, sync, bound, clean, past, spent>>
  BY DEF VerifyBegins
<1>2. Typed /\ Typed' /\ JobsHold /\ JobsAreAbout /\ LoopWaits
  BY DEF CatalogueIInv, QueueIInv
<1>3. /\ \A k \in jobs : \E n \in jobs' : n.rec = k.rec /\ n.rev = k.rev /\ n.about = k.about
      /\ \A n \in jobs' : \E k \in jobs : n.rec = k.rec /\ n.rev = k.rev /\ n.about = k.about
  <2>1. CASE UNCHANGED jobs
    BY <2>1
  <2>2. ASSUME NEW s, JobEnds(j, s)
        PROVE  /\ \A k \in jobs : \E n \in jobs' : n.rec = k.rec /\ n.rev = k.rev /\ n.about = k.about
               /\ \A n \in jobs' : \E k \in jobs : n.rec = k.rec /\ n.rev = k.rev /\ n.about = k.about
    BY <1>2, <2>2, JobEndsAbout
  <2>3. QED
    BY <1>1, <2>1, <2>2
<1>4. \A i \in Ids : proj'[i] = proj[i] /\ proj[i].rev \in Nat
  BY <1>1, <1>2, TypesAre DEF Art
<1>5. JobsAreAbout'
  BY <1>2, <1>3, <1>4, AboutStays
<1>6. LoopWaits' /\ RowsLookAlike /\ LoopStays /\ OthersStay
  BY <1>1, <1>2, UnchangedStays DEF LoopWaits, LoopFree
<1>7. Undisturbed' => Undisturbed
  BY <1>1 DEF Undisturbed
<1>8. QED
  BY <1>1, <1>2, <1>3, <1>4, <1>5, <1>6, <1>7, QueueStays

LEMMA VerifyEndsQueues ==
  ASSUME CatalogueIInv, CatalogueIInv', QueueIInv, VerifyEnds
  PROVE  QueueIInv'
<1>1. /\ work.rec # 0
      /\ UNCHANGED <<rows, disk, cap, todo, sync, bound, clean, past, spent>>
  BY SMTT(60) DEF VerifyEnds
<1>2. PICK j \in jobs :
        /\ j.rec = work.rec /\ j.rev = work.rev
        /\ \E s : JobEnds(j, s)
        /\ \/ UNCHANGED proj
           \/ Usable(proj[j.rec], j.rev) /\ \E v \in {"ok", "invalid"} : SavesVerdict(j.rec, v)
  <2>1. PICK j \in jobs :
          /\ j.rec = work.rec /\ j.rev = work.rev
          /\ IF Usable(proj[j.rec], j.rev)
             THEN \/ \E verdict \in {"ok", "invalid"} :
                       /\ proj' = [proj EXCEPT ![j.rec].verdict = verdict,
                                               ![j.rec].judged = work.path,
                                               ![j.rec].sized = TRUE,
                                               ![j.rec].rev = IF proj[j.rec].sized THEN @ ELSE @ + 1]
                       /\ JobEnds(j, IF verdict = "ok" THEN "succeeded" ELSE "failed")
                  \/ cap.on /\ cap.path = work.path /\ JobEnds(j, "failed") /\ UNCHANGED proj
             ELSE /\ JobEnds(j, IF proj[j.rec].status = "recording" THEN "blocked" ELSE "failed")
                  /\ UNCHANGED proj
    BY DEF VerifyEnds
  <2>2. \E s : JobEnds(j, s)
    BY <2>1
  <2>3. \/ UNCHANGED proj
        \/ Usable(proj[j.rec], j.rev) /\ \E v \in {"ok", "invalid"} : SavesVerdict(j.rec, v)
    BY <2>1 DEF SavesVerdict
  <2>4. QED
    BY <2>1, <2>2, <2>3
<1>3. /\ Typed /\ Typed' /\ JobsHold /\ ArtsHold /\ WorkHolds /\ JobsAreAbout /\ LoopWaits
      /\ j.rec \in Ids /\ j.rev # 0
  BY TypesAre DEF CatalogueIInv, QueueIInv, JobsHold
<1>4. /\ \A k \in jobs : \E n \in jobs' : n.rec = k.rec /\ n.rev = k.rev /\ n.about = k.about
      /\ \A n \in jobs' : \E k \in jobs : n.rec = k.rec /\ n.rev = k.rev /\ n.about = k.about
  <2>1. PICK s : JobEnds(j, s)
    BY <1>2
  <2>2. QED
    BY <1>3, <2>1, JobEndsAbout
<1>5. \A i \in Ids : /\ proj'[i].path = proj[i].path /\ proj[i].rev <= proj'[i].rev
                     /\ proj'[i].rev \in Nat
  <2>1. \A i \in Ids : proj[i].rev \in Nat /\ proj'[i].rev \in Nat
    BY <1>3 DEF Typed, Art
  <2>2. CASE UNCHANGED proj
    BY <2>1, <2>2
  <2>3. ASSUME NEW v \in {"ok", "invalid"}, Usable(proj[j.rec], j.rev), SavesVerdict(j.rec, v)
        PROVE  \A i \in Ids : proj'[i].path = proj[i].path /\ proj[i].rev <= proj'[i].rev
    BY <1>1, <1>2, <1>3, <2>3, VerdictIsSaved
  <2>4. QED
    BY <1>2, <2>1, <2>2, <2>3
<1>6. JobsAreAbout'
  BY <1>3, <1>4, <1>5, AboutStays
<1>7. LoopWaits' /\ RowsLookAlike /\ LoopStays /\ OthersStay
  BY <1>1, <1>3, UnchangedStays DEF LoopWaits, LoopFree
<1>8. Undisturbed' => Undisturbed
  BY <1>1 DEF Undisturbed
<1>9. QED
  BY <1>1, <1>3, <1>4, <1>5, <1>6, <1>7, <1>8, QueueStays

LEMMA CrashQueues ==
  ASSUME CatalogueIInv, QueueIInv, Crash
  PROVE  QueueIInv'
<1>1. /\ cap' = NoCap /\ todo' = << >> /\ spent' = [spent EXCEPT !.faults = @ + 1]
      /\ UNCHANGED <<rows, proj, jobs, past>>
  BY DEF Crash
<1>2. ~Undisturbed'
  <2>1. spent \in SpentType /\ spent.faults \in Nat
    BY TypesAre DEF CatalogueIInv, Typed
  <2>2. spent'.faults = spent.faults + 1
    BY <1>1, <2>1, SpentMoves
  <2>3. QED
    BY <2>1, <2>2 DEF Undisturbed
<1>3. RecordingIsOnRecord' /\ KeysAreFree' /\ CompletedIsQueued' /\ ProjectedAsItIs'
  BY <1>2 DEF RecordingIsOnRecord, KeysAreFree, CompletedIsQueued, ProjectedAsItIs
<1>4. JobsAreAbout' /\ PastTyped'
  BY <1>1 DEF QueueIInv, JobsAreAbout, PastTyped, past
<1>5. LoopWaits' /\ EventsOnce'
  BY <1>1 DEF LoopWaits, EventsOnce, NoCap
<1>6. QED
  BY <1>3, <1>4, <1>5 DEF QueueIInv

\* A start makes the row of its name say recording, and no other row different.
LEMMA StartIs ==
  ASSUME Typed, NEW e \in EventType, rows' = WithStart(e), Typed'
  PROVE  /\ DOMAIN rows \subseteq DOMAIN rows'
         /\ \A i \in DOMAIN rows' :
              \/ /\ i \in DOMAIN rows /\ rows[i].key # e.first /\ rows'[i] = rows[i]
              \/ /\ rows'[i].key = e.first /\ rows'[i].status = "recording"
                 /\ i \in DOMAIN rows => rows[i].key = e.first
<1>1. /\ rows \in Seq(Row) /\ Len(rows) \in Nat /\ DOMAIN rows = 1..Len(rows)
      /\ \A i \in DOMAIN rows : rows[i] \in Row
  BY TypesAre DEF Typed
<1>2. CASE \E i \in DOMAIN rows : rows[i].key = e.first
  <2>1. /\ DOMAIN rows' = DOMAIN rows
        /\ \A i \in DOMAIN rows :
             rows'[i] = IF rows[i].key = e.first
                        THEN [rows[i] EXCEPT !.path = e.path, !.status = "recording"] ELSE rows[i]
    BY <1>2 DEF WithStart
  <2>2. \A i \in DOMAIN rows : LET q == [rows[i] EXCEPT !.path = e.path, !.status = "recording"]
                              IN  q.key = rows[i].key /\ q.status = "recording"
    BY <1>1 DEF Row
  <2>3. QED
    BY <2>1, <2>2
<1>3. CASE ~\E i \in DOMAIN rows : rows[i].key = e.first
  <2> DEFINE n == [key |-> e.first, of |-> e.of, index |-> SegmentIndex(e.of),
                   path |-> e.path, status |-> "recording", note |-> 0]
  <2>1. rows' = Append(rows, n) /\ n.key = e.first /\ n.status = "recording"
    BY <1>3 DEF WithStart
  <2> HIDE DEF n
  <2>2. /\ DOMAIN rows' = 1..(Len(rows) + 1) /\ rows'[Len(rows) + 1] = n
        /\ \A i \in 1..Len(rows) : rows'[i] = rows[i]
    BY <1>1, <2>1
  <2>3. ASSUME NEW i \in DOMAIN rows'
        PROVE  \/ i \in DOMAIN rows /\ rows'[i] = rows[i]
               \/ i \notin DOMAIN rows /\ rows'[i] = n
    <3>1. i \in 1..Len(rows) \/ i = Len(rows) + 1
      BY <1>1, <2>2
    <3>2. Len(rows) + 1 \notin 1..Len(rows)
      BY <1>1
    <3>3. QED
      BY <1>1, <2>2, <3>1, <3>2
  <2>4. DOMAIN rows \subseteq DOMAIN rows'
    BY <1>1, <2>2
  <2>5. QED
    BY <1>3, <2>1, <2>3, <2>4
<1>4. QED
  BY <1>2, <1>3

\* What a start that is logged leaves: the row that it takes over had its key free,
\* or is one that was reused.
LEMMA StartedQueues ==
  ASSUME CatalogueIInv, CatalogueIInv', QueueIInv, NEW e \in EventType, e.event = "started",
         rows' = After(e), sync[Loop].pc = "idle", sync'[Loop].pc = "idle", Undisturbed,
         reused' = reused \cup TakenOver(e), UNCHANGED <<jobs, bound, raced>>
  PROVE  KeysAreFree' /\ CompletedIsQueued' /\ ProjectedAsItIs'
<1>1. /\ Typed /\ Typed' /\ JobsHold /\ KeysAreFree /\ CompletedIsQueued
      /\ rows' = WithStart(e)
  BY DEF CatalogueIInv, QueueIInv, After
<1>2. \A i \in DOMAIN rows' :
        \/ /\ i \in DOMAIN rows /\ rows[i].key # e.first /\ rows'[i] = rows[i]
        \/ /\ rows'[i].key = e.first /\ rows'[i].status = "recording"
           /\ i \in DOMAIN rows => rows[i].key = e.first
  BY <1>1, StartIs
<1>3. KeysAreFree'
  <2> SUFFICES ASSUME NEW i \in DOMAIN rows' \ reused', rows'[i].status = "recording"
               PROVE  bound[i] = 0
    BY DEF KeysAreFree, Pending
  <2>1. i \in Ids
    BY <1>1, TypesAre DEF CatalogueIInv, Typed, Ids
  <2>2. CASE i \notin DOMAIN rows
    BY <1>1, <2>1, <2>2 DEF JobsHold
  <2>3. CASE i \in DOMAIN rows /\ rows[i].key = e.first
    BY <2>3 DEF TakenOver
  <2>4. CASE i \in DOMAIN rows /\ rows[i].key # e.first
    <3>1. rows'[i] = rows[i] /\ i \notin reused
      BY <1>2, <2>4
    <3>2. QED
      BY <1>1, <2>4, <3>1 DEF KeysAreFree
  <2>5. QED
    BY <2>2, <2>3, <2>4
<1>4. CompletedIsQueued'
  <2> SUFFICES ASSUME NEW i \in DOMAIN rows' \ (reused' \cup raced'),
                      rows'[i].status = "completed"
               PROVE  Settled(i)'
    BY DEF CompletedIsQueued
  <2>1. i \in DOMAIN rows \ (reused \cup raced) /\ rows'[i] = rows[i]
    BY <1>2
  <2>2. Settled(i)
    BY <1>1, <2>1 DEF CompletedIsQueued, Pending
  <2>3. QED
    BY <2>1, <2>2 DEF Settled
<1>5. ProjectedAsItIs'
  BY DEF ProjectedAsItIs, Pending
<1>6. QED
  BY <1>3, <1>4, <1>5

LEMMA StartsQueues ==
  ASSUME CatalogueIInv, CatalogueIInv', QueueIInv, NEW of \in Broadcasts, Starts(of)
  PROVE  QueueIInv'
<1> DEFINE e == [event |-> "started", first |-> FreeName, path |-> Out(FreeName), of |-> of]
<1>1. /\ LoopFree
      /\ cap' = [on |-> TRUE, of |-> of, split |-> FALSE, first |-> FreeName, path |-> Out(FreeName)]
      /\ reused' = reused \cup TakenOver(e) /\ spent.captures < MaxCaptures
      /\ \/ rows' = After(e) /\ RowsChange /\ spent' = [spent EXCEPT !.captures = @ + 1]
         \/ /\ spent' = [spent EXCEPT !.captures = @ + 1, !.faults = @ + 1]
            /\ UNCHANGED <<rows, clean, sync>>
      /\ UNCHANGED <<todo, proj, jobs, bound, work, raced>>
  BY DEF Starts
<1>2. /\ Typed /\ Typed' /\ PastTyped /\ JobsAreAbout /\ EventsOnce /\ RowsHold'
      /\ spent \in SpentType /\ spent.faults \in Nat /\ Loop \in Threads
      /\ DOMAIN rows \subseteq Ids
  BY TypesAre, ConstantsAre DEF CatalogueIInv, QueueIInv, Typed
<1>3. e \in EventType
  <2>1. FreeName \in Bases /\ Out(FreeName) \in Path
    BY <1>1, <1>2, FreeNameIs, OutIsPath, TypesAre DEF CatalogueIInv, Typed
  <2>2. QED
    BY <2>1 DEF EventType
<1>4. e.event = "started" /\ e.first = FreeName
  OBVIOUS
<1> HIDE DEF e
<1>5. PastTyped'
  BY <1>1, <1>2 DEF PastTyped, TakenOver
<1>6. LoopStays
  BY <1>1, <1>2, QuietStays, UnchangedStays
<1>7. LoopWaits'
  BY <1>1, <1>6 DEF LoopWaits, LoopFree, LoopStays
<1>8. JobsAreAbout' /\ EventsOnce'
  BY <1>1, <1>2 DEF JobsAreAbout, EventsOnce
<1>9. Undisturbed' => Undisturbed /\ rows' = After(e)
  BY <1>1, <1>2, SpentMoves DEF Undisturbed
<1>10. RecordingIsOnRecord'
  <2> SUFFICES ASSUME Undisturbed', NEW i \in DOMAIN rows', FreeName = rows'[i].key
               PROVE  rows'[i].status = "recording"
    BY <1>1 DEF RecordingIsOnRecord, LoopFree
  <2>1. rows' = WithStart(e)
    BY <1>4, <1>9 DEF After
  <2>2. QED
    BY <1>2, <1>3, <1>4, <2>1, StartIs
<1>11. KeysAreFree' /\ CompletedIsQueued' /\ ProjectedAsItIs'
  <2>1. CASE Undisturbed'
    <3>1. sync[Loop].pc = "idle" /\ sync'[Loop].pc = "idle"
      BY <1>1, <1>6 DEF LoopFree, LoopStays
    <3>2. QED
      BY <1>1, <1>3, <1>4, <1>9, <2>1, <3>1, StartedQueues
  <2>2. CASE ~Undisturbed'
    BY <2>2 DEF KeysAreFree, CompletedIsQueued, ProjectedAsItIs
  <2>3. QED
    BY <2>1, <2>2
<1>12. QED
  BY <1>5, <1>7, <1>8, <1>10, <1>11 DEF QueueIInv

LEMMA FinishesQueues ==
  ASSUME CatalogueIInv, CatalogueIInv', QueueIInv, Finishes
  PROVE  QueueIInv'
<1>1. /\ cap.on /\ LoopFree /\ cap' = NoCap
      /\ UNCHANGED <<rows, proj, sync, jobs, bound, work, clean, past, spent>>
  BY DEF Finishes
<1>2. /\ Typed /\ Typed' /\ cap \in Cap /\ RecordingIsOnRecord /\ KeysAreFree
      /\ CompletedIsQueued /\ JobsAreAbout /\ PastTyped
  BY DEF CatalogueIInv, QueueIInv, Typed
<1>3. PastTyped' /\ JobsAreAbout' /\ LoopWaits'
  BY <1>1, <1>2 DEF PastTyped, JobsAreAbout, LoopWaits, NoCap, past
<1>4. KeysAreFree'
  BY <1>1, <1>2 DEF KeysAreFree, Undisturbed, Pending, past
<1>5. CompletedIsQueued'
  BY <1>1, <1>2 DEF CompletedIsQueued, Undisturbed, Pending, Settled, past
<1>6. ProjectedAsItIs'
  BY <1>1 DEF ProjectedAsItIs, Pending, LoopFree
<1>7. /\ EventsOnce'
      /\ \A k \in DOMAIN todo' : todo'[k].event # "started" =>
            Announced(k)' \/ (~cap.split /\ todo'[k].first = cap.first)
  <2>1. CASE cap.split
    <3>1. PICK k \in 0..Len(Parts) : \E empty \in SUBSET (1..k) :
             todo' = [x \in 1..(2 * k) |-> PartEvent(x, empty)]
      BY <2>1 DEF Finishes
    <3>2. PICK empty \in SUBSET (1..k) : todo' = [x \in 1..(2 * k) |-> PartEvent(x, empty)]
      BY <3>1
    <3> DEFINE s == Sent(k, empty)
    <3>3. /\ \A x, y \in DOMAIN s : ( /\ s[x].event # "started" /\ s[y].event # "started"
                                      /\ s[x].first = s[y].first ) => x = y
          /\ \A x \in DOMAIN s : s[x].event # "started" =>
               \E l \in DOMAIN s : l < x /\ s[l].event = "started" /\ s[l].first = s[x].first
      BY <1>2, PartEvents
    <3>4. todo' = s
      BY <3>2 DEF Sent
    <3> HIDE DEF s
    <3>5. QED
      BY <3>3, <3>4 DEF EventsOnce, Announced
  <2>2. CASE ~cap.split
    <3>1. PICK what \in {"stopped", "failed"} : todo' = <<Event(what, cap.first, cap.path)>>
      BY <2>2 DEF Finishes
    <3>2. DOMAIN todo' = {1} /\ todo'[1].first = cap.first
      BY <3>1 DEF Event
    <3>3. QED
      BY <2>2, <3>2 DEF EventsOnce
  <2>3. QED
    BY <2>1, <2>2
<1>8. RecordingIsOnRecord'
  <2> SUFFICES ASSUME Undisturbed', NEW i \in DOMAIN rows', NEW k \in DOMAIN todo',
                      todo'[k].event # "started", todo'[k].first = rows'[i].key
               PROVE  rows'[i].status = "recording" \/ Announced(k)'
    BY <1>1 DEF RecordingIsOnRecord, NoCap
  <2>1. Announced(k)' \/ (~cap.split /\ todo'[k].first = cap.first)
    BY <1>7
  <2>2. (~cap.split /\ cap.first = rows[i].key) => rows[i].status = "recording"
    BY <1>1, <1>2 DEF RecordingIsOnRecord, Undisturbed
  <2>3. QED
    BY <1>1, <2>1, <2>2
<1>9. QED
  BY <1>3, <1>4, <1>5, <1>6, <1>7, <1>8 DEF QueueIInv

\* A thread reads the rows: it has them as they are, and a row of an ended capture
\* that another one has still to take is noted.
LEMMA SyncBeginsQueues ==
  ASSUME CatalogueIInv, CatalogueIInv', QueueIInv, NEW t \in Threads, SyncBegins(t)
  PROVE  QueueIInv'
<1>1. /\ sync[t].pc = "asked"
      /\ raced' = IF t = Loop /\ Importing(sync[t].rec) # {}
                  THEN raced \cup {sync[t].rec} ELSE raced
      /\ UNCHANGED <<rows, disk, cap, todo, proj, jobs, bound, work, clean, reused, spent>>
  BY DEF SyncBegins
<1>2. \E solo : sync' = [u \in Threads |->
                  IF u = t THEN [sync[t] EXCEPT !.pc = "import", !.snap = rows, !.solo = solo]
                  ELSE [sync[u] EXCEPT !.solo = FALSE]]
  BY DEF SyncBegins
<1>3. /\ Typed /\ Typed' /\ PastTyped /\ LoopWaits /\ JobsAreAbout /\ SyncHolds(t)
      /\ rows \in Seq(Row) /\ Loop \in Threads /\ DOMAIN rows \subseteq Ids
      /\ Len(rows) \in Nat /\ DOMAIN rows = 1..Len(rows)
      /\ \A u \in Threads : sync[u] \in Sync /\ sync[u].next \in Nat
  BY TypesAre, SyncFields, ConstantsAre DEF CatalogueIInv, QueueIInv, Typed, SyncsHold
<1>4. /\ sync'[t].pc = "import" /\ sync'[t].snap = rows /\ sync'[t].next = 1
      /\ sync'[t].rec = sync[t].rec
  <2>1. PICK solo : sync'[t] = [sync[t] EXCEPT !.pc = "import", !.snap = rows, !.solo = solo]
    BY <1>2
  <2>2. sync[t] \in Sync /\ sync[t].next = 1
    BY <1>1, <1>3 DEF SyncHolds
  <2>3. QED
    BY <2>1, <2>2 DEF Sync
<1>5. \A u \in Threads \ {t} :
        /\ sync'[u].pc = sync[u].pc /\ sync'[u].snap = sync[u].snap
        /\ sync'[u].next = sync[u].next /\ sync'[u].rec = sync[u].rec
  <2>1. \A u \in Threads \ {t} : sync'[u] = [sync[u] EXCEPT !.solo = FALSE]
    BY <1>2
  <2>2. QED
    BY <1>3, <2>1 DEF Sync
<1>6. sync[t].rec \in {0} \cup DOMAIN rows /\ Importing(0) = {}
  <2>1. \A u \in Threads : sync[u].next # 0 /\ Len(sync[u].snap) \in Nat
    BY <1>3, SyncFields
  <2>2. QED
    BY <1>3, <2>1 DEF SyncHolds, Importing
<1>7. PastTyped' /\ reused' = reused /\ raced \subseteq raced'
  BY <1>1, <1>3, <1>6 DEF PastTyped
<1>8. /\ sync[Loop].pc = "idle" <=> sync'[Loop].pc = "idle"
      /\ sync'[Loop].rec = sync[Loop].rec
  BY <1>1, <1>3, <1>4, <1>5
<1>9. LoopWaits' /\ JobsAreAbout' /\ EventsOnce' /\ RecordingIsOnRecord'
  BY <1>1, <1>8 DEF QueueIInv, LoopWaits, LoopFree, JobsAreAbout, EventsOnce,
                    RecordingIsOnRecord, Undisturbed, Announced
<1>10. KeysAreFree'
  BY <1>1, <1>8 DEF QueueIInv, KeysAreFree, Undisturbed, Pending
<1>11. CompletedIsQueued'
  BY <1>1, <1>7, <1>8 DEF QueueIInv, CompletedIsQueued, Undisturbed, Pending, Settled
<1>12. ProjectedAsItIs'
  <2> SUFFICES ASSUME Undisturbed', NEW i \in DOMAIN rows' \ (reused' \cup raced'),
                      Pending(i)', sync'[Loop].pc \in {"import", "queue"}
               PROVE  Fresh(i)' /\ Taken(i)'
    BY DEF ProjectedAsItIs
  <2>1. /\ i \in DOMAIN rows \ (reused \cup raced) /\ i \in Ids /\ Pending(i) /\ Undisturbed
        /\ i \in Nat /\ 1 <= i
    BY <1>1, <1>3, <1>7, <1>8 DEF Pending, Undisturbed
  <2>2. ASSUME NEW u \in Importing(i)', u # t
        PROVE  u \in Importing(i) /\ sync'[u].snap = sync[u].snap
    BY <1>5, <2>2 DEF Importing
  <2>3. CASE t = Loop
    <3>1. Importing(i) = {}
      BY <1>1, <2>1, <2>3 DEF Pending
    <3>2. Fresh(i)'
      BY <1>1, <1>4, <2>2, <3>1 DEF Fresh
    <3>3. Taken(i)'
      BY <1>4, <2>1, <2>3 DEF Taken
    <3>4. QED
      BY <3>2, <3>3
  <2>4. CASE t # Loop
    <3>1. /\ sync'[Loop].pc = sync[Loop].pc /\ sync'[Loop].next = sync[Loop].next
      BY <1>3, <1>5, <2>4
    <3>2. Fresh(i) /\ Taken(i)
      BY <2>1, <3>1 DEF QueueIInv, ProjectedAsItIs
    <3>3. Taken(i)'
      BY <1>1, <3>1, <3>2 DEF Taken
    <3>4. Fresh(i)'
      BY <1>1, <1>4, <2>2, <3>2 DEF Fresh
    <3>5. QED
      BY <3>3, <3>4
  <2>5. QED
    BY <2>3, <2>4
<1>13. QED
  BY <1>7, <1>9, <1>10, <1>11, <1>12 DEF QueueIInv

\* A row that is taken: an artifact that the event loop relies on gets the file of
\* the row as it is.
LEMMA ImportsQueues ==
  ASSUME CatalogueIInv, CatalogueIInv', QueueIInv, NEW t \in Threads, Imports(t)
  PROVE  QueueIInv'
<1> DEFINE k == sync[t].next
           r == sync[t].snap[k]
<1>1. /\ sync[t].pc = "import" /\ k <= Len(sync[t].snap)
      /\ proj' = IF Known(proj[k], r) THEN proj ELSE [proj EXCEPT ![k] = ArtOf(@, r)]
      /\ sync' = [sync EXCEPT ![t].next = @ + 1]
      /\ UNCHANGED <<rows, disk, cap, todo, jobs, bound, work, clean, past, spent>>
  BY DEF Imports
<1>2. /\ Typed /\ Typed' /\ ArtsHold /\ SyncHolds(t) /\ JobsHold /\ JobsAreAbout
      /\ Loop \in Threads /\ sync \in [Threads -> Sync] /\ sync[t] \in Sync
      /\ Len(rows) \in Nat /\ DOMAIN rows = 1..Len(rows) /\ DOMAIN rows \subseteq Ids
  BY TypesAre, ConstantsAre DEF CatalogueIInv, QueueIInv, Typed, SyncsHold
<1>3. /\ sync[t].snap \in Seq(Row) /\ k \in Nat \ {0} /\ Len(sync[t].snap) \in Nat
      /\ Len(sync[t].snap) <= Len(rows)
  BY <1>1, <1>2, SyncFields DEF SyncHolds
<1>4. k \in Ids /\ r \in Row /\ t \in Importing(k)
  <2>1. k \in DOMAIN rows /\ k \in 1..Len(sync[t].snap) /\ k \in k..Len(sync[t].snap)
    BY <1>1, <1>2, <1>3
  <2>2. t \in Importing(k)
    BY <1>1, <2>1 DEF Importing
  <2>3. QED
    BY <1>2, <1>3, <2>1, <2>2
<1>5. /\ \A u \in Threads : /\ sync'[u].pc = sync[u].pc /\ sync'[u].snap = sync[u].snap
                            /\ sync'[u].rec = sync[u].rec
      /\ sync'[t].next = k + 1
      /\ \A u \in Threads \ {t} : sync'[u].next = sync[u].next
  BY <1>2, <1>1 DEF Sync
<1>6. /\ proj'[k].path = r.path /\ proj[k].rev <= proj'[k].rev
      /\ proj'[k].rev = proj[k].rev => proj'[k].path = proj[k].path
      /\ \A i \in Ids \ {k} : proj'[i] = proj[i]
  <2> HIDE DEF k, r
  <2>1. QED
    BY <1>1, <1>2, <1>4, RowImported
<1> HIDE DEF r
<1>7. JobsAreAbout'
  <2>1. \A i \in Ids : proj[i].rev \in Nat /\ proj'[i].rev \in Nat
    BY <1>2 DEF Typed, Art
  <2>2. \A i \in Ids : /\ proj[i].rev <= proj'[i].rev
                       /\ proj'[i].rev = proj[i].rev => proj'[i].path = proj[i].path
    BY <1>6, <2>1
  <2>3. \A n \in jobs' : \E j \in jobs : n.rec = j.rec /\ n.rev = j.rev /\ n.about = j.about
    BY <1>1
  <2>4. QED
    BY <1>2, <2>1, <2>2, <2>3, AboutStays
<1>8. PastTyped' /\ EventsOnce' /\ RecordingIsOnRecord'
  BY <1>1 DEF QueueIInv, PastTyped, EventsOnce, RecordingIsOnRecord, Undisturbed, Announced, past
<1>9. /\ sync'[Loop].pc = sync[Loop].pc /\ sync'[Loop].rec = sync[Loop].rec
  BY <1>2, <1>5
<1>10. LoopWaits' /\ KeysAreFree'
  BY <1>1, <1>9 DEF QueueIInv, LoopWaits, LoopFree, KeysAreFree, Undisturbed, Pending, past
<1>11. CompletedIsQueued'
  BY <1>1, <1>9 DEF QueueIInv, CompletedIsQueued, Undisturbed, Pending, Settled, past
<1>12. ProjectedAsItIs'
  <2> SUFFICES ASSUME Undisturbed', NEW i \in DOMAIN rows' \ (reused' \cup raced'),
                      Pending(i)', sync'[Loop].pc \in {"import", "queue"}
               PROVE  Fresh(i)' /\ Taken(i)'
    BY DEF ProjectedAsItIs
  <2>1. /\ i \in DOMAIN rows /\ i \in Ids /\ i \in Nat /\ i # 0
        /\ Fresh(i) /\ Taken(i)
    BY <1>1, <1>2, <1>9 DEF QueueIInv, ProjectedAsItIs, Pending, Undisturbed, past
  <2>2. \A u \in Importing(i)' : u \in Importing(i)
    <3> SUFFICES ASSUME NEW u \in Importing(i)' PROVE u \in Importing(i)
      OBVIOUS
    <3>1. /\ u \in Threads /\ sync'[u].pc = "import" /\ i \in sync'[u].next..Len(sync'[u].snap)
      BY DEF Importing
    <3>2. sync[u].next \in Nat /\ sync[u].next <= sync'[u].next
      <4>1. sync[u].next \in Nat
        BY <1>2, <3>1, SyncFields
      <4>2. QED
        BY <1>5, <3>1, <4>1
    <3>3. /\ sync[u].pc = "import" /\ i <= Len(sync[u].snap)
          /\ sync'[u].next \in Nat
      BY <1>2, <1>5, <2>1, <3>1, TypesAre, SyncFields
    <3>4. i \in sync[u].next..Len(sync[u].snap)
      BY <2>1, <3>1, <3>2, <3>3
    <3>5. QED
      BY <3>1, <3>3, <3>4 DEF Importing
  <2>3. Fresh(i)'
    <3>1. \A u \in Importing(i)' : u \in Threads
      BY DEF Importing
    <3>2. QED
      BY <1>1, <1>5, <2>1, <2>2, <3>1 DEF Fresh
  <2>4. i = k => proj'[i].path = rows[i].path
    BY <1>4, <1>6, <2>1 DEF Fresh, r
  <2>5. Taken(i)'
    <3>1. CASE i = k
      BY <1>1, <2>4, <3>1 DEF Taken
    <3>2. CASE i # k /\ proj[i].path = rows[i].path
      BY <1>1, <1>6, <2>1, <3>2 DEF Taken
    <3>3. CASE i # k /\ sync[Loop].pc = "import" /\ sync[Loop].next <= i
      <4>1. sync'[Loop].next <= i
        BY <1>2, <1>3, <1>5, <2>1, <3>3
      <4>2. QED
        BY <1>9, <3>3, <4>1 DEF Taken
    <3>4. QED
      BY <2>1, <3>1, <3>2, <3>3 DEF Taken
  <2>6. QED
    BY <2>3, <2>5
<1>13. QED
  BY <1>7, <1>8, <1>10, <1>11, <1>12 DEF QueueIInv

LEMMA SyncEndsQueues ==
  ASSUME CatalogueIInv, CatalogueIInv', QueueIInv, NEW t \in Threads, SyncEnds(t)
  PROVE  QueueIInv'
<1>1. /\ sync[t].pc = "import" /\ sync[t].next > Len(sync[t].snap)
      /\ sync' = [sync EXCEPT ![t] = [NoSync EXCEPT !.rec = sync[t].rec,
                                      !.pc = IF sync[t].rec = 0 THEN "idle" ELSE "queue"]]
      /\ UNCHANGED <<rows, disk, cap, todo, proj, jobs, bound, work, past, spent>>
  BY DEF SyncEnds
<1>2. /\ Typed /\ Typed' /\ JobsAreAbout /\ LoopWaits /\ Loop \in Threads
      /\ sync \in [Threads -> Sync] /\ SyncHolds(t) /\ DOMAIN rows \subseteq Ids
      /\ Ids \subseteq Nat /\ DOMAIN rows = 1..Len(rows) /\ Len(rows) \in Nat
  BY TypesAre, ConstantsAre DEF CatalogueIInv, QueueIInv, Typed, SyncsHold
<1>3. /\ sync'[t].rec = sync[t].rec
      /\ sync'[t].pc = IF sync[t].rec = 0 THEN "idle" ELSE "queue"
      /\ \A u \in Threads \ {t} : sync'[u] = sync[u]
  BY <1>1, <1>2 DEF NoSync
<1>4. CASE t # Loop
  <2>1. LoopStays /\ OthersStay
    <3>1. \A u \in Threads : sync[u].next \in Nat
      BY <1>2, TypesAre, SyncFields
    <3>2. QED
      BY <1>2, <1>3, <1>4, <3>1 DEF LoopStays, OthersStay
  <2>2. LoopWaits' /\ RowsLookAlike
    BY <1>1, <1>2, <2>1, UnchangedStays DEF LoopWaits, LoopFree, LoopStays
  <2>3. Undisturbed' => Undisturbed
    BY <1>1 DEF Undisturbed
  <2>4. QED
    BY <1>1, <1>2, <2>1, <2>2, <2>3, SamePast, QueueStays
<1>5. CASE t = Loop
  <2>1. \A i \in DOMAIN rows : Pending(i)' <=> Pending(i)
    BY <1>1, <1>2, <1>3, <1>5 DEF Pending
  <2>2. PastTyped' /\ EventsOnce' /\ RecordingIsOnRecord' /\ JobsAreAbout'
    BY <1>1 DEF QueueIInv, PastTyped, EventsOnce, RecordingIsOnRecord, Undisturbed, Announced,
                JobsAreAbout, past
  <2>3. LoopWaits'
    BY <1>1, <1>2, <1>5 DEF LoopWaits, LoopFree
  <2>4. KeysAreFree'
    BY <1>1, <2>1 DEF QueueIInv, KeysAreFree, Undisturbed, past
  <2>5. CompletedIsQueued'
    BY <1>1, <2>1 DEF QueueIInv, CompletedIsQueued, Undisturbed, Settled, past
  <2>6. ProjectedAsItIs'
    <3> SUFFICES ASSUME Undisturbed', NEW i \in DOMAIN rows' \ (reused' \cup raced'),
                        Pending(i)'
                 PROVE  Fresh(i)' /\ Taken(i)'
      BY DEF ProjectedAsItIs
    <3>1. /\ i \in DOMAIN rows \ (reused \cup raced) /\ Pending(i) /\ Undisturbed
          /\ i \in Ids /\ i \in Nat
      BY <1>1, <1>2, <2>1 DEF Undisturbed, past
    <3>2. Fresh(i) /\ Taken(i)
      BY <1>1, <1>5, <3>1 DEF QueueIInv, ProjectedAsItIs
    <3>3. ~(sync[Loop].next <= i)
      <4>1. /\ sync[Loop].rec = i /\ i <= Len(sync[Loop].snap)
        BY <1>1, <1>2, <1>5, <3>1 DEF Pending, SyncHolds
      <4>2. sync[Loop].next \in Nat /\ Len(sync[Loop].snap) \in Nat
        BY <1>2, TypesAre, SyncFields
      <4>3. QED
        BY <1>1, <1>5, <3>1, <4>1, <4>2
    <3>4. Taken(i)'
      BY <1>1, <3>2, <3>3 DEF Taken
    <3>5. \A u \in Importing(i)' : u \in Importing(i) /\ sync'[u] = sync[u]
      <4>1. sync'[Loop].pc # "import"
        BY <1>2, <1>3, <1>5
      <4>2. QED
        BY <1>3, <1>5, <4>1 DEF Importing
    <3>6. Fresh(i)'
      BY <1>1, <3>2, <3>5 DEF Fresh
    <3>7. QED
      BY <3>4, <3>6
  <2>7. QED
    BY <2>2, <2>3, <2>4, <2>5, <2>6 DEF QueueIInv
<1>6. QED
  BY <1>4, <1>5

\* The row that the event loop queues has its key free, and its artifact its file.
LEMMA QueuesQueues ==
  ASSUME CatalogueIInv, CatalogueIInv', QueueIInv, NEW t \in Threads, Queues(t)
  PROVE  QueueIInv'
<1> DEFINE i == sync[t].rec
           n == proj[i].rev
<1>1. /\ sync[t].pc = "queue"
      /\ IF t = Loop
         THEN IF bound[i] \in {0, n}
              THEN bound' = [bound EXCEPT ![i] = n] /\ jobs' = WithJob(i, n)
              ELSE UNCHANGED <<bound, jobs>>
         ELSE /\ jobs' = IF proj[i].status = "recording" THEN jobs ELSE WithJob(i, n)
              /\ UNCHANGED bound
      /\ sync' = [sync EXCEPT ![t] = NoSync]
      /\ UNCHANGED <<rows, disk, cap, todo, proj, work, clean, past, spent>>
  BY DEF Queues
<1>2. /\ Typed /\ Typed' /\ JobsAreAbout /\ LoopWaits /\ Loop \in Threads
      /\ sync \in [Threads -> Sync] /\ SyncHolds(t) /\ DOMAIN rows \subseteq Ids
      /\ bound \in [Ids -> Nat] /\ proj \in [Ids -> Art]
  BY TypesAre, ConstantsAre DEF CatalogueIInv, QueueIInv, Typed, SyncsHold
<1>3. i \in DOMAIN rows /\ i \in Ids /\ n \in Nat
  <2>1. i \in DOMAIN rows
    BY <1>1, <1>2 DEF SyncHolds
  <2>2. proj[i] \in Art
    BY <1>2, <2>1
  <2>3. QED
    BY <1>2, <2>1, <2>2 DEF Art
<1>4. sync'[t].pc = "idle" /\ \A u \in Threads \ {t} : sync'[u] = sync[u]
  BY <1>1, <1>2, NoSyncIs
<1>5. /\ jobs \subseteq WithJob(i, n)
      /\ \A j \in WithJob(i, n) : j \in jobs \/ ( /\ j.rec = i /\ j.rev = n
                                                 /\ j.about = proj[i].path )
      /\ \E j \in WithJob(i, n) : j.rec = i /\ j.rev = n /\ j.about = proj[i].path
  <2> DEFINE new == [rec |-> i, rev |-> n, about |-> proj[i].path, state |-> "queued"]
  <2>1. new.rec = i /\ new.rev = n /\ new.about = proj[i].path
    OBVIOUS
  <2>2. ASSUME NEW j \in jobs, j.rec = i, j.rev = n PROVE j.about = proj[i].path
    BY <1>2, <2>2 DEF JobsAreAbout
  <2>3. CASE \E j \in jobs : j.rec = i /\ j.rev = n
    BY <2>2, <2>3 DEF WithJob
  <2>4. CASE ~\E j \in jobs : j.rec = i /\ j.rev = n
    <3>1. WithJob(i, n) = jobs \cup {new}
      BY <2>4 DEF WithJob
    <3> HIDE DEF new
    <3>2. QED
      BY <2>1, <3>1
  <2>5. QED
    BY <2>3, <2>4
<1>6. jobs' \in {jobs, WithJob(i, n)}
  BY <1>1
<1>7. JobsAreAbout'
  <2> SUFFICES ASSUME NEW j \in jobs'
               PROVE  /\ j.rev <= proj[j.rec].rev
                      /\ j.rev = proj[j.rec].rev => j.about = proj[j.rec].path
    BY <1>1 DEF JobsAreAbout
  <2>1. CASE j \in jobs
    BY <1>2, <2>1 DEF JobsAreAbout
  <2>2. CASE j.rec = i /\ j.rev = n /\ j.about = proj[i].path
    BY <1>3, <2>2
  <2>3. QED
    BY <1>5, <1>6, <2>1, <2>2
<1>8. CASE t # Loop
  <2>1. LoopStays /\ OthersStay
    <3>1. \A u \in Threads : sync[u].next \in Nat
      BY <1>2, TypesAre, SyncFields
    <3>2. QED
      BY <1>2, <1>4, <1>8, <3>1 DEF LoopStays, OthersStay
  <2>2. LoopWaits' /\ RowsLookAlike
    BY <1>1, <1>2, <2>1, UnchangedStays DEF LoopWaits, LoopFree, LoopStays
  <2>3. Undisturbed' => Undisturbed
    BY <1>1 DEF Undisturbed
  <2>4. \A j \in jobs : \E m \in jobs' : m.rec = j.rec /\ m.rev = j.rev /\ m.about = j.about
    BY <1>5, <1>6
  <2>5. bound' = bound /\ \A k \in Ids : proj'[k].path = proj[k].path
    BY <1>1, <1>8
  <2> HIDE DEF i, n
  <2>6. QED
    BY <1>1, <1>2, <1>7, <2>1, <2>2, <2>3, <2>4, <2>5, QueueStays
<1>9. CASE t = Loop
  <2>1. /\ i \in DOMAIN rows /\ Pending(i) /\ \A k : Pending(k) => k = i
        /\ \A k : ~Pending(k)'
    BY <1>1, <1>3, <1>4, <1>9 DEF Pending
  <2>2. /\ \A k \in Ids \ {i} : bound'[k] = bound[k]
        /\ bound[i] = 0 => bound'[i] = n /\ jobs' = WithJob(i, n)
        /\ jobs \subseteq jobs'
    <3>1. CASE bound' = [bound EXCEPT ![i] = n] /\ jobs' = WithJob(i, n)
      BY <1>2, <1>3, <1>5, <3>1
    <3>2. CASE bound' = bound /\ jobs' = jobs /\ bound[i] # 0
      BY <3>2
    <3>3. QED
      BY <1>1, <1>9, <3>1, <3>2
  <2>3. PastTyped' /\ EventsOnce' /\ RecordingIsOnRecord'
    BY <1>1 DEF QueueIInv, PastTyped, EventsOnce, RecordingIsOnRecord, Undisturbed, Announced, past
  <2>4. LoopWaits'
    BY <1>1, <1>2, <1>9 DEF LoopWaits, LoopFree
  <2>5. KeysAreFree'
    <3> SUFFICES ASSUME Undisturbed', NEW k \in DOMAIN rows' \ reused',
                        rows'[k].status = "recording"
                 PROVE  bound'[k] = 0
      BY <2>1 DEF KeysAreFree
    <3>1. /\ k \in DOMAIN rows \ reused /\ rows[k].status = "recording" /\ Undisturbed
          /\ k \in Ids
      BY <1>1, <1>2 DEF Undisturbed, past
    <3>2. /\ bound[k] = 0
          /\ Pending(k) => rows[k].status = "completed"
      BY <3>1 DEF QueueIInv, KeysAreFree
    <3>3. k # i
      BY <2>1, <3>1, <3>2
    <3>4. QED
      BY <2>2, <3>1, <3>2, <3>3
  <2>6. CompletedIsQueued'
    <3> SUFFICES ASSUME Undisturbed', NEW k \in DOMAIN rows' \ (reused' \cup raced'),
                        rows'[k].status = "completed"
                 PROVE  Settled(k)'
      BY DEF CompletedIsQueued
    <3>1. /\ k \in DOMAIN rows \ (reused \cup raced) /\ rows[k].status = "completed" /\ Undisturbed
          /\ k \in Ids
      BY <1>1, <1>2 DEF Undisturbed, past
    <3>2. CASE k = i
      <4>1. bound[i] = 0
        BY <2>1, <3>1, <3>2 DEF QueueIInv, KeysAreFree
      <4>2. Taken(i)
        BY <1>1, <1>9, <2>1, <3>1, <3>2 DEF QueueIInv, ProjectedAsItIs
      <4>3. proj[i].path = rows[i].path
        BY <1>1, <1>9, <4>2 DEF Taken
      <4>4. \E j \in jobs' : j.rec = i /\ j.rev = bound'[i] /\ j.about = rows[i].path
        BY <1>5, <2>2, <4>1, <4>3
      <4>5. QED
        BY <1>1, <3>2, <4>4 DEF Settled
    <3>3. CASE k # i
      <4>1. Settled(k)
        BY <2>1, <3>1, <3>3 DEF QueueIInv, CompletedIsQueued
      <4>2. bound'[k] = bound[k] /\ jobs \subseteq jobs' /\ rows' = rows
        BY <1>1, <2>2, <3>1, <3>3
      <4>3. QED
        BY <4>1, <4>2 DEF Settled
    <3>4. QED
      BY <3>2, <3>3
  <2>7. ProjectedAsItIs'
    BY <2>1 DEF ProjectedAsItIs
  <2>8. QED
    BY <1>7, <2>3, <2>4, <2>5, <2>6, <2>7 DEF QueueIInv
<1>10. QED
  BY <1>8, <1>9

\* What is to be sent comes one place nearer.
LEMMA TailIs ==
  ASSUME Typed, todo # << >>, todo' = Tail(todo)
  PROVE  /\ 1 \in DOMAIN todo /\ todo[1] \in EventType /\ Head(todo) = todo[1]
         /\ \A k \in DOMAIN todo' : k + 1 \in DOMAIN todo /\ todo'[k] = todo[k + 1]
                                    /\ k \in Nat /\ k >= 1
         /\ \A k \in DOMAIN todo : k # 1 => k - 1 \in DOMAIN todo' /\ todo'[k - 1] = todo[k]
         /\ \A k \in DOMAIN todo : k \in Nat /\ k >= 1
<1>1. /\ todo \in Seq(EventType) /\ Len(todo) \in Nat /\ Len(todo) >= 1
      /\ DOMAIN todo = 1..Len(todo)
  BY DEF Typed
<1>2. /\ DOMAIN todo' = 1..(Len(todo) - 1)
      /\ \A k \in 1..(Len(todo) - 1) : todo'[k] = todo[k + 1]
  BY <1>1
<1>3. \A k \in DOMAIN todo : k # 1 => k - 1 \in DOMAIN todo' /\ todo'[k - 1] = todo[k]
  <2> SUFFICES ASSUME NEW k \in DOMAIN todo, k # 1
               PROVE  k - 1 \in DOMAIN todo' /\ todo'[k - 1] = todo[k]
    OBVIOUS
  <2>1. k - 1 \in 1..(Len(todo) - 1) /\ (k - 1) + 1 = k
    BY <1>1
  <2>2. QED
    BY <1>2, <2>1
<1>4. QED
  BY <1>1, <1>2, <1>3

\* The first event is logged: the row of an end was recording and is now pending.
LEMMA LogsQueues ==
  ASSUME CatalogueIInv, CatalogueIInv', QueueIInv, Logs
  PROVE  QueueIInv'
<1> DEFINE e == todo[1]
<1>1. /\ todo # << >> /\ sync[Loop].pc = "idle" /\ todo' = Tail(todo)
      /\ UNCHANGED <<disk, cap, proj, jobs, bound, work, raced>>
  BY DEF Logs
<1>2. /\ Typed /\ Typed' /\ RowsHold /\ RowsHold' /\ SettlementHolds /\ PastTyped /\ LoopWaits
      /\ EventsOnce /\ JobsAreAbout /\ RecordingIsOnRecord /\ KeysAreFree /\ CompletedIsQueued
      /\ EventsHold /\ Loop \in Threads /\ DOMAIN rows \subseteq Ids /\ spent \in SpentType
      /\ spent.faults \in Nat
  BY TypesAre, ConstantsAre DEF CatalogueIInv, QueueIInv, Typed
<1>3. /\ 1 \in DOMAIN todo /\ e \in EventType /\ Head(todo) = e
      /\ \A k \in DOMAIN todo' : k + 1 \in DOMAIN todo /\ todo'[k] = todo[k + 1]
                                 /\ k \in Nat /\ k >= 1
      /\ \A k \in DOMAIN todo : k # 1 => k - 1 \in DOMAIN todo' /\ todo'[k - 1] = todo[k]
      /\ \A k \in DOMAIN todo : k \in Nat /\ k >= 1
  BY <1>1, <1>2, TailIs
<1>4. /\ reused' = reused \cup TakenOver(e)
      /\ \/ rows' = After(e) /\ spent' = spent
         \/ spent' = [spent EXCEPT !.faults = @ + 1]
      /\ sync'[Loop] = IF e.event = "stopped" /\ Found(e.path) # {}
                       THEN [NoSync EXCEPT !.pc = "asked", !.rec = CHOOSE i \in Found(e.path) : TRUE]
                       ELSE NoSync
  BY <1>2, <1>3 DEF Logs
<1>5. e.path.base = e.first
  BY <1>2, <1>3 DEF EventsHold
<1> HIDE DEF e
<1>6. Undisturbed' => Undisturbed /\ rows' = After(e)
  <2>1. spent' = [spent EXCEPT !.faults = @ + 1] => spent'.faults = spent.faults + 1
    BY <1>2, SpentMoves
  <2>2. QED
    BY <1>2, <1>4, <2>1 DEF Undisturbed
<1>7. /\ sync'[Loop].pc \in {"idle", "asked"}
      /\ e.event = "started" => sync'[Loop].pc = "idle"
      /\ sync'[Loop].pc # "idle" => e.event = "stopped" /\ sync'[Loop].rec \in Found(e.path)
      /\ (e.event = "stopped" /\ Found(e.path) # {})
           => sync'[Loop].pc # "idle" /\ sync'[Loop].rec \in Found(e.path)
  <2>1. CASE e.event = "stopped" /\ Found(e.path) # {}
    <3>1. PICK r \in Found(e.path) : sync'[Loop] = [NoSync EXCEPT !.pc = "asked", !.rec = r]
      BY <1>4, <2>1
    <3>2. sync'[Loop].pc = "asked" /\ sync'[Loop].rec = r
      BY <3>1 DEF NoSync
    <3>3. QED
      BY <2>1, <3>2
  <2>2. CASE ~(e.event = "stopped" /\ Found(e.path) # {})
    BY <1>4, <2>2, NoSyncIs
  <2>3. QED
    BY <2>1, <2>2
<1>8. /\ PastTyped' /\ JobsAreAbout'
  BY <1>1, <1>2, <1>4 DEF PastTyped, TakenOver, JobsAreAbout
<1>9. LoopWaits' /\ ~cap.on
  BY <1>1, <1>2 DEF LoopWaits, LoopFree
<1>10. EventsOnce'
  <2> SUFFICES ASSUME NEW k \in DOMAIN todo', NEW l \in DOMAIN todo',
                      todo'[k].event # "started", todo'[l].event # "started",
                      todo'[k].first = todo'[l].first
               PROVE  k = l
    BY DEF EventsOnce
  <2>1. k + 1 = l + 1
    BY <1>2, <1>3 DEF EventsOnce
  <2>2. QED
    BY <1>3, <2>1
<1>11. \A k \in DOMAIN todo' :
         (Announced(k + 1) /\ (e.event # "started" \/ e.first # todo'[k].first)) => Announced(k)'
  <2> SUFFICES ASSUME NEW k \in DOMAIN todo', Announced(k + 1),
                      e.event # "started" \/ e.first # todo'[k].first
               PROVE  Announced(k)'
    OBVIOUS
  <2>1. PICK l \in DOMAIN todo : /\ l < k + 1 /\ todo[l].event = "started"
                                 /\ todo[l].first = todo[k + 1].first
    BY DEF Announced
  <2>2. l # 1 /\ l - 1 < k
    BY <1>3, <2>1 DEF e
  <2>3. l - 1 \in DOMAIN todo' /\ todo'[l - 1] = todo[l] /\ todo'[k] = todo[k + 1]
    BY <1>3, <2>2
  <2>4. QED
    BY <2>1, <2>2, <2>3 DEF Announced
<1>12. CASE Undisturbed' /\ e.event = "started"
  <2>1. KeysAreFree' /\ CompletedIsQueued' /\ ProjectedAsItIs'
    BY <1>1, <1>3, <1>4, <1>6, <1>7, <1>12, StartedQueues
  <2>2. RecordingIsOnRecord'
    <3> SUFFICES ASSUME NEW i \in DOMAIN rows', NEW k \in DOMAIN todo',
                        todo'[k].event # "started", todo'[k].first = rows'[i].key
                 PROVE  rows'[i].status = "recording" \/ Announced(k)'
      BY <1>1, <1>9 DEF RecordingIsOnRecord
    <3>1. rows' = WithStart(e)
      BY <1>6, <1>12 DEF After
    <3>2. \/ /\ i \in DOMAIN rows /\ rows[i].key # e.first /\ rows'[i] = rows[i]
          \/ rows'[i].status = "recording"
      BY <1>2, <1>3, <3>1, StartIs
    <3>3. CASE i \in DOMAIN rows /\ rows[i].key # e.first /\ rows'[i] = rows[i]
      <4>1. k + 1 \in DOMAIN todo /\ todo'[k] = todo[k + 1]
        BY <1>3
      <4>2. rows[i].status = "recording" \/ Announced(k + 1)
        BY <1>2, <1>6, <1>12, <3>3, <4>1 DEF RecordingIsOnRecord
      <4>3. QED
        BY <1>11, <3>3, <4>2
    <3>4. QED
      BY <3>2, <3>3
  <2>3. QED
    BY <1>8, <1>9, <1>10, <2>1, <2>2 DEF QueueIInv
<1>13. CASE Undisturbed' /\ e.event # "started"
  <2>1. rows' = WithEnd(e) /\ Undisturbed
    BY <1>6, <1>13 DEF After
  <2>2. /\ DOMAIN rows' = DOMAIN rows /\ reused' = reused
        /\ \A i \in DOMAIN rows :
             /\ rows'[i].key = rows[i].key
             /\ IF IsEndOf(e, i)
                THEN /\ rows'[i].path = e.path
                     /\ rows'[i].status = IF e.event = "stopped" THEN "completed" ELSE "failed"
                ELSE rows'[i] = rows[i]
    <3>1. \A i \in DOMAIN rows : rows[i] \in Row
      BY <1>2, TypesAre
    <3>2. /\ DOMAIN rows' = DOMAIN rows
          /\ \A i \in DOMAIN rows :
               rows'[i] = IF IsEndOf(e, i)
                          THEN [rows[i] EXCEPT !.path = e.path,
                                               !.status = IF e.event = "stopped"
                                                          THEN "completed" ELSE "failed"]
                          ELSE rows[i]
      BY <2>1 DEF WithEnd
    <3>3. reused' = reused
      BY <1>4, <1>13 DEF TakenOver
    <3>4. ASSUME NEW i \in DOMAIN rows, IsEndOf(e, i), NEW c,
                 rows'[i] = [rows[i] EXCEPT !.path = e.path, !.status = c]
          PROVE  rows'[i].key = rows[i].key /\ rows'[i].path = e.path /\ rows'[i].status = c
      BY <3>1, <3>4 DEF Row
    <3>5. QED
      BY <3>2, <3>3, <3>4
  <2>3. \A i \in DOMAIN rows : IsEndOf(e, i) => rows[i].key = e.first
    BY <1>2 DEF IsEndOf, File, RowsHold
  <2>4. ASSUME NEW i \in DOMAIN rows, rows[i].key = e.first
        PROVE  rows[i].status = "recording" /\ IsEndOf(e, i)
    <3>1. ~Announced(1)
      BY <1>3 DEF Announced
    <3>2. rows[i].status = "recording"
      BY <1>2, <1>3, <1>13, <2>1, <2>4, <3>1 DEF RecordingIsOnRecord, e
    <3>3. EndsAt(i)
      BY <1>2, <2>1, <3>2 DEF SettlementHolds
    <3>4. PICK k \in DOMAIN todo : File(rows[i].path) = <<todo[k].first, 0>>
      BY <1>9, <3>3 DEF EndsAt
    <3>5. todo[k].first = rows[i].key
      BY <1>2, <3>4 DEF File, RowsHold
    <3>6. QED
      BY <2>4, <3>2, <3>4, <3>5 DEF IsEndOf
  <2>5. ASSUME sync'[Loop].pc # "idle"
        PROVE  \E i \in DOMAIN rows : /\ i = sync'[Loop].rec /\ IsEndOf(e, i)
                                      /\ e.event = "stopped"
    <3> DEFINE i == sync'[Loop].rec
    <3>1. e.event = "stopped" /\ i \in Found(e.path)
      BY <1>7, <2>5
    <3>2. i \in DOMAIN rows /\ rows'[i].path.base = e.path.base
      BY <2>2, <3>1 DEF Found, File
    <3>3. rows[i].key = e.first
      BY <1>2, <1>5, <2>2, <3>2 DEF RowsHold
    <3>4. QED
      BY <2>4, <3>1, <3>2, <3>3
  <2>6. KeysAreFree'
    <3> SUFFICES ASSUME NEW i \in DOMAIN rows' \ reused'
                 PROVE  /\ rows'[i].status = "recording" => bound[i] = 0
                        /\ Pending(i)' => rows'[i].status = "completed" /\ bound[i] = 0
      BY <1>1 DEF KeysAreFree
    <3>1. i \in DOMAIN rows \ reused
      BY <2>2
    <3>2. rows[i].status = "recording" => bound[i] = 0
      BY <1>2, <2>1, <3>1 DEF KeysAreFree
    <3>3. CASE IsEndOf(e, i)
      <4>1. bound[i] = 0
        BY <2>3, <2>4, <3>1, <3>2, <3>3
      <4>2. Pending(i)' => e.event = "stopped"
        BY <2>5 DEF Pending
      <4>3. QED
        BY <2>2, <3>1, <3>3, <4>1, <4>2
    <3>4. CASE ~IsEndOf(e, i)
      <4>1. ~Pending(i)'
        BY <2>5, <3>4 DEF Pending
      <4>2. QED
        BY <2>2, <3>1, <3>2, <3>4, <4>1
    <3>5. QED
      BY <3>3, <3>4
  <2>7. CompletedIsQueued'
    <3> SUFFICES ASSUME NEW i \in DOMAIN rows' \ (reused' \cup raced'),
                        rows'[i].status = "completed"
                 PROVE  Settled(i)' \/ Pending(i)'
      BY DEF CompletedIsQueued
    <3>1. i \in DOMAIN rows \ (reused \cup raced)
      BY <1>1, <2>2
    <3>2. CASE IsEndOf(e, i)
      <4>1. e.event = "stopped" /\ rows'[i].path = e.path
        BY <2>2, <3>1, <3>2
      <4>2. i \in Found(e.path)
        BY <2>2, <3>1, <4>1 DEF Found
      <4>3. sync'[Loop].pc # "idle"
        BY <1>7, <4>1, <4>2
      <4>4. IsEndOf(e, sync'[Loop].rec) /\ sync'[Loop].rec \in DOMAIN rows
        BY <2>5, <4>3
      <4>5. rows[sync'[Loop].rec].key = rows[i].key
        BY <2>3, <3>1, <3>2, <4>4
      <4>6. sync'[Loop].rec = i
        BY <1>2, <3>1, <4>4, <4>5 DEF RowsHold
      <4>7. QED
        BY <4>3, <4>6 DEF Pending
    <3>3. CASE ~IsEndOf(e, i)
      <4>1. rows'[i] = rows[i]
        BY <2>2, <3>1, <3>3
      <4>2. Settled(i)
        BY <1>1, <1>2, <2>1, <3>1, <4>1 DEF CompletedIsQueued, Pending
      <4>3. QED
        BY <1>1, <4>1, <4>2 DEF Settled
    <3>4. QED
      BY <3>2, <3>3
  <2>8. ProjectedAsItIs'
    BY <1>7 DEF ProjectedAsItIs
  <2>9. RecordingIsOnRecord'
    <3> SUFFICES ASSUME NEW i \in DOMAIN rows', NEW k \in DOMAIN todo',
                        todo'[k].event # "started", todo'[k].first = rows'[i].key
                 PROVE  rows'[i].status = "recording" \/ Announced(k)'
      BY <1>1, <1>9 DEF RecordingIsOnRecord
    <3>1. /\ k + 1 \in DOMAIN todo /\ todo'[k] = todo[k + 1] /\ k + 1 # 1
          /\ i \in DOMAIN rows /\ rows'[i].key = rows[i].key
      BY <1>3, <2>2
    <3>2. todo[k + 1].first # e.first
      BY <1>2, <1>3, <1>13, <3>1 DEF EventsOnce, e
    <3>3. rows'[i] = rows[i]
      BY <2>2, <2>3, <3>1, <3>2
    <3>4. rows[i].status = "recording" \/ Announced(k + 1)
      BY <1>2, <2>1, <3>1 DEF RecordingIsOnRecord
    <3>5. QED
      BY <1>11, <1>13, <3>3, <3>4
  <2>10. QED
    BY <1>8, <1>9, <1>10, <2>6, <2>7, <2>8, <2>9 DEF QueueIInv
<1>14. CASE ~Undisturbed'
  BY <1>8, <1>9, <1>10, <1>14
     DEF QueueIInv, RecordingIsOnRecord, KeysAreFree, CompletedIsQueued, ProjectedAsItIs
<1>15. QED
  BY <1>12, <1>13, <1>14

LEMMA QueueInitHolds == Init => QueueIInv
<1> SUFFICES ASSUME Init PROVE QueueIInv
  OBVIOUS
<1>1. /\ DOMAIN rows = {} /\ ~cap.on /\ DOMAIN todo = {} /\ jobs = {}
      /\ reused = {} /\ raced = {}
  BY DEF Init, NoCap
<1>2. QED
  BY <1>1 DEF QueueIInv, PastTyped, LoopWaits, JobsAreAbout, EventsOnce, RecordingIsOnRecord,
              KeysAreFree, CompletedIsQueued, ProjectedAsItIs

LEMMA QueueStutter ==
  ASSUME CatalogueIInv, CatalogueIInv', QueueIInv, UNCHANGED vars
  PROVE  QueueIInv'
<1>1. /\ UNCHANGED <<rows, disk, cap, todo, proj, sync>>
      /\ UNCHANGED <<jobs, bound, work, clean, past, spent>>
  BY DEF vars
<1>2. Typed /\ Typed' /\ JobsAreAbout /\ LoopWaits
  BY DEF CatalogueIInv, QueueIInv
<1>3. LoopWaits' /\ RowsLookAlike /\ LoopStays /\ OthersStay
  BY <1>1, <1>2, UnchangedStays DEF LoopWaits, LoopFree
<1>4. Undisturbed' => Undisturbed
  BY <1>1 DEF Undisturbed
<1>5. QED
  BY <1>1, <1>2, <1>3, <1>4, SamePast, QueueStays

LEMMA QueueNextKeeps ==
  ASSUME CatalogueIInv, CatalogueIInv', QueueIInv, [Next]_vars
  PROVE  QueueIInv'
<1>1. ASSUME NEW of \in Broadcasts, Starts(of) \/ StartsSplit(of) PROVE QueueIInv'
  BY <1>1, StartsQueues, StartsSplitQueues
<1>2. ASSUME NEW p \in disk, MovesFile(p) PROVE QueueIInv'
  BY <1>2, MovesFileQueues
<1>3. CASE Finishes \/ Logs
  BY <1>3, FinishesQueues, LogsQueues
<1>4. ASSUME NEW t \in Helpers, HelperAsks(t) PROVE QueueIInv'
  BY <1>4, HelperAsksQueues
<1>5. ASSUME NEW t \in Threads, SyncBegins(t) \/ Imports(t) \/ SyncEnds(t) \/ Queues(t)
      PROVE  QueueIInv'
  BY <1>5, SyncBeginsQueues, ImportsQueues, SyncEndsQueues, QueuesQueues
<1>6. ASSUME NEW i \in DOMAIN rows, ArchiveNotes(i) PROVE QueueIInv'
  BY <1>6, ArchiveNotesQueues
<1>7. ASSUME NEW j \in jobs, VerifyBegins(j) PROVE QueueIInv'
  BY <1>7, VerifyBeginsQueues
<1>8. CASE VerifyEnds \/ Crash
  BY <1>8, VerifyEndsQueues, CrashQueues
<1>9. CASE UNCHANGED vars
  BY <1>9, QueueStutter
<1>10. QED
  BY <1>1, <1>2, <1>3, <1>4, <1>5, <1>6, <1>7, <1>8, <1>9 DEF Next

-----------------------------------------------------------------------------
(* The theorems.                                                           *)

LEMMA InitHolds == Init => CatalogueIInv
<1> SUFFICES ASSUME Init PROVE CatalogueIInv
  OBVIOUS
<1>1. /\ rows = <<>> /\ disk = {} /\ cap = NoCap /\ todo = <<>>
      /\ proj = [i \in Ids |-> NoArt] /\ sync = [t \in Threads |-> NoSync]
      /\ jobs = {} /\ bound = [i \in Ids |-> 0] /\ work = NoWork /\ clean = TRUE
      /\ spent = [captures |-> 0, notes |-> 0, syncs |-> 0, faults |-> 0]
  BY DEF Init
<1>2. rows \in Seq(Row) /\ Len(rows) = 0 /\ DOMAIN rows = {}
  BY <1>1
<1>3. NoCap \in Cap /\ NoCap.path.base = NoCap.first
  BY OutIsPath, ConstantsAre, CatalogueAssumption DEF NoCap, Cap
<1>4. NoArt \in Art /\ ArtHolds(NoArt)
  BY OutIsPath, ConstantsAre DEF NoArt, Art, ArtHolds
<1>5. NoWork \in [rec : {0} \cup Ids, rev : Nat, path : Path] /\ NoWork.rec = 0
  BY OutIsPath, ConstantsAre DEF NoWork
<1>6. spent \in SpentType /\ spent.captures = 0
  BY <1>1, ConstantsAre DEF SpentType
<1>7. todo \in Seq(EventType) /\ DOMAIN todo = {}
  BY <1>1
<1>8. /\ proj \in [Ids -> Art] /\ bound \in [Ids -> Nat] /\ sync \in [Threads -> Sync]
  BY <1>1, <1>4, NoSyncIs
<1>9. Typed
  BY <1>1, <1>2, <1>3, <1>5, <1>6, <1>7, <1>8, BasesAreFinite DEF Typed
<1>10. RowsHold /\ ProjectionFollows /\ SettlementHolds
  BY <1>2 DEF RowsHold, ProjectionFollows, SettlementHolds
<1>11. FilesAreFew
  <2>1. Singles = {}
    BY <1>1 DEF Singles
  <2>2. QED
    BY <1>6, <2>1, FS_EmptySet DEF FilesAreFew
<1>12. EventsHold
  BY <1>1, <1>3, <1>7 DEF EventsHold
<1>13. ArtsHold
  BY <1>1, <1>4 DEF ArtsHold
<1>14. WorkHolds /\ JobsHold
  BY <1>1, <1>5 DEF WorkHolds, JobsHold
<1>15. SyncsHold
  BY <1>1, NoSyncIs DEF SyncsHold, SyncHolds
<1>16. QED
  BY <1>9, <1>10, <1>11, <1>12, <1>13, <1>14, <1>15 DEF CatalogueIInv

LEMMA StutterKeeps ==
  ASSUME CatalogueIInv, UNCHANGED vars
  PROVE  CatalogueIInv'
<1>1. /\ UNCHANGED <<rows, disk, cap, todo, proj, sync>>
      /\ UNCHANGED <<jobs, bound, work, clean, spent>>
  BY DEF vars
<1>2. RowsHold' /\ ArtsHold' /\ WorkHolds' /\ JobsHold' /\ SyncsHold' /\ ProjectionFollows'
  BY <1>1, TablesStay DEF TableVars
<1>3. FilesAreFew' /\ EventsHold'
  BY <1>1, EngineStays
<1>4. Typed'
  BY <1>1 DEF CatalogueIInv, Typed
<1>5. SettlementHolds'
  BY <1>1, SettlementStays DEF CatalogueIInv
<1>6. QED
  BY <1>2, <1>3, <1>4, <1>5 DEF CatalogueIInv

LEMMA NextKeeps ==
  ASSUME CatalogueIInv, [Next]_vars
  PROVE  CatalogueIInv'
<1>1. ASSUME NEW of \in Broadcasts, Starts(of) \/ StartsSplit(of) PROVE CatalogueIInv'
  BY <1>1, StartsKeeps, StartsSplitKeeps
<1>2. ASSUME NEW p \in disk, MovesFile(p) PROVE CatalogueIInv'
  BY <1>2, MovesFileKeeps
<1>3. CASE Finishes \/ Logs
  BY <1>3, FinishesKeeps, LogsKeeps
<1>4. ASSUME NEW t \in Helpers, HelperAsks(t) PROVE CatalogueIInv'
  BY <1>4, HelperAsksKeeps
<1>5. ASSUME NEW t \in Threads, SyncBegins(t) \/ Imports(t) \/ SyncEnds(t) \/ Queues(t)
      PROVE  CatalogueIInv'
  BY <1>5, SyncBeginsKeeps, ImportsKeeps, SyncEndsKeeps, QueuesKeeps
<1>6. ASSUME NEW i \in DOMAIN rows, ArchiveNotes(i) PROVE CatalogueIInv'
  BY <1>6, ArchiveNotesKeeps
<1>7. ASSUME NEW j \in jobs, VerifyBegins(j) PROVE CatalogueIInv'
  BY <1>7, VerifyBeginsKeeps
<1>8. CASE VerifyEnds \/ Crash
  BY <1>8, VerifyEndsKeeps, CrashKeeps
<1>9. CASE UNCHANGED vars
  BY <1>9, StutterKeeps
<1>10. QED
  BY <1>1, <1>2, <1>3, <1>4, <1>5, <1>6, <1>7, <1>8, <1>9 DEF Next

\* The invariant holds in every reachable state, for every value of the constants.
THEOREM CatalogueIsSafe == CatalogueSpec => []CatalogueIInv
<1>1. Init => CatalogueIInv
  BY InitHolds
<1>2. CatalogueIInv /\ [Next]_vars => CatalogueIInv'
  BY NextKeeps
<1>3. QED
  BY <1>1, <1>2, PTL DEF CatalogueSpec

\* So does what the verification of an ended capture relies on.
THEOREM CatalogueIsQueued == CatalogueSpec => [](CatalogueIInv /\ QueueIInv)
<1>1. Init => CatalogueIInv /\ QueueIInv
  BY InitHolds, QueueInitHolds
<1>2. CatalogueIInv /\ QueueIInv /\ [Next]_vars => (CatalogueIInv /\ QueueIInv)'
  BY NextKeeps, QueueNextKeeps
<1>3. QED
  BY <1>1, <1>2, PTL DEF CatalogueSpec

\* However captures, moves, projections of old rows, archive notes, verifications
\* and crashes overlap: one row for a first name, one index for a row of a
\* broadcast, one job for a revision, and no verdict beside a file that it was not
\* reached about (record_event, sync_legacy_catalog, create_job, finish_job).
THEOREM VerdictsStayWithTheirFiles == CatalogueSpec => []CatalogueInv
<1>1. CatalogueIInv /\ QueueIInv => CatalogueInv
  <2> SUFFICES ASSUME CatalogueIInv, QueueIInv PROVE CatalogueInv
    OBVIOUS
  <2>1. Typed /\ RowsHold /\ ArtsHold /\ JobsHold /\ SyncsHold /\ WorkHolds
    BY DEF CatalogueIInv
  <2>0. reused \subseteq Ids /\ raced \subseteq Ids
    BY DEF QueueIInv, PastTyped
  <2>2. VerdictIsOfItsFile
    BY <2>1 DEF VerdictIsOfItsFile, ArtsHold, ArtHolds
  <2>3. /\ rows \in Seq(Row) /\ Len(rows) <= MaxRows /\ disk \subseteq Path
        /\ clean \in BOOLEAN
        /\ cap \in [on : BOOLEAN, of : Broadcasts, split : BOOLEAN, first : Bases, path : Path]
        /\ todo \in Seq([event : {"started", "stopped", "failed"}, first : Bases, path : Path,
                         of : Broadcasts])
        /\ jobs \subseteq [rec : Ids, rev : Nat, about : Path,
                           state : {"queued", "succeeded", "failed", "blocked"}]
    BY <2>1 DEF Typed, Cap, EventType, Job
  <2>4. \A i, k \in DOMAIN rows : i # k =>
          /\ rows[i].key # rows[k].key
          /\ rows[i].of = rows[k].of => rows[i].index # rows[k].index
    BY <2>1 DEF RowsHold
  <2>5. \A i \in Ids : /\ proj[i].verdict \in {"", "ok", "invalid"}
                       /\ proj[i].rev = 0 => proj[i] = NoArt
                       /\ proj[i].seen \in Row \cup {NoRow}
    <3>1. \A i \in Ids : proj[i] \in Art /\ ArtHolds(proj[i])
      BY <2>1 DEF Typed, ArtsHold
    <3>2. \A i \in Ids : proj[i].verdict \in {"", "ok", "invalid"} /\ proj[i].seen \in Row \cup {NoRow}
      BY <3>1 DEF Art
    <3>3. QED
      BY <3>1, <3>2 DEF ArtHolds
  <2>6. \A t \in Threads : /\ sync[t].pc \in {"idle", "asked", "import", "queue"}
                           /\ sync[t].snap \in Seq(Row) /\ sync[t].rec \in {0} \cup DOMAIN rows
    <3>1. \A t \in Threads : sync[t] \in Sync /\ SyncHolds(t)
      BY <2>1 DEF Typed, SyncsHold
    <3>2. QED
      BY <3>1, SyncFields DEF SyncHolds
  <2>7. /\ \A j, k \in jobs : (j.rec = k.rec /\ j.rev = k.rev) => j = k
        /\ \A i \in Ids : bound[i] # 0 => \E j \in jobs : j.rec = i /\ j.rev = bound[i]
    BY <2>1 DEF JobsHold
  <2>8. work.rec \in {0} \cup DOMAIN rows
    BY <2>1 DEF WorkHolds
  <2>9. CatalogueTypeOK
    BY <2>0, <2>3, <2>4, <2>5, <2>6, <2>7, <2>8 DEF CatalogueTypeOK
  <2>10. QED
    BY <2>2, <2>9 DEF CatalogueInv
<1>2. QED
  BY <1>1, CatalogueIsQueued, PTL

\* A projection that no other one overlapped leaves every artifact as the newest
\* rows have it, until a row changes (sync_legacy_catalog).
THEOREM NewestProjectionPrevails == CatalogueSpec => []ProjectionFollows
<1>1. CatalogueIInv => ProjectionFollows
  BY DEF CatalogueIInv
<1>2. QED
  BY <1>1, CatalogueIsSafe, PTL

\* Without lost events and crashes, no capture that has ended is on record as
\* going on, and the job that its row's key is bound to is about the file that it
\* stored, wherever that was moved (capture_finished, queue_validation, create_job):
\* unless the capture took over a row whose key was bound already, or a thread had
\* still to import the row as it was before when the projection began.
THEOREM EndedCapturesAreSettled == CatalogueSpec => []EndedIsSettled
<1>1. CatalogueIInv /\ QueueIInv => EndedIsSettled
  <2> SUFFICES ASSUME CatalogueIInv, QueueIInv, Undisturbed, ~cap.on, LoopFree,
                      NEW i \in DOMAIN rows
               PROVE  /\ rows[i].status # "recording"
                      /\ rows[i].status = "completed" /\ i \notin reused \cup raced => Settled(i)
    BY DEF EndedIsSettled
  <2>1. rows[i].status # "recording"
    BY FreeIsSettled DEF CatalogueIInv
  <2>2. ~Pending(i)
    BY DEF Pending, LoopFree
  <2>3. QED
    BY <2>1, <2>2 DEF QueueIInv, CompletedIsQueued
<1>2. QED
  BY <1>1, CatalogueIsQueued, PTL
=============================================================================
