------------------------ MODULE PlatformQueuesProofs ------------------------
(***************************************************************************)
(* Proofs about PlatformQueues, for every set of recordings, every route   *)
(* of destinations, every number of attempts and every bound.              *)
(*                                                                         *)
(* What the application promises - what is called archived is whole in the *)
(* remote store, unless its sizes were not compared or another recording's *)
(* file took its place; a completed job was announced; what is filed as    *)
(* sent was accepted - rests on what each actor leaves behind for the      *)
(* next: the thread's progress, the writes that a callback has still to    *)
(* commit, the row as the notification loop read it.  PlatformIInv adds    *)
(* that.                                                                   *)
(***************************************************************************)
EXTENDS PlatformQueues, SequenceTheorems, TLAPS

\* A recording's upload was announced, if that is wanted at all.
Announced(r) ==
    "archive.completed" \in Events =>
        \E n \in DOMAIN notes : notes[n].rec = r /\ notes[n].event = "archive.completed"

\* A recording is whole in the remote store, or one that nothing is promised of.
Kept(r) == r \in unread \cup replaced \/ Whole(r)

store == <<remote, unread, replaced>>
StoreType ==
    /\ remote \subseteq Object /\ \A o, p \in remote : Name[o.of] = Name[p.of] => o = p
    /\ unread \subseteq Recs /\ replaced \subseteq Recs

ArchType == [pc : {"idle", "claimed", "copying", "copied", "filed", "announced", "done", "broken"},
             job : 0..MaxJobs, delete : BOOLEAN, verify : BOOLEAN]

\* Threads and pending writes die with the application.
DeadIsIdle == ~up => arch = Idle /\ sender = Silent /\ todo = << >>

\* The archive loop works on a job that is marked, and how far its thread is
\* says what is done.
ThreadHasJob ==
    /\ arch.pc = "idle" => arch = Idle
    /\ arch.pc # "idle" =>
         /\ arch.job \in DOMAIN jobs
         /\ jobs[arch.job].status = "uploading"
         /\ arch.pc \in {"filed", "announced", "done"} => Kept(Rec)
         /\ arch.pc \in {"announced", "done"} => Announced(Rec)

\* A job that is not over has an attempt left.
JobsHaveAttempts ==
    \A i \in DOMAIN jobs : jobs[i].status \in JobActive => jobs[i].attempts < JobAttempts

\* So have a notification that waits and the one that is delivered.
NotesHaveAttempts ==
    /\ \A n \in DOMAIN notes : Pending(n) => notes[n].attempts < NoteAttempts
    /\ Processing => sender.attempts < NoteAttempts

\* No write that is left to commit calls a recording archived.
WritesAreBehind ==
    \A k \in DOMAIN todo : todo[k].kind = "status" => todo[k].status # "completed"

\* A delivery on record, or in the thread's hands, was accepted; a destination
\* that the thread has no outcome of is still to be tried.
DeliveriesAreReceived ==
    /\ \A n \in DOMAIN notes : \A d \in Honest :
          notes[n].delivery[d] = "sent" => got[n][d] > 0
    /\ Processing => \A d \in Dests :
          /\ sender.delivery[d] = "none" => \E k \in DOMAIN sender.left : sender.left[k] = d
          /\ d \in Honest /\ sender.delivery[d] = "sent" => got[sender.note][d] > 0

PlatformIInv ==
    /\ PlatformTypeOK /\ ArchivedIsKept /\ CompletionIsAnnounced /\ SentMeansReceived
    /\ DeadIsIdle /\ ThreadHasJob /\ JobsHaveAttempts /\ NotesHaveAttempts
    /\ WritesAreBehind /\ DeliveriesAreReceived

\* The invariant comes apart into that of the notifications and that of the
\* archive jobs, which meet in the words that a thread leaves.
NoteInv ==
    /\ notes \in Seq(Note)
    /\ sender \in [note : 0..Len(notes), attempts : 0..NoteAttempts,
                   delivery : Delivery, left : Seq(Dests)]
    /\ got \in [1..Len(notes) -> [Honest -> Once]]
    /\ SentMeansReceived /\ NotesHaveAttempts /\ DeliveriesAreReceived

JobInv ==
    /\ up \in BOOLEAN
    /\ local \subseteq Recs
    /\ StoreType
    /\ status \in [Recs -> JobStatus \cup {"none"}]
    /\ jobs \in Seq(Job) /\ Len(jobs) <= MaxJobs
    /\ arch \in ArchType
    /\ todo \in Seq(Writes)
    /\ ArchivedIsKept /\ ThreadHasJob /\ JobsHaveAttempts /\ WritesAreBehind

SpentType == [crashes : 0..MaxCrashes, retries : 0..MaxRetries]

LEMMA InvariantParts ==
  PlatformIInv <=> /\ NoteInv /\ JobInv /\ spent \in SpentType
                   /\ DeadIsIdle /\ CompletionIsAnnounced
BY DEF PlatformIInv, NoteInv, JobInv, PlatformTypeOK, SpentType, StoreType, ArchType

\* What is promised, of one recording after the other.
LEMMA ArchivedIs ==
  ArchivedIsKept <=>
    \A r \in Recs :
      /\ status[r] = "completed" => Kept(r)
      /\ (\E i \in DOMAIN jobs : jobs[i].rec = r /\ jobs[i].status = "completed") => Kept(r)
      /\ r \in local \/ Kept(r)
BY DEF ArchivedIsKept, Kept

LEMMA CompletionsAre ==
  CompletionIsAnnounced <=>
    \A i \in DOMAIN jobs : jobs[i].status = "completed" => Announced(jobs[i].rec)
BY DEF CompletionIsAnnounced, Announced

\* Where nothing is said of the remote store, nothing changes in what is kept.
LEMMA StoreUnchanged ==
  ASSUME UNCHANGED store
  PROVE  /\ StoreType => StoreType'
         /\ \A r \in Recs : Kept(r)' <=> Kept(r)
BY DEF store, StoreType, Kept, Whole

\* An upload leaves one object of a name, and what it takes the place of is marked.
LEMMA CopyKeeps ==
  ASSUME StoreType, NEW r \in Recs, NEW objects \in Leavings(r), Leaves(r, objects),
         UNCHANGED unread
  PROVE  StoreType' /\ \A s \in Recs : Kept(s) => Kept(s)'
<1>1. /\ remote' = (remote \ At(Name[r])) \cup objects
      /\ replaced' = replaced \cup ({o.of : o \in At(Name[r]) \ objects} \ {r})
  BY DEF Leaves
<1>2. /\ objects \subseteq {o \in Object : Name[o.of] = Name[r]}
      /\ \A o, p \in objects : o = p
      /\ Whole(r) => objects = At(Name[r])
  BY DEF Leavings, Copies, Written, At, Object, StoreType, Whole
<1>3. StoreType'
  <2>1. remote' \subseteq Object /\ \A o, p \in remote' : Name[o.of] = Name[p.of] => o = p
    BY <1>1, <1>2 DEF StoreType, At
  <2>2. replaced' \subseteq Recs /\ unread' \subseteq Recs
    BY <1>1 DEF StoreType, At, Object
  <2>3. QED
    BY <2>1, <2>2 DEF StoreType
<1>4. ASSUME NEW s \in Recs, Whole(s), ~Whole(s)'
      PROVE  s \in replaced'
  <2> DEFINE o == [of |-> s, kept |-> "whole"]
  <2>1. o \in remote /\ o \notin remote' /\ o.of = s
    BY <1>4 DEF Whole
  <2>2. o \in At(Name[r]) /\ o \notin objects
    BY <1>1, <2>1
  <2>3. s # r
    BY <1>2, <1>4, <2>2
  <2>4. QED
    BY <1>1, <2>1, <2>2, <2>3
<1>5. QED
  BY <1>1, <1>3, <1>4 DEF Kept

LEMMA ConstantsAre ==
  /\ Route \in Seq(Dests) /\ Honest \subseteq Dests
  /\ \A d \in Dests : \E k \in DOMAIN Route : Route[k] = d
  /\ JobAttempts \in Nat \ {0} /\ NoteAttempts \in Nat \ {0}
  /\ MaxJobs \in Nat /\ MaxCrashes \in Nat /\ MaxRetries \in Nat
BY PlatformAssumption DEF Dests, Honest, Range

LEMMA SequenceIsFunction ==
  ASSUME NEW S, NEW s \in Seq(S)
  PROVE  /\ Len(s) \in Nat /\ DOMAIN s = 1..Len(s) /\ s \in [1..Len(s) -> S]
         /\ \A k \in DOMAIN s : s[k] \in S
BY LenProperties

LEMMA FunctionIsSequence ==
  ASSUME NEW S, NEW n \in Nat, NEW f \in [1..n -> S]
  PROVE  f \in Seq(S) /\ Len(f) = n /\ DOMAIN f = 1..n
<1>1. f \in Seq(S)
  BY SeqDef
<1>2. Len(f) \in Nat /\ DOMAIN f = 1..Len(f) /\ DOMAIN f = 1..n
  BY <1>1, LenProperties
<1>3. 1..Len(f) = 1..n
  BY <1>2
<1>4. Len(f) = n
  <2>1. CASE Len(f) > n
    <3>1. Len(f) \in 1..Len(f) /\ Len(f) \notin 1..n
      BY <1>2, <2>1
    <3>2. QED
      BY <1>3, <3>1
  <2>2. CASE n > Len(f)
    <3>1. n \in 1..n /\ n \notin 1..Len(f)
      BY <1>2, <2>2
    <3>2. QED
      BY <1>3, <3>1
  <2>3. QED
    BY <1>2, <2>1, <2>2
<1>5. QED
  BY <1>1, <1>2, <1>4

LEMMA HeadTailOf ==
  ASSUME NEW S, NEW s \in Seq(S), s # << >>
  PROVE  /\ Len(s) \in Nat \ {0} /\ DOMAIN s = 1..Len(s)
         /\ Head(s) = s[1] /\ Head(s) \in S
         /\ Tail(s) \in Seq(S) /\ DOMAIN Tail(s) = 1..(Len(s) - 1)
         /\ \A j \in 1..(Len(s) - 1) : Tail(s)[j] = s[j + 1]
<1>1. Len(s) \in Nat \ {0} /\ DOMAIN s = 1..Len(s)
  BY EmptySeq, LenProperties
<1>2. Head(s) = s[1] /\ Head(s) \in S
  BY <1>1, ElementOfSeq
<1>3. Tail(s) \in Seq(S) /\ Len(Tail(s)) = Len(s) - 1
  BY <1>1
<1>4. \A j \in 1..(Len(s) - 1) : Tail(s)[j] = s[j + 1]
  BY <1>1
<1>5. DOMAIN Tail(s) = 1..(Len(s) - 1)
  BY <1>3, LenProperties
<1>6. QED
  BY <1>1, <1>2, <1>3, <1>4, <1>5

LEMMA AppendedSequence ==
  ASSUME NEW S, NEW s \in Seq(S), NEW e \in S
  PROVE  /\ Append(s, e) \in Seq(S) /\ Len(Append(s, e)) = Len(s) + 1
         /\ DOMAIN Append(s, e) = 1..(Len(s) + 1)
         /\ \A k \in DOMAIN s : k \in DOMAIN Append(s, e) /\ Append(s, e)[k] = s[k]
         /\ Append(s, e)[Len(s) + 1] = e
<1>1. /\ Append(s, e) \in Seq(S) /\ Len(Append(s, e)) = Len(s) + 1
      /\ \A k \in 1..Len(s) : Append(s, e)[k] = s[k]
      /\ Append(s, e)[Len(s) + 1] = e
  BY AppendProperties
<1>2. Len(s) \in Nat /\ DOMAIN s = 1..Len(s) /\ DOMAIN Append(s, e) = 1..(Len(s) + 1)
  BY <1>1, LenProperties
<1>3. QED
  BY <1>1, <1>2

-----------------------------------------------------------------------------
(* Notifications.                                                          *)

LEMMA NewNoteIs ==
  ASSUME NEW e \in {"archive.completed", "archive.failed"}, NEW r \in Recs
  PROVE  /\ NewNote(e, r) \in Note
         /\ NewNote(e, r).event = e /\ NewNote(e, r).rec = r
         /\ NewNote(e, r).status = "queued" /\ NewNote(e, r).attempts = 0
         /\ \A d \in Dests : NewNote(e, r).delivery[d] = "none"
BY ConstantsAre DEF NewNote, Note, NoteStatus, Delivery

LEMMA IdleNotes ==
  ASSUME NoteInv, UNCHANGED <<notes, got>>, sender' = sender \/ sender' = Silent
  PROVE  NoteInv'
<1>1. Silent \in [note : 0..Len(notes), attempts : 0..NoteAttempts,
                  delivery : Delivery, left : Seq(Dests)] /\ Silent.note = 0
  <2>1. Len(notes) \in Nat /\ << >> \in Seq(Dests) /\ 0 \in 0..NoteAttempts
    BY ConstantsAre, LenProperties, EmptySeq DEF NoteInv
  <2>2. 0 \in 0..Len(notes)
    BY <2>1
  <2>3. QED
    BY <2>1, <2>2 DEF Silent, Delivery
<1>2. QED
  BY <1>1 DEF NoteInv, SentMeansReceived, NotesHaveAttempts, DeliveriesAreReceived, Pending,
              Processing

\* A notification that is queued has been delivered to nobody.
LEMMA QueueingKeepsNotes ==
  ASSUME NoteInv, NEW e \in {"archive.completed", "archive.failed"}, NEW r \in Recs,
         Enqueue(e, r), sender' = sender
  PROVE  NoteInv'
<1> SUFFICES ASSUME notes' = Append(notes, NewNote(e, r)),
                    got' = Append(got, [d \in Honest |-> 0])
             PROVE  NoteInv'
  BY IdleNotes DEF Enqueue
<1> DEFINE nn == NewNote(e, r)
<1>1. /\ nn \in Note /\ nn.status = "queued" /\ nn.attempts = 0
      /\ \A d \in Dests : nn.delivery[d] = "none"
  BY NewNoteIs
<1> HIDE DEF nn
<1> DEFINE zeros == [d \in Honest |-> 0]
<1>2. zeros \in [Honest -> Once] /\ got' = Append(got, zeros) /\ notes' = Append(notes, nn)
  BY DEF Once, nn
<1> HIDE DEF zeros
<1>3. /\ notes \in Seq(Note) /\ Len(notes) \in Nat /\ DOMAIN notes = 1..Len(notes)
  BY LenProperties DEF NoteInv
<1>4. got \in Seq([Honest -> Once]) /\ Len(got) = Len(notes) /\ DOMAIN got = 1..Len(notes)
  BY <1>3, FunctionIsSequence DEF NoteInv
<1>5. /\ notes' \in Seq(Note) /\ Len(notes') = Len(notes) + 1
      /\ DOMAIN notes' = 1..(Len(notes) + 1)
      /\ \A k \in 1..Len(notes) : notes'[k] = notes[k]
      /\ notes'[Len(notes) + 1] = nn
  BY <1>1, <1>2, <1>3, AppendedSequence
<1>6. /\ got' \in Seq([Honest -> Once]) /\ Len(got') = Len(notes) + 1
      /\ \A k \in 1..Len(notes) : got'[k] = got[k]
  BY <1>2, <1>4, AppendedSequence
<1>7. got' \in [1..Len(notes') -> [Honest -> Once]]
  BY <1>5, <1>6, LenProperties
<1>8. sender' \in [note : 0..Len(notes'), attempts : 0..NoteAttempts,
                   delivery : Delivery, left : Seq(Dests)]
  <2>1. 0..Len(notes) \subseteq 0..Len(notes')
    BY <1>3, <1>5
  <2>2. QED
    BY <2>1 DEF NoteInv
<1>9. \A k \in DOMAIN notes' : k \in DOMAIN notes \/ k = Len(notes) + 1
  BY <1>3, <1>5
<1>10. SentMeansReceived'
  BY <1>1, <1>3, <1>5, <1>6, <1>9 DEF NoteInv, SentMeansReceived
<1>11. NotesHaveAttempts'
  BY <1>1, <1>3, <1>5, <1>9, ConstantsAre DEF NoteInv, NotesHaveAttempts, Pending, Processing
<1>12. DeliveriesAreReceived'
  <2>1. \A k \in DOMAIN notes' : \A d \in Honest :
           notes'[k].delivery[d] = "sent" => got'[k][d] > 0
    BY <1>1, <1>3, <1>5, <1>6, <1>9, ConstantsAre DEF NoteInv, DeliveriesAreReceived
  <2>2. Processing => sender.note \in 1..Len(notes)
    BY <1>3 DEF NoteInv, Processing
  <2>3. QED
    BY <1>6, <2>1, <2>2 DEF NoteInv, DeliveriesAreReceived, Processing
<1>13. QED
  BY <1>5, <1>7, <1>8, <1>10, <1>11, <1>12 DEF NoteInv

LEMMA TakeNoteKeeps ==
  ASSUME NoteInv, TakeNote
  PROVE  NoteInv'
<1>1. /\ notes \in Seq(Note) /\ Len(notes) \in Nat /\ DOMAIN notes = 1..Len(notes)
      /\ \A n \in DOMAIN notes : notes[n] \in Note
  BY LenProperties, ElementOfSeq DEF NoteInv
<1>2. PICK n \in DOMAIN notes :
        /\ Pending(n)
        /\ sender' = [note |-> n, attempts |-> notes[n].attempts,
                      delivery |-> notes[n].delivery, left |-> Route]
  BY DEF TakeNote
<1>3. UNCHANGED <<notes, got>>
  BY DEF TakeNote, tables, history
<1>4. /\ n \in 0..Len(notes) /\ notes[n].attempts \in 0..NoteAttempts
      /\ notes[n].delivery \in Delivery
  BY <1>1 DEF Note
<1>5. sender' \in [note : 0..Len(notes), attempts : 0..NoteAttempts,
                   delivery : Delivery, left : Seq(Dests)]
  BY <1>2, <1>4, ConstantsAre
<1>6. /\ sender'.note = n /\ sender'.attempts = notes[n].attempts
      /\ sender'.delivery = notes[n].delivery /\ sender'.left = Route
  BY <1>2
<1>7. QED
  BY <1>2, <1>3, <1>5, <1>6, ConstantsAre
  DEF NoteInv, SentMeansReceived, NotesHaveAttempts, DeliveriesAreReceived, Pending, Processing

\* An acceptance is never taken back: what counted one keeps it.
LEMMA AcceptanceIsCounted ==
  ASSUME NoteInv, Processing, NEW d \in Honest,
         got' = [got EXCEPT ![sender.note][d] = Again(@)]
  PROVE  /\ got' \in [1..Len(notes) -> [Honest -> Once]]
         /\ got'[sender.note][d] > 0
         /\ \A n \in 1..Len(notes) : \A e \in Honest : got[n][e] > 0 => got'[n][e] > 0
<1> DEFINE n == sender.note
<1>1. n \in 1..Len(notes) /\ got \in [1..Len(notes) -> [Honest -> Once]]
  BY LenProperties DEF NoteInv, Processing
<1>2. got[n] \in [Honest -> Once] /\ got[n][d] \in Once
  BY <1>1
<1>3. PICK k \in Once : k > 0 /\ got' = [got EXCEPT ![n] = [got[n] EXCEPT ![d] = k]]
  <2>1. Again(got[n][d]) \in Once /\ Again(got[n][d]) > 0
    BY <1>2 DEF Again, Once
  <2>2. got' = [got EXCEPT ![n] = [got[n] EXCEPT ![d] = Again(got[n][d])]]
    OBVIOUS
  <2>3. QED
    BY <2>1, <2>2
<1> HIDE DEF n
<1>4. [got[n] EXCEPT ![d] = k] \in [Honest -> Once]
  BY <1>2, <1>3
<1>5. /\ got' \in [1..Len(notes) -> [Honest -> Once]]
      /\ got'[n] = [got[n] EXCEPT ![d] = k]
      /\ \A m \in 1..Len(notes) : m # n => got'[m] = got[m]
  BY <1>1, <1>3, <1>4
<1>6. got'[n][d] = k /\ \A e \in Honest : e # d => got'[n][e] = got[n][e]
  BY <1>2, <1>5
<1>7. QED
  BY <1>3, <1>5, <1>6 DEF n

LEMMA DeliverKeeps ==
  ASSUME NoteInv, Deliver
  PROVE  NoteInv'
<1> DEFINE d == Head(sender.left)
           rest == Tail(sender.left)
<1>1. /\ Processing /\ sender.left # << >> /\ UNCHANGED notes
      /\ \/ Delivered(d) /\ sender' = [sender EXCEPT !.left = rest] /\ UNCHANGED got
         \/ /\ ~Delivered(d) /\ d \in Swallows
            /\ sender' = [sender EXCEPT !.left = rest, !.delivery[d] = "sent"]
            /\ UNCHANGED got
         \/ /\ ~Delivered(d) /\ d \in Honest
            /\ \E accepted \in BOOLEAN, error \in BOOLEAN :
                 /\ accepted \/ error
                 /\ sender' = [sender EXCEPT !.left = rest,
                                             !.delivery[d] = IF error THEN "failed" ELSE "sent"]
                 /\ got' = IF accepted THEN [got EXCEPT ![sender.note][d] = Again(@)] ELSE got
  BY DEF Deliver, tables
<1>2. /\ notes \in Seq(Note) /\ Len(notes) \in Nat /\ DOMAIN notes = 1..Len(notes)
      /\ sender.note \in 1..Len(notes)
      /\ \A n \in DOMAIN notes : notes[n] \in Note
  <2>1. notes \in Seq(Note) /\ sender.note \in 0..Len(notes) /\ sender.note # 0
    BY <1>1 DEF NoteInv, Processing
  <2>2. Len(notes) \in Nat /\ DOMAIN notes = 1..Len(notes) /\ \A n \in DOMAIN notes : notes[n] \in Note
    BY <2>1, SequenceIsFunction
  <2>3. QED
    BY <2>1, <2>2
<1>3. /\ sender \in [note : 0..Len(notes), attempts : 0..NoteAttempts,
                     delivery : Delivery, left : Seq(Dests)]
      /\ sender.left \in Seq(Dests) /\ sender.delivery \in [Dests -> {"none", "sent", "failed"}]
  BY DEF NoteInv, Delivery
<1>4. /\ d \in Dests /\ rest \in Seq(Dests)
      /\ \A k \in DOMAIN sender.left :
            sender.left[k] = d \/ \E j \in DOMAIN rest : rest[j] = sender.left[k]
  <2>1. /\ Len(sender.left) \in Nat \ {0} /\ DOMAIN sender.left = 1..Len(sender.left)
        /\ sender.left[1] = d
    BY <1>1, <1>3, HeadTailOf
  <2>2. /\ rest \in Seq(Dests) /\ DOMAIN rest = 1..(Len(sender.left) - 1)
        /\ \A j \in 1..(Len(sender.left) - 1) : rest[j] = sender.left[j + 1]
    BY <1>1, <1>3, <2>1, HeadTailOf
  <2>3. ASSUME NEW k \in DOMAIN sender.left, k # 1
        PROVE  \E j \in DOMAIN rest : rest[j] = sender.left[k]
    <3>1. k - 1 \in 1..(Len(sender.left) - 1) /\ (k - 1) + 1 = k
      BY <2>1, <2>3
    <3>2. QED
      BY <2>2, <3>1
  <2>4. d \in Dests
    BY <1>3, <2>1, ElementOfSeq
  <2>5. QED
    BY <2>1, <2>2, <2>3, <2>4
<1> HIDE DEF d, rest
\* Whatever comes of it, the destination has an outcome, and "sent" an acceptance.
<1>5. PICK o \in {"none", "sent", "failed"} :
        /\ o # "none"
        /\ sender' = [sender EXCEPT !.left = rest, !.delivery = [sender.delivery EXCEPT ![d] = o]]
        /\ got' \in [1..Len(notes) -> [Honest -> Once]]
        /\ \A n \in 1..Len(notes) : \A e \in Honest : got[n][e] > 0 => got'[n][e] > 0
        /\ d \in Honest /\ o = "sent" => got'[sender.note][d] > 0
  <2>1. CASE Delivered(d) /\ sender' = [sender EXCEPT !.left = rest] /\ UNCHANGED got
    <3>1. sender.delivery[d] = "sent"
      BY <2>1 DEF Delivered
    <3>2. sender.delivery = [sender.delivery EXCEPT ![d] = "sent"]
      BY <1>3, <3>1
    <3>3. sender' = [sender EXCEPT !.left = rest,
                                   !.delivery = [sender.delivery EXCEPT ![d] = "sent"]]
      <4>1. sender' = [sender EXCEPT !.left = rest, !.delivery = sender.delivery]
        BY <1>3, <2>1
      <4>2. QED
        BY <3>2, <4>1, Zenon
    <3>4. d \in Honest => got[sender.note][d] > 0
      BY <1>1, <1>4, <3>1 DEF NoteInv, DeliveriesAreReceived
    <3>5. QED
      BY <2>1, <3>3, <3>4 DEF NoteInv
  <2>2. CASE /\ ~Delivered(d) /\ d \in Swallows
             /\ sender' = [sender EXCEPT !.left = rest, !.delivery[d] = "sent"]
             /\ UNCHANGED got
    <3>1. d \notin Honest
      BY <2>2 DEF Honest
    <3>2. QED
      BY <1>3, <2>2, <3>1 DEF NoteInv
  <2>3. ASSUME ~Delivered(d), d \in Honest, NEW accepted \in BOOLEAN, NEW error \in BOOLEAN,
               accepted \/ error,
               sender' = [sender EXCEPT !.left = rest,
                                        !.delivery[d] = IF error THEN "failed" ELSE "sent"],
               got' = IF accepted THEN [got EXCEPT ![sender.note][d] = Again(@)] ELSE got
        PROVE  \E o \in {"none", "sent", "failed"} :
                 /\ o # "none"
                 /\ sender' = [sender EXCEPT !.left = rest,
                                             !.delivery = [sender.delivery EXCEPT ![d] = o]]
                 /\ got' \in [1..Len(notes) -> [Honest -> Once]]
                 /\ \A n \in 1..Len(notes) : \A e \in Honest :
                       got[n][e] > 0 => got'[n][e] > 0
                 /\ d \in Honest /\ o = "sent" => got'[sender.note][d] > 0
    <3> DEFINE o == IF error THEN "failed" ELSE "sent"
    <3>1. /\ got' \in [1..Len(notes) -> [Honest -> Once]]
          /\ \A n \in 1..Len(notes) : \A e \in Honest : got[n][e] > 0 => got'[n][e] > 0
          /\ accepted => got'[sender.note][d] > 0
      BY <1>1, <2>3, AcceptanceIsCounted DEF NoteInv
    <3>2. o \in {"none", "sent", "failed"} /\ o # "none" /\ (o = "sent" => accepted)
      BY <2>3
    <3>3. sender' = [sender EXCEPT !.left = rest, !.delivery = [sender.delivery EXCEPT ![d] = o]]
      BY <1>3, <2>3
    <3> HIDE DEF o
    <3>4. QED
      BY <3>1, <3>2, <3>3
  <2>4. QED
    BY <1>1, <2>1, <2>2, <2>3
<1>6. /\ sender'.note = sender.note /\ sender'.attempts = sender.attempts
      /\ sender'.left = rest /\ sender'.delivery = [sender.delivery EXCEPT ![d] = o]
  BY <1>3, <1>5
<1>7. /\ sender'.delivery[d] = o /\ \A e \in Dests : e # d => sender'.delivery[e] = sender.delivery[e]
  BY <1>3, <1>4, <1>6
<1>8. sender' \in [note : 0..Len(notes'), attempts : 0..NoteAttempts,
                   delivery : Delivery, left : Seq(Dests)]
  <2>1. [sender.delivery EXCEPT ![d] = o] \in Delivery
    BY <1>3, <1>5 DEF Delivery
  <2>2. QED
    BY <1>1, <1>3, <1>4, <1>5, <2>1
<1>9. DeliveriesAreReceived'
  <2>1. \A n \in DOMAIN notes' : \A e \in Honest :
           notes'[n].delivery[e] = "sent" => got'[n][e] > 0
    BY <1>1, <1>2, <1>5 DEF NoteInv, DeliveriesAreReceived
  <2>2. ASSUME NEW e \in Dests, sender'.delivery[e] = "none"
        PROVE  \E k \in DOMAIN sender'.left : sender'.left[k] = e
    <3>1. e # d /\ sender.delivery[e] = "none"
      BY <1>5, <1>7, <2>2
    <3>2. PICK k \in DOMAIN sender.left : sender.left[k] = e
      BY <1>1, <3>1 DEF NoteInv, DeliveriesAreReceived
    <3>3. QED
      BY <1>4, <1>6, <3>1, <3>2
  <2>3. ASSUME NEW e \in Dests, e \in Honest, sender'.delivery[e] = "sent"
        PROVE  got'[sender'.note][e] > 0
    <3>1. CASE e = d
      BY <1>5, <1>6, <1>7, <2>3, <3>1
    <3>2. CASE e # d
      <4>1. got[sender.note][e] > 0
        BY <1>1, <1>7, <2>3, <3>2 DEF NoteInv, DeliveriesAreReceived
      <4>2. QED
        BY <1>2, <1>5, <1>6, <2>3, <4>1
    <3>3. QED
      BY <3>1, <3>2
  <2>4. QED
    BY <2>1, <2>2, <2>3 DEF DeliveriesAreReceived
<1>10. SentMeansReceived'
  BY <1>1, <1>2, <1>5 DEF NoteInv, SentMeansReceived
<1>11. NotesHaveAttempts'
  BY <1>1, <1>6 DEF NoteInv, NotesHaveAttempts, Pending, Processing
<1>12. QED
  BY <1>1, <1>5, <1>8, <1>9, <1>10, <1>11 DEF NoteInv

\* One row is written; the others stay as they were.
LEMMA RowWritten ==
  ASSUME NoteInv, NEW n \in DOMAIN notes, NEW e \in Note,
         notes' = [notes EXCEPT ![n] = e], UNCHANGED got,
         sender' = sender \/ sender' = Silent,
         \A d \in Honest : e.delivery[d] = "sent" => got[n][d] > 0,
         e.status = "sent" => \A d \in Honest : got[n][d] > 0,
         e.status \in {"queued", "retry"} => e.attempts < NoteAttempts
  PROVE  NoteInv'
<1>1. /\ notes \in Seq(Note) /\ Len(notes) \in Nat /\ DOMAIN notes = 1..Len(notes)
  BY LenProperties DEF NoteInv
<1>2. /\ notes' \in Seq(Note) /\ Len(notes') = Len(notes)
      /\ \A k \in 1..Len(notes) : notes'[k] = IF k = n THEN e ELSE notes[k]
  BY <1>1, ExceptSeq
<1>3. DOMAIN notes' = DOMAIN notes
  BY <1>1, <1>2, LenProperties
<1>4. Silent \in [note : 0..Len(notes), attempts : 0..NoteAttempts,
                  delivery : Delivery, left : Seq(Dests)] /\ Silent.note = 0
  <2>1. << >> \in Seq(Dests) /\ 0 \in 0..NoteAttempts /\ 0 \in 0..Len(notes)
    BY <1>1, ConstantsAre, EmptySeq
  <2>2. QED
    BY <2>1 DEF Silent, Delivery
<1>5. sender' \in [note : 0..Len(notes'), attempts : 0..NoteAttempts,
                   delivery : Delivery, left : Seq(Dests)]
  BY <1>2, <1>4 DEF NoteInv
<1>6. SentMeansReceived' /\ NotesHaveAttempts'
  BY <1>1, <1>2, <1>3, <1>4
  DEF NoteInv, SentMeansReceived, NotesHaveAttempts, Pending, Processing
<1>7. DeliveriesAreReceived'
  BY <1>1, <1>2, <1>3, <1>4 DEF NoteInv, DeliveriesAreReceived, Processing
<1>8. QED
  BY <1>2, <1>5, <1>6, <1>7 DEF NoteInv

LEMMA FileNoteKeeps ==
  ASSUME NoteInv, FileNote
  PROVE  NoteInv'
<1> DEFINE n == sender.note
           next == sender.attempts + 1
<1>1. /\ Processing /\ sender.left = << >> /\ sender' = Silent /\ UNCHANGED got
      /\ \/ /\ Settled(sender.delivery)
            /\ notes' = [notes EXCEPT ![n].status = "sent", ![n].delivery = sender.delivery]
         \/ /\ ~Settled(sender.delivery)
            /\ notes' = [notes EXCEPT ![n].status = Verdict(next, NoteAttempts),
                                      ![n].attempts = next,
                                      ![n].delivery = sender.delivery]
  BY DEF FileNote, history
<1>2. /\ DOMAIN notes = 1..Len(notes) /\ Len(notes) \in Nat /\ n \in DOMAIN notes
      /\ notes[n] \in Note /\ notes \in [DOMAIN notes -> Note]
  BY <1>1, LenProperties, ElementOfSeq DEF NoteInv, Processing
<1>3. /\ sender.delivery \in Delivery /\ sender.attempts \in Nat
      /\ sender.attempts < NoteAttempts /\ next \in 0..NoteAttempts
  BY <1>1, ConstantsAre DEF NoteInv, NotesHaveAttempts
<1>4. \A d \in Honest : sender.delivery[d] = "sent" => got[n][d] > 0
  BY <1>1, ConstantsAre DEF NoteInv, DeliveriesAreReceived
<1>5. \A d \in Dests : sender.delivery[d] \in {"sent", "failed"}
  BY <1>1, <1>3, EmptySeq DEF NoteInv, DeliveriesAreReceived, Delivery
<1> HIDE DEF next
<1>6. CASE /\ Settled(sender.delivery)
           /\ notes' = [notes EXCEPT ![n].status = "sent", ![n].delivery = sender.delivery]
  <2> DEFINE e == [notes[n] EXCEPT !.status = "sent", !.delivery = sender.delivery]
  <2>1. /\ e \in Note /\ e.status = "sent" /\ e.delivery = sender.delivery
    BY <1>2, <1>3 DEF Note, NoteStatus
  <2>2. notes' = [notes EXCEPT ![n] = e]
    BY <1>2, <1>6
  <2>3. \A d \in Honest : got[n][d] > 0
    BY <1>4, <1>5, <1>6, ConstantsAre DEF Settled
  <2> HIDE DEF e
  <2>4. QED
    BY <1>1, <1>2, <1>4, <2>1, <2>2, <2>3, RowWritten
<1>7. CASE /\ ~Settled(sender.delivery)
           /\ notes' = [notes EXCEPT ![n].status = Verdict(next, NoteAttempts),
                                     ![n].attempts = next,
                                     ![n].delivery = sender.delivery]
  <2> DEFINE v == Verdict(next, NoteAttempts)
             e == [notes[n] EXCEPT !.status = v, !.attempts = next, !.delivery = sender.delivery]
  <2>1. v \in {"failed", "retry"} /\ (v = "retry" => next < NoteAttempts)
    BY <1>3, ConstantsAre DEF Verdict
  <2>2. notes' = [notes EXCEPT ![n] = e]
    BY <1>2, <1>7
  <2>0. e = [notes[n] EXCEPT !.status = v, !.attempts = next, !.delivery = sender.delivery]
    OBVIOUS
  <2> HIDE DEF v
  <2>3. /\ e \in Note /\ e.status = v /\ e.delivery = sender.delivery /\ e.attempts = next
    BY <1>2, <1>3, <2>1 DEF Note, NoteStatus
  <2> HIDE DEF e
  <2>4. /\ e.status = "sent" => \A d \in Honest : got[n][d] > 0
        /\ \A d \in Honest : e.delivery[d] = "sent" => got[n][d] > 0
        /\ e.status \in {"queued", "retry"} => e.attempts < NoteAttempts
    BY <1>4, <2>1, <2>3
  <2>5. QED
    BY <1>1, <1>2, <2>2, <2>3, <2>4, RowWritten
<1>8. QED
  BY <1>1, <1>6, <1>7

LEMMA RetryNoteKeeps ==
  ASSUME NoteInv, NEW n \in DOMAIN notes, RetryNote(n)
  PROVE  NoteInv'
<1> DEFINE e == [notes[n] EXCEPT !.status = "retry", !.attempts = 0]
<1>1. notes[n] \in Note /\ notes \in [DOMAIN notes -> Note]
  BY LenProperties, ElementOfSeq DEF NoteInv
<1>2. /\ notes' = [notes EXCEPT ![n] = e] /\ UNCHANGED <<got, sender>>
  BY <1>1 DEF RetryNote
<1>3. /\ e \in Note /\ e.status = "retry" /\ e.attempts = 0 /\ e.delivery = notes[n].delivery
  <2>1. 0 \in 0..NoteAttempts
    BY ConstantsAre
  <2>2. QED
    BY <1>1, <2>1 DEF Note, NoteStatus
<1> HIDE DEF e
<1>4. \A d \in Honest : e.delivery[d] = "sent" => got[n][d] > 0
  BY <1>3 DEF NoteInv, DeliveriesAreReceived
<1>5. 0 < NoteAttempts
  BY ConstantsAre
<1>6. QED
  BY <1>2, <1>3, <1>4, <1>5, RowWritten

-----------------------------------------------------------------------------
(* Archive jobs.                                                           *)

\* A notification stays what it is about, whatever becomes of its delivery.
LEMMA WordsStay ==
  ASSUME NoteInv, [Next]_vars, NEW r \in Recs, Announced(r)
  PROVE  Announced(r)'
<1> SUFFICES ASSUME "archive.completed" \in Events
             PROVE  Announced(r)'
  BY DEF Announced
<1>1. PICK n \in DOMAIN notes : notes[n].rec = r /\ notes[n].event = "archive.completed"
  BY DEF Announced
<1>2. /\ notes \in Seq(Note) /\ notes \in [DOMAIN notes -> Note]
      /\ Len(notes) \in Nat /\ DOMAIN notes = 1..Len(notes)
  BY LenProperties DEF NoteInv
<1>3. ASSUME NEW e \in Note, notes' = Append(notes, e)
      PROVE  Announced(r)'
  <2>1. n \in DOMAIN notes' /\ notes'[n] = notes[n]
    BY <1>2, <1>3, AppendedSequence
  <2>2. QED
    BY <1>1, <2>1 DEF Announced
<1>4. ASSUME UNCHANGED notes
      PROVE  Announced(r)'
  BY <1>1, <1>4 DEF Announced
<1>5. CASE UNCHANGED vars
  BY <1>4, <1>5 DEF vars, tables
<1>6. CASE Commit
  <2>1. CASE UNCHANGED notes
    BY <1>4, <2>1
  <2>2. ASSUME NEW w, notes' = Append(notes, NewNote(w.event, w.rec))
        PROVE  Announced(r)'
    <3>1. /\ Append(notes, NewNote(w.event, w.rec))[n] = notes[n]
          /\ n \in DOMAIN Append(notes, NewNote(w.event, w.rec))
      BY <1>2
    <3>2. QED
      BY <1>1, <2>2, <3>1 DEF Announced
  <2>3. QED
    BY <1>6, <2>1, <2>2 DEF Commit, Enqueue
<1>7. CASE AnnounceUpload
  <2>1. /\ Append(notes, NewNote("archive.completed", Rec))[n] = notes[n]
        /\ n \in DOMAIN Append(notes, NewNote("archive.completed", Rec))
    BY <1>2
  <2>2. notes' = Append(notes, NewNote("archive.completed", Rec))
    BY <1>7 DEF AnnounceUpload, Enqueue
  <2>3. QED
    BY <1>1, <2>1, <2>2 DEF Announced
<1>8. ASSUME NEW m \in DOMAIN notes, NEW s, NEW a, NEW d,
             notes' = [notes EXCEPT ![m] = [notes[m] EXCEPT !.status = s, !.attempts = a,
                                                            !.delivery = d]]
      PROVE  Announced(r)'
  <2>1. notes'[n].rec = notes[n].rec /\ notes'[n].event = notes[n].event
    <3>1. notes[m] \in Note
      BY <1>2
    <3> DEFINE e == [notes[m] EXCEPT !.status = s, !.attempts = a, !.delivery = d]
    <3>2. e.rec = notes[m].rec /\ e.event = notes[m].event
      BY <3>1 DEF Note
    <3>3. notes' = [notes EXCEPT ![m] = e]
      BY <1>8
    <3> HIDE DEF e
    <3>4. notes'[n] = IF n = m THEN e ELSE notes[n]
      BY <1>2, <3>3
    <3>5. QED
      BY <3>2, <3>4
  <2>2. DOMAIN notes' = DOMAIN notes
    BY <1>8
  <2>3. QED
    BY <1>1, <2>1, <2>2 DEF Announced
<1>9. CASE FileNote
  <2>1. sender.note \in DOMAIN notes
    BY <1>2, <1>9 DEF NoteInv, FileNote, Processing
  <2>2. notes[sender.note] \in Note
    BY <1>2, <2>1
  <2>3. CASE notes' = [notes EXCEPT ![sender.note].status = "sent",
                                    ![sender.note].delivery = sender.delivery]
    <3>1. notes' = [notes EXCEPT ![sender.note] =
                      [notes[sender.note] EXCEPT !.status = "sent",
                                                 !.attempts = notes[sender.note].attempts,
                                                 !.delivery = sender.delivery]]
      BY <1>2, <2>1, <2>2, <2>3 DEF Note
    <3>2. QED
      BY <1>8, <2>1, <3>1
  <2>4. CASE notes' = [notes EXCEPT
                         ![sender.note].status = Verdict(sender.attempts + 1, NoteAttempts),
                         ![sender.note].attempts = sender.attempts + 1,
                         ![sender.note].delivery = sender.delivery]
    <3>1. notes' = [notes EXCEPT ![sender.note] =
                      [notes[sender.note] EXCEPT
                         !.status = Verdict(sender.attempts + 1, NoteAttempts),
                         !.attempts = sender.attempts + 1, !.delivery = sender.delivery]]
      BY <1>2, <2>1, <2>4
    <3>2. QED
      BY <1>8, <2>1, <3>1
  <2>5. QED
    BY <1>9, <2>3, <2>4 DEF FileNote
<1>10. ASSUME NEW m \in DOMAIN notes, RetryNote(m)
       PROVE  Announced(r)'
  <2>1. notes[m] \in Note /\ notes' = [notes EXCEPT ![m].status = "retry", ![m].attempts = 0]
    BY <1>2, <1>10 DEF RetryNote
  <2>2. notes' = [notes EXCEPT ![m] = [notes[m] EXCEPT !.status = "retry", !.attempts = 0,
                                                       !.delivery = notes[m].delivery]]
    BY <1>2, <2>1 DEF Note
  <2>3. QED
    BY <1>8, <2>2
<1>11. CASE \/ \E q \in Recs : EnqueueArchive(q)
            \/ ClaimJob \/ BeginUpload \/ Upload \/ CheckSize \/ DeleteLocal
            \/ CompleteJob \/ FailJob \/ TakeNote \/ Deliver \/ Crash \/ Restart
  BY <1>4, <1>11
  DEF EnqueueArchive, ClaimJob, BeginUpload, Upload, CheckSize, DeleteLocal, CompleteJob, FailJob,
      TakeNote, Deliver, Crash, Restart, tables
<1>12. QED
  BY <1>5, <1>6, <1>7, <1>9, <1>10, <1>11 DEF Next

LEMMA JobsAre ==
  ASSUME JobInv
  PROVE  /\ jobs \in Seq(Job) /\ jobs \in [DOMAIN jobs -> Job]
         /\ Len(jobs) \in Nat /\ DOMAIN jobs = 1..Len(jobs)
         /\ \A i \in DOMAIN jobs : /\ jobs[i] \in Job /\ jobs[i].rec \in Recs
                                   /\ jobs[i].attempts \in 0..JobAttempts
         /\ arch.pc # "idle" => arch.job \in DOMAIN jobs /\ Rec \in Recs
<1>1. jobs \in Seq(Job)
  BY DEF JobInv
<1>2. /\ jobs \in [DOMAIN jobs -> Job] /\ Len(jobs) \in Nat /\ DOMAIN jobs = 1..Len(jobs)
      /\ \A i \in DOMAIN jobs : jobs[i] \in Job
  BY <1>1, SequenceIsFunction
<1>3. QED
  BY <1>1, <1>2 DEF Job, JobInv, ThreadHasJob, Rec

\* What the thread has done stays done.
LEMMA ThreadUnchanged ==
  ASSUME JobInv, UNCHANGED <<store, jobs, arch>>,
         \A r \in Recs : Announced(r) => Announced(r)'
  PROVE  ThreadHasJob'
<1>1. CASE arch.pc = "idle"
  BY <1>1 DEF JobInv, ThreadHasJob
<1>2. CASE arch.pc # "idle"
  <2>1. Rec \in Recs /\ Rec' = Rec
    BY <1>2, JobsAre DEF Rec
  <2>2. Announced(Rec) => Announced(Rec)'
    BY <2>1 DEF Announced
  <2>3. Kept(Rec) => Kept(Rec)'
    BY <2>1 DEF Kept, Whole, store
  <2>4. QED
    BY <1>2, <2>1, <2>2, <2>3 DEF JobInv, ThreadHasJob
<1>3. QED
  BY <1>1, <1>2

\* What leaves the jobs alone.
LEMMA JobsUnchanged ==
  ASSUME NoteInv, JobInv, CompletionIsAnnounced, DeadIsIdle, [Next]_vars,
         UNCHANGED <<up, disk, store, status, jobs, arch, todo>>,
         ~up => sender' = sender
  PROVE  JobInv' /\ CompletionIsAnnounced' /\ DeadIsIdle'
<1>1. \A r \in Recs : Announced(r) => Announced(r)'
  BY WordsStay
<1>2. CompletionIsAnnounced'
  BY <1>1, JobsAre, CompletionsAre DEF CompletionIsAnnounced, Announced
<1>3. ThreadHasJob'
  BY <1>1, ThreadUnchanged
<1>4. ArchivedIsKept' /\ StoreType'
  BY StoreUnchanged DEF JobInv, ArchivedIsKept, Whole, disk, store
<1>5. QED
  BY <1>2, <1>3, <1>4 DEF JobInv, JobsHaveAttempts, WritesAreBehind, DeadIsIdle, disk

LEMMA OneWrite ==
  ASSUME NEW w \in Writes, w.kind = "status" => w.status # "completed", todo' = <<w>>
  PROVE  todo' \in Seq(Writes) /\ WritesAreBehind'
<1>1. DOMAIN todo' = {1} /\ todo'[1] = w /\ todo' \in Seq(Writes)
  OBVIOUS
<1>2. QED
  BY <1>1 DEF WritesAreBehind

LEMMA EnqueueKeeps ==
  ASSUME NoteInv, JobInv, CompletionIsAnnounced, DeadIsIdle, NEW r \in Recs, EnqueueArchive(r)
  PROVE  JobInv' /\ CompletionIsAnnounced' /\ DeadIsIdle'
<1> DEFINE j == NewJob(r)
           w == StatusWrite(r, "queued")
<1>1. /\ up /\ Len(jobs) < MaxJobs /\ jobs' = Append(jobs, j) /\ todo' = <<w>>
      /\ UNCHANGED <<up, local, store, status, notes, arch, sender>>
  BY DEF EnqueueArchive, LoopFree, disk, store, history
<1>2. j \in Job /\ j.status = "queued" /\ j.attempts = 0 /\ 0 < JobAttempts /\ j.attempts < JobAttempts
  <2>1. 0 \in 0..JobAttempts /\ 0 < JobAttempts
    BY ConstantsAre
  <2>2. QED
    BY <2>1 DEF NewJob, Job, JobStatus, JobActive
<1>3. w \in Writes /\ w.status # "completed"
  BY DEF StatusWrite, Writes, JobStatus, JobActive
<1>4. todo' \in Seq(Writes) /\ WritesAreBehind'
  BY <1>1, <1>3, OneWrite
<1> HIDE DEF j, w
<1>5. /\ jobs' \in Seq(Job) /\ Len(jobs') = Len(jobs) + 1 /\ DOMAIN jobs' = 1..(Len(jobs) + 1)
      /\ \A k \in DOMAIN jobs : k \in DOMAIN jobs' /\ jobs'[k] = jobs[k]
      /\ jobs'[Len(jobs) + 1] = j
  BY <1>1, <1>2, JobsAre, AppendedSequence
<1>6. \A k \in DOMAIN jobs' : k \in DOMAIN jobs \/ jobs'[k] = j
  BY <1>5, JobsAre
<1>7. Len(jobs') <= MaxJobs
  BY <1>1, <1>5, JobsAre, ConstantsAre
<1>8. ArchivedIsKept' /\ StoreType'
  BY <1>1, <1>2, <1>5, <1>6, StoreUnchanged DEF JobInv, ArchivedIsKept, Whole, store
<1>9. JobsHaveAttempts'
  BY <1>2, <1>5, <1>6 DEF JobInv, JobsHaveAttempts
<1>10. CompletionIsAnnounced'
  BY <1>1, <1>2, <1>5, <1>6 DEF CompletionIsAnnounced
<1>11. ThreadHasJob'
  BY <1>1, <1>5 DEF JobInv, ThreadHasJob, Rec, Announced, Kept, Whole, store
<1>12. QED
  BY <1>1, <1>4, <1>5, <1>7, <1>8, <1>9, <1>10, <1>11 DEF JobInv, DeadIsIdle

LEMMA CommitKeeps ==
  ASSUME NoteInv, JobInv, CompletionIsAnnounced, DeadIsIdle, Commit
  PROVE  NoteInv' /\ JobInv' /\ CompletionIsAnnounced' /\ DeadIsIdle'
<1> DEFINE w == Head(todo)
<1>1. /\ up /\ todo # << >> /\ todo' = Tail(todo)
      /\ UNCHANGED <<up, local, store, jobs, arch, sender>>
      /\ \/ /\ w.kind = "status" /\ status' = [status EXCEPT ![w.rec] = w.status]
            /\ UNCHANGED <<notes, got>>
         \/ /\ w.kind = "note" /\ Enqueue(w.event, w.rec)
            /\ UNCHANGED status
  BY DEF Commit, disk, store
<1>2. [Next]_vars
  BY DEF Next
<1>3. /\ Len(todo) \in Nat \ {0} /\ DOMAIN todo = 1..Len(todo)
      /\ w = todo[1] /\ w \in Writes
      /\ todo' \in Seq(Writes) /\ DOMAIN todo' = 1..(Len(todo) - 1)
      /\ \A j \in 1..(Len(todo) - 1) : todo'[j] = todo[j + 1]
  BY <1>1, HeadTailOf DEF JobInv
<1>4. WritesAreBehind'
  <2>1. \A j \in 1..(Len(todo) - 1) : j + 1 \in DOMAIN todo
    BY <1>3
  <2>2. QED
    BY <1>3, <2>1 DEF JobInv, WritesAreBehind
<1>5. w.kind = "status" => w.rec \in Recs /\ w.status \in JobStatus /\ w.status # "completed"
  <2>1. 1 \in DOMAIN todo
    BY <1>3
  <2>2. QED
    BY <1>3, <2>1 DEF Writes, JobInv, WritesAreBehind
<1>6. w.kind = "note" => w.rec \in Recs /\ w.event \in {"archive.completed", "archive.failed"}
  BY <1>3 DEF Writes
<1> HIDE DEF w
<1>7. NoteInv'
  <2>1. CASE UNCHANGED <<notes, got>>
    BY <1>1, <2>1, IdleNotes
  <2>2. CASE w.kind = "note" /\ Enqueue(w.event, w.rec)
    BY <1>1, <1>6, <2>2, QueueingKeepsNotes
  <2>3. QED
    BY <1>1, <2>1, <2>2
<1>8. /\ status' \in [Recs -> JobStatus \cup {"none"}]
      /\ \A r \in Recs : status'[r] = "completed" => status[r] = "completed"
  BY <1>1, <1>5 DEF JobInv
<1>9. \A r \in Recs : Announced(r) => Announced(r)'
  BY <1>2, WordsStay
<1>10. CompletionIsAnnounced'
  BY <1>1, <1>9, JobsAre, CompletionsAre DEF CompletionIsAnnounced, Announced
<1>11. ThreadHasJob'
  BY <1>1, <1>9, ThreadUnchanged
<1>12. ArchivedIsKept' /\ StoreType' /\ JobsHaveAttempts'
  BY <1>1, <1>8, StoreUnchanged DEF JobInv, ArchivedIsKept, JobsHaveAttempts, Whole, store
<1>13. QED
  BY <1>1, <1>3, <1>4, <1>7, <1>8, <1>10, <1>11, <1>12 DEF JobInv, DeadIsIdle

\* One job is written; the others stay as they were.
LEMMA JobWritten ==
  ASSUME JobInv, NEW i \in DOMAIN jobs, NEW e \in Job, e.rec = jobs[i].rec,
         jobs' = [jobs EXCEPT ![i] = e]
  PROVE  /\ jobs' \in Seq(Job) /\ Len(jobs') = Len(jobs) /\ DOMAIN jobs' = DOMAIN jobs
         /\ jobs'[i] = e /\ \A k \in DOMAIN jobs : k # i => jobs'[k] = jobs[k]
         /\ \A k \in DOMAIN jobs : jobs'[k].rec = jobs[k].rec
<1>1. jobs \in Seq(Job) /\ DOMAIN jobs = 1..Len(jobs)
  BY JobsAre
<1>2. /\ jobs' \in Seq(Job) /\ Len(jobs') = Len(jobs)
      /\ \A k \in 1..Len(jobs) : jobs'[k] = IF k = i THEN e ELSE jobs[k]
  BY <1>1, ExceptSeq
<1>3. QED
  BY <1>1, <1>2, LenProperties

LEMMA ClaimKeeps ==
  ASSUME NoteInv, JobInv, CompletionIsAnnounced, DeadIsIdle, ClaimJob
  PROVE  JobInv' /\ CompletionIsAnnounced' /\ DeadIsIdle'
<1>1. PICK i \in DOMAIN jobs :
        /\ Waiting(i)
        /\ jobs' = [jobs EXCEPT ![i].status = "uploading"]
        /\ arch' = [pc |-> "claimed", job |-> i, delete |-> FALSE, verify |-> FALSE]
  BY DEF ClaimJob, Idle
<1>2. up /\ UNCHANGED <<up, local, store, status, notes, sender, todo>>
  BY DEF ClaimJob, LoopFree, disk, store, history
<1> DEFINE e == [jobs[i] EXCEPT !.status = "uploading"]
<1>3. jobs' = [jobs EXCEPT ![i] = e] /\ jobs[i] \in Job
  BY <1>1, JobsAre
<1>4. e \in Job /\ e.rec = jobs[i].rec /\ e.status = "uploading" /\ e.attempts = jobs[i].attempts
  BY <1>3 DEF Job, JobStatus, JobActive
<1> HIDE DEF e
<1>5. /\ jobs' \in Seq(Job) /\ Len(jobs') = Len(jobs) /\ DOMAIN jobs' = DOMAIN jobs
      /\ jobs'[i] = e /\ \A k \in DOMAIN jobs : k # i => jobs'[k] = jobs[k]
      /\ \A k \in DOMAIN jobs : jobs'[k].rec = jobs[k].rec
  BY <1>3, <1>4, JobWritten
<1>6. i \in 0..MaxJobs /\ Len(jobs') <= MaxJobs
  BY <1>5, JobsAre, ConstantsAre DEF JobInv
<1>7. ArchivedIsKept' /\ StoreType' /\ CompletionIsAnnounced'
  <2>1. \A k \in DOMAIN jobs : jobs'[k].status = "completed" => jobs[k].status = "completed"
    BY <1>4, <1>5
  <2>2. ArchivedIsKept' /\ StoreType'
    BY <1>2, <1>5, <2>1, StoreUnchanged DEF JobInv, ArchivedIsKept, Whole, store
  <2>3. CompletionIsAnnounced'
    BY <1>2, <1>5, <2>1 DEF CompletionIsAnnounced
  <2>4. QED
    BY <2>2, <2>3
<1>8. JobsHaveAttempts'
  <2>1. jobs[i].attempts < JobAttempts
    BY <1>1 DEF Waiting, JobInv, JobsHaveAttempts, JobActive
  <2>2. QED
    BY <1>4, <1>5, <2>1 DEF JobInv, JobsHaveAttempts
<1>9. ThreadHasJob'
  BY <1>1, <1>4, <1>5 DEF ThreadHasJob
<1>10. QED
  BY <1>1, <1>2, <1>5, <1>6, <1>7, <1>8, <1>9 DEF JobInv, DeadIsIdle, WritesAreBehind, ArchType

LEMMA StepTaken ==
  ASSUME JobInv, NEW pc \in {"copied", "filed", "announced", "done", "broken"},
         arch' = [arch EXCEPT !.pc = pc]
  PROVE  arch' \in ArchType /\ arch'.pc = pc /\ arch'.job = arch.job
BY DEF JobInv, ArchType

\* The thread goes from one step to the next: its job and the other jobs stay.
LEMMA ThreadGoesOn ==
  ASSUME NoteInv, JobInv, CompletionIsAnnounced, DeadIsIdle, [Next]_vars,
         up, UNCHANGED <<up, jobs, sender, todo>>, arch.pc # "idle",
         NEW pc \in {"copying", "copied", "filed", "announced", "done", "broken"},
         arch' \in ArchType, arch'.pc = pc, arch'.job = arch.job,
         local' \subseteq local, \A r \in local : r \in local' \/ Kept(r)',
         StoreType', \A r \in Recs : Kept(r) => Kept(r)',
         status' \in [Recs -> JobStatus \cup {"none"}],
         \A r \in Recs : status'[r] = "completed" => status[r] = "completed" \/ Kept(r)',
         pc \in {"filed", "announced", "done"} => Kept(Rec)',
         pc \in {"announced", "done"} => Announced(Rec)'
  PROVE  JobInv' /\ CompletionIsAnnounced' /\ DeadIsIdle'
<1>1. ThreadHasJob'
  BY DEF JobInv, ThreadHasJob
<1>2. CompletionIsAnnounced'
  <2>1. \A r \in Recs : Announced(r) => Announced(r)'
    BY WordsStay
  <2>2. QED
    BY <2>1, JobsAre, CompletionsAre DEF CompletionIsAnnounced, Announced
<1>3. ArchivedIsKept'
  <2>1. \A r \in Recs :
          /\ status'[r] = "completed" => Kept(r)'
          /\ (\E i \in DOMAIN jobs' : jobs'[i].rec = r /\ jobs'[i].status = "completed")
                => Kept(r)'
          /\ r \in local' \/ Kept(r)'
    BY ArchivedIs DEF JobInv
  <2>2. QED
    BY <2>1 DEF ArchivedIsKept, Kept
<1>4. QED
  BY <1>1, <1>2, <1>3 DEF JobInv, DeadIsIdle, JobsHaveAttempts, WritesAreBehind

LEMMA BeginUploadKeeps ==
  ASSUME NoteInv, JobInv, CompletionIsAnnounced, DeadIsIdle, BeginUpload
  PROVE  JobInv' /\ CompletionIsAnnounced' /\ DeadIsIdle'
<1>1. /\ [Next]_vars /\ up /\ arch.pc # "idle"
      /\ UNCHANGED <<up, jobs, sender, todo, local, store>>
  BY DEF BeginUpload, Next, disk, store, history
<1>2. PICK pc \in {"copying", "broken"} :
        arch' \in ArchType /\ arch'.pc = pc /\ arch'.job = arch.job
  <2>1. CASE arch' = [arch EXCEPT !.pc = "broken"]
    BY <2>1, StepTaken
  <2>2. ASSUME NEW delete \in BOOLEAN, NEW verify \in BOOLEAN,
               arch' = [arch EXCEPT !.pc = "copying", !.delete = delete, !.verify = verify]
        PROVE  arch' \in ArchType /\ arch'.pc = "copying" /\ arch'.job = arch.job
    BY <2>2 DEF JobInv, ArchType
  <2>3. QED
    BY <2>1, <2>2 DEF BeginUpload
<1>3. /\ status' \in [Recs -> JobStatus \cup {"none"}]
      /\ \A r \in Recs : status'[r] = "completed" => status[r] = "completed"
  BY DEF BeginUpload, JobInv, JobStatus, JobActive
<1>4. StoreType' /\ \A r \in Recs : Kept(r) => Kept(r)'
  BY <1>1, StoreUnchanged DEF JobInv
<1>5. QED
  BY <1>1, <1>2, <1>3, <1>4, ThreadGoesOn DEF JobInv

LEMMA UploadKeeps ==
  ASSUME NoteInv, JobInv, CompletionIsAnnounced, DeadIsIdle, Upload
  PROVE  JobInv' /\ CompletionIsAnnounced' /\ DeadIsIdle'
<1>1. /\ [Next]_vars /\ up /\ arch.pc # "idle"
      /\ UNCHANGED <<up, jobs, sender, todo, local, status, unread>>
  BY DEF Upload, Next, tables
<1>2. PICK objects \in Leavings(Rec), pc \in {"copied", "broken"} :
        Leaves(Rec, objects) /\ arch' = [arch EXCEPT !.pc = pc]
  BY DEF Upload, Leavings, Copies
<1>3. StoreType' /\ \A r \in Recs : Kept(r) => Kept(r)'
  BY <1>1, <1>2, JobsAre, CopyKeeps DEF JobInv
<1>4. arch' \in ArchType /\ arch'.pc = pc /\ arch'.job = arch.job
  BY <1>2, StepTaken
<1>5. QED
  BY <1>1, <1>2, <1>3, <1>4, ThreadGoesOn DEF JobInv

LEMMA CheckSizeKeeps ==
  ASSUME NoteInv, JobInv, CompletionIsAnnounced, DeadIsIdle, CheckSize
  PROVE  JobInv' /\ CompletionIsAnnounced' /\ DeadIsIdle'
<1>1. /\ [Next]_vars /\ up /\ arch.pc # "idle" /\ Rec \in Recs
      /\ UNCHANGED <<up, jobs, sender, todo, local, remote>>
  BY JobsAre DEF CheckSize, Next, disk
<1>2. PICK pc \in {"filed", "broken"} :
        /\ arch' = [arch EXCEPT !.pc = pc]
        /\ \/ pc = "broken" /\ UNCHANGED <<status, unread, replaced>>
           \/ /\ arch.verify => Whole(Rec)
              /\ status' = [status EXCEPT ![Rec] = "completed"]
              /\ unread' = IF arch.verify THEN unread \ {Rec} ELSE unread \cup {Rec}
              /\ replaced' = IF arch.verify THEN replaced \ {Rec} ELSE replaced
  BY DEF CheckSize, SizesAgree
<1>3. StoreType'
  BY <1>1, <1>2 DEF JobInv, StoreType
<1>4. /\ \A r \in Recs : Kept(r) => Kept(r)'
      /\ \A r \in Recs : pc = "filed" /\ r = Rec => Kept(r)'
  BY <1>1, <1>2 DEF Kept, Whole
<1>5. /\ status' \in [Recs -> JobStatus \cup {"none"}]
      /\ \A r \in Recs : status'[r] = "completed" => status[r] = "completed" \/ Kept(r)'
  <2>1. CASE UNCHANGED status
    BY <2>1 DEF JobInv
  <2>2. CASE status' = [status EXCEPT ![Rec] = "completed"] /\ (arch.verify => Whole(Rec))
             /\ unread' = IF arch.verify THEN unread \ {Rec} ELSE unread \cup {Rec}
    <3>1. \A r \in Recs : r = Rec => Kept(r)'
      BY <1>1, <2>2 DEF Kept, Whole
    <3>2. QED
      BY <1>1, <2>2, <3>1 DEF JobInv, JobStatus
  <2>3. QED
    BY <1>2, <2>1, <2>2
<1>6. arch' \in ArchType /\ arch'.pc = pc /\ arch'.job = arch.job
  BY <1>2, StepTaken
<1>7. pc = "filed" => Kept(Rec)'
  BY <1>1, <1>4, <1>6 DEF Rec
<1>8. QED
  BY <1>1, <1>3, <1>4, <1>5, <1>6, <1>7, ThreadGoesOn DEF JobInv

LEMMA AnnounceKeeps ==
  ASSUME NoteInv, JobInv, CompletionIsAnnounced, DeadIsIdle, AnnounceUpload
  PROVE  NoteInv' /\ JobInv' /\ CompletionIsAnnounced' /\ DeadIsIdle'
<1> DEFINE e == NewNote("archive.completed", Rec)
<1>1. /\ [Next]_vars /\ up /\ arch.pc = "filed"
      /\ UNCHANGED <<up, jobs, sender, todo, local, store, status>>
      /\ Enqueue("archive.completed", Rec)
      /\ arch' = [arch EXCEPT !.pc = "announced"]
  BY DEF AnnounceUpload, Next, disk, store
<1>2. Rec \in Recs /\ Kept(Rec)
  BY <1>1, JobsAre DEF JobInv, ThreadHasJob
<1>3. NoteInv'
  BY <1>1, <1>2, QueueingKeepsNotes
<1>4. arch' \in ArchType /\ arch'.pc = "announced" /\ arch'.job = arch.job
  BY <1>1, StepTaken
<1>5. Rec' = Rec
  BY <1>1, <1>4 DEF Rec
<1>6. Announced(Rec)'
  <2> SUFFICES ASSUME "archive.completed" \in Events
               PROVE  Announced(Rec)'
    BY DEF Announced
  <2>1. e \in Note /\ e.rec = Rec /\ e.event = "archive.completed" /\ notes \in Seq(Note)
    BY <1>2, NewNoteIs DEF NoteInv
  <2>2. notes' = Append(notes, e)
    BY <1>1 DEF Enqueue
  <2> HIDE DEF e
  <2>3. Len(notes) \in Nat /\ Len(notes) + 1 \in DOMAIN notes' /\ notes'[Len(notes) + 1] = e
    BY <2>1, <2>2, AppendedSequence, LenProperties
  <2>4. QED
    BY <1>5, <2>1, <2>3 DEF Announced
<1>7. StoreType' /\ \A r \in Recs : Kept(r) => Kept(r)'
  BY <1>1, StoreUnchanged DEF JobInv
<1>8. Kept(Rec)'
  BY <1>1, <1>2, <1>5 DEF Kept, Whole, store
<1>9. JobInv' /\ CompletionIsAnnounced' /\ DeadIsIdle'
  BY <1>1, <1>4, <1>6, <1>7, <1>8, ThreadGoesOn DEF JobInv
<1>10. QED
  BY <1>3, <1>9

LEMMA DeleteLocalKeeps ==
  ASSUME NoteInv, JobInv, CompletionIsAnnounced, DeadIsIdle, DeleteLocal
  PROVE  JobInv' /\ CompletionIsAnnounced' /\ DeadIsIdle'
<1>1. /\ [Next]_vars /\ up /\ arch.pc = "announced"
      /\ UNCHANGED <<up, jobs, sender, todo, store, status, notes>>
  BY DEF DeleteLocal, Next, tables, store, history
<1>2. PICK pc \in {"done", "broken"} : arch' = [arch EXCEPT !.pc = pc]
  BY DEF DeleteLocal
<1>3. Rec \in Recs /\ Kept(Rec) /\ Announced(Rec)
  BY <1>1, JobsAre DEF JobInv, ThreadHasJob
<1>4. StoreType' /\ \A r \in Recs : Kept(r) => Kept(r)'
  BY <1>1, StoreUnchanged DEF JobInv
<1>5. local' = local \/ local' = local \ {Rec}
  BY DEF DeleteLocal
<1>6. local' \subseteq local /\ \A r \in local : r \in local' \/ Kept(r)'
  <2>1. \A r \in Recs : r = Rec => Kept(r)
    BY <1>3
  <2>2. local \subseteq Recs
    BY DEF JobInv
  <2>3. QED
    BY <1>4, <1>5, <2>1, <2>2
<1>7. arch' \in ArchType /\ arch'.pc = pc /\ arch'.job = arch.job
  BY <1>2, StepTaken
<1>8. Kept(Rec)' /\ Announced(Rec)'
  <2>1. Rec' = Rec
    BY <1>1, <1>7 DEF Rec
  <2>2. QED
    BY <1>1, <1>3, <2>1 DEF Announced, Kept, Whole, store
<1>9. QED
  BY <1>1, <1>2, <1>4, <1>6, <1>7, <1>8, ThreadGoesOn DEF JobInv

LEMMA CompleteKeeps ==
  ASSUME NoteInv, JobInv, CompletionIsAnnounced, DeadIsIdle, CompleteJob
  PROVE  JobInv' /\ CompletionIsAnnounced' /\ DeadIsIdle'
<1> DEFINE i == arch.job
           e == [jobs[i] EXCEPT !.status = "completed"]
<1>1. /\ up /\ arch.pc = "done" /\ jobs' = [jobs EXCEPT ![i].status = "completed"] /\ arch' = Idle
      /\ UNCHANGED <<up, local, store, status, notes, sender, todo>>
  BY DEF CompleteJob, LoopFree, disk, store, history
<1>2. /\ i \in DOMAIN jobs /\ jobs[i] \in Job /\ Kept(jobs[i].rec)
      /\ Announced(jobs[i].rec)
  BY <1>1, JobsAre DEF JobInv, ThreadHasJob, Rec
<1>3. jobs' = [jobs EXCEPT ![i] = e]
  BY <1>1, JobsAre
<1> HIDE DEF i
<1>4. e \in Job /\ e.rec = jobs[i].rec /\ e.status = "completed"
  BY <1>2 DEF Job, JobStatus
<1> HIDE DEF e
<1>5. /\ jobs' \in Seq(Job) /\ Len(jobs') = Len(jobs) /\ DOMAIN jobs' = DOMAIN jobs
      /\ jobs'[i] = e /\ \A k \in DOMAIN jobs : k # i => jobs'[k] = jobs[k]
      /\ \A k \in DOMAIN jobs : jobs'[k].rec = jobs[k].rec
  BY <1>2, <1>3, <1>4, JobWritten
<1>6. \A k \in DOMAIN jobs : jobs'[k].status = "completed" => jobs[k].status = "completed" \/ k = i
  BY <1>5
<1>7. ArchivedIsKept' /\ StoreType'
  BY <1>1, <1>2, <1>5, <1>6, StoreUnchanged DEF JobInv, ArchivedIsKept, Kept, Whole, store
<1>8. CompletionIsAnnounced'
  <2>1. ASSUME NEW k \in DOMAIN jobs, jobs'[k].status = "completed"
        PROVE  Announced(jobs[k].rec)
    BY <1>2, <1>6, <2>1 DEF CompletionIsAnnounced, Announced
  <2>2. QED
    BY <1>1, <1>5, <2>1 DEF CompletionIsAnnounced, Announced
<1>9. JobsHaveAttempts'
  BY <1>4, <1>5 DEF JobInv, JobsHaveAttempts, JobActive
<1>10. /\ ThreadHasJob'
       /\ arch' \in ArchType
  BY <1>1, ConstantsAre DEF ThreadHasJob, Idle, ArchType
<1>11. QED
  BY <1>1, <1>5, <1>7, <1>8, <1>9, <1>10 DEF JobInv, DeadIsIdle, WritesAreBehind

LEMMA FailKeeps ==
  ASSUME NoteInv, JobInv, CompletionIsAnnounced, DeadIsIdle, FailJob
  PROVE  JobInv' /\ CompletionIsAnnounced' /\ DeadIsIdle'
<1> DEFINE i == arch.job
           n == jobs[i].attempts + 1
           v == Verdict(n, JobAttempts)
           e == [jobs[i] EXCEPT !.status = v, !.attempts = n]
           w == StatusWrite(Rec, v)
           x == NoteWrite(Rec, "archive.failed")
<1>1. /\ up /\ arch.pc = "broken" /\ arch' = Idle
      /\ jobs' = [jobs EXCEPT ![i].status = v, ![i].attempts = n]
      /\ todo' = <<w>> \o IF v = "failed" THEN <<x>> ELSE << >>
      /\ UNCHANGED <<up, local, store, status, notes, sender>>
  BY DEF FailJob, LoopFree, disk, store, history
<1>2. /\ i \in DOMAIN jobs /\ jobs[i] \in Job /\ jobs[i].status = "uploading" /\ Rec \in Recs
  BY <1>1, JobsAre DEF JobInv, ThreadHasJob
<1>3. n \in 0..JobAttempts
  BY <1>2, JobsAre, ConstantsAre DEF JobInv, JobsHaveAttempts, JobActive
<1>4. v \in {"failed", "retry"} /\ (v = "retry" => n < JobAttempts)
  BY <1>3, ConstantsAre DEF Verdict
<1>5. jobs' = [jobs EXCEPT ![i] = e]
  BY <1>1, JobsAre
<1>6. w \in Writes /\ x \in Writes /\ w.status = v
  BY <1>2, <1>4 DEF StatusWrite, NoteWrite, Writes, JobStatus, JobActive
<1>7. x.kind = "note" /\ w.kind = "status"
  BY DEF StatusWrite, NoteWrite
<1>8. e = [jobs[i] EXCEPT !.status = v, !.attempts = n]
  OBVIOUS
<1> HIDE DEF i, n, v, w, x
<1>9. e \in Job /\ e.rec = jobs[i].rec /\ e.status = v /\ e.attempts = n
  BY <1>2, <1>3, <1>4 DEF Job, JobStatus, JobActive
<1> HIDE DEF e
<1>10. /\ jobs' \in Seq(Job) /\ Len(jobs') = Len(jobs) /\ DOMAIN jobs' = DOMAIN jobs
       /\ jobs'[i] = e /\ \A k \in DOMAIN jobs : k # i => jobs'[k] = jobs[k]
       /\ \A k \in DOMAIN jobs : jobs'[k].rec = jobs[k].rec
  BY <1>2, <1>5, <1>9, JobWritten
<1>11. \A k \in DOMAIN jobs : jobs'[k].status = "completed" => jobs[k].status = "completed"
  BY <1>4, <1>9, <1>10
<1>12. ArchivedIsKept' /\ StoreType' /\ CompletionIsAnnounced'
  <2>1. ArchivedIsKept' /\ StoreType'
    BY <1>1, <1>10, <1>11, StoreUnchanged DEF JobInv, ArchivedIsKept, Whole, store
  <2>2. CompletionIsAnnounced'
    BY <1>1, <1>10, <1>11 DEF CompletionIsAnnounced
  <2>3. QED
    BY <2>1, <2>2
<1>13. JobsHaveAttempts'
  BY <1>4, <1>9, <1>10 DEF JobInv, JobsHaveAttempts, JobActive
<1>14. todo' \in Seq(Writes) /\ WritesAreBehind'
  <2> DEFINE s == <<w>>
             t == <<x>>
  <2>1. /\ s \in Seq(Writes) /\ Len(s) = 1 /\ s[1] = w
        /\ t \in Seq(Writes) /\ Len(t) = 1 /\ t[1] = x
    BY <1>6
  <2>2. todo' = s \/ todo' = s \o t
    <3>1. s \o << >> = s
      BY <2>1, ConcatEmptySeq
    <3>2. QED
      BY <1>1, <3>1
  <2> HIDE DEF s, t
  <2>3. CASE todo' = s
    <3>1. DOMAIN todo' = 1..1 /\ todo'[1] = w
      BY <2>1, <2>3, LenProperties
    <3>2. QED
      BY <1>4, <1>6, <2>1, <2>3, <3>1 DEF WritesAreBehind
  <2>4. CASE todo' = s \o t
    <3>1. /\ todo' \in Seq(Writes) /\ Len(todo') = 2
          /\ \A k \in 1..2 : todo'[k] = IF k <= 1 THEN s[k] ELSE t[k - 1]
      BY <2>1, <2>4, ConcatProperties
    <3>2. DOMAIN todo' = {1, 2} /\ todo'[1] = w /\ todo'[2] = x
      BY <2>1, <3>1, LenProperties
    <3>3. QED
      BY <1>4, <1>6, <1>7, <3>1, <3>2 DEF WritesAreBehind
  <2>5. QED
    BY <2>2, <2>3, <2>4
<1>15. /\ ThreadHasJob'
       /\ arch' \in ArchType
  BY <1>1, ConstantsAre DEF ThreadHasJob, Idle, ArchType
<1>16. QED
  BY <1>1, <1>10, <1>12, <1>13, <1>14, <1>15 DEF JobInv, DeadIsIdle

LEMMA CrashKeeps ==
  ASSUME NoteInv, JobInv, CompletionIsAnnounced, DeadIsIdle, Crash
  PROVE  NoteInv' /\ JobInv' /\ CompletionIsAnnounced' /\ DeadIsIdle'
<1>1. /\ up' = FALSE /\ arch' = Idle /\ sender' = Silent /\ todo' = << >>
      /\ UNCHANGED <<local, status, jobs, notes, got>>
      /\ UNCHANGED unread
      /\ \/ UNCHANGED store
         \/ arch.pc = "copying" /\ \E objects \in Leavings(Rec) : Leaves(Rec, objects)
  BY DEF Crash, tables, store
<1>2. NoteInv'
  BY <1>1, IdleNotes
<1>3. StoreType' /\ \A r \in Recs : Kept(r) => Kept(r)'
  BY <1>1, StoreUnchanged, JobsAre, CopyKeeps DEF JobInv
<1>4. ArchivedIsKept'
  <2>1. \A r \in Recs :
          /\ status'[r] = "completed" => Kept(r)'
          /\ (\E i \in DOMAIN jobs' : jobs'[i].rec = r /\ jobs'[i].status = "completed")
                => Kept(r)'
          /\ r \in local' \/ Kept(r)'
    BY <1>1, <1>3, ArchivedIs DEF JobInv
  <2>2. QED
    BY <2>1 DEF ArchivedIsKept, Kept
<1>5. todo' \in Seq(Writes) /\ WritesAreBehind'
  BY <1>1, EmptySeq DEF WritesAreBehind
<1>6. /\ ThreadHasJob'
      /\ arch' \in ArchType
  BY <1>1, ConstantsAre DEF ThreadHasJob, Idle, ArchType
<1>7. CompletionIsAnnounced' /\ JobsHaveAttempts'
  BY <1>1 DEF JobInv, CompletionIsAnnounced, JobsHaveAttempts
<1>8. QED
  BY <1>1, <1>2, <1>3, <1>4, <1>5, <1>6, <1>7 DEF JobInv, DeadIsIdle

LEMMA RestartKeeps ==
  ASSUME NoteInv, JobInv, CompletionIsAnnounced, DeadIsIdle, Restart
  PROVE  JobInv' /\ CompletionIsAnnounced' /\ DeadIsIdle'
<1> DEFINE cut == {i \in DOMAIN jobs : Interrupted(i)}
<1>1. /\ ~up /\ up' = TRUE /\ UNCHANGED <<local, store, notes, arch, sender, todo>>
      /\ jobs' = [i \in DOMAIN jobs |->
                    IF i \in cut THEN [jobs[i] EXCEPT !.status = "retry"] ELSE jobs[i]]
      /\ status' = [r \in Recs |->
                      IF \E i \in cut : jobs[i].rec = r THEN "queued" ELSE status[r]]
  BY DEF Restart, disk, store, history
<1>2. \A i \in DOMAIN jobs :
        /\ jobs'[i] \in Job /\ jobs'[i].rec = jobs[i].rec
        /\ jobs'[i].attempts = jobs[i].attempts
        /\ jobs'[i].status = jobs[i].status \/ (jobs[i].status \in JobActive /\ jobs'[i].status = "retry")
  <2> SUFFICES ASSUME NEW i \in DOMAIN jobs
               PROVE  /\ jobs'[i] \in Job /\ jobs'[i].rec = jobs[i].rec
                      /\ jobs'[i].attempts = jobs[i].attempts
                      /\ \/ jobs'[i].status = jobs[i].status
                         \/ jobs[i].status \in JobActive /\ jobs'[i].status = "retry"
    OBVIOUS
  <2>1. jobs[i] \in Job
    BY JobsAre
  <2>2. CASE i \notin cut
    BY <1>1, <2>1, <2>2
  <2>3. CASE i \in cut
    <3>1. jobs'[i] = [jobs[i] EXCEPT !.status = "retry"] /\ jobs[i].status \in JobActive
      BY <1>1, <2>3 DEF Interrupted, JobActive
    <3>2. QED
      BY <2>1, <3>1 DEF Job, JobStatus, JobActive
  <2>4. QED
    BY <2>2, <2>3
<1>3. jobs' \in Seq(Job) /\ Len(jobs') = Len(jobs) /\ DOMAIN jobs' = DOMAIN jobs
  <2>1. Len(jobs) \in Nat /\ jobs' \in [1..Len(jobs) -> Job]
    BY <1>1, <1>2, JobsAre
  <2>2. QED
    BY <2>1, FunctionIsSequence
<1>4. /\ status' \in [Recs -> JobStatus \cup {"none"}]
      /\ \A r \in Recs : status'[r] = "completed" => status[r] = "completed"
  BY <1>1 DEF JobInv, JobStatus, JobActive
<1>5. \A k \in DOMAIN jobs : jobs'[k].status = "completed" => jobs[k].status = "completed"
  BY <1>2
<1>6. ArchivedIsKept' /\ StoreType'
  BY <1>1, <1>2, <1>3, <1>4, <1>5, StoreUnchanged DEF JobInv, ArchivedIsKept, Whole, store
<1>7. CompletionIsAnnounced'
  BY <1>1, <1>2, <1>3, <1>5 DEF CompletionIsAnnounced
<1>8. JobsHaveAttempts'
  <2>1. \A k \in DOMAIN jobs : jobs'[k].status \in JobActive => jobs[k].status \in JobActive
    BY <1>2
  <2>2. QED
    BY <1>2, <1>3, <2>1 DEF JobInv, JobsHaveAttempts
<1>9. ThreadHasJob'
  BY <1>1 DEF DeadIsIdle, ThreadHasJob, Idle
<1>10. QED
  BY <1>1, <1>3, <1>4, <1>6, <1>7, <1>8, <1>9 DEF JobInv, DeadIsIdle, WritesAreBehind

-----------------------------------------------------------------------------
(* The invariant.                                                          *)

LEMMA InitEstablishes ==
  ASSUME Init
  PROVE  PlatformIInv
<1>1. /\ up = TRUE /\ \E gone \in SUBSET Before : local = Recs \ gone
      /\ remote = {[of |-> r, kept |-> "whole"] : r \in Before}
      /\ status = [r \in Recs |-> IF r \in Before THEN "completed" ELSE "none"]
      /\ jobs = << >> /\ notes = << >> /\ got = << >>
      /\ arch = Idle /\ sender = Silent /\ todo = << >>
      /\ unread = {} /\ replaced = {} /\ spent = [crashes |-> 0, retries |-> 0]
  BY DEF Init
<1>2. /\ Len(notes) = 0 /\ notes \in Seq(Note) /\ DOMAIN notes = {}
      /\ Len(jobs) = 0 /\ jobs \in Seq(Job) /\ DOMAIN jobs = {}
      /\ todo \in Seq(Writes) /\ DOMAIN todo = {}
      /\ << >> \in Seq(Dests) /\ DOMAIN got = {} /\ got \in Seq([Honest -> Once]) /\ Len(got) = 0
  BY <1>1, EmptySeq
<1>3. got \in [1..Len(notes) -> [Honest -> Once]]
  BY <1>2, LenProperties
<1>4. sender \in [note : 0..Len(notes), attempts : 0..NoteAttempts,
                  delivery : Delivery, left : Seq(Dests)] /\ sender.note = 0
  <2>1. 0 \in 0..Len(notes) /\ 0 \in 0..NoteAttempts
    BY <1>2, ConstantsAre
  <2>2. QED
    BY <1>1, <1>2, <2>1 DEF Silent, Delivery
<1>5. NoteInv
  BY <1>2, <1>3, <1>4
  DEF NoteInv, SentMeansReceived, NotesHaveAttempts, DeliveriesAreReceived, Processing
<1>6. ArchivedIsKept /\ StoreType
  <2>1. \A r \in Before : Whole(r)
    BY <1>1 DEF Whole
  <2>2. ArchivedIsKept
    BY <1>1, <1>2, <2>1 DEF ArchivedIsKept
  <2>3. StoreType
    BY <1>1, PlatformAssumption DEF StoreType, Object
  <2>4. QED
    BY <2>2, <2>3
<1>7. /\ arch \in ArchType
      /\ ThreadHasJob
  BY <1>1, ConstantsAre DEF ThreadHasJob, Idle, ArchType
<1>8. JobInv
  BY <1>1, <1>2, <1>6, <1>7, ConstantsAre
  DEF JobInv, JobsHaveAttempts, WritesAreBehind, JobStatus
<1>9. spent \in SpentType
  BY <1>1, ConstantsAre DEF SpentType
<1>10. QED
  BY <1>1, <1>2, <1>5, <1>8, <1>9, InvariantParts DEF DeadIsIdle, CompletionIsAnnounced

LEMMA SpentStays ==
  ASSUME spent \in SpentType, [Next]_vars
  PROVE  spent' \in SpentType
<1>1. CASE UNCHANGED spent
  BY <1>1
<1>2. ASSUME NEW n \in DOMAIN notes, RetryNote(n)
      PROVE  spent' \in SpentType
  <2>1. spent' = [spent EXCEPT !.retries = spent.retries + 1] /\ spent.retries < MaxRetries
    BY <1>2 DEF RetryNote
  <2>2. spent.retries + 1 \in 0..MaxRetries
    BY <2>1, ConstantsAre DEF SpentType
  <2>3. QED
    BY <2>1, <2>2 DEF SpentType
<1>3. CASE Crash
  <2>1. spent' = [spent EXCEPT !.crashes = spent.crashes + 1] /\ spent.crashes < MaxCrashes
    BY <1>3 DEF Crash
  <2>2. spent.crashes + 1 \in 0..MaxCrashes
    BY <2>1, ConstantsAre DEF SpentType
  <2>3. QED
    BY <2>1, <2>2 DEF SpentType
<1>4. QED
  BY <1>1, <1>2, <1>3
  DEF Next, vars, history, EnqueueArchive, Commit, ClaimJob, BeginUpload, Upload, CheckSize,
      AnnounceUpload, DeleteLocal, CompleteJob, FailJob, TakeNote, Deliver, FileNote, Restart

LEMMA NextKeeps ==
  ASSUME PlatformIInv, [Next]_vars
  PROVE  PlatformIInv'
<1>1. /\ NoteInv /\ JobInv /\ spent \in SpentType /\ DeadIsIdle /\ CompletionIsAnnounced
  BY InvariantParts
<1>2. spent' \in SpentType
  BY <1>1, SpentStays
<1> DEFINE Preserved == NoteInv' /\ JobInv' /\ CompletionIsAnnounced' /\ DeadIsIdle'
<1>3. ASSUME UNCHANGED vars
      PROVE  Preserved
  <2>1. UNCHANGED <<notes, got, sender, up, disk, store, status, jobs, arch, todo>>
    BY <1>3 DEF vars, tables, history, disk, store
  <2>2. QED
    BY <1>1, <2>1, IdleNotes, JobsUnchanged
<1>4. ASSUME NEW r \in Recs, EnqueueArchive(r)
      PROVE  Preserved
  <2>1. UNCHANGED <<notes, got, sender>>
    BY <1>4 DEF EnqueueArchive, history
  <2>2. QED
    BY <1>1, <1>4, <2>1, IdleNotes, EnqueueKeeps
<1>5. ASSUME Commit
      PROVE  Preserved
  BY <1>1, <1>5, CommitKeeps
<1>6. ASSUME ClaimJob
      PROVE  Preserved
  <2>1. UNCHANGED <<notes, got, sender>>
    BY <1>6 DEF ClaimJob, history
  <2>2. QED
    BY <1>1, <1>6, <2>1, IdleNotes, ClaimKeeps
<1>7. ASSUME BeginUpload
      PROVE  Preserved
  <2>1. UNCHANGED <<notes, got, sender>>
    BY <1>7 DEF BeginUpload, history
  <2>2. QED
    BY <1>1, <1>7, <2>1, IdleNotes, BeginUploadKeeps
<1>8. ASSUME Upload
      PROVE  Preserved
  <2>1. UNCHANGED <<notes, got, sender>>
    BY <1>8 DEF Upload, history, tables
  <2>2. QED
    BY <1>1, <1>8, <2>1, IdleNotes, UploadKeeps
<1>9. ASSUME CheckSize
      PROVE  Preserved
  <2>1. UNCHANGED <<notes, got, sender>>
    BY <1>9 DEF CheckSize, history
  <2>2. QED
    BY <1>1, <1>9, <2>1, IdleNotes, CheckSizeKeeps
<1>10. ASSUME AnnounceUpload
      PROVE  Preserved
  BY <1>1, <1>10, AnnounceKeeps
<1>11. ASSUME DeleteLocal
      PROVE  Preserved
  <2>1. UNCHANGED <<notes, got, sender>>
    BY <1>11 DEF DeleteLocal, history, tables
  <2>2. QED
    BY <1>1, <1>11, <2>1, IdleNotes, DeleteLocalKeeps
<1>12. ASSUME CompleteJob
      PROVE  Preserved
  <2>1. UNCHANGED <<notes, got, sender>>
    BY <1>12 DEF CompleteJob, history
  <2>2. QED
    BY <1>1, <1>12, <2>1, IdleNotes, CompleteKeeps
<1>13. ASSUME FailJob
      PROVE  Preserved
  <2>1. UNCHANGED <<notes, got, sender>>
    BY <1>13 DEF FailJob, history
  <2>2. QED
    BY <1>1, <1>13, <2>1, IdleNotes, FailKeeps
<1>14. ASSUME TakeNote
      PROVE  Preserved
  <2>1. up /\ UNCHANGED <<up, disk, store, status, jobs, arch, todo>>
    BY <1>14 DEF TakeNote, LoopFree, tables, disk, store, history
  <2>2. QED
    BY <1>1, <1>14, <2>1, TakeNoteKeeps, JobsUnchanged
<1>15. ASSUME Deliver
      PROVE  Preserved
  <2>1. up /\ UNCHANGED <<up, disk, store, status, jobs, arch, todo>>
    BY <1>15 DEF Deliver, tables, disk, store
  <2>2. QED
    BY <1>1, <1>15, <2>1, DeliverKeeps, JobsUnchanged
<1>16. ASSUME FileNote
      PROVE  Preserved
  <2>1. up /\ UNCHANGED <<up, disk, store, status, jobs, arch, todo>>
    BY <1>16 DEF FileNote, LoopFree, disk, store, history
  <2>2. QED
    BY <1>1, <1>16, <2>1, FileNoteKeeps, JobsUnchanged
<1>17. ASSUME NEW n \in DOMAIN notes, RetryNote(n)
       PROVE  Preserved
  <2>1. up /\ UNCHANGED <<up, disk, store, status, jobs, arch, todo>>
    BY <1>17 DEF RetryNote, LoopFree, disk, store
  <2>2. QED
    BY <1>1, <1>17, <2>1, RetryNoteKeeps, JobsUnchanged
<1>18. ASSUME Crash
      PROVE  Preserved
  BY <1>1, <1>18, CrashKeeps
<1>19. ASSUME Restart
      PROVE  Preserved
  <2>1. UNCHANGED <<notes, got, sender>>
    BY <1>19 DEF Restart, history
  <2>2. QED
    BY <1>1, <1>19, <2>1, IdleNotes, RestartKeeps
<1>20. Preserved
  BY <1>3, <1>4, <1>5, <1>6, <1>7, <1>8, <1>9, <1>10, <1>11, <1>12, <1>13, <1>14, <1>15, <1>16,
     <1>17, <1>18, <1>19
  DEF Next
<1>21. QED
  BY <1>2, <1>20 DEF PlatformIInv, NoteInv, JobInv, PlatformTypeOK, SpentType, StoreType, ArchType

-----------------------------------------------------------------------------
(* The theorems.                                                           *)

\* Whatever the loops, their threads, the users and the crashes do, each of them
\* leaves behind what the next one relies on (ArchiveQueue and NotificationQueue
\* of operations_platform_v3.py).
THEOREM QueuesAreSafe == PlatformSpec => []PlatformIInv
<1>1. Init => PlatformIInv
  BY InitEstablishes
<1>2. PlatformIInv /\ [Next]_vars => PlatformIInv'
  BY NextKeeps
<1>3. QED
  BY <1>1, <1>2, PTL DEF PlatformSpec

\* What the catalogue or a job calls archived is whole in the remote store, and no
\* file leaves its folder before that (_archive_once), whatever names the recordings
\* share and whatever the settings say: but for what was archived with verify_size
\* off, and what another recording's upload took the place of.
THEOREM ArchivedMediaIsKept == PlatformSpec => []PlatformInv
<1>1. PlatformIInv => PlatformInv
  BY DEF PlatformIInv, PlatformInv
<1>2. QED
  BY <1>1, QueuesAreSafe, PTL

\* A completed archive job was announced, wherever the application died between
\* the thread's last step and the loop's.
THEOREM CompletionsAreAnnounced == PlatformSpec => []CompletionIsAnnounced
<1>1. PlatformIInv => CompletionIsAnnounced
  BY DEF PlatformIInv
<1>2. QED
  BY <1>1, QueuesAreSafe, PTL

\* A notification that is filed as sent was accepted by every destination that
\* reports its failures, over all its attempts, retries and crashes.
THEOREM SentNotesWereReceived == PlatformSpec => []SentMeansReceived
<1>1. PlatformIInv => SentMeansReceived
  BY DEF PlatformIInv
<1>2. QED
  BY <1>1, QueuesAreSafe, PTL
=============================================================================
