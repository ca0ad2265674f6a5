---------------------- MODULE SegmentedRecordingProofs ----------------------
(***************************************************************************)
(* Machine-checked proofs about SegmentedRecording, for any number of      *)
(* sessions, segments and batches.                                         *)
(***************************************************************************)
EXTENDS SegmentedRecording, WellFoundedInduction, TLAPS

Recorders == [stopped : BOOLEAN, recording : BOOLEAN, proc : MaybeSession,
              file : MaybeSession, inflight : BOOLEAN]
Batches == [of : MaybeSession, todo : SUBSET Segments, good : SUBSET Segments]

-----------------------------------------------------------------------------
LEMMA MinIsMember == ASSUME NEW S, S \subseteq Nat, S # {} PROVE Min(S) \in S
<1>1. PICK x \in S : \A y \in S : ~(<<y, x>> \in OpToRel(<, Nat))
  BY WFMin, NatLessThanWellFounded, Zenon
<1>2. \A y \in S : x =< y
  <2>1. SUFFICES ASSUME NEW y \in S PROVE ~(y < x)
    BY SMT
  <2>2. <<y, x>> \in Nat \X Nat /\ ~(<<y, x>> \in OpToRel(<, Nat))
    BY <1>1
  <2>3. QED
    BY <2>2, SMT DEF OpToRel
<1>3. QED
  BY <1>2, Zenon DEF Min

LEMMA MinOfSessions ==
  ASSUME NEW S \in SUBSET Sessions, S # {} PROVE Min(S) \in Sessions
<1>1. S \subseteq Nat
  BY SegmentAssumption DEF Sessions
<1>2. QED
  BY <1>1, MinIsMember

LEMMA NoSessionIsNone == NoSession \notin Sessions
BY SegmentAssumption DEF NoSession, Sessions

\* Asking for a batch adds one, with the mark, or does nothing.
LEMMA QueueBatchKeeps ==
  ASSUME batch \in [1..MaxBatches -> Batches], NEW s \in Sessions, NEW r \in Recorders,
         r.inflight => \E b \in 1..MaxBatches : batch[b].of # NoSession,
         QueueBatch(s, r)
  PROVE  /\ batch' \in [1..MaxBatches -> Batches]
         /\ rm' \in {r, [r EXCEPT !.inflight = TRUE]}
         /\ MarkHasSession'
<1>1. CASE r.inflight
  BY <1>1 DEF QueueBatch, MarkHasSession
<1>2. CASE ~r.inflight
  <2> DEFINE b == Min(Idle)
             new == [of |-> s, todo |-> Listed(s), good |-> {}]
  <2>1. /\ Idle # {}
        /\ rm' = [r EXCEPT !.inflight = TRUE]
        /\ batch' = [batch EXCEPT ![b] = new]
    BY <1>2 DEF QueueBatch
  <2>2. Idle \subseteq 1..MaxBatches
    BY DEF Idle
  <2>3. b \in 1..MaxBatches
    <3>1. Idle \subseteq Nat
      BY <2>2, SegmentAssumption
    <3>2. QED
      BY <2>1, <2>2, <3>1, MinIsMember
  <2>4. new \in Batches /\ new.of # NoSession
    BY NoSessionIsNone DEF Batches, MaybeSession, Listed
  <2> HIDE DEF b, new
  <2>5. QED
    BY <2>1, <2>3, <2>4 DEF MarkHasSession
<1>3. QED
  BY <1>1, <1>2 DEF Recorders

LEMMA SegInitEstablishes == SegInit => SegInv
<1> SUFFICES ASSUME SegInit PROVE SegInv
  OBVIOUS
<1> USE DEF SegInit, StoppedFsm, NoWatch, NoHalt
<1>1. SegTypeOK
  BY DEF SegTypeOK, MaybeSession, NoBatch
<1>2. BornIsWatched /\ HandlesAreRegistered /\ FlagIsBacked /\ WatchIsAttended
  BY DEF BornIsWatched, HandlesAreRegistered, FlagIsBacked, WatchIsAttended
<1>3. WatchedStopIsHeld /\ MarkHasSession
  BY DEF WatchedStopIsHeld, MarkHasSession
<1>4. QED
  BY <1>1, <1>2, <1>3 DEF SegInv

\* The parts of the invariant that the files and the batches have no say in.
SchedulingInv ==
    /\ BornIsWatched
    /\ HandlesAreRegistered
    /\ FlagIsBacked
    /\ WatchIsAttended
    /\ WatchedStopIsHeld

LEMMA SchedulingKept ==
  ASSUME SegInv, UNCHANGED <<fsm, rm, watch, respawn, halt, loop>>
  PROVE  SchedulingInv'
BY DEF SegInv, SchedulingInv, BornIsWatched, HandlesAreRegistered, FlagIsBacked,
       WatchIsAttended, WatchedStopIsHeld

LEMMA EncoderKeeps ==
  ASSUME SegInv, NEW s \in Sessions, NextSegment(s) \/ EncoderEnds(s)
  PROVE  SegInv'
<1>1. SegTypeOK'
  <2>1. CASE NextSegment(s)
    BY <2>1 DEF SegInv, SegTypeOK, NextSegment
  <2>2. CASE EncoderEnds(s)
    BY <2>2 DEF SegInv, SegTypeOK, EncoderEnds
  <2>3. QED
    BY <2>1, <2>2
<1>2. SchedulingInv'
  BY SchedulingKept DEF NextSegment, EncoderEnds
<1>3. MarkHasSession'
  BY DEF SegInv, MarkHasSession, NextSegment, EncoderEnds
<1>4. QED
  BY <1>1, <1>2, <1>3 DEF SegInv, SchedulingInv

LEMMA BatchKeeps ==
  ASSUME SegInv, NEW b \in 1..MaxBatches, BatchStep(b)
  PROVE  SegInv'
<1>1. CASE EncodeNext(b)
  <2> DEFINE i == Min(batch[b].todo)
  <2>1. /\ batch \in [1..MaxBatches -> Batches]
        /\ seg \in [Sessions -> [Segments -> {"none", "open", "closed", "removed"}]]
        /\ out \in [Sessions -> [Segments -> {"none", "failed", "part", "whole"}]]
    BY DEF SegInv, SegTypeOK, Batches
  <2>2. batch[b].todo \subseteq Segments /\ batch[b].todo # {}
    BY <1>1, <2>1 DEF EncodeNext, Batches
  <2>3. i \in Segments
    <3>1. batch[b].todo \subseteq Nat
      BY <2>2, SegmentAssumption DEF Segments
    <3>2. QED
      BY <2>2, <3>1, MinIsMember
  <2> HIDE DEF i
  <2>4. PICK good \in {batch[b].good, batch[b].good \cup {i}}, o \in {"none", "failed", "part", "whole"} :
          /\ batch' = [batch EXCEPT ![b].todo = batch[b].todo \ {i}, ![b].good = good]
          /\ out' = [out EXCEPT ![batch[b].of][i] = o]
          /\ seg' = Removed(batch[b].of, batch[b].todo \ {i}, good)
    <3>1. PICK ok \in BOOLEAN :
            LET good == IF ok THEN batch[b].good \cup {i} ELSE batch[b].good IN
            /\ out' = [out EXCEPT ![batch[b].of][i] =
                          Better(@, Encoded(batch[b].of, i, ok))]
            /\ batch' = [batch EXCEPT ![b].todo = batch[b].todo \ {i}, ![b].good = good]
            /\ seg' = Removed(batch[b].of, batch[b].todo \ {i}, good)
      BY <1>1 DEF EncodeNext, i
    <3>2. CASE batch[b].of \in Sessions
      <4>1. Better(out[batch[b].of][i], Encoded(batch[b].of, i, ok))
              \in {"none", "failed", "part", "whole"}
        BY <2>1, <2>3, <3>2 DEF Better, Encoded
      <4>2. QED
        BY <3>1, <4>1
    <3>3. CASE batch[b].of \notin Sessions
      <4>1. out' = out /\ out = [out EXCEPT ![batch[b].of][i] = "none"]
        BY <2>1, <3>1, <3>3
      <4>2. QED
        BY <3>1, <4>1
    <3>4. QED
      BY <3>2, <3>3
  <2>5. batch' \in [1..MaxBatches -> Batches] /\ \A c \in 1..MaxBatches : batch'[c].of = batch[c].of
    <3> DEFINE row == [batch[b] EXCEPT !.todo = batch[b].todo \ {i}, !.good = good]
    <3>1. batch[b] \in Batches /\ good \in SUBSET Segments
      BY <2>1, <2>3, <2>4 DEF Batches
    <3>2. row \in Batches /\ row.of = batch[b].of
      BY <2>2, <3>1 DEF Batches
    <3>3. batch' = [batch EXCEPT ![b] = row]
      BY <2>4
    <3> HIDE DEF row
    <3>4. QED
      BY <2>1, <3>2, <3>3
  <2>6. seg' \in [Sessions -> [Segments -> {"none", "open", "closed", "removed"}]]
    BY <2>1, <2>4 DEF Removed
  <2>7. out' \in [Sessions -> [Segments -> {"none", "failed", "part", "whole"}]]
    BY <2>1, <2>4
  <2>8. UNCHANGED <<fsm, rm, watch, respawn, halt, loop, enc, disturbed>>
    BY <1>1 DEF EncodeNext
  <2>9. SegTypeOK'
    BY <2>5, <2>6, <2>7, <2>8 DEF SegInv, SegTypeOK, Batches
  <2>10. MarkHasSession'
    BY <2>5, <2>8 DEF SegInv, MarkHasSession
  <2>11. QED
    BY <2>8, <2>9, <2>10, SchedulingKept DEF SegInv, SchedulingInv
<1>2. CASE BatchDone(b)
  <2> USE <1>2 DEF BatchDone
  <2>1. SegTypeOK'
    <3>1. rm' \in Recorders
      BY DEF SegInv, SegTypeOK, Recorders
    <3>2. NoBatch \in Batches
      BY DEF NoBatch, Batches, MaybeSession
    <3>3. batch' \in [1..MaxBatches -> Batches]
      BY <3>2 DEF SegInv, SegTypeOK, Batches
    <3>4. QED
      BY <3>1, <3>3 DEF SegInv, SegTypeOK, Recorders, Batches
  <2>2. /\ rm'.recording = rm.recording /\ rm'.proc = rm.proc /\ rm'.file = rm.file
        /\ ~rm'.inflight
    BY DEF SegInv, SegTypeOK
  <2>3. SchedulingInv' /\ MarkHasSession'
    BY <2>2 DEF SegInv, SchedulingInv, BornIsWatched, HandlesAreRegistered, FlagIsBacked,
                WatchIsAttended, WatchedStopIsHeld, MarkHasSession
  <2>4. QED
    BY <2>1, <2>3 DEF SegInv, SchedulingInv
<1>3. QED
  BY <1>1, <1>2 DEF BatchStep

LEMMA LoopKeeps ==
  ASSUME SegInv, NEW s \in Sessions, LoopStep(s)
  PROVE  SegInv'
<1> USE NoSessionIsNone DEF SegInv
<1>1. CASE LoopEnters(s)
  <2> USE <1>1 DEF LoopEnters
  <2>1. SegTypeOK'
    <3>1. rm' \in Recorders
      BY DEF SegTypeOK, Recorders
    <3>2. loop' \in [Sessions -> {"unused", "born"} \cup Running \cup Over]
      BY DEF SegTypeOK, Running
    <3>3. QED
      BY <3>1, <3>2 DEF SegTypeOK, Recorders
  <2>2. watch.session = s /\ rm' = [rm EXCEPT !.recording = TRUE]
    BY DEF BornIsWatched
  <2>3. \A t \in Sessions : loop'[t] = IF t = s THEN "spawning" ELSE loop[t]
    BY DEF SegTypeOK
  <2>4. FlagIsBacked'
    BY <2>2 DEF FlagIsBacked
  <2>5. BornIsWatched' /\ WatchIsAttended' /\ WatchedStopIsHeld' /\ MarkHasSession'
    BY <2>3 DEF BornIsWatched, WatchIsAttended, WatchedStopIsHeld, MarkHasSession, SegTypeOK
  <2>6. HandlesAreRegistered'
    BY <2>3 DEF HandlesAreRegistered, Registered, Running, SegTypeOK, MaybeSession
  <2>7. QED
    BY <2>1, <2>4, <2>5, <2>6
<1>2. CASE LoopRegisters(s)
  <2> USE <1>2 DEF LoopRegisters
  <2>1. SegTypeOK'
    <3>1. rm' \in Recorders
      BY DEF SegTypeOK, Recorders, MaybeSession
    <3>2. /\ loop' \in [Sessions -> {"unused", "born"} \cup Running \cup Over]
          /\ enc' \in [Sessions -> {"none", "alive", "gone"}]
      BY DEF SegTypeOK, Running
    <3>3. QED
      BY <3>1, <3>2 DEF SegTypeOK, Recorders
  <2>2. \A t \in Sessions : loop'[t] = IF t = s THEN "recording" ELSE loop[t]
    BY DEF SegTypeOK
  <2>3. HandlesAreRegistered' /\ FlagIsBacked'
    BY <2>2 DEF HandlesAreRegistered, FlagIsBacked, Registered, Running, SegTypeOK
  <2>4. BornIsWatched' /\ WatchIsAttended' /\ WatchedStopIsHeld' /\ MarkHasSession'
    BY <2>2 DEF BornIsWatched, WatchIsAttended, WatchedStopIsHeld, MarkHasSession, SegTypeOK
  <2>5. QED
    BY <2>1, <2>3, <2>4
<1>3. CASE LaunchFails(s)
  <2> USE <1>3 DEF LaunchFails
  <2>1. SegTypeOK'
    BY DEF SegTypeOK, Over
  <2>2. \A t \in Sessions : loop'[t] = IF t = s THEN "broken" ELSE loop[t]
    BY DEF SegTypeOK
  <2>3. HandlesAreRegistered' /\ FlagIsBacked'
    BY <2>2 DEF HandlesAreRegistered, FlagIsBacked, Registered, Running, SegTypeOK, MaybeSession
  <2>4. BornIsWatched' /\ WatchIsAttended' /\ WatchedStopIsHeld' /\ MarkHasSession'
    BY <2>2 DEF BornIsWatched, WatchIsAttended, WatchedStopIsHeld, MarkHasSession
  <2>5. QED
    BY <2>1, <2>3, <2>4
<1>4. CASE LoopSeesStop(s) \/ LoopSeesEnd(s)
  <2>1. /\ loop[s] \in Registered
        /\ UNCHANGED <<fsm, rm, watch, respawn, halt, enc, seg, out, batch, disturbed>>
    BY <1>4 DEF LoopSeesStop, LoopSeesEnd, Registered, Running
  <2>2. PICK next \in Registered : loop' = [loop EXCEPT ![s] = next]
    BY <1>4 DEF LoopSeesStop, LoopSeesEnd, Registered, Running
  <2>3. SegTypeOK'
    BY <2>1, <2>2 DEF SegTypeOK, Registered
  <2>4. \A t \in Sessions : loop'[t] = IF t = s THEN next ELSE loop[t]
    BY <2>2 DEF SegTypeOK
  <2>5. HandlesAreRegistered' /\ FlagIsBacked'
    BY <2>1, <2>4 DEF HandlesAreRegistered, FlagIsBacked, SegTypeOK, MaybeSession
  <2>6. BornIsWatched' /\ WatchIsAttended' /\ WatchedStopIsHeld' /\ MarkHasSession'
    BY <2>1, <2>4 DEF BornIsWatched, WatchIsAttended, WatchedStopIsHeld, MarkHasSession,
                      Registered, Running
  <2>7. QED
    BY <2>3, <2>5, <2>6
<1>5. CASE LoopQueues(s)
  <2> USE <1>5 DEF LoopQueues
  <2>1. \A t \in Sessions : loop'[t] = IF t = s THEN "leaving" ELSE loop[t]
    BY DEF SegTypeOK
  <2>2. /\ batch' \in [1..MaxBatches -> Batches]
        /\ rm' \in {rm, [rm EXCEPT !.inflight = TRUE]}
        /\ MarkHasSession'
    <3>1. rm \in Recorders /\ batch \in [1..MaxBatches -> Batches]
      BY DEF SegTypeOK, Recorders, Batches
    <3>2. QED
      BY <3>1, QueueBatchKeeps DEF MarkHasSession
  <2>3. SegTypeOK'
    <3>1. rm' \in Recorders
      BY <2>2 DEF SegTypeOK, Recorders
    <3>2. loop' \in [Sessions -> {"unused", "born"} \cup Running \cup Over]
      BY DEF SegTypeOK, Running
    <3>3. QED
      BY <2>2, <3>1, <3>2 DEF SegTypeOK, Recorders, Batches
  <2>4. rm'.recording = rm.recording /\ rm'.proc = rm.proc /\ rm'.file = rm.file
    BY <2>2 DEF SegTypeOK
  <2>5. HandlesAreRegistered' /\ FlagIsBacked'
    BY <2>1, <2>4 DEF HandlesAreRegistered, FlagIsBacked, Registered, Running, SegTypeOK, MaybeSession
  <2>6. BornIsWatched' /\ WatchIsAttended' /\ WatchedStopIsHeld'
    BY <2>1 DEF BornIsWatched, WatchIsAttended, WatchedStopIsHeld
  <2>7. QED
    BY <2>2, <2>3, <2>5, <2>6
<1>6. CASE LoopLeaves(s)
  <2> USE <1>6 DEF LoopLeaves, Forgotten
  <2>1. SegTypeOK'
    <3>1. rm' \in Recorders
      BY DEF SegTypeOK, Recorders, MaybeSession
    <3>2. QED
      BY <3>1 DEF SegTypeOK, Over, Recorders
  <2>2. /\ rm'.proc = NoSession /\ rm'.file = NoSession /\ ~rm'.recording
        /\ rm'.inflight = rm.inflight
    BY DEF SegTypeOK
  <2>3. \A t \in Sessions : loop'[t] = IF t = s THEN "done" ELSE loop[t]
    BY DEF SegTypeOK
  <2>4. BornIsWatched' /\ WatchIsAttended' /\ WatchedStopIsHeld'
    BY <2>3 DEF BornIsWatched, WatchIsAttended, WatchedStopIsHeld
  <2>5. HandlesAreRegistered' /\ FlagIsBacked' /\ MarkHasSession'
    BY <2>2 DEF HandlesAreRegistered, FlagIsBacked, MarkHasSession
  <2>6. QED
    BY <2>1, <2>4, <2>5
<1>7. QED
  BY <1>1, <1>2, <1>3, <1>4, <1>5, <1>6 DEF LoopStep

\* The end of an attempt leaves no flag, and a respawn unless it was a stop.
LEMMA AttemptEnds ==
  ASSUME SegInv, EndWatch, UNCHANGED <<halt, loop>>, NEW r \in Recorders,
         \A s \in Sessions : loop[s] = "born" => watch.session # s,
         r.proc \in {NoSession, rm.proc}, r.file \in {NoSession, rm.file},
         rm' \in {AfterAttempt(r), [AfterAttempt(r) EXCEPT !.inflight = TRUE]}
  PROVE  SchedulingInv'
<1>1. /\ ~rm'.recording
      /\ rm'.proc \in {NoSession, rm.proc}
      /\ rm'.file \in {NoSession, rm.file}
  BY DEF AfterAttempt, Stopped, Watching, Recorders
<1>2. HandlesAreRegistered' /\ FlagIsBacked'
  BY <1>1 DEF SegInv, HandlesAreRegistered, FlagIsBacked
<1>3. BornIsWatched'
  BY DEF SegInv, BornIsWatched, EndWatch, NoWatch
<1>4. WatchIsAttended' /\ WatchedStopIsHeld'
  BY DEF SegInv, SegTypeOK, WatchIsAttended, WatchedStopIsHeld, EndWatch, Rested, StoppedFsm, WatchingFsm
<1>5. QED
  BY <1>2, <1>3, <1>4 DEF SchedulingInv

LEMMA AttemptTypes ==
  ASSUME SegInv, NEW r \in Recorders
  PROVE  /\ AfterAttempt(r) \in Recorders
         /\ AfterAttempt(r).inflight = r.inflight
         /\ EndWatch => /\ fsm' \in [state : {"STOPPED", "WATCHING", "RECORDING"}, stop : BOOLEAN]
                        /\ watch' = NoWatch
                        /\ respawn' \in BOOLEAN
<1>1. AfterAttempt(r) \in Recorders /\ AfterAttempt(r).inflight = r.inflight
  BY DEF AfterAttempt, Stopped, Watching, Recorders
<1>2. Rested \in [state : {"STOPPED", "WATCHING", "RECORDING"}, stop : BOOLEAN]
  BY DEF Rested, StoppedFsm, WatchingFsm
<1>3. respawn \in BOOLEAN /\ fsm.stop \in BOOLEAN
  BY DEF SegInv, SegTypeOK
<1>4. QED
  BY <1>1, <1>2, <1>3, Zenon DEF EndWatch

\* The types of a step that ends an attempt and leaves the sessions alone.
LEMMA AttemptEndTypes ==
  ASSUME SegInv, EndWatch, rm' \in Recorders, batch' \in [1..MaxBatches -> Batches],
         UNCHANGED <<halt, loop, enc, seg, out, disturbed>>
  PROVE  SegTypeOK'
<1>1. /\ fsm' \in [state : {"STOPPED", "WATCHING", "RECORDING"}, stop : BOOLEAN]
      /\ watch' = NoWatch
      /\ respawn' \in BOOLEAN
  <2>1. rm \in Recorders
    BY DEF SegInv, SegTypeOK, Recorders
  <2>2. QED
    BY <2>1, AttemptTypes
<1>2. /\ NoWatch \in [pc : {"none", "born", "meta", "inside", "detached"},
                      session : MaybeSession, cancelled : BOOLEAN]
      /\ (NoWatch.session # NoSession) <=> (NoWatch.pc \in {"inside", "detached"})
  BY DEF NoWatch, MaybeSession
<1> HIDE DEF NoWatch
<1>3. QED
  BY <1>1, <1>2 DEF SegInv, SegTypeOK, Recorders, Batches

LEMMA WatchKeeps == ASSUME SegInv, WatchStep PROVE SegInv'
<1> USE NoSessionIsNone
<1>a. rm \in Recorders /\ batch \in [1..MaxBatches -> Batches]
  BY DEF SegInv, SegTypeOK, Recorders, Batches
<1>b. watch.pc \notin {"inside", "detached"} => \A s \in Sessions : loop[s] # "born"
  BY DEF SegInv, SegTypeOK, BornIsWatched
<1>1. CASE WatchBegins
  <2> USE <1>1 DEF WatchBegins, SegInv
  <2>1. /\ fsm' = IF fsm.stop THEN StoppedFsm ELSE WatchingFsm
        /\ watch' = IF fsm.stop THEN NoWatch ELSE [watch EXCEPT !.pc = "meta"]
        /\ rm' = IF fsm.stop THEN Stopped(rm) ELSE Watching(rm)
    OBVIOUS
  <2>2. /\ rm' \in Recorders /\ ~rm'.recording /\ rm'.inflight = rm.inflight
        /\ rm'.proc = rm.proc /\ rm'.file = rm.file
    BY <1>a, <2>1 DEF Stopped, Watching, Recorders
  <2>3. /\ watch' \in [pc : {"none", "meta"}, session : {NoSession}, cancelled : BOOLEAN]
        /\ ~fsm.stop => watch'.pc = "meta"
    BY <2>1 DEF NoWatch, SegTypeOK
  <2>4. SegTypeOK'
    BY <2>1, <2>2, <2>3 DEF SegTypeOK, StoppedFsm, WatchingFsm, MaybeSession, Recorders
  <2>5. BornIsWatched' /\ HandlesAreRegistered' /\ FlagIsBacked' /\ MarkHasSession'
    BY <1>b, <2>2 DEF BornIsWatched, HandlesAreRegistered, FlagIsBacked, MarkHasSession
  <2>6. WatchIsAttended' /\ WatchedStopIsHeld'
    BY <2>1, <2>3 DEF WatchIsAttended, WatchedStopIsHeld, StoppedFsm, WatchingFsm
  <2>7. QED
    BY <2>4, <2>5, <2>6
<1>2. CASE WatchFindsNothing \/ WatchIsCancelled
  <2>1. /\ EndWatch
        /\ watch.pc = "meta"
        /\ UNCHANGED <<halt, loop, enc, seg, out, batch, disturbed>>
    BY <1>2 DEF WatchFindsNothing, WatchIsCancelled
  <2>2. PICK r \in Recorders : /\ rm' = AfterAttempt(r)
                               /\ r.proc \in {NoSession, rm.proc}
                               /\ r.file \in {NoSession, rm.file}
                               /\ r.inflight = rm.inflight
    <3>1. [rm EXCEPT !.recording = FALSE] \in Recorders /\ Forgotten(rm) \in Recorders
      BY <1>a DEF Forgotten, Recorders, MaybeSession
    <3>2. QED
      BY <1>2, <1>a, <3>1 DEF WatchFindsNothing, WatchIsCancelled, Forgotten, Recorders
  <2>3. rm' \in Recorders /\ rm'.inflight = rm.inflight
    BY <2>2, AttemptTypes
  <2>4. SegTypeOK'
    BY <1>a, <2>1, <2>3, AttemptEndTypes
  <2>5. SchedulingInv'
    BY <1>b, <2>1, <2>2, AttemptEnds
  <2>6. MarkHasSession'
    BY <2>1, <2>3 DEF SegInv, MarkHasSession
  <2>7. QED
    BY <2>4, <2>5, <2>6 DEF SegInv, SchedulingInv
<1>3. CASE WatchOpens
  <2> DEFINE s == Min(Sessions \ Used)
  <2>1. s \in Sessions
    BY <1>3, MinOfSessions DEF WatchOpens, Used
  <2>2. /\ watch.pc = "meta"
        /\ watch' = [watch EXCEPT !.pc = "inside", !.session = s]
        /\ loop' = [loop EXCEPT ![s] = "born"]
        /\ rm' = Unmarked(rm)
        /\ disturbed' \subseteq disturbed \cup {s}
        /\ UNCHANGED <<fsm, respawn, halt, enc, seg, out, batch>>
    BY <1>3 DEF WatchOpens
  <2>3. loop[s] = "unused"
    <3>1. Sessions \ Used # {} /\ Sessions \ Used \subseteq Nat
      BY <1>3, SegmentAssumption DEF WatchOpens, Used, Sessions
    <3>2. QED
      BY <3>1, MinIsMember DEF Used
  <2> HIDE DEF s
  <2> USE DEF SegInv
  <2>4. /\ rm' \in Recorders /\ rm'.recording = rm.recording /\ ~rm'.inflight
        /\ rm'.proc = rm.proc /\ rm'.file = rm.file
    BY <1>a, <2>2 DEF Unmarked, Recorders
  <2>5. /\ watch' \in [pc : {"inside"}, session : Sessions, cancelled : BOOLEAN]
        /\ watch'.session = s
    BY <2>1, <2>2 DEF SegTypeOK
  <2>6. \A t \in Sessions : loop'[t] = IF t = s THEN "born" ELSE loop[t]
    BY <2>2 DEF SegTypeOK
  <2>7. SegTypeOK'
    BY <2>1, <2>2, <2>4, <2>5 DEF SegTypeOK, MaybeSession, Recorders
  <2>8. BornIsWatched' /\ FlagIsBacked' /\ MarkHasSession'
    <3>1. \A t \in Sessions : loop'[t] = "born" => t = s
      BY <1>b, <2>2, <2>6
    <3>2. QED
      BY <2>1, <2>4, <2>5, <3>1 DEF BornIsWatched, FlagIsBacked, MarkHasSession
  <2>9. HandlesAreRegistered'
    BY <2>3, <2>4, <2>6 DEF HandlesAreRegistered, Registered, Running, SegTypeOK, MaybeSession
  <2>10. WatchIsAttended' /\ WatchedStopIsHeld'
    BY <2>2, <2>5 DEF WatchIsAttended, WatchedStopIsHeld
  <2>11. QED
    BY <2>7, <2>8, <2>9, <2>10
<1>4. CASE WatchDetaches
  <2> USE <1>4 DEF WatchDetaches, SegInv
  <2>1. /\ watch' \in [pc : {"detached"}, session : Sessions, cancelled : BOOLEAN]
        /\ watch'.session = watch.session
    BY DEF SegTypeOK, MaybeSession
  <2>2. SegTypeOK'
    BY <2>1 DEF SegTypeOK, MaybeSession
  <2>3. BornIsWatched' /\ HandlesAreRegistered' /\ FlagIsBacked' /\ MarkHasSession'
    BY <2>1 DEF BornIsWatched, HandlesAreRegistered, FlagIsBacked, MarkHasSession
  <2>4. WatchIsAttended' /\ WatchedStopIsHeld'
    BY <2>1 DEF WatchIsAttended, WatchedStopIsHeld
  <2>5. QED
    BY <2>2, <2>3, <2>4
<1>5. CASE WatchLeaves
  <2> DEFINE s == watch.session
  <2>1. s \in Sessions /\ loop[s] # "born"
    BY <1>5 DEF WatchLeaves, SegInv, SegTypeOK, MaybeSession, Over
  <2>2. EndWatch /\ UNCHANGED <<halt, loop, enc, seg, out, disturbed>>
    BY <1>5 DEF WatchLeaves
  <2>3. AfterAttempt(rm) \in Recorders /\ AfterAttempt(rm).inflight = rm.inflight
    BY <1>a, AttemptTypes
  <2>4. /\ batch' \in [1..MaxBatches -> Batches]
        /\ rm' \in {AfterAttempt(rm), [AfterAttempt(rm) EXCEPT !.inflight = TRUE]}
        /\ MarkHasSession'
    <3>1. CASE HasSegments(s)
      BY <1>5, <1>a, <2>1, <2>3, <3>1, QueueBatchKeeps DEF WatchLeaves, SegInv, MarkHasSession
    <3>2. CASE ~HasSegments(s)
      BY <1>5, <1>a, <2>3, <3>2 DEF WatchLeaves, SegInv, MarkHasSession
    <3>3. QED
      BY <3>1, <3>2
  <2>5. rm' \in Recorders
    BY <2>3, <2>4 DEF Recorders
  <2>6. SegTypeOK'
    BY <2>2, <2>4, <2>5, AttemptEndTypes
  <2>7. SchedulingInv'
    BY <1>a, <2>1, <2>2, <2>4, AttemptEnds
  <2>8. QED
    BY <2>4, <2>6, <2>7 DEF SegInv, SchedulingInv
<1>6. QED
  BY <1>1, <1>2, <1>3, <1>4, <1>5 DEF WatchStep

LEMMA RespawnKeeps == ASSUME SegInv, Respawn PROVE SegInv'
<1> USE DEF Respawn, SegInv
<1> DEFINE begins == watch.pc = "none" /\ ~fsm.stop
<1>0. /\ watch \in [pc : {"none", "born", "meta", "inside", "detached"},
                   session : MaybeSession, cancelled : BOOLEAN]
      /\ (watch.session # NoSession) <=> (watch.pc \in {"inside", "detached"})
  BY DEF SegTypeOK
<1>1. /\ watch' = IF begins THEN [NoWatch EXCEPT !.pc = "born"] ELSE watch
      /\ begins => watch'.pc = "born"
  BY DEF NoWatch
<1>2. watch'.session = watch.session
  BY <1>0, <1>1 DEF NoWatch
<1>3. SegTypeOK'
  <2>1. /\ watch' \in [pc : {"none", "born", "meta", "inside", "detached"},
                       session : MaybeSession, cancelled : BOOLEAN]
        /\ (watch'.session # NoSession) <=> (watch'.pc \in {"inside", "detached"})
    BY <1>0, <1>1 DEF NoWatch, MaybeSession
  <2> HIDE DEF begins
  <2>2. QED
    BY <2>1 DEF SegTypeOK
<1>4. BornIsWatched' /\ HandlesAreRegistered' /\ FlagIsBacked' /\ MarkHasSession'
  BY <1>2 DEF BornIsWatched, HandlesAreRegistered, FlagIsBacked, MarkHasSession
<1>5. WatchIsAttended' /\ WatchedStopIsHeld'
  BY <1>1 DEF WatchIsAttended, WatchedStopIsHeld, SegTypeOK
<1>6. QED
  BY <1>3, <1>4, <1>5

LEMMA StartKeeps == ASSUME SegInv, Start PROVE SegInv'
<1> DEFINE known == rm.recording \/ ProcAlive
<1> USE NoSessionIsNone
<1>1. rm \in Recorders
  BY DEF SegInv, SegTypeOK, Recorders
<1>2. halt.pc = "none" /\ UNCHANGED <<respawn, halt, loop, enc, seg, out, batch, disturbed>>
  BY DEF Start
<1>3. CASE known
  <2>1. fsm' = RecordingFsm /\ rm' = Recording(rm) /\ watch' = watch
    BY <1>3 DEF Start
  <2>2. /\ rm' \in Recorders /\ rm'.inflight = rm.inflight
        /\ rm'.proc = rm.proc /\ rm'.file = rm.file
    BY <1>1, <2>1 DEF Recording, Recorders
  <2>3. \/ \E s \in Sessions : loop[s] \in Registered
        \/ watch.session # NoSession
    BY <1>2, <1>3 DEF SegInv, SegTypeOK, FlagIsBacked, HandlesAreRegistered, ProcAlive, MaybeSession
  <2>4. SegTypeOK'
    BY <1>2, <2>1, <2>2 DEF SegInv, SegTypeOK, RecordingFsm, Recorders
  <2>5. BornIsWatched' /\ HandlesAreRegistered' /\ FlagIsBacked' /\ MarkHasSession'
    BY <1>2, <2>1, <2>2, <2>3
       DEF SegInv, BornIsWatched, HandlesAreRegistered, FlagIsBacked, MarkHasSession
  <2>6. WatchIsAttended' /\ WatchedStopIsHeld'
    BY <2>1 DEF WatchIsAttended, WatchedStopIsHeld, RecordingFsm
  <2>7. QED
    BY <2>4, <2>5, <2>6 DEF SegInv
<1>4. CASE ~known
  <2>1. /\ rm' \in {Forgotten(rm), Watching(Forgotten(rm))}
        /\ \/ UNCHANGED <<fsm, watch>>
           \/ /\ fsm' = WatchingFsm
              /\ watch' = IF watch.pc = "none" THEN [NoWatch EXCEPT !.pc = "born"] ELSE watch
    BY <1>4 DEF Start
  <2>2. /\ rm' \in Recorders /\ ~rm'.recording /\ rm'.inflight = rm.inflight
        /\ rm'.proc = NoSession /\ rm'.file = NoSession
    BY <1>1, <2>1 DEF Forgotten, Watching, Recorders, MaybeSession
  <2>3. /\ watch' \in [pc : {"none", "born", "meta", "inside", "detached"},
                       session : MaybeSession, cancelled : BOOLEAN]
        /\ (watch'.session # NoSession) <=> (watch'.pc \in {"inside", "detached"})
        /\ watch'.session = watch.session
    <3>1. /\ watch \in [pc : {"none", "born", "meta", "inside", "detached"},
                        session : MaybeSession, cancelled : BOOLEAN]
          /\ (watch.session # NoSession) <=> (watch.pc \in {"inside", "detached"})
      BY DEF SegInv, SegTypeOK
    <3>2. watch' \in {watch, IF watch.pc = "none" THEN [NoWatch EXCEPT !.pc = "born"] ELSE watch}
      BY <2>1
    <3>3. QED
      BY <3>1, <3>2 DEF NoWatch, MaybeSession
  <2>4. SegTypeOK'
    <3>1. fsm' \in [state : {"STOPPED", "WATCHING", "RECORDING"}, stop : BOOLEAN]
      <4>1. fsm' \in {fsm, WatchingFsm}
        BY <2>1
      <4>2. /\ fsm \in [state : {"STOPPED", "WATCHING", "RECORDING"}, stop : BOOLEAN]
            /\ WatchingFsm \in [state : {"STOPPED", "WATCHING", "RECORDING"}, stop : BOOLEAN]
        BY DEF SegInv, SegTypeOK, WatchingFsm
      <4>3. QED
        BY <4>1, <4>2, Zenon
    <3>2. QED
      BY <1>2, <2>2, <2>3, <3>1 DEF SegInv, SegTypeOK, Recorders
  <2>5. BornIsWatched' /\ HandlesAreRegistered' /\ FlagIsBacked' /\ MarkHasSession'
    BY <1>2, <2>2, <2>3
       DEF SegInv, BornIsWatched, HandlesAreRegistered, FlagIsBacked, MarkHasSession
  <2>6. WatchIsAttended' /\ WatchedStopIsHeld'
    <3>1. CASE UNCHANGED <<fsm, watch>>
      BY <1>2, <3>1 DEF SegInv, WatchIsAttended, WatchedStopIsHeld
    <3>2. CASE /\ fsm' = WatchingFsm
               /\ watch' = IF watch.pc = "none" THEN [NoWatch EXCEPT !.pc = "born"] ELSE watch
      BY <3>2 DEF WatchIsAttended, WatchedStopIsHeld, WatchingFsm, NoWatch
    <3>3. QED
      BY <2>1, <3>1, <3>2
  <2>7. QED
    BY <2>4, <2>5, <2>6 DEF SegInv
<1>5. QED
  BY <1>3, <1>4

LEMMA StopBeginsKeeps == ASSUME SegInv, StopBegins PROVE SegInv'
<1>1. PICK asked \in BOOLEAN :
        halt' = [NoHalt EXCEPT !.pc = "cancel", !.asked = asked,
                               !.file = IF asked THEN rm.file ELSE NoSession]
  BY DEF StopBegins
<1>2. /\ fsm' = [fsm EXCEPT !.stop = TRUE]
      /\ rm' = [rm EXCEPT !.stopped = TRUE]
      /\ respawn' = FALSE
      /\ watch' = CASE watch.pc = "born" -> NoWatch
                    [] watch.pc \in {"meta", "inside"} -> [watch EXCEPT !.cancelled = TRUE]
                    [] OTHER -> watch
      /\ disturbed' = disturbed \cup {s \in Used : Occupied(s)}
      /\ UNCHANGED <<loop, enc, seg, out, batch>>
  BY DEF StopBegins
<1>3. /\ rm' \in Recorders /\ rm'.inflight = rm.inflight
      /\ rm'.proc = rm.proc /\ rm'.file = rm.file
  BY <1>2 DEF SegInv, SegTypeOK, Recorders
<1>4. /\ halt' \in [pc : {"cancel"}, asked : BOOLEAN, file : MaybeSession, target : MaybeSession]
  <2>1. rm.file \in MaybeSession /\ NoSession \in MaybeSession
    BY DEF SegInv, SegTypeOK, MaybeSession
  <2>2. QED
    BY <1>1, <2>1 DEF NoHalt
<1>5. /\ watch' \in [pc : {"none", "meta", "inside", "detached"},
                     session : MaybeSession, cancelled : BOOLEAN]
      /\ (watch'.session # NoSession) <=> (watch'.pc \in {"inside", "detached"})
      /\ watch'.session = watch.session
  <2>1. NoSession \in MaybeSession
    BY DEF MaybeSession
  <2>2. CASE watch.pc = "born"
    BY <1>2, <2>1, <2>2 DEF SegInv, SegTypeOK, NoWatch
  <2>3. CASE watch.pc \in {"meta", "inside"}
    BY <1>2, <2>3 DEF SegInv, SegTypeOK
  <2>4. CASE watch.pc \in {"none", "detached"}
    <3>1. watch' = watch
      BY <1>2, <2>4
    <3>2. QED
      BY <2>4, <3>1 DEF SegInv, SegTypeOK
  <2>5. QED
    BY <2>2, <2>3, <2>4 DEF SegInv, SegTypeOK
<1>6. SegTypeOK'
  <2>1. disturbed' \subseteq Sessions
    BY <1>2 DEF SegInv, SegTypeOK, Used
  <2>2. fsm' \in [state : {"STOPPED", "WATCHING", "RECORDING"}, stop : BOOLEAN]
    BY <1>2 DEF SegInv, SegTypeOK
  <2>3. QED
    BY <1>2, <1>3, <1>4, <1>5, <2>1, <2>2 DEF SegInv, SegTypeOK, Recorders
<1>7. BornIsWatched' /\ HandlesAreRegistered' /\ MarkHasSession'
  BY <1>2, <1>3, <1>5 DEF SegInv, BornIsWatched, HandlesAreRegistered, MarkHasSession
<1>8. FlagIsBacked' /\ WatchIsAttended' /\ WatchedStopIsHeld'
  BY <1>4 DEF FlagIsBacked, WatchIsAttended, WatchedStopIsHeld
<1>9. QED
  BY <1>6, <1>7, <1>8 DEF SegInv

LEMMA StopKeeps == ASSUME SegInv, StopStep PROVE SegInv'
<1>1. rm \in Recorders /\ batch \in [1..MaxBatches -> Batches]
  BY DEF SegInv, SegTypeOK, Recorders, Batches
<1>2. CASE StopSignals
  <2> USE <1>2 DEF StopSignals
  <2>1. halt' \in [pc : {"kill"}, asked : BOOLEAN, file : MaybeSession, target : MaybeSession]
    BY <1>1 DEF SegInv, SegTypeOK, Recorders
  <2>2. SegTypeOK'
    BY <2>1 DEF SegInv, SegTypeOK
  <2>3. BornIsWatched' /\ HandlesAreRegistered' /\ MarkHasSession'
    BY DEF SegInv, BornIsWatched, HandlesAreRegistered, MarkHasSession
  <2>4. FlagIsBacked' /\ WatchIsAttended' /\ WatchedStopIsHeld'
    BY <2>1 DEF FlagIsBacked, WatchIsAttended, WatchedStopIsHeld
  <2>5. QED
    BY <2>2, <2>3, <2>4 DEF SegInv
<1>3. CASE StopEnds
  <2> DEFINE killed == IF halt.pc = "kill" THEN [rm EXCEPT !.proc = NoSession] ELSE rm
             r == IF halt.asked THEN Forgotten(Stopped(killed)) ELSE Stopped(killed)
  <2>1. /\ halt' = NoHalt
        /\ fsm' = StoppedFsm
        /\ IF halt.file # NoSession THEN QueueBatch(halt.file, r) ELSE rm' = r /\ batch' = batch
        /\ UNCHANGED <<watch, respawn, loop, enc, seg, out, disturbed>>
    BY <1>3 DEF StopEnds
  <2>2. /\ r \in Recorders /\ ~r.recording /\ r.inflight = rm.inflight
        /\ r.proc \in {NoSession, rm.proc} /\ r.file \in {NoSession, rm.file}
    <3>1. /\ killed \in Recorders /\ killed.inflight = rm.inflight
          /\ killed.proc \in {NoSession, rm.proc} /\ killed.file = rm.file
      BY <1>1 DEF Recorders, MaybeSession
    <3> HIDE DEF killed
    <3>2. QED
      BY <3>1 DEF Forgotten, Stopped, Recorders, MaybeSession
  <2> HIDE DEF r
  <2>3. /\ batch' \in [1..MaxBatches -> Batches]
        /\ rm' \in {r, [r EXCEPT !.inflight = TRUE]}
        /\ MarkHasSession'
    <3>1. CASE halt.file # NoSession
      <4>1. halt.file \in Sessions
        BY <3>1 DEF SegInv, SegTypeOK, MaybeSession
      <4>2. QED
        BY <1>1, <2>1, <2>2, <3>1, <4>1, QueueBatchKeeps DEF SegInv, MarkHasSession
    <3>2. CASE halt.file = NoSession
      BY <1>1, <2>1, <2>2, <3>2 DEF SegInv, MarkHasSession
    <3>3. QED
      BY <3>1, <3>2
  <2>4. /\ rm' \in Recorders /\ ~rm'.recording
        /\ rm'.proc \in {NoSession, rm.proc} /\ rm'.file \in {NoSession, rm.file}
    BY <2>2, <2>3 DEF Recorders
  <2>5. /\ NoHalt \in [pc : {"none"}, asked : BOOLEAN, file : MaybeSession, target : MaybeSession]
        /\ StoppedFsm \in [state : {"STOPPED"}, stop : BOOLEAN]
    BY DEF NoHalt, StoppedFsm, MaybeSession
  <2>6. SegTypeOK'
    BY <2>1, <2>3, <2>4, <2>5 DEF SegInv, SegTypeOK, Recorders, Batches
  <2>7. BornIsWatched' /\ HandlesAreRegistered' /\ FlagIsBacked'
    BY <2>1, <2>4 DEF SegInv, BornIsWatched, HandlesAreRegistered, FlagIsBacked
  <2>8. WatchIsAttended' /\ WatchedStopIsHeld'
    BY <2>1 DEF WatchIsAttended, WatchedStopIsHeld, StoppedFsm
  <2>9. QED
    BY <2>3, <2>6, <2>7, <2>8 DEF SegInv
<1>4. QED
  BY <1>2, <1>3 DEF StopStep

LEMMA SegNextKeeps == SegInv /\ [SegNext]_vars => SegInv'
<1> SUFFICES ASSUME SegInv, [SegNext]_vars PROVE SegInv'
  OBVIOUS
<1>1. CASE UNCHANGED vars
  <2>1. SegTypeOK' /\ MarkHasSession'
    BY <1>1 DEF vars, SegInv, SegTypeOK, MarkHasSession
  <2>2. SchedulingInv'
    BY <1>1, SchedulingKept DEF vars
  <2>3. QED
    BY <2>1, <2>2 DEF SegInv, SchedulingInv
<1>2. QED
  BY <1>1, WatchKeeps, RespawnKeeps, StartKeeps, StopBeginsKeeps, StopKeeps, LoopKeeps,
     EncoderKeeps, BatchKeeps DEF SegNext

-----------------------------------------------------------------------------
\* The invariant of one channel's watch, sessions, stops and batches holds in
\* every reachable state (live_recorder.py, channel_fsm.py).
THEOREM SegInvariant == SegSpec => []SegInv
<1>1. SegInit => SegInv
  BY SegInitEstablishes
<1>2. SegInv /\ [SegNext]_vars => SegInv'
  BY SegNextKeeps
<1>3. QED
  BY <1>1, <1>2, PTL DEF SegSpec

\* The state keeps its type; only an attempt that is inside a session, or has
\* left it to itself, has one (live_recorder.py:2158-2305).
THEOREM SegAlwaysTyped == SegSpec => []SegTypeOK
<1>1. SegInv => SegTypeOK
  BY DEF SegInv
<1>2. QED
  BY <1>1, SegInvariant, PTL

\* What RecorderManager keeps of a recording never outlives it, however many
\* sessions, detached loops, failed launches, starts and stops came before
\* (live_recorder.py:1747-1814, live_auto_recorder.py:448-483).
THEOREM FlagsAlwaysBacked == SegSpec => []FlagsAreBacked
<1>1. SegInv => FlagsAreBacked
  BY DEF SegInv, HandlesAreRegistered, FlagIsBacked, FlagsAreBacked, Registered
<1>2. QED
  BY <1>1, SegInvariant, PTL

\* A channel that is said to be watched is watched (channel_fsm.py:380-417).
THEOREM WatchAlwaysAttended == SegSpec => []WatchIsAttended
<1>1. SegInv => WatchIsAttended
  BY DEF SegInv
<1>2. QED
  BY <1>1, SegInvariant, PTL

\* The mark that refuses batches is never left behind by the batches that are
\* done, though a session drops it and a batch of another session may own it
\* (live_recorder.py:1817-1857).
THEOREM MarkAlwaysBacked == SegSpec => []MarkIsBacked
<1>1. SegInv => MarkIsBacked
  BY DEF SegInv, MarkHasSession, MarkIsBacked, NoBatch
<1>2. QED
  BY <1>1, SegInvariant, PTL
-----------------------------------------------------------------------------
(* What becomes of a session that neither a stop nor another session met.  *)

\* A stop that is carried out has the watch's attention, keeps respawns away, and
\* asks for the batch of a session that it met.
StopHolds ==
    /\ watch.cancelled => watch.pc \in {"meta", "inside"} /\ halt.pc # "none"
    /\ watch.pc = "detached" => halt.pc # "none"
    /\ halt.pc # "none" => /\ fsm.stop /\ ~respawn
                           /\ watch.pc # "born"
                           /\ watch.pc \in {"meta", "inside"} => watch.cancelled
    /\ halt.pc = "kill" => watch.pc = "none"
    /\ halt.file # NoSession => halt.file \in disturbed

\* The session has the channel to itself, and its watch waits for it.
HasChannel(s) ==
    Occupied(s) => /\ watch.pc = "inside" /\ watch.session = s /\ ~watch.cancelled
                   /\ halt.pc = "none" /\ loop[s] # "unused"
                   /\ \A t \in Sessions : Occupied(t) => t = s

\* ffmpeg has written nothing before it was launched, and nothing is unfinished
\* after its end.
FilesFollow(s) ==
    /\ loop[s] \in {"unused", "born", "spawning", "broken"} =>
          enc[s] = "none" /\ \A i \in Segments : seg[s][i] = "none"
    /\ loop[s] \in {"closing", "leaving", "done"} => enc[s] = "gone"
    /\ enc[s] # "alive" => \A i \in Segments : seg[s][i] # "open"

\* Nobody asks for a batch before the loop does, and the mark is down then; from
\* there on every segment was tried or is about to be, and every batch makes
\* complete outputs or none.
InSession == {"born", "spawning", "recording", "ending", "closing"}
Unbatched == {"unused", "broken"} \cup InSession
Batched == {"leaving", "done"}

BatchesHold(s) ==
    /\ loop[s] \in Unbatched => /\ \A b \in 1..MaxBatches : batch[b].of # s
                                /\ \A i \in Segments : out[s][i] = "none" /\ seg[s][i] # "removed"
    /\ loop[s] \in InSession => ~rm.inflight
    /\ \A i \in Segments : /\ out[s][i] # "part"
                           /\ seg[s][i] = "removed" => out[s][i] = "whole"
    /\ \A b \in 1..MaxBatches : batch[b].of = s => \A i \in batch[b].good : out[s][i] = "whole"
    /\ loop[s] \in Batched => \A i \in Segments : seg[s][i] # "none" =>
          \/ out[s][i] # "none"
          \/ \E b \in 1..MaxBatches : batch[b].of = s /\ i \in batch[b].todo

ProcessedIInv ==
    /\ SegInv
    /\ StopHolds
    /\ \A s \in Sessions \ disturbed : HasChannel(s) /\ FilesFollow(s) /\ BatchesHold(s)

LEMMA LoopPlaces ==
  ASSUME SegTypeOK, NEW s \in Sessions
  PROVE  /\ loop[s] \in Unbatched \cup Batched
         /\ loop[s] \in InSession => Occupied(s)
         /\ watch.session \notin Sessions => watch.session = NoSession
         /\ Occupied(s) <=> watch.session = s \/ loop[s] \in InSession \cup {"leaving"}
BY DEF SegTypeOK, Unbatched, Batched, InSession, Running, Over, Occupied, MaybeSession

LEMMA StopHoldsInitially == SegInit => StopHolds
BY DEF SegInit, StopHolds, NoWatch, NoHalt

LEMMA WatchStopHolds ==
  ASSUME SegInv, StopHolds, WatchStep \/ Respawn \/ Start
  PROVE  StopHolds'
<1>1. SegTypeOK /\ watch.pc \in {"none", "born", "meta", "inside", "detached"}
  BY DEF SegInv, SegTypeOK
<1>2. ASSUME EndWatch, UNCHANGED <<halt, disturbed>>
      PROVE  StopHolds'
  <2>1. watch' = NoWatch /\ fsm'.stop = fsm.stop /\ respawn' = (respawn \/ ~fsm.stop)
    BY <1>1, <1>2 DEF EndWatch, Rested, StoppedFsm, WatchingFsm, SegTypeOK
  <2>2. QED
    BY <1>2, <2>1 DEF StopHolds, NoWatch
<1>3. CASE WatchBegins
  <2>1. halt.pc = "none" /\ ~watch.cancelled /\ UNCHANGED <<halt, disturbed>>
    BY <1>3 DEF WatchBegins, StopHolds
  <2>2. watch'.pc \in {"none", "meta"} /\ ~watch'.cancelled
    BY <1>1, <1>3, <2>1 DEF WatchBegins, NoWatch, SegTypeOK
  <2>3. QED
    BY <2>1, <2>2 DEF StopHolds
<1>4. CASE WatchFindsNothing \/ WatchIsCancelled \/ WatchLeaves
  BY <1>2, <1>4 DEF WatchFindsNothing, WatchIsCancelled, WatchLeaves
<1>5. CASE WatchOpens
  <2>1. /\ watch.pc = "meta" /\ ~watch.cancelled /\ UNCHANGED halt /\ disturbed \subseteq disturbed'
        /\ watch'.pc = "inside" /\ ~watch'.cancelled
    BY <1>1, <1>5 DEF WatchOpens, SegTypeOK
  <2>2. QED
    BY <2>1 DEF StopHolds
<1>6. CASE WatchDetaches
  <2>1. /\ watch.pc = "inside" /\ watch.cancelled /\ UNCHANGED <<fsm, respawn, halt, disturbed>>
        /\ watch'.pc = "detached" /\ ~watch'.cancelled
    BY <1>1, <1>6 DEF WatchDetaches, SegTypeOK
  <2>2. QED
    BY <2>1 DEF StopHolds
<1>7. CASE Respawn \/ Start
  <2>1. halt.pc = "none" /\ UNCHANGED <<halt, disturbed>>
    BY <1>7 DEF Respawn, Start, StopHolds
  <2>2. watch' = watch \/ (watch'.pc = "born" /\ ~watch'.cancelled)
    BY <1>7 DEF Respawn, Start, NoWatch
  <2>3. QED
    BY <2>1, <2>2 DEF StopHolds
<1>8. QED
  BY <1>3, <1>4, <1>5, <1>6, <1>7 DEF WatchStep

LEMMA StopStopHolds ==
  ASSUME SegInv, StopHolds, StopBegins \/ StopStep
  PROVE  StopHolds'
<1>1. SegTypeOK /\ watch.pc \in {"none", "born", "meta", "inside", "detached"}
  BY DEF SegInv, SegTypeOK
<1>2. CASE StopBegins
  <2>1. /\ halt.pc = "none" /\ fsm'.stop /\ ~respawn'
        /\ watch' = CASE watch.pc = "born" -> NoWatch
                      [] watch.pc \in {"meta", "inside"} -> [watch EXCEPT !.cancelled = TRUE]
                      [] OTHER -> watch
        /\ disturbed' = disturbed \cup {s \in Used : Occupied(s)}
    BY <1>1, <1>2 DEF StopBegins, SegTypeOK
  <2>2. halt'.pc = "cancel" /\ halt'.file \in {rm.file, NoSession}
    BY <1>2 DEF StopBegins, NoHalt
  <2>3. rm.file # NoSession => rm.file \in disturbed'
    <3>1. rm.file # NoSession => rm.file \in Sessions /\ loop[rm.file] \in Running
      BY <1>1 DEF SegInv, SegTypeOK, MaybeSession, HandlesAreRegistered, Registered
    <3>2. QED
      BY <2>1, <3>1 DEF Used, Occupied, Running
  <2>4. /\ watch'.pc \in {"none", "meta", "inside"}
        /\ watch'.pc \in {"meta", "inside"} <=> watch'.cancelled
    <3>1. CASE watch.pc = "born"
      BY <2>1, <3>1 DEF NoWatch
    <3>2. CASE watch.pc \in {"meta", "inside"}
      BY <1>1, <2>1, <3>2 DEF SegTypeOK
    <3>3. CASE watch.pc = "none"
      <4>1. watch' = watch
        BY <2>1, <3>3
      <4>2. QED
        BY <1>1, <3>3, <4>1 DEF StopHolds, SegTypeOK
    <3>4. watch.pc # "detached"
      BY <2>1 DEF StopHolds
    <3>5. QED
      BY <1>1, <3>1, <3>2, <3>3, <3>4
  <2>5. QED
    BY <2>1, <2>2, <2>3, <2>4 DEF StopHolds
<1>3. CASE StopSignals
  <2>1. halt'.pc = "kill" /\ halt'.file = halt.file /\ halt.pc # "none" /\ watch.pc = "none"
        /\ UNCHANGED <<fsm, watch, respawn, disturbed>>
    BY <1>1, <1>3 DEF StopSignals, SegTypeOK
  <2>2. QED
    BY <2>1 DEF StopHolds
<1>4. CASE StopEnds
  <2>1. watch.pc = "none" /\ halt' = NoHalt /\ UNCHANGED <<watch, disturbed>>
    BY <1>4 DEF StopEnds, StopHolds
  <2>2. QED
    BY <2>1 DEF StopHolds, NoHalt
<1>5. QED
  BY <1>2, <1>3, <1>4 DEF StopStep

\* Where the watch and the stop stay, so does the session's hold.
LEMMA ChannelStays ==
  ASSUME NEW s \in Sessions, HasChannel(s), UNCHANGED <<watch, halt>>,
         loop[s] # "unused" => loop'[s] # "unused",
         \A t \in Sessions : Occupied(t)' => Occupied(t)
  PROVE  HasChannel(s)'
BY DEF HasChannel

\* And where it is not there, it need not be.
LEMMA ChannelUnneeded == ASSUME NEW s \in Sessions, ~Occupied(s)' PROVE HasChannel(s)'
BY DEF HasChannel

LEMMA WatchChannel ==
  ASSUME SegInv, StopHolds, WatchStep \/ Respawn \/ Start,
         NEW s \in Sessions \ disturbed', s \notin disturbed, HasChannel(s)
  PROVE  HasChannel(s)'
<1>1. SegTypeOK /\ BornIsWatched /\ s \in Sessions /\ NoSession \notin Sessions
  BY NoSessionIsNone DEF SegInv
<1>2. ASSUME watch'.session # s, UNCHANGED loop, Occupied(s)'
      PROVE  Occupied(s) /\ watch.pc = "inside" /\ watch.session = s /\ ~watch.cancelled
             /\ loop[s] \in Running \cup {"born"} /\ halt.pc = "none"
  BY <1>2 DEF Occupied, HasChannel
<1>3. ASSUME EndWatch, UNCHANGED loop, Occupied(s)'
      PROVE  watch.pc = "inside" /\ watch.session = s /\ ~watch.cancelled
             /\ loop[s] \in Running \cup {"born"}
  <2>1. watch'.session # s
    BY <1>1, <1>3 DEF EndWatch, NoWatch
  <2>2. QED
    BY <1>2, <1>3, <2>1
<1>4. CASE WatchBegins
  <2>1. watch.pc # "inside" /\ watch'.session # s /\ UNCHANGED loop
    <3>1. watch.pc = "born" /\ watch.session = NoSession
      BY <1>1, <1>4 DEF WatchBegins, SegTypeOK
    <3>2. QED
      BY <1>1, <1>4, <3>1 DEF WatchBegins, NoWatch, SegTypeOK
  <2>2. QED
    BY <1>2, <2>1, ChannelUnneeded
<1>5. CASE WatchFindsNothing \/ WatchIsCancelled
  <2>1. EndWatch /\ watch.pc = "meta" /\ UNCHANGED loop
    BY <1>5 DEF WatchFindsNothing, WatchIsCancelled
  <2>2. QED
    BY <1>3, <2>1, ChannelUnneeded
<1>6. CASE WatchLeaves
  <2>1. EndWatch /\ UNCHANGED loop
    BY <1>6 DEF WatchLeaves
  <2>2. ~Occupied(s)'
    <3> SUFFICES ASSUME Occupied(s)' PROVE FALSE
      OBVIOUS
    <3>1. watch.pc = "inside" /\ watch.session = s /\ loop[s] \in Running \cup {"born"}
      BY <1>3, <2>1
    <3>2. QED
      BY <1>6, <3>1 DEF WatchLeaves, Over, Running
  <2>3. QED
    BY <2>2, ChannelUnneeded
<1>7. CASE WatchOpens
  <2> DEFINE n == Min(Sessions \ Used)
  <2>1. /\ watch.pc = "meta" /\ ~watch.cancelled /\ Used # Sessions
        /\ watch' = [watch EXCEPT !.pc = "inside", !.session = n]
        /\ loop' = [loop EXCEPT ![n] = "born"]
        /\ disturbed' = disturbed \cup (IF \E t \in Used : Occupied(t) THEN {n} ELSE {})
        /\ UNCHANGED halt
    BY <1>7 DEF WatchOpens
  <2>2. n \in Sessions \ Used
    <3>1. Sessions \ Used # {} /\ Sessions \ Used \in SUBSET Sessions /\ Sessions \ Used \subseteq Nat
      BY <2>1, SegmentAssumption DEF Used, Sessions
    <3>2. QED
      BY <3>1, MinIsMember
  <2> HIDE DEF n
  <2>3. watch'.pc = "inside" /\ watch'.session = n /\ ~watch'.cancelled /\ watch.session = NoSession
        /\ loop[n] = "unused"
    BY <1>1, <2>1, <2>2 DEF SegTypeOK, Used
  <2>4. \A t \in Sessions : loop'[t] = IF t = n THEN "born" ELSE loop[t]
    BY <1>1, <2>1, <2>2 DEF SegTypeOK
  <2>5. halt.pc = "none"
    BY <2>1 DEF StopHolds
  <2>6. \A t \in Sessions : Occupied(t) => t \in Used
    BY <1>1, <2>3 DEF Occupied, Used, Running
  <2>7. CASE s = n
    <3>1. \A t \in Sessions : ~Occupied(t)
      BY <2>1, <2>6, <2>7
    <3>2. \A t \in Sessions : Occupied(t)' => t = n
      BY <2>3, <2>4, <3>1 DEF Occupied
    <3>3. QED
      BY <2>1, <2>3, <2>4, <2>5, <2>7, <3>2 DEF HasChannel
  <2>8. CASE s # n
    <3>1. ~Occupied(s)
      BY <1>1, <2>3 DEF HasChannel
    <3>2. ~Occupied(s)'
      BY <2>3, <2>4, <2>8, <3>1 DEF Occupied
    <3>3. QED
      BY <3>2, ChannelUnneeded
  <2>9. QED
    BY <2>7, <2>8
<1>8. CASE WatchDetaches
  <2>1. watch.pc = "inside" /\ watch.cancelled /\ UNCHANGED loop /\ watch'.session = watch.session
    BY <1>1, <1>8 DEF WatchDetaches, SegTypeOK
  <2>2. ~Occupied(s)
    BY <2>1 DEF HasChannel
  <2>3. QED
    BY <2>1, <2>2, ChannelUnneeded DEF Occupied
<1>9. CASE Respawn \/ Start
  <2>1. /\ UNCHANGED <<halt, loop>>
        /\ watch' = watch \/ (watch.pc = "none" /\ watch'.session = NoSession)
    BY <1>9 DEF Respawn, Start, NoWatch
  <2>2. CASE watch' = watch
    <3>1. \A t \in Sessions : Occupied(t)' => Occupied(t)
      BY <2>1, <2>2 DEF Occupied
    <3>2. QED
      BY <2>1, <2>2, <3>1, ChannelStays
  <2>3. CASE watch.pc = "none" /\ watch'.session = NoSession
    BY <1>1, <1>2, <2>1, <2>3, ChannelUnneeded
  <2>4. QED
    BY <2>1, <2>2, <2>3
<1>10. QED
  BY <1>4, <1>5, <1>6, <1>7, <1>8, <1>9 DEF WatchStep

LEMMA StopChannel ==
  ASSUME SegInv, StopHolds, StopBegins \/ StopStep,
         NEW s \in Sessions \ disturbed', s \notin disturbed, HasChannel(s)
  PROVE  HasChannel(s)'
<1>1. SegTypeOK /\ s \in Sessions /\ UNCHANGED loop
  BY DEF SegInv, StopBegins, StopStep, StopSignals, StopEnds
<1>2. CASE StopBegins
  <2>1. ~Occupied(s)
    BY <1>1, <1>2 DEF StopBegins, Used, HasChannel
  <2>2. watch'.session \in {watch.session, NoSession}
    <3>1. CASE watch.pc = "born"
      BY <1>2, <3>1 DEF StopBegins, NoWatch
    <3>2. CASE watch.pc \in {"meta", "inside"}
      BY <1>1, <1>2, <3>2 DEF StopBegins, SegTypeOK
    <3>3. CASE watch.pc \notin {"born", "meta", "inside"}
      BY <1>2, <3>3 DEF StopBegins
    <3>4. QED
      BY <3>1, <3>2, <3>3
  <2>3. QED
    BY <1>1, <2>1, <2>2, NoSessionIsNone, ChannelUnneeded DEF Occupied
<1>3. CASE StopStep
  <2>1. halt.pc # "none" /\ UNCHANGED watch
    BY <1>3 DEF StopStep, StopSignals, StopEnds
  <2>2. ~Occupied(s)
    BY <2>1 DEF HasChannel
  <2>3. QED
    BY <1>1, <2>1, <2>2, ChannelUnneeded DEF Occupied
<1>4. QED
  BY <1>2, <1>3

\* A loop's steps take it no further into the channel.
LEMMA LoopChannel ==
  ASSUME SegInv, NEW q \in Sessions, LoopStep(q), NEW s \in Sessions, HasChannel(s)
  PROVE  HasChannel(s)'
<1>1. /\ loop[q] \in {"born"} \cup Running /\ UNCHANGED <<watch, halt>>
      /\ \E p \in Running \cup Over : loop' = [loop EXCEPT ![q] = p]
  BY DEF LoopStep, LoopEnters, LoopRegisters, LaunchFails, LoopSeesStop, LoopSeesEnd, LoopQueues,
         LoopLeaves, Running, Over
<1>2. /\ \A t \in Sessions : t # q => loop'[t] = loop[t]
      /\ loop'[q] # "unused"
  BY <1>1 DEF SegInv, SegTypeOK, Running, Over
<1>3. \A t \in Sessions : Occupied(t)' => Occupied(t)
  BY <1>1, <1>2 DEF Occupied
<1>4. QED
  BY <1>1, <1>2, <1>3, ChannelStays

LEMMA FileChannel ==
  ASSUME UNCHANGED <<watch, halt, loop>>, NEW s \in Sessions, HasChannel(s)
  PROVE  HasChannel(s)'
BY ChannelStays DEF Occupied

\* Steps that make nothing of a session's segments, for all that the session is
\* concerned: batches may end, and new ones read what is finished.
LEMMA BatchesStay ==
  ASSUME NEW s \in Sessions, BatchesHold(s),
         loop'[s] \in Unbatched => loop[s] \in Unbatched,
         loop'[s] \in Batched => loop[s] \in Batched,
         loop'[s] \in InSession => ~rm'.inflight,
         out'[s] = out[s],
         \A i \in Segments : /\ seg'[s][i] = "removed" => seg[s][i] = "removed"
                             /\ loop'[s] \in Batched /\ seg'[s][i] # "none" => seg[s][i] # "none",
         \A b \in 1..MaxBatches :
            \/ batch'[b] = batch[b]
            \/ batch[b].of # s /\ batch'[b].of # s
            \/ /\ batch[b].todo = {} /\ batch'[b].good = {}
               /\ batch'[b].of = s => loop'[s] \notin Unbatched
  PROVE  BatchesHold(s)'
<1>1. loop'[s] \in Unbatched =>
         /\ \A b \in 1..MaxBatches : batch'[b].of # s
         /\ \A i \in Segments : out'[s][i] = "none" /\ seg'[s][i] # "removed"
  BY DEF BatchesHold
<1>2. \A i \in Segments : /\ out'[s][i] # "part"
                          /\ seg'[s][i] = "removed" => out'[s][i] = "whole"
  BY DEF BatchesHold
<1>3. ASSUME NEW b \in 1..MaxBatches, batch'[b].of = s, NEW i \in batch'[b].good
      PROVE  out'[s][i] = "whole"
  BY <1>3 DEF BatchesHold
<1>4. ASSUME loop'[s] \in Batched, NEW i \in Segments, seg'[s][i] # "none"
      PROVE  \/ out'[s][i] # "none"
             \/ \E b \in 1..MaxBatches : batch'[b].of = s /\ i \in batch'[b].todo
  <2>1. CASE out[s][i] # "none"
    BY <2>1
  <2>2. CASE out[s][i] = "none"
    <3>1. PICK b \in 1..MaxBatches : batch[b].of = s /\ i \in batch[b].todo
      BY <1>4, <2>2 DEF BatchesHold
    <3>2. batch'[b] = batch[b]
      BY <3>1
    <3>3. QED
      BY <3>1, <3>2
  <2>3. QED
    BY <2>1, <2>2
<1>5. QED
  BY <1>1, <1>2, <1>3, <1>4 DEF BatchesHold

LEMMA QueueBatchIs ==
  ASSUME SegTypeOK, NEW q \in Sessions, NEW r \in Recorders, QueueBatch(q, r)
  PROVE  \/ UNCHANGED batch /\ rm' = r
         \/ \E c \in 1..MaxBatches :
               /\ ~r.inflight /\ batch[c] = NoBatch
               /\ batch' = [batch EXCEPT ![c] = [of |-> q, todo |-> Listed(q), good |-> {}]]
<1>1. CASE r.inflight
  BY <1>1 DEF QueueBatch
<1>2. CASE ~r.inflight
  <2>1. /\ Idle # {}
        /\ batch' = [batch EXCEPT ![Min(Idle)] = [of |-> q, todo |-> Listed(q), good |-> {}]]
    BY <1>2 DEF QueueBatch
  <2>2. Idle \subseteq 1..MaxBatches /\ \A c \in Idle : batch[c] = NoBatch
    BY DEF Idle, SegTypeOK
  <2>3. Min(Idle) \in Idle
    <3>1. Idle \subseteq Nat
      BY <2>2, SegmentAssumption
    <3>2. QED
      BY <2>1, <3>1, MinIsMember
  <2>4. QED
    BY <1>2, <2>1, <2>2, <2>3
<1>3. QED
  BY <1>1, <1>2

\* A batch that is asked for comes into the place of none.
LEMMA QueueBatchFor ==
  ASSUME SegTypeOK, NEW q \in Sessions, NEW r \in Recorders, QueueBatch(q, r),
         NEW s \in Sessions, q = s => loop'[s] \notin Unbatched
  PROVE  \A b \in 1..MaxBatches :
            \/ batch'[b] = batch[b]
            \/ batch[b].of # s /\ batch'[b].of # s
            \/ /\ batch[b].todo = {} /\ batch'[b].good = {}
               /\ batch'[b].of = s => loop'[s] \notin Unbatched
<1>1. CASE UNCHANGED batch
  BY <1>1
<1>2. CASE ~UNCHANGED batch
  <2>1. PICK c \in 1..MaxBatches :
          /\ batch[c] = NoBatch
          /\ batch' = [batch EXCEPT ![c] = [of |-> q, todo |-> Listed(q), good |-> {}]]
    BY <1>2, QueueBatchIs
  <2>2. /\ batch[c].todo = {} /\ batch'[c] = [of |-> q, todo |-> Listed(q), good |-> {}]
        /\ \A b \in 1..MaxBatches : b # c => batch'[b] = batch[b]
    BY <2>1 DEF SegTypeOK, NoBatch
  <2>3. QED
    BY <2>2
<1>3. QED
  BY <1>1, <1>2

LEMMA ListedIs ==
  ASSUME NEW s \in Sessions, BatchesHold(s), FilesFollow(s), loop[s] = "closing", SegTypeOK
  PROVE  \A i \in Segments : seg[s][i] # "none" => i \in Listed(s)
BY DEF BatchesHold, Unbatched, InSession, SegTypeOK, Listed

LEMMA FilesStayFollowing ==
  ASSUME NEW s \in Sessions, FilesFollow(s), UNCHANGED <<enc, seg>>,
         loop'[s] \in {"unused", "born", "spawning", "broken"} => loop[s] \in {"unused", "born", "spawning", "broken"},
         loop'[s] \in {"closing", "leaving", "done"} => enc[s] = "gone"
  PROVE  FilesFollow(s)'
BY DEF FilesFollow

LEMMA LoopFiles ==
  ASSUME SegInv, NEW q \in Sessions, LoopStep(q),
         NEW s \in Sessions, HasChannel(s), FilesFollow(s), BatchesHold(s)
  PROVE  FilesFollow(s)' /\ BatchesHold(s)'
<1>1. SegTypeOK /\ rm \in Recorders
  BY DEF SegInv, SegTypeOK, Recorders
<1>2. UNCHANGED <<watch, halt, seg, out, disturbed>>
  BY DEF LoopStep, LoopEnters, LoopRegisters, LaunchFails, LoopSeesStop, LoopSeesEnd, LoopQueues, LoopLeaves
<1>3. /\ s # q => loop'[s] = loop[s] /\ enc'[s] = enc[s]
      /\ loop[q] \in {"born"} \cup Running
  BY <1>1 DEF LoopStep, LoopEnters, LoopRegisters, LaunchFails, LoopSeesStop, LoopSeesEnd, LoopQueues,
              LoopLeaves, SegTypeOK, Running
<1>4. s # q => loop[s] \notin InSession
  BY <1>1, <1>3, LoopPlaces DEF HasChannel, Occupied
<1>5. FilesFollow(s)'
  <2>1. CASE s # q
    BY <1>2, <1>3, <2>1 DEF FilesFollow
  <2>2. CASE s = q /\ LoopRegisters(q)
    BY <1>1, <1>2, <2>2 DEF LoopRegisters, FilesFollow, SegTypeOK
  <2>3. CASE s = q /\ (LoopEnters(q) \/ LaunchFails(q) \/ LoopSeesStop(q) \/ LoopSeesEnd(q) \/ LoopLeaves(q)
                       \/ LoopQueues(q))
    BY <1>1, <1>2, <2>3 DEF LoopEnters, LaunchFails, LoopSeesStop, LoopSeesEnd, LoopLeaves, LoopQueues,
                            FilesFollow, SegTypeOK
  <2>4. QED
    BY <2>1, <2>2, <2>3 DEF LoopStep
<1>6. CASE ~LoopQueues(q)
  <2>1. UNCHANGED batch
    BY <1>6 DEF LoopStep, LoopEnters, LoopRegisters, LaunchFails, LoopSeesStop, LoopSeesEnd, LoopLeaves
  <2>2. rm'.inflight = rm.inflight
    BY <1>1, <1>6 DEF LoopStep, LoopEnters, LoopRegisters, LaunchFails, LoopSeesStop, LoopSeesEnd,
                      LoopLeaves, Forgotten, Recorders
  <2>3. /\ loop'[s] \in Unbatched => loop[s] \in Unbatched
        /\ loop'[s] \in Batched => loop[s] \in Batched
        /\ loop'[s] \in InSession => loop[s] \in InSession
    BY <1>1, <1>3, <1>6 DEF LoopStep, LoopEnters, LoopRegisters, LaunchFails, LoopSeesStop, LoopSeesEnd,
                            LoopLeaves, SegTypeOK, Unbatched, Batched, InSession
  <2>4. loop'[s] \in InSession => ~rm'.inflight
    BY <2>2, <2>3 DEF BatchesHold
  <2>5. QED
    BY <1>2, <1>5, <2>1, <2>3, <2>4, BatchesStay
<1>7. CASE LoopQueues(q)
  <2>1. loop[q] = "closing" /\ loop'[q] = "leaving"
    BY <1>1, <1>7 DEF LoopQueues, SegTypeOK
  <2>2. CASE Listed(q) = {}
    <3>1. UNCHANGED batch
      BY <1>7, <2>2 DEF LoopQueues
    <3>2. CASE s = q
      <4>1. \A i \in Segments : seg[s][i] = "none"
        BY <1>1, <2>1, <2>2, <3>2, ListedIs
      <4>2. QED
        BY <1>2, <1>5, <2>1, <3>1, <3>2, <4>1 DEF BatchesHold, Unbatched, InSession, Batched
    <3>3. CASE s # q
      BY <1>2, <1>3, <1>4, <1>5, <3>1, <3>3, BatchesStay
    <3>4. QED
      BY <3>2, <3>3
  <2>3. CASE Listed(q) # {}
    <3>1. QueueBatch(q, rm)
      BY <1>7, <2>3 DEF LoopQueues
    <3>2. CASE s = q
      <4>1. ~rm.inflight /\ ~(loop'[s] \in Unbatched) /\ ~(loop'[s] \in InSession) /\ loop'[s] \in Batched
            /\ loop[s] \in Unbatched
        BY <2>1, <3>2 DEF BatchesHold, Unbatched, InSession, Batched
      <4>2. PICK c \in 1..MaxBatches :
              batch' = [batch EXCEPT ![c] = [of |-> q, todo |-> Listed(q), good |-> {}]]
        <5>1. Idle # {} /\ batch' = [batch EXCEPT ![Min(Idle)] = [of |-> q, todo |-> Listed(q), good |-> {}]]
          BY <3>1, <4>1 DEF QueueBatch
        <5>2. Idle \subseteq 1..MaxBatches
          BY <1>1 DEF Idle, SegTypeOK
        <5>3. Idle \subseteq Nat
          BY <5>2, SegmentAssumption
        <5>4. QED
          BY <5>1, <5>2, <5>3, MinIsMember
      <4>3. /\ batch'[c] = [of |-> q, todo |-> Listed(q), good |-> {}]
            /\ \A b \in 1..MaxBatches : b # c => batch'[b] = batch[b]
        BY <1>1, <4>2 DEF SegTypeOK
      <4>4. \A b \in 1..MaxBatches : batch[b].of # s
        BY <4>1 DEF BatchesHold
      <4>5. \A i \in Segments : seg'[s][i] # "none" => i \in batch'[c].todo
        BY <1>1, <1>2, <2>1, <3>2, <4>3, ListedIs
      <4>6. \A b \in 1..MaxBatches : batch'[b].of = s => batch'[b].good = {}
        BY <4>3, <4>4
      <4>7. \A i \in Segments : /\ out'[s][i] # "part"
                                /\ seg'[s][i] = "removed" => out'[s][i] = "whole"
        BY <1>2 DEF BatchesHold
      <4>8. QED
        BY <1>5, <3>2, <4>1, <4>3, <4>5, <4>6, <4>7 DEF BatchesHold
    <3>3. CASE s # q
      BY <1>1, <1>2, <1>3, <1>4, <1>5, <3>1, <3>3, QueueBatchFor, BatchesStay
    <3>4. QED
      BY <3>2, <3>3
  <2>4. QED
    BY <2>2, <2>3
<1>8. QED
  BY <1>6, <1>7

\* The watch and the stop ask for a batch of a session that is over, or of one
\* that a stop met.
LEMMA WatchFiles ==
  ASSUME SegInv, StopHolds, WatchStep \/ Respawn \/ Start,
         NEW s \in Sessions \ disturbed, HasChannel(s), FilesFollow(s), BatchesHold(s)
  PROVE  FilesFollow(s)' /\ BatchesHold(s)'
<1>1. SegTypeOK /\ rm \in Recorders /\ s \in Sessions
  BY DEF SegInv, SegTypeOK, Recorders
<1>2. UNCHANGED <<enc, seg, out>>
  BY DEF WatchStep, WatchBegins, WatchFindsNothing, WatchOpens, WatchIsCancelled, WatchDetaches,
         WatchLeaves, Respawn, Start
<1>3. CASE WatchOpens
  <2> DEFINE n == Min(Sessions \ Used)
  <2>1. /\ Used # Sessions /\ loop' = [loop EXCEPT ![n] = "born"] /\ rm' = Unmarked(rm)
        /\ UNCHANGED batch
    BY <1>3 DEF WatchOpens
  <2>2. n \in Sessions \ Used
    <3>1. Sessions \ Used # {} /\ Sessions \ Used \subseteq Nat
      BY <2>1, SegmentAssumption DEF Used, Sessions
    <3>2. QED
      BY <3>1, MinIsMember
  <2> HIDE DEF n
  <2>3. loop[n] = "unused" /\ \A t \in Sessions : loop'[t] = IF t = n THEN "born" ELSE loop[t]
    BY <1>1, <2>1, <2>2 DEF SegTypeOK, Used
  <2>4. ~rm'.inflight
    BY <1>1, <2>1 DEF Unmarked, Recorders
  <2>5. FilesFollow(s)'
    BY <1>1, <1>2, <2>3 DEF FilesFollow
  <2>6. loop'[s] = loop[s] \/ (loop[s] = "unused" /\ loop'[s] = "born")
    BY <1>1, <2>3
  <2>7. /\ loop'[s] \in Unbatched => loop[s] \in Unbatched
        /\ loop'[s] \in Batched => loop[s] \in Batched
    BY <2>6 DEF Unbatched, Batched
  <2>8. QED
    BY <1>1, <1>2, <2>1, <2>4, <2>5, <2>7, BatchesStay
<1>4. ASSUME UNCHANGED loop
      PROVE  FilesFollow(s)'
  BY <1>1, <1>2, <1>4, FilesStayFollowing DEF FilesFollow
<1>5. CASE WatchLeaves
  <2> DEFINE q == watch.session
  <2>1. q \in Sessions /\ UNCHANGED loop
        /\ (loop[q] \in Over \/ watch.pc = "detached")
    BY <1>1, <1>5 DEF WatchLeaves, SegTypeOK, MaybeSession, HasChannel
  <2>2. loop[s] \notin InSession
    <3> SUFFICES ASSUME loop[s] \in InSession PROVE FALSE
      OBVIOUS
    <3>1. Occupied(s)
      BY <1>1, LoopPlaces
    <3>2. watch.pc = "inside" /\ q = s
      BY <1>1, <3>1 DEF HasChannel
    <3>3. QED
      BY <2>1, <3>2 DEF Over, InSession
  <2>3. CASE HasSegments(q)
    <3>1. QueueBatch(q, AfterAttempt(rm)) /\ AfterAttempt(rm) \in Recorders
      BY <1>1, <1>5, <2>3, AttemptTypes DEF WatchLeaves
    <3>2. q = s => loop'[s] \notin Unbatched
      <4> SUFFICES ASSUME q = s PROVE loop[s] \notin Unbatched
        BY <2>1
      <4>1. Occupied(s)
        BY DEF Occupied
      <4>2. loop[s] \in Over
        BY <1>1, <2>1, <4>1 DEF HasChannel
      <4>3. loop[s] # "broken"
        <5>1. PICK i \in Segments : seg[s][i] \in {"open", "closed"} \/ out[s][i] \in {"part", "whole"}
          BY <2>3 DEF HasSegments
        <5>2. loop[s] = "broken" => seg[s][i] = "none" /\ out[s][i] = "none"
          BY DEF FilesFollow, BatchesHold, Unbatched
        <5>3. QED
          BY <5>1, <5>2
      <4>4. QED
        BY <4>2, <4>3 DEF Over, Unbatched, InSession
    <3> HIDE DEF q
    <3>3. \A b \in 1..MaxBatches :
            \/ batch'[b] = batch[b]
            \/ batch[b].of # s /\ batch'[b].of # s
            \/ /\ batch[b].todo = {} /\ batch'[b].good = {}
               /\ batch'[b].of = s => loop'[s] \notin Unbatched
      BY <1>1, <2>1, <3>1, <3>2, QueueBatchFor
    <3>4. QED
      BY <1>1, <1>2, <1>4, <2>1, <2>2, <3>3, BatchesStay
  <2>4. CASE ~HasSegments(q)
    <3>1. UNCHANGED batch
      BY <1>5, <2>4 DEF WatchLeaves
    <3>2. QED
      BY <1>1, <1>2, <1>4, <2>1, <2>2, <3>1, BatchesStay
  <2>5. QED
    BY <2>3, <2>4
<1>6. CASE WatchBegins \/ WatchFindsNothing \/ WatchIsCancelled \/ WatchDetaches \/ Respawn \/ Start
  <2>1. UNCHANGED <<loop, batch>>
    BY <1>6 DEF WatchBegins, WatchFindsNothing, WatchIsCancelled, WatchDetaches, Respawn, Start
  <2>2. rm'.inflight = rm.inflight
    <3>1. CASE WatchBegins \/ WatchDetaches \/ Respawn
      BY <1>1, <3>1 DEF WatchBegins, WatchDetaches, Respawn, Stopped, Watching, Recorders
    <3>2. CASE WatchFindsNothing \/ WatchIsCancelled
      BY <1>1, <3>2 DEF WatchFindsNothing, WatchIsCancelled, AfterAttempt, Stopped, Watching, Forgotten,
                        Recorders
    <3>3. CASE Start
      BY <1>1, <3>3 DEF Start, Recording, Watching, Forgotten, Recorders
    <3>4. QED
      BY <1>6, <3>1, <3>2, <3>3
  <2>3. loop'[s] \in InSession => ~rm'.inflight
    BY <2>1, <2>2 DEF BatchesHold
  <2>4. QED
    BY <1>1, <1>2, <1>4, <2>1, <2>3, BatchesStay
<1>7. QED
  BY <1>3, <1>5, <1>6 DEF WatchStep

LEMMA StopFiles ==
  ASSUME SegInv, StopHolds, StopBegins \/ StopStep,
         NEW s \in Sessions \ disturbed, HasChannel(s), FilesFollow(s), BatchesHold(s)
  PROVE  FilesFollow(s)' /\ BatchesHold(s)'
<1>1. SegTypeOK /\ rm \in Recorders /\ s \in Sessions
  BY DEF SegInv, SegTypeOK, Recorders
<1>2. UNCHANGED <<loop, enc, seg, out>>
  BY DEF StopBegins, StopStep, StopSignals, StopEnds
<1>3. FilesFollow(s)'
  BY <1>1, <1>2, FilesStayFollowing DEF FilesFollow
<1>4. CASE StopBegins \/ StopSignals
  <2>1. UNCHANGED batch /\ rm'.inflight = rm.inflight
    BY <1>1, <1>4 DEF StopBegins, StopSignals, Recorders
  <2>2. loop'[s] \in InSession => ~rm'.inflight
    BY <1>2, <2>1 DEF BatchesHold
  <2>3. QED
    BY <1>1, <1>2, <1>3, <2>1, <2>2, BatchesStay
<1>5. CASE StopEnds
  <2> DEFINE killed == IF halt.pc = "kill" THEN [rm EXCEPT !.proc = NoSession] ELSE rm
             r == IF halt.asked THEN Forgotten(Stopped(killed)) ELSE Stopped(killed)
  <2>1. /\ halt.pc # "none"
        /\ IF halt.file # NoSession THEN QueueBatch(halt.file, r) ELSE UNCHANGED batch
    BY <1>5 DEF StopEnds
  <2>2. r \in Recorders
    <3>1. killed \in Recorders
      BY <1>1 DEF Recorders, MaybeSession
    <3> HIDE DEF killed
    <3>2. QED
      BY <3>1 DEF Forgotten, Stopped, Recorders, MaybeSession
  <2> HIDE DEF r
  <2>3. loop'[s] \notin InSession
    BY <1>1, <1>2, <2>1, LoopPlaces DEF HasChannel
  <2>4. CASE halt.file # NoSession
    <3>1. halt.file \in Sessions /\ halt.file # s
      BY <1>1, <2>4 DEF StopHolds, SegTypeOK, MaybeSession
    <3>2. \A b \in 1..MaxBatches :
            \/ batch'[b] = batch[b]
            \/ batch[b].of # s /\ batch'[b].of # s
            \/ /\ batch[b].todo = {} /\ batch'[b].good = {}
               /\ batch'[b].of = s => loop'[s] \notin Unbatched
      BY <1>1, <2>1, <2>2, <2>4, <3>1, QueueBatchFor
    <3>3. QED
      BY <1>1, <1>2, <1>3, <2>3, <3>2, BatchesStay
  <2>5. CASE halt.file = NoSession
    BY <1>1, <1>2, <1>3, <2>1, <2>3, <2>5, BatchesStay
  <2>6. QED
    BY <2>4, <2>5
<1>6. QED
  BY <1>4, <1>5 DEF StopStep

LEMMA EncoderFiles ==
  ASSUME SegInv, NEW q \in Sessions, NextSegment(q) \/ EncoderEnds(q),
         NEW s \in Sessions, FilesFollow(s), BatchesHold(s)
  PROVE  FilesFollow(s)' /\ BatchesHold(s)'
<1>1. SegTypeOK /\ UNCHANGED <<rm, loop, out, batch>> /\ enc[q] = "alive"
  BY DEF SegInv, NextSegment, EncoderEnds
<1>2. s # q => seg'[s] = seg[s] /\ enc'[s] = enc[s]
  BY <1>1 DEF NextSegment, EncoderEnds, SegTypeOK
<1>3. s = q => /\ loop[s] \notin {"unused", "born", "spawning", "broken"}
               /\ loop[s] \notin {"closing", "leaving", "done"}
  BY <1>1 DEF FilesFollow
<1>4. CASE NextSegment(q)
  <2>1. UNCHANGED enc
    BY <1>4 DEF NextSegment
  <2>2. s = q => \A i \in Segments : seg'[s][i] = "removed" => seg[s][i] = "removed"
    BY <1>1, <1>4 DEF NextSegment, SegTypeOK
  <2>3. FilesFollow(s)'
    BY <1>1, <1>2, <1>3, <2>1 DEF FilesFollow
  <2>4. loop'[s] \in Batched => s # q
    BY <1>1, <1>3 DEF Batched
  <2>5. QED
    BY <1>1, <1>2, <2>2, <2>3, <2>4, BatchesStay DEF BatchesHold
<1>5. CASE EncoderEnds(q)
  <2>1. s = q => \A i \in Segments : /\ seg'[s][i] = "removed" => seg[s][i] = "removed"
                                     /\ seg'[s][i] # "open"
    BY <1>1, <1>5 DEF EncoderEnds, SegTypeOK
  <2>2. FilesFollow(s)'
    BY <1>1, <1>2, <1>3, <2>1 DEF FilesFollow
  <2>3. loop'[s] \in Batched => s # q
    BY <1>1, <1>3 DEF Batched
  <2>4. QED
    BY <1>1, <1>2, <2>1, <2>2, <2>3, BatchesStay DEF BatchesHold
<1>6. QED
  BY <1>4, <1>5

\* A pass over a finished segment makes a complete output or none, whatever
\* another batch made of it before.
LEMMA BatchFiles ==
  ASSUME SegInv, NEW c \in 1..MaxBatches, BatchStep(c),
         NEW s \in Sessions, FilesFollow(s), BatchesHold(s)
  PROVE  FilesFollow(s)' /\ BatchesHold(s)'
<1>1. /\ SegTypeOK /\ UNCHANGED <<loop, enc>>
      /\ batch \in [1..MaxBatches -> Batches]
      /\ seg \in [Sessions -> [Segments -> {"none", "open", "closed", "removed"}]]
      /\ out \in [Sessions -> [Segments -> {"none", "failed", "part", "whole"}]]
  BY DEF SegInv, SegTypeOK, Batches, BatchStep, EncodeNext, BatchDone
<1>2. CASE BatchDone(c)
  <2>1. /\ batch[c].todo = {} /\ batch' = [batch EXCEPT ![c] = NoBatch]
        /\ rm' = [rm EXCEPT !.inflight = FALSE] /\ UNCHANGED <<seg, out>>
    BY <1>2 DEF BatchDone
  <2>2. ~rm'.inflight
    BY <1>1, <2>1 DEF SegTypeOK
  <2>3. \A b \in 1..MaxBatches :
            \/ batch'[b] = batch[b]
            \/ /\ batch[b].todo = {} /\ batch'[b].good = {}
               /\ batch'[b].of = s => loop'[s] \notin Unbatched
    BY <1>1, <2>1, NoSessionIsNone DEF NoBatch
  <2>4. QED
    BY <1>1, <2>1, <2>2, <2>3, BatchesStay, FilesStayFollowing DEF FilesFollow
<1>3. CASE EncodeNext(c)
  <2> DEFINE q == batch[c].of
             i == Min(batch[c].todo)
             left == batch[c].todo \ {i}
  <2>1. batch[c].todo # {} /\ batch[c].todo \subseteq Segments /\ batch[c].good \subseteq Segments
        /\ UNCHANGED rm
    BY <1>1, <1>3 DEF EncodeNext, Batches
  <2>2. i \in Segments
    <3>1. batch[c].todo \subseteq Nat
      BY <2>1, SegmentAssumption DEF Segments
    <3>2. QED
      BY <2>1, <3>1, MinIsMember
  <2>3. PICK ok \in BOOLEAN :
          LET good == IF ok THEN batch[c].good \cup {i} ELSE batch[c].good IN
          /\ out' = [out EXCEPT ![q][i] = Better(@, Encoded(q, i, ok))]
          /\ batch' = [batch EXCEPT ![c].todo = left, ![c].good = good]
          /\ seg' = Removed(q, left, good)
    BY <1>3 DEF EncodeNext
  <2> HIDE DEF i
  <2> DEFINE good == IF ok THEN batch[c].good \cup {i} ELSE batch[c].good
             row == [batch[c] EXCEPT !.todo = left, !.good = good]
  <2>4. row.of = q /\ row.todo = left /\ row.good = good
    BY <1>1 DEF Batches
  <2>5. batch' = [batch EXCEPT ![c] = row]
    BY <2>3
  <2>6. seg' = Removed(q, left, good)
    BY <2>3
  <2> HIDE DEF row, good
  <2>7. batch'[c] = row /\ \A b \in 1..MaxBatches : b # c => batch'[b] = batch[b]
    BY <1>1, <2>5
  <2>8. CASE s # q
    <3>1. out'[s] = out[s] /\ seg'[s] = seg[s]
      BY <1>1, <2>3, <2>6, <2>8 DEF Removed
    <3>2. FilesFollow(s)'
      BY <1>1, <3>1 DEF FilesFollow
    <3>3. \A b \in 1..MaxBatches : batch'[b] = batch[b] \/ (batch[b].of # s /\ batch'[b].of # s)
      BY <2>4, <2>7, <2>8
    <3>4. loop'[s] \in InSession => ~rm'.inflight
      BY <1>1, <2>1 DEF BatchesHold
    <3>5. QED
      BY <1>1, <3>1, <3>2, <3>3, <3>4, BatchesStay
  <2>9. CASE s = q
    <3>1. loop[s] \in Batched /\ loop[s] \notin Unbatched /\ loop[s] \notin InSession
      BY <1>1, <2>9, LoopPlaces DEF BatchesHold, Unbatched
    <3>2. enc[s] = "gone" /\ \A k \in Segments : seg[s][k] # "open"
      BY <3>1 DEF FilesFollow, Batched
    <3>3. /\ \A k \in Segments : k # i => out'[s][k] = out[s][k]
          /\ out'[s][i] = Better(out[s][i], Encoded(s, i, ok))
      BY <1>1, <2>2, <2>3, <2>9
    <3>4. /\ out[s][i] \in {"none", "failed", "whole"}
          /\ Encoded(s, i, ok) = IF ok THEN "whole" ELSE "failed"
      BY <1>1, <2>2, <3>2 DEF BatchesHold, Encoded
    <3>5. /\ out'[s][i] \in {"failed", "whole"}
          /\ out[s][i] = "whole" => out'[s][i] = "whole"
          /\ ok => out'[s][i] = "whole"
      BY <3>3, <3>4 DEF Better, Rank
    <3>6. \A k \in Segments : /\ out'[s][k] # "part"
                              /\ out[s][k] = "whole" => out'[s][k] = "whole"
                              /\ out[s][k] # "none" => out'[s][k] # "none"
      BY <3>3, <3>5 DEF BatchesHold
    <3>7. \A k \in good : k \in Segments /\ out'[s][k] = "whole"
      <4>1. \A k \in batch[c].good : k \in Segments /\ out[s][k] = "whole"
        BY <2>1, <2>9 DEF BatchesHold
      <4>2. QED
        BY <2>2, <3>5, <3>6, <4>1 DEF good
    <3>8. \A k \in Segments : seg'[s][k] = seg[s][k] \/ (seg'[s][k] = "removed" /\ k \in good /\ left = {})
      BY <1>1, <2>6, <2>9 DEF Removed
    <3>9. \A k \in Segments : seg'[s][k] = "removed" => out'[s][k] = "whole"
      BY <3>6, <3>7, <3>8 DEF BatchesHold
    <3>10. \A b \in 1..MaxBatches : batch'[b].of = s => \A k \in batch'[b].good : out'[s][k] = "whole"
      <4> SUFFICES ASSUME NEW b \in 1..MaxBatches, batch'[b].of = s, NEW k \in batch'[b].good
                   PROVE  out'[s][k] = "whole"
        OBVIOUS
      <4>1. CASE b = c
        BY <2>4, <2>7, <3>7, <4>1
      <4>2. CASE b # c
        <5>1. batch'[b] = batch[b] /\ k \in Segments
          BY <1>1, <2>7, <4>2 DEF Batches
        <5>2. QED
          BY <3>6, <5>1 DEF BatchesHold
      <4>3. QED
        BY <4>1, <4>2
    <3>11. ASSUME NEW k \in Segments, seg'[s][k] # "none"
           PROVE  \/ out'[s][k] # "none"
                  \/ \E b \in 1..MaxBatches : batch'[b].of = s /\ k \in batch'[b].todo
      <4>1. CASE k = i
        BY <3>5, <4>1
      <4>2. CASE k # i /\ out[s][k] # "none"
        BY <3>6, <4>2
      <4>3. CASE k # i /\ out[s][k] = "none"
        <5>1. seg[s][k] # "none"
          BY <3>6, <3>7, <3>8, <3>11, <4>3, <3>3
        <5>2. PICK b \in 1..MaxBatches : batch[b].of = s /\ k \in batch[b].todo
          BY <3>1, <4>3, <5>1 DEF BatchesHold
        <5>3. CASE b = c
          BY <2>4, <2>7, <2>9, <4>3, <5>2, <5>3
        <5>4. CASE b # c
          BY <2>7, <5>2, <5>4
        <5>5. QED
          BY <5>3, <5>4
      <4>4. QED
        BY <4>1, <4>2, <4>3
    <3>12. FilesFollow(s)'
      <4>1. \A k \in Segments : seg'[s][k] # "open"
        BY <3>2, <3>8
      <4>2. QED
        BY <1>1, <3>1, <3>2, <4>1 DEF FilesFollow, Unbatched, InSession
    <3>13. BatchesHold(s)'
      BY <1>1, <3>1, <3>6, <3>9, <3>10, <3>11 DEF BatchesHold
    <3>14. QED
      BY <3>12, <3>13
  <2>10. QED
    BY <2>8, <2>9
<1>4. QED
  BY <1>2, <1>3 DEF BatchStep

LEMMA ProcessedInitially == SegInit => ProcessedIInv
<1> SUFFICES ASSUME SegInit PROVE ProcessedIInv
  OBVIOUS
<1>1. SegInv /\ StopHolds
  BY SegInitEstablishes, StopHoldsInitially
<1>2. ASSUME NEW s \in Sessions
      PROVE  HasChannel(s) /\ FilesFollow(s) /\ BatchesHold(s)
  <2>1. /\ loop[s] = "unused" /\ enc[s] = "none" /\ watch.session # s
        /\ \A i \in Segments : seg[s][i] = "none" /\ out[s][i] = "none"
        /\ \A b \in 1..MaxBatches : batch[b].of # s
    BY <1>2, NoSessionIsNone DEF SegInit, NoWatch, NoBatch
  <2>2. HasChannel(s)
    BY <2>1 DEF HasChannel, Occupied, Running
  <2>3. QED
    BY <2>1, <2>2 DEF FilesFollow, BatchesHold, InSession, Batched
<1>3. QED
  BY <1>1, <1>2 DEF ProcessedIInv

LEMMA ProcessedKept == ProcessedIInv /\ [SegNext]_vars => ProcessedIInv'
<1> SUFFICES ASSUME ProcessedIInv, [SegNext]_vars PROVE ProcessedIInv'
  OBVIOUS
<1>1. SegInv /\ StopHolds /\ SegInv'
  BY SegNextKeeps DEF ProcessedIInv
<1>2. disturbed \subseteq disturbed'
  BY DEF SegNext, WatchStep, WatchBegins, WatchFindsNothing, WatchOpens, WatchIsCancelled, WatchDetaches,
         WatchLeaves, Respawn, Start, StopBegins, StopStep, StopSignals, StopEnds, LoopStep, LoopEnters,
         LoopRegisters, LaunchFails, LoopSeesStop, LoopSeesEnd, LoopQueues, LoopLeaves, NextSegment,
         EncoderEnds, BatchStep, EncodeNext, BatchDone, vars
<1>3. \A s \in Sessions \ disturbed' :
        s \in Sessions \ disturbed /\ HasChannel(s) /\ FilesFollow(s) /\ BatchesHold(s)
  BY <1>2 DEF ProcessedIInv
<1> DEFINE Kept == StopHolds' /\ \A s \in Sessions \ disturbed' : (HasChannel(s) /\ FilesFollow(s) /\ BatchesHold(s))'
<1>4. ASSUME WatchStep \/ Respawn \/ Start
      PROVE  Kept
  BY <1>1, <1>3, <1>4, WatchStopHolds, WatchChannel, WatchFiles
<1>5. ASSUME StopBegins \/ StopStep
      PROVE  Kept
  BY <1>1, <1>3, <1>5, StopStopHolds, StopChannel, StopFiles
<1>6. ASSUME NEW q \in Sessions, LoopStep(q)
      PROVE  Kept
  <2>1. UNCHANGED <<fsm, watch, respawn, halt, disturbed>>
    BY <1>6 DEF LoopStep, LoopEnters, LoopRegisters, LaunchFails, LoopSeesStop, LoopSeesEnd, LoopQueues, LoopLeaves
  <2>2. StopHolds'
    BY <1>1, <2>1 DEF StopHolds
  <2>3. QED
    BY <1>1, <1>3, <1>6, <2>2, LoopChannel, LoopFiles
<1>7. ASSUME NEW q \in Sessions, NextSegment(q) \/ EncoderEnds(q)
      PROVE  Kept
  <2>1. UNCHANGED <<fsm, watch, respawn, halt, loop, disturbed>>
    BY <1>7 DEF NextSegment, EncoderEnds
  <2>2. StopHolds'
    BY <1>1, <2>1 DEF StopHolds
  <2>3. QED
    BY <1>1, <1>3, <1>7, <2>1, <2>2, FileChannel, EncoderFiles
<1>8. ASSUME NEW b \in 1..MaxBatches, BatchStep(b)
      PROVE  Kept
  <2>1. UNCHANGED <<fsm, watch, respawn, halt, loop, disturbed>>
    BY <1>8 DEF BatchStep, EncodeNext, BatchDone
  <2>2. StopHolds'
    BY <1>1, <2>1 DEF StopHolds
  <2>3. QED
    BY <1>1, <1>3, <1>8, <2>1, <2>2, FileChannel, BatchFiles
<1>9. ASSUME UNCHANGED vars
      PROVE  Kept
  BY <1>1, <1>3, <1>9 DEF vars, StopHolds, HasChannel, Occupied, FilesFollow, BatchesHold
<1>10. Kept
  BY <1>4, <1>5, <1>6, <1>7, <1>8, <1>9 DEF SegNext
<1>11. QED
  BY <1>1, <1>10 DEF ProcessedIInv

\* What carries the fate of a session that neither a stop nor another session
\* met: it has the channel to itself until its loop has asked for its batch, and
\* whoever asks again reads finished segments (live_recorder.py:1720-1857).
THEOREM SessionsHaveTheirBatches == SegSpec => []ProcessedIInv
<1>1. SegInit => ProcessedIInv
  BY ProcessedInitially
<1>2. ProcessedIInv /\ [SegNext]_vars => ProcessedIInv'
  BY ProcessedKept
<1>3. QED
  BY <1>1, <1>2, PTL DEF SegSpec

\* Such a session is processed: every segment was tried or is in a batch when its
\* loop and its watch are done, none was taken unfinished, and no source was
\* removed without a complete output, whichever batches overlap and whoever drops
\* the mark (live_recorder.py:1817-1857, 2274-2304).
THEOREM UndisturbedSessionsAreProcessed == SegSpec => []UndisturbedIsProcessed
<1>1. ProcessedIInv => UndisturbedIsProcessed
  BY DEF ProcessedIInv, BatchesHold, UndisturbedIsProcessed, FinishedSession, Batched
<1>2. QED
  BY <1>1, SessionsHaveTheirBatches, PTL
=============================================================================
