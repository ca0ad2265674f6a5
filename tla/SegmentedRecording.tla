------------------------- MODULE SegmentedRecording -------------------------
(***************************************************************************)
(* One channel of a deployment without the v2 controller, with split       *)
(* recording and its post-processing switched on: the state machine of     *)
(* module/channel_fsm.py, the attempt of its watch task                    *)
(* (module/live_recorder.py, chzzkStartRecording), the segment loop that   *)
(* the attempt shields (runSegLoop), the ffmpeg process that writes the    *)
(* segments, and the batches that encode them (batchEncodeSegments).       *)
(*                                                                         *)
(* What these coroutines know of each other are the class variables of     *)
(* RecorderManager (rm).  All of it runs on one event loop: a step is what *)
(* happens between two awaits that really suspend, and a task that is      *)
(* created runs before anything that waits for a timer or a process.       *)
(***************************************************************************)
EXTENDS Integers, FiniteSetsExt

CONSTANTS
    MaxSessions,    \* bound: recordings in one behaviour
    MaxSegments,    \* bound: segment files of a recording
    MaxBatches,     \* bound: batches that encode at the same time
    DeleteSources   \* deleteAfterPostProcessing

ASSUME SegmentAssumption ==
    /\ MaxSessions \in Nat \ {0}
    /\ MaxSegments \in Nat \ {0}
    /\ MaxBatches \in Nat \ {0}
    /\ DeleteSources \in BOOLEAN

VARIABLES
    fsm,        \* ChannelRuntime: state and stop_requested
    rm,         \* RecorderManager: what is kept of the channel
    watch,      \* the watch task
    respawn,    \* whether a respawn task sleeps
    halt,       \* the stop that holds the channel's lock across awaits
    loop,       \* runSegLoop of each session
    enc,        \* the ffmpeg process of each session
    seg,        \* the segment files of each session
    out,        \* the best that was made of each segment
    batch,      \* the batches being encoded
    disturbed   \* history: sessions that a stop, or another session, met

vars == <<fsm, rm, watch, respawn, halt, loop, enc, seg, out, batch, disturbed>>

Sessions == 1..MaxSessions
Segments == 1..MaxSegments
NoSession == 0
MaybeSession == Sessions \cup {NoSession}

NoWatch == [pc |-> "none", session |-> NoSession, cancelled |-> FALSE]
NoHalt == [pc |-> "none", asked |-> FALSE, file |-> NoSession, target |-> NoSession]
NoBatch == [of |-> NoSession, todo |-> {}, good |-> {}]

\* A loop runs from its first step to the end of its task; "broken" is a task
\* that ended by an exception.
Running == {"spawning", "recording", "ending", "closing", "leaving"}
Over == {"done", "broken"}

SegTypeOK ==
    /\ fsm \in [state : {"STOPPED", "WATCHING", "RECORDING"}, stop : BOOLEAN]
    /\ rm \in [stopped : BOOLEAN, recording : BOOLEAN, proc : MaybeSession,
               file : MaybeSession, inflight : BOOLEAN]
    /\ watch \in [pc : {"none", "born", "meta", "inside", "detached"},
                  session : MaybeSession, cancelled : BOOLEAN]
    /\ (watch.session # NoSession) <=> (watch.pc \in {"inside", "detached"})
    /\ respawn \in BOOLEAN
    /\ halt \in [pc : {"none", "cancel", "kill"}, asked : BOOLEAN,
                 file : MaybeSession, target : MaybeSession]
    /\ loop \in [Sessions -> {"unused", "born"} \cup Running \cup Over]
    /\ enc \in [Sessions -> {"none", "alive", "gone"}]
    /\ seg \in [Sessions -> [Segments -> {"none", "open", "closed", "removed"}]]
    /\ out \in [Sessions -> [Segments -> {"none", "failed", "part", "whole"}]]
    /\ batch \in [1..MaxBatches ->
                    [of : MaybeSession, todo : SUBSET Segments, good : SUBSET Segments]]
    /\ disturbed \subseteq Sessions

-----------------------------------------------------------------------------
\* What RecorderManager and the state machine remember together.

Stopped(r) == [r EXCEPT !.recording = FALSE, !.stopped = TRUE]
Watching(r) == [r EXCEPT !.recording = FALSE, !.stopped = FALSE]
Recording(r) == [r EXCEPT !.recording = TRUE, !.stopped = FALSE]
StoppedFsm == [state |-> "STOPPED", stop |-> TRUE]
WatchingFsm == [state |-> "WATCHING", stop |-> FALSE]
RecordingFsm == [state |-> "RECORDING", stop |-> FALSE]

\* The end of a session, of a cancelled attempt and of a stop over the API
\* forget the process, the file and the flag of the channel, whoever set them.
\* Mutant: the file stays.
ForgottenButFile(r) == [r EXCEPT !.recording = FALSE, !.proc = NoSession]
Forgotten(r) == [r EXCEPT !.recording = FALSE, !.proc = NoSession, !.file = NoSession]

ProcAlive == rm.proc # NoSession /\ enc[rm.proc] = "alive"

Occupied(s) == watch.session = s \/ loop[s] \in {"born"} \cup Running
Used == {s \in Sessions : loop[s] # "unused"}

-----------------------------------------------------------------------------
\* Post-processing.

\* The source segments that a listing of the session's folder finds.
Listed(s) == {i \in Segments : seg[s][i] \in {"open", "closed"}}

Idle == {b \in DOMAIN batch : batch[b] = NoBatch}

\* queueBatchPattern: refused while the channel's mark is set, else a task that
\* lists the folder as soon as it runs.  r is rm as its caller leaves it.
QueueBatch(s, r) ==
    IF r.inflight
    THEN rm' = r /\ UNCHANGED batch
    ELSE /\ Idle # {}
         /\ rm' = [r EXCEPT !.inflight = TRUE]
         /\ batch' = [batch EXCEPT ![Min(Idle)] =
                         [of |-> s, todo |-> Listed(s), good |-> {}]]

Rank(o) == CASE o = "none" -> 0 [] o = "failed" -> 1 [] o = "part" -> 2 [] OTHER -> 3
Better(o, p) == IF Rank(p) > Rank(o) THEN p ELSE o

\* The next segment in order.  An encoder reads what the file holds when it gets
\* to its end; all its passes may fail, and do for a file that was removed.
Encoded(s, i, ok) == IF ~ok THEN "failed" ELSE IF seg[s][i] = "open" THEN "part" ELSE "whole"

\* Sources go at once when the last segment was tried, for every output made.
Removed(s, todo, good) ==
    IF todo = {} /\ DeleteSources
    THEN [seg EXCEPT ![s] = [i \in Segments |-> IF i \in good THEN "removed" ELSE @[i]]]
    ELSE seg

EncodeNext(b) ==
    LET s == batch[b].of  i == Min(batch[b].todo)  left == batch[b].todo \ {i} IN
    /\ batch[b].todo # {}
    /\ \E ok \in {FALSE} \cup (IF seg[s][i] = "removed" THEN {} ELSE {TRUE}) :
          LET good == IF ok THEN batch[b].good \cup {i} ELSE batch[b].good IN
          /\ out' = [out EXCEPT ![s][i] = Better(@, Encoded(s, i, ok))]
          /\ batch' = [batch EXCEPT ![b].todo = left, ![b].good = good]
          /\ seg' = Removed(s, left, good)
    /\ UNCHANGED <<fsm, rm, watch, respawn, halt, loop, enc, disturbed>>

\* The task ends, its outputs moved: its callback drops the channel's mark,
\* whichever batch set it.
BatchDone(b) ==
    /\ batch[b].of # NoSession
    /\ batch[b].todo = {}
    /\ batch' = [batch EXCEPT ![b] = NoBatch]
    /\ rm' = [rm EXCEPT !.inflight = FALSE]
    /\ UNCHANGED <<fsm, watch, respawn, halt, loop, enc, seg, out, disturbed>>

-----------------------------------------------------------------------------
\* The ffmpeg process: it fills a segment and goes on to the next one, and it
\* ends with its input, by itself, or because it is told to.

NextSegment(s) ==
    LET fresh == {i \in Segments : seg[s][i] = "none"}
        Rolled(i) == IF i = Min(fresh) THEN "open"
                     ELSE IF seg[s][i] = "open" THEN "closed" ELSE seg[s][i]
    IN
    /\ enc[s] = "alive"
    /\ loop[s] = "recording"
    /\ fresh # {}
    /\ seg' = [seg EXCEPT ![s] = [i \in Segments |-> Rolled(i)]]
    /\ UNCHANGED <<fsm, rm, watch, respawn, halt, loop, enc, out, batch, disturbed>>

EncoderEnds(s) ==
    /\ enc[s] = "alive"
    /\ enc' = [enc EXCEPT ![s] = "gone"]
    /\ seg' = [seg EXCEPT ![s] = [i \in Segments |-> IF @[i] = "open" THEN "closed" ELSE @[i]]]
    /\ UNCHANGED <<fsm, rm, watch, respawn, halt, loop, out, batch, disturbed>>

-----------------------------------------------------------------------------
\* runSegLoop.

LoopEnters(s) ==
    /\ loop[s] = "born"
    /\ loop' = [loop EXCEPT ![s] = "spawning"]
    /\ rm' = [rm EXCEPT !.recording = TRUE]
    /\ UNCHANGED <<fsm, watch, respawn, halt, enc, seg, out, batch, disturbed>>

\* Both processes run: the channel's handle and file are this session's.
LoopRegisters(s) ==
    /\ loop[s] = "spawning"
    /\ loop' = [loop EXCEPT ![s] = "recording"]
    /\ enc' = [enc EXCEPT ![s] = "alive"]
    /\ rm' = [rm EXCEPT !.proc = s, !.file = s]
    /\ UNCHANGED <<fsm, watch, respawn, halt, seg, out, batch, disturbed>>

\* A launch that fails enters the finally clause without an ffmpeg, whose wait
\* there raises: nothing behind it is done.
LaunchFails(s) ==
    /\ loop[s] = "spawning"
    /\ loop' = [loop EXCEPT ![s] = "broken"]
    /\ UNCHANGED <<fsm, rm, watch, respawn, halt, enc, seg, out, batch, disturbed>>

\* Mutant: the loop heeds a stop only while the handle is its own.
LoopSeesStopIfCurrent(s) ==
    /\ loop[s] = "recording"
    /\ enc[s] = "alive"
    /\ rm.stopped
    /\ rm.proc = s
    /\ loop' = [loop EXCEPT ![s] = "ending"]
    /\ UNCHANGED <<fsm, rm, watch, respawn, halt, enc, seg, out, batch, disturbed>>

\* The poll of the loop: its process ended, or the channel is being stopped and
\* ffmpeg gets the end of its input, a TERM or a KILL.
LoopSeesStop(s) ==
    /\ loop[s] = "recording"
    /\ enc[s] = "alive"
    /\ rm.stopped
    /\ loop' = [loop EXCEPT ![s] = "ending"]
    /\ UNCHANGED <<fsm, rm, watch, respawn, halt, enc, seg, out, batch, disturbed>>

LoopSeesEnd(s) ==
    /\ loop[s] \in {"recording", "ending"}
    /\ enc[s] = "gone"
    /\ loop' = [loop EXCEPT ![s] = "closing"]
    /\ UNCHANGED <<fsm, rm, watch, respawn, halt, enc, seg, out, batch, disturbed>>

\* Heartbeat, streamlink and pump are gone, the last segment has settled.
LoopQueues(s) ==
    /\ loop[s] = "closing"
    /\ loop' = [loop EXCEPT ![s] = "leaving"]
    /\ IF Listed(s) # {} THEN QueueBatch(s, rm) ELSE UNCHANGED <<rm, batch>>
    /\ UNCHANGED <<fsm, watch, respawn, halt, enc, seg, out, disturbed>>

\* The readers are done; the channel's flag, file and handle are dropped.
LoopLeaves(s) ==
    /\ loop[s] = "leaving"
    /\ loop' = [loop EXCEPT ![s] = "done"]
    /\ rm' = Forgotten(rm)
    /\ UNCHANGED <<fsm, watch, respawn, halt, enc, seg, out, batch, disturbed>>

-----------------------------------------------------------------------------
\* The watch task.

\* The finally clause of _run: r is rm as the attempt leaves it.
AfterAttempt(r) == IF fsm.stop THEN Stopped(r) ELSE Watching(r)
Rested == IF fsm.stop THEN StoppedFsm ELSE WatchingFsm
EndWatch ==
    /\ watch' = NoWatch
    /\ fsm' = Rested
    /\ respawn' = (respawn \/ ~fsm.stop)

\* A watch asks for the metadata, unless it was stopped before its first step.
\* It has just cleared the flag that the attempt's guard against a second
\* recording reads, so that the guard lets it pass.
WatchBegins ==
    /\ watch.pc = "born"
    /\ IF fsm.stop
       THEN /\ watch' = NoWatch
            /\ fsm' = StoppedFsm
            /\ rm' = Stopped(rm)
       ELSE /\ watch' = [watch EXCEPT !.pc = "meta"]
            /\ fsm' = WatchingFsm
            /\ rm' = Watching(rm)
    /\ UNCHANGED <<respawn, halt, loop, enc, seg, out, batch, disturbed>>

\* The broadcast is not open (or looking for it failed).
WatchFindsNothing ==
    /\ watch.pc = "meta"
    /\ ~watch.cancelled
    /\ EndWatch
    /\ rm' = AfterAttempt([rm EXCEPT !.recording = FALSE])
    /\ UNCHANGED <<halt, loop, enc, seg, out, batch, disturbed>>

\* A new session starts with the mark down, whatever batch still has it.
\* Mutant: the mark stays while a batch runs.
UnmarkedWhenIdle(r) == [r EXCEPT !.inflight = @ /\ \E b \in DOMAIN batch : batch[b] # NoBatch]
Unmarked(r) == [r EXCEPT !.inflight = FALSE]

\* It is open: the mark of a batch in flight is dropped and the attempt waits,
\* shielded, for a new session.
WatchOpens ==
    LET s == Min(Sessions \ Used) IN
    /\ watch.pc = "meta"
    /\ ~watch.cancelled
    /\ Used # Sessions
    /\ watch' = [watch EXCEPT !.pc = "inside", !.session = s]
    /\ loop' = [loop EXCEPT ![s] = "born"]
    /\ rm' = Unmarked(rm)
    /\ disturbed' = disturbed \cup (IF \E t \in Used : Occupied(t) THEN {s} ELSE {})
    /\ UNCHANGED <<fsm, respawn, halt, enc, seg, out, batch>>

\* Cancelled while it looked: the attempt forgets the channel's recording and
\* ends, the channel being stopped.
WatchIsCancelled ==
    /\ watch.pc = "meta"
    /\ watch.cancelled
    /\ EndWatch
    /\ rm' = AfterAttempt(Forgotten(rm))
    /\ UNCHANGED <<halt, loop, enc, seg, out, batch, disturbed>>

\* Cancelled while it waited for its session: it leaves the session to itself
\* and sleeps a moment.
WatchDetaches ==
    /\ watch.pc = "inside"
    /\ watch.cancelled
    /\ watch' = [watch EXCEPT !.pc = "detached", !.cancelled = FALSE]
    /\ UNCHANGED <<fsm, rm, respawn, halt, loop, enc, seg, out, batch, disturbed>>

\* The attempt's finally clause asks for the batch as well, when its session is
\* over or the moment is; a new session's first step comes before that.
HasSegments(s) == \E i \in Segments : seg[s][i] \in {"open", "closed"} \/ out[s][i] \in {"part", "whole"}

WatchLeaves ==
    LET s == watch.session IN
    /\ \/ watch.pc = "inside" /\ ~watch.cancelled /\ loop[s] \in Over
       \/ watch.pc = "detached" /\ loop[s] # "born"
    /\ EndWatch
    /\ IF HasSegments(s)
       THEN QueueBatch(s, AfterAttempt(rm))
       ELSE rm' = AfterAttempt(rm) /\ UNCHANGED batch
    /\ UNCHANGED <<halt, loop, enc, seg, out, disturbed>>

Respawn ==
    /\ respawn
    /\ respawn' = FALSE
    /\ watch' = IF watch.pc = "none" /\ ~fsm.stop THEN [NoWatch EXCEPT !.pc = "born"] ELSE watch
    /\ UNCHANGED <<fsm, rm, halt, loop, enc, seg, out, batch, disturbed>>

-----------------------------------------------------------------------------
\* Start and stop.  A start has no await between its lock and its end; a start
\* or a stop that comes while a stop is carried out waits for it.

Start ==
    LET known == rm.recording \/ ProcAlive   \* by the API's check and by userStart's
        r == IF known THEN rm ELSE Forgotten(rm)
    IN
    /\ halt.pc = "none"
    /\ IF known
       THEN fsm' = RecordingFsm /\ rm' = Recording(r) /\ UNCHANGED watch
       ELSE IF fsm.state = "RECORDING" \/ (fsm.state = "WATCHING" /\ watch.pc # "none")
       THEN rm' = r /\ UNCHANGED <<fsm, watch>>
       ELSE /\ fsm' = WatchingFsm
            /\ rm' = Watching(r)
            /\ watch' = IF watch.pc = "none" THEN [NoWatch EXCEPT !.pc = "born"] ELSE watch
    /\ UNCHANGED <<respawn, halt, loop, enc, seg, out, batch, disturbed>>

\* asked: over the API, which also takes note of the file for a batch.
StopBegins ==
    /\ halt.pc = "none"
    /\ \E asked \in BOOLEAN :
          halt' = [NoHalt EXCEPT !.pc = "cancel", !.asked = asked,
                                 !.file = IF asked THEN rm.file ELSE NoSession]
    /\ fsm' = [fsm EXCEPT !.stop = TRUE]
    /\ rm' = [rm EXCEPT !.stopped = TRUE]
    /\ respawn' = FALSE
    /\ watch' = CASE watch.pc = "born" -> NoWatch
                  [] watch.pc \in {"meta", "inside"} -> [watch EXCEPT !.cancelled = TRUE]
                  [] OTHER -> watch
    /\ disturbed' = disturbed \cup {s \in Used : Occupied(s)}
    /\ UNCHANGED <<loop, enc, seg, out, batch>>

\* The watch is over; the process that the channel's handle names gets a TERM,
\* and a KILL when that does not help.
StopSignals ==
    /\ halt.pc = "cancel"
    /\ watch.pc = "none"
    /\ ProcAlive
    /\ halt' = [halt EXCEPT !.pc = "kill", !.target = rm.proc]
    /\ UNCHANGED <<fsm, rm, watch, respawn, loop, enc, seg, out, batch, disturbed>>

StopEnds ==
    /\ \/ halt.pc = "cancel" /\ watch.pc = "none" /\ ~ProcAlive
       \/ halt.pc = "kill" /\ enc[halt.target] = "gone"
    /\ halt' = NoHalt
    /\ fsm' = StoppedFsm
    /\ LET killed == IF halt.pc = "kill" THEN [rm EXCEPT !.proc = NoSession] ELSE rm
           r == IF halt.asked THEN Forgotten(Stopped(killed)) ELSE Stopped(killed)
       IN  IF halt.file # NoSession
           THEN QueueBatch(halt.file, r)
           ELSE rm' = r /\ UNCHANGED batch
    /\ UNCHANGED <<watch, respawn, loop, enc, seg, out, disturbed>>

-----------------------------------------------------------------------------
SegInit ==
    /\ fsm = StoppedFsm
    /\ rm = [stopped |-> FALSE, recording |-> FALSE, proc |-> NoSession,
             file |-> NoSession, inflight |-> FALSE]
    /\ watch = NoWatch
    /\ respawn = FALSE
    /\ halt = NoHalt
    /\ loop = [s \in Sessions |-> "unused"]
    /\ enc = [s \in Sessions |-> "none"]
    /\ seg = [s \in Sessions |-> [i \in Segments |-> "none"]]
    /\ out = [s \in Sessions |-> [i \in Segments |-> "none"]]
    /\ batch = [b \in 1..MaxBatches |-> NoBatch]
    /\ disturbed = {}

WatchStep ==
    \/ WatchBegins
    \/ WatchFindsNothing
    \/ WatchOpens
    \/ WatchIsCancelled
    \/ WatchDetaches
    \/ WatchLeaves

LoopStep(s) ==
    \/ LoopEnters(s)
    \/ LoopRegisters(s)
    \/ LaunchFails(s)
    \/ LoopSeesStop(s)
    \/ LoopSeesEnd(s)
    \/ LoopQueues(s)
    \/ LoopLeaves(s)

BatchStep(b) == EncodeNext(b) \/ BatchDone(b)

StopStep == StopSignals \/ StopEnds

SegNext ==
    \/ WatchStep
    \/ Respawn
    \/ Start
    \/ StopBegins
    \/ StopStep
    \/ \E s \in Sessions : LoopStep(s) \/ NextSegment(s) \/ EncoderEnds(s)
    \/ \E b \in 1..MaxBatches : BatchStep(b)

\* Coroutines that can go on do; an encoder's passes end; ffmpeg does not
\* survive being ended, by its loop or by the stop that has its handle.
IsEnded(s) == loop[s] = "ending" \/ (halt.pc = "kill" /\ halt.target = s)

SegFairness ==
    /\ WF_vars(WatchStep)
    /\ WF_vars(StopStep)
    /\ \A s \in Sessions : WF_vars(LoopStep(s))
    /\ \A s \in Sessions : WF_vars(IsEnded(s) /\ EncoderEnds(s))
    /\ \A b \in 1..MaxBatches : WF_vars(BatchStep(b))

SegSpec == SegInit /\ [][SegNext]_vars /\ SegFairness

-----------------------------------------------------------------------------
\* The channel says that it records, and holds a process and a file, only while
\* a session stands behind it: nothing is left of a session that is over, or
\* what is left is about to be cleared.  A flag without a session makes every
\* further start a no-op; a stale handle makes a stop wait for the wrong process.
FlagsAreBacked ==
    /\ rm.recording => \/ \E s \in Sessions : loop[s] \in Running
                       \/ watch.session # NoSession
                       \/ halt.pc # "none"
    /\ rm.proc # NoSession => loop[rm.proc] \in Running
    /\ rm.file # NoSession => loop[rm.file] \in Running

\* A channel that is said to be watched has a watch task, or one that will be
\* made when the pause is over, or a stop that will say otherwise.
WatchIsAttended ==
    fsm.state = "WATCHING" => watch.pc # "none" \/ respawn \/ halt.pc # "none"

\* The mark that refuses further batches of the channel is set only while one is
\* encoded: a mark left behind would keep every later recording unprocessed.
MarkIsBacked == rm.inflight => \E b \in 1..MaxBatches : batch[b] # NoBatch

\* What FlagsAreBacked and WatchIsAttended need to be inductive.  A session has
\* its watch until its loop takes its first step; the handles are set one step
\* after the flag; the flag outlives a launch only while a watch will clear it.
Registered == Running \ {"spawning"}

BornIsWatched == \A s \in Sessions : loop[s] = "born" => watch.session = s

HandlesAreRegistered ==
    /\ rm.proc # NoSession => loop[rm.proc] \in Registered
    /\ rm.file # NoSession => loop[rm.file] \in Registered

FlagIsBacked ==
    rm.recording => \/ \E s \in Sessions : loop[s] \in Registered
                    \/ watch.session # NoSession
                    \/ halt.pc # "none"

\* Only a stop that is being carried out finds the channel still watching.
WatchedStopIsHeld == fsm.state = "WATCHING" /\ fsm.stop => halt.pc # "none"

MarkHasSession == rm.inflight => \E b \in 1..MaxBatches : batch[b].of # NoSession

\* What an induction over the steps carries: the flag, the handles, the watch and
\* the mark of a channel always have something that stands behind them, and that
\* will clear them.  FlagsAreBacked and MarkIsBacked follow.
SegInv ==
    /\ SegTypeOK
    /\ BornIsWatched
    /\ HandlesAreRegistered
    /\ FlagIsBacked
    /\ WatchIsAttended
    /\ WatchedStopIsHeld
    /\ MarkHasSession

\* A session that no stop met, and that began when no other session was running,
\* is processed: once its loop and its watch are done with it, every segment was
\* tried or is in the batch being encoded, as it was when its recorder was gone,
\* and no source was removed without a complete output.  Neither a batch of the
\* session before nor the second request for a batch gets in its way.
FinishedSession(s) == loop[s] = "done" /\ watch.session # s
UndisturbedIsProcessed ==
    \A s \in Sessions \ disturbed : \A i \in Segments :
        /\ out[s][i] # "part"
        /\ seg[s][i] = "removed" => out[s][i] = "whole"
        /\ FinishedSession(s) /\ seg[s][i] # "none" =>
              \/ out[s][i] # "none"
              \/ \E b \in 1..MaxBatches : batch[b].of = s /\ i \in batch[b].todo

\* A stop ends every recording: whatever was being launched, recorded or left to
\* itself when it came is over in the end, or the channel was started again.
StopEndsRecording ==
    rm.stopped ~> (~rm.stopped \/ \A s \in Sessions : loop[s] \notin {"born"} \cup Running)

\* live_recorder.py says that the segment is waited for until it is complete and
\* released before a batch is asked for, and batchEncodeSegments keeps a source
\* that has no verified output.  So a source that was removed has a complete output.
SourcesOutliveTheirOutputs ==
    \A s \in Sessions, i \in Segments : seg[s][i] = "removed" => out[s][i] = "whole"
=============================================================================
