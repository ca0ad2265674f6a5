--------------------------- MODULE ChannelControl ---------------------------
(***************************************************************************)
(* One channel: its durable intent and commands, the controller of         *)
(* module/v2_channels.py, the state machine of module/channel_fsm.py with  *)
(* its watch and respawn tasks, the attempt of a watch task to record a    *)
(* live broadcast (module/live_recorder.py, one file per recording), and   *)
(* the other parts of the application that start and stop the channel      *)
(* without asking the controller.                                          *)
(*                                                                         *)
(* All of it runs on one event loop: a step is what happens between two    *)
(* awaits that really suspend.  Two locks order the coroutines: the        *)
(* controller's (svc says who holds it) and the state machine's (halt).    *)
(***************************************************************************)
EXTENDS CaptureGuard

CONSTANTS
    Broadcasts,     \* the channel's broadcasts; also the provider's ids of them
    Heuristics,     \* ids made up for a broadcast the provider did not identify
    Starts, Stops,  \* idempotency keys used for start_once and for stop_current
    Outside,        \* which of "start" and "stop" is called past the controller
    StartsRefused,  \* whether the operations rules may refuse a start
    NoBroadcast, NoCommand, NoCapture

ASSUME ChannelAssumption ==
    /\ Broadcasts \cap Heuristics = {}
    /\ NoBroadcast \notin Broadcasts \cup Heuristics
    /\ NoCommand \notin Starts \cup Stops
    /\ NoCapture \notin Captures
    /\ Outside \subseteq {"start", "stop"}
    /\ StartsRefused \in BOOLEAN

VARIABLES
    chan,      \* the channel's rows and what the controller holds about it
    fsm,       \* ChannelRuntime: state, stop request, and the recording flag
    watch,     \* the watch task
    respawn,   \* whether a respawn task sleeps
    svc,       \* who holds the controller's lock of the channel
    halt       \* who holds the state machine's lock across awaits

controlVars == <<chan, fsm, watch, respawn, svc, halt>>
vars == <<guardVars, controlVars>>

Commands == Starts \cup Stops   \* one per key
Ids == Broadcasts \cup Heuristics
MaybeId == Ids \cup {NoBroadcast}
Every == "*"   \* suppresses every broadcast of the channel

NoTake == [capture |-> NoCapture, id |-> NoBroadcast, of |-> NoBroadcast]
NoWatch == [pc |-> "none", cancelled |-> FALSE, user |-> FALSE, enabled |-> FALSE,
            take |-> NoTake]
Born(user) == [NoWatch EXCEPT !.pc = "born", !.user = user]

StoppedFsm == [state |-> "STOPPED", stop |-> TRUE, rec |-> FALSE]
WatchingFsm == [state |-> "WATCHING", stop |-> FALSE, rec |-> FALSE]
RecordingFsm == [state |-> "RECORDING", stop |-> FALSE, rec |-> TRUE]

NoService == [op |-> "none", cmd |-> NoCommand, id |-> NoBroadcast]
NoHalt == [by |-> "none", pc |-> "none"]

CommandStates == {"absent", "running", "succeeded", "failed", "interrupted", "blocked"}
Settled == {"succeeded", "failed", "interrupted", "blocked"}

\* take: the entry of _captures with its records in _owned_processes, which
\* are made and dropped together; of is the broadcast really recorded.
TakeType == [capture : Captures \cup {NoCapture}, id : MaybeId,
             of : Broadcasts \cup {NoBroadcast}]

ChannelType ==
    [mode : {"auto", "paused"}, suppressed : SUBSET (Ids \cup {Every}), observed : MaybeId,
     cmd : [Commands -> CommandStates], once : Commands \cup {NoCommand}, scope : MaybeId,
     continuing : MaybeId, current : MaybeId,
     stopping : BOOLEAN, blocked : BOOLEAN, take : TakeType]

ChannelTypeOK ==
    /\ GuardTypeOK
    /\ chan \in ChannelType
    /\ fsm \in [state : {"STOPPED", "WATCHING", "RECORDING"}, stop : BOOLEAN,
                rec : BOOLEAN]
    /\ watch \in [pc : {"none", "born", "meta", "admitted", "wait", "raised", "drain"},
                  cancelled : BOOLEAN, user : BOOLEAN, enabled : BOOLEAN, take : TakeType]
    /\ respawn \in BOOLEAN
    /\ svc \in [op : {"none", "once", "auto", "restart", "stop", "legacy", "pause"},
                cmd : Commands \cup {NoCommand}, id : MaybeId]
    /\ halt \in [by : {"none", "stop", "legacy", "pause", "outside", "shutdown"},
                 pc : {"none", "cancel", "join", "groups", "clean", "unclean"}]

-----------------------------------------------------------------------------
(***************************************************************************)
(* What the controller's methods make of the channel's record.             *)
(***************************************************************************)

\* observe_channel, as far as a later stop_current depends on it.
Observe(c, id) == [c EXCEPT !.observed = id]

Answer(c, k, state) == [c EXCEPT !.cmd[k] = state]

\* Mutant: the scope is dropped and its command left running.
FinishOnceSilently(c, state) == [c EXCEPT !.once = NoCommand, !.scope = NoBroadcast]

FinishOnce(c, state) ==
    IF c.once = NoCommand THEN c
    ELSE [Answer(c, c.once, state) EXCEPT !.once = NoCommand, !.scope = NoBroadcast]

ShouldWatch(c) ==
    /\ ~c.stopping /\ ~c.blocked
    /\ c.mode = "auto" \/ c.once # NoCommand \/ c.continuing # NoBroadcast

SessionIsManual(c) == c.once # NoCommand \/ c.continuing # NoBroadcast

\* capture_is_active; a group whose identity is in doubt is one that survives.
Active(c) == \E g \in Captures : g = c.take.capture /\ Survives(g)

Suppressed(c, id) == id \in c.suppressed \/ Every \in c.suppressed

\* A group that cannot be confirmed absent blocks the channel.
Block(c) == Observe([c EXCEPT !.blocked = TRUE], c.current)

\* Mutant: the entry goes when the leader has gone, whatever is left of its group.
CaptureFinishedByLeader(c) ==
    IF c.take # NoTake /\ group[c.take.capture] # "live"
    THEN [c EXCEPT !.take = NoTake, !.blocked = FALSE] ELSE c

CaptureFinished(c) ==
    IF c.take = NoTake THEN c
    ELSE CASE group[c.take.capture] = "absent" ->
                  [c EXCEPT !.take = NoTake, !.blocked = FALSE]
           [] group[c.take.capture] = "orphaned" -> Block(c)
           [] OTHER -> c

\* Mutant: a request without a broadcast waits for one.
AskedAgain(c) == c

\* A once request that found nothing live ends with the session.
Asked(c) == IF c.scope = NoBroadcast THEN FinishOnce(c, "failed") ELSE c

\* session_finished: the channel, and whether to go on watching.
SessionFinished(c, outcome) ==
    LET d     == CaptureFinished(c)
        heard == IF outcome = "RETRYABLE_ERROR" THEN Observe(d, d.current) ELSE d
        asked == Asked(heard)
        ended(state) == [FinishOnce(d, state) EXCEPT !.continuing = NoBroadcast]
    IN  CASE d.blocked  -> [chan |-> FinishOnce(d, "blocked"), again |-> FALSE]
          [] ~d.blocked /\ d.stopping -> [chan |-> ended("succeeded"), again |-> FALSE]
          [] ~d.blocked /\ ~d.stopping /\ outcome = "USER_STOPPED" ->
                 [chan |-> Observe(ended("failed"), NoBroadcast), again |-> FALSE]
          [] OTHER -> [chan |-> asked, again |-> ShouldWatch(asked)]

\* create_command for stop_current: the suppression commits with the command,
\* and without a provider's id it covers every broadcast of the channel.
Suppress(c, id) ==
    [c EXCEPT !.suppressed = @ \cup {id} \cup (IF id \in Heuristics THEN {Every} ELSE {})]

-----------------------------------------------------------------------------
(***************************************************************************)
(* The state machine: starting, and the end of a session.                  *)
(***************************************************************************)
LockFree == halt = NoHalt
Serving == Up /\ halt.by # "shutdown"

\* runtime.watch_task is there and not done; a stop takes it away.
Watched == watch.pc # "none" /\ ~watch.cancelled /\ halt.pc # "cancel"

\* Mutant: a watch task that runs already is replaced.
SpawnWatchAnew(user) == watch' = Born(user)

SpawnWatch(user) == IF Watched THEN UNCHANGED watch ELSE watch' = Born(user)

\* userStart, under the state machine's lock.
UserStart(c, user) ==
    LET busy == fsm.rec \/ Active(c)
        idle == fsm.state = "STOPPED" \/ (fsm.state = "WATCHING" /\ ~Watched)
    IN  IF ~ShouldWatch(c) /\ ~user
        THEN fsm' = StoppedFsm /\ UNCHANGED watch
        ELSE \/ busy /\ fsm' = RecordingFsm /\ UNCHANGED watch
             \/ ~busy /\ idle /\ fsm' = WatchingFsm /\ SpawnWatch(user)
             \/ ~busy /\ ~idle /\ UNCHANGED <<fsm, watch>>

\* The start guard of the operations runtime is asked first.
GuardedStart(c, user) ==
    \/ UserStart(c, user)
    \/ StartsRefused /\ UNCHANGED <<fsm, watch>>

\* _note_start_admission, after a guarded start
NoteAdmission(c) ==
    chan' = IF Active(c) \/ fsm'.state # "STOPPED" THEN c
            ELSE FinishOnce(Observe(c, NoBroadcast), "blocked")

Rewatch(again) ==
    IF again THEN fsm' = WatchingFsm /\ respawn' = TRUE
    ELSE fsm' = StoppedFsm /\ UNCHANGED respawn

\* The finally clause of a watch task that got as far as its session.
SessionEnds(c, outcome) ==
    LET done == SessionFinished(c, outcome)
    IN  /\ chan' = done.chan
        /\ watch' = NoWatch
        /\ Rewatch(done.again /\ ~fsm.stop)

-----------------------------------------------------------------------------
(***************************************************************************)
(* Requests to the controller.                                             *)
(***************************************************************************)
Free == Serving /\ svc = NoService

\* A key that is already there returns its command: nothing changes.
StartOnce(k, id) ==
    /\ Free
    /\ chan.cmd[k] = "absent"
    /\ IF chan.once # NoCommand \/ fsm.rec \/ Active(chan)
       THEN chan' = Answer(chan, k, "succeeded") /\ UNCHANGED svc   \* already_active
       ELSE /\ chan' = [Answer(chan, k, "running") EXCEPT !.once = k, !.scope = id]
            /\ svc' = [NoService EXCEPT !.op = "once", !.cmd = k]
    /\ UNCHANGED <<guardVars, fsm, watch, respawn, halt>>

\* stop_current up to its first await.  What the API shows as the current
\* broadcast is the controller's; what the repository compares is its own.
StopCurrent(k, id) ==
    /\ Free
    /\ chan.cmd[k] = "absent"
    /\ id # NoBroadcast
    /\ id = chan.observed
    /\ IF id # chan.current
       THEN chan' = Answer(Suppress(chan, id), k, "failed")      \* BROADCAST_CHANGED
            /\ UNCHANGED svc
       ELSE /\ chan' = [Answer(Suppress(chan, id), k, "running") EXCEPT !.stopping = TRUE]
            /\ svc' = [op |-> "stop", cmd |-> k, id |-> id]
    /\ UNCHANGED <<guardVars, fsm, watch, respawn, halt>>

\* legacy_stop of a channel without a known broadcast.
LegacyStop ==
    /\ Free
    /\ chan.current = NoBroadcast
    /\ LET recording == ~chan.stopping /\ ~chan.blocked /\ (Active(chan) \/ fsm.rec)
       IN  chan' = [chan EXCEPT !.stopping = TRUE,
                        !.suppressed = IF recording THEN @ \cup {Every} ELSE @]
    /\ svc' = [NoService EXCEPT !.op = "legacy"]
    /\ UNCHANGED <<guardVars, fsm, watch, respawn, halt>>

PatchAuto ==
    /\ Free
    /\ chan' = [chan EXCEPT !.mode = "auto", !.continuing = NoBroadcast]
    /\ svc' = [NoService EXCEPT !.op = "auto"]
    /\ UNCHANGED <<guardVars, fsm, watch, respawn, halt>>

\* The broadcast that was admitted last may go on.
PatchPaused ==
    /\ Free
    /\ LET kept == IF chan.current # NoBroadcast THEN chan.current ELSE chan.continuing
       IN  /\ chan' = [chan EXCEPT !.mode = "paused", !.continuing = kept]
           /\ IF kept = NoBroadcast /\ chan.once = NoCommand
              THEN svc' = [NoService EXCEPT !.op = "pause"]
              ELSE UNCHANGED svc
    /\ UNCHANGED <<guardVars, fsm, watch, respawn, halt>>

\* The awaited userStart of start_once, of the mode "auto", and of a channel
\* in that mode after a stop.
ServiceStarts ==
    /\ svc.op \in {"once", "auto", "restart"}
    /\ LockFree
    /\ GuardedStart(chan, svc.op = "once")
    /\ IF svc.op = "restart" THEN UNCHANGED chan ELSE NoteAdmission(chan)
    /\ svc' = NoService
    /\ UNCHANGED <<guardVars, respawn, halt>>

-----------------------------------------------------------------------------
(***************************************************************************)
(* Callers that go past the controller: automation API, operations rules   *)
(* and health restarts.                                                    *)
(***************************************************************************)
OutsideStart(user) ==
    /\ Serving /\ LockFree
    /\ "start" \in Outside
    /\ GuardedStart(chan, user)
    /\ UNCHANGED <<guardVars, chan, respawn, svc, halt>>

\* Mutant: a recording is awaited, not cancelled.
CancelledUnlessRecording ==
    CASE watch.pc \in {"none", "wait"} -> watch
      [] watch.pc = "born" -> NoWatch
      [] OTHER -> [watch EXCEPT !.cancelled = TRUE]

\* A task that was cancelled before it began never runs, not even finally.
Cancelled ==
    CASE watch.pc = "none" -> watch
      [] watch.pc = "born" -> NoWatch
      [] OTHER -> [watch EXCEPT !.cancelled = TRUE]

\* _stopAllWorkers takes both tasks and cancels the respawn; the watch task is
\* cancelled when the respawn has ended, at once if there was none.
Detach(by) ==
    /\ respawn' = FALSE
    /\ watch' = IF respawn THEN watch ELSE Cancelled
    /\ halt' = [by |-> by, pc |-> IF respawn THEN "cancel" ELSE "join"]

\* fsm.stop of such a caller, of the controller, and of the shutdown: the stop
\* flag is up before any task is cancelled.
FsmStop(by) ==
    /\ LockFree
    /\ fsm' = [fsm EXCEPT !.stop = TRUE]
    /\ Detach(by)
    /\ UNCHANGED <<guardVars, chan, svc>>

OutsideStop == Serving /\ "stop" \in Outside /\ FsmStop("outside")

ServiceStops == svc.op \in {"stop", "legacy"} /\ FsmStop(svc.op)

Shutdown == Up /\ svc = NoService /\ FsmStop("shutdown")

\* onRecordEnabledChanged(False) leaves a running recording alone.
ServicePauses ==
    /\ svc.op = "pause"
    /\ LockFree
    /\ IF fsm.rec \/ Active(chan)
       THEN svc' = NoService /\ UNCHANGED <<watch, respawn, halt>>
       ELSE Detach("pause") /\ UNCHANGED svc
    /\ UNCHANGED <<guardVars, chan, fsm>>

-----------------------------------------------------------------------------
(***************************************************************************)
(* _stopAllWorkers, and what its caller does next.                         *)
(***************************************************************************)

HaltCancels ==
    /\ halt.pc = "cancel"
    /\ watch' = Cancelled
    /\ halt' = [halt EXCEPT !.pc = "join"]
    /\ UNCHANGED <<guardVars, chan, fsm, respawn, svc>>

HaltJoins ==
    /\ halt.pc = "join"
    /\ watch.pc = "none"
    /\ halt' = [halt EXCEPT !.pc = "groups"]
    /\ UNCHANGED <<guardVars, chan, fsm, watch, respawn, svc>>

\* Mutant: a group without its leader is left alone.
LeftoverLed == {g \in Captures : g = chan.take.capture /\ group[g] = "live"}

\* The groups that terminate_capture_groups kills.
Leftover == {g \in Captures : g = chan.take.capture /\ Survives(g)}

\* Mutant: the channel stays stopped.
AfterStopIdle == NoService

AfterStop == [NoService EXCEPT !.op = IF chan.mode = "auto" THEN "restart" ELSE "none"]

\* Every group is gone.  A stop of the controller finalizes the capture and
\* ends the once scope and the broadcast's continuation.
HaltSucceeds ==
    /\ halt.pc = "groups"
    /\ group' = [g \in Captures |-> IF g \in Leftover THEN "absent" ELSE group[g]]
    /\ UNCHANGED <<guard, mine, recorded>>
    /\ fsm' = StoppedFsm
    /\ LET gone  == [chan EXCEPT !.blocked = @ /\ chan.take = NoTake]
           final == [gone EXCEPT !.take = NoTake]
           ended == [FinishOnce(final, "succeeded") EXCEPT
                        !.continuing = NoBroadcast, !.current = NoBroadcast,
                        !.stopping = FALSE]
       IN  CASE halt.by = "stop" ->
                    /\ chan' = Answer(Observe(ended, svc.id), svc.cmd, "succeeded")
                    /\ svc' = AfterStop
             [] halt.by = "legacy" ->
                    chan' = Observe(ended, NoBroadcast) /\ svc' = NoService
             [] halt.by = "pause" -> chan' = gone /\ svc' = NoService
             [] halt.by = "outside" -> chan' = gone /\ UNCHANGED svc
             [] halt.by = "shutdown" -> chan' = final /\ UNCHANGED svc
    /\ halt' = IF halt.by = "shutdown" THEN [halt EXCEPT !.pc = "clean"] ELSE NoHalt
    /\ UNCHANGED <<watch, respawn>>

\* A group survives the kill, or its identity is in doubt: stop raises.
HaltFails ==
    /\ halt.pc = "groups"
    /\ Active(chan)
    /\ LET stuck == [Block(chan) EXCEPT !.stopping = @ /\ halt.by \notin {"stop", "legacy"}]
       IN  chan' = IF halt.by = "stop" THEN Answer(stuck, svc.cmd, "failed") ELSE stuck
    /\ svc' = IF halt.by \in {"stop", "legacy", "pause"} THEN NoService ELSE svc
    /\ halt' = IF halt.by = "shutdown" THEN [halt EXCEPT !.pc = "unclean"] ELSE NoHalt
    /\ UNCHANGED <<guardVars, fsm, watch, respawn>>

-----------------------------------------------------------------------------
(***************************************************************************)
(* The watch task.                                                         *)
(***************************************************************************)
RespawnWakes ==
    /\ respawn
    /\ respawn' = FALSE
    /\ IF ShouldWatch(chan) /\ ~fsm.stop THEN SpawnWatch(FALSE) ELSE UNCHANGED watch
    /\ UNCHANGED <<guardVars, chan, fsm, svc, halt>>

\* A start that is neither permitted nor for a scope of its own finds the
\* channel's toggle off and ends as DISABLED.
WatchBegins ==
    /\ watch.pc = "born"
    /\ UNCHANGED <<guardVars, svc, halt>>
    /\ IF Active(chan)
       THEN fsm' = RecordingFsm /\ watch' = NoWatch /\ UNCHANGED <<chan, respawn>>
       ELSE IF fsm.stop \/ (~ShouldWatch(chan) /\ ~watch.user)
       THEN fsm' = StoppedFsm /\ watch' = NoWatch /\ UNCHANGED <<chan, respawn>>
       ELSE \/ /\ SessionIsManual(chan) \/ chan.mode = "auto"
               /\ fsm' = WatchingFsm
               /\ watch' = [NoWatch EXCEPT !.pc = "meta", !.enabled = chan.mode = "auto"]
               /\ UNCHANGED <<chan, respawn>>
            \/ /\ ~SessionIsManual(chan) /\ chan.mode # "auto"
               /\ SessionEnds(chan, "DISABLED")

AtMetadata == watch.pc = "meta" /\ ~watch.cancelled

\* admit_metadata before it looks at the metadata.
Hindered == chan.stopping \/ chan.blocked \/ Active(chan)
AdmissionHindered ==
    /\ AtMetadata
    /\ Hindered
    /\ SessionEnds(IF chan.stopping THEN chan
                   ELSE FinishOnce(Observe(chan, chan.current), "blocked"), "OFFLINE")
    /\ UNCHANGED <<guardVars, svc, halt>>

\* Not live, confirmed or not.
FindsOffline ==
    /\ AtMetadata
    /\ ~Hindered
    /\ \/ SessionEnds(Observe(chan, NoBroadcast), "OFFLINE")
       \/ LET over == FinishOnce(chan, IF chan.scope = NoBroadcast THEN "failed"
                                       ELSE "succeeded")
          IN  SessionEnds([over EXCEPT !.current = NoBroadcast, !.observed = NoBroadcast,
                                       !.continuing = NoBroadcast], "OFFLINE")
    /\ UNCHANGED <<guardVars, svc, halt>>

\* Ids that no row and no variable holds.
Fresh == {h \in Heuristics :
            /\ h \notin chan.suppressed
            /\ h \notin {chan.observed, chan.current, chan.continuing, chan.scope,
                         chan.take.id, svc.id}}

\* The id under which admit_metadata knows the live broadcast b.
IdsOf(b) == {b} \cup (IF chan.current # NoBroadcast THEN {chan.current} ELSE Fresh)

\* What admit_metadata makes of the scopes when broadcast id is live.
Named(id) == IF chan.once # NoCommand /\ chan.scope = NoBroadcast
             THEN [chan EXCEPT !.scope = id] ELSE chan
OnceFor(id) == chan.once # NoCommand /\ Named(id).scope = id
Scoped(id) ==
    LET c == IF OnceFor(id) THEN Named(id) ELSE FinishOnce(chan, "succeeded")
    IN  [c EXCEPT !.continuing = IF @ = id THEN id ELSE NoBroadcast]

\* Mutant: the suppression binds automatic sessions only.
BarredUnlessManual(id) == ~SessionIsManual(chan) /\ Suppressed(chan, id)

Barred(id) == ~OnceFor(id) /\ Suppressed(chan, id)
Unwanted(id) == ~OnceFor(id) /\ chan.continuing # id /\ chan.mode # "auto"

LiveNotAdmitted(id) ==
    /\ AtMetadata
    /\ ~Hindered
    /\ LET c == Scoped(id)
       IN  \/ Barred(id) /\ SessionEnds(Observe(c, id), "OFFLINE")
           \/ /\ ~Barred(id) /\ Unwanted(id)
              /\ SessionEnds(Observe([c EXCEPT !.current = NoBroadcast], NoBroadcast),
                             "OFFLINE")
           \/ \* the storage, or the guard, refuses
              /\ ~Barred(id) /\ ~Unwanted(id)
              /\ SessionEnds(FinishOnce(Observe(c, id), "blocked"), "OFFLINE")
    /\ UNCHANGED <<guardVars, svc, halt>>

LiveAdmitted(b, id, g) ==
    /\ AtMetadata
    /\ ~Hindered /\ ~Barred(id) /\ ~Unwanted(id)
    /\ Admit(g)
    /\ chan' = Observe([Scoped(id) EXCEPT !.current = id], id)
    /\ watch' = [watch EXCEPT !.pc = "admitted",
                              !.take = [capture |-> g, id |-> id, of |-> b]]
    /\ UNCHANGED <<fsm, respawn, svc, halt>>

\* No launch after all: an option excludes the broadcast, or no command can be
\* built.  Whether that is DISABLED is decided by the toggle as it was read.
LaunchSkipped ==
    /\ watch.pc = "admitted" /\ ~watch.cancelled
    /\ Withdraw(watch.take.capture)
    /\ IF watch.enabled
       THEN \E outcome \in {"OFFLINE", "RETRYABLE_ERROR"} : SessionEnds(chan, outcome)
       ELSE SessionEnds(chan, "DISABLED")
    /\ UNCHANGED <<svc, halt>>

\* The launch with capture_started: the entry, the records, then the guard's
\* journal.  Both kinds of doubt about a group block the channel or raise.
LaunchSucceeds ==
    /\ watch.pc = "admitted" /\ ~watch.cancelled
    /\ LET g == watch.take.capture
           c == Observe([chan EXCEPT !.take = [watch.take EXCEPT !.id = chan.current]],
                        chan.current)
       IN  \/ (LaunchRecorded(g) \/ LaunchVanishes(g)) /\ chan' = c
           \/ LaunchEscapes(g) /\ chan' = [c EXCEPT !.blocked = TRUE]
    /\ watch' = [watch EXCEPT !.pc = "wait", !.take = NoTake]
    /\ fsm' = [fsm EXCEPT !.rec = TRUE]
    /\ UNCHANGED <<respawn, svc, halt>>

LaunchRaises ==
    /\ watch.pc = "admitted" /\ ~watch.cancelled
    /\ LET g == watch.take.capture
           c == [chan EXCEPT !.take = [watch.take EXCEPT !.id = chan.current]]
       IN  \/ LaunchFails(g) /\ chan' = c
           \/ LaunchUnheard(g) /\ chan' = [c EXCEPT !.blocked = TRUE]
    /\ watch' = [watch EXCEPT !.pc = "raised", !.take = NoTake]
    /\ UNCHANGED <<fsm, respawn, svc, halt>>

\* The broadcast ends, the tool fails, or it is terminated.
CaptureExits(g) ==
    /\ LeaderExits(g) \/ OrphansExit(g)
    /\ UNCHANGED controlVars

LeaderGone == \A g \in Captures : g = chan.take.capture => group[g] # "live"

\* proc.wait returns; the end of a stream clears the recording flag at once.
WaitReturns ==
    /\ watch.pc = "wait" /\ ~watch.cancelled
    /\ LeaderGone
    /\ watch' = [watch EXCEPT !.pc = "drain"]
    /\ \/ ~fsm.stop /\ fsm' = [fsm EXCEPT !.rec = FALSE]
       \/ UNCHANGED fsm
    /\ UNCHANGED <<guardVars, chan, respawn, svc, halt>>

Verdict == IF fsm.stop THEN "USER_STOPPED"
           ELSE IF chan.mode = "auto" THEN "COMPLETED" ELSE "DISABLED"

WatchCompletes ==
    /\ watch.pc = "drain" /\ ~watch.cancelled
    /\ SessionEnds(chan, Verdict)
    /\ UNCHANGED <<guardVars, svc, halt>>

\* A raised launch is terminated on the way out.
WatchRaises ==
    /\ watch.pc = "raised"
    /\ LeaderGone
    /\ SessionEnds(chan, "RETRYABLE_ERROR")
    /\ UNCHANGED <<guardVars, svc, halt>>

\* The cancellation is swallowed: what is launched is terminated, and the
\* attempt returns by the flags.  A launch under way is killed unseen.
WatchCancelled ==
    /\ watch.cancelled
    /\ watch.pc \in {"meta", "admitted", "wait", "drain"}
    /\ LeaderGone
    /\ IF watch.pc = "admitted" THEN Withdraw(watch.take.capture) ELSE UNCHANGED guardVars
    /\ SessionEnds(chan, Verdict)
    /\ UNCHANGED <<svc, halt>>

-----------------------------------------------------------------------------
(***************************************************************************)
(* The application.                                                        *)
(***************************************************************************)

\* The memory of the controller and of the state machine is lost, and with it
\* the records of a capture that lives on.
Forgotten == [chan EXCEPT !.once = NoCommand, !.scope = NoBroadcast,
                          !.continuing = NoBroadcast, !.current = NoBroadcast,
                          !.stopping = FALSE, !.blocked = FALSE, !.take = NoTake]
Exit ==
    /\ chan' = Forgotten
    /\ fsm' = StoppedFsm
    /\ watch' = NoWatch
    /\ respawn' = FALSE
    /\ svc' = NoService
    /\ halt' = NoHalt

AppCrash == Crash /\ Exit

AppExits ==
    /\ halt.pc \in {"clean", "unclean"}
    /\ FinishGuard(halt.pc = "clean")
    /\ Exit

\* The lifespan: the guard, initialize (accepted and running commands are not
\* replayed, the observation is reset), start_watching.
AppStart ==
    /\ BeginGuard
    /\ LET c == [chan EXCEPT !.observed = NoBroadcast,
                    !.cmd = [k \in Commands |->
                                IF @[k] = "running" THEN "interrupted" ELSE @[k]]]
       IN  IF c.mode = "auto" THEN GuardedStart(c, FALSE) /\ NoteAdmission(c)
           ELSE chan' = c /\ UNCHANGED <<fsm, watch>>
    /\ UNCHANGED <<respawn, svc, halt>>

Reconciles == OfflineReconcile /\ UNCHANGED controlVars

Init ==
    /\ GuardInit
    /\ \E mode \in {"auto", "paused"} :
         chan = [mode |-> mode, suppressed |-> {}, observed |-> NoBroadcast,
                 cmd |-> [k \in Commands |-> "absent"],
                 once |-> NoCommand, scope |-> NoBroadcast, continuing |-> NoBroadcast,
                 current |-> NoBroadcast, stopping |-> FALSE, blocked |-> FALSE,
                 take |-> NoTake]
    /\ fsm = StoppedFsm
    /\ watch = NoWatch
    /\ respawn = FALSE
    /\ svc = NoService
    /\ halt = NoHalt

Request ==
    \/ \E k \in Starts : \E id \in Broadcasts \cup {NoBroadcast} : StartOnce(k, id)
    \/ \E k \in Stops : \E id \in Ids : StopCurrent(k, id)
    \/ LegacyStop \/ PatchAuto \/ PatchPaused

ServiceStep == ServiceStarts \/ ServiceStops \/ ServicePauses

HaltStep == HaltCancels \/ HaltJoins \/ HaltSucceeds \/ HaltFails

WatchStep ==
    \/ WatchBegins \/ AdmissionHindered \/ FindsOffline
    \/ \E b \in Broadcasts : \E id \in IdsOf(b) :
         LiveNotAdmitted(id) \/ \E g \in Captures : LiveAdmitted(b, id, g)
    \/ LaunchSkipped \/ LaunchSucceeds \/ LaunchRaises
    \/ WaitReturns \/ WatchCompletes \/ WatchRaises \/ WatchCancelled

Next ==
    \/ Request
    \/ ServiceStep
    \/ (\E user \in BOOLEAN : OutsideStart(user)) \/ OutsideStop
    \/ HaltStep
    \/ RespawnWakes
    \/ WatchStep
    \/ \E g \in Captures : CaptureExits(g)
    \/ Shutdown \/ AppCrash \/ AppExits \/ AppStart \/ Reconciles

Spec == Init /\ [][Next]_vars

\* A capture whose attempt was cancelled, or whose launch raised, is terminated
\* and then killed.
Terminating(g) ==
    /\ g \in {chan.take.capture}
    /\ watch.cancelled \/ watch.pc = "raised"
    /\ LeaderExits(g) /\ UNCHANGED controlVars

\* The event loop runs what is ready, sleeps end, and the locks are handed on in
\* the order of the requests: a waiter that finds its lock free again and again
\* gets it, though another caller may take it in between.
Fairness ==
    /\ WF_vars(WatchStep) /\ WF_vars(RespawnWakes) /\ WF_vars(HaltStep) /\ WF_vars(AppExits)
    /\ SF_vars(ServiceStep)
    /\ \A g \in Captures : WF_vars(Terminating(g))

LiveSpec == Spec /\ Fairness

-----------------------------------------------------------------------------
(***************************************************************************)
(* Properties.                                                             *)
(***************************************************************************)

Captured(id) == Active(chan) /\ chan.take.id = id

Quiet == Up /\ LockFree /\ svc = NoService

\* At most one recorder of the channel lives, survivors of earlier runs of the
\* application included: the watch task, the respawn, starts past the controller
\* and a restart all come to the same admission (v2_channels.py:202).
OneCapture == \A g, h \in Captures : Survives(g) /\ Survives(h) => g = h

\* Every recorder that this run launched stays in _captures until its group is
\* gone, through every way a launch, a cancellation or a stop can fail: nothing
\* runs that no later stop would reach (v2_channels.py:286-340).
OwnedUntilGone == \A g \in mine : Up /\ Survives(g) => g = chan.take.capture

\* A capture of a suppressed broadcast is one that a start_once asked for, one
\* that is being stopped, or one whose end is in doubt (v2_channels.py:244).
SuppressedIsNotCaptured ==
    \A id \in Ids : Captured(id) /\ Suppressed(chan, id)
        => chan.scope = id \/ chan.stopping \/ chan.blocked

\* A paused channel records only the broadcast it was paused in or one that a
\* start_once asked for, whichever order the pause, the admission and the launch
\* come in (v2_channels.py:247, 497-502).
PausedRecordsItsScope ==
    \A id \in Ids : Captured(id) /\ chan.mode = "paused" /\ ~chan.blocked /\ ~chan.stopping
        => id \in {chan.continuing, chan.scope}

\* What is captured was admitted by the decisions that were made last, not by those
\* that its metadata was fetched under.
DecisionsAreKept == SuppressedIsNotCaptured /\ PausedRecordsItsScope

\* While a recorder runs, stop_current of the broadcast the API shows is taken:
\* the repository and the controller agree on which one that is
\* (v2_channels.py:525 against v2_repository.py:588-610).
CaptureIsStoppable ==
    Up /\ Active(chan) /\ ~chan.stopping
        => chan.current # NoBroadcast /\ chan.observed = chan.current

\* No recorder is out of reach of the stop that the API offers for it.
CapturesAreReachable == OwnedUntilGone /\ CaptureIsStoppable

\* A channel that says WATCHING has a watch task, or a respawn that will start
\* one, as soon as no stop and no request of the controller is under way
\* (channel_fsm.py:307-419).
WatchingIsAttended == Quiet /\ fsm.state = "WATCHING" => Watched \/ respawn

\* A command that runs is someone's business: the request that holds the
\* controller's lock or the once scope will answer it, and the scope never
\* outlives its command (v2_channels.py:191-195, 509-565).
CommandsAreAttended ==
    Up => \A k \in Commands :
            /\ chan.cmd[k] = "running" => k \in {chan.once, svc.cmd}
            /\ k = chan.once => chan.cmd[k] = "running"

\* Neither the channel nor a command waits for a task that does not exist.
NothingIsOrphaned == WatchingIsAttended /\ CommandsAreAttended

\* A watch task is never started beside another of the channel, not even one
\* that is on its way out (channel_fsm.py:328-335).
OneWatcher == [][watch'.pc = "born" => watch.pc \in {"none", "born"}]_vars

\* Each step of the channel is one that CaptureGuard allows.  In particular a
\* shutdown that calls itself clean leaves no recorder that the guard never
\* heard of, so the marker may go (live_auto_recorder.py:198-207).
UsesTheGuard == GuardSpec

\* A stop_current that is taken is answered: the cancelled attempt, its recorder
\* and the state machine's lock cannot keep it waiting (v2_channels.py:541-560).
StopSettles ==
    \A k \in Commands : svc.op = "stop" /\ svc.cmd = k ~> chan.cmd[k] \in Settled \/ ~Up

\* "A once request with no positively identified live must not wait forever"
\* (v2_channels.py:454): it ends, or it gets a broadcast, or it has come between
\* the admission of a recording and its launch and ends with that recording.
OnceIsDecided ==
    \A k \in Commands : chan.once = k
        ~> chan.once # k \/ chan.scope # NoBroadcast \/ Active(chan) \/ ~Up

\* A channel in the mode "auto" that is watched, or that a request of the
\* controller is about to have watched, comes to ask for metadata again, unless
\* it records, is blocked or paused, or is being stopped for good
\* (v2_channels.py:561-564, channel_fsm.py:307-419).
AutoKeepsLooking ==
    chan.mode = "auto" /\ (fsm.state = "WATCHING" \/ svc.op \in {"auto", "stop", "restart"})
        ~> \/ AtMetadata \/ Active(chan) \/ chan.blocked \/ chan.mode = "paused"
           \/ halt.by \in {"legacy", "shutdown"} \/ ~Up

-----------------------------------------------------------------------------
(***************************************************************************)
(* What the tasks of the event loop rely on, each of the others.           *)
(***************************************************************************)

\* An application that is down remembers nothing but what is in its database.
DownForgets ==
    ~Up => /\ chan = Forgotten /\ fsm = StoppedFsm /\ watch = NoWatch
           /\ ~respawn /\ svc = NoService /\ halt = NoHalt

\* The entry of _captures is about a capture, is there while a doubt about it
\* blocks the channel, and while it records it is of the current broadcast.
TakeHolds ==
    /\ chan.take # NoTake => chan.take.capture \in Captures
    /\ chan.blocked => chan.take # NoTake
    /\ Active(chan) => /\ chan.current # NoBroadcast
                       /\ chan.take.id = chan.current
                       /\ chan.observed = chan.current

\* What holds for an admission, up to its launch: it is the only one, nothing
\* else records, and the decisions it rests on still stand.
AdmissionHolds ==
    /\ \A g \in Captures :
          group[g] = "admitted" <=> watch.pc = "admitted" /\ g = watch.take.capture
    /\ watch.pc = "admitted" =>
          /\ watch.take.capture \in Captures
          /\ watch.take.id = chan.current
          /\ chan.current # NoBroadcast /\ chan.observed = chan.current
          /\ ~chan.blocked
          /\ Suppressed(chan, chan.current) => chan.scope = chan.current \/ chan.stopping
          /\ chan.mode = "paused"
                => chan.current \in {chan.continuing, chan.scope} \/ chan.stopping
          /\ fsm.state = "STOPPED" => chan.stopping

\* A task that has not launched finds no recorder at work; when a task has
\* ended, what it leaves behind is a group in doubt.
WatchHolds ==
    /\ watch.pc = "none" => watch = NoWatch
    /\ watch.cancelled => watch.pc # "born" /\ halt.pc = "join"
    /\ watch.pc \in {"born", "meta", "admitted"} => ~Active(chan)
    /\ watch.pc = "none" /\ Active(chan) => chan.blocked
    /\ watch.pc = "drain" => LeaderGone
    /\ watch.pc \in {"meta", "admitted"} => ~fsm.rec
    /\ watch.pc = "meta" =>
          \/ chan.stopping \/ chan.blocked \/ svc.op = "pause"
          \/ fsm.state # "STOPPED" /\ (chan.mode = "auto" \/ SessionIsManual(chan))

\* While the tasks are being taken down none is started, and after the join
\* none is left.
HaltHolds ==
    /\ halt.by = "none" <=> halt.pc = "none"
    /\ halt.pc \in {"clean", "unclean"} => halt.by = "shutdown"
    /\ halt.by \in {"stop", "legacy", "pause"} => svc.op = halt.by
    /\ halt.by = "shutdown" => svc = NoService
    /\ halt.by # "none" => ~respawn /\ (halt.by = "pause" \/ fsm.stop \/ watch.pc = "none")
    /\ halt.pc \in {"groups", "clean", "unclean"} => watch.pc = "none"
    /\ halt.pc = "clean" => chan.take = NoTake

\* What a request has decided stays until it lets the controller's lock go.
ServiceHolds ==
    /\ svc.op = "none" => svc = NoService
    /\ svc.op \notin {"once", "stop"} => svc.cmd = NoCommand
    /\ chan.stopping <=> svc.op \in {"stop", "legacy"}
    /\ svc.op = "pause" => /\ chan.mode = "paused" /\ chan.once = NoCommand
                           /\ chan.continuing = NoBroadcast
    /\ svc.op = "stop" => svc.cmd \in Commands /\ svc.cmd # chan.once
    /\ svc.op = "once" => /\ svc.cmd \in Commands
                          /\ chan.cmd[svc.cmd] = "running" => chan.once = svc.cmd
    /\ chan.once = NoCommand => chan.scope = NoBroadcast

\* A channel that says WATCHING and has no task has nothing to record, and
\* unless a stop is under way or at hand its respawn will start one.
WatchingHolds ==
    fsm.state = "WATCHING" /\ watch.pc \in {"none", "born"} =>
        /\ ~fsm.rec /\ ~Active(chan)
        /\ LockFree /\ watch.pc = "none" =>
              /\ ~fsm.stop
              /\ \/ svc.op \in {"stop", "legacy", "pause"}
                 \/ respawn /\ ShouldWatch(chan)

\* Types, the guard's invariant, no recorder beside another, neither of this
\* run nor of an earlier one, and what the tasks rely on.
ChannelInv ==
    /\ ChannelTypeOK /\ GuardInv /\ NoCaptureBesideSurvivor /\ OneCapture
    /\ DownForgets /\ TakeHolds /\ AdmissionHolds /\ WatchHolds
    /\ HaltHolds /\ ServiceHolds /\ WatchingHolds

-----------------------------------------------------------------------------
(***************************************************************************)
(* What a comment and a test say of the program, and it does not keep.     *)
(***************************************************************************)

\* "A once request with no positively identified live must not wait forever"
\* (v2_channels.py:454): unless the channel is blocked, one that is armed has a
\* task that looks for its broadcast, now or after a respawn.
OnceIsAttended == Quiet /\ chan.once # NoCommand => Watched \/ respawn \/ chan.blocked

\* "stale_stop_rejected_without_stopping_or_suppressing"
\* (tests/test_v2_channels.py:153): a stop_current that is refused on arrival
\* leaves the suppressions as they were.
RejectedStopSuppressesNothing ==
    [][\A k \in Commands : chan.cmd[k] = "absent" /\ chan'.cmd[k] = "failed"
          => chan'.suppressed = chan.suppressed]_vars
=============================================================================
