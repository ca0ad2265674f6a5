-------------------------- MODULE OperationsHealth --------------------------
(***************************************************************************)
(* The operations runtime over one channel, without the v2 controller      *)
(* (module/operations_health.py, operations_common.py,                     *)
(* operations_features.py): its monitor, which samples the channel and     *)
(* enforces the channel's rule, the restart task the monitor schedules for *)
(* a capture that fails, the guard in front of every start, and the users  *)
(* and the duration limit that start and stop the same channel meanwhile.  *)
(*                                                                         *)
(* Everybody starts and stops through the state machine (channel_fsm.py),  *)
(* whose lock serves its callers in their order: line is who holds it and  *)
(* who waits.  A step is what happens between two awaits that suspend.     *)
(***************************************************************************)
EXTENDS Integers, Sequences

CONSTANTS
    AutoMode,       \* autoRecordingMode
    Delayed,        \* whether the channel's rule has start_delay_seconds
    Limited,        \* whether it has max_duration_minutes
    Missed,         \* whether missed_recording_seconds is set
    StallAge,       \* samples without growth that make stall_seconds
    StallChecks,    \* stall_confirmations
    MaxAttempts,    \* max_restart_attempts
    BreakerAfter,   \* circuit_breaker_after
    MaxRequests,    \* bound: requests of users
    MaxChanges      \* bound: changes of what the rule and the storage say

ASSUME HealthAssumption ==
    /\ {AutoMode, Delayed, Limited, Missed} \subseteq BOOLEAN
    /\ StallAge \in Nat \ {0} /\ StallChecks \in Nat \ {0}
    /\ MaxAttempts \in Nat /\ BreakerAfter \in Nat \ {0}
    /\ MaxRequests \in Nat /\ MaxChanges \in Nat

VARIABLES
    fsm,        \* ChannelRuntime: state and stop_requested
    flag,       \* RecorderManager: user-stopped, reserved, recording
    task,       \* the watch task: none, running, or a respawn that sleeps
    proc,       \* the capture's process
    fresh,      \* whether its file grew since the last sample
    line,       \* who holds the channel's lock, and who waits for it
    act,        \* how far each caller is, and where it goes after a start or a stop
    sample,     \* the monitor's sample: age of the growth, stall checks, an exit or a watch seen
    health,     \* its health row: restart attempts, cooldown, the reason it restarts for
    blocked,    \* whether the channel is in policy_blocked
    full,       \* storage_stopped
    env,        \* what the rule and the storage say
    cuts,       \* history: captures cut by restarts since the last healthy sample
    halted,     \* history: whether a stop is what a user last asked for
    spent       \* history: requests and changes

channel == <<fsm, flag, task>>
capture == <<proc, fresh>>
monitor == <<sample, health, blocked, full>>
history == <<cuts, halted, spent>>
vars == <<channel, capture, line, act, monitor, env, history>>

Actors == {"monitor", "restart", "user", "limit"}
Places == {"idle", "delay", "begin", "stop", "halt",    \* a guarded start, a stop
           "boot", "storage", "first", "look", "tidy",  \* the monitor
           "settle", "pause",                           \* a restart
           "again", "due"}                              \* a manual restart, the limit
Reasons == {"failed", "stalled", "missed"}

Alive == proc \in {"mute", "writes"}

HealthTypeOK ==
    /\ fsm \in [state : {"STOPPED", "WATCHING", "RECORDING"}, stop : BOOLEAN]
    /\ flag \in [stopped : BOOLEAN, reserved : BOOLEAN, recording : BOOLEAN]
    /\ task \in {"none", "runs", "rests"}
    /\ proc \in {"none", "mute", "writes", "failed", "clean"}
    /\ fresh \in BOOLEAN
    /\ line \in Seq(Actors)
    /\ act \in [Actors -> [pc : Places, then : Places]]
    /\ \A a \in Actors :
         act[a].pc \in {"begin", "stop", "halt"} <=> \E i \in DOMAIN line : line[i] = a
    /\ sample \in [age : 0..StallAge, checks : 0..StallChecks, exit : BOOLEAN, watch : BOOLEAN]
    /\ health \in [attempts : 0..MaxAttempts, cooling : BOOLEAN, reason : Reasons \cup {"none"}]
    /\ blocked \in BOOLEAN /\ full \in BOOLEAN
    /\ env \in [allowed : BOOLEAN, critical : BOOLEAN]
    /\ cuts \in 0..(MaxAttempts + 1)
    /\ halted \in BOOLEAN
    /\ spent \in [requests : 0..MaxRequests, changes : 0..MaxChanges]

\* The application starts: with autoRecordingMode every channel is watched
\* before the guard is there.
Init ==
    /\ fsm = [state |-> IF AutoMode THEN "WATCHING" ELSE "STOPPED", stop |-> ~AutoMode]
    /\ flag = [stopped |-> FALSE, reserved |-> AutoMode, recording |-> FALSE]
    /\ task = IF AutoMode THEN "runs" ELSE "none"
    /\ proc = "none" /\ fresh = FALSE
    /\ line = << >>
    /\ act = [a \in Actors |-> [pc |-> IF a = "monitor" THEN "boot" ELSE "idle", then |-> "idle"]]
    /\ sample = [age |-> 0, checks |-> 0, exit |-> FALSE, watch |-> FALSE]
    /\ health = [attempts |-> 0, cooling |-> FALSE, reason |-> "none"]
    /\ blocked = FALSE /\ full = FALSE
    /\ env \in [allowed : BOOLEAN, critical : BOOLEAN]
    /\ cuts = 0 /\ halted = FALSE
    /\ spent = [requests |-> 0, changes |-> 0]

-----------------------------------------------------------------------------
(* Starts and stops.                                                       *)

\* a comes to a place, and to the end of the line if it is one that needs the lock.
Goes(a, pc, then) ==
    /\ act' = [act EXCEPT ![a] = [pc |-> pc, then |-> then]]
    /\ line' = IF pc \in {"begin", "stop"} THEN Append(line, a) ELSE line

\* can_start, and the guard: a start is dropped, delayed unless a user asked
\* for it, or goes on.
CanStart == ~env.critical /\ env.allowed
Guarded(byUser, then) ==
    IF ~CanStart THEN then ELSE IF Delayed /\ ~byUser THEN "delay" ELSE "begin"

\* A free lock is taken without a suspension and a freed one handed on at once:
\* the world and the other callers move when nobody is in between.
Settled == line # << >> => act[Head(line)].pc = "halt"

\* The delay of the rule is over; nothing is asked again.
DelayOver(a) ==
    /\ Settled
    /\ act[a].pc = "delay"
    /\ Goes(a, "begin", act[a].then)
    /\ UNCHANGED <<channel, capture, monitor, env, history>>

Leaves(a) ==
    /\ line' = Tail(line)
    /\ act' = [act EXCEPT ![a] = [pc |-> act[a].then, then |-> "idle"]]

Holds(a, pc) == line # << >> /\ Head(line) = a /\ act[a].pc = pc

SetStopped ==
    /\ fsm' = [state |-> "STOPPED", stop |-> TRUE]
    /\ flag' = [stopped |-> TRUE, reserved |-> FALSE, recording |-> FALSE]
SetWatching ==
    /\ fsm' = [state |-> "WATCHING", stop |-> FALSE]
    /\ flag' = [stopped |-> FALSE, reserved |-> TRUE, recording |-> FALSE]
SetRecording ==
    /\ fsm' = [state |-> "RECORDING", stop |-> FALSE]
    /\ flag' = [stopped |-> FALSE, reserved |-> FALSE, recording |-> TRUE]

\* userStart under the lock: a live capture is only taken note of.
CoreStart(a) ==
    /\ Holds(a, "begin")
    /\ Leaves(a)
    /\ \/ /\ flag.recording \/ Alive
          /\ SetRecording
          /\ UNCHANGED task
       \/ /\ ~(flag.recording \/ Alive)
          /\ fsm.state = "RECORDING" \/ (fsm.state = "WATCHING" /\ task = "runs")
          /\ UNCHANGED channel
       \/ /\ ~(flag.recording \/ Alive)
          /\ fsm.state = "STOPPED" \/ (fsm.state = "WATCHING" /\ task # "runs")
          /\ SetWatching
          /\ task' = "runs"
    /\ UNCHANGED <<capture, monitor, env, history>>

\* stop under the lock: the flags first, then the tasks and the process.
StopBegins(a) ==
    /\ Holds(a, "stop")
    /\ act' = [act EXCEPT ![a].pc = "halt"]
    /\ fsm' = [fsm EXCEPT !.stop = TRUE]
    /\ flag' = [flag EXCEPT !.stopped = TRUE, !.reserved = FALSE]
    /\ UNCHANGED <<task, capture, line, monitor, env, history>>

StopEnds(a) ==
    /\ Holds(a, "halt")
    /\ Leaves(a)
    /\ SetStopped
    /\ task' = "none"
    /\ proc' = "none" /\ fresh' = FALSE
    /\ UNCHANGED <<monitor, env, history>>

-----------------------------------------------------------------------------
(* The capture.                                                            *)

\* The attempt finds the channel live and starts a process.  A stop has
\* cancelled it, and a lock is handed on faster than a page is fetched.
GoesLive ==
    /\ Settled
    /\ task = "runs" /\ proc = "none" /\ ~flag.stopped /\ line = << >>
    /\ proc' = "mute" /\ fresh' = FALSE
    /\ flag' = [flag EXCEPT !.recording = TRUE, !.reserved = FALSE]
    /\ UNCHANGED <<fsm, task, line, act, monitor, env, history>>

Writes ==
    /\ Settled
    /\ Alive
    /\ proc' = "writes" /\ fresh' = TRUE
    /\ UNCHANGED <<channel, line, act, monitor, env, history>>

Exits ==
    /\ Settled
    /\ Alive
    /\ proc' \in {"failed", "clean"}
    /\ UNCHANGED <<channel, fresh, line, act, monitor, env, history>>

\* The attempt returns, with or without a capture behind it.
AttemptEnds ==
    /\ Settled
    /\ task = "runs" /\ ~Alive
    /\ proc' = "none" /\ fresh' = FALSE
    /\ \/ /\ ~fsm.stop /\ ~flag.stopped
          /\ SetWatching /\ task' = "rests"
       \/ SetStopped /\ task' = "none"
    /\ UNCHANGED <<line, act, monitor, env, history>>

\* The respawn task tries again; no guard stands before it.
Respawns ==
    /\ Settled
    /\ task = "rests"
    /\ \/ ~fsm.stop /\ SetWatching /\ task' = "runs"
       \/ fsm.stop /\ task' = "none" /\ UNCHANGED <<fsm, flag>>
    /\ UNCHANGED <<capture, line, act, monitor, env, history>>

-----------------------------------------------------------------------------
(* The monitor.                                                            *)

\* The operations start: a storage that blocks recording stops every channel.
Boots ==
    /\ Settled
    /\ act["monitor"].pc = "boot"
    /\ full' = env.critical
    /\ IF env.critical THEN Goes("monitor", "stop", "storage") ELSE Goes("monitor", "storage", "idle")
    /\ UNCHANGED <<channel, capture, sample, health, blocked, env, history>>

\* monitor_once begins with the storage; when it has recovered every channel is
\* watched again.  What cannot be read is not critical.  The next round comes
\* later than a restart's two seconds.
ReadsStorage ==
    /\ Settled
    /\ \/ act["monitor"].pc = "storage"
       \/ act["monitor"].pc = "idle" /\ act["restart"].pc # "settle"
    /\ full' = env.critical
    /\ LET next == IF act["monitor"].pc = "storage" THEN "first" ELSE "look" IN
       IF ~env.critical /\ full /\ AutoMode
       THEN Goes("monitor", Guarded(FALSE, next), next)
       ELSE Goes("monitor", next, "idle")
    /\ UNCHANGED <<channel, capture, sample, health, blocked, env, history>>

Exited == proc \in {"failed", "clean"}
Watched == ~flag.recording /\ (fsm.state = "WATCHING" \/ flag.reserved)

\* Samples without growth, and confirmations of a stall.
AgeNow == IF flag.recording /\ fresh THEN 0 ELSE IF sample.age = StallAge THEN StallAge ELSE sample.age + 1
StallCandidate == flag.recording /\ proc = "writes" /\ AgeNow = StallAge

\* (Mutated: a check starts the count again.)
ChecksForgotten == IF StallCandidate THEN 1 ELSE 0
ChecksNow ==
    IF ~StallCandidate THEN 0
    ELSE IF sample.checks = StallChecks THEN StallChecks ELSE sample.checks + 1

\* Why a restart may be called for: the process failed and its grace is over,
\* its file does not grow, or a watched channel is not recorded.
Suspected(reason) ==
    CASE reason = "none" -> ChecksNow < StallChecks
      [] reason = "failed" -> flag.recording /\ proc = "failed" /\ sample.exit
      [] reason = "stalled" -> ChecksNow = StallChecks
      [] reason = "missed" -> Missed /\ Watched /\ sample.watch /\ ~flag.stopped

\* Whether the sample is a capture that grows: its attempts start over.
Grows(young) ==
    /\ flag.recording /\ Alive /\ ~StallCandidate
    /\ fresh \/ (young /\ AgeNow < StallAge)

\* (Mutated: a rule is asked before a start and never after it.)
RuleUnenforced == FALSE
RuleBroken == ~env.allowed /\ (flag.recording \/ flag.reserved \/ fsm.state = "WATCHING")

\* (Mutated: every recording is a new beginning.)
AttemptsForgotten(growing) == IF flag.recording THEN 0 ELSE health.attempts
AttemptsKept(growing) == IF growing THEN 0 ELSE health.attempts

MayRestart(attempts) ==
    /\ attempts < MaxAttempts
    /\ ~health.cooling
    /\ act["restart"].pc = "idle"

\* _sample_channel: the sample, the duration limit, the rule, and a restart.
Samples ==
    /\ Settled
    /\ act["monitor"].pc \in {"first", "look"}
    /\ sample' = [age |-> AgeNow, checks |-> ChecksNow,
                  exit |-> flag.recording /\ Exited, watch |-> Watched]
    /\ fresh' = FALSE
    /\ LET rest == IF act["monitor"].pc = "first" THEN "tidy" ELSE "idle" IN
       \E suspicion \in {r \in Reasons \cup {"none"} : Suspected(r)},
          young \in BOOLEAN, over \in BOOLEAN :
         LET growing == Grows(young) /\ ~over /\ env.allowed /\ ~blocked
             attempts == AttemptsKept(growing)
             limit == IF over THEN [pc |-> "due", then |-> "idle"] ELSE act["limit"]
             schedule == /\ suspicion # "none" /\ ~over /\ ~RuleBroken /\ ~blocked
                         /\ MayRestart(attempts)
             breaker == attempts + 1 >= BreakerAfter
             restart == IF schedule /\ ~breaker THEN [pc |-> "settle", then |-> "idle"]
                                                ELSE act["restart"]
             place == IF RuleBroken THEN "stop"
                      ELSE IF env.allowed /\ blocked THEN Guarded(FALSE, rest) ELSE rest
         IN /\ over => Limited /\ flag.recording /\ act["limit"].pc = "idle"
            /\ act' = [act EXCEPT !["monitor"] = [pc |-> place, then |-> rest],
                                  !["limit"] = limit, !["restart"] = restart]
            /\ line' = IF place \in {"stop", "begin"} THEN Append(line, "monitor") ELSE line
            /\ blocked' = (RuleBroken \/ (blocked /\ ~env.allowed))
            /\ health' = [attempts |-> IF schedule THEN attempts + 1 ELSE attempts,
                          cooling |-> health.cooling \/ schedule,
                          reason |-> IF restart.pc = "settle" THEN suspicion ELSE "none"]
            /\ cuts' = IF growing THEN 0 ELSE cuts
    /\ UNCHANGED <<channel, proc, full, env, halted, spent>>

\* reconcile_startup, after the first round: a recording without a process.
Reconciles ==
    /\ Settled
    /\ act["monitor"].pc = "tidy"
    /\ Goes("monitor", "idle", "idle")
    /\ LET stale == flag.recording /\ ~Alive IN
         /\ flag' = [flag EXCEPT !.recording = @ /\ ~stale]
         /\ proc' = IF stale THEN "none" ELSE proc
    /\ UNCHANGED <<fsm, task, fresh, monitor, env, history>>

CoolsDown ==
    /\ Settled
    /\ health.cooling
    /\ health' = [health EXCEPT !.cooling = FALSE]
    /\ UNCHANGED <<channel, capture, line, act, sample, blocked, full, env, history>>

-----------------------------------------------------------------------------
(* A restart.                                                              *)

\* _restart_still_needed.  (Mutated: it always is.)
NeededAlways == TRUE
StillNeeded ==
    /\ ~flag.stopped /\ ~blocked /\ ~full
    /\ \/ health.reason = "missed" /\ ~flag.recording /\ fsm.state = "WATCHING"
       \/ health.reason = "failed" /\ flag.recording /\ proc = "failed"
       \/ health.reason = "stalled" /\ flag.recording /\ Alive /\ ~fresh

\* Two seconds after it was scheduled a restart looks again.
Rechecks ==
    /\ Settled
    /\ act["restart"].pc = "settle"
    /\ IF StillNeeded
       THEN Goes("restart", "stop", "pause") /\ cuts' = cuts + 1
       ELSE Goes("restart", "idle", "idle") /\ UNCHANGED cuts
    /\ health' = [health EXCEPT !.reason = "none"]
    /\ UNCHANGED <<channel, capture, sample, blocked, full, env, halted, spent>>

\* Two seconds after its stop it starts the channel, whatever happened meanwhile.
RestartStarts ==
    /\ Settled
    /\ act["restart"].pc = "pause"
    /\ Goes("restart", Guarded(FALSE, "idle"), "idle")
    /\ UNCHANGED <<channel, capture, monitor, env, history>>

-----------------------------------------------------------------------------
(* Users, the duration limit, and the world.                               *)

\* A request; halt says whether it is one to stop.
Requests(halt) ==
    /\ act["user"].pc = "idle" /\ spent.requests < MaxRequests
    /\ spent' = [spent EXCEPT !.requests = @ + 1]
    /\ halted' = halt
    /\ UNCHANGED <<fsm, task, capture, monitor, env, cuts>>

\* stopRecordingForChannel: its flags come before the lock.
Stops(a) ==
    /\ flag' = [flag EXCEPT !.stopped = TRUE, !.reserved = FALSE]
    /\ Goes(a, "stop", "idle")

LimitStops ==
    /\ Settled
    /\ act["limit"].pc = "due"
    /\ Stops("limit")
    /\ UNCHANGED <<fsm, task, capture, monitor, env, history>>

UserStops == Settled /\ Requests(TRUE) /\ Stops("user")

\* The starts of one channel and of all; the latter sets its flags before the guard.
UserStarts ==
    /\ Settled
    /\ Requests(FALSE)
    /\ \/ \E byUser \in BOOLEAN : Goes("user", Guarded(byUser, "idle"), "idle")
          /\ UNCHANGED flag
       \/ /\ Goes("user", Guarded(FALSE, "idle"), "idle")
          /\ flag' = [flag EXCEPT !.stopped = FALSE, !.reserved = TRUE]

\* manual_recover: recheck starts, restart stops first, sync makes the state follow.
UserRechecks ==
    /\ Settled
    /\ Requests(FALSE)
    /\ flag' = [flag EXCEPT !.stopped = FALSE]
    /\ Goes("user", Guarded(TRUE, "idle"), "idle")

UserRestarts ==
    /\ Settled
    /\ Requests(FALSE)
    /\ Goes("user", "stop", "again")
    /\ UNCHANGED flag

UserRestartsAgain ==
    /\ Settled
    /\ act["user"].pc = "again"
    /\ flag' = [flag EXCEPT !.stopped = FALSE]
    /\ Goes("user", Guarded(TRUE, "idle"), "idle")
    /\ UNCHANGED <<fsm, task, capture, monitor, env, history>>

UserSyncs ==
    /\ Settled
    /\ act["user"].pc = "idle" /\ spent.requests < MaxRequests
    /\ spent' = [spent EXCEPT !.requests = @ + 1]
    /\ \/ Alive /\ SetRecording
       \/ ~Alive /\ flag.recording /\ SetWatching
    /\ UNCHANGED <<task, capture, line, act, monitor, env, cuts, halted>>

\* The rule's hours, titles and categories come and go, and so does free space.
WorldChanges ==
    /\ Settled
    /\ spent.changes < MaxChanges
    /\ spent' = [spent EXCEPT !.changes = @ + 1]
    /\ \/ env' = [env EXCEPT !.allowed = ~@]
       \/ env' = [env EXCEPT !.critical = ~@]
    /\ UNCHANGED <<channel, capture, line, act, monitor, cuts, halted>>

Next ==
    \/ \E a \in Actors : DelayOver(a) \/ CoreStart(a) \/ StopBegins(a) \/ StopEnds(a)
    \/ GoesLive \/ Writes \/ Exits \/ AttemptEnds \/ Respawns
    \/ Boots \/ ReadsStorage \/ Samples \/ Reconciles \/ CoolsDown
    \/ Rechecks \/ RestartStarts
    \/ LimitStops \/ UserStops \/ UserStarts \/ UserRechecks \/ UserRestarts
    \/ UserRestartsAgain \/ UserSyncs
    \/ WorldChanges

\* Delays, stops and sleeps come to an end, and the monitor goes on.
Fairness ==
    /\ \A a \in Actors : /\ WF_vars(DelayOver(a)) /\ WF_vars(CoreStart(a))
                         /\ WF_vars(StopBegins(a)) /\ WF_vars(StopEnds(a))
    /\ WF_vars(Boots) /\ WF_vars(ReadsStorage) /\ WF_vars(Samples) /\ WF_vars(Reconciles)
    /\ WF_vars(CoolsDown) /\ WF_vars(Rechecks) /\ WF_vars(RestartStarts)
    /\ WF_vars(LimitStops) /\ WF_vars(UserRestartsAgain)

HealthSpec == Init /\ [][Next]_vars /\ Fairness

-----------------------------------------------------------------------------
(* Properties.                                                             *)

\* Automatic reconnection is bounded: since the file was last seen growing no
\* more captures were cut by restarts than the attempts that are on record.
RestartsAreBounded == cuts <= health.attempts

\* Types, and the bound on the restarts of a file that does not grow.
HealthInv == HealthTypeOK /\ RestartsAreBounded

\* A restart never cuts a capture whose file grew since the sample that
\* condemned it, however long the restart waited for the channel's lock.
OnlyFailingIsRestarted ==
    [][\A a \in {"restart"} : StopBegins(a) => ~(Alive /\ fresh)]_vars

\* When the rule forbids the channel for good, nothing records it for good:
\* respawns pass the guard by, and starts that were let through come late.
RuleHolds == <>[]~env.allowed => <>[]~flag.recording

\* A capture that writes no more is not left alone while attempts remain,
\* nobody stops it and nothing forbids it.
Abandoned ==
    /\ flag.recording /\ proc = "writes" /\ ~fresh
    /\ env.allowed /\ ~env.critical /\ ~flag.stopped
    /\ health.attempts < MaxAttempts
StalledIsAnswered == ~<>[]Abandoned

\* A channel that a user stopped, and that nobody asked for since, stays stopped.
StopIsKept ==
    (halted /\ act["user"].pc = "idle") => (task = "none" /\ proc = "none")
=============================================================================
