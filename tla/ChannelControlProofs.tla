------------------------ MODULE ChannelControlProofs ------------------------
(***************************************************************************)
(* Machine-checked proofs about CaptureGuard and ChannelControl, for any   *)
(* sets of captures, broadcasts, made-up ids and commands, whichever       *)
(* callers there are past the controller.  First the guard alone, then the *)
(* channel with the guard in it.  The argument about the channel: an       *)
(* admission is the only one and nothing records beside it                 *)
(* (AdmissionHolds, WatchHolds); what is launched is in _captures until    *)
(* its group is gone (OwnedUntilGone); the decisions that a recording      *)
(* rests on are changed by nobody who does not also stop it.               *)
(***************************************************************************)
EXTENDS ChannelControl, TLAPS

-----------------------------------------------------------------------------
(***************************************************************************)
(* The capture guard, for any number of channels, launches and starts of   *)
(* the application.                                                        *)
(***************************************************************************)

LEMMA GuardInitEstablishes == GuardInit => GuardInv
BY DEF GuardInit, GuardInv, GuardTypeOK, MarkerCovers, AdmissionsAreMine,
       SurvivorsRefuse, GroupStates, Up

\* What the launch of an admitted capture may change: its own group, its own
\* place in the journal, and flags that only ever refuse more.
LEMMA LaunchPreserves ==
  ASSUME GuardInv, NEW c \in Captures, group[c] = "admitted",
         NEW after \in GroupStates, group' = [group EXCEPT ![c] = after],
         guard' \in [phase : {guard.phase}, marker : {guard.marker},
                     refused : {guard.refused, TRUE}, uncertain : {guard.uncertain, TRUE}],
         recorded' \in {recorded, recorded \cup {c}}, mine' = mine
  PROVE  GuardInv'
<1> USE DEF GuardInv
<1>1. Up /\ Up' /\ guard'.marker = guard.marker /\ c \in mine
  BY DEF GuardTypeOK, AdmissionsAreMine, Up
<1>2. guard.marker
  BY <1>1 DEF GuardTypeOK, MarkerCovers
<1>3. GuardTypeOK'
  BY <1>1 DEF GuardTypeOK
<1>4. MarkerCovers' /\ AdmissionsAreMine'
  BY <1>1, <1>2 DEF GuardTypeOK, MarkerCovers, AdmissionsAreMine
<1>5. SurvivorsRefuse'
  <2>1. \A d \in Captures \ mine : group'[d] = group[d]
    BY <1>1 DEF GuardTypeOK
  <2>2. \A d \in Captures \ mine : group[d] = "absent"
    BY <1>1 DEF SurvivorsRefuse
  <2>3. QED
    BY <1>1, <2>1, <2>2 DEF SurvivorsRefuse
<1>6. QED
  BY <1>3, <1>4, <1>5

\* A group can shrink at any time, whether the application is up or not.
LEMMA ExitPreserves ==
  ASSUME GuardInv, NEW c \in Captures, Survives(c),
         NEW after \in {"absent", "orphaned"}, group' = [group EXCEPT ![c] = after],
         UNCHANGED <<guard, mine, recorded>>
  PROVE  GuardInv'
<1> USE DEF GuardInv
<1>1. group[c] # "absent" /\ GuardTypeOK'
  BY DEF GuardTypeOK, GroupStates, Survives
<1>2. MarkerCovers' /\ AdmissionsAreMine'
  BY <1>1 DEF GuardTypeOK, MarkerCovers, AdmissionsAreMine, Up
<1>3. SurvivorsRefuse'
  BY <1>1 DEF GuardTypeOK, SurvivorsRefuse, Up
<1>4. QED
  BY <1>1, <1>2, <1>3

\* The exit of the application, if it keeps the marker or nothing survives.
LEMMA ExitedPreserves ==
  ASSUME GuardInv, Up, NEW m \in BOOLEAN,
         guard' = [guard EXCEPT !.phase = "down", !.marker = m],
         m \/ \A c \in Captures : ~Survives(c),
         group' = Exited, UNCHANGED <<mine, recorded>>
  PROVE  GuardInv'
<1> USE DEF GuardInv
<1>1. GuardTypeOK' /\ ~Up' /\ guard'.marker = m
  BY DEF GuardTypeOK, Exited, GroupStates, Up
<1>2. \A c \in Captures : group'[c] # "admitted" /\ (~Survives(c) => group'[c] = "absent")
  BY DEF GuardTypeOK, Exited, GroupStates, Survives
<1>3. MarkerCovers' /\ AdmissionsAreMine' /\ SurvivorsRefuse'
  BY <1>1, <1>2 DEF MarkerCovers, AdmissionsAreMine, SurvivorsRefuse
<1>4. QED
  BY <1>1, <1>3

LEMMA GuardStepPreserves ==
  ASSUME GuardInv, NEW c \in Captures, GuardStep(c)
  PROVE  GuardInv'
<1>1. CASE Admit(c)
  <2> USE <1>1 DEF Admit, GuardInv
  <2>1. GuardTypeOK' /\ MarkerCovers' /\ AdmissionsAreMine'
    BY DEF GuardTypeOK, MarkerCovers, AdmissionsAreMine, GroupStates, Up
  <2>2. \A d \in Captures \ mine : group[d] = "absent"
    BY DEF SurvivorsRefuse
  <2>3. SurvivorsRefuse'
    BY <2>2 DEF GuardTypeOK, SurvivorsRefuse
  <2>4. QED
    BY <2>1, <2>3
<1>2. CASE Withdraw(c) \/ LaunchVanishes(c)
  <2>1. guard' = guard /\ recorded' = recorded /\ mine' = mine /\ group[c] = "admitted"
        /\ group' = [group EXCEPT ![c] = "absent"]
    BY <1>2 DEF Withdraw, LaunchVanishes
  <2>2. QED
    BY <2>1, LaunchPreserves DEF GuardInv, GuardTypeOK, GroupStates
<1>3. CASE LaunchRecorded(c) \/ LaunchUnheard(c)
  <2>1. guard' = guard /\ recorded' \in {recorded, recorded \cup {c}} /\ mine' = mine
        /\ group[c] = "admitted" /\ group' = [group EXCEPT ![c] = "live"]
    BY <1>3 DEF LaunchRecorded, LaunchUnheard
  <2>2. QED
    BY <2>1, LaunchPreserves DEF GuardInv, GuardTypeOK, GroupStates
<1>4. CASE LaunchEscapes(c)
  BY <1>4, LaunchPreserves DEF LaunchEscapes, GuardInv, GuardTypeOK, GroupStates
<1>5. CASE LaunchFails(c)
  BY <1>5, LaunchPreserves DEF LaunchFails, GuardInv, GuardTypeOK, GroupStates
<1>6. CASE LeaderExits(c)
  BY <1>6, ExitPreserves DEF LeaderExits, Survives
<1>7. CASE OrphansExit(c)
  BY <1>7, ExitPreserves DEF OrphansExit, Survives
<1>8. QED
  BY <1>1, <1>2, <1>3, <1>4, <1>5, <1>6, <1>7 DEF GuardStep

LEMMA FinishGuardPreserves ==
  ASSUME GuardInv, NEW confirmed \in BOOLEAN, Trustworthy(confirmed), FinishGuard(confirmed)
  PROVE  GuardInv'
<1> DEFINE kept == ~(confirmed /\ Proven /\ ~guard.refused)
<1>1. guard' = [guard EXCEPT !.phase = "down", !.marker = kept] /\ Up
  BY DEF FinishGuard
<1>2. ASSUME ~kept PROVE \A c \in Captures : ~Survives(c)
  <2>1. \A c \in mine : group[c] = "absent"
    BY <1>2 DEF Trustworthy, Proven
  <2>2. \A c \in Captures \ mine : group[c] = "absent"
    BY <1>1, <1>2 DEF GuardInv, SurvivorsRefuse
  <2>3. QED
    BY <2>1, <2>2 DEF Survives
<1>3. kept \in BOOLEAN
  BY DEF Proven
<1> HIDE DEF kept
<1>4. QED
  BY <1>1, <1>2, <1>3, ExitedPreserves DEF FinishGuard

LEMMA GuardNextPreserves == GuardInv /\ [GuardNext]_guardVars => GuardInv'
<1> SUFFICES ASSUME GuardInv, [GuardNext]_guardVars PROVE GuardInv'
  OBVIOUS
<1>1. CASE BeginGuard
  <2> USE <1>1 DEF BeginGuard, GuardInv
  <2>1. GuardTypeOK' /\ Up' /\ guard'.marker
    BY DEF GuardTypeOK, Up
  <2>2. \A c \in Captures : group[c] # "admitted"
    BY DEF AdmissionsAreMine
  <2>3. (\E c \in Captures : group[c] # "absent") => guard'.refused
    BY DEF MarkerCovers, GuardTypeOK
  <2>4. QED
    BY <2>1, <2>2, <2>3 DEF MarkerCovers, AdmissionsAreMine, SurvivorsRefuse
<1>2. CASE \E c \in Captures : GuardStep(c)
  BY <1>2, GuardStepPreserves
<1>3. CASE \E confirmed \in BOOLEAN : Trustworthy(confirmed) /\ FinishGuard(confirmed)
  BY <1>3, FinishGuardPreserves
<1>4. CASE Crash
  <2>1. guard.marker /\ guard' = [guard EXCEPT !.phase = "down", !.marker = TRUE]
    BY <1>4 DEF Crash, GuardInv, GuardTypeOK, MarkerCovers
  <2>2. QED
    BY <1>4, <2>1, ExitedPreserves DEF Crash
<1>5. CASE OfflineReconcile
  <2> USE <1>5 DEF OfflineReconcile, GuardInv
  <2>1. GuardTypeOK' /\ ~Up'
    BY DEF GuardTypeOK, Up
  <2>2. \A c \in Captures : group[c] = "absent"
    BY DEF GuardTypeOK, AdmissionsAreMine, Survives, GroupStates
  <2>3. QED
    BY <2>1, <2>2 DEF MarkerCovers, AdmissionsAreMine, SurvivorsRefuse
<1>6. CASE UNCHANGED guardVars
  BY <1>6 DEF guardVars, GuardInv, GuardTypeOK, MarkerCovers, AdmissionsAreMine,
              SurvivorsRefuse, Up
<1>7. QED
  BY <1>1, <1>2, <1>3, <1>4, <1>5, <1>6 DEF GuardNext

\* The guard's invariant holds in every reachable state: types, and what the
\* marker stands for in v2_runtime.begin_capture_guard.
THEOREM GuardInvariant == GuardSpec => []GuardInv
<1>1. GuardInit => GuardInv
  BY GuardInitEstablishes
<1>2. GuardInv /\ [GuardNext]_guardVars => GuardInv'
  BY GuardNextPreserves
<1>3. QED
  BY <1>1, <1>2, PTL DEF GuardSpec

\* No capture is started beside one that outlived an earlier run, however many
\* launches, crashes and clean exits there were (v2_runtime.py:101-132).
THEOREM NeverBesideASurvivor == GuardSpec => []NoCaptureBesideSurvivor
<1>1. GuardInv => NoCaptureBesideSurvivor
  BY DEF GuardInv, SurvivorsRefuse, NoCaptureBesideSurvivor, Survives
<1>2. QED
  BY <1>1, GuardInvariant, PTL

-----------------------------------------------------------------------------
(***************************************************************************)
(* The channel.                                                            *)
(***************************************************************************)

ChannelIInv == ChannelInv /\ DecisionsAreKept /\ CapturesAreReachable /\ CommandsAreAttended

-----------------------------------------------------------------------------
(***************************************************************************)
(* What the controller's methods make of the channel's record.             *)
(***************************************************************************)
OnceKept(c, d) ==
    /\ d.once = c.once /\ d.cmd = c.cmd
    /\ d.once = NoCommand => d.scope = NoBroadcast

OnceSettled(c, d) ==
    /\ d.once = NoCommand /\ d.scope = NoBroadcast
    /\ \A k \in Commands : d.cmd[k] = "running" <=> c.cmd[k] = "running" /\ k # c.once

Onward(c, d) == OnceKept(c, d) \/ OnceSettled(c, d)

\* A scope and what it stands for agree.
Scopes(c) == c.once = NoCommand => c.scope = NoBroadcast

\* The part of a record that no watch task changes.
Fixed(c, d) == d.mode = c.mode /\ d.suppressed = c.suppressed /\ d.stopping = c.stopping

\* The end of a once scope touches nothing but the scope and its command.
LEMMA FinishOnceGives ==
  ASSUME NEW c \in ChannelType, Scopes(c), NEW s \in Settled
  PROVE  LET d == FinishOnce(c, s)
         IN  /\ d \in ChannelType /\ OnceSettled(c, d) /\ Fixed(c, d)
             /\ d.observed = c.observed /\ d.continuing = c.continuing
             /\ d.current = c.current /\ d.blocked = c.blocked /\ d.take = c.take
<1>1. CASE c.once = NoCommand
  BY <1>1, ChannelAssumption
     DEF FinishOnce, OnceSettled, Fixed, Scopes, Commands
<1>2. CASE c.once # NoCommand
  <2>1. c.once \in Commands /\ s \in CommandStates /\ s # "running"
        /\ NoBroadcast \in MaybeId /\ c.cmd \in [Commands -> CommandStates]
    BY <1>2 DEF ChannelType, Settled, CommandStates, MaybeId
  <2>2. FinishOnce(c, s) = [c EXCEPT !.cmd = [c.cmd EXCEPT ![c.once] = s],
                                     !.once = NoCommand, !.scope = NoBroadcast]
    BY <1>2 DEF FinishOnce, Answer, ChannelType
  <2> DEFINE cmd == [c.cmd EXCEPT ![c.once] = s]
  <2>3. cmd \in [Commands -> CommandStates]
        /\ \A k \in Commands : cmd[k] = IF k = c.once THEN s ELSE c.cmd[k]
    BY <2>1
  <2> HIDE DEF cmd
  <2>4. FinishOnce(c, s) = [c EXCEPT !.cmd = cmd, !.once = NoCommand, !.scope = NoBroadcast]
    BY <2>2 DEF cmd
  <2> DEFINE d == FinishOnce(c, s)
  <2>5. d \in ChannelType
    BY <2>1, <2>3, <2>4 DEF ChannelType
  <2>6. /\ d.cmd = cmd /\ d.once = NoCommand /\ d.scope = NoBroadcast
        /\ d.mode = c.mode /\ d.suppressed = c.suppressed /\ d.stopping = c.stopping
        /\ d.observed = c.observed /\ d.continuing = c.continuing
        /\ d.current = c.current /\ d.blocked = c.blocked /\ d.take = c.take
    BY <2>4 DEF ChannelType
  <2>7. OnceSettled(c, d)
    BY <2>1, <2>3, <2>6 DEF OnceSettled
  <2>8. QED
    BY <2>5, <2>6, <2>7 DEF Fixed
<1>3. QED
  BY <1>1, <1>2

TakeOf(c) == /\ c.take # NoTake => c.take.capture \in Captures
             /\ c.blocked => c.take # NoTake

\* What capture_finished leaves alone.
OnlyTheTake(c, d) ==
    /\ Fixed(c, d) /\ d.once = c.once /\ d.scope = c.scope /\ d.cmd = c.cmd
    /\ d.continuing = c.continuing /\ d.current = c.current

LEMMA ObserveGives ==
  ASSUME NEW c \in ChannelType, NEW id \in MaybeId
  PROVE  LET d == Observe(c, id)
         IN  /\ d \in ChannelType /\ OnlyTheTake(c, d) /\ d.observed = id
             /\ d.blocked = c.blocked /\ d.take = c.take
BY DEF Observe, ChannelType, OnlyTheTake, Fixed

LEMMA BlockGives ==
  ASSUME NEW c \in ChannelType
  PROVE  LET d == Block(c)
         IN  /\ d \in ChannelType /\ OnlyTheTake(c, d) /\ d.observed = c.current
             /\ d.blocked /\ d.take = c.take
BY DEF Block, Observe, ChannelType, OnlyTheTake, Fixed

LEMMA NothingCaptured ==
  /\ \A g \in Captures : g # NoTake.capture
  /\ NoTake \in TakeType /\ NoBroadcast \in MaybeId
BY ChannelAssumption DEF NoTake, TakeType, MaybeId

LEMMA MachineStates ==
  LET machine == [state : {"STOPPED", "WATCHING", "RECORDING"}, stop : BOOLEAN, rec : BOOLEAN]
  IN  StoppedFsm \in machine /\ WatchingFsm \in machine /\ RecordingFsm \in machine
BY DEF StoppedFsm, WatchingFsm, RecordingFsm

\* A capture whose leader has gone is dropped if its group has, and blocks the
\* channel otherwise.
LEMMA CaptureFinishedGives ==
  ASSUME GuardTypeOK, NEW c \in ChannelType, TakeOf(c),
         \A g \in Captures : g = c.take.capture => group[g] # "live"
  PROVE  LET d == CaptureFinished(c)
         IN  /\ d \in ChannelType /\ OnlyTheTake(c, d) /\ TakeOf(d)
             /\ d.take \in {c.take, NoTake}
             /\ Active(c) => d.take = c.take /\ d.blocked /\ d.observed = c.current
             /\ ~Active(c) => d.observed = c.observed /\ (d.blocked => c.blocked)
             /\ ~Active(c) => ~Active(d)
<1> DEFINE d == CaptureFinished(c)
<1>1. CASE c.take = NoTake
  <2>1. d = c
    BY <1>1 DEF CaptureFinished
  <2>2. ~Active(c)
    BY <1>1, NothingCaptured DEF Active
  <2>3. QED
    BY <2>1, <2>2 DEF OnlyTheTake, Fixed
<1>2. CASE c.take # NoTake /\ group[c.take.capture] = "absent"
  <2>1. d = [c EXCEPT !.take = NoTake, !.blocked = FALSE]
    BY <1>2 DEF CaptureFinished
  <2> HIDE DEF d
  <2>2. d \in ChannelType
    BY <2>1, NothingCaptured DEF ChannelType
  <2>3. d.take = NoTake /\ d.blocked = FALSE /\ d.observed = c.observed
    BY <2>1 DEF ChannelType
  <2>4. OnlyTheTake(c, d)
    BY <2>1 DEF ChannelType, OnlyTheTake, Fixed
  <2>5. ~Active(c)
    BY <1>2 DEF Active, Survives
  <2>6. ~Active(d)
    BY <2>3, NothingCaptured DEF Active
  <2>7. TakeOf(d)
    BY <2>3 DEF TakeOf
  <2>8. QED
    BY <2>2, <2>3, <2>4, <2>5, <2>6, <2>7 DEF d
<1>3. CASE c.take # NoTake /\ group[c.take.capture] = "orphaned"
  <2>1. d = Block(c)
    BY <1>3 DEF CaptureFinished
  <2>2. /\ d \in ChannelType /\ OnlyTheTake(c, d) /\ d.observed = c.current
        /\ d.blocked /\ d.take = c.take
    BY <2>1, BlockGives
  <2>3. Active(c) /\ TakeOf(d)
    BY <1>3, <2>2 DEF Active, Survives, TakeOf
  <2>4. QED
    BY <2>2, <2>3
<1>4. CASE c.take # NoTake /\ group[c.take.capture] \notin {"absent", "orphaned"}
  <2>1. d = c
    BY <1>4 DEF CaptureFinished
  <2>2. ~Active(c)
    BY <1>4 DEF Active, Survives
  <2>3. QED
    BY <2>1, <2>2 DEF OnlyTheTake, Fixed
<1>5. QED
  BY <1>1, <1>2, <1>3, <1>4

Outcomes == {"OFFLINE", "DISABLED", "COMPLETED", "USER_STOPPED", "RETRYABLE_ERROR"}

\* What the end of a session makes of the channel: a group in doubt blocks it,
\* and who goes on watching has a reason to.
LEMMA SessionFinishedGives ==
  ASSUME GuardTypeOK, NEW c \in ChannelType, TakeOf(c), Scopes(c), NEW o \in Outcomes,
         \A g \in Captures : g = c.take.capture => group[g] # "live"
  PROVE  LET s == SessionFinished(c, o)
             d == s.chan
         IN  /\ d \in ChannelType /\ Fixed(c, d) /\ Onward(c, d) /\ TakeOf(d) /\ Scopes(d)
             /\ d.take \in {c.take, NoTake} /\ d.current = c.current
             /\ d.continuing \in {c.continuing, NoBroadcast}
             /\ Active(c) => /\ d.take = c.take /\ d.blocked /\ d.observed = c.current
                             /\ ~s.again
             /\ ~Active(c) => ~Active(d) /\ (d.blocked => c.blocked)
             /\ s.again \in BOOLEAN /\ (s.again => ShouldWatch(d))
<1> DEFINE d == CaptureFinished(c)
           heard == IF o = "RETRYABLE_ERROR" THEN Observe(d, d.current) ELSE d
           asked == Asked(heard)
           ended(state) == [FinishOnce(d, state) EXCEPT !.continuing = NoBroadcast]
           s == SessionFinished(c, o)
<1>1. /\ d \in ChannelType /\ OnlyTheTake(c, d) /\ TakeOf(d)
      /\ d.take \in {c.take, NoTake}
      /\ Active(c) => d.take = c.take /\ d.blocked /\ d.observed = c.current
      /\ ~Active(c) => d.observed = c.observed /\ (d.blocked => c.blocked)
      /\ ~Active(c) => ~Active(d)
  BY CaptureFinishedGives
<1>2. s = CASE d.blocked  -> [chan |-> FinishOnce(d, "blocked"), again |-> FALSE]
            [] ~d.blocked /\ d.stopping -> [chan |-> ended("succeeded"), again |-> FALSE]
            [] ~d.blocked /\ ~d.stopping /\ o = "USER_STOPPED" ->
                   [chan |-> Observe(ended("failed"), NoBroadcast), again |-> FALSE]
            [] OTHER -> [chan |-> asked, again |-> ShouldWatch(asked)]
  BY DEF SessionFinished
<1>3. d.blocked \in BOOLEAN /\ d.stopping \in BOOLEAN
  BY <1>1 DEF ChannelType
<1> HIDE DEF d
<1>4. Scopes(d)
  BY <1>1 DEF Scopes, OnlyTheTake
<1>5. ASSUME NEW e, e \in ChannelType, Fixed(d, e), OnceSettled(d, e) \/ OnceKept(d, e),
             e.current = d.current, e.take = d.take, e.blocked = d.blocked,
             e.continuing \in {d.continuing, NoBroadcast}, s.chan = e,
             s.again \in BOOLEAN, s.again => ShouldWatch(e),
             d.blocked => e.observed = d.observed /\ ~s.again
      PROVE  /\ e \in ChannelType /\ Fixed(c, e) /\ Onward(c, e) /\ TakeOf(e) /\ Scopes(e)
             /\ e.take \in {c.take, NoTake} /\ e.current = c.current
             /\ e.continuing \in {c.continuing, NoBroadcast}
             /\ Active(c) => /\ e.take = c.take /\ e.blocked /\ e.observed = c.current
                             /\ ~s.again
             /\ ~Active(c) => ~Active(e) /\ (e.blocked => c.blocked)
  <2>1. Fixed(c, e) /\ Onward(c, e) /\ Scopes(e)
    BY <1>1, <1>5 DEF Fixed, Onward, OnceSettled, OnceKept, Scopes, OnlyTheTake
  <2>2. TakeOf(e) /\ (~Active(d) => ~Active(e))
    BY <1>1, <1>5 DEF TakeOf, Active
  <2>3. QED
    BY <1>1, <1>5, <2>1, <2>2 DEF OnlyTheTake
<1>6. CASE d.blocked
  <2>1. s.chan = FinishOnce(d, "blocked") /\ s.again = FALSE
    BY <1>2, <1>6
  <2>2. "blocked" \in Settled
    BY DEF Settled
  <2> DEFINE e == FinishOnce(d, "blocked")
  <2>3. /\ e \in ChannelType /\ OnceSettled(d, e) /\ Fixed(d, e)
        /\ e.observed = d.observed /\ e.continuing = d.continuing
        /\ e.current = d.current /\ e.blocked = d.blocked /\ e.take = d.take
    BY <1>1, <1>4, <2>2, FinishOnceGives
  <2>4. s.chan = e /\ s.again = FALSE
    BY <2>1
  <2> HIDE DEF e
  <2>5. QED
    BY <1>3, <1>5, <2>1, <2>3, <2>4
<1>7. ASSUME NEW state \in Settled
      PROVE  LET e == ended(state)
             IN  /\ e \in ChannelType /\ Fixed(d, e) /\ OnceSettled(d, e)
                 /\ e.current = d.current /\ e.take = d.take /\ e.blocked = d.blocked
                 /\ e.continuing = NoBroadcast
  <2> DEFINE f == FinishOnce(d, state)
  <2>1. /\ f \in ChannelType /\ OnceSettled(d, f) /\ Fixed(d, f)
        /\ f.current = d.current /\ f.blocked = d.blocked /\ f.take = d.take
    BY <1>1, <1>4, FinishOnceGives
  <2> HIDE DEF f
  <2>2. ended(state) = [f EXCEPT !.continuing = NoBroadcast]
    BY DEF f
  <2>3. QED
    BY <2>1, <2>2, NothingCaptured DEF ChannelType, Fixed, OnceSettled
<1>8. CASE ~d.blocked /\ d.stopping
  <2>1. s.chan = ended("succeeded") /\ s.again = FALSE /\ "succeeded" \in Settled
    BY <1>2, <1>8 DEF Settled
  <2> HIDE DEF ended
  <2>2. QED
    BY <1>1, <1>5, <1>7, <1>8, <2>1
<1>9. CASE ~d.blocked /\ ~d.stopping /\ o = "USER_STOPPED"
  <2> DEFINE f == ended("failed")
             e == Observe(f, NoBroadcast)
  <2>1. s.chan = e /\ s.again = FALSE /\ "failed" \in Settled
    BY <1>2, <1>9 DEF Settled
  <2>2. /\ f \in ChannelType /\ Fixed(d, f) /\ OnceSettled(d, f)
        /\ f.current = d.current /\ f.take = d.take /\ f.blocked = d.blocked
        /\ f.continuing = NoBroadcast
    BY <1>7, <2>1
  <2> HIDE DEF f
  <2>3. e \in ChannelType /\ OnlyTheTake(f, e) /\ e.blocked = f.blocked /\ e.take = f.take
    <3>1. NoBroadcast \in MaybeId
      BY NothingCaptured
    <3>2. QED
      BY <2>2, <3>1, ObserveGives
  <2>4. Fixed(d, e) /\ OnceSettled(d, e) /\ e.current = d.current /\ e.continuing = NoBroadcast
    BY <2>2, <2>3 DEF OnlyTheTake, Fixed, OnceSettled
  <2> HIDE DEF e
  <2>5. QED
    BY <1>5, <1>9, <2>1, <2>2, <2>3, <2>4
<1>10. CASE ~d.blocked /\ ~d.stopping /\ o # "USER_STOPPED"
  <2>1. s.chan = asked /\ s.again = ShouldWatch(asked)
    BY <1>2, <1>3, <1>10
  <2>2. /\ heard \in ChannelType /\ OnlyTheTake(d, heard)
        /\ heard.take = d.take /\ heard.blocked = d.blocked
    <3>1. d.current \in MaybeId
      BY <1>1 DEF ChannelType
    <3>2. QED
      BY <1>1, <3>1, ObserveGives DEF OnlyTheTake, Fixed
  <2>3. asked = IF heard.scope = NoBroadcast THEN FinishOnce(heard, "failed") ELSE heard
    BY DEF Asked
  <2> HIDE DEF heard, asked
  <2>4. Scopes(heard) /\ "failed" \in Settled
    BY <1>4, <2>2 DEF Scopes, OnlyTheTake, Settled
  <2>5. /\ asked \in ChannelType /\ Fixed(heard, asked)
        /\ OnceSettled(heard, asked) \/ OnceKept(heard, asked)
        /\ asked.current = heard.current /\ asked.continuing = heard.continuing
        /\ asked.take = heard.take /\ asked.blocked = heard.blocked
    <3>1. CASE heard.scope = NoBroadcast
      BY <2>2, <2>3, <2>4, <3>1, FinishOnceGives
    <3>2. CASE heard.scope # NoBroadcast
      BY <2>2, <2>3, <2>4, <3>2 DEF OnceKept, Scopes, Fixed
    <3>3. QED
      BY <3>1, <3>2
  <2>6. /\ Fixed(d, asked)
        /\ OnceSettled(d, asked) \/ OnceKept(d, asked)
        /\ asked.current = d.current /\ asked.continuing = d.continuing
    BY <2>2, <2>5 DEF OnlyTheTake, Fixed, OnceSettled, OnceKept
  <2>7. ShouldWatch(asked) \in BOOLEAN
    BY <2>5 DEF ShouldWatch, ChannelType
  <2>8. QED
    BY <1>5, <1>10, <2>1, <2>2, <2>5, <2>6, <2>7
<1>11. QED
  BY <1>3, <1>6, <1>8, <1>9, <1>10

-----------------------------------------------------------------------------
(***************************************************************************)
(* The end of a session, whichever way the attempt came to it.             *)
(***************************************************************************)

\* The channel as an attempt hands it to session_finished: what it heard of the
\* broadcast may have ended a scope.
Heard(c) ==
    /\ c \in ChannelType /\ Fixed(chan, c) /\ Onward(chan, c) /\ Scopes(c)
    /\ c.take = chan.take /\ c.blocked = chan.blocked
    /\ c.continuing \in {chan.continuing, NoBroadcast}

LEMMA OnwardComposes ==
  ASSUME NEW a, NEW b, NEW c, Onward(a, b), Onward(b, c)
  PROVE  Onward(a, c)
<1>1. CASE OnceKept(a, b)
  BY <1>1 DEF Onward, OnceKept, OnceSettled
<1>2. CASE OnceSettled(a, b) /\ OnceKept(b, c)
  BY <1>2 DEF Onward, OnceKept, OnceSettled
<1>3. CASE OnceSettled(a, b) /\ OnceSettled(b, c)
  BY <1>3, ChannelAssumption DEF Onward, OnceSettled, Commands
<1>4. QED
  BY <1>1, <1>2, <1>3 DEF Onward

\* Whoever waited for a command still waits for one that runs.
LEMMA OnwardKeepsTheRequests ==
  ASSUME ServiceHolds, CommandsAreAttended, Up, NEW d, Fixed(chan, d), Onward(chan, d), Scopes(d),
         chan \in ChannelType, d.continuing \in {chan.continuing, NoBroadcast},
         chan' = d, UNCHANGED svc
  PROVE  ServiceHolds' /\ CommandsAreAttended'
<1>1. d.once \in {chan.once, NoCommand}
      /\ \A k \in Commands : d.cmd[k] = "running" => chan.cmd[k] = "running"
  BY DEF Onward, OnceKept, OnceSettled
<1>2. NoCommand \notin Commands
  BY ChannelAssumption DEF Commands
<1>3. /\ svc'.op = "none" => svc' = NoService
      /\ svc'.op \notin {"once", "stop"} => svc'.cmd = NoCommand
      /\ chan'.stopping <=> svc'.op \in {"stop", "legacy"}
  BY DEF ServiceHolds, Fixed
<1>4. svc'.op = "pause" => /\ chan'.mode = "paused" /\ chan'.once = NoCommand
                           /\ chan'.continuing = NoBroadcast
  BY <1>1 DEF ServiceHolds, Fixed
<1>5. svc'.op = "stop" => svc'.cmd \in Commands /\ svc'.cmd # chan'.once
  BY <1>1, <1>2 DEF ServiceHolds
<1>6. svc'.op = "once" => /\ svc'.cmd \in Commands
                          /\ chan'.cmd[svc'.cmd] = "running" => chan'.once = svc'.cmd
  BY <1>1, <1>2 DEF ServiceHolds, Onward, OnceKept, OnceSettled
<1>7. chan'.once = NoCommand => chan'.scope = NoBroadcast
  BY DEF Scopes
<1>8. CommandsAreAttended'
  <2> SUFFICES ASSUME NEW k \in Commands
               PROVE  /\ chan'.cmd[k] = "running" => k \in {chan'.once, svc'.cmd}
                      /\ k = chan'.once => chan'.cmd[k] = "running"
    BY DEF CommandsAreAttended
  <2>1. /\ chan.cmd[k] = "running" => k \in {chan.once, svc.cmd}
        /\ k = chan.once => chan.cmd[k] = "running"
    BY DEF CommandsAreAttended
  <2>2. CASE OnceKept(chan, d)
    BY <2>1, <2>2 DEF OnceKept
  <2>3. CASE OnceSettled(chan, d)
    BY <1>2, <2>1, <2>3 DEF OnceSettled
  <2>4. QED
    BY <2>2, <2>3 DEF Onward
<1>9. QED
  BY <1>3, <1>4, <1>5, <1>6, <1>7, <1>8 DEF ServiceHolds

\* An admission that is withdrawn leaves everything else as it is.
Withdrawn ==
    /\ guard' = guard /\ mine' = mine
    /\ \A g \in Captures :
          /\ group'[g] # "admitted"
          /\ group'[g] = group[g] \/ (group[g] = "admitted" /\ group'[g] = "absent")

LEMMA SessionEndsPreserves ==
  ASSUME ChannelIInv, NEW c, Heard(c), NEW o \in Outcomes, watch.pc # "none",
         Active(chan) => c = chan, LeaderGone, GuardInv', Withdrawn,
         SessionEnds(c, o), UNCHANGED <<svc, halt>>
  PROVE  ChannelIInv'
<1> DEFINE s == SessionFinished(c, o)
           d == s.chan
<1>1. /\ ChannelTypeOK /\ GuardInv /\ OneCapture /\ DownForgets /\ TakeHolds /\ WatchHolds
      /\ HaltHolds /\ ServiceHolds /\ OwnedUntilGone /\ CommandsAreAttended
  BY DEF ChannelIInv, ChannelInv, CapturesAreReachable
<1>2. GuardTypeOK /\ GuardTypeOK' /\ chan \in ChannelType /\ Up
  BY <1>1 DEF ChannelTypeOK, GuardInv, DownForgets, NoWatch
<1>3. c \in ChannelType /\ TakeOf(c) /\ Scopes(c) /\ (Active(c) <=> Active(chan))
  BY <1>1 DEF Heard, TakeOf, TakeHolds, Active
<1>4. \A g \in Captures : g = c.take.capture => group[g] # "live"
  BY DEF Heard, LeaderGone
<1>5. /\ d \in ChannelType /\ Fixed(c, d) /\ Onward(c, d) /\ TakeOf(d) /\ Scopes(d)
      /\ d.take \in {c.take, NoTake} /\ d.current = c.current
      /\ d.continuing \in {c.continuing, NoBroadcast}
      /\ Active(c) => d.take = c.take /\ d.blocked /\ d.observed = c.current /\ ~s.again
      /\ ~Active(c) => ~Active(d) /\ (d.blocked => c.blocked)
      /\ s.again \in BOOLEAN /\ (s.again => ShouldWatch(d))
  <2> HIDE DEF s
  <2>1. s.again \in BOOLEAN /\ (s.again => ShouldWatch(d))
    BY <1>2, <1>3, <1>4, SessionFinishedGives DEF s
  <2>2. QED
    BY <1>2, <1>3, <1>4, <2>1, SessionFinishedGives DEF s
<1>6. chan' = d /\ watch' = NoWatch /\ Rewatch(s.again /\ ~fsm.stop)
  BY DEF SessionEnds
<1> HIDE DEF s
<1>7. fsm.stop \in BOOLEAN /\ fsm \in [state : {"STOPPED", "WATCHING", "RECORDING"},
                                       stop : BOOLEAN, rec : BOOLEAN]
  BY <1>1 DEF ChannelTypeOK
<1>8. \/ s.again /\ ~fsm.stop /\ fsm' = WatchingFsm /\ respawn' = TRUE
      \/ ~(s.again /\ ~fsm.stop) /\ fsm' = StoppedFsm /\ respawn' = respawn
  BY <1>5, <1>6, <1>7 DEF Rewatch
<1>9. Fixed(chan, d) /\ Onward(chan, d)
      /\ d.continuing \in {chan.continuing, NoBroadcast}
  <2>1. Scopes(chan)
    BY <1>1 DEF ServiceHolds, Scopes
  <2>2. Onward(chan, d)
    BY <1>3, <1>5, <2>1, OnwardComposes DEF Heard
  <2>3. QED
    BY <1>5, <2>2 DEF Heard, Fixed
<1>10. ServiceHolds' /\ CommandsAreAttended'
  BY <1>1, <1>2, <1>5, <1>6, <1>9, OnwardKeepsTheRequests
<1>11. Up' /\ (\A g \in Captures : Survives(g)' <=> Survives(g)) /\ (Active(chan)' <=> Active(d))
  BY <1>2, <1>6 DEF Withdrawn, Up, Survives, Active
<1>12. Active(chan)' => /\ Active(chan) /\ c = chan /\ chan'.take = chan.take /\ chan'.blocked
                        /\ chan'.observed = chan'.current /\ chan'.current = chan.current
                        /\ ~s.again
  BY <1>3, <1>5, <1>6, <1>11
<1>13. ChannelTypeOK'
  <2>1. watch' \in [pc : {"none", "born", "meta", "admitted", "wait", "raised", "drain"},
                  cancelled : BOOLEAN, user : BOOLEAN, enabled : BOOLEAN, take : TakeType]
    BY <1>6, NothingCaptured DEF NoWatch
  <2>2. fsm' \in [state : {"STOPPED", "WATCHING", "RECORDING"}, stop : BOOLEAN,
                rec : BOOLEAN]
    BY <1>8, MachineStates
  <2>5. respawn' \in BOOLEAN
    <3>1. respawn \in BOOLEAN
      BY <1>1 DEF ChannelTypeOK
    <3>2. QED
      BY <1>8, <3>1
  <2>3. svc' = svc /\ halt' = halt
    OBVIOUS
  <2>4. QED
    BY <1>1, <1>2, <1>5, <1>6, <2>1, <2>2, <2>3, <2>5 DEF ChannelTypeOK
<1>14. OneCapture' /\ OwnedUntilGone'
  <2>1. OneCapture'
    BY <1>1, <1>11 DEF OneCapture
  <2>2. ASSUME NEW g \in mine', Survives(g)' PROVE g = chan'.take.capture
    <3>1. g \in mine /\ g \in Captures /\ Survives(g)
      BY <1>2, <1>11, <2>2 DEF Withdrawn, GuardTypeOK
    <3>2. g = chan.take.capture
      BY <1>1, <1>2, <3>1 DEF OwnedUntilGone
    <3>3. Active(chan)
      BY <3>1, <3>2 DEF Active
    <3>4. chan'.take = chan.take
      BY <1>3, <1>5, <1>6, <3>3 DEF Heard
    <3>5. QED
      BY <3>2, <3>4
  <2>3. QED
    BY <2>1, <2>2 DEF OwnedUntilGone
<1>15. TakeHolds' /\ CaptureIsStoppable'
  BY <1>1, <1>5, <1>6, <1>12 DEF TakeHolds, TakeOf, CaptureIsStoppable
<1>16. DecisionsAreKept'
  BY <1>12 DEF DecisionsAreKept, SuppressedIsNotCaptured, PausedRecordsItsScope, Captured
<1>17. AdmissionHolds' /\ WatchHolds'
  BY <1>6, <1>12 DEF AdmissionHolds, WatchHolds, NoWatch, Withdrawn
<1>18. HaltHolds'
  <2>1. halt.by # "none" => ~(s.again /\ ~fsm.stop)
    <3>1. CASE halt.by = "pause"
      <4>1. chan.mode = "paused" /\ chan.once = NoCommand /\ chan.continuing = NoBroadcast
        BY <1>1, <3>1 DEF HaltHolds, ServiceHolds
      <4>2. d.mode = "paused" /\ d.once = NoCommand /\ d.continuing = NoBroadcast
        BY <1>9, <4>1 DEF Fixed, Onward, OnceKept, OnceSettled
      <4>3. QED
        BY <1>5, <4>2 DEF ShouldWatch
    <3>2. CASE halt.by # "pause"
      BY <1>1, <3>2 DEF HaltHolds
    <3>3. QED
      BY <3>1, <3>2
  <2>2. halt.pc = "clean" => chan'.take = NoTake
    BY <1>1, <1>5, <1>6 DEF HaltHolds, Heard
  <2>3. QED
    BY <1>1, <1>6, <1>8, <2>1, <2>2 DEF HaltHolds, NoWatch
<1>19. WatchingHolds'
  BY <1>5, <1>6, <1>8, <1>12 DEF WatchingHolds, WatchingFsm, StoppedFsm
<1>20. DownForgets'
  BY <1>11 DEF DownForgets
<1>21. NoCaptureBesideSurvivor'
  BY DEF GuardInv, SurvivorsRefuse, NoCaptureBesideSurvivor, Survives
<1>22. QED
  BY <1>10, <1>13, <1>14, <1>15, <1>16, <1>17, <1>18, <1>19, <1>20, <1>21
     DEF ChannelIInv, ChannelInv, CapturesAreReachable

-----------------------------------------------------------------------------
(***************************************************************************)
(* Requests: they change decisions, and the locks they take make up for it. *)
(***************************************************************************)
Reason(c) == c.mode = "auto" \/ SessionIsManual(c)
Ending(s) == s.op \in {"stop", "legacy", "pause"}

\* What a request may do to the decisions that a recording rests on.
Considerate(c) ==
    /\ c.take = chan.take /\ c.blocked = chan.blocked
    /\ c.current = chan.current /\ c.observed = chan.observed
    /\ Active(chan) \/ watch.pc = "admitted"
          => c.stopping \/ c.suppressed = chan.suppressed
    /\ c.scope = chan.scope \/ chan.scope = NoBroadcast
    /\ \/ c.mode = "auto"
       \/ c.mode = chan.mode /\ c.continuing = chan.continuing
       \/ c.current # NoBroadcast => c.continuing = c.current
    /\ Reason(chan) => Reason(c) \/ Ending(svc')

LEMMA RequestPreserves ==
  ASSUME ChannelIInv, Free, NEW c \in ChannelType, chan' = c, Considerate(c),
         svc' \in [op : {"none", "once", "auto", "restart", "stop", "legacy", "pause"},
                   cmd : Commands \cup {NoCommand}, id : MaybeId],
         ServiceHolds', CommandsAreAttended',
         UNCHANGED <<guardVars, fsm, watch, respawn, halt>>
  PROVE  ChannelIInv'
<1>1. /\ ChannelTypeOK /\ GuardInv /\ OneCapture /\ DownForgets /\ TakeHolds /\ WatchHolds
      /\ HaltHolds /\ ServiceHolds /\ OwnedUntilGone /\ AdmissionHolds /\ WatchingHolds
      /\ DecisionsAreKept /\ NoCaptureBesideSurvivor
  BY DEF ChannelIInv, ChannelInv, CapturesAreReachable
<1>2. UNCHANGED <<guard, group, mine, recorded>> /\ Up /\ Up' /\ svc = NoService
      /\ halt.by # "shutdown"
  BY DEF guardVars, Free, Serving, Up
<1>3. (Active(chan)' <=> Active(chan)) /\ (LeaderGone' <=> LeaderGone)
      /\ \A g \in Captures : Survives(g)' <=> Survives(g)
  BY <1>2 DEF Active, LeaderGone, Survives, Considerate
<1>4. ~chan.stopping
  BY <1>1, <1>2 DEF ServiceHolds, NoService
<1>5. ChannelTypeOK' /\ GuardInv' /\ NoCaptureBesideSurvivor' /\ OneCapture' /\ DownForgets'
  <2>1. GuardTypeOK' /\ GuardInv' /\ NoCaptureBesideSurvivor'
    BY <1>1, <1>2 DEF GuardInv, GuardTypeOK, MarkerCovers, AdmissionsAreMine,
                      SurvivorsRefuse, NoCaptureBesideSurvivor, Survives, Up
  <2>2. QED
    BY <1>1, <1>2, <1>3, <2>1 DEF ChannelTypeOK, OneCapture, DownForgets
<1>6. TakeHolds' /\ OwnedUntilGone' /\ CaptureIsStoppable'
  <2>1. TakeHolds'
    BY <1>1, <1>3 DEF TakeHolds, Considerate
  <2>2. OwnedUntilGone'
    BY <1>1, <1>2, <1>3 DEF OwnedUntilGone, GuardInv, GuardTypeOK, Considerate
  <2>3. QED
    BY <2>1, <2>2 DEF TakeHolds, CaptureIsStoppable
<1>7. AdmissionHolds'
  <2> SUFFICES ASSUME watch.pc = "admitted"
               PROVE  /\ chan'.current = chan.current /\ chan'.observed = chan.observed
                      /\ chan'.blocked = chan.blocked
                      /\ Suppressed(chan', chan'.current)
                            => chan'.scope = chan'.current \/ chan'.stopping
                      /\ chan'.mode = "paused"
                            => chan'.current \in {chan'.continuing, chan'.scope} \/ chan'.stopping
                      /\ fsm'.state = "STOPPED" => chan'.stopping
    BY <1>1, <1>2 DEF AdmissionHolds, Suppressed
  <2>1. /\ chan.current # NoBroadcast
        /\ Suppressed(chan, chan.current) => chan.scope = chan.current
        /\ chan.mode = "paused" => chan.current \in {chan.continuing, chan.scope}
        /\ fsm.state # "STOPPED"
    BY <1>1, <1>4 DEF AdmissionHolds
  <2>2. chan'.scope = chan.scope \/ chan.scope # chan.current
    BY <2>1 DEF Considerate
  <2>3. QED
    BY <1>1, <2>1, <2>2 DEF Considerate, Suppressed, ChannelTypeOK, ChannelType
<1>8. WatchHolds'
  <2>1. watch.pc = "meta" =>
          \/ chan'.stopping \/ chan'.blocked \/ svc'.op = "pause"
          \/ fsm.state # "STOPPED" /\ (chan'.mode = "auto" \/ SessionIsManual(chan'))
    <3>1. watch.pc = "meta" => chan.blocked \/ (fsm.state # "STOPPED" /\ Reason(chan))
      <4>1. svc.op # "pause"
        BY <1>2 DEF NoService
      <4>2. QED
        BY <1>1, <1>4, <4>1 DEF WatchHolds, Reason
    <3>2. Ending(svc') => chan'.stopping \/ svc'.op = "pause"
      BY DEF ServiceHolds, Ending
    <3>3. QED
      BY <3>1, <3>2 DEF Considerate, Reason
  <2>2. QED
    BY <1>1, <1>3, <2>1 DEF WatchHolds, Considerate, SessionIsManual
<1>9. HaltHolds'
  BY <1>1, <1>2 DEF HaltHolds, NoService, Considerate
<1>10. WatchingHolds'
  <2>1. LockFree /\ ShouldWatch(chan) => Ending(svc') \/ ShouldWatch(chan')
    <3>1. chan'.stopping => Ending(svc')
      BY DEF ServiceHolds, Ending
    <3>2. ShouldWatch(chan) => Reason(chan) /\ ~chan.blocked
      BY DEF ShouldWatch, Reason, SessionIsManual
    <3>3. ~chan'.stopping /\ ~chan'.blocked /\ Reason(chan') => ShouldWatch(chan')
      BY DEF ShouldWatch, Reason, SessionIsManual
    <3>4. QED
      BY <3>1, <3>2, <3>3 DEF Considerate
  <2>2. QED
    BY <1>1, <1>2, <1>3, <2>1 DEF WatchingHolds, LockFree, NoService, Ending
<1>11. DecisionsAreKept'
  <2> SUFFICES ASSUME NEW id \in Ids, Captured(id)', ~chan'.stopping, ~chan'.blocked
               PROVE  /\ Suppressed(chan, id)' => chan'.scope = id
                      /\ chan'.mode = "paused" => id \in {chan'.continuing, chan'.scope}
    BY DEF DecisionsAreKept, SuppressedIsNotCaptured, PausedRecordsItsScope
  <2>1. Captured(id) /\ Active(chan) /\ ~chan.blocked
    BY <1>3 DEF Captured, Considerate
  <2>2. id = chan.current /\ id # NoBroadcast
    BY <1>1, <2>1 DEF TakeHolds, Captured
  <2>3. /\ Suppressed(chan, id) => chan.scope = id
        /\ chan.mode = "paused" => id \in {chan.continuing, chan.scope}
    BY <1>1, <1>4, <2>1 DEF DecisionsAreKept, SuppressedIsNotCaptured, PausedRecordsItsScope
  <2>4. chan'.scope = chan.scope \/ chan.scope # id
    BY <2>2 DEF Considerate
  <2>5. chan'.suppressed = chan.suppressed
    BY <2>1 DEF Considerate
  <2>6. QED
    BY <1>1, <2>2, <2>3, <2>4, <2>5 DEF Considerate, Suppressed, ChannelTypeOK, ChannelType
<1>12. QED
  BY <1>5, <1>6, <1>7, <1>8, <1>9, <1>10, <1>11
     DEF ChannelIInv, ChannelInv, CapturesAreReachable

\* Everything but the commands.
SameButCommands(c, d) ==
    /\ Fixed(c, d) /\ d.once = c.once /\ d.scope = c.scope /\ d.observed = c.observed
    /\ d.continuing = c.continuing /\ d.current = c.current /\ d.blocked = c.blocked
    /\ d.take = c.take

LEMMA AnswerGives ==
  ASSUME NEW c \in ChannelType, NEW k \in Commands, NEW s \in CommandStates
  PROVE  LET d == Answer(c, k, s)
         IN  /\ d \in ChannelType /\ SameButCommands(c, d)
             /\ d.cmd \in [Commands -> CommandStates]
             /\ \A j \in Commands : d.cmd[j] = IF j = k THEN s ELSE c.cmd[j]
<1> DEFINE cmd == [c.cmd EXCEPT ![k] = s]
           d == Answer(c, k, s)
<1>1. cmd \in [Commands -> CommandStates]
      /\ \A j \in Commands : cmd[j] = IF j = k THEN s ELSE c.cmd[j]
  BY DEF ChannelType
<1>2. d = [c EXCEPT !.cmd = cmd]
  BY DEF Answer, ChannelType
<1> HIDE DEF cmd, d
<1>3. d \in ChannelType /\ d.cmd = cmd
  BY <1>1, <1>2 DEF ChannelType
<1>4. SameButCommands(c, d)
  BY <1>2 DEF ChannelType, SameButCommands, Fixed
<1>5. QED
  BY <1>1, <1>3, <1>4 DEF d

ServiceType == [op : {"none", "once", "auto", "restart", "stop", "legacy", "pause"},
                cmd : Commands \cup {NoCommand}, id : MaybeId]

LEMMA ServiceStates ==
  /\ NoService \in ServiceType /\ NoService.op = "none" /\ NoService.cmd = NoCommand
  /\ \A op \in {"none", "once", "auto", "restart", "stop", "legacy", "pause"} :
        LET s == [NoService EXCEPT !.op = op]
        IN  s \in ServiceType /\ s.op = op /\ s.cmd = NoCommand
BY NothingCaptured DEF NoService, ServiceType

LEMMA StartOncePreserves ==
  ASSUME ChannelIInv, NEW k \in Starts, NEW id \in Broadcasts \cup {NoBroadcast}, StartOnce(k, id)
  PROVE  ChannelIInv'
<1>1. /\ ChannelTypeOK /\ ServiceHolds /\ CommandsAreAttended /\ DownForgets
  BY DEF ChannelIInv, ChannelInv
<1>2. /\ chan \in ChannelType /\ svc = NoService /\ Free /\ Up /\ k \in Commands
      /\ NoCommand \notin Commands /\ id \in MaybeId /\ chan.cmd[k] = "absent"
      /\ UNCHANGED <<guardVars, fsm, watch, respawn, halt>>
  BY <1>1, ChannelAssumption
     DEF ChannelTypeOK, StartOnce, Free, Serving, Commands, MaybeId, Ids
<1>3. svc.op = "none" /\ svc.cmd = NoCommand /\ svc \in ServiceType /\ ~chan.stopping
  BY <1>1, <1>2, ServiceStates DEF ServiceHolds
<1>4. Up'
  BY <1>2 DEF guardVars, Up
<1>5. CASE chan' = Answer(chan, k, "succeeded") /\ UNCHANGED svc
  <2> DEFINE c == Answer(chan, k, "succeeded")
  <2>1. /\ c \in ChannelType /\ SameButCommands(chan, c)
        /\ \A j \in Commands : c.cmd[j] = IF j = k THEN "succeeded" ELSE chan.cmd[j]
    <3>1. "succeeded" \in CommandStates
      BY DEF CommandStates
    <3>2. QED
      BY <1>2, <3>1, AnswerGives
  <2>2. chan' = c /\ svc' = svc
    BY <1>5
  <2> HIDE DEF c
  <2>3. Considerate(c)
    BY <2>1 DEF Considerate, SameButCommands, Fixed, Reason, SessionIsManual
  <2>4. ServiceHolds' /\ CommandsAreAttended'
    BY <1>1, <1>2, <1>3, <1>4, <2>1, <2>2
       DEF ServiceHolds, CommandsAreAttended, SameButCommands, Fixed
  <2>5. QED
    BY <1>2, <1>3, <2>1, <2>2, <2>3, <2>4, RequestPreserves DEF ServiceType
<1>6. CASE /\ chan.once = NoCommand
           /\ chan' = [Answer(chan, k, "running") EXCEPT !.once = k, !.scope = id]
           /\ svc' = [NoService EXCEPT !.op = "once", !.cmd = k]
  <2> DEFINE a == Answer(chan, k, "running")
             c == [a EXCEPT !.once = k, !.scope = id]
  <2>1. /\ a \in ChannelType /\ SameButCommands(chan, a)
        /\ \A j \in Commands : a.cmd[j] = IF j = k THEN "running" ELSE chan.cmd[j]
    <3>1. "running" \in CommandStates
      BY DEF CommandStates
    <3>2. QED
      BY <1>2, <3>1, AnswerGives
  <2>2. chan' = c /\ chan.scope = NoBroadcast
    BY <1>1, <1>6 DEF ServiceHolds
  <2> HIDE DEF a
  <2>3. c \in ChannelType
    BY <1>2, <2>1 DEF ChannelType
  <2>4. /\ Fixed(a, c) /\ c.once = k /\ c.scope = id /\ c.observed = a.observed
        /\ c.continuing = a.continuing /\ c.current = a.current /\ c.blocked = a.blocked
        /\ c.take = a.take /\ c.cmd = a.cmd
    BY <2>1 DEF ChannelType, Fixed
  <2>5. svc' \in ServiceType /\ svc'.op = "once" /\ svc'.cmd = k
    BY <1>2, <1>6, NothingCaptured DEF NoService, ServiceType
  <2> HIDE DEF c
  <2>6. Considerate(c)
    BY <1>2, <2>1, <2>2, <2>4 DEF Considerate, SameButCommands, Fixed, Reason, SessionIsManual
  <2>7. ServiceHolds'
    BY <1>2, <1>3, <2>1, <2>2, <2>4, <2>5 DEF ServiceHolds, SameButCommands, Fixed
  <2>8. CommandsAreAttended'
    <3>1. \A j \in Commands : c.cmd[j] = IF j = k THEN "running" ELSE chan.cmd[j]
      BY <2>1, <2>4
    <3>2. \A j \in Commands : chan.cmd[j] # "running"
      BY <1>1, <1>2, <1>3, <1>6 DEF CommandsAreAttended
    <3>3. QED
      BY <1>2, <2>2, <2>4, <2>5, <3>1, <3>2 DEF CommandsAreAttended
  <2>9. QED
    BY <1>2, <2>2, <2>3, <2>5, <2>6, <2>7, <2>8, RequestPreserves DEF ServiceType
<1>7. QED
  BY <1>5, <1>6 DEF StartOnce

\* The suppressions grow by what is asked to stop.
LEMMA SuppressGives ==
  ASSUME NEW c \in ChannelType, NEW id \in Ids
  PROVE  LET d == Suppress(c, id)
         IN  /\ d \in ChannelType /\ d.mode = c.mode /\ d.stopping = c.stopping
             /\ d.cmd = c.cmd /\ d.once = c.once /\ d.scope = c.scope
             /\ d.observed = c.observed /\ d.continuing = c.continuing
             /\ d.current = c.current /\ d.blocked = c.blocked /\ d.take = c.take
BY DEF Suppress, ChannelType

LEMMA StopCurrentPreserves ==
  ASSUME ChannelIInv, NEW k \in Stops, NEW id \in Ids, StopCurrent(k, id)
  PROVE  ChannelIInv'
<1>1. /\ ChannelTypeOK /\ ServiceHolds /\ CommandsAreAttended /\ DownForgets
      /\ TakeHolds /\ AdmissionHolds
  BY DEF ChannelIInv, ChannelInv
<1>2. /\ chan \in ChannelType /\ svc = NoService /\ Free /\ Up /\ k \in Commands
      /\ NoCommand \notin Commands /\ id \in MaybeId /\ chan.cmd[k] = "absent"
      /\ UNCHANGED <<guardVars, fsm, watch, respawn, halt>>
  BY <1>1, ChannelAssumption
     DEF ChannelTypeOK, StopCurrent, Free, Serving, Commands, MaybeId, Ids
<1>3. svc.op = "none" /\ svc.cmd = NoCommand /\ svc \in ServiceType /\ ~chan.stopping
  BY <1>1, <1>2, ServiceStates DEF ServiceHolds
<1>4. Up'
  BY <1>2 DEF guardVars, Up
<1> DEFINE b == Suppress(chan, id)
<1>5. /\ b \in ChannelType /\ b.mode = chan.mode /\ b.stopping = chan.stopping
      /\ b.cmd = chan.cmd /\ b.once = chan.once /\ b.scope = chan.scope
      /\ b.observed = chan.observed /\ b.continuing = chan.continuing
      /\ b.current = chan.current /\ b.blocked = chan.blocked /\ b.take = chan.take
  BY <1>2, SuppressGives
<1> HIDE DEF b
<1>6. chan.once # k
  BY <1>1, <1>2 DEF CommandsAreAttended
<1>7. CASE id # chan.current /\ chan' = Answer(b, k, "failed") /\ UNCHANGED svc
  <2> DEFINE c == Answer(b, k, "failed")
  <2>1. /\ c \in ChannelType /\ SameButCommands(b, c)
        /\ \A j \in Commands : c.cmd[j] = IF j = k THEN "failed" ELSE b.cmd[j]
    <3>1. "failed" \in CommandStates
      BY DEF CommandStates
    <3>2. QED
      BY <1>2, <1>5, <3>1, AnswerGives
  <2>2. chan' = c /\ svc' = svc
    BY <1>7
  <2> HIDE DEF c
  <2>3. ~Active(chan) /\ watch.pc # "admitted"
    BY <1>1, <1>7 DEF TakeHolds, AdmissionHolds, StopCurrent
  <2>4. Considerate(c)
    BY <1>5, <2>1, <2>3 DEF Considerate, SameButCommands, Fixed, Reason, SessionIsManual
  <2>5. ServiceHolds'
    BY <1>1, <1>2, <1>3, <1>5, <2>1, <2>2 DEF ServiceHolds, SameButCommands, Fixed
  <2>6. CommandsAreAttended'
    BY <1>1, <1>2, <1>3, <1>4, <1>5, <1>6, <2>1, <2>2
       DEF CommandsAreAttended, SameButCommands, Fixed
  <2>7. QED
    BY <1>2, <1>3, <2>1, <2>2, <2>4, <2>5, <2>6, RequestPreserves DEF ServiceType
<1>8. CASE /\ chan' = [Answer(b, k, "running") EXCEPT !.stopping = TRUE]
           /\ svc' = [op |-> "stop", cmd |-> k, id |-> id]
  <2> DEFINE a == Answer(b, k, "running")
             c == [a EXCEPT !.stopping = TRUE]
  <2>1. /\ a \in ChannelType /\ SameButCommands(b, a)
        /\ \A j \in Commands : a.cmd[j] = IF j = k THEN "running" ELSE b.cmd[j]
    <3>1. "running" \in CommandStates
      BY DEF CommandStates
    <3>2. QED
      BY <1>2, <1>5, <3>1, AnswerGives
  <2>2. chan' = c
    BY <1>8
  <2> HIDE DEF a
  <2>3. c \in ChannelType
    BY <2>1 DEF ChannelType
  <2>4. /\ c.mode = a.mode /\ c.suppressed = a.suppressed /\ c.stopping = TRUE
        /\ c.once = a.once /\ c.scope = a.scope /\ c.observed = a.observed
        /\ c.continuing = a.continuing /\ c.current = a.current /\ c.blocked = a.blocked
        /\ c.take = a.take /\ c.cmd = a.cmd
    BY <2>1 DEF ChannelType
  <2>5. svc' \in ServiceType /\ svc'.op = "stop" /\ svc'.cmd = k
    BY <1>2, <1>8 DEF ServiceType
  <2> HIDE DEF c
  <2>6. Considerate(c)
    BY <1>5, <2>1, <2>4, <2>5
       DEF Considerate, SameButCommands, Fixed, Reason, SessionIsManual
  <2>7. ServiceHolds'
    BY <1>1, <1>2, <1>5, <1>6, <2>1, <2>2, <2>4, <2>5 DEF ServiceHolds, SameButCommands, Fixed
  <2>8. CommandsAreAttended'
    BY <1>1, <1>2, <1>3, <1>4, <1>5, <1>6, <2>1, <2>2, <2>4, <2>5
       DEF CommandsAreAttended, SameButCommands, Fixed
  <2>9. QED
    BY <1>2, <2>2, <2>3, <2>5, <2>6, <2>7, <2>8, RequestPreserves DEF ServiceType
<1>9. QED
  BY <1>7, <1>8 DEF StopCurrent, b

LEMMA OtherRequestsPreserve ==
  ASSUME ChannelIInv, LegacyStop \/ PatchAuto \/ PatchPaused
  PROVE  ChannelIInv'
<1>1. /\ ChannelTypeOK /\ ServiceHolds /\ CommandsAreAttended /\ DownForgets
      /\ TakeHolds /\ AdmissionHolds
  BY DEF ChannelIInv, ChannelInv
<1>2. /\ chan \in ChannelType /\ svc = NoService /\ Free /\ Up
      /\ UNCHANGED <<guardVars, fsm, watch, respawn, halt>>
  BY <1>1 DEF ChannelTypeOK, LegacyStop, PatchAuto, PatchPaused, Free, Serving
<1>3. svc.op = "none" /\ svc.cmd = NoCommand /\ svc \in ServiceType /\ ~chan.stopping
  BY <1>1, <1>2, ServiceStates DEF ServiceHolds
<1>4. Up'
  BY <1>2 DEF guardVars, Up
<1>5. ASSUME NEW c \in ChannelType, chan' = c, Considerate(c), svc' \in ServiceType,
             c.once = chan.once, c.cmd = chan.cmd, svc'.cmd = NoCommand,
             svc'.op \in {"none", "auto", "legacy", "pause"}, svc'.op = "none" => svc' = NoService,
             c.stopping <=> svc'.op = "legacy",
             svc'.op = "pause" => /\ c.mode = "paused" /\ c.once = NoCommand
                                  /\ c.continuing = NoBroadcast,
             c.scope = chan.scope
      PROVE  ChannelIInv'
  <2>1. ServiceHolds'
    BY <1>1, <1>5 DEF ServiceHolds
  <2>2. CommandsAreAttended'
    BY <1>1, <1>2, <1>3, <1>5 DEF CommandsAreAttended
  <2>3. QED
    BY <1>2, <1>5, <2>1, <2>2, RequestPreserves DEF ServiceType
<1>6. CASE LegacyStop
  <2> DEFINE recording == ~chan.stopping /\ ~chan.blocked /\ (Active(chan) \/ fsm.rec)
             s == IF recording THEN chan.suppressed \cup {Every} ELSE chan.suppressed
             c == [chan EXCEPT !.stopping = TRUE, !.suppressed = s]
  <2>1. chan' = c /\ svc' = [NoService EXCEPT !.op = "legacy"]
    BY <1>6 DEF LegacyStop
  <2>2. s \in SUBSET (Ids \cup {Every})
    BY <1>2 DEF ChannelType
  <2> HIDE DEF s
  <2>3. c \in ChannelType
    BY <1>2, <2>2 DEF ChannelType
  <2>4. /\ c.mode = chan.mode /\ c.stopping = TRUE
        /\ c.once = chan.once /\ c.scope = chan.scope /\ c.observed = chan.observed
        /\ c.continuing = chan.continuing /\ c.current = chan.current
        /\ c.blocked = chan.blocked /\ c.take = chan.take /\ c.cmd = chan.cmd
    BY <1>2 DEF ChannelType
  <2> HIDE DEF c
  <2>5. svc' \in ServiceType /\ svc'.op = "legacy" /\ svc'.cmd = NoCommand
    BY <2>1, ServiceStates
  <2>6. Considerate(c)
    BY <2>4 DEF Considerate, Reason, SessionIsManual
  <2>7. QED
    BY <1>5, <2>1, <2>3, <2>4, <2>5, <2>6
<1>7. CASE PatchAuto
  <2> DEFINE c == [chan EXCEPT !.mode = "auto", !.continuing = NoBroadcast]
  <2>1. chan' = c /\ svc' = [NoService EXCEPT !.op = "auto"]
    BY <1>7 DEF PatchAuto
  <2>2. c \in ChannelType
    BY <1>2, NothingCaptured DEF ChannelType
  <2>3. /\ c.mode = "auto" /\ c.stopping = chan.stopping /\ c.suppressed = chan.suppressed
        /\ c.once = chan.once /\ c.scope = chan.scope /\ c.observed = chan.observed
        /\ c.current = chan.current
        /\ c.blocked = chan.blocked /\ c.take = chan.take /\ c.cmd = chan.cmd
    BY <1>2 DEF ChannelType
  <2> HIDE DEF c
  <2>4. svc' \in ServiceType /\ svc'.op = "auto" /\ svc'.cmd = NoCommand
    BY <2>1, ServiceStates
  <2>5. Considerate(c)
    BY <2>3 DEF Considerate, Reason
  <2>6. QED
    BY <1>3, <1>5, <2>1, <2>2, <2>3, <2>4, <2>5
<1>8. CASE PatchPaused
  <2> DEFINE kept == IF chan.current # NoBroadcast THEN chan.current ELSE chan.continuing
             c == [chan EXCEPT !.mode = "paused", !.continuing = kept]
  <2>1. /\ chan' = c
        /\ IF kept = NoBroadcast /\ chan.once = NoCommand
           THEN svc' = [NoService EXCEPT !.op = "pause"]
           ELSE UNCHANGED svc
    BY <1>8 DEF PatchPaused
  <2>2. kept \in MaybeId
    BY <1>2 DEF ChannelType
  <2>3. c \in ChannelType
    BY <1>2, <2>2 DEF ChannelType
  <2>4. /\ c.mode = "paused" /\ c.stopping = chan.stopping /\ c.suppressed = chan.suppressed
        /\ c.once = chan.once /\ c.scope = chan.scope /\ c.observed = chan.observed
        /\ c.current = chan.current /\ c.continuing = kept
        /\ c.blocked = chan.blocked /\ c.take = chan.take /\ c.cmd = chan.cmd
    BY <1>2 DEF ChannelType
  <2> HIDE DEF c
  <2>5. CASE kept = NoBroadcast /\ chan.once = NoCommand
    <3>1. svc' \in ServiceType /\ svc'.op = "pause" /\ svc'.cmd = NoCommand
      BY <2>1, <2>5, ServiceStates
    <3>2. Considerate(c)
      BY <2>4, <3>1 DEF Considerate, Ending
    <3>3. QED
      BY <1>3, <1>5, <2>1, <2>3, <2>4, <2>5, <3>1, <3>2
  <2>6. CASE ~(kept = NoBroadcast /\ chan.once = NoCommand)
    <3>1. svc' = svc
      BY <2>1, <2>6
    <3>2. Reason(c)
      BY <2>4, <2>6 DEF Reason, SessionIsManual
    <3>3. Considerate(c)
      BY <2>4, <3>2 DEF Considerate
    <3>4. QED
      BY <1>2, <1>3, <1>5, <2>1, <2>3, <2>4, <3>1, <3>3
  <2>7. QED
    BY <2>5, <2>6
<1>9. QED
  BY <1>6, <1>7, <1>8

-----------------------------------------------------------------------------
(***************************************************************************)
(* What happens to the groups by themselves.                               *)
(***************************************************************************)
LEMMA OutcomePreserves ==
  ASSUME ChannelIInv, UNCHANGED controlVars, GuardInv', mine' = mine, Up' <=> Up,
         \A g \in Captures : \/ group'[g] = group[g]
                             \/ Survives(g) /\ group'[g] \in {"absent", "orphaned"}
  PROVE  ChannelIInv'
<1>1. /\ ChannelTypeOK /\ GuardInv /\ OneCapture /\ DownForgets /\ TakeHolds /\ WatchHolds
      /\ HaltHolds /\ ServiceHolds /\ OwnedUntilGone /\ AdmissionHolds /\ WatchingHolds
      /\ DecisionsAreKept /\ CommandsAreAttended /\ CaptureIsStoppable
  BY DEF ChannelIInv, ChannelInv, CapturesAreReachable
<1>2. UNCHANGED <<chan, fsm, watch, respawn, svc, halt>>
  BY DEF controlVars
<1>3. \A g \in Captures : /\ Survives(g)' => Survives(g)
                          /\ group'[g] = "live" => group[g] = "live"
                          /\ group'[g] = "admitted" <=> group[g] = "admitted"
  BY DEF Survives
<1>4. (Active(chan)' => Active(chan)) /\ (LeaderGone => LeaderGone')
  BY <1>2, <1>3 DEF Active, LeaderGone
<1>5. ChannelTypeOK' /\ OneCapture' /\ NoCaptureBesideSurvivor'
  <2>1. GuardTypeOK' /\ NoCaptureBesideSurvivor'
    BY DEF GuardInv, SurvivorsRefuse, NoCaptureBesideSurvivor, Survives
  <2>2. QED
    BY <1>1, <1>2, <1>3, <2>1 DEF ChannelTypeOK, OneCapture
<1>6. DownForgets'
  BY <1>1, <1>2 DEF DownForgets, Forgotten
<1>7. TakeHolds' /\ CaptureIsStoppable' /\ OwnedUntilGone'
  <2>1. TakeHolds' /\ CaptureIsStoppable'
    BY <1>1, <1>2, <1>4 DEF TakeHolds, CaptureIsStoppable
  <2>2. OwnedUntilGone'
    BY <1>1, <1>2, <1>3 DEF OwnedUntilGone, GuardInv, GuardTypeOK
  <2>3. QED
    BY <2>1, <2>2
<1>8. AdmissionHolds'
  BY <1>1, <1>2, <1>3 DEF AdmissionHolds, Suppressed
<1>9. WatchHolds' /\ HaltHolds' /\ ServiceHolds' /\ CommandsAreAttended'
  BY <1>1, <1>2, <1>4 DEF WatchHolds, HaltHolds, ServiceHolds, CommandsAreAttended, SessionIsManual
<1>10. WatchingHolds'
  BY <1>1, <1>2, <1>4 DEF WatchingHolds, LockFree, ShouldWatch
<1>11. DecisionsAreKept'
  BY <1>1, <1>2, <1>4
     DEF DecisionsAreKept, SuppressedIsNotCaptured, PausedRecordsItsScope, Captured, Suppressed
<1>12. QED
  BY <1>5, <1>6, <1>7, <1>8, <1>9, <1>10, <1>11
     DEF ChannelIInv, ChannelInv, CapturesAreReachable

LEMMA CaptureExitsPreserves ==
  ASSUME ChannelIInv, NEW g \in Captures, CaptureExits(g)
  PROVE  ChannelIInv'
<1>1. GuardInv /\ GuardTypeOK
  BY DEF ChannelIInv, ChannelInv, GuardInv
<1>2. GuardStep(g)
  BY DEF CaptureExits, GuardStep
<1>3. GuardInv'
  BY <1>1, <1>2, GuardStepPreserves
<1>4. UNCHANGED controlVars /\ mine' = mine /\ guard' = guard
  BY DEF CaptureExits, LeaderExits, OrphansExit
<1>5. \A h \in Captures : \/ group'[h] = group[h]
                          \/ Survives(h) /\ group'[h] \in {"absent", "orphaned"}
  BY <1>1 DEF CaptureExits, LeaderExits, OrphansExit, Survives, GuardTypeOK
<1>6. Up' <=> Up
  BY <1>4 DEF Up
<1>7. QED
  BY <1>3, <1>4, <1>5, <1>6, OutcomePreserves

LEMMA ReconcilesPreserves == ChannelIInv /\ Reconciles => ChannelIInv'
<1> SUFFICES ASSUME ChannelIInv, Reconciles PROVE ChannelIInv'
  OBVIOUS
<1>1. GuardInv /\ GuardTypeOK
  BY DEF ChannelIInv, ChannelInv, GuardInv
<1>2. GuardInv'
  BY <1>1, GuardNextPreserves DEF Reconciles, GuardNext
<1>3. UNCHANGED controlVars /\ mine' = mine /\ group' = group /\ (Up' <=> Up)
  BY <1>1 DEF Reconciles, OfflineReconcile, GuardTypeOK, Up
<1>4. QED
  BY <1>2, <1>3, OutcomePreserves

-----------------------------------------------------------------------------
(***************************************************************************)
(* Starting.                                                               *)
(***************************************************************************)
WatchType == [pc : {"none", "born", "meta", "admitted", "wait", "raised", "drain"},
              cancelled : BOOLEAN, user : BOOLEAN, enabled : BOOLEAN, take : TakeType]

LEMMA WatchStates ==
  /\ NoWatch \in WatchType /\ NoWatch.pc = "none" /\ ~NoWatch.cancelled
  /\ \A user \in BOOLEAN : /\ Born(user) \in WatchType /\ Born(user).pc = "born"
                           /\ ~Born(user).cancelled
BY NothingCaptured DEF NoWatch, WatchType, Born

\* A start leaves a watch task that is there alone, and makes one only when
\* nothing records.
LEMMA StartGives ==
  ASSUME ChannelIInv, LockFree, NEW user \in BOOLEAN, GuardedStart(chan, user)
  PROVE  /\ \/ watch' = watch
            \/ watch.pc = "none" /\ watch' = Born(user) /\ ~Active(chan) /\ fsm' = WatchingFsm
         /\ \/ fsm' = fsm
            \/ fsm' = StoppedFsm /\ ~ShouldWatch(chan) /\ watch' = watch
            \/ fsm' = RecordingFsm /\ (fsm.rec \/ Active(chan)) /\ watch' = watch
            \/ fsm' = WatchingFsm /\ watch'.pc # "none" /\ ~fsm.rec /\ ~Active(chan)
<1>1. WatchHolds
  BY DEF ChannelIInv, ChannelInv
<1>2. halt.pc = "none"
  BY DEF LockFree, NoHalt
<1>3. Watched <=> watch.pc # "none"
  BY <1>1, <1>2 DEF WatchHolds, Watched
<1>4. CASE StartsRefused /\ UNCHANGED <<fsm, watch>>
  BY <1>4
<1>5. CASE UserStart(chan, user)
  <2>1. CASE ~ShouldWatch(chan) /\ ~user
    BY <1>5, <2>1 DEF UserStart
  <2>2. CASE (fsm.rec \/ Active(chan)) /\ fsm' = RecordingFsm /\ UNCHANGED watch
    BY <2>2
  <2>3. CASE ~(fsm.rec \/ Active(chan)) /\ fsm' = WatchingFsm /\ SpawnWatch(user)
    BY <1>3, <2>3, WatchStates DEF SpawnWatch
  <2>4. CASE UNCHANGED <<fsm, watch>>
    BY <2>4
  <2>5. QED
    BY <1>5, <2>1, <2>2, <2>3, <2>4 DEF UserStart
<1>6. QED
  BY <1>4, <1>5 DEF GuardedStart

\* What a start that came to nothing may take back.
Refused(c) ==
    /\ ~Active(chan) /\ fsm'.state = "STOPPED" /\ ~chan.stopping /\ svc.op # "pause"
    /\ Fixed(chan, c) /\ c.take = chan.take /\ c.blocked = chan.blocked

LEMMA StartPreserves ==
  ASSUME ChannelIInv, LockFree, Up, NEW user \in BOOLEAN, GuardedStart(chan, user),
         NEW c \in ChannelType, chan' = c, c = chan \/ Refused(c),
         svc' = svc \/ (svc' = NoService /\ ~Ending(svc)),
         ServiceHolds', CommandsAreAttended', UNCHANGED <<guardVars, respawn, halt>>
  PROVE  ChannelIInv'
<1>1. /\ ChannelTypeOK /\ GuardInv /\ OneCapture /\ DownForgets /\ TakeHolds /\ WatchHolds
      /\ HaltHolds /\ ServiceHolds /\ OwnedUntilGone /\ AdmissionHolds /\ WatchingHolds
      /\ DecisionsAreKept /\ NoCaptureBesideSurvivor /\ CaptureIsStoppable
  BY DEF ChannelIInv, ChannelInv, CapturesAreReachable
<1>2. UNCHANGED <<guard, group, mine, recorded, respawn, halt>> /\ Up' /\ halt = NoHalt
      /\ halt.by = "none" /\ halt.pc = "none"
  BY DEF guardVars, Up, LockFree, NoHalt
<1>3. /\ \/ watch' = watch
         \/ watch.pc = "none" /\ watch' = Born(user) /\ ~Active(chan) /\ fsm' = WatchingFsm
      /\ \/ fsm' = fsm
         \/ fsm' = StoppedFsm /\ ~ShouldWatch(chan) /\ watch' = watch
         \/ fsm' = RecordingFsm /\ (fsm.rec \/ Active(chan)) /\ watch' = watch
         \/ fsm' = WatchingFsm /\ watch'.pc # "none" /\ ~fsm.rec /\ ~Active(chan)
  BY StartGives
<1>4. c.take = chan.take /\ c.blocked = chan.blocked /\ Fixed(chan, c)
      /\ (Active(chan) => c = chan)
  BY DEF Refused, Fixed
<1>5. (Active(chan)' <=> Active(chan)) /\ (LeaderGone' <=> LeaderGone)
      /\ \A g \in Captures : Survives(g)' <=> Survives(g)
  BY <1>2, <1>4 DEF Active, LeaderGone, Survives
<1>6. ChannelTypeOK' /\ GuardInv' /\ NoCaptureBesideSurvivor' /\ OneCapture' /\ DownForgets'
  <2>1. GuardTypeOK' /\ GuardInv' /\ NoCaptureBesideSurvivor'
    BY <1>1, <1>2 DEF GuardInv, GuardTypeOK, MarkerCovers, AdmissionsAreMine,
                      SurvivorsRefuse, NoCaptureBesideSurvivor, Survives, Up
  <2>2. watch' \in WatchType
    BY <1>1, <1>3, WatchStates DEF ChannelTypeOK, WatchType
  <2>3. fsm' \in [state : {"STOPPED", "WATCHING", "RECORDING"}, stop : BOOLEAN, rec : BOOLEAN]
    BY <1>1, <1>3, MachineStates DEF ChannelTypeOK
  <2>4. svc' \in ServiceType
    BY <1>1, ServiceStates DEF ChannelTypeOK, ServiceType
  <2>5. ChannelTypeOK'
    BY <1>1, <1>2, <2>1, <2>2, <2>3, <2>4 DEF ChannelTypeOK, ServiceType, WatchType
  <2>6. OneCapture' /\ DownForgets'
    BY <1>1, <1>2, <1>5 DEF OneCapture, DownForgets
  <2>7. QED
    BY <2>1, <2>5, <2>6
<1>7. TakeHolds' /\ OwnedUntilGone' /\ CaptureIsStoppable'
  <2>1. TakeHolds'
    BY <1>1, <1>4, <1>5 DEF TakeHolds
  <2>2. OwnedUntilGone'
    BY <1>1, <1>2, <1>4, <1>5 DEF OwnedUntilGone, GuardInv, GuardTypeOK
  <2>3. QED
    BY <2>1, <2>2 DEF TakeHolds, CaptureIsStoppable
<1>8. AdmissionHolds'
  <2>1. watch'.pc = "admitted" => watch' = watch
    BY <1>3, WatchStates
  <2>2. watch.pc = "admitted" /\ fsm'.state = "STOPPED" => chan.stopping
    <3> SUFFICES ASSUME watch.pc = "admitted", fsm'.state = "STOPPED" PROVE chan.stopping
      OBVIOUS
    <3>1. fsm' = fsm \/ ~ShouldWatch(chan)
      BY <1>3 DEF RecordingFsm, WatchingFsm
    <3>2. CASE fsm' = fsm
      BY <1>1, <3>2 DEF AdmissionHolds
    <3>3. CASE ~ShouldWatch(chan)
      <4>1. ~chan.blocked /\ chan.current # NoBroadcast
            /\ (chan.mode = "paused" => \/ chan.current \in {chan.continuing, chan.scope}
                                        \/ chan.stopping)
        BY <1>1 DEF AdmissionHolds
      <4>2. chan.scope = chan.current => chan.once # NoCommand
        BY <1>1, <4>1 DEF ServiceHolds
      <4>3. chan.mode \in {"auto", "paused"}
        BY <1>1 DEF ChannelTypeOK, ChannelType
      <4>4. QED
        BY <3>3, <4>1, <4>2, <4>3 DEF ShouldWatch
    <3>4. QED
      BY <3>1, <3>2, <3>3
  <2>3. watch'.pc = "admitted" => c = chan
    BY <2>1, <2>2 DEF Refused
  <2>4. QED
    BY <1>1, <1>2, <1>3, <2>1, <2>2, <2>3, WatchStates DEF AdmissionHolds, Suppressed
<1>9. WatchHolds'
  <2>1. watch'.pc \in {"meta", "admitted"} => watch' = watch /\ ~fsm'.rec
    BY <1>1, <1>3, WatchStates DEF WatchHolds, StoppedFsm, WatchingFsm
  <2>2. watch'.pc = "meta" =>
          \/ chan'.stopping \/ chan'.blocked \/ svc'.op = "pause"
          \/ fsm'.state # "STOPPED" /\ (chan'.mode = "auto" \/ SessionIsManual(chan'))
    <3> SUFFICES ASSUME watch'.pc = "meta", ~chan.stopping, ~chan.blocked, svc.op # "pause"
                 PROVE  fsm'.state # "STOPPED" /\ c = chan
                        /\ (chan.mode = "auto" \/ SessionIsManual(chan))
      BY <1>4 DEF Fixed, Ending
    <3>1. fsm.state # "STOPPED" /\ (chan.mode = "auto" \/ SessionIsManual(chan))
      BY <1>1, <2>1 DEF WatchHolds
    <3>2. ShouldWatch(chan)
      BY <3>1 DEF ShouldWatch, SessionIsManual
    <3>3. fsm'.state # "STOPPED"
      BY <1>3, <3>1, <3>2 DEF RecordingFsm, WatchingFsm
    <3>4. QED
      BY <3>1, <3>3 DEF Refused
  <2>3. /\ watch'.pc = "none" => watch' = NoWatch
        /\ watch'.cancelled => watch'.pc # "born" /\ halt'.pc = "join"
    BY <1>1, <1>2, <1>3, WatchStates DEF WatchHolds
  <2>4. watch'.pc \in {"born", "meta", "admitted"} => ~Active(chan)'
    BY <1>1, <1>3, <1>5 DEF WatchHolds
  <2>5. watch'.pc = "none" /\ Active(chan)' => chan'.blocked
    BY <1>1, <1>3, <1>4, <1>5, WatchStates DEF WatchHolds
  <2>6. watch'.pc = "drain" => LeaderGone'
    BY <1>1, <1>3, <1>5, WatchStates DEF WatchHolds
  <2>7. QED
    BY <2>1, <2>2, <2>3, <2>4, <2>5, <2>6 DEF WatchHolds
<1>10. HaltHolds'
  BY <1>2 DEF HaltHolds
<1>11. WatchingHolds'
  <2> SUFFICES ASSUME fsm'.state = "WATCHING", watch'.pc \in {"none", "born"}
               PROVE  /\ ~fsm'.rec /\ ~Active(chan)
                      /\ watch'.pc = "none" =>
                            /\ ~fsm'.stop
                            /\ Ending(svc') \/ (respawn /\ ShouldWatch(chan'))
    BY <1>2, <1>5 DEF WatchingHolds, Ending
  <2>1. c = chan
    BY DEF Refused
  <2>2. CASE fsm' = WatchingFsm /\ watch'.pc # "none" /\ ~fsm.rec /\ ~Active(chan)
    BY <2>2 DEF WatchingFsm
  <2>3. CASE fsm' = fsm /\ watch' = watch
    <3>1. Ending(svc) => svc' = svc
      OBVIOUS
    <3>2. LockFree
      OBVIOUS
    <3>3. QED
      BY <1>1, <2>1, <2>3, <3>1, <3>2 DEF WatchingHolds, Ending
  <2>4. fsm' # StoppedFsm /\ fsm' # RecordingFsm
    BY DEF StoppedFsm, RecordingFsm
  <2>5. CASE fsm' = WatchingFsm /\ watch' = Born(user) /\ watch.pc = "none" /\ ~Active(chan)
    BY <2>5, WatchStates DEF WatchingFsm
  <2>6. QED
    BY <1>3, <2>2, <2>3, <2>4, <2>5
<1>12. DecisionsAreKept'
  BY <1>1, <1>4, <1>5
     DEF DecisionsAreKept, SuppressedIsNotCaptured, PausedRecordsItsScope, Captured, Suppressed
<1>13. QED
  BY <1>6, <1>7, <1>8, <1>9, <1>10, <1>11, <1>12
     DEF ChannelIInv, ChannelInv, CapturesAreReachable

LEMMA OutsideStartPreserves ==
  ASSUME ChannelIInv, NEW user \in BOOLEAN, OutsideStart(user)
  PROVE  ChannelIInv'
<1>1. /\ chan \in ChannelType /\ ServiceHolds /\ CommandsAreAttended
  BY DEF ChannelIInv, ChannelInv, ChannelTypeOK
<1>2. /\ LockFree /\ Up /\ GuardedStart(chan, user)
      /\ UNCHANGED <<guardVars, chan, respawn, svc, halt>>
  BY DEF OutsideStart, Serving
<1>3. ServiceHolds' /\ CommandsAreAttended'
  BY <1>1, <1>2 DEF ServiceHolds, CommandsAreAttended, guardVars, Up
<1>4. QED
  BY <1>1, <1>2, <1>3, StartPreserves

LEMMA ServiceStartsPreserves == ChannelIInv /\ ServiceStarts => ChannelIInv'
<1> SUFFICES ASSUME ChannelIInv, ServiceStarts PROVE ChannelIInv'
  OBVIOUS
<1> DEFINE user == svc.op = "once"
           o == Observe(chan, NoBroadcast)
           f == FinishOnce(o, "blocked")
<1>1. /\ chan \in ChannelType /\ ServiceHolds /\ CommandsAreAttended /\ DownForgets
  BY DEF ChannelIInv, ChannelInv, ChannelTypeOK
<1>2. /\ LockFree /\ GuardedStart(chan, user) /\ svc' = NoService
      /\ svc.op \in {"once", "auto", "restart"}
      /\ UNCHANGED <<guardVars, respawn, halt>>
  BY DEF ServiceStarts
<1>3. Up /\ Up' /\ user \in BOOLEAN /\ NoCommand \notin Commands
  BY <1>1, <1>2, ServiceStates, ChannelAssumption DEF DownForgets, guardVars, Up, Commands
<1>4. /\ ~Ending(svc) /\ ~chan.stopping /\ svc.op # "pause"
      /\ svc'.op = "none" /\ svc'.cmd = NoCommand
  BY <1>1, <1>2, ServiceStates DEF ServiceHolds, Ending
<1>5. \A k \in Commands : chan.cmd[k] = "running" => k = chan.once
  BY <1>1, <1>2, <1>3 DEF ServiceHolds, CommandsAreAttended
<1> HIDE DEF user
<1>6. CASE chan' = chan
  <2>1. ServiceHolds'
    BY <1>1, <1>2, <1>4, <1>6 DEF ServiceHolds
  <2>2. CommandsAreAttended'
    BY <1>1, <1>3, <1>5, <1>6 DEF CommandsAreAttended
  <2>3. QED
    BY <1>1, <1>2, <1>3, <1>4, <1>6, <2>1, <2>2, StartPreserves
<1>7. CASE ~Active(chan) /\ fsm'.state = "STOPPED" /\ chan' = f
  <2>1. o \in ChannelType /\ OnlyTheTake(chan, o) /\ o.blocked = chan.blocked /\ o.take = chan.take
    <3>1. NoBroadcast \in MaybeId
      BY NothingCaptured
    <3>2. QED
      BY <1>1, <3>1, ObserveGives
  <2> HIDE DEF o
  <2>2. Scopes(o) /\ "blocked" \in Settled
    BY <1>1, <2>1 DEF Scopes, ServiceHolds, OnlyTheTake, Settled
  <2>3. /\ f \in ChannelType /\ OnceSettled(o, f) /\ Fixed(o, f)
        /\ f.blocked = o.blocked /\ f.take = o.take
    BY <2>1, <2>2, FinishOnceGives
  <2> HIDE DEF f
  <2>4. Fixed(chan, f) /\ OnceSettled(chan, f)
    BY <2>1, <2>3 DEF OnlyTheTake, Fixed, OnceSettled
  <2>5. Refused(f)
    BY <1>4, <1>7, <2>1, <2>3, <2>4 DEF Refused
  <2>6. ServiceHolds'
    BY <1>2, <1>4, <1>7, <2>4 DEF ServiceHolds, OnceSettled, Fixed
  <2>7. CommandsAreAttended'
    BY <1>3, <1>5, <1>7, <2>4 DEF CommandsAreAttended, OnceSettled
  <2>8. QED
    BY <1>1, <1>2, <1>3, <1>4, <1>7, <2>3, <2>5, <2>6, <2>7, StartPreserves
<1>8. QED
  BY <1>6, <1>7 DEF ServiceStarts, NoteAdmission

-----------------------------------------------------------------------------
(***************************************************************************)
(* Taking the tasks down.                                                  *)
(***************************************************************************)
HaltType == [by : {"none", "stop", "legacy", "pause", "outside", "shutdown"},
             pc : {"none", "cancel", "join", "groups", "clean", "unclean"}]
FsmType == [state : {"STOPPED", "WATCHING", "RECORDING"}, stop : BOOLEAN, rec : BOOLEAN]

\* A task is cancelled where it is, or never begins.
LEMMA CancelledGives ==
  ASSUME watch \in WatchType, WatchHolds
  PROVE  /\ Cancelled \in WatchType
         /\ watch.pc = "none" \/ watch.pc = "born" => Cancelled = NoWatch
         /\ watch.pc # "none" /\ watch.pc # "born"
              => /\ Cancelled.pc = watch.pc /\ Cancelled.take = watch.take /\ Cancelled.cancelled
<1>1. CASE watch.pc = "none"
  <2>1. Cancelled = NoWatch
    BY <1>1 DEF Cancelled, WatchHolds
  <2>2. QED
    BY <1>1, <2>1, WatchStates
<1>2. CASE watch.pc = "born"
  <2>1. Cancelled = NoWatch
    BY <1>2 DEF Cancelled
  <2>2. QED
    BY <1>2, <2>1, WatchStates
<1>3. CASE watch.pc \notin {"none", "born"}
  <2>1. Cancelled = [watch EXCEPT !.cancelled = TRUE]
    BY <1>3 DEF Cancelled
  <2>2. QED
    BY <1>3, <2>1 DEF WatchType
<1>4. QED
  BY <1>1, <1>2, <1>3

LEMMA TakingDownPreserves ==
  ASSUME ChannelIInv, Up, UNCHANGED <<guardVars, chan, svc>>,
         fsm' \in FsmType, fsm'.state = fsm.state, fsm'.rec = fsm.rec,
         halt' \in HaltType, halt' # NoHalt, HaltHolds', respawn' \in BOOLEAN,
         \/ watch' = Cancelled /\ halt'.pc = "join"
         \/ watch' = watch /\ ~watch.cancelled
  PROVE  ChannelIInv'
<1>1. /\ ChannelTypeOK /\ GuardInv /\ OneCapture /\ DownForgets /\ TakeHolds /\ WatchHolds
      /\ ServiceHolds /\ OwnedUntilGone /\ AdmissionHolds /\ WatchingHolds
      /\ DecisionsAreKept /\ NoCaptureBesideSurvivor /\ CaptureIsStoppable /\ CommandsAreAttended
  BY DEF ChannelIInv, ChannelInv, CapturesAreReachable
<1>2. UNCHANGED <<guard, group, mine, recorded, chan, svc>> /\ Up'
  BY DEF guardVars, Up
<1>3. (Active(chan)' <=> Active(chan)) /\ (LeaderGone' <=> LeaderGone)
      /\ \A g \in Captures : Survives(g)' <=> Survives(g)
  BY <1>2 DEF Active, LeaderGone, Survives
<1>4. watch \in WatchType
  BY <1>1 DEF ChannelTypeOK, WatchType
<1>5. /\ Cancelled \in WatchType
      /\ watch.pc = "none" \/ watch.pc = "born" => Cancelled = NoWatch
      /\ watch.pc # "none" /\ watch.pc # "born"
            => /\ Cancelled.pc = watch.pc /\ Cancelled.take = watch.take /\ Cancelled.cancelled
  BY <1>1, <1>4, CancelledGives
<1>6. watch' \in WatchType
      /\ \/ watch' = NoWatch /\ watch.pc \in {"none", "born"} /\ halt'.pc = "join"
         \/ watch'.pc = watch.pc /\ watch'.take = watch.take /\ halt'.pc = "join"
            /\ watch.pc \notin {"none", "born"}
         \/ watch' = watch /\ ~watch.cancelled
  BY <1>4, <1>5
<1>7. GuardInv' /\ NoCaptureBesideSurvivor' /\ OneCapture' /\ DownForgets'
  <2>1. GuardInv' /\ NoCaptureBesideSurvivor'
    BY <1>1, <1>2 DEF GuardInv, GuardTypeOK, MarkerCovers, AdmissionsAreMine,
                      SurvivorsRefuse, NoCaptureBesideSurvivor, Survives, Up
  <2>2. OneCapture' /\ DownForgets'
    BY <1>1, <1>2, <1>3 DEF OneCapture, DownForgets
  <2>3. QED
    BY <2>1, <2>2
<1>8. ChannelTypeOK'
  BY <1>1, <1>2, <1>6, <1>7 DEF ChannelTypeOK, GuardInv, FsmType, HaltType, WatchType
<1>9. TakeHolds' /\ CaptureIsStoppable' /\ OwnedUntilGone'
  <2>1. TakeHolds' /\ CaptureIsStoppable'
    BY <1>1, <1>2, <1>3 DEF TakeHolds, CaptureIsStoppable
  <2>2. OwnedUntilGone'
    BY <1>1, <1>2, <1>3 DEF OwnedUntilGone, GuardInv, GuardTypeOK
  <2>3. QED
    BY <2>1, <2>2
<1>10. AdmissionHolds'
  <2>1. /\ watch'.pc = "admitted" <=> watch.pc = "admitted"
        /\ watch.pc = "admitted" => watch'.take = watch.take
    BY <1>6, WatchStates
  <2>2. QED
    BY <1>1, <1>2, <2>1 DEF AdmissionHolds, Suppressed
<1>11. WatchHolds'
  <2>1. /\ watch'.pc = "none" => watch' = NoWatch
        /\ watch'.cancelled => watch'.pc # "born" /\ halt'.pc = "join"
    BY <1>1, <1>6, WatchStates DEF WatchHolds
  <2>2. /\ watch'.pc # "none" => watch'.pc = watch.pc
        /\ watch'.pc = "none" => watch.pc \in {"none", "born"}
    BY <1>6, WatchStates
  <2>3. watch'.pc = "none" /\ Active(chan)' => chan'.blocked
    BY <1>1, <1>2, <1>3, <2>2 DEF WatchHolds
  <2>4. QED
    BY <1>1, <1>2, <1>3, <2>1, <2>2, <2>3 DEF WatchHolds, SessionIsManual
<1>12. ServiceHolds' /\ CommandsAreAttended'
  BY <1>1, <1>2 DEF ServiceHolds, CommandsAreAttended
<1>13. WatchingHolds'
  <2>1. ~LockFree'
    BY DEF LockFree
  <2>2. watch'.pc \in {"none", "born"} => watch.pc \in {"none", "born"}
    BY <1>6
  <2>3. QED
    BY <1>1, <1>3, <2>1, <2>2 DEF WatchingHolds
<1>14. DecisionsAreKept'
  BY <1>1, <1>2, <1>3
     DEF DecisionsAreKept, SuppressedIsNotCaptured, PausedRecordsItsScope, Captured, Suppressed
<1>15. QED
  BY <1>7, <1>8, <1>9, <1>10, <1>11, <1>12, <1>13, <1>14
     DEF ChannelIInv, ChannelInv, CapturesAreReachable

LEMMA DetachPreserves ==
  ASSUME ChannelIInv, Up, LockFree, NEW by \in {"stop", "legacy", "pause", "outside", "shutdown"},
         Detach(by), UNCHANGED <<guardVars, chan, svc>>,
         fsm' = fsm \/ fsm' = [fsm EXCEPT !.stop = TRUE],
         by = "pause" \/ fsm' = [fsm EXCEPT !.stop = TRUE],
         by \in {"stop", "legacy", "pause"} => svc.op = by, by = "shutdown" => svc = NoService
  PROVE  ChannelIInv'
<1>1. /\ fsm \in FsmType /\ watch \in WatchType /\ WatchHolds
  BY DEF ChannelIInv, ChannelInv, ChannelTypeOK, FsmType, WatchType
<1>2. halt.pc = "none" /\ ~watch.cancelled
  BY <1>1 DEF LockFree, NoHalt, WatchHolds
<1>3. fsm' \in FsmType /\ fsm'.state = fsm.state /\ fsm'.rec = fsm.rec
      /\ (by = "pause" \/ fsm'.stop)
  BY <1>1 DEF FsmType
<1>4. /\ respawn' = FALSE
      /\ watch' = IF respawn THEN watch ELSE Cancelled
      /\ halt' = [by |-> by, pc |-> IF respawn THEN "cancel" ELSE "join"]
  BY DEF Detach
<1>5. halt' \in HaltType /\ halt' # NoHalt /\ halt'.by = by /\ halt'.pc \in {"cancel", "join"}
      /\ (~respawn => halt'.pc = "join")
  BY <1>4 DEF HaltType, NoHalt
<1>6. HaltHolds'
  BY <1>3, <1>4, <1>5 DEF HaltHolds
<1>7. \/ watch' = Cancelled /\ halt'.pc = "join"
      \/ watch' = watch /\ ~watch.cancelled
  BY <1>2, <1>4, <1>5
<1>8. QED
  BY <1>3, <1>4, <1>5, <1>6, <1>7, TakingDownPreserves

LEMMA StopsPreserve ==
  ASSUME ChannelIInv, OutsideStop \/ ServiceStops \/ Shutdown
  PROVE  ChannelIInv'
<1>1. DownForgets
  BY DEF ChannelIInv, ChannelInv
<1>2. PICK by \in {"stop", "legacy", "outside", "shutdown"} :
         /\ FsmStop(by) /\ Up
         /\ by \in {"stop", "legacy"} => svc.op = by
         /\ by = "shutdown" => svc = NoService
  BY <1>1, ServiceStates DEF OutsideStop, ServiceStops, Shutdown, Serving, DownForgets
<1>3. /\ LockFree /\ fsm' = [fsm EXCEPT !.stop = TRUE] /\ Detach(by)
      /\ UNCHANGED <<guardVars, chan, svc>>
  BY <1>2 DEF FsmStop
<1>4. QED
  BY <1>2, <1>3, DetachPreserves

LEMMA ServicePausesPreserves == ChannelIInv /\ ServicePauses => ChannelIInv'
<1> SUFFICES ASSUME ChannelIInv, ServicePauses PROVE ChannelIInv'
  OBVIOUS
<1>1. /\ chan \in ChannelType /\ ServiceHolds /\ CommandsAreAttended /\ DownForgets
      /\ WatchHolds /\ WatchingHolds
  BY DEF ChannelIInv, ChannelInv, ChannelTypeOK
<1>2. Up /\ svc.op = "pause" /\ LockFree /\ UNCHANGED <<guardVars, chan, fsm>>
  BY <1>1, ServiceStates DEF ServicePauses, DownForgets
<1>3. CASE Detach("pause") /\ UNCHANGED svc
  BY <1>2, <1>3, DetachPreserves
<1>4. CASE (fsm.rec \/ Active(chan)) /\ svc' = NoService /\ UNCHANGED <<watch, respawn, halt>>
  <2>1. UNCHANGED <<guard, group, mine, recorded, chan, fsm, watch, respawn, halt>> /\ Up'
    BY <1>2, <1>4 DEF guardVars, Up
  <2>2. svc'.op = "none" /\ svc'.cmd = NoCommand /\ svc' \in ServiceType
    BY <1>4, ServiceStates
  <2>3. svc.cmd = NoCommand /\ ~chan.stopping
    BY <1>1, <1>2 DEF ServiceHolds
  <2>4. ServiceHolds' /\ CommandsAreAttended'
    BY <1>1, <1>2, <1>4, <2>1, <2>2, <2>3 DEF ServiceHolds, CommandsAreAttended
  <2>5. watch.pc \notin {"meta", "admitted"}
    BY <1>1, <1>4 DEF WatchHolds
  <2>6. ~(fsm.state = "WATCHING" /\ watch.pc \in {"none", "born"})
    BY <1>1, <1>4 DEF WatchingHolds
  <2>7. /\ ChannelTypeOK /\ GuardInv /\ OneCapture /\ DownForgets /\ TakeHolds
        /\ HaltHolds /\ OwnedUntilGone /\ AdmissionHolds
        /\ DecisionsAreKept /\ NoCaptureBesideSurvivor /\ CaptureIsStoppable
    BY DEF ChannelIInv, ChannelInv, CapturesAreReachable
  <2>8. halt = NoHalt
    BY <1>2 DEF LockFree
  <2>9. (Active(chan)' <=> Active(chan)) /\ (LeaderGone' <=> LeaderGone)
        /\ \A g \in Captures : Survives(g)' <=> Survives(g)
    BY <2>1 DEF Active, LeaderGone, Survives
  <2>10. GuardInv' /\ NoCaptureBesideSurvivor' /\ OneCapture' /\ DownForgets'
    <3>1. GuardInv' /\ NoCaptureBesideSurvivor'
      BY <2>1, <2>7 DEF GuardInv, GuardTypeOK, MarkerCovers, AdmissionsAreMine,
                        SurvivorsRefuse, NoCaptureBesideSurvivor, Survives, Up
    <3>2. OneCapture' /\ DownForgets'
      BY <2>1, <2>7, <2>9 DEF OneCapture, DownForgets
    <3>3. QED
      BY <3>1, <3>2
  <2>11. ChannelTypeOK'
    BY <2>1, <2>2, <2>7, <2>10 DEF ChannelTypeOK, GuardInv, ServiceType
  <2>12. TakeHolds' /\ CaptureIsStoppable' /\ OwnedUntilGone' /\ AdmissionHolds'
    <3>1. TakeHolds' /\ CaptureIsStoppable'
      BY <2>1, <2>7, <2>9 DEF TakeHolds, CaptureIsStoppable
    <3>2. OwnedUntilGone'
      BY <1>2, <2>1, <2>7, <2>9 DEF OwnedUntilGone, GuardInv, GuardTypeOK
    <3>3. AdmissionHolds'
      BY <2>1, <2>7 DEF AdmissionHolds, Suppressed
    <3>4. QED
      BY <3>1, <3>2, <3>3
  <2>13. WatchHolds' /\ WatchingHolds'
    BY <1>1, <2>1, <2>5, <2>6, <2>9 DEF WatchHolds, WatchingHolds
  <2>14. HaltHolds'
    BY <2>1, <2>7, <2>8 DEF HaltHolds, NoHalt
  <2>15. DecisionsAreKept'
    BY <2>1, <2>7, <2>9
       DEF DecisionsAreKept, SuppressedIsNotCaptured, PausedRecordsItsScope, Captured, Suppressed
  <2>16. QED
    BY <2>4, <2>10, <2>11, <2>12, <2>13, <2>14, <2>15
       DEF ChannelIInv, ChannelInv, CapturesAreReachable
<1>5. QED
  BY <1>3, <1>4 DEF ServicePauses

LEMMA HaltCancelsPreserves == ChannelIInv /\ HaltCancels => ChannelIInv'
<1> SUFFICES ASSUME ChannelIInv, HaltCancels PROVE ChannelIInv'
  OBVIOUS
<1>1. /\ fsm \in FsmType /\ halt \in HaltType /\ watch \in WatchType /\ respawn \in BOOLEAN
      /\ HaltHolds /\ WatchHolds /\ DownForgets
  BY DEF ChannelIInv, ChannelInv, ChannelTypeOK, FsmType, HaltType, WatchType
<1>2. /\ halt.pc = "cancel" /\ watch' = Cancelled /\ halt' = [halt EXCEPT !.pc = "join"]
      /\ UNCHANGED <<guardVars, chan, fsm, respawn, svc>>
  BY DEF HaltCancels
<1>3. Up
  BY <1>1, <1>2 DEF DownForgets, NoHalt
<1>4. halt' \in HaltType /\ halt'.pc = "join" /\ halt'.by = halt.by /\ halt' # NoHalt
  BY <1>1, <1>2 DEF HaltType, NoHalt
<1>5. watch.pc = "none" => watch'.pc = "none"
  BY <1>1, <1>2, CancelledGives, WatchStates
<1>6. HaltHolds'
  BY <1>1, <1>2, <1>4, <1>5 DEF HaltHolds
<1>7. QED
  BY <1>1, <1>2, <1>3, <1>4, <1>6, TakingDownPreserves

LEMMA HaltJoinsPreserves == ChannelIInv /\ HaltJoins => ChannelIInv'
<1> SUFFICES ASSUME ChannelIInv, HaltJoins PROVE ChannelIInv'
  OBVIOUS
<1>1. /\ fsm \in FsmType /\ halt \in HaltType /\ watch \in WatchType /\ respawn \in BOOLEAN
      /\ HaltHolds /\ WatchHolds /\ DownForgets
  BY DEF ChannelIInv, ChannelInv, ChannelTypeOK, FsmType, HaltType, WatchType
<1>2. /\ halt.pc = "join" /\ watch.pc = "none" /\ halt' = [halt EXCEPT !.pc = "groups"]
      /\ UNCHANGED <<guardVars, chan, fsm, watch, respawn, svc>>
  BY DEF HaltJoins
<1>3. Up
  BY <1>1, <1>2 DEF DownForgets, NoHalt
<1>4. halt' \in HaltType /\ halt'.pc = "groups" /\ halt'.by = halt.by /\ halt' # NoHalt
  BY <1>1, <1>2 DEF HaltType, NoHalt
<1>5. ~watch.cancelled
  BY <1>1, <1>2, WatchStates DEF WatchHolds
<1>6. HaltHolds'
  BY <1>1, <1>2, <1>4 DEF HaltHolds
<1>7. QED
  BY <1>1, <1>2, <1>3, <1>4, <1>5, <1>6, TakingDownPreserves

-----------------------------------------------------------------------------
(***************************************************************************)
(* The end of a stop.                                                      *)
(***************************************************************************)

\* What is killed is at most the one group that _captures knows: a step of the
\* guard's specification, or none.
LEMMA KillIsAnExit ==
  ASSUME GuardTypeOK, group' = [g \in Captures |-> IF g \in Leftover THEN "absent" ELSE group[g]],
         UNCHANGED <<guard, mine, recorded>>
  PROVE  [GuardNext]_guardVars
<1>1. CASE Leftover = {}
  <2>1. group' = group
    BY <1>1 DEF GuardTypeOK
  <2>2. QED
    BY <2>1 DEF guardVars
<1>2. CASE Leftover # {}
  <2>1. PICK g \in Captures : g \in Leftover
    BY <1>2 DEF Leftover
  <2>2. Leftover = {g} /\ group[g] \in {"live", "orphaned"}
    BY <2>1 DEF Leftover, Survives
  <2>3. group' = [group EXCEPT ![g] = "absent"]
    BY <2>2 DEF GuardTypeOK
  <2>4. LeaderExits(g) \/ OrphansExit(g)
    BY <2>2, <2>3 DEF LeaderExits, OrphansExit
  <2>5. QED
    BY <2>4 DEF GuardNext, GuardStep
<1>3. QED
  BY <1>1, <1>2

\* What a stop that killed the group makes of the channel.
Ended(c) ==
    /\ c \in ChannelType /\ c.take \in {chan.take, NoTake} /\ Scopes(c)
    /\ c.blocked => c.take # NoTake

LEMMA HaltSucceedsPreserves == ChannelIInv /\ HaltSucceeds => ChannelIInv'
<1> SUFFICES ASSUME ChannelIInv, HaltSucceeds PROVE ChannelIInv'
  OBVIOUS
<1> DEFINE gone  == [chan EXCEPT !.blocked = @ /\ chan.take = NoTake]
           final == [gone EXCEPT !.take = NoTake]
           f     == FinishOnce(final, "succeeded")
           ended == [f EXCEPT !.continuing = NoBroadcast, !.current = NoBroadcast,
                              !.stopping = FALSE]
<1>1. /\ ChannelTypeOK /\ GuardInv /\ OneCapture /\ DownForgets /\ TakeHolds /\ WatchHolds
      /\ HaltHolds /\ ServiceHolds /\ OwnedUntilGone /\ AdmissionHolds /\ CommandsAreAttended
  BY DEF ChannelIInv, ChannelInv, CapturesAreReachable
<1>2. /\ chan \in ChannelType /\ halt \in HaltType /\ svc \in ServiceType /\ GuardTypeOK
      /\ halt.pc = "groups" /\ halt # NoHalt /\ halt.by # "none"
      /\ watch = NoWatch /\ watch.pc = "none" /\ respawn = FALSE /\ Up
  <2>1. halt.pc = "groups" /\ halt # NoHalt
    BY DEF HaltSucceeds, NoHalt
  <2>2. /\ chan \in ChannelType /\ halt \in HaltType /\ svc \in ServiceType /\ GuardTypeOK
        /\ respawn \in BOOLEAN
    BY <1>1 DEF ChannelTypeOK, HaltType, ServiceType
  <2>3. halt.by # "none" /\ watch.pc = "none" /\ watch = NoWatch
    BY <1>1, <2>1 DEF HaltHolds, WatchHolds
  <2>4. ~respawn /\ Up
    BY <1>1, <2>1, <2>3 DEF HaltHolds, DownForgets
  <2>5. QED
    BY <2>1, <2>2, <2>3, <2>4
<1>3. /\ group' = [g \in Captures |-> IF g \in Leftover THEN "absent" ELSE group[g]]
      /\ UNCHANGED <<guard, mine, recorded, watch, respawn>> /\ fsm' = StoppedFsm
      /\ halt' = IF halt.by = "shutdown" THEN [halt EXCEPT !.pc = "clean"] ELSE NoHalt
      /\ CASE halt.by = "stop" -> /\ chan' = Answer(Observe(ended, svc.id), svc.cmd, "succeeded")
                                  /\ svc' = AfterStop
           [] halt.by = "legacy" -> chan' = Observe(ended, NoBroadcast) /\ svc' = NoService
           [] halt.by = "pause" -> chan' = gone /\ svc' = NoService
           [] halt.by = "outside" -> chan' = gone /\ UNCHANGED svc
           [] halt.by = "shutdown" -> chan' = final /\ UNCHANGED svc
  BY DEF HaltSucceeds
<1>4. GuardInv' /\ Up'
  BY <1>1, <1>2, <1>3, KillIsAnExit, GuardNextPreserves DEF Up
<1>5. /\ gone \in ChannelType /\ gone.blocked = FALSE /\ gone.take = chan.take
      /\ OnlyTheTake(chan, gone) /\ Scopes(gone)
  <2>1. chan.blocked \in BOOLEAN /\ ~(chan.blocked /\ chan.take = NoTake)
    BY <1>1, <1>2 DEF ChannelType, TakeHolds
  <2>2. gone = [chan EXCEPT !.blocked = FALSE]
    BY <1>2, <2>1 DEF ChannelType
  <2>3. gone \in ChannelType /\ gone.blocked = FALSE /\ gone.take = chan.take
    BY <1>2, <2>2 DEF ChannelType
  <2>4. OnlyTheTake(chan, gone)
    BY <1>2, <2>2 DEF ChannelType, OnlyTheTake, Fixed
  <2>5. Scopes(gone)
    BY <1>1, <2>4 DEF OnlyTheTake, Scopes, ServiceHolds
  <2>6. QED
    BY <2>3, <2>4, <2>5
<1> HIDE DEF gone
<1>6. /\ final \in ChannelType /\ final.take = NoTake /\ final.blocked = FALSE
      /\ OnlyTheTake(chan, final) /\ Scopes(final)
  <2>1. final \in ChannelType /\ final.take = NoTake /\ final.blocked = FALSE
    BY <1>5, NothingCaptured DEF ChannelType
  <2>2. OnlyTheTake(gone, final)
    BY <1>5 DEF ChannelType, OnlyTheTake, Fixed
  <2>3. OnlyTheTake(chan, final) /\ Scopes(final)
    BY <1>5, <2>2 DEF OnlyTheTake, Fixed, Scopes
  <2>4. QED
    BY <2>1, <2>3
<1> HIDE DEF final
<1>7. /\ f \in ChannelType /\ OnceSettled(final, f) /\ Fixed(final, f)
      /\ f.take = NoTake /\ f.blocked = FALSE
  <2>1. "succeeded" \in Settled
    BY DEF Settled
  <2>2. QED
    BY <1>6, <2>1, FinishOnceGives
<1> HIDE DEF f
<1>8. /\ ended \in ChannelType /\ ended.take = NoTake /\ ended.blocked = FALSE
      /\ ended.stopping = FALSE /\ OnceSettled(chan, ended)
  <2>1. /\ ended \in ChannelType /\ ended.take = f.take /\ ended.blocked = f.blocked
        /\ ended.stopping = FALSE /\ ended.once = f.once /\ ended.scope = f.scope
        /\ ended.cmd = f.cmd
    BY <1>7, NothingCaptured DEF ChannelType
  <2>2. OnceSettled(chan, ended)
    BY <1>6, <1>7, <2>1 DEF OnceSettled, OnlyTheTake
  <2>3. QED
    BY <1>7, <2>1, <2>2
<1> HIDE DEF ended
<1>9. NoCommand \notin Commands /\ NoBroadcast \in MaybeId
  BY ChannelAssumption, NothingCaptured DEF Commands
<1>10. /\ Ended(chan') /\ ServiceHolds' /\ CommandsAreAttended' /\ svc' \in ServiceType
       /\ halt.by = "shutdown" => chan'.take = NoTake /\ svc' = svc
  <2>1. CASE halt.by = "stop"
    <3> DEFINE o == Observe(ended, svc.id)
               c == Answer(o, svc.cmd, "succeeded")
    <3>1. chan' = c /\ svc' = AfterStop
      BY <1>3, <2>1
    <3>2. svc.op = "stop" /\ svc.cmd \in Commands /\ svc.id \in MaybeId
      BY <1>1, <1>2, <2>1 DEF HaltHolds, ServiceHolds, ServiceType
    <3>3. o \in ChannelType /\ OnlyTheTake(ended, o) /\ o.blocked = FALSE /\ o.take = NoTake
      BY <1>8, <3>2, ObserveGives
    <3> HIDE DEF o
    <3>4. /\ c \in ChannelType /\ SameButCommands(o, c)
          /\ \A k \in Commands : c.cmd[k] = IF k = svc.cmd THEN "succeeded" ELSE o.cmd[k]
      <4>1. "succeeded" \in CommandStates
        BY DEF CommandStates
      <4>2. QED
        BY <3>2, <3>3, <4>1, AnswerGives
    <3> HIDE DEF c
    <3>5. /\ c.once = NoCommand /\ c.scope = NoBroadcast /\ c.stopping = FALSE
          /\ c.blocked = FALSE /\ c.take = NoTake
      BY <1>8, <3>3, <3>4 DEF SameButCommands, OnlyTheTake, Fixed, OnceSettled
    <3>6. \A k \in Commands : c.cmd[k] # "running"
      <4> SUFFICES ASSUME NEW k \in Commands, c.cmd[k] = "running" PROVE FALSE
        OBVIOUS
      <4>1. k # svc.cmd /\ ended.cmd[k] = "running"
        BY <3>3, <3>4 DEF OnlyTheTake
      <4>2. chan.cmd[k] = "running" /\ k # chan.once
        BY <1>8, <4>1 DEF OnceSettled
      <4>3. QED
        BY <1>1, <1>2, <4>1, <4>2 DEF CommandsAreAttended
    <3>7. svc' \in ServiceType /\ svc'.op \in {"none", "restart"} /\ svc'.cmd = NoCommand
          /\ (svc'.op = "none" => svc' = NoService)
      <4>1. svc' = [NoService EXCEPT !.op = "restart"] \/ svc' = [NoService EXCEPT !.op = "none"]
        BY <3>1 DEF AfterStop
      <4>2. [NoService EXCEPT !.op = "none"] = NoService
        BY DEF NoService
      <4>3. QED
        BY <4>1, <4>2, ServiceStates
    <3>8. Ended(chan')
      BY <3>1, <3>4, <3>5 DEF Ended, Scopes
    <3>9. ServiceHolds'
      BY <3>1, <3>5, <3>7 DEF ServiceHolds
    <3>10. CommandsAreAttended'
      BY <1>9, <3>1, <3>5, <3>6 DEF CommandsAreAttended
    <3>11. QED
      BY <2>1, <3>7, <3>8, <3>9, <3>10
  <2>2. CASE halt.by = "legacy"
    <3> DEFINE c == Observe(ended, NoBroadcast)
    <3>1. chan' = c /\ svc' = NoService
      BY <1>3, <2>2
    <3>2. svc.op = "legacy" /\ svc.cmd = NoCommand
      BY <1>1, <2>2 DEF HaltHolds, ServiceHolds
    <3>3. c \in ChannelType /\ OnlyTheTake(ended, c) /\ c.blocked = FALSE /\ c.take = NoTake
      BY <1>8, <1>9, ObserveGives
    <3> HIDE DEF c
    <3>4. c.once = NoCommand /\ c.scope = NoBroadcast /\ c.stopping = FALSE /\ c.cmd = ended.cmd
      BY <1>8, <3>3 DEF OnlyTheTake, Fixed, OnceSettled
    <3>5. \A k \in Commands : c.cmd[k] # "running"
      BY <1>1, <1>2, <1>8, <1>9, <3>2, <3>4 DEF CommandsAreAttended, OnceSettled
    <3>6. Ended(chan')
      BY <3>1, <3>3, <3>4 DEF Ended, Scopes
    <3>7. ServiceHolds'
      BY <3>1, <3>4, ServiceStates DEF ServiceHolds
    <3>8. CommandsAreAttended'
      BY <1>9, <3>1, <3>4, <3>5 DEF CommandsAreAttended
    <3>9. QED
      BY <2>2, <3>1, <3>6, <3>7, <3>8, ServiceStates
  <2>3. ASSUME NEW c \in ChannelType, OnlyTheTake(chan, c), Scopes(c), c.blocked = FALSE,
               c.take \in {chan.take, NoTake}, chan' = c,
               svc' = svc \/ (svc.op = "pause" /\ svc' = NoService)
        PROVE  Ended(chan') /\ ServiceHolds' /\ CommandsAreAttended' /\ svc' \in ServiceType
    <3>1. /\ c.once = chan.once /\ c.scope = chan.scope /\ c.cmd = chan.cmd
          /\ c.stopping = chan.stopping /\ c.mode = chan.mode /\ c.continuing = chan.continuing
      BY <2>3 DEF OnlyTheTake, Fixed
    <3>2. Ended(chan')
      BY <2>3 DEF Ended
    <3>3. CASE svc' = svc
      BY <1>1, <1>2, <1>4, <2>3, <3>1, <3>2, <3>3 DEF ServiceHolds, CommandsAreAttended
    <3>4. CASE svc.op = "pause" /\ svc' = NoService
      <4>1. svc.cmd = NoCommand /\ ~chan.stopping
        BY <1>1, <3>4 DEF ServiceHolds
      <4>2. ServiceHolds'
        BY <2>3, <3>1, <3>4, <4>1, ServiceStates DEF ServiceHolds, Scopes
      <4>3. CommandsAreAttended'
        BY <1>1, <1>2, <1>9, <2>3, <3>1, <4>1 DEF CommandsAreAttended
      <4>4. QED
        BY <3>2, <3>4, <4>2, <4>3, ServiceStates
    <3>5. QED
      BY <2>3, <3>3, <3>4
  <2>4. CASE halt.by = "pause"
    <3>1. chan' = gone /\ svc' = NoService /\ svc.op = "pause"
      BY <1>1, <1>3, <2>4 DEF HaltHolds
    <3>2. QED
      BY <1>5, <2>3, <2>4, <3>1
  <2>5. CASE halt.by = "outside"
    <3>1. chan' = gone /\ svc' = svc
      BY <1>3, <2>5
    <3>2. Ended(chan') /\ ServiceHolds' /\ CommandsAreAttended' /\ svc' \in ServiceType
      BY <1>5, <2>3, <3>1
    <3>3. QED
      BY <2>5, <3>2
  <2>6. CASE halt.by = "shutdown"
    <3>1. chan' = final /\ svc' = svc
      BY <1>3, <2>6
    <3>2. Ended(chan') /\ ServiceHolds' /\ CommandsAreAttended' /\ svc' \in ServiceType
      BY <1>6, <2>3, <3>1
    <3>3. QED
      BY <1>6, <2>6, <3>1, <3>2
  <2>7. QED
    BY <1>2, <2>1, <2>2, <2>4, <2>5, <2>6 DEF HaltType
<1>11. /\ \A g \in Captures : /\ Survives(g)' => Survives(g) /\ g # chan.take.capture
                              /\ group'[g] = "admitted" <=> group[g] = "admitted"
       /\ ~Active(chan)'
  <2>1. \A g \in Captures : group'[g] = IF g \in Leftover THEN "absent" ELSE group[g]
    BY <1>3
  <2>2. \A g \in Captures : /\ Survives(g)' => Survives(g) /\ g # chan.take.capture
                            /\ group'[g] = "admitted" <=> group[g] = "admitted"
    BY <2>1 DEF Leftover, Survives
  <2>3. chan'.take \in {chan.take, NoTake}
    BY <1>10 DEF Ended
  <2>4. ~Active(chan)'
    BY <2>2, <2>3, NothingCaptured DEF Active
  <2>5. QED
    BY <2>2, <2>4
<1>12. ChannelTypeOK' /\ NoCaptureBesideSurvivor' /\ OneCapture' /\ DownForgets'
  <2>1. halt' \in HaltType
    BY <1>2, <1>3 DEF HaltType, NoHalt
  <2>2. fsm' \in FsmType
    BY <1>3, MachineStates DEF FsmType
  <2>3. GuardTypeOK' /\ NoCaptureBesideSurvivor'
    BY <1>4 DEF GuardInv, SurvivorsRefuse, NoCaptureBesideSurvivor, Survives
  <2>4. ChannelTypeOK'
    BY <1>1, <1>3, <1>10, <2>1, <2>2, <2>3
       DEF ChannelTypeOK, Ended, HaltType, FsmType, ServiceType
  <2>5. OneCapture' /\ DownForgets'
    BY <1>1, <1>4, <1>11 DEF OneCapture, DownForgets
  <2>6. QED
    BY <2>3, <2>4, <2>5
<1>13. TakeHolds' /\ CaptureIsStoppable'
  BY <1>1, <1>10, <1>11 DEF TakeHolds, CaptureIsStoppable, Ended
<1>14. OwnedUntilGone'
  <2>1. \A g \in mine' : g \in mine /\ g \in Captures
    BY <1>2, <1>3 DEF GuardTypeOK
  <2>2. QED
    BY <1>1, <1>2, <1>11, <2>1 DEF OwnedUntilGone
<1>15. AdmissionHolds' /\ WatchHolds'
  <2>1. watch' = NoWatch /\ watch'.pc = "none" /\ ~watch'.cancelled
    BY <1>2, <1>3, WatchStates
  <2>2. AdmissionHolds'
    BY <1>1, <1>2, <1>11, <2>1 DEF AdmissionHolds
  <2>3. WatchHolds'
    BY <1>11, <2>1 DEF WatchHolds
  <2>4. QED
    BY <2>2, <2>3
<1>16. HaltHolds'
  <2>1. CASE halt.by = "shutdown"
    <3>1. halt'.by = "shutdown" /\ halt'.pc = "clean"
      BY <1>2, <1>3, <2>1 DEF HaltType
    <3>2. svc' = NoService /\ chan'.take = NoTake
      BY <1>1, <1>10, <2>1 DEF HaltHolds
    <3>3. QED
      BY <1>2, <1>3, <3>1, <3>2 DEF HaltHolds
  <2>2. CASE halt.by # "shutdown"
    BY <1>3, <2>2 DEF HaltHolds, NoHalt
  <2>3. QED
    BY <2>1, <2>2
<1>17. WatchingHolds' /\ DecisionsAreKept'
  BY <1>3, <1>11 DEF WatchingHolds, StoppedFsm, DecisionsAreKept, SuppressedIsNotCaptured,
                     PausedRecordsItsScope, Captured
<1>18. QED
  BY <1>4, <1>10, <1>12, <1>13, <1>14, <1>15, <1>16, <1>17
     DEF ChannelIInv, ChannelInv, CapturesAreReachable

\* A stop that fails leaves the channel blocked over the group it could not kill.
LEMMA HaltFailsPreserves == ChannelIInv /\ HaltFails => ChannelIInv'
<1> SUFFICES ASSUME ChannelIInv, HaltFails PROVE ChannelIInv'
  OBVIOUS
<1> DEFINE b     == Block(chan)
           stays == chan.stopping /\ halt.by \notin {"stop", "legacy"}
           stuck == [b EXCEPT !.stopping = @ /\ halt.by \notin {"stop", "legacy"}]
<1>1. /\ ChannelTypeOK /\ GuardInv /\ OneCapture /\ DownForgets /\ TakeHolds /\ WatchHolds
      /\ HaltHolds /\ ServiceHolds /\ OwnedUntilGone /\ AdmissionHolds /\ CommandsAreAttended
      /\ WatchingHolds /\ NoCaptureBesideSurvivor
  BY DEF ChannelIInv, ChannelInv, CapturesAreReachable
<1>2. /\ chan \in ChannelType /\ halt \in HaltType /\ svc \in ServiceType
      /\ halt.pc = "groups" /\ halt.by # "none" /\ Active(chan)
      /\ watch.pc = "none" /\ respawn = FALSE /\ Up
  <2>1. halt.pc = "groups" /\ halt # NoHalt /\ Active(chan)
    BY DEF HaltFails, NoHalt
  <2>2. chan \in ChannelType /\ halt \in HaltType /\ svc \in ServiceType /\ respawn \in BOOLEAN
    BY <1>1 DEF ChannelTypeOK, HaltType, ServiceType
  <2>3. halt.by # "none" /\ watch.pc = "none"
    BY <1>1, <2>1 DEF HaltHolds
  <2>4. ~respawn /\ Up
    BY <1>1, <2>1, <2>3 DEF HaltHolds, DownForgets
  <2>5. QED
    BY <2>1, <2>2, <2>3, <2>4
<1>3. /\ chan' = IF halt.by = "stop" THEN Answer(stuck, svc.cmd, "failed") ELSE stuck
      /\ svc' = IF halt.by \in {"stop", "legacy", "pause"} THEN NoService ELSE svc
      /\ halt' = IF halt.by = "shutdown" THEN [halt EXCEPT !.pc = "unclean"] ELSE NoHalt
      /\ UNCHANGED <<guardVars, fsm, watch, respawn>>
  BY DEF HaltFails
<1>4. UNCHANGED <<guard, group, mine, recorded>> /\ Up'
  BY <1>2, <1>3 DEF guardVars, Up
<1>5. /\ b \in ChannelType /\ OnlyTheTake(chan, b) /\ b.observed = chan.current
      /\ b.blocked /\ b.take = chan.take
  BY <1>2, BlockGives
<1> HIDE DEF b
<1>6. /\ stuck \in ChannelType /\ stuck.blocked /\ stuck.take = chan.take
      /\ stuck.observed = stuck.current /\ stuck.current = chan.current
      /\ stuck.once = chan.once /\ stuck.scope = chan.scope /\ stuck.cmd = chan.cmd
      /\ stuck.mode = chan.mode /\ stuck.continuing = chan.continuing
      /\ stuck.stopping = stays
  <2>1. stays \in BOOLEAN /\ b.stopping = chan.stopping
    BY <1>2, <1>5 DEF OnlyTheTake, Fixed
  <2>2. stuck = [b EXCEPT !.stopping = stays]
    BY <1>5, <2>1 DEF ChannelType
  <2> HIDE DEF stays, stuck
  <2>3. stuck \in ChannelType
    BY <1>5, <2>1, <2>2 DEF ChannelType
  <2>4. /\ stuck.blocked = b.blocked /\ stuck.take = b.take /\ stuck.observed = b.observed
        /\ stuck.current = b.current /\ stuck.once = b.once /\ stuck.scope = b.scope
        /\ stuck.cmd = b.cmd /\ stuck.mode = b.mode /\ stuck.continuing = b.continuing
        /\ stuck.stopping = stays
    BY <1>5, <2>2 DEF ChannelType
  <2>5. QED
    BY <1>5, <2>3, <2>4 DEF OnlyTheTake, Fixed
<1> HIDE DEF stuck
<1>7. /\ chan' \in ChannelType /\ chan'.blocked /\ chan'.take = chan.take
      /\ chan'.observed = chan'.current /\ chan'.current = chan.current
      /\ chan'.once = chan.once /\ chan'.scope = chan.scope
      /\ chan'.mode = chan.mode /\ chan'.continuing = chan.continuing
      /\ chan'.stopping = stays
      /\ \A k \in Commands : chan'.cmd[k] = IF halt.by = "stop" /\ k = svc.cmd THEN "failed"
                                            ELSE chan.cmd[k]
  <2>1. CASE halt.by = "stop"
    <3>1. svc.cmd \in Commands /\ "failed" \in CommandStates
      BY <1>1, <2>1 DEF HaltHolds, ServiceHolds, CommandStates
    <3> DEFINE c == Answer(stuck, svc.cmd, "failed")
    <3>2. /\ c \in ChannelType /\ SameButCommands(stuck, c)
          /\ \A k \in Commands : c.cmd[k] = IF k = svc.cmd THEN "failed" ELSE stuck.cmd[k]
      BY <1>6, <3>1, AnswerGives
    <3>3. chan' = c
      BY <1>3, <2>1
    <3> HIDE DEF c
    <3>4. QED
      BY <1>6, <2>1, <3>2, <3>3 DEF SameButCommands, Fixed
  <2>2. CASE halt.by # "stop"
    BY <1>3, <1>6, <2>2
  <2>3. QED
    BY <2>1, <2>2
<1>8. (Active(chan)' <=> Active(chan)) /\ \A g \in Captures : Survives(g)' <=> Survives(g)
  BY <1>4, <1>7 DEF Active, Survives
<1>9. ServiceHolds' /\ CommandsAreAttended' /\ svc' \in ServiceType
  <2>1. CASE halt.by \in {"stop", "legacy", "pause"}
    <3>1. svc.op = halt.by /\ svc' = NoService
      BY <1>1, <1>3, <2>1 DEF HaltHolds
    <3>2. ~stays
      BY <1>1, <3>1, <2>1 DEF ServiceHolds
    <3>3. ServiceHolds' /\ svc' \in ServiceType
      BY <1>1, <1>7, <3>1, <3>2, ServiceStates DEF ServiceHolds
    <3>4. \A k \in Commands : chan'.cmd[k] = "running" => k = chan.once
      <4> SUFFICES ASSUME NEW k \in Commands, chan'.cmd[k] = "running" PROVE k = chan.once
        OBVIOUS
      <4>1. chan.cmd[k] = "running" /\ ~(halt.by = "stop" /\ k = svc.cmd)
        BY <1>7
      <4>2. k \in {chan.once, svc.cmd}
        BY <1>1, <1>2, <4>1 DEF CommandsAreAttended
      <4>3. halt.by # "stop" => svc.cmd = NoCommand
        BY <1>1, <2>1, <3>1 DEF ServiceHolds
      <4>4. k # NoCommand
        BY ChannelAssumption DEF Commands
      <4>5. QED
        BY <4>1, <4>2, <4>3, <4>4
    <3>5. \A k \in Commands : k = chan.once => chan'.cmd[k] = "running"
      <4>1. halt.by = "stop" => svc.cmd # chan.once
        BY <1>1, <3>1 DEF ServiceHolds
      <4>2. QED
        BY <1>1, <1>2, <1>7, <4>1 DEF CommandsAreAttended
    <3>6. CommandsAreAttended'
      BY <1>7, <3>4, <3>5 DEF CommandsAreAttended
    <3>7. QED
      BY <3>3, <3>6
  <2>2. CASE halt.by \notin {"stop", "legacy", "pause"}
    <3>1. svc' = svc /\ (stays <=> chan.stopping)
      BY <1>3, <2>2
    <3>2. ServiceHolds'
      BY <1>1, <1>7, <2>2, <3>1 DEF ServiceHolds
    <3>3. CommandsAreAttended'
      BY <1>1, <1>2, <1>7, <2>2, <3>1 DEF CommandsAreAttended
    <3>4. QED
      BY <1>2, <3>1, <3>2, <3>3
  <2>3. QED
    BY <2>1, <2>2
<1>10. GuardInv' /\ NoCaptureBesideSurvivor' /\ OneCapture' /\ DownForgets' /\ ChannelTypeOK'
  <2>1. GuardInv' /\ NoCaptureBesideSurvivor'
    BY <1>1, <1>4 DEF GuardInv, GuardTypeOK, MarkerCovers, AdmissionsAreMine,
                      SurvivorsRefuse, NoCaptureBesideSurvivor, Survives, Up
  <2>2. OneCapture' /\ DownForgets'
    BY <1>1, <1>4, <1>8 DEF OneCapture, DownForgets
  <2>3. halt' \in HaltType
    BY <1>2, <1>3 DEF HaltType, NoHalt
  <2>4. ChannelTypeOK'
    BY <1>1, <1>3, <1>7, <1>9, <2>1, <2>3 DEF ChannelTypeOK, GuardInv, HaltType, ServiceType
  <2>5. QED
    BY <2>1, <2>2, <2>4
<1>11. TakeHolds' /\ CaptureIsStoppable' /\ OwnedUntilGone'
  <2>1. TakeHolds' /\ CaptureIsStoppable'
    <3>1. chan.take # NoTake
      BY <1>2, NothingCaptured DEF Active
    <3>2. QED
      BY <1>1, <1>2, <1>7, <1>8, <3>1 DEF TakeHolds, CaptureIsStoppable
  <2>2. OwnedUntilGone'
    BY <1>1, <1>2, <1>4, <1>7, <1>8 DEF OwnedUntilGone, GuardInv, GuardTypeOK
  <2>3. QED
    BY <2>1, <2>2
<1>12. AdmissionHolds' /\ WatchHolds' /\ WatchingHolds'
  <2>1. UNCHANGED <<group, fsm, watch, respawn>> /\ watch'.pc = "none"
    BY <1>2, <1>3, <1>4
  <2>2. AdmissionHolds'
    BY <1>1, <1>2, <2>1 DEF AdmissionHolds
  <2>3. WatchHolds'
    <3>1. watch = NoWatch
      BY <1>1, <1>2 DEF WatchHolds
    <3>2. QED
      BY <1>7, <2>1, <3>1, WatchStates DEF WatchHolds
  <2>4. WatchingHolds'
    BY <1>1, <1>2, <2>1 DEF WatchingHolds
  <2>5. QED
    BY <2>2, <2>3, <2>4
<1>13. HaltHolds'
  <2>1. CASE halt.by = "shutdown"
    <3>1. halt'.by = "shutdown" /\ halt'.pc = "unclean" /\ svc' = svc
      BY <1>2, <1>3, <2>1 DEF HaltType
    <3>2. svc = NoService /\ UNCHANGED <<fsm, watch, respawn>>
      BY <1>1, <1>3, <2>1 DEF HaltHolds
    <3>3. QED
      BY <1>1, <1>2, <3>1, <3>2 DEF HaltHolds
  <2>2. CASE halt.by # "shutdown"
    BY <1>3, <2>2 DEF HaltHolds, NoHalt
  <2>3. QED
    BY <2>1, <2>2
<1>14. DecisionsAreKept'
  BY <1>7 DEF DecisionsAreKept, SuppressedIsNotCaptured, PausedRecordsItsScope
<1>15. QED
  BY <1>9, <1>10, <1>11, <1>12, <1>13, <1>14
     DEF ChannelIInv, ChannelInv, CapturesAreReachable

-----------------------------------------------------------------------------
(***************************************************************************)
(* The watch task before and after its launch.                             *)
(***************************************************************************)

\* A step of the tasks that touches neither the channel nor an admission.
LEMMA TaskStepPreserves ==
  ASSUME ChannelIInv, Up, UNCHANGED <<guardVars, chan, svc, halt>>,
         (watch.pc # "admitted" /\ watch'.pc # "admitted") \/ UNCHANGED <<watch, fsm>>,
         fsm' \in FsmType, watch' \in WatchType, respawn' \in BOOLEAN,
         WatchHolds', HaltHolds', WatchingHolds'
  PROVE  ChannelIInv'
<1>1. /\ ChannelTypeOK /\ GuardInv /\ OneCapture /\ DownForgets /\ TakeHolds
      /\ ServiceHolds /\ OwnedUntilGone /\ AdmissionHolds
      /\ DecisionsAreKept /\ NoCaptureBesideSurvivor /\ CaptureIsStoppable /\ CommandsAreAttended
  BY DEF ChannelIInv, ChannelInv, CapturesAreReachable
<1>2. UNCHANGED <<guard, group, mine, recorded, chan, svc, halt>> /\ Up'
  BY DEF guardVars, Up
<1>3. (Active(chan)' <=> Active(chan)) /\ \A g \in Captures : Survives(g)' <=> Survives(g)
  BY <1>2 DEF Active, Survives
<1>4. GuardInv' /\ NoCaptureBesideSurvivor' /\ OneCapture' /\ DownForgets' /\ ChannelTypeOK'
  <2>1. GuardInv' /\ NoCaptureBesideSurvivor'
    BY <1>1, <1>2 DEF GuardInv, GuardTypeOK, MarkerCovers, AdmissionsAreMine,
                      SurvivorsRefuse, NoCaptureBesideSurvivor, Survives, Up
  <2>2. OneCapture' /\ DownForgets'
    BY <1>1, <1>2, <1>3 DEF OneCapture, DownForgets
  <2>3. ChannelTypeOK'
    BY <1>1, <1>2, <2>1 DEF ChannelTypeOK, GuardInv, FsmType, WatchType
  <2>4. QED
    BY <2>1, <2>2, <2>3
<1>5. TakeHolds' /\ CaptureIsStoppable' /\ OwnedUntilGone'
  <2>1. TakeHolds' /\ CaptureIsStoppable'
    BY <1>1, <1>2, <1>3 DEF TakeHolds, CaptureIsStoppable
  <2>2. OwnedUntilGone'
    BY <1>1, <1>2, <1>3 DEF OwnedUntilGone, GuardInv, GuardTypeOK
  <2>3. QED
    BY <2>1, <2>2
<1>6. AdmissionHolds'
  BY <1>1, <1>2 DEF AdmissionHolds, Suppressed
<1>7. ServiceHolds' /\ CommandsAreAttended'
  BY <1>1, <1>2 DEF ServiceHolds, CommandsAreAttended
<1>8. DecisionsAreKept'
  BY <1>1, <1>2, <1>3
     DEF DecisionsAreKept, SuppressedIsNotCaptured, PausedRecordsItsScope, Captured, Suppressed
<1>9. QED
  BY <1>4, <1>5, <1>6, <1>7, <1>8 DEF ChannelIInv, ChannelInv, CapturesAreReachable

LEMMA TasksRun ==
  ASSUME ChannelIInv, watch.pc # "none" \/ respawn
  PROVE  Up
BY WatchStates DEF ChannelIInv, ChannelInv, DownForgets

LEMMA RespawnWakesPreserves == ChannelIInv /\ RespawnWakes => ChannelIInv'
<1> SUFFICES ASSUME ChannelIInv, RespawnWakes PROVE ChannelIInv'
  OBVIOUS
<1>1. /\ fsm \in FsmType /\ halt \in HaltType /\ watch \in WatchType
      /\ HaltHolds /\ WatchHolds /\ WatchingHolds
  BY DEF ChannelIInv, ChannelInv, ChannelTypeOK, FsmType, HaltType, WatchType
<1>2. /\ respawn /\ respawn' = FALSE
      /\ IF ShouldWatch(chan) /\ ~fsm.stop THEN SpawnWatch(FALSE) ELSE UNCHANGED watch
      /\ UNCHANGED <<guardVars, chan, fsm, svc, halt>>
  BY DEF RespawnWakes
<1>3. Up
  BY <1>2, TasksRun
<1>4. halt.by = "none" /\ halt.pc = "none" /\ halt = NoHalt /\ ~watch.cancelled
  <2>1. halt.by = "none" /\ halt.pc = "none"
    BY <1>1, <1>2 DEF HaltHolds
  <2>2. halt = NoHalt
    BY <1>1, <2>1 DEF HaltType, NoHalt
  <2>3. QED
    BY <1>1, <2>1, <2>2 DEF WatchHolds
<1>5. \/ watch' = watch /\ (watch.pc = "none" => ~ShouldWatch(chan) \/ fsm.stop)
      \/ watch' = Born(FALSE) /\ watch.pc = "none" /\ ShouldWatch(chan)
  BY <1>2, <1>4, WatchStates DEF SpawnWatch, Watched
<1>6. watch' \in WatchType /\ (watch' = Born(FALSE) => watch'.pc = "born" /\ ~watch'.cancelled)
  BY <1>1, <1>5, WatchStates
<1>7. UNCHANGED <<guard, group, mine, recorded, chan, svc, halt, fsm>>
  BY <1>2 DEF guardVars
<1>8. (Active(chan)' <=> Active(chan)) /\ (LeaderGone' <=> LeaderGone)
  BY <1>7 DEF Active, LeaderGone, Survives
<1>9. watch' = Born(FALSE) /\ watch.pc = "none" /\ ShouldWatch(chan) => ~Active(chan)
  BY <1>1 DEF WatchHolds, ShouldWatch
<1>10. WatchHolds'
  <2>1. CASE watch' = watch
    BY <1>1, <1>7, <1>8, <2>1 DEF WatchHolds, SessionIsManual
  <2>2. CASE watch' = Born(FALSE) /\ ~Active(chan)
    BY <1>6, <1>8, <2>2 DEF WatchHolds
  <2>3. QED
    BY <1>5, <1>9, <2>1, <2>2
<1>11. HaltHolds'
  BY <1>4, <1>7 DEF HaltHolds
<1>12. WatchingHolds'
  <2> SUFFICES ASSUME fsm.state = "WATCHING", watch'.pc \in {"none", "born"}
               PROVE  /\ ~fsm.rec /\ ~Active(chan)
                      /\ watch'.pc = "none" => ~fsm.stop /\ Ending(svc)
    BY <1>7, <1>8 DEF WatchingHolds, Ending
  <2>1. watch.pc \in {"none", "born"}
    BY <1>5
  <2>2. /\ ~fsm.rec /\ ~Active(chan)
        /\ watch.pc = "none" => ~fsm.stop /\ (Ending(svc) \/ ShouldWatch(chan))
    BY <1>1, <1>4, <2>1 DEF WatchingHolds, LockFree, Ending
  <2>3. watch'.pc = "none" => watch' = watch
    BY <1>5, <1>6
  <2>4. QED
    BY <1>5, <1>6, <2>2, <2>3
<1>13. (watch.pc # "admitted" /\ watch'.pc # "admitted") \/ UNCHANGED <<watch, fsm>>
  BY <1>5, <1>6, <1>7
<1>14. fsm' \in FsmType /\ respawn' \in BOOLEAN /\ UNCHANGED <<guardVars, chan, svc, halt>>
  BY <1>1, <1>2, <1>7
<1>15. QED
  BY <1>3, <1>6, <1>10, <1>11, <1>12, <1>13, <1>14, TaskStepPreserves

\* Nothing is withdrawn where nothing is admitted.
LEMMA NothingWithdrawn ==
  ASSUME ChannelIInv, watch.pc # "admitted", UNCHANGED guardVars
  PROVE  Withdrawn /\ GuardInv'
<1>1. AdmissionHolds /\ GuardInv
  BY DEF ChannelIInv, ChannelInv
<1>2. GuardInv'
  BY <1>1, GuardNextPreserves
<1>3. UNCHANGED <<guard, group, mine, recorded>>
  BY DEF guardVars
<1>4. QED
  BY <1>1, <1>2, <1>3 DEF AdmissionHolds, Withdrawn

LEMMA ChannelIsHeard == ChannelIInv => Heard(chan) /\ chan \in ChannelType /\ Scopes(chan)
<1> SUFFICES ASSUME ChannelIInv PROVE Heard(chan) /\ chan \in ChannelType /\ Scopes(chan)
  OBVIOUS
<1>1. chan \in ChannelType /\ Scopes(chan)
  BY DEF ChannelIInv, ChannelInv, ChannelTypeOK, ServiceHolds, Scopes
<1>2. QED
  BY <1>1 DEF Heard, Fixed, Onward, OnceKept, Scopes

LEMMA WatchBeginsPreserves == ChannelIInv /\ WatchBegins => ChannelIInv'
<1> SUFFICES ASSUME ChannelIInv, WatchBegins PROVE ChannelIInv'
  OBVIOUS
<1>1. /\ fsm \in FsmType /\ halt \in HaltType /\ watch \in WatchType /\ chan \in ChannelType
      /\ HaltHolds /\ WatchHolds /\ WatchingHolds /\ respawn \in BOOLEAN
  BY DEF ChannelIInv, ChannelInv, ChannelTypeOK, FsmType, HaltType, WatchType
<1>2. watch.pc = "born" /\ ~watch.cancelled /\ ~Active(chan) /\ LeaderGone /\ Up
  <2>1. watch.pc = "born" /\ ~Active(chan)
    BY <1>1 DEF WatchBegins, WatchHolds
  <2>2. ~watch.cancelled /\ Up
    BY <1>1, <2>1, TasksRun DEF WatchHolds
  <2>3. LeaderGone
    BY <2>1 DEF Active, LeaderGone, Survives
  <2>4. QED
    BY <2>1, <2>2, <2>3
<1>3. UNCHANGED <<guardVars, svc, halt>>
  BY DEF WatchBegins
<1>4. Withdrawn /\ GuardInv'
  BY <1>2, <1>3, NothingWithdrawn
<1>5. CASE SessionEnds(chan, "DISABLED")
  <2>1. "DISABLED" \in Outcomes /\ watch.pc # "none" /\ Heard(chan)
    BY <1>2, ChannelIsHeard DEF Outcomes
  <2>2. QED
    BY <1>2, <1>3, <1>4, <1>5, <2>1, SessionEndsPreserves
<1>6. UNCHANGED <<guard, group, mine, recorded>>
  BY <1>3 DEF guardVars
<1>7. CASE fsm' = StoppedFsm /\ watch' = NoWatch /\ UNCHANGED <<chan, respawn>>
  <2>1. ~Active(chan)'
    BY <1>2, <1>6, <1>7 DEF Active, Survives
  <2>2. fsm' \in FsmType /\ watch' \in WatchType /\ watch'.pc = "none" /\ ~watch'.cancelled
    BY <1>7, WatchStates, MachineStates DEF FsmType
  <2>3. WatchHolds'
    BY <1>7, <2>1, <2>2 DEF WatchHolds
  <2>4. HaltHolds'
    BY <1>1, <1>3, <1>7, <2>2 DEF HaltHolds
  <2>5. WatchingHolds'
    BY <1>7 DEF WatchingHolds, StoppedFsm
  <2>6. QED
    BY <1>1, <1>2, <1>3, <1>7, <2>2, <2>3, <2>4, <2>5, TaskStepPreserves
<1>8. CASE /\ ~fsm.stop
           /\ SessionIsManual(chan) \/ chan.mode = "auto"
           /\ fsm' = WatchingFsm
           /\ watch' = [NoWatch EXCEPT !.pc = "meta", !.enabled = chan.mode = "auto"]
           /\ UNCHANGED <<chan, respawn>>
  <2>1. ~Active(chan)'
    BY <1>2, <1>6, <1>8 DEF Active, Survives
  <2>2. watch' \in WatchType /\ watch'.pc = "meta" /\ ~watch'.cancelled
    BY <1>8, NothingCaptured DEF NoWatch, WatchType
  <2>3. fsm' \in FsmType /\ fsm'.state = "WATCHING" /\ ~fsm'.rec
    BY <1>8 DEF WatchingFsm, FsmType
  <2>4. WatchHolds'
    BY <1>8, <2>1, <2>2, <2>3 DEF WatchHolds, SessionIsManual
  <2>5. halt.by \in {"none", "pause"} /\ halt.pc \notin {"groups", "clean", "unclean"}
    BY <1>1, <1>2, <1>8 DEF HaltHolds
  <2>6. HaltHolds'
    BY <1>1, <1>3, <1>8, <2>5 DEF HaltHolds
  <2>7. WatchingHolds'
    BY <2>2 DEF WatchingHolds
  <2>8. QED
    BY <1>1, <1>2, <1>3, <1>8, <2>2, <2>3, <2>4, <2>6, <2>7, TaskStepPreserves
<1>9. QED
  BY <1>2, <1>5, <1>7, <1>8 DEF WatchBegins

LEMMA WaitReturnsPreserves == ChannelIInv /\ WaitReturns => ChannelIInv'
<1> SUFFICES ASSUME ChannelIInv, WaitReturns PROVE ChannelIInv'
  OBVIOUS
<1>1. /\ fsm \in FsmType /\ halt \in HaltType /\ watch \in WatchType /\ respawn \in BOOLEAN
      /\ HaltHolds /\ WatchHolds
  BY DEF ChannelIInv, ChannelInv, ChannelTypeOK, FsmType, HaltType, WatchType
<1>2. /\ watch.pc = "wait" /\ ~watch.cancelled /\ LeaderGone
      /\ watch' = [watch EXCEPT !.pc = "drain"]
      /\ fsm' = [fsm EXCEPT !.rec = FALSE] \/ fsm' = fsm
      /\ UNCHANGED <<guardVars, chan, respawn, svc, halt>>
  BY DEF WaitReturns
<1>3. Up
  BY <1>2, TasksRun
<1>4. watch' \in WatchType /\ watch'.pc = "drain" /\ ~watch'.cancelled
  BY <1>1, <1>2 DEF WatchType
<1>5. fsm' \in FsmType /\ fsm'.stop = fsm.stop
  BY <1>1, <1>2 DEF FsmType
<1>6. LeaderGone'
  BY <1>2 DEF LeaderGone, guardVars
<1>7. WatchHolds'
  BY <1>4, <1>6 DEF WatchHolds
<1>8. HaltHolds'
  BY <1>1, <1>2, <1>4, <1>5 DEF HaltHolds
<1>9. WatchingHolds'
  BY <1>4 DEF WatchingHolds
<1>10. QED
  BY <1>1, <1>2, <1>3, <1>4, <1>5, <1>7, <1>8, <1>9, TaskStepPreserves

\* The launch of what was admitted: nothing else survived, so it is the only one,
\* and it is in _captures under the broadcast the controller calls current.
LEMMA LaunchedPreserves ==
  ASSUME ChannelIInv, LaunchSucceeds \/ LaunchRaises
  PROVE  ChannelIInv'
<1> DEFINE g == watch.take.capture
           t == [watch.take EXCEPT !.id = chan.current]
<1>1. /\ ChannelTypeOK /\ GuardInv /\ OneCapture /\ DownForgets /\ TakeHolds /\ WatchHolds
      /\ HaltHolds /\ ServiceHolds /\ OwnedUntilGone /\ AdmissionHolds /\ CommandsAreAttended
  BY DEF ChannelIInv, ChannelInv, CapturesAreReachable
<1>2. /\ chan \in ChannelType /\ fsm \in FsmType /\ watch \in WatchType /\ GuardTypeOK
      /\ watch.pc = "admitted" /\ ~watch.cancelled
      /\ UNCHANGED <<respawn, svc, halt>>
  BY <1>1 DEF ChannelTypeOK, FsmType, WatchType, LaunchSucceeds, LaunchRaises
<1>3. /\ g \in Captures /\ group[g] = "admitted" /\ ~Active(chan) /\ Up
      /\ watch.take.id = chan.current /\ chan.current # NoBroadcast
      /\ chan.observed = chan.current /\ chan.current \in MaybeId
  BY <1>1, <1>2, TasksRun DEF AdmissionHolds, WatchHolds, ChannelType
<1>4. t \in TakeType /\ t.capture = g /\ t.id = chan.current /\ t # NoTake
  <2>1. t \in TakeType /\ t.capture = g /\ t.id = chan.current
    BY <1>2, <1>3 DEF WatchType, TakeType
  <2>2. QED
    BY <1>3, <2>1, NothingCaptured
<1> DEFINE c == [chan EXCEPT !.take = t]
           o == Observe(c, chan.current)
<1> HIDE DEF t
<1>5. GuardStep(g) /\ mine' = mine /\ (Up' <=> Up)
      /\ \E after \in {"absent", "live", "orphaned"} : group' = [group EXCEPT ![g] = after]
  <2>1. \/ LaunchRecorded(g) \/ LaunchVanishes(g) \/ LaunchEscapes(g)
        \/ LaunchFails(g) \/ LaunchUnheard(g)
    BY DEF LaunchSucceeds, LaunchRaises
  <2>2. GuardStep(g)
    BY <2>1 DEF GuardStep
  <2>3. mine' = mine /\ \E after \in {"absent", "live", "orphaned"} :
                             group' = [group EXCEPT ![g] = after]
    BY <2>1 DEF LaunchRecorded, LaunchVanishes, LaunchEscapes, LaunchFails, LaunchUnheard
  <2>4. guard'.phase = guard.phase
    BY <1>2, <2>1 DEF LaunchRecorded, LaunchVanishes, LaunchEscapes, LaunchFails,
                      LaunchUnheard, GuardTypeOK
  <2>5. QED
    BY <2>2, <2>3, <2>4 DEF Up
<1>6. GuardInv' /\ Up'
  BY <1>1, <1>3, <1>5, GuardStepPreserves
<1>7. \A h \in Captures : ~Survives(h)
  <2>1. g \in mine /\ \A h \in Captures \ mine : group[h] = "absent"
    BY <1>1, <1>3 DEF GuardInv, AdmissionsAreMine, SurvivorsRefuse
  <2>2. \A h \in mine : ~Survives(h)
    BY <1>1, <1>2, <1>3 DEF OwnedUntilGone, Active, GuardTypeOK
  <2>3. QED
    BY <2>1, <2>2 DEF Survives
<1>8. \A h \in Captures : /\ Survives(h)' => h = g
                          /\ group'[h] # "admitted"
  <2>1. PICK after \in {"absent", "live", "orphaned"} : group' = [group EXCEPT ![g] = after]
    BY <1>5
  <2>2. \A h \in Captures : group'[h] = IF h = g THEN after ELSE group[h]
    BY <1>2, <2>1 DEF GuardTypeOK
  <2>3. \A h \in Captures : h # g => ~Survives(h) /\ group[h] # "admitted"
    BY <1>1, <1>7 DEF AdmissionHolds
  <2>4. QED
    BY <2>2, <2>3 DEF Survives
<1>9. /\ c \in ChannelType /\ c.take = t /\ c.blocked = chan.blocked
      /\ c.observed = chan.observed /\ OnlyTheTake(chan, c)
  <2>1. c \in ChannelType
    BY <1>2, <1>4 DEF ChannelType
  <2>2. QED
    BY <1>2, <2>1 DEF ChannelType, OnlyTheTake, Fixed
<1> HIDE DEF c
<1>10. /\ o \in ChannelType /\ o.take = t /\ o.blocked = chan.blocked
       /\ o.observed = chan.current /\ OnlyTheTake(chan, o)
  <2>1. o \in ChannelType /\ o.take = t /\ o.blocked = chan.blocked
        /\ o.observed = chan.current /\ OnlyTheTake(c, o)
    BY <1>3, <1>9, ObserveGives
  <2>2. QED
    BY <1>9, <2>1 DEF OnlyTheTake, Fixed
<1> HIDE DEF o
<1>11. \A d \in {c, o} : LET e == [d EXCEPT !.blocked = TRUE]
                         IN  /\ e \in ChannelType /\ e.take = d.take /\ e.observed = d.observed
                             /\ OnlyTheTake(d, e)
  <2> SUFFICES ASSUME NEW d \in ChannelType
               PROVE  LET e == [d EXCEPT !.blocked = TRUE]
                      IN  /\ e \in ChannelType /\ e.take = d.take /\ e.observed = d.observed
                          /\ OnlyTheTake(d, e)
    BY <1>9, <1>10
  <2>1. [d EXCEPT !.blocked = TRUE] \in ChannelType
    BY DEF ChannelType
  <2>2. QED
    BY <2>1 DEF ChannelType, OnlyTheTake, Fixed
<1>12. /\ chan' \in ChannelType /\ chan'.take = t /\ chan'.observed = chan.current
       /\ OnlyTheTake(chan, chan')
  <2>1. chan' \in {c, o, [c EXCEPT !.blocked = TRUE], [o EXCEPT !.blocked = TRUE]}
    <3>1. CASE LaunchSucceeds
      BY <3>1 DEF LaunchSucceeds, c, o, t
    <3>2. CASE LaunchRaises
      BY <3>2 DEF LaunchRaises, c, t
    <3>3. QED
      BY <3>1, <3>2
  <2>2. c.observed = chan.current
    BY <1>3, <1>9
  <2>3. CASE chan' \in {c, o}
    BY <1>9, <1>10, <2>2, <2>3
  <2>4. CASE chan' = [c EXCEPT !.blocked = TRUE]
    BY <1>9, <1>11, <2>2, <2>4 DEF OnlyTheTake, Fixed
  <2>5. CASE chan' = [o EXCEPT !.blocked = TRUE]
    BY <1>10, <1>11, <2>5 DEF OnlyTheTake, Fixed
  <2>6. QED
    BY <2>1, <2>3, <2>4, <2>5
<1>13. /\ watch' \in WatchType /\ watch'.pc \in {"wait", "raised"} /\ ~watch'.cancelled
       /\ fsm' \in FsmType /\ fsm'.stop = fsm.stop
  <2>1. \/ watch' = [watch EXCEPT !.pc = "wait", !.take = NoTake]
        \/ watch' = [watch EXCEPT !.pc = "raised", !.take = NoTake]
    BY DEF LaunchSucceeds, LaunchRaises
  <2>2. fsm' = fsm \/ fsm' = [fsm EXCEPT !.rec = TRUE]
    BY DEF LaunchSucceeds, LaunchRaises
  <2>3. watch' \in WatchType /\ watch'.pc \in {"wait", "raised"} /\ ~watch'.cancelled
    BY <1>2, <2>1, NothingCaptured DEF WatchType
  <2>4. QED
    BY <1>2, <2>2, <2>3 DEF FsmType
<1>14. ServiceHolds' /\ CommandsAreAttended'
  BY <1>1, <1>2, <1>3, <1>12 DEF ServiceHolds, CommandsAreAttended, OnlyTheTake, Fixed
<1>15. ChannelTypeOK' /\ NoCaptureBesideSurvivor' /\ OneCapture' /\ DownForgets'
  <2>1. GuardTypeOK' /\ NoCaptureBesideSurvivor'
    BY <1>6 DEF GuardInv, SurvivorsRefuse, NoCaptureBesideSurvivor, Survives
  <2>2. ChannelTypeOK'
    BY <1>1, <1>2, <1>12, <1>13, <2>1 DEF ChannelTypeOK, FsmType, WatchType
  <2>3. OneCapture' /\ DownForgets'
    BY <1>6, <1>8 DEF OneCapture, DownForgets
  <2>4. QED
    BY <2>1, <2>2, <2>3
<1>16. TakeHolds' /\ CaptureIsStoppable' /\ OwnedUntilGone'
  <2>1. chan'.current = chan.current
    BY <1>12 DEF OnlyTheTake
  <2>2. TakeHolds' /\ CaptureIsStoppable'
    BY <1>3, <1>4, <1>12, <2>1 DEF TakeHolds, CaptureIsStoppable
  <2>3. \A h \in mine' : h \in Captures
    BY <1>6 DEF GuardInv, GuardTypeOK
  <2>4. OwnedUntilGone'
    BY <1>4, <1>8, <1>12, <2>3 DEF OwnedUntilGone
  <2>5. QED
    BY <2>2, <2>4
<1>17. AdmissionHolds' /\ WatchHolds' /\ WatchingHolds'
  BY <1>8, <1>13 DEF AdmissionHolds, WatchHolds, WatchingHolds
<1>18. HaltHolds'
  <2>1. halt.pc \notin {"groups", "clean", "unclean"}
    BY <1>1, <1>2 DEF HaltHolds
  <2>2. QED
    BY <1>1, <1>2, <1>13, <2>1 DEF HaltHolds
<1>19. DecisionsAreKept'
  <2> SUFFICES ASSUME NEW id \in Ids, Captured(id)', ~chan'.stopping
               PROVE  /\ Suppressed(chan, id)' => chan'.scope = id
                      /\ chan'.mode = "paused" => id \in {chan'.continuing, chan'.scope}
    BY DEF DecisionsAreKept, SuppressedIsNotCaptured, PausedRecordsItsScope
  <2>1. id = chan.current
    BY <1>4, <1>12 DEF Captured
  <2>2. /\ chan'.stopping = chan.stopping /\ chan'.suppressed = chan.suppressed
        /\ chan'.scope = chan.scope /\ chan'.mode = chan.mode
        /\ chan'.continuing = chan.continuing
    BY <1>12 DEF OnlyTheTake, Fixed
  <2>3. /\ Suppressed(chan, id) => chan.scope = id
        /\ chan.mode = "paused" => id \in {chan.continuing, chan.scope}
    BY <1>1, <1>2, <2>1, <2>2 DEF AdmissionHolds
  <2>4. QED
    BY <2>2, <2>3 DEF Suppressed
<1>20. QED
  BY <1>6, <1>14, <1>15, <1>16, <1>17, <1>18, <1>19
     DEF ChannelIInv, ChannelInv, CapturesAreReachable

-----------------------------------------------------------------------------
(***************************************************************************)
(* What the metadata leads to.                                             *)
(***************************************************************************)
LEMMA AtMetadataFacts ==
  ASSUME ChannelIInv, AtMetadata
  PROVE  /\ chan \in ChannelType /\ fsm \in FsmType /\ watch \in WatchType /\ Up
         /\ watch.pc = "meta" /\ ~watch.cancelled /\ ~Active(chan) /\ LeaderGone
         /\ Scopes(chan) /\ Heard(chan) /\ watch.pc # "none"
<1>1. /\ fsm \in FsmType /\ watch \in WatchType /\ WatchHolds
  BY DEF ChannelIInv, ChannelInv, ChannelTypeOK, FsmType, WatchType
<1>2. watch.pc = "meta" /\ ~watch.cancelled /\ ~Active(chan)
  BY <1>1 DEF AtMetadata, WatchHolds
<1>3. Up
  BY <1>2, TasksRun
<1>4. LeaderGone
  BY <1>2 DEF Active, LeaderGone, Survives
<1>5. QED
  BY <1>1, <1>2, <1>3, <1>4, ChannelIsHeard

\* The scopes change with the broadcast: a scope of another one ends.
LEMMA ScopedGives ==
  ASSUME chan \in ChannelType, Scopes(chan), NEW id \in Ids
  PROVE  LET c == Scoped(id)
         IN  /\ c \in ChannelType /\ Fixed(chan, c) /\ Onward(chan, c) /\ Scopes(c)
             /\ c.take = chan.take /\ c.blocked = chan.blocked /\ c.current = chan.current
             /\ c.continuing = (IF chan.continuing = id THEN id ELSE NoBroadcast)
             /\ OnceFor(id) => c.scope = id
<1> DEFINE n == Named(id)
           f == FinishOnce(chan, "succeeded")
           u == IF OnceFor(id) THEN n ELSE f
           k == IF chan.continuing = id THEN id ELSE NoBroadcast
           c == Scoped(id)
<1>1. id \in MaybeId /\ NoBroadcast \in MaybeId /\ "succeeded" \in Settled
  BY DEF MaybeId, Settled
<1>2. /\ n \in ChannelType /\ Fixed(chan, n) /\ n.once = chan.once /\ n.cmd = chan.cmd
      /\ Scopes(n) /\ n.take = chan.take /\ n.blocked = chan.blocked
      /\ n.current = chan.current /\ n.continuing = chan.continuing
  <2>1. CASE chan.once # NoCommand /\ chan.scope = NoBroadcast
    <3>1. n = [chan EXCEPT !.scope = id]
      BY <2>1 DEF Named
    <3>2. QED
      BY <1>1, <2>1, <3>1 DEF ChannelType, Fixed, Scopes
  <2>2. CASE ~(chan.once # NoCommand /\ chan.scope = NoBroadcast)
    <3>1. n = chan
      BY <2>2 DEF Named
    <3>2. QED
      BY <3>1 DEF Fixed
  <2>3. QED
    BY <2>1, <2>2
<1>3. /\ f \in ChannelType /\ OnceSettled(chan, f) /\ Fixed(chan, f)
      /\ f.continuing = chan.continuing
      /\ f.current = chan.current /\ f.blocked = chan.blocked /\ f.take = chan.take
  BY <1>1, FinishOnceGives
<1> HIDE DEF n, f
<1>4. /\ u \in ChannelType /\ Fixed(chan, u) /\ Onward(chan, u) /\ Scopes(u)
      /\ u.take = chan.take /\ u.blocked = chan.blocked
      /\ u.current = chan.current /\ u.continuing = chan.continuing
  <2>1. CASE OnceFor(id)
    <3>1. OnceKept(chan, n)
      BY <1>2 DEF OnceKept, Scopes
    <3>2. QED
      BY <1>2, <2>1, <3>1 DEF Onward
  <2>2. CASE ~OnceFor(id)
    <3>1. Scopes(f)
      BY <1>3 DEF OnceSettled, Scopes
    <3>2. QED
      BY <1>3, <2>2, <3>1 DEF Onward
  <2>3. QED
    BY <2>1, <2>2
<1>5. OnceFor(id) => u.scope = id
  BY DEF OnceFor, n
<1> HIDE DEF u
<1>6. c = [u EXCEPT !.continuing = k]
  BY <1>4 DEF Scoped, u, n, f
<1>7. /\ c \in ChannelType /\ c.continuing = k /\ c.mode = u.mode
      /\ c.suppressed = u.suppressed /\ c.stopping = u.stopping /\ c.once = u.once
      /\ c.cmd = u.cmd /\ c.scope = u.scope /\ c.take = u.take /\ c.blocked = u.blocked
      /\ c.current = u.current
  <2>1. k \in MaybeId
    BY <1>1
  <2> HIDE DEF k, c
  <2>2. c \in ChannelType
    BY <1>4, <1>6, <2>1 DEF ChannelType
  <2>3. QED
    BY <1>4, <1>6, <2>2 DEF ChannelType
<1> HIDE DEF k
<1>8. Fixed(chan, c) /\ Onward(chan, c) /\ Scopes(c)
  BY <1>4, <1>7 DEF Fixed, Onward, OnceKept, OnceSettled, Scopes
<1>9. QED
  BY <1>4, <1>5, <1>7, <1>8 DEF k

\* Nobody records what is neither current nor observed by a provider.
LEMMA IdsAreIds ==
  ASSUME ChannelIInv, NEW b \in Broadcasts, NEW id \in IdsOf(b)
  PROVE  id \in Ids /\ id \in MaybeId /\ id # NoBroadcast
<1>1. chan \in ChannelType
  BY DEF ChannelIInv, ChannelInv, ChannelTypeOK
<1>2. id \in Ids
  BY <1>1 DEF IdsOf, Fresh, Ids, ChannelType, MaybeId
<1>3. QED
  BY <1>2, ChannelAssumption DEF Ids, MaybeId

\* A record that differs only in what was observed, or in the current broadcast.
LEMMA HeardWith ==
  ASSUME NEW c, Heard(c), NEW cur \in MaybeId, NEW obs \in MaybeId, NEW con \in {c.continuing, NoBroadcast}
  PROVE  Heard([c EXCEPT !.current = cur, !.observed = obs, !.continuing = con])
<1> DEFINE d == [c EXCEPT !.current = cur, !.observed = obs, !.continuing = con]
<1>1. c \in ChannelType /\ con \in MaybeId
  BY DEF Heard, ChannelType, MaybeId
<1>2. d \in ChannelType
  BY <1>1 DEF ChannelType
<1>3. /\ d.mode = c.mode /\ d.suppressed = c.suppressed /\ d.stopping = c.stopping
      /\ d.once = c.once /\ d.cmd = c.cmd /\ d.scope = c.scope /\ d.take = c.take
      /\ d.blocked = c.blocked /\ d.continuing = con
  BY <1>1 DEF ChannelType
<1> HIDE DEF d
<1>4. Fixed(chan, d) /\ Onward(chan, d) /\ Scopes(d)
  BY <1>3 DEF Heard, Fixed, Onward, OnceKept, OnceSettled, Scopes
<1>5. Heard(d)
  BY <1>2, <1>3, <1>4 DEF Heard
<1>6. QED
  BY <1>5 DEF d

LEMMA HeardObserve ==
  ASSUME NEW c, Heard(c), NEW id \in MaybeId
  PROVE  Heard(Observe(c, id))
<1>1. c \in ChannelType /\ c.current \in MaybeId
  BY DEF Heard, ChannelType
<1>2. Observe(c, id) = [c EXCEPT !.current = c.current, !.observed = id,
                                 !.continuing = c.continuing]
  BY <1>1 DEF Observe, ChannelType
<1> DEFINE con == c.continuing
<1>3. con \in {c.continuing, NoBroadcast}
  OBVIOUS
<1> HIDE DEF con
<1>4. Heard([c EXCEPT !.current = c.current, !.observed = id, !.continuing = con])
  BY <1>1, <1>3, HeardWith
<1>5. QED
  BY <1>2, <1>4 DEF con

LEMMA HeardFinish ==
  ASSUME NEW c, Heard(c), NEW s \in Settled
  PROVE  Heard(FinishOnce(c, s))
<1> DEFINE d == FinishOnce(c, s)
<1>1. /\ d \in ChannelType /\ OnceSettled(c, d) /\ Fixed(c, d)
      /\ d.continuing = c.continuing /\ d.blocked = c.blocked /\ d.take = c.take
  BY FinishOnceGives DEF Heard
<1> HIDE DEF d
<1>2. Onward(chan, d)
  <2>1. Onward(c, d)
    BY <1>1 DEF Onward
  <2>2. QED
    BY <2>1, OnwardComposes DEF Heard
<1>3. Fixed(chan, d) /\ Scopes(d)
  BY <1>1 DEF Heard, Fixed, OnceSettled, Scopes
<1>4. Heard(d)
  BY <1>1, <1>2, <1>3 DEF Heard
<1>5. QED
  BY <1>4 DEF d

\* A session that ends before anything was launched.
LEMMA IdleSessionEnds ==
  ASSUME ChannelIInv, AtMetadata, NEW c, Heard(c), SessionEnds(c, "OFFLINE"),
         UNCHANGED <<guardVars, svc, halt>>
  PROVE  ChannelIInv'
<1>1. watch.pc = "meta" /\ ~Active(chan) /\ LeaderGone /\ watch.pc # "none"
  BY AtMetadataFacts
<1>2. Withdrawn /\ GuardInv'
  BY <1>1, NothingWithdrawn
<1>3. "OFFLINE" \in Outcomes
  BY DEF Outcomes
<1>4. QED
  BY <1>1, <1>2, <1>3, SessionEndsPreserves

LEMMA NotAdmittedPreserves ==
  ASSUME ChannelIInv,
         \/ AdmissionHindered \/ FindsOffline
         \/ \E b \in Broadcasts : \E id \in IdsOf(b) : LiveNotAdmitted(id)
  PROVE  ChannelIInv'
<1>1. AtMetadata /\ UNCHANGED <<guardVars, svc, halt>>
  BY DEF AdmissionHindered, FindsOffline, LiveNotAdmitted
<1>2. chan \in ChannelType /\ Heard(chan) /\ Scopes(chan) /\ NoBroadcast \in MaybeId
      /\ chan.current \in MaybeId
  BY <1>1, AtMetadataFacts DEF ChannelType, MaybeId
<1>3. {"blocked", "failed", "succeeded"} \subseteq Settled
  BY DEF Settled
<1>4. CASE AdmissionHindered
  <2> DEFINE c == IF chan.stopping THEN chan
                  ELSE FinishOnce(Observe(chan, chan.current), "blocked")
  <2>1. Heard(Observe(chan, chan.current))
    BY <1>2, HeardObserve
  <2>2. Heard(FinishOnce(Observe(chan, chan.current), "blocked"))
    BY <1>3, <2>1, HeardFinish
  <2>3. Heard(c)
    BY <1>2, <2>2
  <2>4. SessionEnds(c, "OFFLINE")
    BY <1>4 DEF AdmissionHindered
  <2> HIDE DEF c
  <2>5. QED
    BY <1>1, <2>3, <2>4, IdleSessionEnds
<1>5. CASE FindsOffline
  <2>1. CASE SessionEnds(Observe(chan, NoBroadcast), "OFFLINE")
    <3>1. Heard(Observe(chan, NoBroadcast))
      BY <1>2, HeardObserve
    <3>2. QED
      BY <1>1, <2>1, <3>1, IdleSessionEnds
  <2>2. CASE ~SessionEnds(Observe(chan, NoBroadcast), "OFFLINE")
    <3> DEFINE how  == IF chan.scope = NoBroadcast THEN "failed" ELSE "succeeded"
               over == FinishOnce(chan, how)
               c    == [over EXCEPT !.current = NoBroadcast, !.observed = NoBroadcast,
                                    !.continuing = NoBroadcast]
    <3>1. how \in Settled
      BY <1>3
    <3> HIDE DEF how
    <3>2. Heard(over)
      BY <1>2, <3>1, HeardFinish
    <3>3. SessionEnds(c, "OFFLINE")
      BY <1>5, <2>2 DEF FindsOffline, how
    <3> HIDE DEF over
    <3>4. Heard(c)
      BY <1>2, <3>2, HeardWith
    <3> HIDE DEF c
    <3>5. QED
      BY <1>1, <3>3, <3>4, IdleSessionEnds
  <2>3. QED
    BY <2>1, <2>2
<1>6. CASE \E b \in Broadcasts : \E id \in IdsOf(b) : LiveNotAdmitted(id)
  <2>b. PICK b \in Broadcasts : \E id \in IdsOf(b) : LiveNotAdmitted(id)
    BY <1>6
  <2>1. PICK id \in IdsOf(b) : LiveNotAdmitted(id)
    BY <2>b
  <2>2. id \in Ids /\ id \in MaybeId
    BY IdsAreIds
  <2> DEFINE c == Scoped(id)
             d == [c EXCEPT !.current = NoBroadcast]
  <2>3. /\ c \in ChannelType /\ Fixed(chan, c) /\ Onward(chan, c) /\ Scopes(c)
        /\ c.take = chan.take /\ c.blocked = chan.blocked
        /\ c.continuing = (IF chan.continuing = id THEN id ELSE NoBroadcast)
    BY <1>2, <2>2, ScopedGives
  <2>4. \/ SessionEnds(Observe(c, id), "OFFLINE")
        \/ SessionEnds(Observe(d, NoBroadcast), "OFFLINE")
        \/ SessionEnds(FinishOnce(Observe(c, id), "blocked"), "OFFLINE")
    BY <2>1 DEF LiveNotAdmitted
  <2> HIDE DEF c
  <2>5. Heard(c)
    BY <2>3 DEF Heard
  <2>6. Heard(Observe(c, id))
    BY <2>2, <2>5, HeardObserve
  <2>7. Heard(FinishOnce(Observe(c, id), "blocked"))
    BY <1>3, <2>6, HeardFinish
  <2>8. Heard(Observe(d, NoBroadcast))
    <3>1. d = [c EXCEPT !.current = NoBroadcast, !.observed = c.observed,
                        !.continuing = c.continuing] /\ c.observed \in MaybeId
      BY <2>3 DEF ChannelType
    <3>2. Heard(d)
      BY <1>2, <2>5, <3>1, HeardWith
    <3> HIDE DEF d
    <3>3. QED
      BY <1>2, <3>2, HeardObserve
  <2> HIDE DEF d
  <2>9. QED
    BY <1>1, <2>4, <2>6, <2>7, <2>8, IdleSessionEnds
<1>7. QED
  BY <1>4, <1>5, <1>6

LEMMA VerdictIsAnOutcome == Verdict \in Outcomes
BY DEF Verdict, Outcomes

LEMMA AttemptEndsPreserves ==
  ASSUME ChannelIInv, LaunchSkipped \/ WatchCompletes \/ WatchRaises \/ WatchCancelled
  PROVE  ChannelIInv'
<1>1. /\ GuardInv /\ GuardTypeOK /\ WatchHolds /\ AdmissionHolds
  BY DEF ChannelIInv, ChannelInv, GuardInv
<1>2. watch.pc \in {"meta", "admitted", "wait", "raised", "drain"} /\ UNCHANGED <<svc, halt>>
  BY DEF LaunchSkipped, WatchCompletes, WatchRaises, WatchCancelled
<1>3. watch.pc # "none" /\ Heard(chan)
  BY <1>2, ChannelIsHeard
<1>4. LeaderGone
  <2>1. CASE LaunchSkipped
    BY <1>1, <2>1 DEF LaunchSkipped, WatchHolds, Active, LeaderGone, Survives
  <2>2. CASE WatchCompletes
    BY <1>1, <2>2 DEF WatchCompletes, WatchHolds
  <2>3. CASE WatchRaises \/ WatchCancelled
    BY <2>3 DEF WatchRaises, WatchCancelled
  <2>4. QED
    BY <2>1, <2>2, <2>3
<1>5. PICK o \in Outcomes : SessionEnds(chan, o)
  <2>1. CASE LaunchSkipped
    <3>1. {"OFFLINE", "RETRYABLE_ERROR", "DISABLED"} \subseteq Outcomes
      BY DEF Outcomes
    <3>2. QED
      BY <2>1, <3>1 DEF LaunchSkipped
  <2>2. CASE WatchRaises
    <3>1. "RETRYABLE_ERROR" \in Outcomes
      BY DEF Outcomes
    <3>2. QED
      BY <2>2, <3>1 DEF WatchRaises
  <2>3. CASE WatchCompletes \/ WatchCancelled
    BY <2>3, VerdictIsAnOutcome DEF WatchCompletes, WatchCancelled
  <2>4. QED
    BY <2>1, <2>2, <2>3
<1>6. Withdrawn /\ GuardInv'
  <2>1. CASE watch.pc = "admitted"
    <3> DEFINE g == watch.take.capture
    <3>1. g \in Captures /\ Withdraw(g)
      BY <1>1, <2>1 DEF AdmissionHolds, LaunchSkipped, WatchCompletes, WatchRaises, WatchCancelled
    <3>2. GuardInv'
      BY <1>1, <3>1, GuardStepPreserves DEF GuardStep
    <3>3. /\ guard' = guard /\ mine' = mine /\ group[g] = "admitted"
          /\ \A h \in Captures : group'[h] = IF h = g THEN "absent" ELSE group[h]
      BY <1>1, <3>1 DEF Withdraw, GuardTypeOK
    <3>4. \A h \in Captures : group[h] = "admitted" => h = g
      BY <1>1 DEF AdmissionHolds
    <3>5. QED
      BY <3>2, <3>3, <3>4 DEF Withdrawn
  <2>2. CASE watch.pc # "admitted"
    <3>1. UNCHANGED guardVars
      BY <2>2 DEF LaunchSkipped, WatchCompletes, WatchRaises, WatchCancelled
    <3>2. QED
      BY <2>2, <3>1, NothingWithdrawn
  <2>3. QED
    BY <2>1, <2>2
<1>7. QED
  BY <1>2, <1>3, <1>4, <1>5, <1>6, SessionEndsPreserves

\* The admission: nothing runs before it, and its broadcast is wanted.
LEMMA LiveAdmittedPreserves ==
  ASSUME ChannelIInv, NEW b \in Broadcasts, NEW id \in IdsOf(b), NEW g \in Captures,
         LiveAdmitted(b, id, g)
  PROVE  ChannelIInv'
<1> DEFINE c == Scoped(id)
           d == [c EXCEPT !.current = id]
           e == Observe(d, id)
           t == [capture |-> g, id |-> id, of |-> b]
<1>1. /\ ChannelTypeOK /\ GuardInv /\ GuardTypeOK /\ OneCapture /\ DownForgets /\ TakeHolds
      /\ WatchHolds /\ HaltHolds /\ ServiceHolds /\ OwnedUntilGone /\ AdmissionHolds
      /\ CommandsAreAttended
  BY DEF ChannelIInv, ChannelInv, CapturesAreReachable, GuardInv
<1>2. AtMetadata /\ ~Hindered /\ ~Barred(id) /\ ~Unwanted(id) /\ Admit(g)
      /\ chan' = e /\ UNCHANGED <<fsm, respawn, svc, halt>>
      /\ watch' = [watch EXCEPT !.pc = "admitted", !.take = t]
  BY DEF LiveAdmitted
<1>3. /\ chan \in ChannelType /\ fsm \in FsmType /\ watch \in WatchType /\ Up
      /\ watch.pc = "meta" /\ ~watch.cancelled /\ ~Active(chan) /\ Scopes(chan)
  BY <1>2, AtMetadataFacts
<1>4. id \in Ids /\ id \in MaybeId /\ id # NoBroadcast
  BY IdsAreIds
<1>5. /\ c \in ChannelType /\ Fixed(chan, c) /\ Onward(chan, c) /\ Scopes(c)
      /\ c.take = chan.take /\ c.blocked = chan.blocked
      /\ c.continuing = (IF chan.continuing = id THEN id ELSE NoBroadcast)
      /\ OnceFor(id) => c.scope = id
  BY <1>3, <1>4, ScopedGives
<1>6. t \in TakeType /\ t.capture = g /\ t.id = id
  BY <1>4 DEF TakeType
<1> HIDE DEF c, t
<1>7. /\ d \in ChannelType /\ Fixed(c, d) /\ OnceKept(c, d) /\ d.current = id
      /\ d.take = c.take /\ d.blocked = c.blocked /\ d.continuing = c.continuing
      /\ d.scope = c.scope
  <2>1. d \in ChannelType
    BY <1>4, <1>5 DEF ChannelType
  <2>2. QED
    BY <1>5, <2>1 DEF ChannelType, Fixed, OnceKept, Scopes
<1> HIDE DEF d
<1>8. /\ e \in ChannelType /\ OnlyTheTake(d, e) /\ e.observed = id
      /\ e.blocked = d.blocked /\ e.take = d.take
  BY <1>4, <1>7, ObserveGives
<1>9. /\ Fixed(chan, e) /\ Onward(chan, e) /\ Scopes(e) /\ e.take = chan.take
      /\ e.blocked = chan.blocked /\ e.current = id /\ e.observed = id
      /\ e.continuing = (IF chan.continuing = id THEN id ELSE NoBroadcast)
      /\ OnceFor(id) => e.scope = id
  BY <1>5, <1>7, <1>8 DEF Fixed, Onward, OnceKept, OnceSettled, Scopes, OnlyTheTake
<1> HIDE DEF e
<1>10. chan' = e /\ Up' /\ mine' = mine \cup {g} /\ ~guard.refused /\ guard' = guard
       /\ group' = [group EXCEPT ![g] = "admitted"]
  BY <1>2, <1>3 DEF Admit, Up
<1>11. GuardInv'
  BY <1>1, <1>2, GuardStepPreserves DEF GuardStep
<1>12. \A h \in Captures : /\ ~Survives(h)'
                           /\ group'[h] = "admitted" <=> h = g
  <2>1. \A h \in Captures \ mine : group[h] = "absent"
    BY <1>1, <1>3, <1>10 DEF GuardInv, SurvivorsRefuse
  <2>2. \A h \in mine : ~Survives(h)
    BY <1>1, <1>3 DEF OwnedUntilGone, Active, GuardTypeOK
  <2>3. \A h \in Captures : ~Survives(h) /\ group[h] # "admitted"
    BY <1>1, <1>3, <2>1, <2>2 DEF AdmissionHolds, Survives
  <2>4. \A h \in Captures : group'[h] = IF h = g THEN "admitted" ELSE group[h]
    BY <1>1, <1>10 DEF GuardTypeOK
  <2>5. QED
    BY <2>3, <2>4 DEF Survives
<1>13. ~Active(chan)'
  BY <1>12 DEF Active
<1>14. /\ watch' \in WatchType /\ watch'.pc = "admitted" /\ ~watch'.cancelled
       /\ watch'.take = t
  BY <1>2, <1>3, <1>6 DEF WatchType
<1>15. ServiceHolds' /\ CommandsAreAttended'
  <2>1. e.continuing \in {chan.continuing, NoBroadcast} /\ svc' = svc
    BY <1>2, <1>9
  <2>2. QED
    BY <1>1, <1>3, <1>9, <1>10, <2>1, OnwardKeepsTheRequests
<1>16. ~chan.stopping /\ ~chan.blocked
  BY <1>2 DEF Hindered
<1>17. fsm.state # "STOPPED"
  <2>1. svc.op # "pause"
    <3> SUFFICES ASSUME svc.op = "pause" PROVE FALSE
      OBVIOUS
    <3>1. chan.mode = "paused" /\ chan.once = NoCommand /\ chan.continuing = NoBroadcast
      BY <1>1 DEF ServiceHolds
    <3>2. QED
      BY <1>2, <1>4, <3>1 DEF Unwanted, OnceFor
  <2>2. QED
    BY <1>1, <1>3, <1>16, <2>1 DEF WatchHolds
<1>18. AdmissionHolds'
  <2>1. Suppressed(chan, id)' => Suppressed(chan, id)
    BY <1>9, <1>10 DEF Suppressed, Fixed
  <2>2. Suppressed(chan, id) => e.scope = id
    BY <1>2, <1>9 DEF Barred
  <2>3. e.mode = "paused" => id \in {e.continuing, e.scope}
    BY <1>2, <1>9 DEF Unwanted, Fixed
  <2>4. /\ watch'.take.capture = g /\ watch'.take.id = id /\ watch'.pc = "admitted"
        /\ chan'.current = id /\ chan'.observed = id /\ ~chan'.blocked
        /\ fsm'.state # "STOPPED"
    BY <1>2, <1>6, <1>9, <1>10, <1>14, <1>16, <1>17
  <2>5. Suppressed(chan, chan.current)' => chan'.scope = chan'.current
    BY <1>10, <2>1, <2>2, <2>4 DEF Suppressed
  <2>6. chan'.mode = "paused" => chan'.current \in {chan'.continuing, chan'.scope}
    BY <1>10, <2>3, <2>4
  <2>7. QED
    BY <1>4, <1>12, <2>4, <2>5, <2>6 DEF AdmissionHolds
<1>19. WatchHolds' /\ WatchingHolds'
  BY <1>1, <1>2, <1>3, <1>13, <1>14 DEF WatchHolds, WatchingHolds
<1>20. HaltHolds'
  BY <1>1, <1>2, <1>3, <1>9, <1>10, <1>14 DEF HaltHolds
<1>21. ChannelTypeOK' /\ NoCaptureBesideSurvivor' /\ OneCapture' /\ DownForgets'
  <2>1. GuardTypeOK' /\ NoCaptureBesideSurvivor'
    BY <1>11 DEF GuardInv, SurvivorsRefuse, NoCaptureBesideSurvivor, Survives
  <2>2. ChannelTypeOK'
    BY <1>1, <1>2, <1>8, <1>10, <1>14, <2>1 DEF ChannelTypeOK, WatchType
  <2>3. OneCapture' /\ DownForgets'
    BY <1>10, <1>12 DEF OneCapture, DownForgets
  <2>4. QED
    BY <2>1, <2>2, <2>3
<1>22. TakeHolds' /\ CaptureIsStoppable' /\ OwnedUntilGone'
  <2>1. \A h \in mine' : h \in Captures
    BY <1>11 DEF GuardInv, GuardTypeOK
  <2>2. QED
    BY <1>1, <1>9, <1>10, <1>12, <1>13, <2>1 DEF TakeHolds, CaptureIsStoppable, OwnedUntilGone
<1>23. DecisionsAreKept'
  BY <1>13 DEF DecisionsAreKept, SuppressedIsNotCaptured, PausedRecordsItsScope, Captured
<1>24. QED
  BY <1>11, <1>15, <1>18, <1>19, <1>20, <1>21, <1>22, <1>23
     DEF ChannelIInv, ChannelInv, CapturesAreReachable

-----------------------------------------------------------------------------
(***************************************************************************)
(* The application: what it forgets, and what it begins with.              *)
(***************************************************************************)

\* A record of which the memory is lost.
Blank(c) ==
    /\ c \in ChannelType /\ c.once = NoCommand /\ c.scope = NoBroadcast
    /\ c.continuing = NoBroadcast /\ c.current = NoBroadcast /\ ~c.stopping
    /\ ~c.blocked /\ c.take = NoTake

LEMMA ForgottenIsBlank == chan \in ChannelType => Blank(Forgotten)
<1> SUFFICES ASSUME chan \in ChannelType PROVE Blank(Forgotten)
  OBVIOUS
<1> DEFINE f == Forgotten
<1>1. f = [chan EXCEPT !.once = NoCommand, !.scope = NoBroadcast,
                       !.continuing = NoBroadcast, !.current = NoBroadcast,
                       !.stopping = FALSE, !.blocked = FALSE, !.take = NoTake]
  BY DEF Forgotten
<1> HIDE DEF f
<1>2. f \in ChannelType
  BY <1>1, NothingCaptured DEF ChannelType
<1>3. /\ f.once = NoCommand /\ f.scope = NoBroadcast /\ f.continuing = NoBroadcast
      /\ f.current = NoBroadcast /\ f.stopping = FALSE /\ f.blocked = FALSE
      /\ f.take = NoTake
  BY <1>1 DEF ChannelType
<1>4. Blank(f)
  BY <1>2, <1>3 DEF Blank
<1>5. QED
  BY <1>4 DEF f

\* There is no more to forget of such a record.
LEMMA BlankStaysBlank ==
  ASSUME NEW c, Blank(c)
  PROVE  c = [c EXCEPT !.once = NoCommand, !.scope = NoBroadcast,
                       !.continuing = NoBroadcast, !.current = NoBroadcast,
                       !.stopping = FALSE, !.blocked = FALSE, !.take = NoTake]
<1>1. /\ c.once = NoCommand /\ c.scope = NoBroadcast /\ c.continuing = NoBroadcast
      /\ c.current = NoBroadcast /\ c.stopping = FALSE /\ c.blocked = FALSE
      /\ c.take = NoTake /\ c \in ChannelType
  BY DEF Blank, ChannelType
<1>2. QED
  BY <1>1 DEF ChannelType

LEMMA BlankIsIdle ==
  ASSUME NEW c, Blank(c)
  PROVE  ~Active(c) /\ TakeOf(c) /\ Scopes(c)
BY NothingCaptured DEF Blank, Active, TakeOf, Scopes

LEMMA LeavingPreserves ==
  ASSUME ChannelIInv, Exit, GuardInv', ~Up', group' = Exited
  PROVE  ChannelIInv'
<1>1. /\ ChannelTypeOK /\ GuardTypeOK /\ GuardTypeOK' /\ OneCapture /\ chan \in ChannelType
  BY DEF ChannelIInv, ChannelInv, GuardInv, ChannelTypeOK
<1>2. /\ chan' = Forgotten /\ fsm' = StoppedFsm /\ watch' = NoWatch /\ respawn' = FALSE
      /\ svc' = NoService /\ halt' = NoHalt
  BY DEF Exit
<1>3. Blank(chan')
  BY <1>1, <1>2, ForgottenIsBlank
<1>4. /\ chan' \in ChannelType /\ chan'.once = NoCommand /\ chan'.scope = NoBroadcast
      /\ ~chan'.stopping /\ ~chan'.blocked /\ chan'.take = NoTake
  BY <1>3 DEF Blank
<1>5. ~Active(chan)'
  BY <1>4, NothingCaptured DEF Active
<1>6. \A g \in Captures : group'[g] # "admitted" /\ (Survives(g)' => Survives(g))
  BY <1>1 DEF Exited, GuardTypeOK, Survives
<1>7. ChannelTypeOK'
  <2>1. fsm' \in FsmType /\ watch' \in WatchType
    BY <1>2, MachineStates, WatchStates DEF FsmType
  <2>2. QED
    BY <1>1, <1>2, <1>4, <2>1, NothingCaptured
       DEF ChannelTypeOK, FsmType, WatchType, NoService, NoHalt
<1>8. OneCapture' /\ NoCaptureBesideSurvivor'
  BY <1>1, <1>6 DEF OneCapture, NoCaptureBesideSurvivor
<1>9. DownForgets'
  BY <1>2, <1>3, BlankStaysBlank DEF DownForgets, Forgotten
<1>10. TakeHolds' /\ AdmissionHolds' /\ WatchHolds' /\ WatchingHolds'
  <2>1. fsm'.state = "STOPPED" /\ watch'.pc = "none" /\ ~watch'.cancelled
    BY <1>2, WatchStates DEF StoppedFsm
  <2>2. QED
    BY <1>2, <1>4, <1>5, <1>6, <2>1
       DEF TakeHolds, AdmissionHolds, WatchHolds, WatchingHolds
<1>11. HaltHolds' /\ ServiceHolds'
  BY <1>2, <1>4 DEF HaltHolds, ServiceHolds, NoHalt, NoService
<1>12. CapturesAreReachable' /\ CommandsAreAttended'
  BY DEF CapturesAreReachable, OwnedUntilGone, CaptureIsStoppable, CommandsAreAttended
<1>13. DecisionsAreKept'
  BY <1>5 DEF DecisionsAreKept, SuppressedIsNotCaptured, PausedRecordsItsScope, Captured
<1>14. QED
  BY <1>7, <1>8, <1>9, <1>10, <1>11, <1>12, <1>13 DEF ChannelIInv, ChannelInv

\* A shutdown that calls itself clean has left nothing behind.
LEMMA CleanIsTrustworthy ==
  ASSUME ChannelIInv, Up
  PROVE  Trustworthy(halt.pc = "clean")
<1> SUFFICES ASSUME halt.pc = "clean", NEW g \in mine PROVE group[g] = "absent"
  BY DEF Trustworthy
<1>1. GuardTypeOK /\ HaltHolds /\ AdmissionHolds /\ OwnedUntilGone
  BY DEF ChannelIInv, ChannelInv, GuardInv, CapturesAreReachable
<1>2. g \in Captures /\ group[g] \in GroupStates
  BY <1>1 DEF GuardTypeOK
<1>3. group[g] # "admitted"
  BY <1>1, <1>2 DEF HaltHolds, AdmissionHolds
<1>4. ~Survives(g)
  BY <1>1, <1>2, NothingCaptured DEF HaltHolds, OwnedUntilGone
<1>5. QED
  BY <1>2, <1>3, <1>4 DEF GroupStates, Survives

\* So the end of the application is one the guard allows.
LEMMA ExitUsesTheGuard == ChannelIInv /\ (AppExits \/ AppCrash) => GuardNext
<1>1. CASE ChannelIInv /\ AppExits
  <2> DEFINE clean == halt.pc = "clean"
  <2>1. FinishGuard(clean) /\ clean \in BOOLEAN
    BY <1>1 DEF AppExits
  <2>2. Up
    BY <2>1 DEF FinishGuard
  <2>3. Trustworthy(clean)
    BY <1>1, <2>2, CleanIsTrustworthy
  <2> HIDE DEF clean
  <2>4. QED
    BY <2>1, <2>3 DEF GuardNext
<1>2. CASE AppCrash
  BY <1>2 DEF AppCrash, GuardNext
<1>3. QED
  BY <1>1, <1>2

LEMMA AppEndsPreserves == ChannelIInv /\ (AppExits \/ AppCrash) => ChannelIInv'
<1> SUFFICES ASSUME ChannelIInv, AppExits \/ AppCrash PROVE ChannelIInv'
  OBVIOUS
<1>1. GuardInv /\ GuardTypeOK
  BY DEF ChannelIInv, ChannelInv, GuardInv
<1>2. GuardInv'
  BY <1>1, ExitUsesTheGuard, GuardNextPreserves
<1>3. Exit /\ group' = Exited /\ guard'.phase = "down"
  BY <1>1 DEF AppExits, AppCrash, FinishGuard, Crash, GuardTypeOK
<1>4. QED
  BY <1>2, <1>3, LeavingPreserves DEF Up

\* What initialize makes of the rows: no command is taken up again.
LEMMA StartingRecord ==
  ASSUME NEW c, Blank(c)
  PROVE  LET d == [c EXCEPT !.observed = NoBroadcast,
                     !.cmd = [k \in Commands |->
                                 IF @[k] = "running" THEN "interrupted" ELSE @[k]]]
         IN  /\ Blank(d) /\ \A k \in Commands : d.cmd[k] # "running"
             /\ Observe(d, NoBroadcast) = d
<1> DEFINE cmd == [k \in Commands |-> IF c.cmd[k] = "running" THEN "interrupted" ELSE c.cmd[k]]
           d == [c EXCEPT !.observed = NoBroadcast, !.cmd = cmd]
<1>1. c \in ChannelType
  BY DEF Blank
<1>2. cmd \in [Commands -> CommandStates] /\ \A k \in Commands : cmd[k] # "running"
  <2>1. \A k \in Commands : c.cmd[k] \in CommandStates
    BY <1>1 DEF ChannelType
  <2>2. QED
    BY <2>1 DEF CommandStates
<1>3. d = [c EXCEPT !.observed = NoBroadcast,
             !.cmd = [k \in Commands |-> IF @[k] = "running" THEN "interrupted" ELSE @[k]]]
  OBVIOUS
<1> HIDE DEF cmd
<1>4. d \in ChannelType
  BY <1>1, <1>2, NothingCaptured DEF ChannelType
<1>5. /\ d.cmd = cmd /\ d.observed = NoBroadcast /\ d.once = c.once /\ d.scope = c.scope
      /\ d.continuing = c.continuing /\ d.current = c.current /\ d.stopping = c.stopping
      /\ d.blocked = c.blocked /\ d.take = c.take
  BY <1>1 DEF ChannelType
<1> HIDE DEF d
<1>6. Observe(d, NoBroadcast) = d
  BY <1>4, <1>5 DEF Observe, ChannelType
<1>7. Blank(d)
  BY <1>4, <1>5 DEF Blank
<1>8. QED
  BY <1>2, <1>3, <1>5, <1>6, <1>7

LEMMA AppStartPreserves == ChannelIInv /\ AppStart => ChannelIInv'
<1> SUFFICES ASSUME ChannelIInv, AppStart PROVE ChannelIInv'
  OBVIOUS
<1> DEFINE c == [chan EXCEPT !.observed = NoBroadcast,
                   !.cmd = [k \in Commands |->
                               IF @[k] = "running" THEN "interrupted" ELSE @[k]]]
<1>1. /\ ChannelTypeOK /\ GuardInv /\ GuardTypeOK /\ OneCapture /\ DownForgets
  BY DEF ChannelIInv, ChannelInv, GuardInv
<1>2. /\ ~Up /\ BeginGuard /\ UNCHANGED <<respawn, svc, halt>>
      /\ IF c.mode = "auto" THEN GuardedStart(c, FALSE) /\ NoteAdmission(c)
         ELSE chan' = c /\ UNCHANGED <<fsm, watch>>
  BY DEF AppStart, BeginGuard
<1>3. /\ chan = Forgotten /\ fsm = StoppedFsm /\ watch = NoWatch
      /\ respawn = FALSE /\ svc = NoService /\ halt = NoHalt
  BY <1>1, <1>2 DEF DownForgets, ChannelTypeOK
<1>4. Blank(chan)
  BY <1>1, <1>3, ForgottenIsBlank DEF ChannelTypeOK
<1>5. Blank(c) /\ (\A k \in Commands : c.cmd[k] # "running") /\ Observe(c, NoBroadcast) = c
  BY <1>4, StartingRecord
<1> HIDE DEF c
<1>6. ~Active(c) /\ c.once = NoCommand /\ ~c.stopping /\ ~c.blocked
  BY <1>5, BlankIsIdle DEF Blank
<1>7. /\ Up' /\ group' = group /\ mine' = {}
  BY <1>2 DEF BeginGuard, Up
<1>8. GuardInv'
  BY <1>1, <1>2, GuardNextPreserves DEF GuardNext
<1>9. /\ chan' = c
      /\ \/ fsm' = StoppedFsm /\ watch' = NoWatch
         \/ fsm' = WatchingFsm /\ watch' = Born(FALSE)
  <2>1. CASE c.mode # "auto"
    BY <1>2, <1>3, <2>1
  <2>2. CASE c.mode = "auto"
    <3>1. ShouldWatch(c)
      BY <1>6, <2>2 DEF ShouldWatch
    <3>2. ~fsm.rec /\ fsm.state = "STOPPED" /\ ~Watched
      BY <1>3, WatchStates DEF StoppedFsm, Watched
    <3>3. chan' = c
      <4>1. chan' = c \/ chan' = FinishOnce(Observe(c, NoBroadcast), "blocked")
        BY <1>2, <2>2 DEF NoteAdmission
      <4>2. FinishOnce(c, "blocked") = c
        BY <1>6 DEF FinishOnce
      <4>3. QED
        BY <1>5, <4>1, <4>2
    <3>4. CASE UserStart(c, FALSE)
      <4>1. fsm' = WatchingFsm /\ SpawnWatch(FALSE)
        BY <1>6, <3>1, <3>2, <3>4 DEF UserStart
      <4>2. watch' = Born(FALSE)
        BY <3>2, <4>1 DEF SpawnWatch
      <4>3. QED
        BY <3>3, <4>1, <4>2
    <3>5. CASE ~UserStart(c, FALSE)
      BY <1>2, <1>3, <2>2, <3>5, <3>3 DEF GuardedStart
    <3>6. QED
      BY <3>4, <3>5, <3>3
  <2>3. QED
    BY <2>1, <2>2
<1>10. /\ fsm' \in FsmType /\ watch' \in WatchType /\ ~watch'.cancelled /\ fsm'.rec = FALSE
       /\ watch'.pc \in {"none", "born"} /\ (watch'.pc = "none" => watch' = NoWatch)
       /\ fsm'.state = "WATCHING" => watch'.pc = "born"
  <2>1. fsm' \in FsmType /\ watch' \in WatchType
    BY <1>9, MachineStates, WatchStates DEF FsmType
  <2>2. /\ Born(FALSE).pc = "born" /\ ~Born(FALSE).cancelled
        /\ NoWatch.pc = "none" /\ ~NoWatch.cancelled
    BY WatchStates
  <2>3. StoppedFsm.rec = FALSE /\ StoppedFsm.state = "STOPPED" /\ WatchingFsm.rec = FALSE
    BY DEF StoppedFsm, WatchingFsm
  <2>4. QED
    BY <1>9, <2>1, <2>2, <2>3
<1>11. /\ chan' \in ChannelType /\ chan'.once = NoCommand /\ chan'.scope = NoBroadcast
       /\ ~chan'.stopping /\ ~chan'.blocked /\ chan'.take = NoTake
       /\ \A k \in Commands : chan'.cmd[k] # "running"
  BY <1>5, <1>9 DEF Blank
<1>12. ~Active(chan)'
  BY <1>11, NothingCaptured DEF Active
<1>13. \A g \in Captures : group'[g] # "admitted"
  BY <1>1, <1>2, <1>7 DEF GuardInv, AdmissionsAreMine
<1>14. ChannelTypeOK' /\ OneCapture' /\ NoCaptureBesideSurvivor' /\ DownForgets'
  <2>1. GuardTypeOK' /\ NoCaptureBesideSurvivor'
    BY <1>8 DEF GuardInv, SurvivorsRefuse, NoCaptureBesideSurvivor, Survives
  <2>2. ChannelTypeOK'
    BY <1>1, <1>2, <1>10, <1>11, <2>1 DEF ChannelTypeOK, FsmType, WatchType
  <2>3. OneCapture' /\ DownForgets'
    BY <1>1, <1>7 DEF OneCapture, DownForgets, Survives
  <2>4. QED
    BY <2>1, <2>2, <2>3
<1>15. TakeHolds' /\ AdmissionHolds'
  BY <1>10, <1>11, <1>12, <1>13 DEF TakeHolds, AdmissionHolds
<1>16. WatchHolds' /\ WatchingHolds'
  BY <1>10, <1>12 DEF WatchHolds, WatchingHolds
<1>17. HaltHolds' /\ ServiceHolds'
  BY <1>2, <1>3, <1>11 DEF HaltHolds, ServiceHolds, NoHalt, NoService
<1>18. CapturesAreReachable' /\ CommandsAreAttended'
  BY <1>7, <1>11, <1>12, ChannelAssumption
     DEF CapturesAreReachable, OwnedUntilGone, CaptureIsStoppable, CommandsAreAttended, Commands
<1>19. DecisionsAreKept'
  BY <1>12 DEF DecisionsAreKept, SuppressedIsNotCaptured, PausedRecordsItsScope, Captured
<1>20. QED
  BY <1>8, <1>14, <1>15, <1>16, <1>17, <1>18, <1>19 DEF ChannelIInv, ChannelInv

LEMMA ChannelInitEstablishes == Init => ChannelIInv
<1> SUFFICES ASSUME Init PROVE ChannelIInv
  OBVIOUS
<1>1. GuardInv /\ ~Up /\ (\A g \in Captures : group[g] = "absent") /\ mine = {}
  BY GuardInitEstablishes DEF Init, GuardInit, Up
<1>2. fsm = StoppedFsm /\ watch = NoWatch /\ respawn = FALSE /\ svc = NoService /\ halt = NoHalt
  BY DEF Init
<1>3. chan \in ChannelType /\ Blank(chan)
  <2>1. PICK mode \in {"auto", "paused"} :
          chan = [mode |-> mode, suppressed |-> {}, observed |-> NoBroadcast,
                  cmd |-> [k \in Commands |-> "absent"],
                  once |-> NoCommand, scope |-> NoBroadcast, continuing |-> NoBroadcast,
                  current |-> NoBroadcast, stopping |-> FALSE, blocked |-> FALSE,
                  take |-> NoTake]
    BY DEF Init
  <2>2. [k \in Commands |-> "absent"] \in [Commands -> CommandStates]
    BY DEF CommandStates
  <2>3. chan \in ChannelType
    BY <2>1, <2>2, NothingCaptured DEF ChannelType
  <2>4. QED
    BY <2>1, <2>3 DEF Blank
<1>4. chan = Forgotten
  BY <1>3, BlankStaysBlank DEF Forgotten
<1>5. ~Active(chan) /\ chan.take = NoTake /\ ~chan.blocked /\ ~chan.stopping
      /\ chan.scope = NoBroadcast
  BY <1>3, BlankIsIdle DEF Blank
<1>6. ChannelTypeOK
  <2>1. fsm \in FsmType /\ watch \in WatchType
    BY <1>2, MachineStates, WatchStates DEF FsmType
  <2>2. GuardTypeOK
    BY <1>1 DEF GuardInv
  <2>3. QED
    BY <1>2, <1>3, <2>1, <2>2, NothingCaptured
       DEF ChannelTypeOK, FsmType, WatchType, NoService, NoHalt
<1>7. NoCaptureBesideSurvivor /\ OneCapture /\ CapturesAreReachable /\ CommandsAreAttended
  BY <1>1 DEF NoCaptureBesideSurvivor, OneCapture, Survives, CapturesAreReachable,
              OwnedUntilGone, CaptureIsStoppable, CommandsAreAttended
<1>8. DownForgets
  BY <1>2, <1>4 DEF DownForgets
<1>9. TakeHolds /\ AdmissionHolds /\ WatchHolds /\ WatchingHolds
  <2>1. fsm.state = "STOPPED" /\ watch.pc = "none" /\ ~watch.cancelled
    BY <1>2, WatchStates DEF StoppedFsm
  <2>2. QED
    BY <1>1, <1>2, <1>5, <2>1
       DEF TakeHolds, AdmissionHolds, WatchHolds, WatchingHolds
<1>10. HaltHolds /\ ServiceHolds
  BY <1>2, <1>5 DEF HaltHolds, ServiceHolds, NoHalt, NoService
<1>11. DecisionsAreKept
  BY <1>5 DEF DecisionsAreKept, SuppressedIsNotCaptured, PausedRecordsItsScope, Captured
<1>12. QED
  BY <1>1, <1>6, <1>7, <1>8, <1>9, <1>10, <1>11 DEF ChannelIInv, ChannelInv

-----------------------------------------------------------------------------
(***************************************************************************)
(* Every step.                                                             *)
(***************************************************************************)
LEMMA RequestsPreserve == ChannelIInv /\ (Request \/ ServiceStep) => ChannelIInv'
BY StartOncePreserves, StopCurrentPreserves, OtherRequestsPreserve, ServiceStartsPreserves,
   StopsPreserve, ServicePausesPreserves
   DEF Request, ServiceStep

LEMMA HaltStepPreserves == ChannelIInv /\ HaltStep => ChannelIInv'
BY HaltCancelsPreserves, HaltJoinsPreserves, HaltSucceedsPreserves, HaltFailsPreserves
   DEF HaltStep

LEMMA WatchStepPreserves == ChannelIInv /\ WatchStep => ChannelIInv'
<1> SUFFICES ASSUME ChannelIInv, WatchStep PROVE ChannelIInv'
  OBVIOUS
<1>1. CASE WatchBegins \/ WaitReturns \/ LaunchSucceeds \/ LaunchRaises
  BY <1>1, WatchBeginsPreserves, WaitReturnsPreserves, LaunchedPreserves
<1>2. CASE LaunchSkipped \/ WatchCompletes \/ WatchRaises \/ WatchCancelled
  BY <1>2, AttemptEndsPreserves
<1>3. CASE AdmissionHindered \/ FindsOffline
  BY <1>3, NotAdmittedPreserves
<1>4. CASE \E b \in Broadcasts : \E id \in IdsOf(b) :
             LiveNotAdmitted(id) \/ \E g \in Captures : LiveAdmitted(b, id, g)
  <2>1. PICK b \in Broadcasts : \E id \in IdsOf(b) :
               LiveNotAdmitted(id) \/ \E g \in Captures : LiveAdmitted(b, id, g)
    BY <1>4
  <2>2. PICK id \in IdsOf(b) :
               LiveNotAdmitted(id) \/ \E g \in Captures : LiveAdmitted(b, id, g)
    BY <2>1
  <2>3. CASE LiveNotAdmitted(id)
    BY <2>3, NotAdmittedPreserves
  <2>4. CASE \E g \in Captures : LiveAdmitted(b, id, g)
    BY <2>4, LiveAdmittedPreserves
  <2>5. QED
    BY <2>2, <2>3, <2>4
<1>5. QED
  BY <1>1, <1>2, <1>3, <1>4 DEF WatchStep

LEMMA StutterPreserves == ChannelIInv /\ UNCHANGED vars => ChannelIInv'
<1> SUFFICES ASSUME ChannelIInv, UNCHANGED vars PROVE ChannelIInv'
  OBVIOUS
<1>1. UNCHANGED controlVars /\ UNCHANGED guardVars
  BY DEF vars
<1>2. mine' = mine /\ group' = group /\ guard' = guard
  BY <1>1 DEF guardVars
<1>3. GuardInv /\ GuardTypeOK
  BY DEF ChannelIInv, ChannelInv, GuardInv
<1>4. GuardInv'
  BY <1>1, <1>3, GuardNextPreserves
<1>5. QED
  BY <1>1, <1>2, <1>4, OutcomePreserves DEF Up

LEMMA ChannelNextPreserves == ChannelIInv /\ [Next]_vars => ChannelIInv'
<1> SUFFICES ASSUME ChannelIInv, [Next]_vars PROVE ChannelIInv'
  OBVIOUS
<1>1. CASE Request \/ ServiceStep
  BY <1>1, RequestsPreserve
<1>2. CASE (\E user \in BOOLEAN : OutsideStart(user)) \/ OutsideStop \/ Shutdown
  BY <1>2, OutsideStartPreserves, StopsPreserve
<1>3. CASE HaltStep \/ RespawnWakes \/ WatchStep
  BY <1>3, HaltStepPreserves, RespawnWakesPreserves, WatchStepPreserves
<1>4. CASE (\E g \in Captures : CaptureExits(g)) \/ Reconciles
  BY <1>4, CaptureExitsPreserves, ReconcilesPreserves
<1>5. CASE AppCrash \/ AppExits \/ AppStart
  BY <1>5, AppEndsPreserves, AppStartPreserves
<1>6. CASE UNCHANGED vars
  BY <1>6, StutterPreserves
<1>7. QED
  BY <1>1, <1>2, <1>3, <1>4, <1>5, <1>6 DEF Next

\* What each step of the channel is to the guard.
LEMMA StepUsesTheGuard == ChannelIInv /\ [Next]_vars => [GuardNext]_guardVars
<1> SUFFICES ASSUME ChannelIInv, [Next]_vars PROVE [GuardNext]_guardVars
  OBVIOUS
<1>1. GuardTypeOK /\ AdmissionHolds
  BY DEF ChannelIInv, ChannelInv, GuardInv
<1>2. CASE Request \/ ServiceStep
  BY <1>2 DEF Request, ServiceStep, StartOnce, StopCurrent, LegacyStop, PatchAuto, PatchPaused,
              ServiceStarts, ServiceStops, ServicePauses, FsmStop
<1>3. CASE (\E user \in BOOLEAN : OutsideStart(user)) \/ OutsideStop \/ Shutdown
  BY <1>3 DEF OutsideStart, OutsideStop, Shutdown, FsmStop
<1>4. CASE HaltStep
  <2>1. CASE HaltSucceeds
    BY <1>1, <2>1, KillIsAnExit DEF HaltSucceeds
  <2>2. CASE HaltCancels \/ HaltJoins \/ HaltFails
    BY <2>2 DEF HaltCancels, HaltJoins, HaltFails
  <2>3. QED
    BY <1>4, <2>1, <2>2 DEF HaltStep
<1>5. CASE RespawnWakes
  BY <1>5 DEF RespawnWakes
<1>6. CASE WatchStep
  <2>1. CASE WatchBegins \/ AdmissionHindered \/ FindsOffline \/ WaitReturns
             \/ WatchCompletes \/ WatchRaises
    BY <2>1 DEF WatchBegins, AdmissionHindered, FindsOffline, WaitReturns, WatchCompletes,
                WatchRaises
  <2>2. CASE LaunchSkipped \/ LaunchSucceeds \/ LaunchRaises \/ WatchCancelled
    <3>1. CASE UNCHANGED guardVars
      BY <3>1
    <3>2. CASE ~UNCHANGED guardVars
      <4> DEFINE g == watch.take.capture
      <4>1. GuardStep(g)
        BY <2>2, <3>2 DEF LaunchSkipped, LaunchSucceeds, LaunchRaises, WatchCancelled, GuardStep
      <4>2. g \in Captures
        BY <1>1, <2>2, <3>2
           DEF AdmissionHolds, LaunchSkipped, LaunchSucceeds, LaunchRaises, WatchCancelled
      <4>3. QED
        BY <4>1, <4>2 DEF GuardNext
    <3>3. QED
      BY <3>1, <3>2
  <2>3. CASE \E b \in Broadcasts : \E id \in IdsOf(b) :
               LiveNotAdmitted(id) \/ \E g \in Captures : LiveAdmitted(b, id, g)
    BY <2>3 DEF LiveNotAdmitted, LiveAdmitted, GuardStep, GuardNext
  <2>4. QED
    BY <1>6, <2>1, <2>2, <2>3 DEF WatchStep
<1>7. CASE (\E g \in Captures : CaptureExits(g)) \/ Reconciles
  BY <1>7 DEF CaptureExits, Reconciles, GuardStep, GuardNext
<1>8. CASE AppCrash \/ AppExits \/ AppStart
  BY <1>8, ExitUsesTheGuard DEF AppStart, GuardNext
<1>9. CASE UNCHANGED vars
  BY <1>9 DEF vars
<1>10. QED
  BY <1>2, <1>3, <1>4, <1>5, <1>6, <1>7, <1>8, <1>9 DEF Next

\* Nothing waits for a watch task that does not exist: a channel in the state
\* WATCHING has one as soon as nobody is about to take it down.
LEMMA WatchingHasATask == ChannelIInv => WatchingIsAttended
<1> SUFFICES ASSUME ChannelIInv, Quiet, fsm.state = "WATCHING"
             PROVE  Watched \/ respawn
  BY DEF WatchingIsAttended
<1>1. WatchHolds /\ WatchingHolds /\ halt.pc = "none" /\ LockFree /\ svc.op = "none"
  BY DEF ChannelIInv, ChannelInv, Quiet, LockFree, NoHalt, NoService
<1>2. CASE watch.pc = "none"
  BY <1>1, <1>2 DEF WatchingHolds
<1>3. CASE watch.pc # "none"
  BY <1>1, <1>3 DEF WatchHolds, Watched
<1>4. QED
  BY <1>2, <1>3

\* No step starts a watch task where there is one already.
LEMMA StepStartsOneWatcher ==
  ChannelIInv /\ [Next]_vars => (watch'.pc = "born" => watch.pc \in {"none", "born"})
<1> SUFFICES ASSUME ChannelIInv, [Next]_vars, watch'.pc = "born",
                    watch.pc \notin {"none", "born"}
             PROVE  FALSE
  OBVIOUS
<1>1. WatchHolds /\ HaltHolds /\ DownForgets /\ watch \in WatchType
  BY DEF ChannelIInv, ChannelInv, ChannelTypeOK, WatchType
<1>2. Up /\ watch' # watch /\ watch' # NoWatch
  BY <1>1, TasksRun, WatchStates
<1>3. CASE Request \/ Reconciles \/ UNCHANGED vars \/ \E g \in Captures : CaptureExits(g)
  BY <1>2, <1>3 DEF Request, StartOnce, StopCurrent, LegacyStop, PatchAuto, PatchPaused,
                    Reconciles, CaptureExits, controlVars, vars
<1>4. ASSUME LockFree, NEW user \in BOOLEAN, GuardedStart(chan, user) PROVE FALSE
  BY <1>2, <1>4, StartGives
<1>5. CASE (\E user \in BOOLEAN : OutsideStart(user)) \/ ServiceStarts
  <2>1. CASE \E user \in BOOLEAN : OutsideStart(user)
    BY <1>4, <2>1 DEF OutsideStart
  <2>2. CASE ServiceStarts
    <3> DEFINE user == svc.op = "once"
    <3>1. LockFree /\ GuardedStart(chan, user) /\ user \in BOOLEAN
      BY <2>2 DEF ServiceStarts
    <3> HIDE DEF user
    <3>2. QED
      BY <1>4, <3>1
  <2>3. QED
    BY <1>5, <2>1, <2>2
<1>6. Cancelled.pc # "born"
  <2>1. Cancelled = [watch EXCEPT !.cancelled = TRUE]
    BY DEF Cancelled
  <2>2. QED
    BY <1>1, <2>1 DEF WatchType
<1>7. CASE OutsideStop \/ Shutdown \/ ServiceStops \/ ServicePauses \/ HaltStep
  <2>1. watch' \in {watch, Cancelled}
    BY <1>7 DEF OutsideStop, Shutdown, ServiceStops, FsmStop, ServicePauses, Detach,
                HaltStep, HaltCancels, HaltJoins, HaltSucceeds, HaltFails
  <2>2. QED
    BY <1>2, <1>6, <2>1
<1>8. CASE RespawnWakes
  <2>1. respawn /\ (UNCHANGED watch \/ SpawnWatch(FALSE))
    BY <1>8 DEF RespawnWakes
  <2>2. Watched
    BY <1>1, <2>1 DEF HaltHolds, WatchHolds, Watched
  <2>3. QED
    BY <1>2, <2>1, <2>2 DEF SpawnWatch
<1>9. CASE WatchStep
  <2>1. \/ watch' = NoWatch
        \/ watch' = watch
        \/ \E on \in BOOLEAN : watch' = [NoWatch EXCEPT !.pc = "meta", !.enabled = on]
        \/ watch'.pc \in {"admitted", "wait", "raised", "drain"}
    <3>1. CASE WatchBegins
      BY <3>1 DEF WatchBegins
    <3>2. CASE AdmissionHindered \/ FindsOffline \/ LaunchSkipped \/ WatchCompletes
               \/ WatchRaises \/ WatchCancelled
      BY <3>2 DEF AdmissionHindered, FindsOffline, LaunchSkipped, WatchCompletes,
                  WatchRaises, WatchCancelled, SessionEnds
    <3>3. CASE LaunchSucceeds \/ LaunchRaises \/ WaitReturns
      BY <1>1, <3>3 DEF LaunchSucceeds, LaunchRaises, WaitReturns, WatchType
    <3>4. CASE \E b \in Broadcasts : \E id \in IdsOf(b) :
                 LiveNotAdmitted(id) \/ \E g \in Captures : LiveAdmitted(b, id, g)
      BY <1>1, <3>4 DEF LiveNotAdmitted, LiveAdmitted, SessionEnds, WatchType
    <3>5. QED
      BY <1>9, <3>1, <3>2, <3>3, <3>4 DEF WatchStep
  <2>2. QED
    BY <1>2, <2>1 DEF NoWatch
<1>10. CASE AppCrash \/ AppExits
  BY <1>2, <1>10 DEF AppCrash, AppExits, Exit
<1>11. CASE AppStart
  BY <1>2, <1>11 DEF AppStart, BeginGuard
<1>12. QED
  BY <1>3, <1>5, <1>7, <1>8, <1>9, <1>10, <1>11 DEF Next, ServiceStep

-----------------------------------------------------------------------------
(***************************************************************************)
(* What holds of every channel.                                            *)
(***************************************************************************)

\* Whatever the requests, the callers past the controller, the tasks and the
\* crashes do: what each of them relies on holds, decisions are kept, captures
\* can be reached and commands are attended.
THEOREM ChannelIsSafe == Spec => []ChannelIInv
<1>1. Init => ChannelIInv
  BY ChannelInitEstablishes
<1>2. ChannelIInv /\ [Next]_vars => ChannelIInv'
  BY ChannelNextPreserves
<1>3. QED
  BY <1>1, <1>2, PTL DEF Spec

\* Types, at most one recorder, none beside one of an earlier run, and what the
\* coroutines of the event loop rely on, each of the others
\* (v2_channels.py, channel_fsm.py, live_recorder.py).
THEOREM TasksRelyOnTheirs == Spec => []ChannelInv
<1>1. ChannelIInv => ChannelInv
  BY DEF ChannelIInv
<1>2. QED
  BY <1>1, ChannelIsSafe, PTL

\* What is captured was admitted by the decisions that were made last: not
\* suppressed, and wanted while the channel is paused (v2_channels.py:244-247).
THEOREM LastDecisionsAreKept == Spec => []DecisionsAreKept
<1>1. ChannelIInv => DecisionsAreKept
  BY DEF ChannelIInv
<1>2. QED
  BY <1>1, ChannelIsSafe, PTL

\* Every recorder of this run stays in _captures until its group is gone, and
\* stop_current of its broadcast is taken (v2_channels.py:286-340, 525).
THEOREM StopsReachCaptures == Spec => []CapturesAreReachable
<1>1. ChannelIInv => CapturesAreReachable
  BY DEF ChannelIInv
<1>2. QED
  BY <1>1, ChannelIsSafe, PTL

\* Neither a channel that says WATCHING nor a running command waits for a task
\* that does not exist (channel_fsm.py:307-419, v2_channels.py:509-565).
THEOREM EverybodyIsAttended == Spec => []NothingIsOrphaned
<1>1. ChannelIInv => NothingIsOrphaned
  BY WatchingHasATask DEF ChannelIInv, NothingIsOrphaned
<1>2. QED
  BY <1>1, ChannelIsSafe, PTL

\* A watch task is never started beside another of the channel
\* (channel_fsm.py:328-335).
THEOREM NoSecondWatcher == Spec => OneWatcher
<1>1. ChannelIInv /\ [Next]_vars => [watch'.pc = "born" => watch.pc \in {"none", "born"}]_vars
  BY StepStartsOneWatcher
<1>2. QED
  BY <1>1, ChannelIsSafe, PTL DEF Spec, OneWatcher

\* The channel implements the capture guard: each of its steps is one that the
\* guard allows, and a shutdown that calls itself clean is
\* (live_auto_recorder.py:198-207, v2_runtime.py).
THEOREM ChannelImplementsCaptureGuard == Spec => UsesTheGuard
<1>1. Init => GuardInit
  BY DEF Init
<1>2. ChannelIInv /\ [Next]_vars => [GuardNext]_guardVars
  BY StepUsesTheGuard
<1>3. QED
  BY <1>1, <1>2, ChannelIsSafe, PTL DEF Spec, UsesTheGuard, GuardSpec
=============================================================================
