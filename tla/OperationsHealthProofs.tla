----------------------- MODULE OperationsHealthProofs -----------------------
(***************************************************************************)
(* Machine-checked proofs about OperationsHealth, for every rule, every    *)
(* threshold and any number of requests and changes.  The argument: while  *)
(* a restart is settling the monitor takes no sample, so that the attempt  *)
(* it was counted as is still on record when it cuts; and while it waits   *)
(* for the channel's lock a capture can only grow under somebody else's    *)
(* stop, which ends the capture before the lock is handed on.              *)
(***************************************************************************)
EXTENDS OperationsHealth, TLAPS

Locked == {"begin", "stop", "halt"}

PlaceRow == [pc : Places, then : Places]
Fsm == [state : {"STOPPED", "WATCHING", "RECORDING"}, stop : BOOLEAN]
Flag == [stopped : BOOLEAN, reserved : BOOLEAN, recording : BOOLEAN]
Tasks == {"none", "runs", "rests"}
Procs == {"none", "mute", "writes", "failed", "clean"}
Sample == [age : 0..StallAge, checks : 0..StallChecks, exit : BOOLEAN, watch : BOOLEAN]
Row == [attempts : 0..MaxAttempts, cooling : BOOLEAN, reason : Reasons \cup {"none"}]
Env == [allowed : BOOLEAN, critical : BOOLEAN]
SpentType == [requests : 0..MaxRequests, changes : 0..MaxChanges]

Typed ==
    /\ fsm \in Fsm /\ flag \in Flag /\ task \in Tasks /\ proc \in Procs /\ fresh \in BOOLEAN
    /\ line \in Seq(Actors) /\ act \in [Actors -> PlaceRow]
    /\ sample \in Sample /\ health \in Row /\ blocked \in BOOLEAN /\ full \in BOOLEAN
    /\ env \in Env /\ cuts \in 0..(MaxAttempts + 1) /\ halted \in BOOLEAN /\ spent \in SpentType

\* The line and the callers' places agree; nobody goes from a start or a stop
\* straight to another one, or to a restart.
LineHolds ==
    /\ \A a \in Actors : act[a].pc \in Locked <=> \E i \in DOMAIN line : line[i] = a
    /\ \A i, k \in DOMAIN line : line[i] = line[k] => i = k
    /\ \A a \in Actors : act[a].then \notin Locked \cup {"settle"}

\* A restart that settles is one attempt ahead of the cuts, and no sample comes.
SettleHolds ==
    act["restart"].pc = "settle" =>
        act["monitor"].pc \in {"idle", "tidy"} /\ cuts < health.attempts

\* A capture's process belongs to the watch task, and is called recording.
AliveHolds == Alive => flag.recording /\ task = "runs"

\* Whatever grows while a restart waits to stop it is being stopped already.
WaitHolds ==
    (act["restart"].pc = "stop" /\ Alive /\ fresh) => line # << >> /\ act[Head(line)].pc = "halt"

HealthIInv == Typed /\ LineHolds /\ RestartsAreBounded /\ SettleHolds /\ AliveHolds /\ WaitHolds

-----------------------------------------------------------------------------
(* The line. *)

\* A caller outside the line moves, to its end if the place needs the lock;
\* who else moves stays outside.
LEMMA MoveGives ==
  ASSUME line \in Seq(Actors), LineHolds, NEW a \in Actors, act[a].pc \notin Locked,
         act' \in [Actors -> PlaceRow],
         act'[a].pc # "halt", act'[a].then \notin Locked \cup {"settle"},
         \A b \in Actors \ {a} :
            \/ act'[b] = act[b]
            \/ /\ act[b].pc \notin Locked /\ act'[b].pc \notin Locked
               /\ act'[b].then \notin Locked \cup {"settle"},
         line' = IF act'[a].pc \in {"begin", "stop"} THEN Append(line, a) ELSE line
  PROVE  /\ line' \in Seq(Actors) /\ LineHolds'
         /\ line # << >> => /\ line' # << >> /\ Head(line') = Head(line)
                           /\ act'[Head(line)] = act[Head(line)]
<1>1. /\ Len(line) \in Nat /\ DOMAIN line = 1..Len(line)
      /\ \A i \in DOMAIN line : line[i] \in Actors
  OBVIOUS
<1>2. \A i \in DOMAIN line : line[i] # a
  BY DEF LineHolds
<1>3. \A b \in Actors \ {a} : act'[b].pc \in Locked <=> \E i \in DOMAIN line : line[i] = b
  BY DEF LineHolds
<1>4. \A b \in Actors : act'[b].then \notin Locked \cup {"settle"}
  BY DEF LineHolds
<1>5. CASE act'[a].pc \in {"begin", "stop"}
  <2>1. /\ line' \in Seq(Actors) /\ DOMAIN line' = 1..(Len(line) + 1)
        /\ \A i \in DOMAIN line : line'[i] = line[i]
        /\ line'[Len(line) + 1] = a
    BY <1>1, <1>5
  <2>2. \A b \in Actors : act'[b].pc \in Locked <=> \E i \in DOMAIN line' : line'[i] = b
    <3>1. \A b \in Actors \ {a} :
            (\E i \in DOMAIN line' : line'[i] = b) <=> \E i \in DOMAIN line : line[i] = b
      BY <1>1, <2>1
    <3>2. \E i \in DOMAIN line' : line'[i] = a
      BY <1>1, <2>1
    <3>3. act'[a].pc \in Locked
      BY <1>5 DEF Locked
    <3>4. QED
      BY <1>3, <3>1, <3>2, <3>3
  <2>3. \A i, k \in DOMAIN line' : line'[i] = line'[k] => i = k
    <3>1. \A i, k \in DOMAIN line : line[i] = line[k] => i = k
      BY DEF LineHolds
    <3>2. QED
      BY <1>1, <1>2, <2>1, <3>1
  <2>4. line # << >> => line' # << >> /\ Head(line') = Head(line)
    BY <1>1, <2>1
  <2>5. line # << >> => act'[Head(line)] = act[Head(line)]
    <3>1. line # << >> => /\ 1 \in DOMAIN line /\ Head(line) = line[1]
                         /\ Head(line) \in Actors \ {a} /\ act[Head(line)].pc \in Locked
      BY <1>1, <1>2 DEF LineHolds
    <3>2. QED
      BY <3>1
  <2>6. QED
    BY <1>4, <2>1, <2>2, <2>3, <2>4, <2>5 DEF LineHolds
<1>6. CASE act'[a].pc \notin {"begin", "stop"}
  <2>1. line' = line /\ act'[a].pc \notin Locked
    BY <1>6 DEF Locked
  <2>2. \A b \in Actors : act'[b].pc \in Locked <=> \E i \in DOMAIN line' : line'[i] = b
    BY <1>2, <1>3, <2>1
  <2>3. \A i, k \in DOMAIN line' : line'[i] = line'[k] => i = k
    BY <2>1 DEF LineHolds
  <2>4. line # << >> => act'[Head(line)] = act[Head(line)]
    <3>1. line # << >> => /\ 1 \in DOMAIN line /\ Head(line) = line[1]
                         /\ Head(line) \in Actors \ {a} /\ act[Head(line)].pc \in Locked
      BY <1>1, <1>2 DEF LineHolds
    <3>2. QED
      BY <3>1
  <2>5. QED
    BY <1>4, <2>1, <2>2, <2>3, <2>4 DEF LineHolds
<1>7. QED
  BY <1>5, <1>6

LEMMA GoesGives ==
  ASSUME act \in [Actors -> PlaceRow], line \in Seq(Actors), LineHolds,
         NEW a \in Actors, act[a].pc \notin Locked,
         NEW p \in Places \ {"halt"}, NEW n \in Places \ (Locked \cup {"settle"}), Goes(a, p, n)
  PROVE  /\ act' \in [Actors -> PlaceRow] /\ act'[a].pc = p
         /\ \A b \in Actors \ {a} : act'[b] = act[b]
         /\ line' \in Seq(Actors) /\ LineHolds'
         /\ line # << >> => /\ line' # << >> /\ Head(line') = Head(line)
                           /\ act'[Head(line)] = act[Head(line)]
<1> DEFINE r == [pc |-> p, then |-> n]
<1>1. r \in PlaceRow /\ r.pc = p /\ r.then = n
  BY DEF PlaceRow
<1>2. act' = [act EXCEPT ![a] = r]
  BY DEF Goes
<1> HIDE DEF r
<1>3. act' \in [Actors -> PlaceRow] /\ act'[a] = r /\ \A b \in Actors \ {a} : act'[b] = act[b]
  BY <1>1, <1>2
<1>4. line' = IF act'[a].pc \in {"begin", "stop"} THEN Append(line, a) ELSE line
  BY <1>1, <1>3 DEF Goes
<1>5. act'[a].pc # "halt" /\ act'[a].then \notin Locked \cup {"settle"}
  BY <1>1, <1>3
<1>6. /\ line' \in Seq(Actors) /\ LineHolds'
      /\ line # << >> => /\ line' # << >> /\ Head(line') = Head(line)
                        /\ act'[Head(line)] = act[Head(line)]
  BY <1>3, <1>4, <1>5, MoveGives
<1>7. QED
  BY <1>1, <1>3, <1>6

\* The lock is handed on, and its holder goes where it wanted to.
LEMMA LeavesGives ==
  ASSUME act \in [Actors -> PlaceRow], line \in Seq(Actors), LineHolds,
         NEW a \in Actors, NEW p \in Locked, Holds(a, p), Leaves(a)
  PROVE  /\ act' \in [Actors -> PlaceRow]
         /\ act'[a].pc = act[a].then
         /\ \A b \in Actors \ {a} : act'[b] = act[b]
         /\ line' \in Seq(Actors) /\ LineHolds'
<1> DEFINE r == [pc |-> act[a].then, then |-> "idle"]
<1>1. act[a] \in PlaceRow /\ act[a].then \notin Locked \cup {"settle"}
  BY DEF LineHolds
<1>2. r \in PlaceRow /\ r.pc = act[a].then /\ r.then = "idle"
  BY <1>1 DEF PlaceRow, Places
<1>3. act' = [act EXCEPT ![a] = r]
  BY DEF Leaves
<1> HIDE DEF r
<1>4. act' \in [Actors -> PlaceRow] /\ act'[a] = r /\ \A b \in Actors \ {a} : act'[b] = act[b]
  BY <1>2, <1>3
<1>5. /\ line # << >> /\ line[1] = a /\ Len(line) \in Nat \ {0} /\ DOMAIN line = 1..Len(line)
      /\ line' = Tail(line)
  BY DEF Holds, Leaves
<1>6. /\ line' \in Seq(Actors) /\ DOMAIN line' = 1..(Len(line) - 1)
      /\ \A i \in DOMAIN line' : i + 1 \in DOMAIN line /\ line'[i] = line[i + 1]
  BY <1>5
<1>7. \A i, k \in DOMAIN line : line[i] = line[k] => i = k
  BY DEF LineHolds
<1>8. \A i, k \in DOMAIN line' : line'[i] = line'[k] => i = k
  BY <1>5, <1>6, <1>7
<1>9. \A b \in Actors : act'[b].pc \in Locked <=> \E i \in DOMAIN line' : line'[i] = b
  <2>1. \A i \in DOMAIN line' : line'[i] # a
    BY <1>5, <1>6, <1>7
  <2>2. act'[a].pc \notin Locked
    BY <1>1, <1>2, <1>4
  <2>3. ASSUME NEW b \in Actors \ {a}
        PROVE  (\E i \in DOMAIN line' : line'[i] = b) <=> \E i \in DOMAIN line : line[i] = b
    <3>1. ASSUME NEW i \in DOMAIN line, line[i] = b PROVE \E k \in DOMAIN line' : line'[k] = b
      <4>1. i # 1
        BY <1>5, <3>1
      <4>2. i - 1 \in DOMAIN line' /\ (i - 1) + 1 = i
        BY <1>5, <1>6, <4>1
      <4>3. QED
        BY <1>6, <3>1, <4>2
    <3>2. QED
      BY <1>6, <3>1
  <2>4. QED
    BY <1>4, <2>1, <2>2, <2>3 DEF LineHolds
<1>10. \A b \in Actors : act'[b].then \notin Locked \cup {"settle"}
  BY <1>2, <1>4 DEF LineHolds, Locked
<1>11. QED
  BY <1>2, <1>4, <1>6, <1>8, <1>9, <1>10 DEF LineHolds

-----------------------------------------------------------------------------
(* The places of the callers, while others step. *)

LEMMA StringsAre ==
  /\ "monitor" \in Actors /\ "restart" \in Actors /\ "user" \in Actors /\ "limit" \in Actors
  /\ "monitor" # "restart" /\ "user" # "restart" /\ "limit" # "restart"
  /\ "user" # "monitor" /\ "limit" # "monitor"
BY DEF Actors

LEMMA HeadIs ==
  ASSUME line \in Seq(Actors), LineHolds, act["restart"].pc = "stop"
  PROVE  line # << >>
<1>1. \E i \in DOMAIN line : line[i] = "restart"
  BY StringsAre DEF LineHolds, Locked
<1>2. QED
  BY <1>1

\* Nobody moves, and nobody is between two places.
LEMMA PlacesStay ==
  ASSUME HealthIInv, Settled, UNCHANGED <<line, act, cuts>>, health'.attempts = health.attempts
  PROVE  LineHolds' /\ RestartsAreBounded' /\ SettleHolds' /\ WaitHolds'
<1>1. LineHolds' /\ RestartsAreBounded' /\ SettleHolds'
  BY DEF HealthIInv, LineHolds, RestartsAreBounded, SettleHolds
<1>2. WaitHolds'
  <2> SUFFICES ASSUME act["restart"].pc = "stop"
               PROVE  line # << >> /\ act[Head(line)].pc = "halt"
    BY DEF WaitHolds
  <2>1. line # << >>
    BY HeadIs DEF HealthIInv, Typed
  <2>2. QED
    BY <2>1 DEF Settled
<1>3. QED
  BY <1>1, <1>2

\* One caller moves, at a time when nobody is between two places.
LEMMA GoesKeeps ==
  ASSUME HealthIInv, Settled, NEW a \in Actors, act[a].pc \notin Locked,
         NEW p \in Places \ {"halt", "settle"}, NEW n \in Places \ (Locked \cup {"settle"}),
         Goes(a, p, n), cuts' = cuts, health'.attempts = health.attempts,
         a = "monitor" => act["restart"].pc # "settle" \/ p \in {"idle", "tidy"},
         a = "restart" => p # "stop"
  PROVE  /\ act' \in [Actors -> PlaceRow] /\ line' \in Seq(Actors)
         /\ LineHolds' /\ RestartsAreBounded' /\ SettleHolds' /\ WaitHolds'
<1>1. act \in [Actors -> PlaceRow] /\ line \in Seq(Actors) /\ LineHolds
  BY DEF HealthIInv, Typed
<1>2. /\ act' \in [Actors -> PlaceRow] /\ act'[a].pc = p
      /\ \A b \in Actors \ {a} : act'[b] = act[b]
      /\ line' \in Seq(Actors) /\ LineHolds'
      /\ line # << >> => /\ line' # << >> /\ Head(line') = Head(line)
                        /\ act'[Head(line)] = act[Head(line)]
  BY <1>1, GoesGives
<1>3. RestartsAreBounded'
  BY DEF HealthIInv, RestartsAreBounded
<1>4. SettleHolds'
  <2>1. act'["restart"].pc = "settle" => a # "restart" /\ act["restart"].pc = "settle"
    BY <1>2, StringsAre
  <2>2. act["restart"].pc = "settle" => act["monitor"].pc \in {"idle", "tidy"} /\ cuts < health.attempts
    BY DEF HealthIInv, SettleHolds
  <2>3. a # "monitor" => act'["monitor"] = act["monitor"]
    BY <1>2, StringsAre
  <2>4. QED
    BY <1>2, <2>1, <2>2, <2>3 DEF SettleHolds
<1>5. WaitHolds'
  <2> SUFFICES ASSUME act'["restart"].pc = "stop"
               PROVE  line' # << >> /\ act'[Head(line')].pc = "halt"
    BY DEF WaitHolds
  <2>1. act["restart"].pc = "stop"
    BY <1>2, StringsAre
  <2>2. line # << >>
    BY <1>1, <2>1, HeadIs
  <2>3. QED
    BY <1>2, <2>2 DEF Settled
<1>6. QED
  BY <1>2, <1>3, <1>4, <1>5

LEMMA GuardedIs ==
  ASSUME NEW u, NEW n
  PROVE  Guarded(u, n) \in {n, "delay", "begin"}
BY DEF Guarded

\* The flags of the channel's state machine.
LEMMA SetsAre ==
  /\ SetStopped => fsm' \in Fsm /\ flag' \in Flag
  /\ SetWatching => fsm' \in Fsm /\ flag' \in Flag
  /\ SetRecording => fsm' \in Fsm /\ flag' \in Flag /\ flag'.recording = TRUE
<1>1. SetStopped => fsm' \in Fsm /\ flag' \in Flag
  BY DEF SetStopped, Fsm, Flag
<1>2. SetWatching => fsm' \in Fsm /\ flag' \in Flag
  BY DEF SetWatching, Fsm, Flag
<1>3. SetRecording => fsm' \in Fsm /\ flag' \in Flag
  BY DEF SetRecording, Fsm, Flag
<1>4. SetRecording => flag'.recording = TRUE
  BY DEF SetRecording
<1>5. QED
  BY <1>1, <1>2, <1>3, <1>4

-----------------------------------------------------------------------------
(* The capture's steps. *)

LEMMA GoesLiveKeeps ==
  ASSUME HealthIInv, GoesLive
  PROVE  HealthIInv'
<1>1. /\ Settled /\ task = "runs" /\ proc' = "mute" /\ fresh' = FALSE
      /\ flag' = [flag EXCEPT !.recording = TRUE, !.reserved = FALSE]
      /\ UNCHANGED <<fsm, task, line, act, sample, health, blocked, full, env, cuts, halted, spent>>
  BY DEF GoesLive, monitor, history
<1>2. Typed
  BY DEF HealthIInv
<1>3. flag' \in Flag /\ flag'.recording = TRUE
  BY <1>1, <1>2 DEF Typed, Flag
<1>4. Typed'
  BY <1>1, <1>2, <1>3 DEF Typed, Procs
<1>5. LineHolds' /\ RestartsAreBounded' /\ SettleHolds' /\ WaitHolds'
  BY <1>1, PlacesStay
<1>6. AliveHolds'
  BY <1>1, <1>3 DEF AliveHolds
<1>7. QED
  BY <1>4, <1>5, <1>6 DEF HealthIInv

LEMMA WritesExitsKeep ==
  ASSUME HealthIInv, Writes \/ Exits
  PROVE  HealthIInv'
<1>1. /\ Settled /\ Alive /\ proc' \in {"writes", "failed", "clean"} /\ fresh' \in {TRUE, fresh}
      /\ UNCHANGED <<fsm, flag, task, line, act, sample, health, blocked, full, env, cuts, halted, spent>>
  BY DEF Writes, Exits, channel, monitor, history
<1>2. Typed'
  BY <1>1 DEF HealthIInv, Typed, Procs
<1>3. LineHolds' /\ RestartsAreBounded' /\ SettleHolds' /\ WaitHolds'
  BY <1>1, PlacesStay
<1>4. AliveHolds'
  BY <1>1 DEF HealthIInv, AliveHolds
<1>5. QED
  BY <1>2, <1>3, <1>4 DEF HealthIInv

LEMMA AttemptEndsKeeps ==
  ASSUME HealthIInv, AttemptEnds
  PROVE  HealthIInv'
<1>1. /\ Settled /\ proc' = "none" /\ fresh' = FALSE
      /\ \/ SetWatching /\ task' = "rests"
         \/ SetStopped /\ task' = "none"
      /\ UNCHANGED <<line, act, sample, health, blocked, full, env, cuts, halted, spent>>
  BY DEF AttemptEnds, monitor, history
<1>2. fsm' \in Fsm /\ flag' \in Flag /\ task' \in Tasks
  BY <1>1, SetsAre DEF Tasks
<1>3. Typed'
  BY <1>1, <1>2 DEF HealthIInv, Typed, Procs
<1>4. LineHolds' /\ RestartsAreBounded' /\ SettleHolds' /\ WaitHolds'
  BY <1>1, PlacesStay
<1>5. AliveHolds'
  BY <1>1 DEF AliveHolds, Alive
<1>6. QED
  BY <1>3, <1>4, <1>5 DEF HealthIInv

LEMMA RespawnsKeeps ==
  ASSUME HealthIInv, Respawns
  PROVE  HealthIInv'
<1>1. /\ Settled /\ task = "rests"
      /\ \/ SetWatching /\ task' = "runs"
         \/ task' = "none" /\ UNCHANGED <<fsm, flag>>
      /\ UNCHANGED <<proc, fresh, line, act, sample, health, blocked, full, env, cuts, halted, spent>>
  BY DEF Respawns, capture, monitor, history
<1>2. fsm' \in Fsm /\ flag' \in Flag /\ task' \in Tasks
  BY <1>1, SetsAre DEF Tasks, HealthIInv, Typed
<1>3. Typed'
  BY <1>1, <1>2 DEF HealthIInv, Typed
<1>4. LineHolds' /\ RestartsAreBounded' /\ SettleHolds' /\ WaitHolds'
  BY <1>1, PlacesStay
<1>5. ~Alive'
  BY <1>1 DEF HealthIInv, AliveHolds, Alive
<1>6. QED
  BY <1>3, <1>4, <1>5 DEF HealthIInv, AliveHolds

LEMMA CoolsDownKeeps ==
  ASSUME HealthIInv, CoolsDown
  PROVE  HealthIInv'
<1>1. /\ Settled /\ health' = [health EXCEPT !.cooling = FALSE]
      /\ UNCHANGED <<fsm, flag, task, proc, fresh, line, act, sample, blocked, full, env>>
      /\ UNCHANGED <<cuts, halted, spent>>
  BY DEF CoolsDown, channel, capture, history
<1>2. health' \in Row /\ health'.attempts = health.attempts
  BY <1>1 DEF HealthIInv, Typed, Row
<1>3. Typed'
  BY <1>1, <1>2 DEF HealthIInv, Typed
<1>4. LineHolds' /\ RestartsAreBounded' /\ SettleHolds' /\ WaitHolds'
  BY <1>1, <1>2, PlacesStay
<1>5. AliveHolds'
  BY <1>1 DEF HealthIInv, AliveHolds, Alive
<1>6. QED
  BY <1>3, <1>4, <1>5 DEF HealthIInv

LEMMA UserSyncsKeeps ==
  ASSUME HealthIInv, UserSyncs
  PROVE  HealthIInv'
<1>1. /\ Settled /\ spent.requests < MaxRequests
      /\ spent' = [spent EXCEPT !.requests = @ + 1]
      /\ (Alive /\ SetRecording) \/ (~Alive /\ SetWatching)
      /\ UNCHANGED <<task, proc, fresh, line, act, sample, health, blocked, full, env, cuts, halted>>
  BY DEF UserSyncs, capture, monitor
<1>2. spent' \in SpentType
  BY <1>1, HealthAssumption DEF HealthIInv, Typed, SpentType
<1>3. fsm' \in Fsm /\ flag' \in Flag
  BY <1>1, SetsAre
<1>4. Typed'
  BY <1>1, <1>2, <1>3 DEF HealthIInv, Typed
<1>5. LineHolds' /\ RestartsAreBounded' /\ SettleHolds' /\ WaitHolds'
  BY <1>1, PlacesStay
<1>6. AliveHolds'
  BY <1>1, SetsAre DEF HealthIInv, AliveHolds, Alive
<1>7. QED
  BY <1>4, <1>5, <1>6 DEF HealthIInv

LEMMA WorldChangesKeeps ==
  ASSUME HealthIInv, WorldChanges
  PROVE  HealthIInv'
<1>1. /\ Settled /\ spent.changes < MaxChanges
      /\ spent' = [spent EXCEPT !.changes = @ + 1]
      /\ \/ env' = [env EXCEPT !.allowed = ~@]
         \/ env' = [env EXCEPT !.critical = ~@]
      /\ UNCHANGED <<fsm, flag, task, proc, fresh, line, act, sample, health, blocked, full>>
      /\ UNCHANGED <<cuts, halted>>
  BY DEF WorldChanges, channel, capture, monitor
<1>2. spent' \in SpentType
  BY <1>1, HealthAssumption DEF HealthIInv, Typed, SpentType
<1>3. env' \in Env
  BY <1>1 DEF HealthIInv, Typed, Env
<1>4. Typed'
  BY <1>1, <1>2, <1>3 DEF HealthIInv, Typed
<1>5. LineHolds' /\ RestartsAreBounded' /\ SettleHolds' /\ WaitHolds'
  BY <1>1, PlacesStay
<1>6. AliveHolds'
  BY <1>1 DEF HealthIInv, AliveHolds, Alive
<1>7. QED
  BY <1>4, <1>5, <1>6 DEF HealthIInv

-----------------------------------------------------------------------------
(* Starts and stops, under the lock. *)

LEMMA DelayOverKeeps ==
  ASSUME HealthIInv, NEW a \in Actors, DelayOver(a)
  PROVE  HealthIInv'
<1>1. /\ Settled /\ act[a].pc = "delay" /\ Goes(a, "begin", act[a].then)
      /\ UNCHANGED <<fsm, flag, task, proc, fresh, sample, health, blocked, full, env>>
      /\ UNCHANGED <<cuts, halted, spent>>
  BY DEF DelayOver, channel, capture, monitor, history
<1>2. Typed /\ act[a] \in PlaceRow /\ act[a].then \notin Locked \cup {"settle"}
  BY DEF HealthIInv, Typed, LineHolds
<1>3. act[a].then \in Places \ (Locked \cup {"settle"}) /\ act[a].pc \notin Locked
      /\ "begin" \in Places \ {"halt", "settle"}
  BY <1>1, <1>2 DEF PlaceRow, Places, Locked
<1>4. a = "monitor" => act["restart"].pc # "settle"
  BY <1>1 DEF HealthIInv, SettleHolds
<1>5. /\ act' \in [Actors -> PlaceRow] /\ line' \in Seq(Actors)
      /\ LineHolds' /\ RestartsAreBounded' /\ SettleHolds' /\ WaitHolds'
  BY <1>1, <1>3, <1>4, GoesKeeps
<1>6. Typed'
  BY <1>1, <1>2, <1>5 DEF Typed
<1>7. AliveHolds'
  BY <1>1 DEF HealthIInv, AliveHolds, Alive
<1>8. QED
  BY <1>5, <1>6, <1>7 DEF HealthIInv

\* A start changes flags and task only where nothing is captured.
LEMMA CoreStartKeeps ==
  ASSUME HealthIInv, NEW a \in Actors, CoreStart(a)
  PROVE  HealthIInv'
<1>1. /\ Holds(a, "begin") /\ Leaves(a)
      /\ UNCHANGED <<proc, fresh, sample, health, blocked, full, env>>
      /\ UNCHANGED <<cuts, halted, spent>>
  BY DEF CoreStart, capture, monitor, history
<1>2. \/ SetRecording /\ task' = task
      \/ UNCHANGED <<fsm, flag, task>>
      \/ ~Alive /\ SetWatching /\ task' = "runs"
  BY DEF CoreStart, channel
<1>3. /\ Typed /\ act \in [Actors -> PlaceRow] /\ line \in Seq(Actors) /\ LineHolds /\ AliveHolds
      /\ SettleHolds /\ WaitHolds
  BY DEF HealthIInv, Typed
<1>4. /\ act' \in [Actors -> PlaceRow] /\ act'[a].pc = act[a].then
      /\ \A b \in Actors \ {a} : act'[b] = act[b]
      /\ line' \in Seq(Actors) /\ LineHolds'
  BY <1>1, <1>3, LeavesGives DEF Locked
<1>5. fsm' \in Fsm /\ flag' \in Flag /\ task' \in Tasks
  BY <1>2, <1>3, SetsAre DEF Typed, Tasks
<1>6. Typed'
  BY <1>1, <1>3, <1>4, <1>5 DEF Typed
<1>7. RestartsAreBounded'
  BY <1>1 DEF HealthIInv, RestartsAreBounded
<1>8. AliveHolds'
  BY <1>1, <1>2, <1>3, SetsAre DEF AliveHolds, Alive
<1>9. act[a].then \notin Locked \cup {"settle"} /\ act[a].pc = "begin" /\ Head(line) = a
      /\ line # << >>
  BY <1>1, <1>3 DEF LineHolds, Holds
<1>10. SettleHolds'
  BY <1>1, <1>3, <1>4, <1>9, StringsAre DEF SettleHolds
<1>11. WaitHolds'
  <2>1. act'["restart"].pc = "stop" => act["restart"].pc = "stop"
    BY <1>4, <1>9, StringsAre DEF Locked
  <2>2. ~(act["restart"].pc = "stop" /\ Alive /\ fresh)
    BY <1>3, <1>9 DEF WaitHolds
  <2>3. QED
    BY <1>1, <2>1, <2>2 DEF WaitHolds, Alive
<1>12. QED
  BY <1>4, <1>6, <1>7, <1>8, <1>10, <1>11 DEF HealthIInv

LEMMA StopBeginsKeeps ==
  ASSUME HealthIInv, NEW a \in Actors, StopBegins(a)
  PROVE  HealthIInv'
<1>1. /\ Holds(a, "stop") /\ act' = [act EXCEPT ![a].pc = "halt"]
      /\ fsm' = [fsm EXCEPT !.stop = TRUE]
      /\ flag' = [flag EXCEPT !.stopped = TRUE, !.reserved = FALSE]
      /\ UNCHANGED <<task, proc, fresh, line, sample, health, blocked, full, env>>
      /\ UNCHANGED <<cuts, halted, spent>>
  BY DEF StopBegins, capture, monitor, history
<1>2. /\ Typed /\ act \in [Actors -> PlaceRow] /\ line \in Seq(Actors) /\ LineHolds /\ AliveHolds
      /\ SettleHolds /\ act[a] \in PlaceRow
  BY DEF HealthIInv, Typed
<1>3. /\ act' \in [Actors -> PlaceRow] /\ act'[a].pc = "halt" /\ act'[a].then = act[a].then
      /\ \A b \in Actors \ {a} : act'[b] = act[b]
  <2> DEFINE r == [act[a] EXCEPT !.pc = "halt"]
  <2>1. r \in PlaceRow /\ r.pc = "halt" /\ r.then = act[a].then
    BY <1>2 DEF PlaceRow, Places
  <2>2. act' = [act EXCEPT ![a] = r]
    BY <1>1
  <2> HIDE DEF r
  <2>3. QED
    BY <1>2, <2>1, <2>2
<1>4. line # << >> /\ Head(line) = a /\ act[a].pc = "stop"
  BY <1>1 DEF Holds
<1>5. fsm' \in Fsm /\ flag' \in Flag /\ flag'.recording = flag.recording
  BY <1>1, <1>2 DEF Typed, Fsm, Flag
<1>6. Typed'
  BY <1>1, <1>2, <1>3, <1>5 DEF Typed
<1>7. LineHolds'
  BY <1>1, <1>2, <1>3, <1>4 DEF LineHolds, Locked
<1>8. RestartsAreBounded'
  BY <1>1 DEF HealthIInv, RestartsAreBounded
<1>9. SettleHolds'
  BY <1>1, <1>2, <1>3, <1>4, StringsAre DEF SettleHolds
<1>10. AliveHolds'
  BY <1>1, <1>2, <1>5 DEF AliveHolds, Alive
<1>11. WaitHolds'
  BY <1>1, <1>3, <1>4 DEF WaitHolds
<1>12. QED
  BY <1>6, <1>7, <1>8, <1>9, <1>10, <1>11 DEF HealthIInv

LEMMA StopEndsKeeps ==
  ASSUME HealthIInv, NEW a \in Actors, StopEnds(a)
  PROVE  HealthIInv'
<1>1. /\ Holds(a, "halt") /\ Leaves(a) /\ SetStopped /\ task' = "none" /\ proc' = "none"
      /\ fresh' = FALSE
      /\ UNCHANGED <<sample, health, blocked, full, env, cuts, halted, spent>>
  BY DEF StopEnds, monitor, history
<1>2. /\ Typed /\ act \in [Actors -> PlaceRow] /\ line \in Seq(Actors) /\ LineHolds /\ SettleHolds
  BY DEF HealthIInv, Typed
<1>3. /\ act' \in [Actors -> PlaceRow] /\ act'[a].pc = act[a].then
      /\ \A b \in Actors \ {a} : act'[b] = act[b]
      /\ line' \in Seq(Actors) /\ LineHolds'
  BY <1>1, <1>2, LeavesGives DEF Locked
<1>4. Typed'
  BY <1>1, <1>2, <1>3, SetsAre DEF Typed, Tasks, Procs
<1>5. RestartsAreBounded'
  BY <1>1 DEF HealthIInv, RestartsAreBounded
<1>6. act[a].then \notin Locked \cup {"settle"} /\ act[a].pc = "halt"
  BY <1>1, <1>2 DEF LineHolds, Holds
<1>7. SettleHolds'
  BY <1>1, <1>2, <1>3, <1>6, StringsAre DEF SettleHolds
<1>8. AliveHolds' /\ WaitHolds'
  BY <1>1 DEF AliveHolds, WaitHolds, Alive
<1>9. QED
  BY <1>3, <1>4, <1>5, <1>7, <1>8 DEF HealthIInv

-----------------------------------------------------------------------------
(* The monitor and the restart. *)

LEMMA BootsKeeps ==
  ASSUME HealthIInv, Boots
  PROVE  HealthIInv'
<1>1. /\ Settled /\ act["monitor"].pc = "boot" /\ full' = env.critical
      /\ \/ Goes("monitor", "stop", "storage")
         \/ Goes("monitor", "storage", "idle")
      /\ UNCHANGED <<fsm, flag, task, proc, fresh, sample, health, blocked, env>>
      /\ UNCHANGED <<cuts, halted, spent>>
  BY DEF Boots, channel, capture, history
<1>2. Typed
  BY DEF HealthIInv
<1>3. full' \in BOOLEAN
  BY <1>1, <1>2 DEF Typed, Env
<1>4. act["restart"].pc # "settle"
  BY <1>1 DEF HealthIInv, SettleHolds
<1>5. /\ act["monitor"].pc \notin Locked /\ "monitor" \in Actors
      /\ "stop" \in Places \ {"halt", "settle"} /\ "storage" \in Places \ {"halt", "settle"}
      /\ "storage" \in Places \ (Locked \cup {"settle"}) /\ "idle" \in Places \ (Locked \cup {"settle"})
  BY <1>1 DEF Actors, Places, Locked
<1>6. /\ act' \in [Actors -> PlaceRow] /\ line' \in Seq(Actors)
      /\ LineHolds' /\ RestartsAreBounded' /\ SettleHolds' /\ WaitHolds'
  BY <1>1, <1>4, <1>5, StringsAre, GoesKeeps
<1>7. Typed'
  BY <1>1, <1>2, <1>3, <1>6 DEF Typed
<1>8. AliveHolds'
  BY <1>1 DEF HealthIInv, AliveHolds, Alive
<1>9. QED
  BY <1>6, <1>7, <1>8 DEF HealthIInv

LEMMA ReadsStorageKeeps ==
  ASSUME HealthIInv, ReadsStorage
  PROVE  HealthIInv'
<1> DEFINE n == IF act["monitor"].pc = "storage" THEN "first" ELSE "look"
<1>1. /\ Settled /\ full' = env.critical
      /\ \/ act["monitor"].pc = "storage"
         \/ act["monitor"].pc = "idle" /\ act["restart"].pc # "settle"
      /\ Goes("monitor", Guarded(FALSE, n), n) \/ Goes("monitor", n, "idle")
      /\ UNCHANGED <<fsm, flag, task, proc, fresh, sample, health, blocked, env>>
      /\ UNCHANGED <<cuts, halted, spent>>
  BY DEF ReadsStorage, channel, capture, history
<1>2. Typed
  BY DEF HealthIInv
<1>3. full' \in BOOLEAN
  BY <1>1, <1>2 DEF Typed, Env
<1>4. act["restart"].pc # "settle"
  BY <1>1 DEF HealthIInv, SettleHolds
<1>5. n \in {"first", "look"}
  OBVIOUS
<1> HIDE DEF n
<1>6. Guarded(FALSE, n) \in {n, "delay", "begin"}
  BY GuardedIs
<1>7. /\ act["monitor"].pc \notin Locked /\ "monitor" \in Actors
      /\ n \in Places \ {"halt", "settle"} /\ Guarded(FALSE, n) \in Places \ {"halt", "settle"}
      /\ n \in Places \ (Locked \cup {"settle"}) /\ "idle" \in Places \ (Locked \cup {"settle"})
  BY <1>1, <1>5, <1>6 DEF Actors, Places, Locked
<1>8. /\ act' \in [Actors -> PlaceRow] /\ line' \in Seq(Actors)
      /\ LineHolds' /\ RestartsAreBounded' /\ SettleHolds' /\ WaitHolds'
  BY <1>1, <1>4, <1>7, StringsAre, GoesKeeps
<1>9. Typed'
  BY <1>1, <1>2, <1>3, <1>8 DEF Typed
<1>10. AliveHolds'
  BY <1>1 DEF HealthIInv, AliveHolds, Alive
<1>11. QED
  BY <1>8, <1>9, <1>10 DEF HealthIInv

\* A flag without a process is taken back; a capture is not.
LEMMA ReconcilesKeeps ==
  ASSUME HealthIInv, Reconciles
  PROVE  HealthIInv'
<1> DEFINE stale == flag.recording /\ ~Alive
<1>1. /\ Settled /\ act["monitor"].pc = "tidy" /\ Goes("monitor", "idle", "idle")
      /\ flag' = [flag EXCEPT !.recording = @ /\ ~stale]
      /\ proc' = IF stale THEN "none" ELSE proc
      /\ UNCHANGED <<fsm, task, fresh, sample, health, blocked, full, env, cuts, halted, spent>>
  BY DEF Reconciles, monitor, history
<1>2. Typed /\ AliveHolds
  BY DEF HealthIInv
<1>3. /\ act["monitor"].pc \notin Locked /\ "monitor" \in Actors
      /\ "idle" \in Places \ {"halt", "settle"} /\ "idle" \in Places \ (Locked \cup {"settle"})
  BY <1>1 DEF Actors, Places, Locked
<1>4. /\ act' \in [Actors -> PlaceRow] /\ line' \in Seq(Actors)
      /\ LineHolds' /\ RestartsAreBounded' /\ SettleHolds' /\ WaitHolds'
  BY <1>1, <1>3, StringsAre, GoesKeeps
<1>5. flag' \in Flag /\ (~stale => flag'.recording = flag.recording) /\ proc' \in Procs
  BY <1>1, <1>2 DEF Typed, Flag, Procs
<1>6. Typed'
  BY <1>1, <1>2, <1>4, <1>5 DEF Typed
<1>7. AliveHolds'
  BY <1>1, <1>2, <1>5 DEF AliveHolds, Alive
<1>8. QED
  BY <1>4, <1>6, <1>7 DEF HealthIInv

LEMMA RestartStartsKeeps ==
  ASSUME HealthIInv, RestartStarts
  PROVE  HealthIInv'
<1>1. /\ Settled /\ act["restart"].pc = "pause" /\ Goes("restart", Guarded(FALSE, "idle"), "idle")
      /\ UNCHANGED <<fsm, flag, task, proc, fresh, sample, health, blocked, full, env>>
      /\ UNCHANGED <<cuts, halted, spent>>
  BY DEF RestartStarts, channel, capture, monitor, history
<1>2. Typed
  BY DEF HealthIInv
<1>3. Guarded(FALSE, "idle") \in {"idle", "delay", "begin"}
  BY GuardedIs
<1>4. /\ act["restart"].pc \notin Locked /\ "restart" \in Actors
      /\ Guarded(FALSE, "idle") \in Places \ {"halt", "settle"} /\ Guarded(FALSE, "idle") # "stop"
      /\ "idle" \in Places \ (Locked \cup {"settle"})
  BY <1>1, <1>3 DEF Actors, Places, Locked
<1>5. /\ act' \in [Actors -> PlaceRow] /\ line' \in Seq(Actors)
      /\ LineHolds' /\ RestartsAreBounded' /\ SettleHolds' /\ WaitHolds'
  BY <1>1, <1>4, StringsAre, GoesKeeps
<1>6. Typed'
  BY <1>1, <1>2, <1>5 DEF Typed
<1>7. AliveHolds'
  BY <1>1 DEF HealthIInv, AliveHolds, Alive
<1>8. QED
  BY <1>5, <1>6, <1>7 DEF HealthIInv

\* The cut is of the attempt that was counted when the restart was scheduled.
LEMMA RechecksKeeps ==
  ASSUME HealthIInv, Rechecks
  PROVE  HealthIInv'
<1>1. /\ Settled /\ act["restart"].pc = "settle" /\ health' = [health EXCEPT !.reason = "none"]
      /\ \/ StillNeeded /\ Goes("restart", "stop", "pause") /\ cuts' = cuts + 1
         \/ Goes("restart", "idle", "idle") /\ cuts' = cuts
      /\ UNCHANGED <<fsm, flag, task, proc, fresh, sample, blocked, full, env, halted, spent>>
  BY DEF Rechecks, channel, capture
<1>2. /\ Typed /\ act \in [Actors -> PlaceRow] /\ line \in Seq(Actors) /\ LineHolds /\ AliveHolds
      /\ cuts \in Nat /\ health.attempts \in 0..MaxAttempts /\ MaxAttempts \in Nat
      /\ cuts < health.attempts
  BY <1>1, HealthAssumption DEF HealthIInv, Typed, SettleHolds, Row
<1>3. /\ act["restart"].pc \notin Locked /\ "restart" \in Actors
      /\ "stop" \in Places \ {"halt"} /\ "idle" \in Places \ {"halt"}
      /\ "idle" \in Places \ (Locked \cup {"settle"}) /\ "pause" \in Places \ (Locked \cup {"settle"})
  BY <1>1 DEF Actors, Places, Locked
<1>4. /\ act' \in [Actors -> PlaceRow] /\ act'["restart"].pc \in {"stop", "idle"}
      /\ line' \in Seq(Actors) /\ LineHolds'
      /\ line # << >> => /\ line' # << >> /\ Head(line') = Head(line)
                        /\ act'[Head(line)] = act[Head(line)]
  BY <1>1, <1>2, <1>3, GoesGives
<1>5. act'["restart"].pc = "stop" => StillNeeded
  <2>1. CASE Goes("restart", "idle", "idle")
    BY <1>2, <1>3, <2>1, GoesGives
  <2>2. QED
    BY <1>1, <2>1
<1>6. health' \in Row /\ health'.attempts = health.attempts
  BY <1>1, <1>2 DEF Typed, Row
<1>7. cuts' \in 0..(MaxAttempts + 1) /\ cuts' <= health.attempts
  BY <1>1, <1>2
<1>8. Typed'
  BY <1>1, <1>2, <1>4, <1>6, <1>7 DEF Typed
<1>9. RestartsAreBounded' /\ SettleHolds'
  BY <1>4, <1>6, <1>7 DEF RestartsAreBounded, SettleHolds
<1>10. AliveHolds'
  BY <1>1, <1>2 DEF AliveHolds, Alive
<1>11. WaitHolds'
  <2>1. StillNeeded => ~(Alive /\ fresh)
    BY <1>2 DEF StillNeeded, AliveHolds, Alive
  <2>2. QED
    BY <1>1, <1>5, <2>1 DEF WaitHolds, Alive
<1>12. QED
  BY <1>4, <1>8, <1>9, <1>10, <1>11 DEF HealthIInv

LEMMA SampleIs ==
  ASSUME Typed
  PROVE  [age |-> AgeNow, checks |-> ChecksNow,
          exit |-> flag.recording /\ Exited, watch |-> Watched] \in Sample
<1>1. /\ sample.age \in 0..StallAge /\ sample.checks \in 0..StallChecks
      /\ StallAge \in Nat \ {0} /\ StallChecks \in Nat \ {0}
  BY HealthAssumption DEF Typed, Sample
<1>2. AgeNow \in 0..StallAge
  BY <1>1 DEF AgeNow
<1>3. ChecksNow \in 0..StallChecks
  BY <1>1 DEF ChecksNow
<1>4. flag.recording \in BOOLEAN /\ flag.reserved \in BOOLEAN
  BY DEF Typed, Flag
<1>5. (flag.recording /\ Exited) \in BOOLEAN /\ Watched \in BOOLEAN
  BY <1>4 DEF Exited, Watched
<1>6. QED
  BY <1>2, <1>3, <1>5 DEF Sample

\* A sample counts the attempt it schedules a restart for, and forgets the
\* attempts together with the cuts, when it sees the file grow.
LEMMA SamplesKeeps ==
  ASSUME HealthIInv, Samples
  PROVE  HealthIInv'
<1> DEFINE rest == IF act["monitor"].pc = "first" THEN "tidy" ELSE "idle"
           place == IF RuleBroken THEN "stop"
                    ELSE IF env.allowed /\ blocked THEN Guarded(FALSE, rest) ELSE rest
           growing(y, o) == Grows(y) /\ ~o /\ env.allowed /\ ~blocked
           tries(y, o) == AttemptsKept(growing(y, o))
           limit(o) == IF o THEN [pc |-> "due", then |-> "idle"] ELSE act["limit"]
           schedule(s, y, o) == /\ s # "none" /\ ~o /\ ~RuleBroken /\ ~blocked
                                /\ MayRestart(tries(y, o))
           restart(s, y, o) == IF schedule(s, y, o) /\ ~(tries(y, o) + 1 >= BreakerAfter)
                               THEN [pc |-> "settle", then |-> "idle"] ELSE act["restart"]
<1>1. /\ Settled /\ act["monitor"].pc \in {"first", "look"} /\ fresh' = FALSE
      /\ sample' = [age |-> AgeNow, checks |-> ChecksNow,
                    exit |-> flag.recording /\ Exited, watch |-> Watched]
      /\ UNCHANGED <<fsm, flag, task, proc, full, env, halted, spent>>
  BY DEF Samples, channel
<1>2. PICK s \in Reasons \cup {"none"}, y \in BOOLEAN, o \in BOOLEAN :
        /\ o => Limited /\ flag.recording /\ act["limit"].pc = "idle"
        /\ act' = [act EXCEPT !["monitor"] = [pc |-> place, then |-> rest],
                              !["limit"] = limit(o), !["restart"] = restart(s, y, o)]
        /\ line' = IF place \in {"stop", "begin"} THEN Append(line, "monitor") ELSE line
        /\ blocked' = (RuleBroken \/ (blocked /\ ~env.allowed))
        /\ health' = [attempts |-> IF schedule(s, y, o) THEN tries(y, o) + 1 ELSE tries(y, o),
                      cooling |-> health.cooling \/ schedule(s, y, o),
                      reason |-> IF restart(s, y, o).pc = "settle" THEN s ELSE "none"]
        /\ cuts' = IF growing(y, o) THEN 0 ELSE cuts
  BY DEF Samples
<1>3. /\ Typed /\ act \in [Actors -> PlaceRow] /\ line \in Seq(Actors) /\ LineHolds /\ AliveHolds
      /\ act["restart"].pc # "settle" /\ cuts \in 0..(MaxAttempts + 1) /\ cuts <= health.attempts
      /\ health.attempts \in 0..MaxAttempts /\ MaxAttempts \in Nat
  BY <1>1, HealthAssumption DEF HealthIInv, Typed, SettleHolds, Row, RestartsAreBounded
<1>4. rest \in {"tidy", "idle"}
  OBVIOUS
<1>5. /\ place \in {"stop", "delay", "begin", rest}
      /\ schedule(s, y, o) => place = rest
  <2>1. Guarded(FALSE, rest) \in {rest, "delay", "begin"}
    BY GuardedIs
  <2>2. QED
    BY <2>1
<1>6. tries(y, o) \in 0..MaxAttempts /\ cuts' \in 0..(MaxAttempts + 1) /\ cuts' <= tries(y, o)
  BY <1>2, <1>3 DEF AttemptsKept
<1>7. schedule(s, y, o) => tries(y, o) < MaxAttempts /\ act["restart"].pc = "idle"
  BY DEF MayRestart
<1> DEFINE g == schedule(s, y, o)
           n == tries(y, o)
           q == restart(s, y, o)
           m == limit(o)
<1>8. /\ q \in PlaceRow /\ q.then \notin Locked \cup {"settle"}
      /\ q = act["restart"] \/ (g /\ act["restart"].pc = "idle" /\ q.pc = "settle")
  <2>1. [pc |-> "settle", then |-> "idle"] \in PlaceRow
    BY DEF PlaceRow, Places
  <2>2. act["restart"] \in PlaceRow /\ act["restart"].then \notin Locked \cup {"settle"}
    BY <1>3, StringsAre DEF LineHolds
  <2>3. QED
    BY <1>7, <2>1, <2>2 DEF Locked
<1>9. /\ m \in PlaceRow /\ m.then \notin Locked \cup {"settle"}
      /\ m = act["limit"] \/ (act["limit"].pc = "idle" /\ m.pc = "due")
  <2>1. [pc |-> "due", then |-> "idle"] \in PlaceRow
    BY DEF PlaceRow, Places
  <2>2. act["limit"] \in PlaceRow /\ act["limit"].then \notin Locked \cup {"settle"}
    BY <1>3, StringsAre DEF LineHolds
  <2>3. QED
    BY <1>2, <2>1, <2>2 DEF Locked
<1>10. /\ act' = [act EXCEPT !["monitor"] = [pc |-> place, then |-> rest],
                             !["limit"] = m, !["restart"] = q]
       /\ line' = IF place \in {"stop", "begin"} THEN Append(line, "monitor") ELSE line
       /\ blocked' \in BOOLEAN
       /\ health' = [attempts |-> IF g THEN n + 1 ELSE n, cooling |-> health.cooling \/ g,
                     reason |-> IF q.pc = "settle" THEN s ELSE "none"]
       /\ g => place = rest /\ n < MaxAttempts
       /\ n \in 0..MaxAttempts /\ cuts' <= n
  <2>1. blocked' \in BOOLEAN
    BY <1>2
  <2>2. QED
    BY <1>2, <1>5, <1>6, <1>7, <2>1
<1> HIDE DEF g, n, q, m, place, rest
<1>11. [pc |-> place, then |-> rest] \in PlaceRow
  BY <1>4, <1>5 DEF PlaceRow, Places
<1>12. /\ act' \in [Actors -> PlaceRow] /\ act'["monitor"] = [pc |-> place, then |-> rest]
       /\ act'["limit"] = m /\ act'["restart"] = q /\ act'["user"] = act["user"]
  BY <1>3, <1>8, <1>9, <1>10, <1>11, StringsAre DEF Actors
<1>13. /\ line' \in Seq(Actors) /\ LineHolds'
       /\ line # << >> => /\ line' # << >> /\ Head(line') = Head(line)
                         /\ act'[Head(line)] = act[Head(line)]
  <2>1. act["monitor"].pc \notin Locked /\ "monitor" \in Actors
    BY <1>1, StringsAre DEF Locked
  <2>2. /\ act'["monitor"].pc # "halt" /\ act'["monitor"].then \notin Locked \cup {"settle"}
        /\ line' = IF act'["monitor"].pc \in {"begin", "stop"} THEN Append(line, "monitor") ELSE line
    BY <1>4, <1>5, <1>10, <1>12 DEF Locked
  <2>3. ASSUME NEW b \in Actors \ {"monitor"}
        PROVE  \/ act'[b] = act[b]
               \/ /\ act[b].pc \notin Locked /\ act'[b].pc \notin Locked
                  /\ act'[b].then \notin Locked \cup {"settle"}
    <3>1. b \in {"limit", "restart", "user"}
      BY DEF Actors
    <3>2. CASE b = "limit"
      BY <1>9, <1>12, <3>2 DEF Locked
    <3>3. CASE b = "restart"
      BY <1>8, <1>12, <3>3 DEF Locked
    <3>4. CASE b = "user"
      BY <1>12, <3>4
    <3>5. QED
      BY <3>1, <3>2, <3>3, <3>4
  <2>4. QED
    BY <1>3, <1>12, <2>1, <2>2, <2>3, MoveGives
<1>14. health' \in Row /\ health'.attempts = IF g THEN n + 1 ELSE n
  <2>1. (IF g THEN n + 1 ELSE n) \in 0..MaxAttempts
    BY <1>3, <1>10
  <2>2. (health.cooling \/ g) \in BOOLEAN
    OBVIOUS
  <2>3. (IF q.pc = "settle" THEN s ELSE "none") \in Reasons \cup {"none"}
    OBVIOUS
  <2>4. QED
    BY <1>10, <2>1, <2>2, <2>3 DEF Row
<1>15. Typed'
  BY <1>1, <1>3, <1>6, <1>10, <1>12, <1>13, <1>14, SampleIs DEF Typed
<1>16. RestartsAreBounded'
  BY <1>3, <1>6, <1>10, <1>14 DEF RestartsAreBounded
<1>17. SettleHolds'
  <2>1. q.pc = "settle" => g
    BY <1>3, <1>8
  <2>2. g => act'["monitor"].pc \in {"idle", "tidy"} /\ cuts' < health'.attempts
    BY <1>3, <1>4, <1>6, <1>10, <1>12, <1>14
  <2>3. QED
    BY <1>12, <2>1, <2>2 DEF SettleHolds
<1>18. AliveHolds' /\ WaitHolds'
  BY <1>1, <1>3 DEF AliveHolds, WaitHolds, Alive
<1>19. QED
  BY <1>13, <1>15, <1>16, <1>17, <1>18 DEF HealthIInv

-----------------------------------------------------------------------------
(* Users and the duration limit. *)

\* A user or the limit goes somewhere, having changed nothing but the flags
\* that say what is wanted.
LEMMA AskedKeeps ==
  ASSUME HealthIInv, Settled, NEW a \in {"user", "limit"}, act[a].pc \notin Locked,
         NEW p \in Places \ {"halt", "settle"}, NEW n \in Places \ (Locked \cup {"settle"}),
         Goes(a, p, n), flag' \in Flag, flag'.recording = flag.recording,
         halted' \in BOOLEAN, spent' \in SpentType,
         UNCHANGED <<fsm, task, capture, monitor, env, cuts>>
  PROVE  HealthIInv'
<1>1. UNCHANGED <<fsm, task, proc, fresh, sample, health, blocked, full, env, cuts>>
  BY DEF capture, monitor
<1>2. a \in Actors /\ a # "monitor" /\ a # "restart"
  BY StringsAre
<1>3. /\ act' \in [Actors -> PlaceRow] /\ line' \in Seq(Actors)
      /\ LineHolds' /\ RestartsAreBounded' /\ SettleHolds' /\ WaitHolds'
  BY <1>1, <1>2, GoesKeeps
<1>4. Typed'
  BY <1>1, <1>3 DEF HealthIInv, Typed
<1>5. AliveHolds'
  BY <1>1 DEF HealthIInv, AliveHolds, Alive
<1>6. QED
  BY <1>3, <1>4, <1>5 DEF HealthIInv

LEMMA RequestIs ==
  ASSUME Typed, NEW h \in BOOLEAN, Requests(h)
  PROVE  /\ act["user"].pc \notin Locked /\ spent' \in SpentType /\ halted' \in BOOLEAN
         /\ UNCHANGED <<fsm, task, capture, monitor, env, cuts>>
<1>1. /\ act["user"].pc = "idle" /\ spent.requests < MaxRequests /\ halted' = h
      /\ spent' = [spent EXCEPT !.requests = @ + 1]
      /\ UNCHANGED <<fsm, task, capture, monitor, env, cuts>>
  BY DEF Requests
<1>2. spent' \in SpentType
  BY <1>1, HealthAssumption DEF Typed, SpentType
<1>3. QED
  BY <1>1, <1>2 DEF Locked

LEMMA StopsIs ==
  ASSUME Typed, NEW a, Stops(a)
  PROVE  flag' \in Flag /\ flag'.recording = flag.recording /\ Goes(a, "stop", "idle")
BY DEF Stops, Typed, Flag

LEMMA PlacesAre ==
  /\ "stop" \in Places \ {"halt", "settle"} /\ "idle" \in Places \ {"halt", "settle"}
  /\ "idle" \in Places \ (Locked \cup {"settle"}) /\ "again" \in Places \ (Locked \cup {"settle"})
  /\ \A u \in BOOLEAN : Guarded(u, "idle") \in Places \ {"halt", "settle"}
<1>1. \A u \in BOOLEAN : Guarded(u, "idle") \in {"idle", "delay", "begin"}
  BY GuardedIs
<1>2. QED
  BY <1>1 DEF Places, Locked

LEMMA LimitStopsKeeps ==
  ASSUME HealthIInv, LimitStops
  PROVE  HealthIInv'
<1>1. /\ Settled /\ act["limit"].pc = "due" /\ Stops("limit")
      /\ UNCHANGED <<fsm, task, capture, monitor, env, cuts, halted, spent>>
  BY DEF LimitStops, history
<1>2. Typed /\ halted \in BOOLEAN /\ spent \in SpentType
  BY DEF HealthIInv, Typed
<1>3. act["limit"].pc \notin Locked
  BY <1>1 DEF Locked
<1>4. QED
  BY <1>1, <1>2, <1>3, StopsIs, PlacesAre, AskedKeeps

LEMMA UserStopsKeeps ==
  ASSUME HealthIInv, UserStops
  PROVE  HealthIInv'
<1>1. Settled /\ Requests(TRUE) /\ Stops("user") /\ Typed
  BY DEF UserStops, HealthIInv
<1>2. QED
  BY <1>1, RequestIs, StopsIs, PlacesAre, AskedKeeps

LEMMA UserStartsKeeps ==
  ASSUME HealthIInv, UserStarts
  PROVE  HealthIInv'
<1>1. Settled /\ Requests(FALSE) /\ Typed
  BY DEF UserStarts, HealthIInv
<1>2. PICK u \in BOOLEAN : Goes("user", Guarded(u, "idle"), "idle")
  BY DEF UserStarts
<1>3. flag' \in Flag /\ flag'.recording = flag.recording
  <2>1. flag' = flag \/ flag' = [flag EXCEPT !.stopped = FALSE, !.reserved = TRUE]
    BY DEF UserStarts
  <2>2. QED
    BY <1>1, <2>1 DEF Typed, Flag
<1>4. QED
  BY <1>1, <1>2, <1>3, RequestIs, PlacesAre, AskedKeeps

LEMMA UserRechecksKeeps ==
  ASSUME HealthIInv, UserRechecks
  PROVE  HealthIInv'
<1>1. /\ Settled /\ Requests(FALSE) /\ Typed /\ flag' = [flag EXCEPT !.stopped = FALSE]
      /\ Goes("user", Guarded(TRUE, "idle"), "idle")
  BY DEF UserRechecks, HealthIInv
<1>2. flag' \in Flag /\ flag'.recording = flag.recording
  BY <1>1 DEF Typed, Flag
<1>3. QED
  BY <1>1, <1>2, RequestIs, PlacesAre, AskedKeeps

LEMMA UserRestartsKeeps ==
  ASSUME HealthIInv, UserRestarts
  PROVE  HealthIInv'
<1>1. /\ Settled /\ Requests(FALSE) /\ Typed /\ flag' = flag
      /\ Goes("user", "stop", "again")
  BY DEF UserRestarts, HealthIInv
<1>2. flag' \in Flag /\ flag'.recording = flag.recording
  BY <1>1 DEF Typed
<1>3. QED
  BY <1>1, <1>2, RequestIs, PlacesAre, AskedKeeps

LEMMA UserRestartsAgainKeeps ==
  ASSUME HealthIInv, UserRestartsAgain
  PROVE  HealthIInv'
<1>1. /\ Settled /\ act["user"].pc = "again" /\ flag' = [flag EXCEPT !.stopped = FALSE]
      /\ Goes("user", Guarded(TRUE, "idle"), "idle")
      /\ UNCHANGED <<fsm, task, capture, monitor, env, cuts, halted, spent>>
  BY DEF UserRestartsAgain, history
<1>2. Typed /\ halted \in BOOLEAN /\ spent \in SpentType
  BY DEF HealthIInv, Typed
<1>3. act["user"].pc \notin Locked
  BY <1>1 DEF Locked
<1>4. flag' \in Flag /\ flag'.recording = flag.recording
  BY <1>1, <1>2 DEF Typed, Flag
<1>5. QED
  BY <1>1, <1>2, <1>3, <1>4, PlacesAre, AskedKeeps

-----------------------------------------------------------------------------
(* The induction. *)

LEMMA InitHolds ==
  ASSUME Init
  PROVE  HealthIInv
<1>1. MaxAttempts \in Nat /\ StallAge \in Nat /\ StallChecks \in Nat /\ AutoMode \in BOOLEAN
      /\ MaxRequests \in Nat /\ MaxChanges \in Nat
  BY HealthAssumption
<1>2. fsm \in Fsm /\ flag \in Flag /\ task \in Tasks /\ proc \in Procs /\ fresh \in BOOLEAN
  <2>1. /\ fsm = [state |-> IF AutoMode THEN "WATCHING" ELSE "STOPPED", stop |-> ~AutoMode]
        /\ flag = [stopped |-> FALSE, reserved |-> AutoMode, recording |-> FALSE]
        /\ task = (IF AutoMode THEN "runs" ELSE "none") /\ proc = "none" /\ fresh = FALSE
    BY DEF Init
  <2>2. fsm \in Fsm
    BY <1>1, <2>1 DEF Fsm
  <2>3. flag \in Flag
    BY <1>1, <2>1 DEF Flag
  <2>4. QED
    BY <2>1, <2>2, <2>3 DEF Tasks, Procs
<1>3. line = << >> /\ line \in Seq(Actors)
  BY DEF Init
<1>4. /\ act \in [Actors -> PlaceRow]
      /\ \A a \in Actors : act[a].pc \in {"boot", "idle"} /\ act[a].then = "idle"
  <2>1. act = [a \in Actors |-> [pc |-> IF a = "monitor" THEN "boot" ELSE "idle", then |-> "idle"]]
    BY DEF Init
  <2>2. \A a \in Actors :
          [pc |-> IF a = "monitor" THEN "boot" ELSE "idle", then |-> "idle"] \in PlaceRow
    BY DEF PlaceRow, Places
  <2>3. QED
    BY <2>1, <2>2
<1>5. sample \in Sample /\ health \in Row /\ spent \in SpentType
  <2>1. sample = [age |-> 0, checks |-> 0, exit |-> FALSE, watch |-> FALSE]
    BY DEF Init
  <2>2. health = [attempts |-> 0, cooling |-> FALSE, reason |-> "none"]
    BY DEF Init
  <2>3. spent = [requests |-> 0, changes |-> 0]
    BY DEF Init
  <2>4. sample \in Sample
    BY <1>1, <2>1 DEF Sample
  <2>5. health \in Row
    BY <1>1, <2>2 DEF Row
  <2>6. QED
    BY <1>1, <2>3, <2>4, <2>5 DEF SpentType
<1>6. /\ blocked \in BOOLEAN /\ full \in BOOLEAN /\ env \in Env
      /\ cuts = 0 /\ cuts \in 0..(MaxAttempts + 1) /\ halted \in BOOLEAN
  <2>1. /\ blocked = FALSE /\ full = FALSE /\ cuts = 0 /\ halted = FALSE
        /\ env \in [allowed : BOOLEAN, critical : BOOLEAN]
    BY DEF Init
  <2>2. blocked \in BOOLEAN /\ full \in BOOLEAN /\ halted \in BOOLEAN
    BY <2>1, Zenon
  <2>3. env \in Env
    BY <2>1, Zenon DEF Env
  <2>4. cuts \in 0..(MaxAttempts + 1)
    BY <1>1, <2>1
  <2>5. QED
    BY <2>1, <2>2, <2>3, <2>4, Zenon
<1>7. Typed
  BY <1>2, <1>3, <1>4, <1>5, <1>6 DEF Typed
<1>8. LineHolds
  BY <1>3, <1>4 DEF LineHolds, Locked
<1>9. RestartsAreBounded
  BY <1>5, <1>6 DEF RestartsAreBounded, Row
<1>10. SettleHolds /\ AliveHolds /\ WaitHolds
  BY <1>4, StringsAre DEF Init, SettleHolds, AliveHolds, WaitHolds, Alive
<1>11. QED
  BY <1>7, <1>8, <1>9, <1>10 DEF HealthIInv

LEMMA StutterKeeps ==
  ASSUME HealthIInv, UNCHANGED vars
  PROVE  HealthIInv'
BY DEF HealthIInv, Typed, LineHolds, RestartsAreBounded, SettleHolds, AliveHolds, WaitHolds, Alive,
       vars, channel, capture, monitor, history

LEMMA NextKeeps ==
  ASSUME HealthIInv, Next
  PROVE  HealthIInv'
<1>1. ASSUME NEW a \in Actors, DelayOver(a) \/ CoreStart(a) \/ StopBegins(a) \/ StopEnds(a)
      PROVE  HealthIInv'
  BY <1>1, DelayOverKeeps, CoreStartKeeps, StopBeginsKeeps, StopEndsKeeps
<1>2. CASE GoesLive \/ Writes \/ Exits \/ AttemptEnds \/ Respawns
  BY <1>2, GoesLiveKeeps, WritesExitsKeep, AttemptEndsKeeps, RespawnsKeeps
<1>3. CASE Boots \/ ReadsStorage \/ Samples \/ Reconciles \/ CoolsDown
  BY <1>3, BootsKeeps, ReadsStorageKeeps, SamplesKeeps, ReconcilesKeeps, CoolsDownKeeps
<1>4. CASE Rechecks \/ RestartStarts \/ LimitStops
  BY <1>4, RechecksKeeps, RestartStartsKeeps, LimitStopsKeeps
<1>5. CASE UserStops \/ UserStarts \/ UserRechecks \/ UserRestarts \/ UserRestartsAgain \/ UserSyncs
  BY <1>5, UserStopsKeeps, UserStartsKeeps, UserRechecksKeeps, UserRestartsKeeps,
     UserRestartsAgainKeeps, UserSyncsKeeps
<1>6. CASE WorldChanges
  BY <1>6, WorldChangesKeeps
<1>7. QED
  BY <1>1, <1>2, <1>3, <1>4, <1>5, <1>6 DEF Next

\* The inductive invariant holds of every behaviour of the monitored channel.
THEOREM HealthIsSafe == HealthSpec => []HealthIInv
<1>1. Init => HealthIInv
  BY InitHolds
<1>2. HealthIInv /\ [Next]_vars => HealthIInv'
  BY NextKeeps, StutterKeeps
<1>3. QED
  BY <1>1, <1>2, PTL DEF HealthSpec

\* Types, and the bound on automatic reconnection: since its file was last seen
\* growing, a capture was cut by no more restarts than the attempts on record
\* (operations_health.py's restart_attempts, below max_restart_attempts).
THEOREM RestartsStayBounded == HealthSpec => []HealthInv
<1>1. HealthIInv => HealthInv
  <2> SUFFICES ASSUME HealthIInv PROVE HealthInv
    OBVIOUS
  <2>1. Typed /\ LineHolds /\ RestartsAreBounded
    BY DEF HealthIInv
  <2>2. /\ fsm \in [state : {"STOPPED", "WATCHING", "RECORDING"}, stop : BOOLEAN]
        /\ flag \in [stopped : BOOLEAN, reserved : BOOLEAN, recording : BOOLEAN]
        /\ task \in {"none", "runs", "rests"}
        /\ proc \in {"none", "mute", "writes", "failed", "clean"}
        /\ fresh \in BOOLEAN /\ line \in Seq(Actors)
    BY <2>1 DEF Typed, Fsm, Flag, Tasks, Procs
  <2>3. act \in [Actors -> [pc : Places, then : Places]]
    BY <2>1 DEF Typed, PlaceRow
  <2>4. \A a \in Actors :
          act[a].pc \in {"begin", "stop", "halt"} <=> \E i \in DOMAIN line : line[i] = a
    BY <2>1 DEF LineHolds, Locked
  <2>5. /\ sample \in [age : 0..StallAge, checks : 0..StallChecks, exit : BOOLEAN, watch : BOOLEAN]
        /\ health \in [attempts : 0..MaxAttempts, cooling : BOOLEAN, reason : Reasons \cup {"none"}]
        /\ blocked \in BOOLEAN /\ full \in BOOLEAN
        /\ env \in [allowed : BOOLEAN, critical : BOOLEAN]
        /\ cuts \in 0..(MaxAttempts + 1) /\ halted \in BOOLEAN
        /\ spent \in [requests : 0..MaxRequests, changes : 0..MaxChanges]
    BY <2>1 DEF Typed, Sample, Row, Env, SpentType
  <2>6. HealthTypeOK
    BY <2>2, <2>3, <2>4, <2>5 DEF HealthTypeOK
  <2>7. QED
    BY <2>1, <2>6 DEF HealthInv
<1>2. QED
  BY <1>1, HealthIsSafe, PTL

\* However long a restart waits for the channel's lock, what it then cuts has
\* not grown since the sample that condemned it: while it waits a file grows
\* only under another stop, which ends that capture before the lock is free.
THEOREM GrowingIsNeverRestarted == HealthSpec => OnlyFailingIsRestarted
<1>1. HealthIInv => \A a \in {"restart"} : StopBegins(a) => ~(Alive /\ fresh)
  <2> SUFFICES ASSUME HealthIInv, StopBegins("restart"), Alive, fresh PROVE FALSE
    OBVIOUS
  <2>1. act["restart"].pc = "stop" /\ line # << >> /\ Head(line) = "restart"
    BY DEF StopBegins, Holds
  <2>2. act[Head(line)].pc = "halt"
    BY <2>1 DEF HealthIInv, WaitHolds
  <2>3. QED
    BY <2>1, <2>2
<1>2. HealthIInv => [\A a \in {"restart"} : StopBegins(a) => ~(Alive /\ fresh)]_vars
  BY <1>1
<1>3. QED
  BY <1>2, HealthIsSafe, PTL DEF OnlyFailingIsRestarted
=============================================================================
