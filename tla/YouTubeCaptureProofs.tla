------------------------ MODULE YouTubeCaptureProofs ------------------------
(***************************************************************************)
(* Proofs about YouTubeCapture, for every number of sessions.              *)
(*                                                                         *)
(* One capture at a time is proved for channels whose processes the        *)
(* controller owns, the fate of merged files for file name patterns that   *)
(* tell sessions apart.  YtIInv says what the attempt, the stop and the    *)
(* movers of files leave behind for each other.                            *)
(***************************************************************************)
EXTENDS YouTubeCapture, FiniteSetTheorems, TLAPS

\* The attempt's place says how far the process of its session is, a stop finds
\* the flags up, and no flag is up without one unless the channel is at rest.
AttemptHolds ==
    /\ run.pc = "launch" => proc[run.of] = "none"
    /\ run.pc \in {"wait", "last"} => proc[run.of] # "none"
    /\ run.pc \in {"join", "grace", "settle", "move"} => proc[run.of] = "gone"
    /\ run.pc = "wait" => rm.proc = run.of
    /\ halt.pc = "none" => halt = NoHalt
    /\ halt.pc = "term" => run = NoRun
    /\ halt.pc # "none" => fsm.stop /\ ~rest /\ run.pc \notin {"meta", "launch", "wait"}
    /\ halt.pc = "none" /\ fsm.stop => fsm.state = "STOPPED" /\ run = NoRun /\ ~rm.recording

\* The controller has the attempt's process in hand, or the stop has it.
CaptureHolds ==
    /\ halt.pc = "none" => \A s \in Alive : run.pc = "wait" /\ run.of = s
    /\ halt.pc # "none" => Alive \subseteq {halt.held}

\* Where the names differ, what lies at a session's output, in the destination
\* or in a mover's hands was made of that session.
OwnFiles ==
    /\ \A s \in Sessions : final[s] = NoFile \/ final[s].of = s
    /\ \A s \in Sessions, m \in Movers :
         /\ dest[<<s, m>>] = NoFile \/ dest[<<s, m>>].of = s
         /\ mover[<<s, m>>].took = NoFile \/ mover[<<s, m>>].took.of = s
         /\ mover[<<s, m>>].pc \in {"copying", "loose"} => mover[<<s, m>>].took # NoFile

Early(s) == proc[s] \in {"none", "down", "mux"}
Whole(s) == [of |-> s, whole |-> TRUE]

\* Nobody moves the file of a session that is not merged yet, unless its attempt
\* was cancelled; what was merged is whole wherever it goes.
MergeHolds ==
    /\ halt.pc = "none" /\ run.of # NoSession => cut[run.of] = "no"
    /\ \A s \in Sessions : proc[s] = "none" => cut[s] = "no"
    /\ \A s \in merged : ~Early(s)
    /\ \A s \in Sessions : cut[s] # "early" =>
         /\ Early(s) => \A m \in Movers : mover[<<s, m>>] = NoMove /\ dest[<<s, m>>] = NoFile
         /\ proc[s] = "mux" => final[s] = [of |-> s, whole |-> FALSE]
         /\ s \in merged =>
              /\ final[s] \in {Whole(s), NoFile}
              /\ final[s] = Whole(s) \/ \E m \in Movers : dest[<<s, m>>] = Whole(s)
              /\ \A m \in Movers : mover[<<s, m>>].took \in {Whole(s), NoFile}

\* One mover has the lock, and without a stop the first to get to its end empties
\* the output path.
MoveHolds ==
    /\ \A x, y \in Moving : x = y
    /\ ~MoveAfter => \A x \in DOMAIN mover : mover[x].pc = "idle" /\ dest[x] = NoFile
    /\ \A s \in merged : MoveAfter => mover[<<s, "pipe">>].pc # "idle"
    /\ \A s \in Sessions : cut[s] = "no" => \A m \in Movers :
         /\ mover[<<s, m>>].pc # "loose"
         /\ mover[<<s, m>>].pc = "copying" => final[s] # NoFile
         /\ s \in merged /\ mover[<<s, m>>].pc = "done" => final[s] = NoFile
         /\ dest[<<s, m>>] # NoFile => /\ final[s] = NoFile
                                   /\ \A k \in Movers : dest[<<s, k>>] # NoFile => k = m

YtIInv ==
    /\ YtTypeOK /\ AttemptHolds
    /\ Controlled => CaptureHolds
    /\ ~OneName => OwnFiles /\ MergeHolds /\ MoveHolds

-----------------------------------------------------------------------------
(* Types and the attempt.                                                  *)

FsmType == [state : {"STOPPED", "WATCHING", "RECORDING"}, stop : BOOLEAN]
RmType == [stopped : BOOLEAN, recording : BOOLEAN, proc : MaybeSession]
RunType == [pc : {"none", "meta", "launch", "wait", "join", "grace", "settle", "move", "last"},
            of : MaybeSession]
HaltType == [pc : {"none", "cancel", "term"}, held : MaybeSession]
ProcType == [Sessions -> {"none", "down", "mux", "done", "gone"}]
FragsType == [Sessions -> {"none", "kept", "removed"}]
MoveType == [pc : {"idle", "due", "copying", "loose", "done", "failed"},
             took : File \cup {NoFile}]
Slots == Sessions \X Movers
MoverType == [Slots -> MoveType]
DestType == [Slots -> File \cup {NoFile}]
FinalType == [Sessions -> File \cup {NoFile}]

ControlType ==
    /\ fsm \in FsmType /\ rm \in RmType /\ run \in RunType
    /\ (run.of = NoSession) <=> (run.pc \in {"none", "meta"})
    /\ rest \in BOOLEAN /\ halt \in HaltType

OutputType ==
    /\ proc \in ProcType /\ checker \subseteq Sessions /\ frags \in FragsType
    /\ final \in FinalType /\ mover \in MoverType /\ dest \in DestType
    /\ merged \subseteq Sessions /\ cut \in [Sessions -> {"no", "early", "late"}]

LEMMA TypeParts == YtTypeOK <=> ControlType /\ OutputType
BY DEF YtTypeOK, ControlType, OutputType, FsmType, RmType, RunType, HaltType, ProcType, FragsType,
       MoveType, Slots, MoverType, DestType, FinalType

\* What the attempt, the stop and the processes leave behind for each other.
ControlInv == ControlType /\ AttemptHolds /\ (Controlled => CaptureHolds)

LEMMA SessionsAre ==
  /\ Sessions \subseteq Nat /\ NoSession \notin Sessions /\ MaxSessions \in Nat \ {0}
  /\ NoSession \in MaybeSession /\ Sessions \subseteq MaybeSession
  /\ OneName \in BOOLEAN /\ Controlled \in BOOLEAN /\ MoveAfter \in BOOLEAN
  /\ \A s \in Sessions : Path(s) \in Sessions
  /\ ~OneName => \A s \in Sessions : Path(s) = s
BY YouTubeAssumption DEF Sessions, NoSession, MaybeSession, Path

LEMMA RunIs ==
  /\ NoRun \in RunType /\ NoRun.pc = "none" /\ NoRun.of = NoSession
  /\ NoHalt \in HaltType /\ NoHalt.pc = "none" /\ NoHalt.held = NoSession
BY SessionsAre DEF NoRun, RunType, NoHalt, HaltType

LEMMA RunPicks ==
  ASSUME ControlType
  PROVE  /\ run.of \in MaybeSession
         /\ run.pc \in {"launch", "wait", "join", "grace", "settle", "move", "last"} => run.of \in Sessions
         /\ run.pc \in {"none", "meta"} => run.of = NoSession
         /\ run.pc = "none" <=> run = NoRun
         /\ halt.pc \in {"none", "cancel", "term"}
<1>1. run \in RunType /\ run = [pc |-> run.pc, of |-> run.of]
  BY DEF ControlType, RunType
<1>2. /\ run.of \in MaybeSession
      /\ run.pc \in {"launch", "wait", "join", "grace", "settle", "move", "last"} => run.of \in Sessions
      /\ run.pc \in {"none", "meta"} => run.of = NoSession
  BY <1>1 DEF ControlType, RunType, MaybeSession
<1>3. run.pc = "none" <=> run = NoRun
  BY <1>1, <1>2 DEF NoRun
<1>4. QED
  BY <1>2, <1>3 DEF ControlType, HaltType

\* Flags are set and cleared one at a time.
LEMMA StoppedFlag ==
  ASSUME NEW r \in RmType, NEW stopped \in BOOLEAN
  PROVE  /\ [r EXCEPT !.stopped = stopped] \in RmType
         /\ [r EXCEPT !.stopped = stopped].proc = r.proc
         /\ [r EXCEPT !.stopped = stopped].recording = r.recording
BY DEF RmType

LEMMA BothFlags ==
  ASSUME NEW r \in RmType, NEW stopped \in BOOLEAN, NEW recording \in BOOLEAN
  PROVE  /\ [r EXCEPT !.stopped = stopped, !.recording = recording] \in RmType
         /\ [r EXCEPT !.stopped = stopped, !.recording = recording].proc = r.proc
         /\ [r EXCEPT !.stopped = stopped, !.recording = recording].recording = recording
BY DEF RmType

LEMMA ClearedIs ==
  ASSUME NEW r \in RmType
  PROVE  Cleared(r) \in RmType /\ Cleared(r).proc = NoSession /\ Cleared(r).recording = FALSE
BY SessionsAre DEF Cleared, RmType

LEMMA BeginIs ==
  ASSUME ControlType, Begin
  PROVE  /\ run' \in RunType /\ run'.pc = "meta" /\ run'.of = NoSession
         /\ fsm' \in FsmType /\ fsm'.stop = FALSE /\ rm' \in RmType /\ rm'.proc = rm.proc
<1>1. run' \in RunType /\ run'.pc = "meta" /\ run'.of = NoSession
  BY SessionsAre DEF Begin, RunType
<1>2. fsm' \in FsmType /\ fsm'.stop = FALSE
  BY DEF Begin, FsmType
<1>3. rm' \in RmType /\ rm'.proc = rm.proc
  BY BothFlags DEF Begin, ControlType
<1>4. QED
  BY <1>1, <1>2, <1>3

LEMMA AfterAttemptIs ==
  ASSUME ControlType, NEW r \in RmType, NEW again \in BOOLEAN, AfterAttempt(again, r)
  PROVE  /\ run' = NoRun /\ fsm' \in FsmType /\ rm' \in RmType /\ rest' \in BOOLEAN
         /\ rm'.proc = r.proc /\ rm'.recording = FALSE
         /\ (fsm'.stop => fsm'.state = "STOPPED")
         /\ fsm.stop => fsm'.stop /\ rest' = rest
<1>1. CASE fsm.stop \/ ~again
  <2>1. /\ run' = NoRun /\ fsm' = [state |-> "STOPPED", stop |-> TRUE] /\ rest' = rest
        /\ rm' = [r EXCEPT !.stopped = TRUE, !.recording = FALSE]
    BY <1>1 DEF AfterAttempt
  <2>2. rm' \in RmType /\ rm'.proc = r.proc /\ rm'.recording = FALSE
    BY <2>1, BothFlags
  <2>3. QED
    BY <2>1, <2>2 DEF FsmType, ControlType
<1>2. CASE ~(fsm.stop \/ ~again)
  <2>1. /\ run' = NoRun /\ fsm' = [state |-> "WATCHING", stop |-> FALSE] /\ rest' = TRUE
        /\ rm' = [r EXCEPT !.stopped = FALSE, !.recording = FALSE]
    BY <1>2 DEF AfterAttempt
  <2>2. rm' \in RmType /\ rm'.proc = r.proc /\ rm'.recording = FALSE
    BY <2>1, BothFlags
  <2>3. QED
    BY <1>2, <2>1, <2>2 DEF FsmType
<1>3. QED
  BY <1>1, <1>2

\* The process of an attempt that ends is over; a stop that waits for the attempt
\* keeps its hold.
LEMMA AttemptEnds ==
  ASSUME ControlInv, UNCHANGED halt, run.pc \notin {"none", "wait"},
         run' = NoRun, fsm' \in FsmType, rm' \in RmType, rest' \in BOOLEAN,
         rm'.recording = FALSE, fsm'.stop => fsm'.state = "STOPPED",
         fsm.stop => fsm'.stop /\ rest' = rest,
         \A s \in Sessions : proc'[s] = proc[s] \/ proc'[s] = "gone"
  PROVE  ControlInv'
<1>1. ControlType'
  BY RunIs DEF ControlInv, ControlType
<1>2. AttemptHolds'
  BY RunIs DEF ControlInv, AttemptHolds
<1>3. Alive' \subseteq Alive
  BY DEF Alive
<1>4. Controlled => CaptureHolds'
  BY <1>3 DEF ControlInv, CaptureHolds
<1>5. QED
  BY <1>1, <1>2, <1>4 DEF ControlInv

LEMMA MetaDeclinesControl ==
  ASSUME ControlInv, MetaDeclines
  PROVE  ControlInv'
<1>1. run.pc = "meta" /\ UNCHANGED <<halt, proc>>
  BY DEF MetaDeclines
<1>2. PICK again \in BOOLEAN : AfterAttempt(again, Cleared(rm))
  BY DEF MetaDeclines
<1>3. ControlType /\ Cleared(rm) \in RmType
  BY ClearedIs DEF ControlInv, ControlType
<1>4. /\ run' = NoRun /\ fsm' \in FsmType /\ rm' \in RmType /\ rest' \in BOOLEAN
      /\ rm'.recording = FALSE /\ (fsm'.stop => fsm'.state = "STOPPED")
      /\ fsm.stop => fsm'.stop /\ rest' = rest
  BY <1>2, <1>3, AfterAttemptIs
<1>5. QED
  BY <1>1, <1>4, AttemptEnds

\* The finally clause: either the attempt is over, or the last move is due.
LEMMA LeaveControl ==
  ASSUME ControlInv, UNCHANGED halt,
         run.pc \in {"launch", "grace", "settle", "move"},
         NEW again \in BOOLEAN, NEW m, Leave(run.of, again, rm, m),
         \A s \in Sessions : proc'[s] = proc[s] \/ proc'[s] = "gone",
         proc'[run.of] = "gone"
  PROVE  ControlInv'
<1>1. ControlType /\ rm \in RmType /\ Cleared(rm) \in RmType
  BY ClearedIs DEF ControlInv, ControlType
<1>2. run.of \in Sessions
  BY <1>1, RunPicks
<1>3. CASE MoveAfter /\ SessionOutput(run.of) # NoFile
  <2>1. /\ run' = [pc |-> "last", of |-> run.of] /\ rm' = Cleared(rm)
        /\ fsm' = fsm /\ rest' = rest
    BY <1>3 DEF Leave
  <2>2. run' \in RunType /\ run'.pc = "last" /\ run'.of = run.of
    BY <1>2, <2>1, SessionsAre DEF RunType
  <2>3. ControlType'
    BY <1>1, <1>2, <2>1, <2>2, SessionsAre DEF ControlType
  <2>4. halt.pc = "none" => fsm.stop = FALSE
    <3>1. run # NoRun
      BY RunIs
    <3>2. QED
      BY <1>1, <3>1 DEF ControlInv, AttemptHolds, ControlType, FsmType
  <2>5. AttemptHolds'
    BY <2>1, <2>2, <2>4, RunIs DEF ControlInv, AttemptHolds
  <2>6. Alive' \subseteq Alive
    BY DEF Alive
  <2>7. Controlled => CaptureHolds'
    BY <2>6 DEF ControlInv, CaptureHolds
  <2>8. QED
    BY <2>3, <2>5, <2>7 DEF ControlInv
<1>4. CASE ~(MoveAfter /\ SessionOutput(run.of) # NoFile)
  <2>1. AfterAttempt(again, Cleared(rm))
    BY <1>4 DEF Leave
  <2>2. /\ run' = NoRun /\ fsm' \in FsmType /\ rm' \in RmType /\ rest' \in BOOLEAN
        /\ rm'.recording = FALSE /\ (fsm'.stop => fsm'.state = "STOPPED")
        /\ fsm.stop => fsm'.stop /\ rest' = rest
    BY <1>1, <2>1, AfterAttemptIs
  <2>3. QED
    BY <2>2, AttemptEnds
<1>5. QED
  BY <1>3, <1>4

\* The attempt goes to a place after the process's end, or stays there.
LEMMA AttemptGoesOn ==
  ASSUME ControlInv, UNCHANGED <<halt, fsm, rest, proc>>, rm' \in RmType,
         run.pc \in {"wait", "join", "grace", "settle"}, proc[run.of] = "gone",
         NEW pc \in {"join", "grace", "settle", "move"}, run' = [run EXCEPT !.pc = pc]
  PROVE  ControlInv'
<1>1. ControlType /\ run.of \in Sessions
  BY RunPicks DEF ControlInv
<1>2. run' \in RunType /\ run'.pc = pc /\ run'.of = run.of
  BY <1>1 DEF ControlType, RunType
<1>3. ControlType'
  BY <1>1, <1>2, SessionsAre DEF ControlType
<1>4. halt.pc = "none" => fsm.stop = FALSE
  <2>1. run # NoRun
    BY RunIs
  <2>2. QED
    BY <1>1, <2>1 DEF ControlInv, AttemptHolds, ControlType, FsmType
<1>5. AttemptHolds'
  BY <1>2, <1>4, RunIs DEF ControlInv, AttemptHolds
<1>6. Alive' = Alive /\ run.of \notin Alive
  BY DEF Alive
<1>7. Controlled => CaptureHolds'
  BY <1>6 DEF ControlInv, CaptureHolds
<1>8. QED
  BY <1>3, <1>5, <1>7 DEF ControlInv

\* A process that runs comes to its end, and none comes to life.
LEMMA ProcessGoesOn ==
  ASSUME ControlInv, UNCHANGED <<fsm, rm, run, rest, halt>>,
         \A s \in Sessions : /\ proc[s] = "none" <=> proc'[s] = "none"
                             /\ proc[s] = "gone" => proc'[s] = "gone"
                             /\ proc'[s] \in {"down", "mux", "done"} => proc[s] \in {"down", "mux", "done"}
  PROVE  ControlInv'
<1>1. ControlType' /\ ControlType
  BY DEF ControlInv, ControlType
<1>2. run.pc \in {"launch", "wait", "join", "grace", "settle", "move", "last"} => run.of \in Sessions
  BY <1>1, RunPicks
<1>3. AttemptHolds'
  BY <1>2 DEF ControlInv, AttemptHolds
<1>4. Alive' \subseteq Alive
  BY DEF Alive
<1>5. Controlled => CaptureHolds'
  BY <1>4 DEF ControlInv, CaptureHolds
<1>6. QED
  BY <1>1, <1>3, <1>5 DEF ControlInv

\* A start, or a respawn, where the channel has no attempt.
LEMMA BeginControl ==
  ASSUME ControlInv, run = NoRun, halt.pc = "none", Begin, rest' \in BOOLEAN, UNCHANGED <<halt, proc>>
  PROVE  ControlInv'
<1>1. /\ run' \in RunType /\ run'.pc = "meta" /\ run'.of = NoSession
      /\ fsm' \in FsmType /\ fsm'.stop = FALSE /\ rm' \in RmType /\ rm'.proc = rm.proc
  BY BeginIs DEF ControlInv
<1>2. ControlType'
  BY <1>1 DEF ControlInv, ControlType
<1>3. AttemptHolds'
  BY <1>1 DEF ControlInv, AttemptHolds
<1>4. Controlled => CaptureHolds'
  <2>1. Alive' = Alive /\ run.pc = "none"
    BY RunIs DEF Alive
  <2>2. QED
    BY <2>1 DEF ControlInv, CaptureHolds
<1>5. QED
  BY <1>2, <1>3, <1>4 DEF ControlInv

LEMMA StartControl ==
  ASSUME ControlInv, Start
  PROVE  ControlInv'
<1>1. halt = NoHalt /\ halt.pc = "none" /\ UNCHANGED <<rest, halt, proc>>
  BY RunIs DEF Start
<1>2. CASE run = NoRun /\ Begin
  BY <1>1, <1>2, BeginControl DEF ControlInv, ControlType
<1>3. CASE /\ fsm' = [state |-> "RECORDING", stop |-> FALSE]
           /\ rm' = [rm EXCEPT !.recording = TRUE, !.stopped = FALSE]
           /\ UNCHANGED run
  <2>1. rm' \in RmType /\ rm'.proc = rm.proc
    BY <1>3 DEF ControlInv, ControlType, RmType
  <2>2. fsm' \in FsmType /\ fsm'.stop = FALSE
    BY <1>3 DEF FsmType
  <2>3. ControlType'
    BY <1>1, <1>3, <2>1, <2>2 DEF ControlInv, ControlType
  <2>4. AttemptHolds'
    BY <1>1, <1>3, <2>1, <2>2 DEF ControlInv, AttemptHolds
  <2>5. Controlled => CaptureHolds'
    BY <1>1, <1>3 DEF ControlInv, CaptureHolds, Alive
  <2>6. QED
    BY <2>3, <2>4, <2>5 DEF ControlInv
<1>4. QED
  BY <1>2, <1>3 DEF Start

LEMMA RespawnControl ==
  ASSUME ControlInv, Respawn
  PROVE  ControlInv'
<1>1. rest /\ rest' = FALSE /\ UNCHANGED <<halt, proc>> /\ halt.pc = "none"
  BY DEF Respawn, ControlInv, AttemptHolds
<1>2. CASE run = NoRun /\ Begin
  BY <1>1, <1>2, BeginControl
<1>3. CASE UNCHANGED <<fsm, rm, run>>
  BY <1>1, <1>3 DEF ControlInv, ControlType, AttemptHolds, CaptureHolds, Alive
<1>4. QED
  BY <1>2, <1>3 DEF Respawn

LEMMA MetaAcceptsControl ==
  ASSUME ControlInv, MetaAccepts
  PROVE  ControlInv'
<1>1. PICK s \in Unused : run' = [pc |-> "launch", of |-> s]
  BY DEF MetaAccepts
<1>2. run.pc = "meta" /\ UNCHANGED <<fsm, rm, rest, halt, proc>>
  BY DEF MetaAccepts
<1>3. s \in Sessions /\ proc[s] = "none"
  BY <1>1 DEF Unused
<1>4. run' \in RunType /\ run'.pc = "launch" /\ run'.of = s /\ s # NoSession
  BY <1>1, <1>3, SessionsAre DEF RunType
<1>5. ControlType'
  BY <1>2, <1>4 DEF ControlInv, ControlType
<1>6. run # NoRun
  BY <1>2, RunIs
<1>7. AttemptHolds'
  BY <1>2, <1>3, <1>4, <1>6 DEF ControlInv, AttemptHolds, ControlType, HaltType
<1>8. Controlled => CaptureHolds'
  BY <1>2 DEF ControlInv, AttemptHolds, CaptureHolds, Alive
<1>9. QED
  BY <1>5, <1>7, <1>8 DEF ControlInv

LEMMA LaunchedControl ==
  ASSUME ControlInv, proc \in ProcType, Launched
  PROVE  ControlInv'
<1>1. /\ run.pc = "launch" /\ run' = [run EXCEPT !.pc = "wait"]
      /\ proc' = [proc EXCEPT ![run.of] = "down"]
      /\ rm' = [rm EXCEPT !.recording = TRUE, !.proc = run.of]
      /\ UNCHANGED <<fsm, rest, halt>>
  BY DEF Launched
<1>2. ControlType /\ run.of \in Sessions
  BY <1>1, RunPicks DEF ControlInv
<1>3. run' \in RunType /\ run'.pc = "wait" /\ run'.of = run.of
  BY <1>1, <1>2 DEF ControlType, RunType
<1>4. rm' \in RmType /\ rm'.proc = run.of
  BY <1>1, <1>2, SessionsAre DEF ControlType, RmType
<1>5. ControlType'
  BY <1>1, <1>2, <1>3, <1>4, SessionsAre DEF ControlType
<1>6. proc'[run.of] = "down" /\ \A s \in Sessions : s # run.of => proc'[s] = proc[s]
  BY <1>1, <1>2 DEF ProcType
<1>7. halt.pc = "none" /\ run # NoRun
  BY <1>1, RunIs DEF ControlInv, AttemptHolds
<1>8. AttemptHolds'
  BY <1>1, <1>3, <1>4, <1>6, <1>7 DEF ControlInv, AttemptHolds, ControlType, FsmType
<1>9. Controlled => CaptureHolds'
  <2>1. Alive' \subseteq Alive \cup {run.of}
    BY <1>6 DEF Alive
  <2>2. QED
    BY <1>1, <1>3, <1>7, <2>1 DEF ControlInv, CaptureHolds
<1>10. QED
  BY <1>5, <1>8, <1>9 DEF ControlInv

LEMMA LaunchFailsControl ==
  ASSUME ControlInv, proc \in ProcType, LaunchFails
  PROVE  ControlInv'
<1>1. /\ run.pc = "launch" /\ proc' = [proc EXCEPT ![run.of] = "gone"]
      /\ Leave(run.of, TRUE, rm, mover) /\ UNCHANGED halt
  BY DEF LaunchFails
<1>2. ControlType /\ run.of \in Sessions
  BY <1>1, RunPicks DEF ControlInv
<1>3. proc'[run.of] = "gone" /\ \A s \in Sessions : proc'[s] = proc[s] \/ proc'[s] = "gone"
  BY <1>1, <1>2 DEF ProcType
<1>4. QED
  BY <1>1, <1>3, LeaveControl

\* The steps between the end of the process and the end of the attempt.
LEMMA EndingControl ==
  ASSUME ControlInv,
         \/ WaitReturns \/ Joined \/ GraceFinds \/ GraceGivesUp \/ Settled \/ MainMoved \/ LastMoved
  PROVE  ControlInv'
<1>1. ControlType /\ rm \in RmType
  BY DEF ControlInv, ControlType
<1>2. CASE WaitReturns
  <2>1. rm' \in RmType
    BY <1>1, <1>2, StoppedFlag DEF WaitReturns
  <2>2. QED
    BY <1>2, <2>1, AttemptGoesOn DEF WaitReturns
<1>3. CASE Joined
  BY <1>1, <1>3, AttemptGoesOn DEF Joined, ControlInv, AttemptHolds
<1>4. CASE GraceFinds
  BY <1>1, <1>4, AttemptGoesOn DEF GraceFinds, ControlInv, AttemptHolds
<1>5. ASSUME run.pc \in {"grace", "settle", "move"}, NEW again \in BOOLEAN, NEW m,
             Leave(run.of, again, rm, m), UNCHANGED <<halt, proc>>
      PROVE  ControlInv'
  <2>1. proc'[run.of] = "gone"
    BY <1>5 DEF ControlInv, AttemptHolds
  <2>2. QED
    BY <1>5, <2>1, LeaveControl
<1>6. CASE GraceGivesUp
  <2>1. PICK again \in BOOLEAN : Leave(run.of, again, rm, mover)
    <3>1. PICK enabled \in BOOLEAN : Leave(run.of, enabled /\ ~rm.stopped, rm, mover)
      BY <1>6 DEF GraceGivesUp, EndSession
    <3>2. QED
      BY <3>1
  <2>2. QED
    BY <1>5, <1>6, <2>1 DEF GraceGivesUp
<1>7. CASE Settled
  <2>1. CASE MoveAfter
    BY <1>1, <1>7, <2>1, AttemptGoesOn DEF Settled, ControlInv, AttemptHolds
  <2>2. CASE ~MoveAfter
    <3>1. PICK again \in BOOLEAN : Leave(run.of, again, rm, mover)
      <4>1. PICK enabled \in BOOLEAN : Leave(run.of, enabled /\ ~rm.stopped, rm, mover)
        BY <1>7, <2>2 DEF Settled, EndSession
      <4>2. QED
        BY <4>1
    <3>2. QED
      BY <1>5, <1>7, <3>1 DEF Settled
  <2>3. QED
    BY <2>1, <2>2
<1>8. CASE MainMoved
  <2>1. PICK again \in BOOLEAN : Leave(run.of, again, rm, mover)
    <3>1. CASE Leave(run.of, TRUE, rm, mover)
      BY <3>1
    <3>2. CASE EndSession(mover)
      <4>1. PICK enabled \in BOOLEAN : Leave(run.of, enabled /\ ~rm.stopped, rm, mover)
        BY <3>2 DEF EndSession
      <4>2. QED
        BY <4>1
    <3>3. QED
      BY <1>8, <3>1, <3>2 DEF MainMoved
  <2>2. QED
    BY <1>5, <1>8, <2>1 DEF MainMoved
<1>9. CASE LastMoved
  <2>1. PICK again \in BOOLEAN : AfterAttempt(again, rm)
    BY <1>9 DEF LastMoved
  <2>2. /\ run' = NoRun /\ fsm' \in FsmType /\ rm' \in RmType /\ rest' \in BOOLEAN
        /\ rm'.recording = FALSE /\ (fsm'.stop => fsm'.state = "STOPPED")
        /\ (fsm.stop => fsm'.stop /\ rest' = rest)
    BY <1>1, <2>1, AfterAttemptIs
  <2>3. run.pc = "last" /\ UNCHANGED <<halt, proc>>
    BY <1>9 DEF LastMoved
  <2>4. QED
    BY <2>2, <2>3, AttemptEnds
<1>10. QED
  BY <1>2, <1>3, <1>4, <1>6, <1>7, <1>8, <1>9

\* What a cancellation does to the attempt.
LEMMA CancelledIs ==
  ASSUME ControlType, NEW r \in RmType, Cancelled(r)
  PROVE  /\ rm' \in RmType
         /\ \/ run' = NoRun
            \/ /\ run.pc \in {"launch", "wait", "join", "grace", "settle", "move"}
               /\ run' = [pc |-> "last", of |-> run.of]
<1>1. CASE run.pc = "none"
  BY <1>1, RunPicks DEF Cancelled
<1>2. CASE run.pc = "meta"
  BY <1>2, ClearedIs DEF Cancelled
<1>3. CASE run.pc = "last"
  BY <1>3 DEF Cancelled
<1>4. CASE run.pc \in {"launch", "wait", "join", "grace", "settle", "move"}
  <2>1. rm' = Cleared(r) /\ (run' = [pc |-> "last", of |-> run.of] \/ run' = NoRun)
    BY <1>4 DEF Cancelled
  <2>2. QED
    BY <1>4, <2>1, ClearedIs
<1>5. QED
  BY <1>1, <1>2, <1>3, <1>4 DEF ControlType, RunType

LEMMA StopBeginsControl ==
  ASSUME ControlInv, proc \in ProcType, StopBegins
  PROVE  ControlInv'
<1> DEFINE r == [rm EXCEPT !.stopped = TRUE]
           held == IF Controlled /\ Alive # {} THEN CHOOSE s \in Alive : TRUE ELSE NoSession
<1>1. /\ halt = NoHalt /\ fsm' = [fsm EXCEPT !.stop = TRUE] /\ rest' = FALSE
      /\ halt' = [pc |-> "cancel", held |-> held]
      /\ \/ Cancelled(r)
         \/ run.pc = "join" /\ rm' = r /\ UNCHANGED run
      /\ proc' = IF run.pc = "launch" THEN [proc EXCEPT ![run.of] = "gone"] ELSE proc
  BY DEF StopBegins
<1>2. ControlType /\ r \in RmType /\ halt.pc = "none"
  BY <1>1, StoppedFlag, RunIs DEF ControlInv, ControlType
<1> HIDE DEF r
<1>3. /\ rm' \in RmType
      /\ \/ run' = NoRun
         \/ /\ run.pc \in {"launch", "wait", "join", "grace", "settle", "move"}
            /\ run' = [pc |-> "last", of |-> run.of]
         \/ run.pc = "join" /\ UNCHANGED run
  BY <1>1, <1>2, CancelledIs
<1>4. run.pc \in {"launch", "wait", "join", "grace", "settle", "move"} => run.of \in Sessions
  BY <1>2, RunPicks
<1>5. /\ run' \in RunType /\ ((run'.of = NoSession) <=> (run'.pc \in {"none", "meta"}))
      /\ run'.pc \in {"none", "join", "last"}
      /\ run'.pc = "last" => /\ run.pc \in {"launch", "wait", "join", "grace", "settle", "move"}
                             /\ run'.of = run.of
      /\ run'.pc = "join" => run.pc = "join" /\ run'.of = run.of
  BY <1>2, <1>3, <1>4, RunIs, SessionsAre DEF ControlType, RunType
<1>6. \A s \in Sessions : proc'[s] = proc[s] \/ proc'[s] = "gone"
  BY <1>1 DEF ProcType
<1>7. /\ run.pc = "launch" => proc'[run.of] = "gone"
      /\ run.pc # "launch" => proc' = proc
  BY <1>1, <1>4 DEF ProcType
<1>8. held \in MaybeSession /\ Alive \subseteq Sessions
  BY SessionsAre DEF Alive
<1>9. fsm' \in FsmType /\ fsm'.stop = TRUE
  BY <1>1, <1>2 DEF ControlType, FsmType
<1> HIDE DEF held
<1>10. halt' \in HaltType /\ halt'.pc = "cancel" /\ halt'.held = held
  BY <1>1, <1>8 DEF HaltType
<1>11. ControlType'
  BY <1>1, <1>3, <1>5, <1>9, <1>10 DEF ControlType
<1>12. AttemptHolds'
  BY <1>1, <1>5, <1>7, <1>9, <1>10 DEF ControlInv, AttemptHolds
<1>13. ASSUME Controlled
       PROVE  CaptureHolds'
  <2>1. Alive' \subseteq Alive
    BY <1>6 DEF Alive
  <2>2. \A s, t \in Alive : s = t
    BY <1>2, <1>13 DEF ControlInv, CaptureHolds
  <2>3. Alive # {} => held \in Alive
    BY <1>13 DEF held
  <2>4. QED
    BY <1>10, <2>1, <2>2, <2>3 DEF CaptureHolds
<1>14. QED
  BY <1>11, <1>12, <1>13 DEF ControlInv

LEMMA StopSignalsControl ==
  ASSUME ControlInv, StopSignals
  PROVE  ControlInv'
<1>1. /\ halt.pc = "cancel" /\ run = NoRun /\ halt' = [halt EXCEPT !.pc = "term"]
      /\ rm' = IF halt.held # NoSession /\ rm.proc = NoSession
               THEN [rm EXCEPT !.proc = halt.held] ELSE rm
      /\ UNCHANGED <<fsm, run, rest, proc>>
  BY DEF StopSignals
<1>2. halt' \in HaltType /\ halt'.pc = "term" /\ halt'.held = halt.held
  BY <1>1 DEF ControlInv, ControlType, HaltType
<1>3. rm' \in RmType
  BY <1>1 DEF ControlInv, ControlType, HaltType, RmType
<1>4. ControlType'
  BY <1>1, <1>2, <1>3 DEF ControlInv, ControlType
<1>5. AttemptHolds'
  BY <1>1, <1>2, RunIs DEF ControlInv, AttemptHolds
<1>6. Controlled => CaptureHolds'
  BY <1>1, <1>2 DEF ControlInv, CaptureHolds, Alive
<1>7. QED
  BY <1>4, <1>5, <1>6 DEF ControlInv

\* A stop returns when it has nothing left to terminate.
LEMMA StopEndsControl ==
  ASSUME ControlInv, StopEnds
  PROVE  ControlInv'
<1>1. /\ halt.pc = "term" /\ StopTargets = {} /\ halt' = NoHalt
      /\ fsm' = [state |-> "STOPPED", stop |-> TRUE]
      /\ rm' = [stopped |-> TRUE, recording |-> FALSE, proc |-> NoSession]
      /\ UNCHANGED <<run, rest, proc>>
  BY DEF StopEnds
<1>2. run = NoRun
  BY <1>1 DEF ControlInv, AttemptHolds
<1>3. ControlType'
  BY <1>1, RunIs, SessionsAre DEF ControlInv, ControlType, FsmType, RmType
<1>4. AttemptHolds'
  BY <1>1, <1>2, RunIs DEF ControlInv, AttemptHolds
<1>5. Controlled => CaptureHolds'
  <2>1. Controlled => Alive' = {}
    BY <1>1 DEF StopTargets, Alive
  <2>2. QED
    BY <1>1, <2>1, RunIs DEF CaptureHolds
<1>6. QED
  BY <1>3, <1>4, <1>5 DEF ControlInv

-----------------------------------------------------------------------------
(* Files and movers.                                                       *)

\* What the movers, the processes and the stop leave behind for each other.
FileInv == OwnFiles /\ MergeHolds /\ MoveHolds

LEMMA MoveIs ==
  /\ NoFile \in File \cup {NoFile} /\ NoMove \in MoveType
  /\ NoMove.pc = "idle" /\ NoMove.took = NoFile
  /\ \A s \in Sessions : /\ Whole(s) \in File /\ Whole(s) # NoFile /\ Whole(s).of = s
                         /\ [of |-> s, whole |-> FALSE] \in File
                         /\ [of |-> s, whole |-> FALSE] # NoFile
  /\ \A s \in Sessions, m \in Movers : <<s, m>> \in Slots
<1>1. /\ NoFile \in File \cup {NoFile} /\ NoMove \in MoveType
      /\ NoMove.pc = "idle" /\ NoMove.took = NoFile
  BY DEF NoMove, MoveType
<1>2. ASSUME NEW s \in Sessions, NEW w \in BOOLEAN
      PROVE  [of |-> s, whole |-> w] \in File /\ [of |-> s, whole |-> w] # NoFile
  BY SessionsAre DEF File, NoFile
<1>3. \A s \in Sessions : Whole(s) \in File /\ Whole(s) # NoFile /\ Whole(s).of = s
  BY <1>2 DEF Whole
<1>4. QED
  BY <1>1, <1>2, <1>3 DEF Slots

LEMMA MoverEntry ==
  ASSUME NEW f \in MoverType, NEW s \in Sessions, NEW m \in Movers, NEW e \in MoveType
  PROVE  /\ [f EXCEPT ![<<s, m>>] = e] \in MoverType
         /\ [f EXCEPT ![<<s, m>>] = e][<<s, m>>] = e
         /\ \A t \in Sessions, k \in Movers :
               t # s \/ k # m => [f EXCEPT ![<<s, m>>] = e][<<t, k>>] = f[<<t, k>>]
BY DEF MoverType, Slots

LEMMA EntryIs ==
  ASSUME NEW f \in MoverType, NEW s \in Sessions, NEW m \in Movers
  PROVE  /\ f[<<s, m>>] \in MoveType /\ f[<<s, m>>].took \in File \cup {NoFile}
         /\ f[<<s, m>>].pc \in {"idle", "due", "copying", "loose", "done", "failed"}
BY DEF MoverType, Slots, MoveType

\* A place in the queue of moves.
LEMMA DueEntry ==
  ASSUME NEW f \in MoverType, NEW s \in Sessions, NEW m \in Movers
  PROVE  /\ [f EXCEPT ![<<s, m>>].pc = "due"] \in MoverType
         /\ [f EXCEPT ![<<s, m>>].pc = "due"][<<s, m>>].pc = "due"
         /\ [f EXCEPT ![<<s, m>>].pc = "due"][<<s, m>>].took = f[<<s, m>>].took
         /\ \A t \in Sessions, k \in Movers :
               t # s \/ k # m => [f EXCEPT ![<<s, m>>].pc = "due"][<<t, k>>] = f[<<t, k>>]
<1> DEFINE e == [f[<<s, m>>] EXCEPT !.pc = "due"]
<1>1. e \in MoveType /\ e.pc = "due" /\ e.took = f[<<s, m>>].took
  BY EntryIs DEF MoveType
<1>2. [f EXCEPT ![<<s, m>>].pc = "due"] = [f EXCEPT ![<<s, m>>] = e]
  BY DEF MoverType, Slots
<1> HIDE DEF e
<1>3. QED
  BY <1>1, <1>2, MoverEntry

LEMMA LooseMoveIs ==
  ASSUME mover \in MoverType, NEW s \in Sessions, NEW m \in Movers
  PROVE  /\ LooseMove(s, m) \in MoverType
         /\ \/ LooseMove(s, m)[<<s, m>>] = mover[<<s, m>>]
            \/ mover[<<s, m>>].pc = "due" /\ LooseMove(s, m)[<<s, m>>] = NoMove
            \/ /\ mover[<<s, m>>].pc = "copying" /\ LooseMove(s, m)[<<s, m>>].pc = "loose"
               /\ LooseMove(s, m)[<<s, m>>].took = mover[<<s, m>>].took
         /\ \A t \in Sessions, k \in Movers :
               t # s \/ k # m => LooseMove(s, m)[<<t, k>>] = mover[<<t, k>>]
<1> DEFINE e == CASE mover[<<s, m>>].pc = "due" -> NoMove
                  [] mover[<<s, m>>].pc = "copying" -> [mover[<<s, m>>] EXCEPT !.pc = "loose"]
                  [] OTHER -> mover[<<s, m>>]
<1>1. LooseMove(s, m) = [mover EXCEPT ![<<s, m>>] = e]
  BY DEF LooseMove
<1>2. /\ e \in MoveType
      /\ \/ e = mover[<<s, m>>]
         \/ mover[<<s, m>>].pc = "due" /\ e = NoMove
         \/ mover[<<s, m>>].pc = "copying" /\ e.pc = "loose" /\ e.took = mover[<<s, m>>].took
  <2>1. CASE mover[<<s, m>>].pc = "due"
    BY <2>1, MoveIs
  <2>2. CASE mover[<<s, m>>].pc = "copying"
    <3>1. e = [mover[<<s, m>>] EXCEPT !.pc = "loose"]
      BY <2>2
    <3> HIDE DEF e
    <3>2. QED
      BY <2>2, <3>1, EntryIs DEF MoveType
  <2>3. CASE mover[<<s, m>>].pc \notin {"due", "copying"}
    <3>1. e = mover[<<s, m>>]
      BY <2>3
    <3>2. QED
      BY <3>1, EntryIs
  <2>4. QED
    BY <2>1, <2>2, <2>3
<1> HIDE DEF e
<1>3. e \in MoveType
  BY <1>2
<1> DEFINE g == [mover EXCEPT ![<<s, m>>] = e]
<1>4. /\ g \in MoverType /\ g[<<s, m>>] = e
      /\ \A t \in Sessions, k \in Movers : t # s \/ k # m => g[<<t, k>>] = mover[<<t, k>>]
  BY <1>3, MoverEntry
<1>5. LooseMove(s, m) = g
  BY <1>1
<1> HIDE DEF g
<1>6. QED
  BY <1>2, <1>4, <1>5

\* Everything that neither writes nor moves a file.  A move falls due when the
\* process is over or the attempt is cancelled; a cancellation lets a move loose.
LEMMA FilesStay ==
  ASSUME OutputType, FileInv, UNCHANGED <<final, dest, merged>>,
         mover' \in MoverType, cut' \in [Sessions -> {"no", "early", "late"}],
         \A s \in Sessions :
            \/ cut'[s] = cut[s]
            \/ cut[s] = "no" /\ cut'[s] # "no" /\ proc'[s] # "none",
         \A s \in Sessions :
            \/ proc'[s] = proc[s]
            \/ proc[s] = "none" /\ proc'[s] = "down"
            \/ proc'[s] = "gone",
         halt'.pc = "none" /\ run'.of # NoSession => cut'[run'.of] = "no",
         \A s \in Sessions, m \in Movers :
            \/ mover'[<<s, m>>] = mover[<<s, m>>]
            \/ /\ MoveAfter /\ mover'[<<s, m>>].pc = "due"
               /\ mover'[<<s, m>>].took \in {mover[<<s, m>>].took, NoFile}
               /\ proc'[s] \notin {"none", "down", "mux"} \/ cut'[s] = "early"
            \/ /\ m # "pipe" /\ cut'[s] # "no"
               /\ \/ mover[<<s, m>>].pc = "due" /\ mover'[<<s, m>>] = NoMove
                  \/ /\ mover[<<s, m>>].pc = "copying" /\ mover'[<<s, m>>].pc = "loose"
                     /\ mover'[<<s, m>>].took = mover[<<s, m>>].took
  PROVE  FileInv'
<1>1. OwnFiles'
  BY MoveIs DEF FileInv, OwnFiles
<1>2. MergeHolds'
  <2>1. \A s \in Sessions : proc'[s] = "none" => cut'[s] = "no"
    BY DEF FileInv, MergeHolds
  <2>2. \A s \in merged' : ~Early(s)'
    BY DEF FileInv, MergeHolds, Early, OutputType
  <2>3. ASSUME NEW s \in Sessions, cut'[s] # "early"
        PROVE  /\ Early(s)' => \A m \in Movers : mover'[<<s, m>>] = NoMove /\ dest'[<<s, m>>] = NoFile
               /\ proc'[s] = "mux" => final'[s] = [of |-> s, whole |-> FALSE]
               /\ s \in merged' =>
                    /\ final'[s] \in {Whole(s), NoFile}
                    /\ final'[s] = Whole(s) \/ \E m \in Movers : dest'[<<s, m>>] = Whole(s)
                    /\ \A m \in Movers : mover'[<<s, m>>].took \in {Whole(s), NoFile}
    <3>1. cut[s] # "early" /\ (Early(s)' => Early(s)) /\ (proc'[s] = "mux" => proc[s] = "mux")
      BY <2>3 DEF Early
    <3>2. Early(s)' => \A m \in Movers : mover'[<<s, m>>] = NoMove /\ dest'[<<s, m>>] = NoFile
      <4> SUFFICES ASSUME Early(s)', NEW m \in Movers
                   PROVE  mover'[<<s, m>>] = NoMove /\ dest'[<<s, m>>] = NoFile
        OBVIOUS
      <4>1. mover[<<s, m>>] = NoMove /\ dest[<<s, m>>] = NoFile
        <5>1. Early(s) /\ MergeHolds
          BY <3>1 DEF FileInv
        <5>2. \A k \in Movers : mover[<<s, k>>] = NoMove /\ dest[<<s, k>>] = NoFile
          BY <3>1, <5>1 DEF MergeHolds
        <5>3. QED
          BY <5>2
      <4>2. proc'[s] \in {"none", "down", "mux"}
        BY DEF Early
      <4>3. mover'[<<s, m>>] = mover[<<s, m>>]
        BY <2>3, <4>1, <4>2, MoveIs
      <4>4. QED
        BY <4>1, <4>3
    <3>3. s \in merged' => \A m \in Movers : mover'[<<s, m>>].took \in {Whole(s), NoFile}
      <4> SUFFICES ASSUME s \in merged, NEW m \in Movers
                   PROVE  mover'[<<s, m>>].took \in {Whole(s), NoFile}
        OBVIOUS
      <4>1. mover[<<s, m>>].took \in {Whole(s), NoFile}
        <5>1. MergeHolds
          BY DEF FileInv
        <5>2. \A k \in Movers : mover[<<s, k>>].took \in {Whole(s), NoFile}
          BY <3>1, <5>1 DEF MergeHolds
        <5>3. QED
          BY <5>2
      <4>2. mover'[<<s, m>>].took \in {mover[<<s, m>>].took, NoFile}
        BY MoveIs
      <4>3. QED
        BY <4>1, <4>2
    <3>4. proc[s] = "mux" => final[s] = [of |-> s, whole |-> FALSE]
      BY <3>1 DEF FileInv, MergeHolds
    <3>5. s \in merged => /\ final[s] \in {Whole(s), NoFile}
                          /\ final[s] = Whole(s) \/ \E m \in Movers : dest[<<s, m>>] = Whole(s)
      BY <3>1 DEF FileInv, MergeHolds
    <3>6. QED
      BY <3>1, <3>2, <3>3, <3>4, <3>5
  <2>4. QED
    BY <2>1, <2>2, <2>3 DEF MergeHolds, Whole
<1>3. MoveHolds'
  <2>1. \A s \in Sessions, m \in Movers :
           mover'[<<s, m>>].pc = "copying" => mover[<<s, m>>].pc = "copying"
    BY MoveIs
  <2>2. Moving' \subseteq Moving
    BY <2>1 DEF Moving, OutputType, MoverType, Slots
  <2>3. ~MoveAfter => \A x \in DOMAIN mover' : mover'[x].pc = "idle" /\ dest'[x] = NoFile
    BY MoveIs DEF FileInv, MoveHolds, OutputType, MoverType, Slots
  <2>4. \A s \in merged' : MoveAfter => mover'[<<s, "pipe">>].pc # "idle"
    <3> SUFFICES ASSUME NEW s \in merged, MoveAfter
                 PROVE  mover'[<<s, "pipe">>].pc # "idle"
      OBVIOUS
    <3>1. s \in Sessions /\ "pipe" \in Movers /\ mover[<<s, "pipe">>].pc # "idle"
      BY DEF FileInv, MoveHolds, OutputType, Movers
    <3>2. mover'[<<s, "pipe">>] = mover[<<s, "pipe">>] \/ mover'[<<s, "pipe">>].pc = "due"
      BY <3>1
    <3>3. QED
      BY <3>1, <3>2
  <2>5. ASSUME NEW s \in Sessions, cut'[s] = "no", NEW m \in Movers
        PROVE  /\ mover'[<<s, m>>].pc # "loose"
               /\ mover'[<<s, m>>].pc = "copying" => final'[s] # NoFile
               /\ s \in merged' /\ mover'[<<s, m>>].pc = "done" => final'[s] = NoFile
               /\ dest'[<<s, m>>] # NoFile =>
                    final'[s] = NoFile /\ \A k \in Movers : dest'[<<s, k>>] # NoFile => k = m
    <3>1. cut[s] = "no" /\ (mover'[<<s, m>>] = mover[<<s, m>>] \/ mover'[<<s, m>>].pc = "due")
      BY <2>5
    <3>2. QED
      BY <3>1 DEF FileInv, MoveHolds
  <2>6. QED
    BY <2>2, <2>3, <2>4, <2>5 DEF MoveHolds, FileInv
<1>4. QED
  BY <1>1, <1>2, <1>3 DEF FileInv

LEMMA CleanedIs ==
  ASSUME frags \in FragsType, NEW s \in Sessions, NEW f \in Cleaned(s)
  PROVE  f \in FragsType
<1>1. PICK V \in SUBSET Sessions :
         f = [t \in Sessions |->
               IF t \in V /\ frags[t] = "kept" THEN "removed" ELSE frags[t]]
  BY DEF Cleaned
<1>2. \A t \in Sessions : (IF t \in V /\ frags[t] = "kept" THEN "removed" ELSE frags[t])
                             \in {"none", "kept", "removed"}
  BY DEF FragsType
<1>3. QED
  BY <1>1, <1>2 DEF FragsType

ProcGoesOn ==
    \A s \in Sessions : \/ proc'[s] = proc[s]
                        \/ proc[s] = "none" /\ proc'[s] = "down"
                        \/ proc'[s] = "gone"

\* The session of an attempt that no stop has met is undisturbed.
RunUndisturbed ==
    halt'.pc = "none" /\ run'.of # NoSession => cut[run'.of] = "no"

\* Where no file is at stake.
LEMMA FilesUntouched ==
  ASSUME OutputType, proc' \in ProcType, ProcGoesOn, frags' \in FragsType, checker' \subseteq Sessions,
         UNCHANGED <<final, mover, dest, merged, cut>>
  PROVE  OutputType' /\ (FileInv /\ RunUndisturbed => FileInv')
<1>1. OutputType'
  BY DEF OutputType
<1>2. ASSUME FileInv, RunUndisturbed
      PROVE  FileInv'
  BY <1>2, FilesStay DEF ProcGoesOn, RunUndisturbed, OutputType
<1>3. QED
  BY <1>1, <1>2

LEMMA SameRun ==
  ASSUME FileInv, run'.of = run.of \/ run'.of = NoSession, UNCHANGED <<halt>>
  PROVE  RunUndisturbed
BY DEF FileInv, MergeHolds, RunUndisturbed

LEMMA AfterAttemptRun ==
  ASSUME NEW again, NEW r, AfterAttempt(again, r)
  PROVE  run'.of = NoSession
BY RunIs DEF AfterAttempt

\* What leaves processes and fragments alone, too.
LEMMA ControlFiles ==
  ASSUME OutputType, ControlInv,
         \/ Start \/ Respawn \/ MetaDeclines \/ MetaAccepts \/ WaitReturns \/ LastMoved
         \/ StopSignals \/ StopEnds \/ UNCHANGED vars
  PROVE  OutputType' /\ (FileInv => FileInv')
<1>1. UNCHANGED <<proc, checker, frags, final, mover, dest, merged, cut>>
  BY DEF Start, Respawn, MetaDeclines, MetaAccepts, WaitReturns, LastMoved, StopSignals, StopEnds,
         vars, files
<1>2. proc' \in ProcType /\ ProcGoesOn /\ frags' \in FragsType /\ checker' \subseteq Sessions
  BY <1>1 DEF OutputType, ProcGoesOn
<1>3. ASSUME FileInv
      PROVE  RunUndisturbed
  <2>1. CASE Start
    BY <1>3, <2>1, SameRun, RunIs DEF Start, Begin
  <2>2. CASE Respawn
    BY <1>3, <2>2, SameRun DEF Respawn, Begin
  <2>3. CASE MetaDeclines
    BY <1>3, <2>3, SameRun, AfterAttemptRun DEF MetaDeclines
  <2>4. CASE MetaAccepts
    <3>1. PICK s \in Unused : run' = [pc |-> "launch", of |-> s]
      BY <2>4 DEF MetaAccepts
    <3>2. cut[s] = "no" /\ run'.of = s
      BY <1>3, <3>1 DEF Unused, FileInv, MergeHolds
    <3>3. QED
      BY <3>2 DEF RunUndisturbed
  <2>5. CASE WaitReturns
    <3>1. run'.of = run.of
      BY <2>5 DEF WaitReturns, ControlInv, ControlType, RunType
    <3>2. QED
      BY <1>3, <2>5, <3>1, SameRun DEF WaitReturns
  <2>6. CASE LastMoved
    BY <1>3, <2>6, SameRun, AfterAttemptRun DEF LastMoved
  <2>7. CASE StopSignals
    <3>1. run'.of = NoSession
      BY <2>7, RunIs DEF StopSignals
    <3>2. QED
      BY <3>1 DEF RunUndisturbed
  <2>8. CASE StopEnds
    <3>1. run'.of = NoSession
      BY <2>8, RunIs DEF StopEnds, ControlInv, AttemptHolds
    <3>2. QED
      BY <3>1 DEF RunUndisturbed
  <2>9. CASE UNCHANGED vars
    BY <1>3, <2>9, SameRun DEF vars
  <2>10. QED
    BY <2>1, <2>2, <2>3, <2>4, <2>5, <2>6, <2>7, <2>8, <2>9
<1>4. QED
  BY <1>1, <1>2, <1>3, FilesUntouched

LEMMA ProcessFiles ==
  ASSUME OutputType, ControlInv,
         \/ Launched \/ Joined \/ GraceFinds \/ Killed
         \/ \E s \in Sessions : MergeFails(s) \/ Exits(s)
  PROVE  OutputType' /\ (FileInv => FileInv')
<1>1. UNCHANGED <<final, mover, dest, merged, cut, halt>>
  BY DEF Launched, Joined, GraceFinds, Killed, MergeFails, Exits, files
<1>2. run'.of = run.of
  BY DEF Launched, Joined, GraceFinds, Killed, MergeFails, Exits, ControlInv, ControlType, RunType
<1>3. /\ run.pc \in {"launch", "join", "grace"} => run.of \in Sessions
  BY RunPicks DEF ControlInv
<1>4. frags' \in FragsType /\ checker' \subseteq Sessions
  <2>1. CASE Launched
    BY <1>3, <2>1 DEF Launched, OutputType, FragsType
  <2>2. CASE GraceFinds
    BY <1>3, <2>2, CleanedIs DEF GraceFinds, OutputType
  <2>3. QED
    BY <2>1, <2>2 DEF Joined, Killed, MergeFails, Exits, files, OutputType
<1>5. proc' \in ProcType /\ ProcGoesOn
  <2>1. CASE Launched
    <3>1. proc[run.of] = "none" /\ proc' = [proc EXCEPT ![run.of] = "down"] /\ run.of \in Sessions
      BY <1>3, <2>1 DEF Launched, ControlInv, AttemptHolds
    <3>2. QED
      BY <3>1 DEF OutputType, ProcType, ProcGoesOn
  <2>2. CASE UNCHANGED proc
    BY <2>2 DEF OutputType, ProcGoesOn
  <2>3. ASSUME NEW s, proc' = [proc EXCEPT ![s] = "gone"]
        PROVE  proc' \in ProcType /\ ProcGoesOn
    BY <2>3 DEF OutputType, ProcType, ProcGoesOn
  <2>4. QED
    BY <2>1, <2>2, <2>3 DEF Joined, GraceFinds, Killed, MergeFails, Exits
<1>6. FileInv => RunUndisturbed
  BY <1>1, <1>2, SameRun
<1>7. QED
  BY <1>1, <1>4, <1>5, <1>6, FilesUntouched

\* The last move falls due when the attempt is left.
LEMMA LeaveFiles ==
  ASSUME OutputType, ControlInv, run.pc \in {"launch", "grace", "settle", "move"},
         NEW again, Leave(run.of, again, rm, mover),
         UNCHANGED <<final, dest, merged, cut, halt, checker>>,
         proc' \in ProcType, ProcGoesOn, proc'[run.of] = "gone"
  PROVE  OutputType' /\ (FileInv => FileInv')
<1>1. ControlType /\ run.of \in Sessions
  BY RunPicks DEF ControlInv
<1>2. frags' \in FragsType
  BY <1>1, CleanedIs DEF Leave, OutputType
<1>3. CASE MoveAfter /\ SessionOutput(run.of) # NoFile
  <2> DEFINE e == [pc |-> "due", took |-> NoFile]
  <2>1. /\ run' = [pc |-> "last", of |-> run.of]
        /\ mover' = [mover EXCEPT ![<<run.of, "last">>] = e]
    BY <1>3 DEF Leave
  <2>2. e \in MoveType /\ e.pc = "due" /\ e.took = NoFile
    BY MoveIs DEF MoveType
  <2> HIDE DEF e
  <2>3. "last" \in Movers /\ mover \in MoverType
    BY DEF Movers, OutputType
  <2>4. /\ mover' \in MoverType /\ mover'[<<run.of, "last">>] = e
        /\ \A t \in Sessions, k \in Movers :
              t # run.of \/ k # "last" => mover'[<<t, k>>] = mover[<<t, k>>]
    <3> DEFINE g == [mover EXCEPT ![<<run.of, "last">>] = e]
    <3>1. e \in MoveType /\ run.of \in Sessions
      BY <1>1, <2>2
    <3>2. /\ g \in MoverType /\ g[<<run.of, "last">>] = e
          /\ \A t \in Sessions, k \in Movers : t # run.of \/ k # "last" => g[<<t, k>>] = mover[<<t, k>>]
      BY <2>3, <3>1, MoverEntry
    <3>3. mover' = g
      BY <2>1
    <3> HIDE DEF g
    <3>4. QED
      BY <3>2, <3>3
  <2>5. OutputType'
    BY <1>2, <2>4 DEF OutputType
  <2>6. ASSUME FileInv
        PROVE  FileInv'
    <3>1. halt'.pc = "none" /\ run'.of # NoSession => cut'[run'.of] = "no"
      BY <2>1, <2>6 DEF FileInv, MergeHolds
    <3>2. \A s \in Sessions, m \in Movers :
            \/ mover'[<<s, m>>] = mover[<<s, m>>]
            \/ /\ MoveAfter /\ mover'[<<s, m>>].pc = "due"
               /\ mover'[<<s, m>>].took \in {mover[<<s, m>>].took, NoFile}
               /\ proc'[s] \notin {"none", "down", "mux"} \/ cut'[s] = "early"
      BY <1>3, <2>2, <2>4
    <3>3. cut' \in [Sessions -> {"no", "early", "late"}]
      BY DEF OutputType
    <3>4. QED
      BY <2>4, <2>6, <3>1, <3>2, <3>3, FilesStay DEF ProcGoesOn
  <2>7. QED
    BY <2>5, <2>6
<1>4. CASE ~(MoveAfter /\ SessionOutput(run.of) # NoFile)
  <2>1. AfterAttempt(again, Cleared(rm)) /\ mover' = mover
    BY <1>4 DEF Leave
  <2>2. run'.of = NoSession
    BY <2>1, AfterAttemptRun
  <2>3. FileInv => RunUndisturbed
    BY <2>2, SameRun
  <2>4. checker' \subseteq Sessions
    BY DEF OutputType
  <2>5. QED
    BY <1>2, <2>1, <2>3, <2>4, FilesUntouched
<1>5. QED
  BY <1>3, <1>4

\* The attempt leaves files as it found them, and movers with more to do.
LEMMA EndingFiles ==
  ASSUME OutputType, ControlInv, LaunchFails \/ GraceGivesUp \/ Settled \/ MainMoved
  PROVE  OutputType' /\ (FileInv => FileInv')
<1>1. UNCHANGED <<final, dest, merged, cut, halt, checker>>
  BY DEF LaunchFails, GraceGivesUp, Settled, MainMoved
<1>2. ControlType /\ run.of \in Sessions
  BY RunPicks DEF ControlInv, LaunchFails, GraceGivesUp, Settled, MainMoved
<1>3. proc' \in ProcType /\ ProcGoesOn /\ proc'[run.of] = "gone"
  <2>1. CASE LaunchFails
    BY <1>2, <2>1 DEF LaunchFails, OutputType, ProcType, ProcGoesOn
  <2>2. CASE GraceGivesUp \/ Settled \/ MainMoved
    BY <2>2 DEF GraceGivesUp, Settled, MainMoved, OutputType, ProcGoesOn, ControlInv, AttemptHolds
  <2>3. QED
    BY <2>1, <2>2
<1>4. CASE Settled /\ MoveAfter
  <2> DEFINE g == [mover EXCEPT ![<<run.of, "main">>].pc = "due"]
  <2>1. /\ run.pc = "settle" /\ run' = [run EXCEPT !.pc = "move"] /\ mover' = g
        /\ UNCHANGED <<frags, proc>>
    BY <1>4 DEF Settled
  <2>2. "main" \in Movers /\ mover \in MoverType
    BY DEF Movers, OutputType
  <2>3. /\ g \in MoverType /\ g[<<run.of, "main">>].pc = "due"
        /\ g[<<run.of, "main">>].took = mover[<<run.of, "main">>].took
        /\ \A t \in Sessions, k \in Movers : t # run.of \/ k # "main" => g[<<t, k>>] = mover[<<t, k>>]
    BY <1>2, <2>2, DueEntry
  <2> HIDE DEF g
  <2>4. OutputType'
    BY <1>1, <1>3, <2>1, <2>3 DEF OutputType
  <2>5. ASSUME FileInv
        PROVE  FileInv'
    <3>1. run'.of = run.of
      BY <1>2, <2>1 DEF ControlType, RunType
    <3>2. halt'.pc = "none" /\ run'.of # NoSession => cut'[run'.of] = "no"
      BY <1>1, <2>5, <3>1 DEF FileInv, MergeHolds
    <3>3. \A s \in Sessions, m \in Movers :
            \/ mover'[<<s, m>>] = mover[<<s, m>>]
            \/ /\ MoveAfter /\ mover'[<<s, m>>].pc = "due"
               /\ mover'[<<s, m>>].took \in {mover[<<s, m>>].took, NoFile}
               /\ proc'[s] \notin {"none", "down", "mux"} \/ cut'[s] = "early"
      BY <1>3, <1>4, <2>1, <2>3
    <3>4. cut' \in [Sessions -> {"no", "early", "late"}] /\ mover' \in MoverType
      BY <1>1, <2>1, <2>3 DEF OutputType
    <3>5. QED
      BY <1>1, <1>3, <2>5, <3>2, <3>3, <3>4, FilesStay DEF ProcGoesOn
  <2>6. QED
    BY <2>4, <2>5
<1>5. CASE ~(Settled /\ MoveAfter)
  <2>1. /\ run.pc \in {"launch", "grace", "settle", "move"}
        /\ \E again \in BOOLEAN : Leave(run.of, again, rm, mover)
    <3>1. ASSUME EndSession(mover)
          PROVE  \E again \in BOOLEAN : Leave(run.of, again, rm, mover)
      <4>1. PICK enabled \in BOOLEAN : Leave(run.of, enabled /\ ~rm.stopped, rm, mover)
        BY <3>1 DEF EndSession
      <4>2. QED
        BY <4>1
    <3>2. QED
      BY <1>5, <3>1 DEF LaunchFails, GraceGivesUp, Settled, MainMoved
  <2>2. QED
    BY <1>1, <1>3, <2>1, LeaveFiles
<1>6. QED
  BY <1>4, <1>5

\* What MergeHolds and MoveHolds say of one session that no stop met before its
\* merge, and of one that no stop met at all.
MergeOf(s) ==
    /\ Early(s) => \A m \in Movers : mover[<<s, m>>] = NoMove /\ dest[<<s, m>>] = NoFile
    /\ proc[s] = "mux" => final[s] = [of |-> s, whole |-> FALSE]
    /\ s \in merged =>
         /\ final[s] \in {Whole(s), NoFile}
         /\ final[s] = Whole(s) \/ \E m \in Movers : dest[<<s, m>>] = Whole(s)
         /\ \A m \in Movers : mover[<<s, m>>].took \in {Whole(s), NoFile}

MoveOf(s) ==
    \A m \in Movers :
      /\ mover[<<s, m>>].pc # "loose"
      /\ mover[<<s, m>>].pc = "copying" => final[s] # NoFile
      /\ s \in merged /\ mover[<<s, m>>].pc = "done" => final[s] = NoFile
      /\ dest[<<s, m>>] # NoFile => /\ final[s] = NoFile
                                /\ \A k \in Movers : dest[<<s, k>>] # NoFile => k = m

LEMMA FilesOf ==
  ASSUME FileInv, NEW s \in Sessions
  PROVE  /\ cut[s] # "early" => MergeOf(s)
         /\ cut[s] = "no" => MoveOf(s)
         /\ cut[s] # "early" /\ Early(s) => \A m \in Movers : mover[<<s, m>>] = NoMove /\ dest[<<s, m>>] = NoFile
<1>1. cut[s] # "early" => MergeOf(s)
  BY DEF FileInv, MergeHolds, MergeOf
<1>2. cut[s] = "no" => MoveOf(s)
  BY DEF FileInv, MoveHolds, MoveOf
<1>3. QED
  BY <1>1, <1>2 DEF MergeOf

\* Where one session's files change, only that session's part has to be seen to.
LEMMA OtherFiles ==
  ASSUME OutputType, FileInv, NEW s \in Sessions,
         UNCHANGED <<run, halt, cut>>,
         \A t \in Sessions : t # s =>
            /\ proc'[t] = proc[t] /\ final'[t] = final[t] /\ (t \in merged' <=> t \in merged)
            /\ \A m \in Movers : mover'[<<t, m>>] = mover[<<t, m>>] /\ dest'[<<t, m>>] = dest[<<t, m>>],
         merged' \subseteq Sessions, mover' \in MoverType,
         final'[s] = NoFile \/ final'[s].of = s,
         \A m \in Movers : /\ dest'[<<s, m>>] = NoFile \/ dest'[<<s, m>>].of = s
                           /\ mover'[<<s, m>>].took = NoFile \/ mover'[<<s, m>>].took.of = s
                           /\ mover'[<<s, m>>].pc \in {"copying", "loose"} => mover'[<<s, m>>].took # NoFile,
         proc[s] # "none", proc'[s] # "none", s \in merged' => ~Early(s)',
         cut[s] # "early" => MergeOf(s)',
         cut[s] = "no" => MoveOf(s)',
         \A x, y \in Moving' : x = y,
         ~MoveAfter => \A m \in Movers : mover'[<<s, m>>].pc = "idle" /\ dest'[<<s, m>>] = NoFile,
         dest' \in DestType,
         s \in merged' /\ MoveAfter => mover'[<<s, "pipe">>].pc # "idle"
  PROVE  FileInv'
<1>1. OwnFiles'
  BY DEF FileInv, OwnFiles
<1>2. MergeHolds'
  <2>1. (halt'.pc = "none" /\ run'.of # NoSession => cut'[run'.of] = "no")
    BY DEF FileInv, MergeHolds
  <2>2. \A t \in Sessions : proc'[t] = "none" => cut'[t] = "no"
    BY DEF FileInv, MergeHolds
  <2>3. \A t \in merged' : ~Early(t)'
    BY DEF FileInv, MergeHolds, Early
  <2>4. ASSUME NEW t \in Sessions, cut'[t] # "early"
        PROVE  MergeOf(t)'
    <3>1. CASE t = s
      BY <2>4, <3>1
    <3>2. CASE t # s
      <4>1. MergeOf(t)
        BY <2>4, FilesOf
      <4>2. QED
        BY ZenonT(60), <3>2, <4>1 DEF MergeOf, Early, Whole
    <3>3. QED
      BY <3>1, <3>2
  <2>5. QED
    BY <2>1, <2>2, <2>3, <2>4 DEF MergeHolds, MergeOf
<1>3. MoveHolds'
  <2>1. ~MoveAfter => \A x \in DOMAIN mover' : mover'[x].pc = "idle" /\ dest'[x] = NoFile
    BY MoveIs DEF FileInv, MoveHolds, OutputType, MoverType, Slots
  <2>2. \A t \in merged' : MoveAfter => mover'[<<t, "pipe">>].pc # "idle"
    <3>1. "pipe" \in Movers
      BY DEF Movers
    <3>2. QED
      BY <3>1 DEF FileInv, MoveHolds
  <2>3. ASSUME NEW t \in Sessions, cut'[t] = "no"
        PROVE  MoveOf(t)'
    <3>1. CASE t = s
      BY <2>3, <3>1
    <3>2. CASE t # s
      <4>1. MoveOf(t)
        BY <2>3, FilesOf
      <4>2. QED
        BY <3>2, <4>1 DEF MoveOf
    <3>3. QED
      BY <3>1, <3>2
  <2>4. QED
    BY <2>1, <2>2, <2>3 DEF MoveHolds, MoveOf
<1>4. QED
  BY <1>1, <1>2, <1>3 DEF FileInv

LEMMA FinalEntry ==
  ASSUME NEW f \in FinalType, NEW s \in Sessions, NEW e \in File \cup {NoFile}
  PROVE  /\ [f EXCEPT ![s] = e] \in FinalType /\ [f EXCEPT ![s] = e][s] = e
         /\ \A t \in Sessions : t # s => [f EXCEPT ![s] = e][t] = f[t]
BY DEF FinalType

\* The download is over and the merge writes its file.
LEMMA MergesFiles ==
  ASSUME OutputType, NEW s \in Sessions, proc[s] = "down", Merges(s),
         UNCHANGED <<run, halt, frags, mover, dest, merged, cut>>, checker' \subseteq Sessions
  PROVE  OutputType' /\ (~OneName /\ FileInv => FileInv')
<1> DEFINE e == [of |-> s, whole |-> FALSE]
<1>1. e \in File \cup {NoFile} /\ e.of = s
  BY MoveIs
<1>2. final' = [final EXCEPT ![Path(s)] = e] /\ proc' = [proc EXCEPT ![s] = "mux"]
  BY DEF Merges
<1>3. Path(s) \in Sessions /\ (~OneName => Path(s) = s)
  BY SessionsAre
<1>4. /\ proc' \in ProcType /\ proc'[s] = "mux"
      /\ \A t \in Sessions : t # s => proc'[t] = proc[t]
  BY <1>2 DEF OutputType, ProcType
<1> HIDE DEF e
<1>5. OutputType'
  <2>1. final' \in FinalType
    BY <1>1, <1>2, <1>3, FinalEntry DEF OutputType
  <2>2. QED
    BY <1>4, <2>1 DEF OutputType
<1>6. ASSUME ~OneName, FileInv
      PROVE  FileInv'
  <2>1. final'[s] = e /\ \A t \in Sessions : t # s => final'[t] = final[t]
    BY <1>1, <1>2, <1>3, <1>6, FinalEntry DEF OutputType
  <2>2. cut[s] # "early" => \A m \in Movers : mover[<<s, m>>] = NoMove /\ dest[<<s, m>>] = NoFile
    BY <1>6, FilesOf DEF Early
  <2>3. s \notin merged /\ s \notin merged'
    BY <1>6 DEF FileInv, MergeHolds, Early
  <2>4. cut[s] # "early" => MergeOf(s)'
    BY <1>4, <2>1, <2>2, <2>3 DEF MergeOf, e
  <2>5. cut[s] = "no" => MoveOf(s)'
    BY <2>2, <2>3, MoveIs DEF MoveOf
  <2>6. /\ \A m \in Movers : /\ dest'[<<s, m>>] = NoFile \/ dest'[<<s, m>>].of = s
                             /\ mover'[<<s, m>>].took = NoFile \/ mover'[<<s, m>>].took.of = s
                             /\ mover'[<<s, m>>].pc \in {"copying", "loose"} => mover'[<<s, m>>].took # NoFile
        /\ \A x, y \in Moving' : x = y
        /\ ~MoveAfter => \A m \in Movers : mover'[<<s, m>>].pc = "idle" /\ dest'[<<s, m>>] = NoFile
    BY <1>6 DEF FileInv, OwnFiles, MoveHolds, Moving, OutputType, MoverType, Slots
  <2>7. merged' \subseteq Sessions /\ mover' \in MoverType /\ dest' \in DestType
    BY DEF OutputType
  <2>8. QED
    BY <1>1, <1>4, <1>6, <2>1, <2>3, <2>4, <2>5, <2>6, <2>7, OtherFiles
<1>7. QED
  BY <1>5, <1>6

LEMMA DownloadFiles ==
  ASSUME OutputType, ControlInv, NEW s \in Sessions, DownloadEnds(s) \/ CheckerSees(s)
  PROVE  OutputType' /\ (~OneName /\ FileInv => FileInv')
<1>1. /\ UNCHANGED <<run, halt, frags, mover, dest, merged, cut>> /\ checker' \subseteq Sessions
  BY DEF DownloadEnds, CheckerSees, OutputType
<1>2. CASE proc[s] = "down" /\ Merges(s)
  BY <1>1, <1>2, MergesFiles
<1>3. CASE UNCHANGED final /\ (UNCHANGED proc \/ proc' = [proc EXCEPT ![s] = "gone"])
  <2>1. proc' \in ProcType /\ ProcGoesOn /\ frags' \in FragsType
    BY <1>1, <1>3 DEF OutputType, ProcGoesOn, ProcType
  <2>2. FileInv => RunUndisturbed
    BY <1>1, SameRun
  <2>3. QED
    BY <1>1, <1>3, <2>1, <2>2, FilesUntouched
<1>4. QED
  BY <1>2, <1>3 DEF DownloadEnds, CheckerSees

\* The merge is complete: its file is whole, and the reader's move falls due.
LEMMA MergeEndsFiles ==
  ASSUME OutputType, NEW s \in Sessions, MergeEnds(s)
  PROVE  OutputType' /\ (~OneName /\ FileInv => FileInv')
<1> DEFINE e == IF MoveAfter THEN [mover[<<s, "pipe">>] EXCEPT !.pc = "due"] ELSE mover[<<s, "pipe">>]
           g == [mover EXCEPT ![<<s, "pipe">>] = e]
           w == IF final[Path(s)].of = s THEN [final[Path(s)] EXCEPT !.whole = TRUE] ELSE final[Path(s)]
<1>1. /\ proc[s] = "mux" /\ proc' = [proc EXCEPT ![s] = "done"] /\ merged' = merged \cup {s}
      /\ final' = IF final[Path(s)].of = s THEN [final EXCEPT ![Path(s)].whole = TRUE] ELSE final
      /\ mover' = IF MoveAfter THEN [mover EXCEPT ![<<s, "pipe">>].pc = "due"] ELSE mover
      /\ UNCHANGED <<run, halt, checker, frags, dest, cut>>
  BY DEF MergeEnds, SessionOutput
<1>2. "pipe" \in Movers /\ mover \in MoverType /\ Path(s) \in Sessions /\ (~OneName => Path(s) = s)
  BY SessionsAre DEF Movers, OutputType
<1>3. e \in MoveType /\ e.took = mover[<<s, "pipe">>].took
      /\ e.pc = IF MoveAfter THEN "due" ELSE mover[<<s, "pipe">>].pc
  BY <1>2, EntryIs DEF MoveType
<1>4. mover' = g
  BY <1>1, <1>2 DEF MoverType, Slots
<1>5. w \in File \cup {NoFile} /\ w.of = final[Path(s)].of
      /\ (final[Path(s)].of = s => w = Whole(s))
      /\ (final[Path(s)].of # s => w = final[Path(s)])
  <2>1. final[Path(s)] \in File \cup {NoFile}
    BY <1>2 DEF OutputType, FinalType
  <2>2. QED
    BY <2>1, SessionsAre DEF File, NoFile, Whole
<1>6. final' = [final EXCEPT ![Path(s)] = w]
  BY <1>1, <1>2 DEF OutputType, FinalType
<1> HIDE DEF e, w
<1>7. /\ g \in MoverType /\ g[<<s, "pipe">>] = e
      /\ \A t \in Sessions, k \in Movers : t # s \/ k # "pipe" => g[<<t, k>>] = mover[<<t, k>>]
  BY <1>2, <1>3, MoverEntry
<1> HIDE DEF g
<1>8. /\ proc' \in ProcType /\ proc'[s] = "done"
      /\ \A t \in Sessions : t # s => proc'[t] = proc[t]
  BY <1>1 DEF OutputType, ProcType
<1>9. OutputType'
  <2>1. final' \in FinalType
    BY <1>2, <1>5, <1>6, FinalEntry DEF OutputType
  <2>2. QED
    BY <1>1, <1>4, <1>7, <1>8, <2>1 DEF OutputType
<1>10. ASSUME ~OneName, FileInv
       PROVE  FileInv'
  <2>1. final'[s] = w /\ \A t \in Sessions : t # s => final'[t] = final[t]
    BY <1>2, <1>5, <1>6, <1>10, FinalEntry DEF OutputType
  <2>2. cut[s] # "early" =>
           /\ \A m \in Movers : mover[<<s, m>>] = NoMove /\ dest[<<s, m>>] = NoFile
           /\ w = Whole(s)
    <3>1. cut[s] # "early" => MergeOf(s)
      BY <1>10, FilesOf
    <3>2. cut[s] # "early" => final[s].of = s
      BY <1>1, <3>1 DEF MergeOf
    <3>3. cut[s] # "early" => \A m \in Movers : mover[<<s, m>>] = NoMove /\ dest[<<s, m>>] = NoFile
      BY <1>1, <3>1 DEF MergeOf, Early
    <3>4. QED
      BY <1>2, <1>5, <1>10, <3>2, <3>3
  <2>3. final[s] = NoFile \/ final[s].of = s
    BY <1>10 DEF FileInv, OwnFiles
  <2>4. final'[s] = NoFile \/ final'[s].of = s
    BY <1>2, <1>5, <1>10, <2>1, <2>3
  <2>5. \A m \in Movers : /\ mover'[<<s, m>>].took = mover[<<s, m>>].took
                          /\ \/ mover'[<<s, m>>].pc = mover[<<s, m>>].pc
                             \/ MoveAfter /\ mover'[<<s, m>>].pc = "due"
    BY <1>3, <1>4, <1>7
  <2>6. cut[s] # "early" => MergeOf(s)'
    <3>1. ~Early(s)' /\ proc'[s] # "mux"
      BY <1>8 DEF Early
    <3>2. QED
      BY <1>1, <2>1, <2>2, <2>5, <3>1, MoveIs DEF MergeOf, Whole
  <2>7. cut[s] = "no" => MoveOf(s)'
    BY <1>1, <2>2, <2>5, MoveIs DEF MoveOf
  <2>8. \A m \in Movers : /\ dest'[<<s, m>>] = NoFile \/ dest'[<<s, m>>].of = s
                          /\ mover'[<<s, m>>].took = NoFile \/ mover'[<<s, m>>].took.of = s
                          /\ mover'[<<s, m>>].pc \in {"copying", "loose"} => mover'[<<s, m>>].took # NoFile
    BY <1>1, <1>10, <2>5 DEF FileInv, OwnFiles
  <2>9. \A x, y \in Moving' : x = y
    <3>1. Moving' \subseteq Moving
      BY <1>3, <1>4, <1>7, <1>2 DEF Moving, MoverType, Slots
    <3>2. QED
      BY <1>10, <3>1 DEF FileInv, MoveHolds
  <2>10. ~MoveAfter => \A m \in Movers : mover'[<<s, m>>].pc = "idle" /\ dest'[<<s, m>>] = NoFile
    <3>1. ~MoveAfter => \A m \in Movers : mover[<<s, m>>].pc = "idle" /\ dest[<<s, m>>] = NoFile
      BY <1>2, <1>10, MoveIs DEF FileInv, MoveHolds, MoverType
    <3>2. QED
      BY <1>1, <2>5, <3>1
  <2>11. s \in merged' /\ MoveAfter => mover'[<<s, "pipe">>].pc # "idle"
    BY <1>3, <1>4, <1>7
  <2>12. /\ merged' \subseteq Sessions /\ mover' \in MoverType /\ dest' \in DestType
         /\ ~Early(s)'
    BY <1>8, <1>9 DEF OutputType, Early
  <2>13. \A t \in Sessions : t # s =>
            /\ proc'[t] = proc[t] /\ final'[t] = final[t] /\ (t \in merged' <=> t \in merged)
            /\ \A m \in Movers : mover'[<<t, m>>] = mover[<<t, m>>] /\ dest'[<<t, m>>] = dest[<<t, m>>]
    BY ZenonT(60), <1>1, <1>4, <1>7, <1>8, <2>1
  <2>14. UNCHANGED <<run, halt, cut>> /\ proc[s] # "none" /\ proc'[s] # "none"
    BY <1>1, <1>8
  <2>15. QED
    BY <1>10, <2>4, <2>6, <2>7, <2>8, <2>9, <2>10, <2>11, <2>12, <2>13, <2>14, OtherFiles
<1>11. QED
  BY <1>9, <1>10

\* A move takes the file, or gives up, and nothing of a session but that changes.
LEMMA MoveOnlyFiles ==
  ASSUME OutputType, NEW s \in Sessions, NEW m \in Movers, NEW e \in MoveType,
         mover' = [mover EXCEPT ![<<s, m>>] = e], mover[<<s, m>>].pc \in {"due", "copying", "loose"},
         UNCHANGED <<run, halt, proc, checker, frags, final, dest, merged, cut>>,
         \/ Moving = {} /\ e.pc = "copying" /\ e.took = final[Path(s)] /\ final[Path(s)] # NoFile
         \/ e.pc = "done" /\ e.took = mover[<<s, m>>].took /\ final[Path(s)] = NoFile
         \/ e.pc = "failed" /\ e.took = NoFile
  PROVE  OutputType' /\ (~OneName /\ FileInv => FileInv')
<1> DEFINE g == [mover EXCEPT ![<<s, m>>] = e]
<1>1. mover \in MoverType /\ s \in Sessions /\ m \in Movers /\ e \in MoveType
  BY DEF OutputType
<1>2. /\ g \in MoverType /\ g[<<s, m>>] = e
      /\ \A t \in Sessions, k \in Movers : t # s \/ k # m => g[<<t, k>>] = mover[<<t, k>>]
  BY <1>1 DEF MoverType, Slots
<1>3. mover' = g
  OBVIOUS
<1> HIDE DEF g
<1>4. OutputType'
  BY <1>2, <1>3 DEF OutputType
<1>5. ASSUME ~OneName, FileInv
      PROVE  FileInv'
  <2>1. Path(s) = s
    BY <1>5, SessionsAre
  <2>2. cut[s] # "early" => ~Early(s)
    BY <1>5, FilesOf, MoveIs
  <2>3. proc[s] # "none"
    BY <1>5, <2>2 DEF FileInv, MergeHolds, Early
  <2>4. final[s] = NoFile \/ final[s].of = s
    BY <1>5 DEF FileInv, OwnFiles
  <2>5. \A k \in Movers : /\ dest[<<s, k>>] = NoFile \/ dest[<<s, k>>].of = s
                          /\ mover[<<s, k>>].took = NoFile \/ mover[<<s, k>>].took.of = s
                          /\ mover[<<s, k>>].pc \in {"copying", "loose"} => mover[<<s, k>>].took # NoFile
    BY <1>5 DEF FileInv, OwnFiles
  <2>6. \A k \in Movers : /\ dest'[<<s, k>>] = NoFile \/ dest'[<<s, k>>].of = s
                          /\ mover'[<<s, k>>].took = NoFile \/ mover'[<<s, k>>].took.of = s
                          /\ mover'[<<s, k>>].pc \in {"copying", "loose"} => mover'[<<s, k>>].took # NoFile
    BY <1>2, <1>3, <2>1, <2>4, <2>5
  <2>7. cut[s] # "early" => MergeOf(s)'
    <3>1. cut[s] # "early" => MergeOf(s)
      BY <1>5, FilesOf
    <3>2. cut[s] # "early" => ~Early(s)' /\ proc'[s] # "mux"
      BY <2>2 DEF Early
    <3>3. cut[s] # "early" /\ s \in merged => \A k \in Movers : mover'[<<s, k>>].took \in {Whole(s), NoFile}
      BY <1>2, <1>3, <2>1, <3>1 DEF MergeOf
    <3>4. QED
      BY <3>1, <3>2, <3>3 DEF MergeOf, Whole
  <2>8. cut[s] = "no" => MoveOf(s)'
    <3>1. cut[s] = "no" => MoveOf(s)
      BY <1>5, FilesOf
    <3>2. QED
      BY <1>2, <1>3, <2>1, <3>1 DEF MoveOf
  <2>9. \A x, y \in Moving' : x = y
    <3>1. /\ Moving \subseteq Slots /\ Moving' \subseteq Slots
          /\ \A x \in Slots : x \in Moving <=> mover[x].pc = "copying"
          /\ \A x \in Slots : x \in Moving' <=> mover'[x].pc = "copying"
      BY <1>1, <1>2, <1>3 DEF Moving, MoverType
    <3>2. \A x \in Slots : x # <<s, m>> => mover'[x] = mover[x]
      BY <1>2, <1>3 DEF Slots
    <3>3. <<s, m>> \in Slots
      BY MoveIs
    <3>4. \A x, y \in Moving : x = y
      BY <1>5 DEF FileInv, MoveHolds
    <3>5. QED
      BY <1>2, <1>3, <3>1, <3>2, <3>3, <3>4
  <2>10. MoveAfter
    BY <1>1, <1>5, MoveIs DEF FileInv, MoveHolds, MoverType
  <2>11. s \in merged' /\ MoveAfter => mover'[<<s, "pipe">>].pc # "idle"
    BY <1>2, <1>3, <1>5 DEF FileInv, MoveHolds, Movers
  <2>12. /\ merged' \subseteq Sessions /\ mover' \in MoverType /\ dest' \in DestType
         /\ s \in merged' => ~Early(s)'
    BY <1>4, <1>5 DEF OutputType, FileInv, MergeHolds, Early
  <2>13. \A t \in Sessions : t # s =>
            /\ proc'[t] = proc[t] /\ final'[t] = final[t] /\ (t \in merged' <=> t \in merged)
            /\ \A k \in Movers : mover'[<<t, k>>] = mover[<<t, k>>] /\ dest'[<<t, k>>] = dest[<<t, k>>]
    BY <1>2, <1>3
  <2>14. final'[s] = NoFile \/ final'[s].of = s
    BY <2>4
  <2>15. QED
    BY <1>5, <2>3, <2>6, <2>7, <2>8, <2>9, <2>10, <2>11, <2>12, <2>13, <2>14, OtherFiles
<1>6. QED
  BY <1>4, <1>5

\* A move gets to its end: what it took is in the destination.
LEMMA MoveEndsFiles ==
  ASSUME OutputType, NEW s \in Sessions, NEW m \in Movers, MoveEnds(<<s, m>>)
  PROVE  OutputType' /\ (~OneName /\ FileInv => FileInv')
<1> DEFINE e == [pc |-> "done", took |-> NoFile]
           g == [mover EXCEPT ![<<s, m>>] = e]
           here == final[Path(s)]
           took == mover[<<s, m>>].took
           got == IF here.of = took.of THEN here ELSE took
<1>1. /\ mover[<<s, m>>].pc \in {"copying", "loose"}
      /\ mover' = g /\ dest' = [dest EXCEPT ![<<s, m>>] = got]
      /\ final' = [final EXCEPT ![Path(s)] = NoFile]
      /\ UNCHANGED <<run, halt, proc, checker, frags, merged, cut>>
  BY DEF MoveEnds, SessionOutput
<1>2. /\ mover \in MoverType /\ Path(s) \in Sessions /\ (~OneName => Path(s) = s)
      /\ here \in File \cup {NoFile} /\ took \in File \cup {NoFile} /\ <<s, m>> \in Slots
  BY SessionsAre, EntryIs, MoveIs DEF OutputType, FinalType
<1>3. e \in MoveType /\ e.pc = "done" /\ e.took = NoFile
  BY MoveIs DEF MoveType
<1> HIDE DEF e
<1>4. /\ g \in MoverType /\ g[<<s, m>>] = e
      /\ \A t \in Sessions, k \in Movers : t # s \/ k # m => g[<<t, k>>] = mover[<<t, k>>]
  BY <1>2, <1>3, MoverEntry
<1> HIDE DEF g
<1>5. got \in {here, took} /\ (here.of = took.of => got = here) /\ (here.of # took.of => got = took)
  OBVIOUS
<1> HIDE DEF got, here, took
<1>6. /\ dest' \in DestType /\ dest'[<<s, m>>] = got
      /\ \A x \in Slots : x # <<s, m>> => dest'[x] = dest[x]
  BY <1>1, <1>2, <1>5 DEF OutputType, DestType
<1>7. final' \in FinalType /\ final'[Path(s)] = NoFile
      /\ \A t \in Sessions : t # Path(s) => final'[t] = final[t]
  BY <1>1, <1>2, MoveIs DEF OutputType, FinalType
<1>8. OutputType'
  BY <1>1, <1>4, <1>6, <1>7 DEF OutputType
<1>9. ASSUME ~OneName, FileInv
      PROVE  FileInv'
  <2>1. Path(s) = s /\ here = final[s] /\ final'[s] = NoFile
    BY <1>2, <1>7, <1>9 DEF here
  <2>2. MergeHolds /\ MoveHolds /\ OwnFiles
    BY <1>9 DEF FileInv
  <2>3. cut[s] # "early" => ~Early(s)
    BY <1>1, <1>9, FilesOf, MoveIs
  <2>4. proc[s] # "none"
    BY <2>2, <2>3 DEF MergeHolds, Early
  <2>5. took # NoFile /\ took.of = s /\ (here = NoFile \/ here.of = s)
    BY <1>1, <2>1, <2>2 DEF OwnFiles, took
  <2>6. s # NoSession /\ NoFile.of = NoSession
    BY SessionsAre DEF NoFile
  <2>7. got # NoFile /\ got.of = s
    BY <1>5, <2>5, <2>6
  <2>8. \A k \in Movers : k # m => <<s, k>> \in Slots /\ <<s, k>> # <<s, m>>
    BY MoveIs
  <2>9. \A k \in Movers : k # m => dest'[<<s, k>>] = dest[<<s, k>>]
    BY <1>6, <2>8
  <2>10. \A k \in Movers : /\ dest'[<<s, k>>] = NoFile \/ dest'[<<s, k>>].of = s
                           /\ mover'[<<s, k>>].took = NoFile \/ mover'[<<s, k>>].took.of = s
                           /\ mover'[<<s, k>>].pc \in {"copying", "loose"} => mover'[<<s, k>>].took # NoFile
    BY <1>1, <1>3, <1>4, <1>6, <2>2, <2>7, <2>9 DEF OwnFiles
  <2>11. cut[s] # "early" => MergeOf(s)'
    <3> SUFFICES ASSUME cut[s] # "early" PROVE MergeOf(s)'
      OBVIOUS
    <3>1. MergeOf(s)
      BY <1>9, FilesOf
    <3>2. ~Early(s)' /\ proc'[s] # "mux"
      BY <1>1, <2>3 DEF Early
    <3>3. ASSUME s \in merged
          PROVE  dest'[<<s, m>>] = Whole(s) /\ \A k \in Movers : mover'[<<s, k>>].took \in {Whole(s), NoFile}
      <4>1. took = Whole(s) /\ here \in {Whole(s), NoFile}
        BY <2>1, <2>5, <3>1, <3>3 DEF MergeOf, took
      <4>2. got = Whole(s)
        BY <1>5, <2>5, <2>6, <4>1
      <4>3. QED
        BY <1>1, <1>3, <1>4, <1>6, <3>1, <3>3, <4>2 DEF MergeOf
    <3>4. QED
      BY <1>1, <2>1, <3>2, <3>3 DEF MergeOf, Whole
  <2>12. cut[s] = "no" => MoveOf(s)'
    <3> SUFFICES ASSUME cut[s] = "no" PROVE MoveOf(s)'
      OBVIOUS
    <3>1. MoveOf(s)
      BY <1>9, FilesOf
    <3>2. mover[<<s, m>>].pc = "copying" /\ final[s] # NoFile
      BY <1>1, <3>1 DEF MoveOf
    <3>3. \A k \in Movers : dest[<<s, k>>] = NoFile
      BY <3>1, <3>2 DEF MoveOf
    <3>4. \A k \in Movers : k # m => mover[<<s, k>>].pc # "copying"
      <4> SUFFICES ASSUME NEW k \in Movers, k # m, mover[<<s, k>>].pc = "copying" PROVE FALSE
        OBVIOUS
      <4>1. <<s, k>> \in Moving /\ <<s, m>> \in Moving
        BY <1>2, <2>8, <3>2 DEF Moving, MoverType
      <4>2. QED
        BY <2>2, <2>8, <4>1 DEF MoveHolds
    <3>5. \A k \in Movers : mover'[<<s, k>>].pc \notin {"copying", "loose"}
      BY <1>1, <1>3, <1>4, <3>1, <3>4 DEF MoveOf
    <3>6. \A k \in Movers : dest'[<<s, k>>] # NoFile => k = m
      BY <2>9, <3>3
    <3>7. QED
      BY <2>1, <3>5, <3>6 DEF MoveOf
  <2>13. \A x, y \in Moving' : x = y
    <3>1. Moving' \subseteq Moving
      BY <1>1, <1>2, <1>3, <1>4 DEF Moving, MoverType, Slots
    <3>2. QED
      BY <2>2, <3>1 DEF MoveHolds
  <2>14. MoveAfter
    BY <1>1, <1>2, <2>2 DEF MoveHolds, MoverType
  <2>15. s \in merged' /\ MoveAfter => mover'[<<s, "pipe">>].pc # "idle"
    BY ZenonT(60), <1>1, <1>3, <1>4, <2>2 DEF MoveHolds, Movers
  <2>16. /\ merged' \subseteq Sessions /\ mover' \in MoverType
         /\ s \in merged' => ~Early(s)'
    BY <1>1, <1>8, <2>2 DEF OutputType, MergeHolds, Early
  <2>17. \A t \in Sessions : t # s =>
            /\ proc'[t] = proc[t] /\ final'[t] = final[t] /\ (t \in merged' <=> t \in merged)
            /\ \A k \in Movers : mover'[<<t, k>>] = mover[<<t, k>>] /\ dest'[<<t, k>>] = dest[<<t, k>>]
    <3>1. \A t \in Sessions, k \in Movers : t # s => <<t, k>> \in Slots /\ <<t, k>> # <<s, m>>
      BY MoveIs
    <3>2. QED
      BY <1>1, <1>4, <1>6, <1>7, <2>1, <3>1
  <2>18. UNCHANGED <<run, halt, cut>> /\ proc'[s] # "none" /\ (final'[s] = NoFile \/ final'[s].of = s)
    BY <1>1, <2>1, <2>4
  <2>19. QED
    BY <1>6, <1>9, <2>4, <2>10, <2>11, <2>12, <2>13, <2>14, <2>15, <2>16, <2>17, <2>18, OtherFiles
<1>10. QED
  BY <1>8, <1>9

LEMMA MovesFiles ==
  ASSUME OutputType, NEW x \in Sessions \X Movers, Moves(x)
  PROVE  OutputType' /\ (~OneName /\ FileInv => FileInv')
<1>1. PICK s \in Sessions, m \in Movers : x = <<s, m>>
  OBVIOUS
<1>2. mover \in MoverType /\ mover[x] \in MoveType /\ Path(s) \in Sessions
  BY <1>1, EntryIs, SessionsAre DEF OutputType
<1>3. CASE MoveStarts(x)
  <2> DEFINE e == IF final[Path(s)] = NoFile THEN [mover[x] EXCEPT !.pc = "done"]
                  ELSE [pc |-> "copying", took |-> final[Path(s)]]
  <2>1. /\ mover[x].pc = "due" /\ Moving = {} /\ mover' = [mover EXCEPT ![x] = e]
        /\ UNCHANGED <<run, halt, proc, checker, frags, final, dest, merged, cut>>
    BY <1>1, <1>2, <1>3 DEF MoveStarts, SessionOutput, MoverType, Slots
  <2>2. final[Path(s)] \in File \cup {NoFile}
    BY <1>2 DEF OutputType, FinalType
  <2>3. /\ e \in MoveType
        /\ \/ Moving = {} /\ e.pc = "copying" /\ e.took = final[Path(s)] /\ final[Path(s)] # NoFile
           \/ e.pc = "done" /\ e.took = mover[x].took /\ final[Path(s)] = NoFile
    BY <1>2, <2>1, <2>2 DEF MoveType
  <2> HIDE DEF e
  <2>4. QED
    BY <1>1, <2>1, <2>3, MoveOnlyFiles
<1>4. CASE MoveFails(x)
  <2> DEFINE e == [pc |-> "failed", took |-> NoFile]
  <2>1. /\ mover[x].pc \in {"copying", "loose"} /\ mover' = [mover EXCEPT ![x] = e]
        /\ UNCHANGED <<run, halt, proc, checker, frags, final, dest, merged, cut>>
    BY <1>4 DEF MoveFails
  <2>2. e \in MoveType /\ e.pc = "failed" /\ e.took = NoFile
    BY MoveIs DEF MoveType
  <2> HIDE DEF e
  <2>3. QED
    BY <1>1, <2>1, <2>2, MoveOnlyFiles
<1>5. CASE MoveEnds(x)
  BY <1>1, <1>5, MoveEndsFiles
<1>6. QED
  BY <1>3, <1>4, <1>5 DEF Moves

\* A stop meets the attempt: its session is disturbed from here on, before or
\* after its merge.
LEMMA StopBeginsFiles ==
  ASSUME OutputType, ControlInv, StopBegins
  PROVE  OutputType' /\ (FileInv => FileInv')
<1> DEFINE r == [rm EXCEPT !.stopped = TRUE]
           s == run.of
<1>1. /\ halt = NoHalt /\ halt'.pc = "cancel"
      /\ \/ Cancelled(r)
         \/ run.pc = "join" /\ UNCHANGED <<run, frags, mover>>
      /\ proc' = IF run.pc = "launch" THEN [proc EXCEPT ![s] = "gone"] ELSE proc
      /\ cut' = IF s = NoSession THEN cut
                ELSE [cut EXCEPT ![s] = IF s \in merged THEN "late" ELSE "early"]
      /\ UNCHANGED <<checker, final, dest, merged>>
  BY DEF StopBegins
<1> HIDE DEF r
<1>2. /\ ControlType /\ halt.pc = "none" /\ s \in MaybeSession
      /\ run.pc \in {"launch", "wait", "join", "grace", "settle", "move", "last"} => s \in Sessions
      /\ run.pc \in {"none", "meta"} => s = NoSession
      /\ run.pc \in {"none", "meta", "launch", "wait", "join", "grace", "settle", "move", "last"}
  BY <1>1, RunPicks, RunIs DEF ControlInv, ControlType, RunType
<1>3. /\ mover \in MoverType /\ frags \in FragsType /\ "main" \in Movers /\ "last" \in Movers
      /\ proc \in ProcType
  BY DEF OutputType, Movers
<1>4. proc' \in ProcType /\ ProcGoesOn
  BY <1>1, <1>2, <1>3 DEF ProcType, ProcGoesOn
<1>5. s \in Sessions => proc'[s] # "none" /\ (run.pc \notin {"wait", "last"} => proc'[s] = "gone")
  BY <1>1, <1>2, <1>3, SessionsAre DEF ControlInv, AttemptHolds, ProcType
<1>6. /\ cut' \in [Sessions -> {"no", "early", "late"}]
      /\ s \in Sessions => cut'[s] = IF s \in merged THEN "late" ELSE "early"
      /\ \A t \in Sessions : t # s => cut'[t] = cut[t]
  BY <1>1, <1>2, SessionsAre DEF OutputType, MaybeSession
<1>7. CASE UNCHANGED <<frags, mover>>
  <2>1. OutputType'
    BY <1>1, <1>3, <1>4, <1>6, <1>7 DEF OutputType
  <2>2. ASSUME FileInv
        PROVE  FileInv'
    <3>1. s \in Sessions => cut[s] = "no"
      BY <1>2, <2>2, SessionsAre DEF FileInv, MergeHolds
    <3>2. \A t \in Sessions : \/ cut'[t] = cut[t]
                              \/ cut[t] = "no" /\ cut'[t] # "no" /\ proc'[t] # "none"
      BY <1>5, <1>6, <3>1
    <3>3. \A t \in Sessions, m \in Movers : mover'[<<t, m>>] = mover[<<t, m>>]
      BY <1>7
    <3>4. mover' \in MoverType /\ ~(halt'.pc = "none")
      BY <1>1, <1>3, <1>7
    <3>5. QED
      BY <1>1, <1>4, <1>6, <2>2, <3>2, <3>3, <3>4, FilesStay DEF ProcGoesOn
  <2>3. QED
    BY <2>1, <2>2
<1>8. ASSUME s \in Sessions, frags' \in FragsType, mover' \in MoverType,
             \A t \in Sessions, m \in Movers :
                \/ mover'[<<t, m>>] = mover[<<t, m>>]
                \/ /\ t = s /\ MoveAfter /\ mover'[<<t, m>>].pc = "due"
                   /\ mover'[<<t, m>>].took \in {mover[<<t, m>>].took, NoFile}
                   /\ run.pc # "last"
                \/ /\ t = s /\ m # "pipe"
                   /\ \/ mover[<<t, m>>].pc = "due" /\ mover'[<<t, m>>] = NoMove
                      \/ /\ mover[<<t, m>>].pc = "copying" /\ mover'[<<t, m>>].pc = "loose"
                         /\ mover'[<<t, m>>].took = mover[<<t, m>>].took
      PROVE  OutputType' /\ (FileInv => FileInv')
  <2>1. OutputType'
    BY <1>1, <1>4, <1>6, <1>8 DEF OutputType
  <2>2. ASSUME FileInv
        PROVE  FileInv'
    <3>1. cut[s] = "no"
      BY <1>2, <1>8, <2>2, SessionsAre DEF FileInv, MergeHolds
    <3>2. \A t \in Sessions : \/ cut'[t] = cut[t]
                              \/ cut[t] = "no" /\ cut'[t] # "no" /\ proc'[t] # "none"
      BY <1>5, <1>6, <3>1
    <3>3. run.pc # "last" => proc'[s] \notin {"none", "down", "mux"} \/ cut'[s] = "early"
      <4>1. CASE run.pc = "wait"
        <5>1. proc'[s] = proc[s]
          BY <1>1, <4>1
        <5>2. s \in merged => proc[s] \notin {"none", "down", "mux"}
          BY <2>2 DEF FileInv, MergeHolds, Early
        <5>3. QED
          BY <1>6, <1>8, <5>1, <5>2
      <4>2. CASE run.pc # "wait"
        BY <1>5, <1>8, <4>2
      <4>3. QED
        BY <4>1, <4>2
    <3>4. cut'[s] # "no"
      BY <1>6, <1>8
    <3>5. \A t \in Sessions, m \in Movers :
            \/ mover'[<<t, m>>] = mover[<<t, m>>]
            \/ /\ MoveAfter /\ mover'[<<t, m>>].pc = "due"
               /\ mover'[<<t, m>>].took \in {mover[<<t, m>>].took, NoFile}
               /\ proc'[t] \notin {"none", "down", "mux"} \/ cut'[t] = "early"
            \/ /\ m # "pipe" /\ cut'[t] # "no"
               /\ \/ mover[<<t, m>>].pc = "due" /\ mover'[<<t, m>>] = NoMove
                  \/ /\ mover[<<t, m>>].pc = "copying" /\ mover'[<<t, m>>].pc = "loose"
                     /\ mover'[<<t, m>>].took = mover[<<t, m>>].took
      BY ZenonT(60), <1>8, <3>3, <3>4
    <3>6. ~(halt'.pc = "none") /\ UNCHANGED <<final, dest, merged>>
      BY <1>1
    <3>7. QED
      BY <1>4, <1>6, <1>8, <2>2, <3>2, <3>5, <3>6, FilesStay DEF ProcGoesOn
  <2>3. QED
    BY <2>1, <2>2
<1>9. CASE Cancelled(r) /\ run.pc \in {"none", "meta"}
  BY <1>7, <1>9 DEF Cancelled
<1>10. CASE Cancelled(r) /\ run.pc = "last"
  <2>1. mover' = LooseMove(s, "last") /\ frags' = frags /\ s \in Sessions
    BY <1>2, <1>10 DEF Cancelled
  <2> HIDE DEF s
  <2>2. /\ LooseMove(s, "last") \in MoverType
        /\ \/ LooseMove(s, "last")[<<s, "last">>] = mover[<<s, "last">>]
           \/ mover[<<s, "last">>].pc = "due" /\ LooseMove(s, "last")[<<s, "last">>] = NoMove
           \/ /\ mover[<<s, "last">>].pc = "copying" /\ LooseMove(s, "last")[<<s, "last">>].pc = "loose"
              /\ LooseMove(s, "last")[<<s, "last">>].took = mover[<<s, "last">>].took
        /\ \A t \in Sessions, k \in Movers :
              t # s \/ k # "last" => LooseMove(s, "last")[<<t, k>>] = mover[<<t, k>>]
    BY <1>3, <2>1, LooseMoveIs
  <2>3. QED
    BY <1>3, <1>8, <2>1, <2>2
<1>11. CASE Cancelled(r) /\ run.pc \in {"launch", "wait", "join", "grace", "settle", "move"}
  <2> DEFINE f == LooseMove(s, "main")
             g == [f EXCEPT ![<<s, "last">>].pc = "due"]
  <2>1. /\ frags' \in Cleaned(s) \cup {frags} /\ s \in Sessions
        /\ (MoveAfter /\ mover' = g) \/ mover' = f
    BY <1>2, <1>11 DEF Cancelled
  <2>2. frags' \in FragsType
    BY <1>3, <2>1, CleanedIs
  <2> HIDE DEF s
  <2>3. /\ f \in MoverType
        /\ \/ f[<<s, "main">>] = mover[<<s, "main">>]
           \/ mover[<<s, "main">>].pc = "due" /\ f[<<s, "main">>] = NoMove
           \/ /\ mover[<<s, "main">>].pc = "copying" /\ f[<<s, "main">>].pc = "loose"
              /\ f[<<s, "main">>].took = mover[<<s, "main">>].took
        /\ \A t \in Sessions, k \in Movers : t # s \/ k # "main" => f[<<t, k>>] = mover[<<t, k>>]
    BY <1>3, <2>1, LooseMoveIs
  <2> HIDE DEF f
  <2>4. CASE mover' = f
    BY <1>8, <2>1, <2>2, <2>3, <2>4
  <2>5. CASE MoveAfter /\ mover' = g
    <3>1. f \in MoverType /\ s \in Sessions /\ "last" \in Movers
      BY <1>3, <2>1, <2>3
    <3>2. /\ g \in MoverType /\ g[<<s, "last">>].pc = "due"
          /\ g[<<s, "last">>].took = f[<<s, "last">>].took
          /\ \A t \in Sessions, k \in Movers : t # s \/ k # "last" => g[<<t, k>>] = f[<<t, k>>]
      BY <3>1, DueEntry
    <3> HIDE DEF g
    <3>3. f[<<s, "last">>] = mover[<<s, "last">>]
      BY <2>3, <3>1
    <3>4. QED
      BY <1>11, <1>8, <2>2, <2>3, <2>5, <3>1, <3>2, <3>3
  <2>6. QED
    BY <2>1, <2>4, <2>5
<1>12. QED
  BY <1>1, <1>2, <1>7, <1>9, <1>10, <1>11

-----------------------------------------------------------------------------
(* The theorems.                                                           *)

LEMMA YtStarts == YtInit => YtIInv
<1> SUFFICES ASSUME YtInit PROVE YtIInv
  OBVIOUS
<1> USE DEF YtInit
<1>1. ControlType
  BY RunIs, SessionsAre DEF ControlType, FsmType, RmType
<1>2. OutputType
  BY MoveIs DEF OutputType, ProcType, FragsType, FinalType, MoverType, DestType, Slots
<1>3. AttemptHolds
  BY RunIs DEF AttemptHolds
<1>4. CaptureHolds
  BY DEF CaptureHolds, Alive
<1>5. /\ \A s \in Sessions : proc[s] = "none" /\ final[s] = NoFile /\ cut[s] = "no"
      /\ \A s \in Sessions, m \in Movers : mover[<<s, m>>] = NoMove /\ dest[<<s, m>>] = NoFile
      /\ \A x \in DOMAIN mover : mover[x] = NoMove /\ dest[x] = NoFile
  OBVIOUS
<1>6. OwnFiles
  BY <1>5, MoveIs DEF OwnFiles
<1>7. MergeHolds
  BY <1>5, RunIs DEF MergeHolds
<1>8. MoveHolds
  <2>1. Moving = {}
    BY <1>5, MoveIs DEF Moving
  <2>2. QED
    BY <1>5, <2>1, MoveIs DEF MoveHolds
<1>9. QED
  BY <1>1, <1>2, <1>3, <1>4, <1>6, <1>7, <1>8, TypeParts DEF YtIInv

LEMMA NextControl ==
  ASSUME ControlInv, OutputType, [YtNext]_vars
  PROVE  ControlInv'
<1>1. proc \in ProcType
  BY DEF OutputType
<1>2. CASE Start
  BY <1>2, StartControl
<1>3. CASE Respawn
  BY <1>3, RespawnControl
<1>4. CASE MetaDeclines
  BY <1>4, MetaDeclinesControl
<1>5. CASE MetaAccepts
  BY <1>5, MetaAcceptsControl
<1>6. CASE Launched
  BY <1>1, <1>6, LaunchedControl
<1>7. CASE LaunchFails
  BY <1>1, <1>7, LaunchFailsControl
<1>8. CASE \/ WaitReturns \/ Joined \/ GraceFinds \/ GraceGivesUp \/ Settled \/ MainMoved \/ LastMoved
  BY <1>8, EndingControl
<1>9. CASE StopBegins
  BY <1>1, <1>9, StopBeginsControl
<1>10. CASE StopSignals
  BY <1>10, StopSignalsControl
<1>11. CASE StopEnds
  BY <1>11, StopEndsControl
<1>12. ASSUME \/ Killed \/ UNCHANGED vars
              \/ \E x \in Sessions \X Movers : Moves(x)
              \/ \E s \in Sessions :
                    DownloadEnds(s) \/ MergeEnds(s) \/ MergeFails(s) \/ Exits(s) \/ CheckerSees(s)
       PROVE  ControlInv'
  <2>1. UNCHANGED <<fsm, rm, run, rest, halt>>
    BY <1>12 DEF Killed, vars, Moves, MoveStarts, MoveFails, MoveEnds, DownloadEnds, MergeEnds,
                 MergeFails, Exits, CheckerSees
  <2>2. \/ UNCHANGED proc
        \/ \E s \in Sessions : /\ proc[s] \in {"down", "mux", "done"}
                               /\ \/ proc' = [proc EXCEPT ![s] = "mux"]
                                  \/ proc' = [proc EXCEPT ![s] = "done"]
                                  \/ proc' = [proc EXCEPT ![s] = "gone"]
    BY <1>12 DEF Killed, StopTargets, Alive, vars, Moves, MoveStarts, MoveFails, MoveEnds,
                 DownloadEnds, MergeEnds, MergeFails, Exits, CheckerSees, Merges
  <2>3. \A s \in Sessions : /\ proc[s] = "none" <=> proc'[s] = "none"
                            /\ proc[s] = "gone" => proc'[s] = "gone"
                            /\ proc'[s] \in {"down", "mux", "done"} => proc[s] \in {"down", "mux", "done"}
    BY <1>1, <2>2 DEF ProcType
  <2>4. QED
    BY <2>1, <2>3, ProcessGoesOn
<1>13. QED
  BY <1>2, <1>3, <1>4, <1>5, <1>6, <1>7, <1>8, <1>9, <1>10, <1>11, <1>12 DEF YtNext, Attempt

LEMMA NextFiles ==
  ASSUME ControlInv, OutputType, [YtNext]_vars
  PROVE  OutputType' /\ (~OneName /\ FileInv => FileInv')
<1>1. CASE \/ Start \/ Respawn \/ MetaDeclines \/ MetaAccepts \/ WaitReturns \/ LastMoved
           \/ StopSignals \/ StopEnds \/ UNCHANGED vars
  BY <1>1, ControlFiles
<1>2. CASE \/ Launched \/ Joined \/ GraceFinds \/ Killed
           \/ \E s \in Sessions : MergeFails(s) \/ Exits(s)
  BY <1>2, ProcessFiles
<1>3. CASE LaunchFails \/ GraceGivesUp \/ Settled \/ MainMoved
  BY <1>3, EndingFiles
<1>4. CASE StopBegins
  BY <1>4, StopBeginsFiles
<1>5. CASE \E s \in Sessions : DownloadEnds(s) \/ CheckerSees(s)
  BY <1>5, DownloadFiles
<1>6. CASE \E s \in Sessions : MergeEnds(s)
  BY <1>6, MergeEndsFiles
<1>7. CASE \E x \in Sessions \X Movers : Moves(x)
  BY <1>7, MovesFiles
<1>8. QED
  BY <1>1, <1>2, <1>3, <1>4, <1>5, <1>6, <1>7 DEF YtNext, Attempt

LEMMA YtSteps == YtIInv /\ [YtNext]_vars => YtIInv'
<1> SUFFICES ASSUME YtIInv, [YtNext]_vars PROVE YtIInv'
  OBVIOUS
<1>1. ControlInv /\ OutputType /\ (~OneName => FileInv)
  BY TypeParts DEF YtIInv, ControlInv, FileInv
<1>2. ControlInv'
  BY <1>1, NextControl
<1>3. OutputType' /\ (~OneName => FileInv')
  BY <1>1, NextFiles
<1>4. (YtTypeOK <=> ControlType /\ OutputType)'
  BY DEF YtTypeOK, ControlType, OutputType, FsmType, RmType, RunType, HaltType, ProcType, FragsType,
         MoveType, Slots, MoverType, DestType, FinalType
<1>5. QED
  BY <1>2, <1>3, <1>4 DEF YtIInv, ControlInv, FileInv

\* Whatever the controller owns and however files are named, the attempt, the
\* stop, the processes and the movers of module/youtube_recorder.py find each
\* other as YtIInv says.
THEOREM YtIsSafe == YtSpec => []YtIInv
<1>1. YtInit => YtIInv
  BY YtStarts
<1>2. YtIInv /\ [YtNext]_vars => YtIInv'
  BY YtSteps
<1>3. QED
  BY <1>1, <1>2, PTL DEF YtSpec

\* Where the v2 controller owns the processes, no interleaving of starts, stops,
\* respawns and ends leaves a channel with two ytarchive processes, with one that
\* nobody names, or with anything that runs when the stop has returned.
THEOREM OneCaptureOfAChannel ==
  ASSUME Controlled
  PROVE  YtSpec => []YtInv
<1>1. ASSUME YtIInv
      PROVE  YtInv
  <2>1. YtTypeOK /\ AttemptHolds /\ CaptureHolds
    BY <1>1 DEF YtIInv
  <2>2. \A s \in Alive : s \in {rm.proc, halt.held}
    BY <2>1 DEF AttemptHolds, CaptureHolds
  <2>3. \E s : Alive \subseteq {s}
    BY <2>1 DEF CaptureHolds
  <2>4. Cardinality(Alive) <= 1
    <3>1. PICK s : Alive \subseteq {s}
      BY <2>3
    <3>2. IsFiniteSet({s}) /\ Cardinality({s}) = 1
      BY FS_Singleton
    <3>3. IsFiniteSet(Alive) /\ Cardinality(Alive) <= Cardinality({s})
      BY <3>1, <3>2, FS_Subset
    <3>4. QED
      BY <3>2, <3>3
  <2>5. StoppedIsQuiet
    BY <2>1, RunIs DEF StoppedIsQuiet, AttemptHolds, CaptureHolds
  <2>6. QED
    BY <2>1, <2>2, <2>4, <2>5 DEF YtInv, OneCaptureAtATime
<1>2. QED
  BY <1>1, YtIsSafe, PTL

\* Where the file name pattern tells sessions apart, what ytarchive merged before
\* anybody cancelled its attempt is whole in the output folder or in the
\* destination at every moment: three movers, their failures and a stop in the
\* middle of any of them lose nothing.
THEOREM MergesAreKept ==
  ASSUME ~OneName
  PROVE  YtSpec => []MergedIsKept
<1>1. ASSUME YtIInv
      PROVE  MergedIsKept
  <2>1. FileInv /\ OutputType
    BY <1>1, TypeParts DEF YtIInv, FileInv
  <2> SUFFICES ASSUME NEW s \in merged, cut[s] # "early" PROVE WholeSomewhere(s)
    BY DEF MergedIsKept
  <2>2. s \in Sessions /\ Path(s) = s
    BY <2>1, SessionsAre DEF OutputType
  <2>3. final[s] = Whole(s) \/ \E m \in Movers : dest[<<s, m>>] = Whole(s)
    BY <2>1, <2>2, FilesOf DEF MergeOf
  <2>4. \A m \in Movers : <<s, m>> \in DOMAIN dest
    BY <2>1, <2>2 DEF OutputType, DestType, Slots
  <2>5. QED
    BY <2>2, <2>3, <2>4 DEF WholeSomewhere, SessionOutput, Whole
<1>2. QED
  BY <1>1, YtIsSafe, PTL

\* And a session that nobody stopped and no move failed for ends as one copy, in
\* the destination if files are moved, else in the output folder.
THEOREM UndisturbedSessionsAreDelivered ==
  ASSUME ~OneName
  PROVE  YtSpec => []UndisturbedIsDelivered
<1>1. ASSUME YtIInv
      PROVE  UndisturbedIsDelivered
  <2>1. FileInv /\ OutputType
    BY <1>1, TypeParts DEF YtIInv, FileInv
  <2> DEFINE copies(s) == {x \in DOMAIN dest : dest[x] = [of |-> s, whole |-> TRUE]}
  <2> SUFFICES ASSUME NEW s \in merged, cut[s] = "no",
                      \A m \in Movers : mover[<<s, m>>].pc \in {"idle", "done"}
               PROVE  /\ Cardinality(copies(s)) = IF MoveAfter THEN 1 ELSE 0
                      /\ (SessionOutput(s) = NoFile) <=> MoveAfter
    BY DEF UndisturbedIsDelivered
  <2>2. s \in Sessions /\ SessionOutput(s) = final[s] /\ "pipe" \in Movers
    BY <2>1, SessionsAre DEF OutputType, SessionOutput, Movers
  <2>3. MergeOf(s) /\ MoveOf(s) /\ DOMAIN dest = Slots /\ DOMAIN mover = Slots
    BY <2>1, <2>2, FilesOf DEF OutputType, DestType, MoverType
  <2>4. Whole(s) # NoFile
    BY <2>2, MoveIs
  <2>5. CASE MoveAfter
    <3>1. mover[<<s, "pipe">>].pc = "done"
      BY <2>1, <2>2, <2>5 DEF FileInv, MoveHolds
    <3>2. final[s] = NoFile
      BY <2>2, <2>3, <3>1 DEF MoveOf
    <3>3. PICK m \in Movers : dest[<<s, m>>] = Whole(s)
      BY <2>3, <2>4, <3>2 DEF MergeOf
    <3>4. \A k \in Movers : dest[<<s, k>>] = Whole(s) => k = m
      BY <2>3, <2>4, <3>3 DEF MoveOf
    <3>5. ASSUME NEW t \in Sessions, NEW k \in Movers, dest[<<t, k>>] = Whole(s)
          PROVE  t = s
      <4>1. dest[<<t, k>>].of = t
        BY <2>1, <2>4, <3>5 DEF FileInv, OwnFiles
      <4>2. QED
        BY <2>2, <3>5, <4>1, MoveIs
    <3>6. copies(s) = {<<s, m>>}
      <4>1. \A x \in Slots : x \in copies(s) <=> dest[x] = Whole(s)
        BY <2>3 DEF Whole
      <4>2. copies(s) \subseteq Slots /\ <<s, m>> \in Slots
        BY <2>2, <2>3, MoveIs
      <4>3. \A x \in Slots : dest[x] = Whole(s) => x = <<s, m>>
        BY <3>4, <3>5 DEF Slots
      <4> HIDE DEF copies
      <4>4. QED
        BY <3>3, <4>1, <4>2, <4>3
    <3>7. Cardinality(copies(s)) = 1
      BY <3>6, FS_Singleton
    <3>8. QED
      BY <2>2, <2>5, <3>2, <3>7
  <2>6. CASE ~MoveAfter
    <3>1. \A x \in DOMAIN dest : dest[x] = NoFile
      BY <2>1, <2>3, <2>6 DEF FileInv, MoveHolds
    <3>2. copies(s) = {}
      BY <2>4, <3>1 DEF Whole
    <3>3. Cardinality(copies(s)) = 0
      BY <3>2, FS_EmptySet
    <3>4. final[s] = Whole(s)
      BY <2>2, <2>3, <2>4, <3>1, MoveIs DEF MergeOf
    <3>5. QED
      BY <2>2, <2>4, <2>6, <3>3, <3>4
  <2>7. QED
    BY <2>5, <2>6
<1>2. QED
  BY <1>1, YtIsSafe, PTL
=============================================================================
