--------------------------- MODULE YouTubeCapture ---------------------------
(***************************************************************************)
(* One YouTube channel: the watch task of module/channel_fsm.py, the       *)
(* attempt it runs (module/youtube_recorder.py, ytStartRecording), the     *)
(* ytarchive process of the attempt, the task that turns a stop into an    *)
(* interrupt (checkStopRequest), and everybody who moves the merged file:  *)
(* the reader of the process's output, the attempt, and its finally        *)
(* clause.                                                                 *)
(*                                                                         *)
(* A session is one launch of ytarchive.  It downloads fragments, merges   *)
(* them into a file in the output folder, names the file on its output and *)
(* exits.  A step is what happens between two awaits that really suspend.  *)
(***************************************************************************)
EXTENDS Integers, FiniteSets

CONSTANTS
    MaxSessions,    \* bound: launches of ytarchive in one behaviour
    Controlled,     \* whether the v2 controller owns the capture processes
    OneName,        \* whether the file name pattern names every session alike
    MoveAfter       \* moveAfterProcessingEnabled, with a folder to move to

ASSUME YouTubeAssumption ==
    /\ MaxSessions \in Nat \ {0}
    /\ Controlled \in BOOLEAN
    /\ OneName \in BOOLEAN
    /\ MoveAfter \in BOOLEAN

VARIABLES
    fsm,        \* ChannelRuntime: state and stop_requested
    rm,         \* RecorderManager: user-stopped, recording, process
    run,        \* the attempt in the watch task
    rest,       \* whether a respawn task sleeps
    halt,       \* the stop that holds the channel's lock
    proc,       \* the ytarchive process of each session
    checker,    \* sessions whose checkStopRequest still polls
    frags,      \* the downloaded fragments of each session
    final,      \* the file at each output path
    mover,      \* who moves the file of a session, and how far it is
    dest,       \* what each mover left in the destination folder
    merged,     \* history: sessions that ytarchive merged completely
    cut         \* history: whether a stop met the attempt, before or after that

files == <<frags, final, mover, dest>>
vars == <<fsm, rm, run, rest, halt, proc, checker, files, merged, cut>>

Sessions == 1..MaxSessions
NoSession == 0
MaybeSession == Sessions \cup {NoSession}
Movers == {"pipe", "main", "last"}

\* A file is the session it was made of and whether the merge got to its end.
File == [of : Sessions, whole : BOOLEAN]
NoFile == [of |-> NoSession, whole |-> FALSE]

NoRun == [pc |-> "none", of |-> NoSession]
NoHalt == [pc |-> "none", held |-> NoSession]
NoMove == [pc |-> "idle", took |-> NoFile]

YtTypeOK ==
    /\ fsm \in [state : {"STOPPED", "WATCHING", "RECORDING"}, stop : BOOLEAN]
    /\ rm \in [stopped : BOOLEAN, recording : BOOLEAN, proc : MaybeSession]
    /\ run \in [pc : {"none", "meta", "launch", "wait", "join", "grace", "settle", "move", "last"},
                of : MaybeSession]
    /\ (run.of = NoSession) <=> (run.pc \in {"none", "meta"})
    /\ rest \in BOOLEAN
    /\ halt \in [pc : {"none", "cancel", "term"}, held : MaybeSession]
    /\ proc \in [Sessions -> {"none", "down", "mux", "done", "gone"}]
    /\ checker \subseteq Sessions
    /\ frags \in [Sessions -> {"none", "kept", "removed"}]
    /\ final \in [Sessions -> File \cup {NoFile}]
    /\ mover \in [Sessions \X Movers ->
                    [pc : {"idle", "due", "copying", "loose", "done", "failed"},
                     took : File \cup {NoFile}]]
    /\ dest \in [Sessions \X Movers -> File \cup {NoFile}]
    /\ merged \subseteq Sessions
    /\ cut \in [Sessions -> {"no", "early", "late"}]

-----------------------------------------------------------------------------
\* Processes and files.

Alive == {s \in Sessions : proc[s] \in {"down", "mux", "done"}}
Unused == {s \in Sessions : proc[s] = "none"}

\* buildCommand names the output by the pattern of the configuration.  The one
\* it starts with has the day of the broadcast, its title and its quality in
\* it, and nothing that tells two sessions of a broadcast apart.
Path(s) == IF OneName THEN 1 ELSE s

\* findSessionOutput: what lies at the session's output prefix.
SessionOutput(s) == final[Path(s)]

\* cleanupTmp removes every working folder whose name starts with the session's
\* video id: that of the session and, when they are of the same video, those of
\* sessions before it.
Cleaned(s) ==
    {[t \in Sessions |-> IF t \in video /\ frags[t] = "kept" THEN "removed" ELSE frags[t]] :
        video \in {V \in SUBSET Sessions : s \in V}}

\* moveDirectory runs one move at a time; a caller that is cancelled gives the
\* lock back and leaves its thread running.
Moving == {x \in DOMAIN mover : mover[x].pc = "copying"}
Busy(x) == mover[x].pc \in {"due", "copying", "loose"}

\* The metadata of a page: the player's answer, or none; a fetch with cookies
\* that times out is repeated without them.
Pages == [fetched : BOOLEAN, player : BOOLEAN, liveNow : BOOLEAN, streamable : BOOLEAN,
          status : {"OK", "LIVE_STREAM_OFFLINE", "OTHER"}]
IsLive(page) ==
    /\ page.fetched /\ page.player
    /\ \/ page.liveNow /\ page.status # "LIVE_STREAM_OFFLINE"
       \/ page.streamable /\ page.status = "OK"

-----------------------------------------------------------------------------
\* The end of an attempt.

\* The watch task's finally clause.
AfterAttempt(again, r) ==
    /\ run' = NoRun
    /\ IF fsm.stop \/ ~again
       THEN /\ fsm' = [state |-> "STOPPED", stop |-> TRUE]
            /\ rm' = [r EXCEPT !.stopped = TRUE, !.recording = FALSE]
            /\ UNCHANGED rest
       ELSE /\ fsm' = [state |-> "WATCHING", stop |-> FALSE]
            /\ rm' = [r EXCEPT !.stopped = FALSE, !.recording = FALSE]
            /\ rest' = TRUE

Cleared(r) == [r EXCEPT !.recording = FALSE, !.proc = NoSession]

\* The finally clause of an attempt that launched s: it forgets the process,
\* cleans up if there is an output, and moves what there is, after a while.
\* m is mover as the caller leaves it.
Leave(s, again, r, m) ==
    /\ frags' \in IF SessionOutput(s) # NoFile THEN Cleaned(s) ELSE {frags}
    /\ IF MoveAfter /\ SessionOutput(s) # NoFile
       THEN /\ run' = [pc |-> "last", of |-> s]
            /\ mover' = [m EXCEPT ![<<s, "last">>] = [pc |-> "due", took |-> NoFile]]
            /\ rm' = Cleared(r)
            /\ fsm' = fsm /\ rest' = rest
       ELSE AfterAttempt(again, Cleared(r)) /\ mover' = m

-----------------------------------------------------------------------------
\* The attempt.

Begin ==
    /\ run' = [pc |-> "meta", of |-> NoSession]
    /\ fsm' = [state |-> "WATCHING", stop |-> FALSE]
    /\ rm' = [rm EXCEPT !.stopped = FALSE, !.recording = FALSE]

\* userStart: a recording that goes on is recognized, a watch task that runs is
\* left alone.
Start ==
    /\ halt = NoHalt
    /\ IF rm.recording \/ (IF Controlled THEN Alive # {} ELSE rm.proc \in Alive)
       THEN /\ fsm' = [state |-> "RECORDING", stop |-> FALSE]
            /\ rm' = [rm EXCEPT !.recording = TRUE, !.stopped = FALSE]
            /\ UNCHANGED run
       ELSE run = NoRun /\ Begin
    /\ UNCHANGED <<rest, halt, proc, checker, files, merged, cut>>

Respawn ==
    /\ rest
    /\ rest' = FALSE
    /\ IF run = NoRun /\ ~fsm.stop THEN Begin ELSE UNCHANGED <<fsm, rm, run>>
    /\ UNCHANGED <<halt, proc, checker, files, merged, cut>>

\* Not live, a broadcast that the policy does not want, or a command that cannot
\* be built: the attempt ends, for good if the channel is switched off.
MetaDeclines ==
    /\ run.pc = "meta"
    /\ \E live \in {IsLive(page) : page \in Pages}, wanted, built, enabled \in BOOLEAN :
          /\ ~(live /\ wanted /\ built)
          /\ AfterAttempt(enabled \/ ~wanted, Cleared(rm))
    /\ UNCHANGED <<halt, proc, checker, files, merged, cut>>

MetaAccepts ==
    /\ run.pc = "meta"
    /\ \E page \in Pages : IsLive(page)
    /\ \E s \in Unused :
          /\ \A t \in Unused : s <= t
          /\ run' = [pc |-> "launch", of |-> s]
    /\ UNCHANGED <<fsm, rm, rest, halt, proc, checker, files, merged, cut>>

Launched ==
    /\ run.pc = "launch"
    /\ run' = [run EXCEPT !.pc = "wait"]
    /\ proc' = [proc EXCEPT ![run.of] = "down"]
    /\ frags' = [frags EXCEPT ![run.of] = "kept"]
    /\ rm' = [rm EXCEPT !.recording = TRUE, !.proc = run.of]
    /\ checker' = checker \cup {run.of}
    /\ UNCHANGED <<fsm, rest, halt, final, mover, dest, merged, cut>>

LaunchFails ==
    /\ run.pc = "launch"
    /\ proc' = [proc EXCEPT ![run.of] = "gone"]
    /\ Leave(run.of, TRUE, rm, mover)
    /\ UNCHANGED <<halt, checker, final, dest, merged, cut>>

\* The process is over: the stop flag is read, dropped, and not looked at again
\* until the file has been dealt with.
WaitReturns ==
    /\ run.pc = "wait" /\ proc[run.of] = "gone"
    /\ rm' = [rm EXCEPT !.stopped = FALSE]
    /\ run' = [run EXCEPT !.pc = "join"]
    /\ UNCHANGED <<fsm, rest, halt, proc, checker, files, merged, cut>>

\* Readers, stop checker, progress mark and heartbeat end.
Joined ==
    /\ run.pc = "join"
    /\ checker' = checker \ {run.of}
    /\ run' = [run EXCEPT !.pc = "grace"]
    /\ UNCHANGED <<fsm, rm, rest, halt, proc, files, merged, cut>>

\* There is an output within the eight seconds: clean up and look again later.
\* Nothing asks whether ytarchive ended well.
GraceFinds ==
    /\ run.pc = "grace" /\ SessionOutput(run.of) # NoFile
    /\ frags' \in Cleaned(run.of)
    /\ run' = [run EXCEPT !.pc = "settle"]
    /\ UNCHANGED <<fsm, rm, rest, halt, proc, checker, final, mover, dest, merged, cut>>

\* The end of a session: flags down, and a stop that came after the process's
\* end is obeyed.
EndSession(m) ==
    \E enabled \in BOOLEAN : Leave(run.of, enabled /\ ~rm.stopped, rm, m)

GraceGivesUp ==
    /\ run.pc = "grace" /\ SessionOutput(run.of) = NoFile
    /\ EndSession(mover)
    /\ UNCHANGED <<halt, proc, checker, final, dest, merged, cut>>

Settled ==
    /\ run.pc = "settle"
    /\ IF MoveAfter
       THEN /\ run' = [run EXCEPT !.pc = "move"]
            /\ mover' = [mover EXCEPT ![<<run.of, "main">>].pc = "due"]
            /\ UNCHANGED <<fsm, rm, rest, frags>>
       ELSE EndSession(mover)
    /\ UNCHANGED <<halt, proc, checker, final, dest, merged, cut>>

\* A move that failed raises, and the attempt is one to be repeated.
MainMoved ==
    /\ run.pc = "move" /\ ~Busy(<<run.of, "main">>)
    /\ IF mover[<<run.of, "main">>].pc = "failed"
       THEN Leave(run.of, TRUE, rm, mover)
       ELSE EndSession(mover)
    /\ UNCHANGED <<halt, proc, checker, final, dest, merged, cut>>

LastMoved ==
    /\ run.pc = "last" /\ ~Busy(<<run.of, "last">>)
    /\ \E again \in BOOLEAN : AfterAttempt(again, rm)
    /\ UNCHANGED <<halt, proc, checker, files, merged, cut>>

-----------------------------------------------------------------------------
\* ytarchive, and the reader of its output.

\* The broadcast ends, or an interrupt asks for what there is so far.
Merges(s) ==
    /\ proc' = [proc EXCEPT ![s] = "mux"]
    /\ final' = [final EXCEPT ![Path(s)] = [of |-> s, whole |-> FALSE]]

DownloadEnds(s) ==
    /\ proc[s] = "down"
    /\ \/ Merges(s)
       \/ proc' = [proc EXCEPT ![s] = "gone"] /\ UNCHANGED final
    /\ UNCHANGED <<fsm, rm, run, rest, halt, checker, frags, mover, dest, merged, cut>>

\* The merge is complete, unless the file it wrote was taken away meanwhile; the
\* reader finds the file's name and starts the task that moves it.
MergeEnds(s) ==
    /\ proc[s] = "mux"
    /\ proc' = [proc EXCEPT ![s] = "done"]
    /\ merged' = merged \cup {s}
    /\ final' = IF SessionOutput(s).of = s
                THEN [final EXCEPT ![Path(s)].whole = TRUE] ELSE final
    /\ mover' = IF MoveAfter THEN [mover EXCEPT ![<<s, "pipe">>].pc = "due"] ELSE mover
    /\ UNCHANGED <<fsm, rm, run, rest, halt, checker, frags, dest, cut>>

MergeFails(s) ==
    /\ proc[s] = "mux"
    /\ proc' = [proc EXCEPT ![s] = "gone"]
    /\ UNCHANGED <<fsm, rm, run, rest, halt, checker, files, merged, cut>>

Exits(s) ==
    /\ proc[s] = "done"
    /\ proc' = [proc EXCEPT ![s] = "gone"]
    /\ UNCHANGED <<fsm, rm, run, rest, halt, checker, files, merged, cut>>

\* checkStopRequest looks once a second, whoever awaits it.
CheckerSees(s) ==
    /\ s \in checker /\ rm.stopped
    /\ checker' = checker \ {s}
    /\ IF proc[s] = "down" THEN Merges(s) ELSE UNCHANGED <<proc, final>>
    /\ UNCHANGED <<fsm, rm, run, rest, halt, frags, mover, dest, merged, cut>>

-----------------------------------------------------------------------------
\* Moving: a copy under a free name of the destination, then the removal of the
\* source, in a thread.

\* Mutant: two moves at a time.
MoveStartsAtOnce(x) ==
    /\ mover[x].pc = "due"
    /\ mover' = [mover EXCEPT ![x] =
                    IF SessionOutput(x[1]) = NoFile THEN [@ EXCEPT !.pc = "done"]
                    ELSE [pc |-> "copying", took |-> SessionOutput(x[1])]]
    /\ UNCHANGED <<fsm, rm, run, rest, halt, proc, checker, frags, final, dest, merged, cut>>

MoveStarts(x) ==
    /\ mover[x].pc = "due" /\ Moving = {}
    /\ mover' = [mover EXCEPT ![x] =
                    IF SessionOutput(x[1]) = NoFile THEN [@ EXCEPT !.pc = "done"]
                    ELSE [pc |-> "copying", took |-> SessionOutput(x[1])]]
    /\ UNCHANGED <<fsm, rm, run, rest, halt, proc, checker, frags, final, dest, merged, cut>>

\* Mutant: the source goes although it could not be copied.
MoveFailsAndRemoves(x) ==
    /\ mover[x].pc \in {"copying", "loose"}
    /\ mover' = [mover EXCEPT ![x] = [pc |-> "failed", took |-> NoFile]]
    /\ dest' = [dest EXCEPT ![x] = [@ EXCEPT !.whole = FALSE]]
    /\ final' = [final EXCEPT ![Path(x[1])] = NoFile]
    /\ UNCHANGED <<fsm, rm, run, rest, halt, proc, checker, frags, merged, cut>>

MoveFails(x) ==
    /\ mover[x].pc \in {"copying", "loose"}
    /\ mover' = [mover EXCEPT ![x] = [pc |-> "failed", took |-> NoFile]]
    /\ UNCHANGED <<fsm, rm, run, rest, halt, proc, checker, frags, final, dest, merged, cut>>

MoveEnds(x) ==
    LET here == SessionOutput(x[1]) IN
    /\ mover[x].pc \in {"copying", "loose"}
    /\ mover' = [mover EXCEPT ![x] = [pc |-> "done", took |-> NoFile]]
    /\ dest' = [dest EXCEPT ![x] = IF here.of = mover[x].took.of THEN here ELSE mover[x].took]
    /\ final' = [final EXCEPT ![Path(x[1])] = NoFile]
    /\ UNCHANGED <<fsm, rm, run, rest, halt, proc, checker, frags, merged, cut>>

-----------------------------------------------------------------------------
\* The stop.

\* A cancelled attempt goes to its finally clause.  A move in a thread goes on
\* without the lock.
LooseMove(s, m) ==
    [mover EXCEPT ![<<s, m>>] = CASE @.pc = "due" -> NoMove
                              [] @.pc = "copying" -> [@ EXCEPT !.pc = "loose"]
                              [] OTHER -> @]

Cancelled(r) ==
    CASE run.pc = "none" -> rm' = r /\ UNCHANGED <<run, frags, mover>>
      [] run.pc = "meta" -> rm' = Cleared(r) /\ run' = NoRun /\ UNCHANGED <<frags, mover>>
      [] run.pc = "last" -> /\ mover' = LooseMove(run.of, "last")
                            /\ run' = NoRun /\ rm' = r /\ UNCHANGED frags
      [] OTHER -> LET s == run.of  left == SessionOutput(s) # NoFile IN
            /\ frags' \in IF left THEN Cleaned(s) ELSE {frags}
            /\ rm' = Cleared(r)
            /\ IF MoveAfter /\ left
               THEN /\ run' = [pc |-> "last", of |-> s]
                    /\ mover' = [LooseMove(s, "main") EXCEPT ![<<s, "last">>].pc = "due"]
               ELSE run' = NoRun /\ mover' = LooseMove(s, "main")

\* stop: the flags first, then the watch task is cancelled and waited for.  The
\* joins of step 14 suppress a cancellation that meets them.  A process that is
\* just being created is ended by the library.
StopBegins ==
    LET r == [rm EXCEPT !.stopped = TRUE] IN
    /\ halt = NoHalt
    /\ fsm' = [fsm EXCEPT !.stop = TRUE]
    /\ rest' = FALSE
    /\ halt' = [pc |-> "cancel", held |-> IF Controlled /\ Alive # {} THEN CHOOSE s \in Alive : TRUE
                                          ELSE NoSession]
    /\ \/ Cancelled(r)
       \/ run.pc = "join" /\ rm' = r /\ UNCHANGED <<run, frags, mover>>
    /\ proc' = IF run.pc = "launch" THEN [proc EXCEPT ![run.of] = "gone"] ELSE proc
    /\ cut' = IF run.of = NoSession THEN cut
              ELSE [cut EXCEPT ![run.of] = IF run.of \in merged THEN "late" ELSE "early"]
    /\ UNCHANGED <<checker, final, dest, merged>>

\* What the stop has a handle on is terminated: with the controller the process
\* it knew before the cancellation, else what the manager still names.
\* Mutant: a merge is left alone.
StopTargetsDownloads == {s \in Alive : proc[s] = "down"}
StopTargets == IF Controlled THEN Alive ELSE {rm.proc} \cap Alive

StopSignals ==
    /\ halt.pc = "cancel" /\ run = NoRun
    /\ halt' = [halt EXCEPT !.pc = "term"]
    /\ rm' = IF halt.held # NoSession /\ rm.proc = NoSession
             THEN [rm EXCEPT !.proc = halt.held] ELSE rm
    /\ UNCHANGED <<fsm, run, rest, proc, checker, files, merged, cut>>

\* Mutant: who merges is asked, not forced.
KilledMildly ==
    /\ halt.pc = "term"
    /\ \E s \in StopTargets : proc[s] = "down" /\ proc' = [proc EXCEPT ![s] = "gone"]
    /\ UNCHANGED <<fsm, rm, run, rest, halt, checker, files, merged, cut>>

Killed ==
    /\ halt.pc = "term"
    /\ \E s \in StopTargets : proc' = [proc EXCEPT ![s] = "gone"]
    /\ UNCHANGED <<fsm, rm, run, rest, halt, checker, files, merged, cut>>

StopEnds ==
    /\ halt.pc = "term" /\ StopTargets = {}
    /\ halt' = NoHalt
    /\ fsm' = [state |-> "STOPPED", stop |-> TRUE]
    /\ rm' = [stopped |-> TRUE, recording |-> FALSE, proc |-> NoSession]
    /\ UNCHANGED <<run, rest, proc, checker, files, merged, cut>>

-----------------------------------------------------------------------------
YtInit ==
    /\ fsm = [state |-> "STOPPED", stop |-> FALSE]
    /\ rm = [stopped |-> FALSE, recording |-> FALSE, proc |-> NoSession]
    /\ run = NoRun /\ rest = FALSE /\ halt = NoHalt
    /\ proc = [s \in Sessions |-> "none"]
    /\ checker = {}
    /\ frags = [s \in Sessions |-> "none"]
    /\ final = [s \in Sessions |-> NoFile]
    /\ mover = [x \in Sessions \X Movers |-> NoMove]
    /\ dest = [x \in Sessions \X Movers |-> NoFile]
    /\ merged = {} /\ cut = [s \in Sessions |-> "no"]

Attempt ==
    \/ MetaDeclines \/ MetaAccepts \/ Launched \/ LaunchFails
    \/ WaitReturns \/ Joined \/ GraceFinds \/ GraceGivesUp
    \/ Settled \/ MainMoved \/ LastMoved

Moves(x) == MoveStarts(x) \/ MoveFails(x) \/ MoveEnds(x)

YtNext ==
    \/ Start \/ Respawn \/ Attempt
    \/ StopBegins \/ StopSignals \/ Killed \/ StopEnds
    \/ \E s \in Sessions :
          DownloadEnds(s) \/ MergeEnds(s) \/ MergeFails(s) \/ Exits(s) \/ CheckerSees(s)
    \/ \E x \in Sessions \X Movers : Moves(x)

\* Timers fire, threads and processes that were told to end do: an attempt takes
\* its steps, a move ends, and a stop terminates what it has a handle on.
YtFairness ==
    /\ WF_vars(Attempt)
    /\ WF_vars(Respawn)
    /\ WF_vars(StopSignals) /\ WF_vars(Killed) /\ WF_vars(StopEnds)
    /\ \A x \in Sessions \X Movers : WF_vars(Moves(x))

YtSpec == YtInit /\ [][YtNext]_vars /\ YtFairness

-----------------------------------------------------------------------------
\* Properties.

\* The channel is recorded once at a time, and what is recorded is what the
\* manager or the stop that ends it names.
OneCaptureAtATime ==
    /\ Cardinality(Alive) <= 1
    /\ \A s \in Alive : s \in {rm.proc, halt.held}

\* Between a stop's end and the next start nothing records, nothing is about to,
\* and no flag says so (ChannelFsm.stop returns when the tree is dead).
StoppedIsQuiet ==
    halt = NoHalt /\ fsm.state = "STOPPED" /\ fsm.stop =>
        Alive = {} /\ run = NoRun /\ ~rm.recording

\* Types, and one capture: stops that overtake the attempt and attempts that
\* overtake the stop never leave two ytarchive processes, or one without a name,
\* nor anything that runs when the stop has returned.
YtInv == YtTypeOK /\ OneCaptureAtATime /\ StoppedIsQuiet

\* Every merge that got to its end before anybody cancelled its attempt is whole
\* in the output folder or in the destination at every moment, whoever moves it,
\* whichever move fails, and whenever a stop comes.
WholeSomewhere(s) ==
    [of |-> s, whole |-> TRUE] \in {SessionOutput(s)} \cup {dest[x] : x \in DOMAIN dest}
MergedIsKept == \A s \in merged : cut[s] # "early" => WholeSomewhere(s)

\* Once nobody is at work on a session that was merged, not stopped, and met no
\* failing move, there is one copy of it, in the destination if files are
\* moved, else in the output folder.
AtRest(s) == run.of # s /\ proc[s] = "gone" /\ \A m \in Movers : ~Busy(<<s, m>>)
UndisturbedIsDelivered ==
    \A s \in merged :
        cut[s] = "no" /\ AtRest(s) /\ (\A m \in Movers : mover[<<s, m>>].pc \in {"idle", "done"}) =>
            /\ Cardinality({x \in DOMAIN dest : dest[x] = [of |-> s, whole |-> TRUE]})
                  = IF MoveAfter THEN 1 ELSE 0
            /\ (SessionOutput(s) = NoFile) <=> MoveAfter

\* A stop comes to its end, whatever it met.
StopReturns == halt # NoHalt ~> halt = NoHalt

\* Fragments go when what they were merged into is there.
CleanupSparesUnmerged ==
    \A s \in Sessions : frags[s] = "removed" => s \in merged
=============================================================================
