---------------------------- MODULE CaptureGuard ----------------------------
(***************************************************************************)
(* The durable marker that keeps the application from starting a capture   *)
(* beside one that outlived an earlier run of it: module/v2_runtime.py,    *)
(* used by the lifespan of lar_app/bootstrap.py and by                     *)
(* ChannelControlService.retain_capture_process.                           *)
(*                                                                         *)
(* A capture is the process group of one recorder launch.  The file        *)
(* v2-capture-active.json is the marker; the launch journal is the list of *)
(* process identities that finish_capture_guard examines at shutdown.      *)
(***************************************************************************)
CONSTANT Captures   \* recorder launches, of all channels and all runs

VARIABLES
    guard,     \* the application's phase, the marker and the guard's flags
    group,     \* the process group of each capture
    mine,      \* the captures launched since the application started
    recorded   \* _capture_processes: those whose identity was taken

guardVars == <<guard, group, mine, recorded>>

\* "admitted": capture_storage_report passed and nothing is launched yet.
\* "orphaned": the leader exited, members of its group live.
GroupStates == {"absent", "admitted", "live", "orphaned"}

Survives(c) == group[c] \in {"live", "orphaned"}

Up == guard.phase = "up"

GuardTypeOK ==
    /\ guard \in [phase : {"down", "up"}, marker : BOOLEAN, refused : BOOLEAN,
                  uncertain : BOOLEAN]
    /\ group \in [Captures -> GroupStates]
    /\ mine \subseteq Captures
    /\ recorded \subseteq mine

GuardInit ==
    /\ guard = [phase |-> "down", marker |-> FALSE, refused |-> FALSE,
                uncertain |-> FALSE]
    /\ group = [c \in Captures |-> "absent"]
    /\ mine = {}
    /\ recorded = {}

-----------------------------------------------------------------------------
\* Mutant: the marker is written only after captures may have started.
BeginGuardUnmarked ==
    /\ ~Up
    /\ guard' = [guard EXCEPT !.phase = "up", !.refused = guard.marker,
                              !.uncertain = FALSE]
    /\ mine' = {}
    /\ recorded' = {}
    /\ UNCHANGED group

\* begin_capture_guard: a marker that is already there refuses all captures
\* of this run; otherwise it is written and synced before anything may start.
BeginGuard ==
    /\ ~Up
    /\ guard' = [phase |-> "up", marker |-> TRUE, refused |-> guard.marker,
                 uncertain |-> FALSE]
    /\ mine' = {}
    /\ recorded' = {}
    /\ UNCHANGED group

\* capture_storage_report.  A capture that is gone may stand for a later
\* launch: its old identity counts no more.
Admit(c) ==
    /\ Up
    /\ ~guard.refused
    /\ group[c] = "absent"
    /\ group' = [group EXCEPT ![c] = "admitted"]
    /\ mine' = mine \cup {c}
    /\ recorded' = recorded \ {c}
    /\ UNCHANGED guard

\* The admission comes to nothing: no command, or a cancelled launch.
Withdraw(c) ==
    /\ group[c] = "admitted"
    /\ group' = [group EXCEPT ![c] = "absent"]
    /\ UNCHANGED <<guard, mine, recorded>>

\* The launch and record_capture_process.
\* The identity is read and journalled.
LaunchRecorded(c) ==
    /\ group[c] = "admitted"
    /\ group' = [group EXCEPT ![c] = "live"]
    /\ recorded' = recorded \cup {c}
    /\ UNCHANGED <<guard, mine>>

\* The process is gone before it is read, and so is its group.
LaunchVanishes(c) ==
    /\ group[c] = "admitted"
    /\ group' = [group EXCEPT ![c] = "absent"]
    /\ UNCHANGED <<guard, mine, recorded>>

\* The process is gone before it is read, its group is not.
LaunchEscapes(c) ==
    /\ group[c] = "admitted"
    /\ group' = [group EXCEPT ![c] = "orphaned"]
    /\ guard' = [guard EXCEPT !.uncertain = TRUE]
    /\ UNCHANGED <<mine, recorded>>

\* The identity cannot be read, or (after the append to the list) the journal
\* cannot be written.
LaunchFails(c) ==
    /\ group[c] = "admitted"
    /\ group' = [group EXCEPT ![c] = "live"]
    /\ guard' = [guard EXCEPT !.uncertain = TRUE, !.refused = TRUE]
    /\ \/ recorded' = recorded \cup {c}
       \/ UNCHANGED recorded
    /\ UNCHANGED mine

\* retain_capture_process raises before it calls record_capture_process: the
\* guard never hears of this launch, only the channel's policy does.
LaunchUnheard(c) ==
    /\ group[c] = "admitted"
    /\ group' = [group EXCEPT ![c] = "live"]
    /\ UNCHANGED <<guard, mine, recorded>>

LeaderExits(c) ==
    /\ group[c] = "live"
    /\ \E after \in {"absent", "orphaned"} : group' = [group EXCEPT ![c] = after]
    /\ UNCHANGED <<guard, mine, recorded>>

OrphansExit(c) ==
    /\ group[c] = "orphaned"
    /\ group' = [group EXCEPT ![c] = "absent"]
    /\ UNCHANGED <<guard, mine, recorded>>

\* The application exits: what was admitted and not launched never will be.
Exited == [c \in Captures |-> IF group[c] = "admitted" THEN "absent" ELSE group[c]]

Proven == ~guard.uncertain /\ \A c \in recorded : group[c] = "absent"

\* finish_capture_guard; confirmed is v2_capture_shutdown_clean.
FinishGuard(confirmed) ==
    /\ Up
    /\ guard' = [guard EXCEPT !.phase = "down",
                              !.marker = ~(confirmed /\ Proven /\ ~guard.refused)]
    /\ group' = Exited
    /\ UNCHANGED <<mine, recorded>>

\* The process dies, or is killed, without the end of its lifespan.
Crash ==
    /\ Up
    /\ guard' = [guard EXCEPT !.phase = "down"]
    /\ group' = Exited
    /\ UNCHANGED <<mine, recorded>>

\* The recovery procedure of docs/v2/README.md: with the application stopped
\* and every earlier capture absent, the operator moves the marker aside.
OfflineReconcile ==
    /\ ~Up
    /\ guard.marker
    /\ \A c \in Captures : ~Survives(c)
    /\ guard' = [guard EXCEPT !.marker = FALSE]
    /\ UNCHANGED <<group, mine, recorded>>

\* What finish_capture_guard relies on: when the shutdown calls itself clean
\* and nothing was uncertain, the captures the guard never heard of are gone.
\* The channels keep this promise (ChannelControl).
Trustworthy(confirmed) ==
    confirmed /\ ~guard.uncertain => \A c \in mine \ recorded : group[c] = "absent"

GuardStep(c) ==
    \/ Admit(c) \/ Withdraw(c)
    \/ LaunchRecorded(c) \/ LaunchVanishes(c) \/ LaunchEscapes(c)
    \/ LaunchFails(c) \/ LaunchUnheard(c)
    \/ LeaderExits(c) \/ OrphansExit(c)

GuardNext ==
    \/ BeginGuard
    \/ \E c \in Captures : GuardStep(c)
    \/ \E confirmed \in BOOLEAN : Trustworthy(confirmed) /\ FinishGuard(confirmed)
    \/ Crash
    \/ OfflineReconcile

GuardSpec == GuardInit /\ [][GuardNext]_guardVars

-----------------------------------------------------------------------------
(***************************************************************************)
(* Properties.                                                             *)
(***************************************************************************)

\* No capture runs, and none is admitted, beside a process group that an
\* earlier run of the application left behind: "never permission to duplicate
\* capture" (v2_runtime.py:102).
NoCaptureBesideSurvivor ==
    Up /\ (\E c \in Captures \ mine : Survives(c))
        => \A c \in mine : group[c] = "absent"

\* The inductive invariant behind it.  Without a marker, and only then, the
\* next start may admit captures, so nothing may survive; and while the
\* application is up with a survivor, it refuses.
MarkerCovers == ~guard.marker => ~Up /\ \A c \in Captures : group[c] = "absent"
AdmissionsAreMine == \A c \in Captures : group[c] = "admitted" => Up /\ c \in mine
SurvivorsRefuse ==
    Up /\ (\E c \in Captures \ mine : group[c] # "absent")
        => guard.refused /\ \A c \in mine : group[c] = "absent"

GuardInv == GuardTypeOK /\ MarkerCovers /\ AdmissionsAreMine /\ SurvivorsRefuse

=============================================================================
