-------------------------------- MODULE Plugins --------------------------------
(***************************************************************************)
(* One installed plugin (plugins.rs, plugins/supervisor.rs,                 *)
(* plugins/tools.rs, plugins/http.rs, storage/plugins.rs): the Owner turns  *)
(* it on and off, its daemon runs under a supervisor that restarts it after *)
(* a panic and parks the plugin when it panics again and again, and its     *)
(* tools are in the agents' catalog while it runs. Turning it off aborts    *)
(* the supervisor's task, and an abort lands only at the task's next await: *)
(* a supervisor that already waits for the table to park its plugin may     *)
(* still get it, after the Owner has turned the plugin off and on again.    *)
(* Abstracted: what the daemon and the tools do, the settings and the       *)
(* key-value store; the crash window is a choice of how many of the earlier *)
(* panics still count, the backoff a wait of any length.                    *)
(***************************************************************************)
EXTENDS Naturals, Sequences

CONSTANTS
    CrashLimit,   \* SupervisorConfig.crash_limit
    ToggleLimit,  \* bound on the Owner's toggles
    PanicLimit,   \* bound on the daemon's panics
    StartLimit    \* bound on the host's starts

VARIABLES
    flag,     \* plugin_state.enabled, which first sight sets
    row,      \* the runtime table's entry: its state, and its task if Running
    tools,    \* the plugin's tools are registered
    sups,     \* the supervisors of this host process, in the order of their spawns
    bodies,   \* supervisors whose run() body has not stopped yet
    toggles, panics, starts

vars == <<flag, row, tools, sups, bodies, toggles, panics, starts>>

Disabled == [at |-> "disabled", task |-> 0]
Running(n) == [at |-> "running", task |-> n]
Errored == [at |-> "errored", task |-> 0]
Tasks == 1 .. Len(sups)

TypeOK ==
    /\ flag \in BOOLEAN /\ tools \in BOOLEAN
    /\ row \in {Disabled, Errored} \cup {Running(n) : n \in Tasks}
    /\ sups \in Seq([at : {"run", "backoff", "park", "over"}, crashes : 0 .. CrashLimit, aborted : BOOLEAN])
    /\ bodies \subseteq Tasks
    /\ toggles \in 0 .. ToggleLimit /\ panics \in 0 .. PanicLimit /\ starts \in 1 .. StartLimit

Fresh == [at |-> "run", crashes |-> 0, aborted |-> FALSE]

\* PluginHost::start: first sight enables a plugin; a disabled one is left alone.
Init ==
    /\ flag = TRUE /\ row = Running(1) /\ tools = TRUE /\ sups = <<Fresh>> /\ bodies = {1}
    /\ toggles = 0 /\ panics = 0 /\ starts = 1

Restart ==
    /\ starts < StartLimit /\ starts' = starts + 1
    /\ tools' = flag
    /\ row' = IF flag THEN Running(1) ELSE Disabled
    /\ sups' = IF flag THEN <<Fresh>> ELSE <<>>
    /\ bodies' = IF flag THEN {1} ELSE {}
    /\ UNCHANGED <<flag, toggles, panics>>

-----------------------------------------------------------------------------
(* set_enabled, under the runtimes lock with the flag persisted first       *)

Toggled == toggles < ToggleLimit /\ toggles' = toggles + 1

\* supervisor::spawn: the start gate opens once the table names the task.
Enable ==
    /\ Toggled /\ flag' = TRUE
    /\ IF row.at = "running" THEN UNCHANGED <<row, tools, sups, bodies>>
       ELSE /\ tools' = TRUE
            /\ sups' = Append(sups, Fresh) /\ row' = Running(Len(sups) + 1)
            /\ bodies' = bodies \cup {Len(sups) + 1}
    /\ UNCHANGED <<panics, starts>>

\* mutation: the supervisor is left to end by itself
SupervisorsLeft == sups
SupervisorsAborted ==
    IF row.at = "running" THEN [sups EXCEPT ![row.task].aborted = TRUE] ELSE sups

Disable ==
    /\ Toggled /\ flag' = FALSE
    /\ tools' = FALSE /\ row' = Disabled /\ sups' = SupervisorsAborted
    /\ UNCHANGED <<bodies, panics, starts>>

-----------------------------------------------------------------------------
(* The supervisor                                                          *)

Goes(n, from, to) == sups[n].at = from /\ sups' = [sups EXCEPT ![n].at = to]

\* The daemon finished on its own: nothing to supervise, the plugin stays Running.
Returns(n) ==
    /\ Goes(n, "run", "over") /\ bodies' = bodies \ {n}
    /\ UNCHANGED <<flag, row, tools, toggles, panics, starts>>

\* A panic counts with those before it that are still in the window.
Panics(n) ==
    /\ panics < PanicLimit /\ panics' = panics + 1
    /\ sups[n].at = "run" /\ bodies' = bodies \ {n}
    /\ \E count \in 1 .. sups[n].crashes + 1 :
          sups' = [sups EXCEPT ![n].crashes = count,
                               ![n].at = IF count >= CrashLimit THEN "park" ELSE "backoff"]
    /\ UNCHANGED <<flag, row, tools, toggles, starts>>

\* After the backoff the loop starts the daemon again.
Retry(n) ==
    /\ ~sups[n].aborted /\ Goes(n, "backoff", "run") /\ bodies' = bodies \cup {n}
    /\ UNCHANGED <<flag, row, tools, toggles, panics, starts>>

\* mutation: parks without looking whose task the table names
AnyTask(n) == TRUE
IsCurrent(n) == row = Running(n)

\* set_errored: an aborted supervisor still gets here when its last poll takes the lock.
SetErrored(n) ==
    /\ Goes(n, "park", "over")
    /\ IF IsCurrent(n) THEN tools' = FALSE /\ row' = Errored ELSE UNCHANGED <<tools, row>>
    /\ UNCHANGED <<flag, bodies, toggles, panics, starts>>

\* The abort lands, and drops the daemon's task with the supervisor's.
AbortLands(n) ==
    /\ sups[n].aborted /\ sups[n].at # "over"
    /\ sups' = [sups EXCEPT ![n].at = "over"]
    /\ UNCHANGED <<flag, row, tools, bodies, toggles, panics, starts>>

\* AbortOnDrop: the body of a dropped daemon stops at its next await.
BodyStops(n) ==
    /\ n \in bodies /\ sups[n].at = "over" /\ bodies' = bodies \ {n}
    /\ UNCHANGED <<flag, row, tools, sups, toggles, panics, starts>>

Next ==
    \/ Restart \/ Enable \/ Disable
    \/ \E n \in Tasks : \/ Returns(n) \/ Panics(n) \/ Retry(n)
                        \/ SetErrored(n) \/ AbortLands(n) \/ BodyStops(n)

Spec == Init /\ [][Next]_vars

-----------------------------------------------------------------------------
(* The plugin is off exactly when the Owner's stored choice says so, its     *)
(* tools are offered exactly while it runs, and every supervisor that was    *)
(* not aborted is the one the table names.                                   *)
TableIsTrue ==
    /\ row.at = "disabled" <=> ~flag
    /\ tools <=> row.at = "running"
    /\ \A n \in Tasks : sups[n].at # "over" /\ ~sups[n].aborted => row = Running(n)

(* A daemon that runs for a plugin that is off, parked or enabled anew is    *)
(* one whose supervisor was aborted: it is stopped at its next await.        *)
BodiesAreOwned == \A n \in bodies : row = Running(n) \/ sups[n].aborted

(* What the plugin host owes the Owner and the agents: the table tells the   *)
(* truth, no daemon is left that no toggle can stop, and a supervisor of an  *)
(* earlier enabling never parks the plugin of a later one.                   *)
DaemonIsOwned == TableIsTrue /\ BodiesAreOwned

-----------------------------------------------------------------------------
(* The inductive invariant                                                 *)

\* The table names a supervisor that was spawned.
DaemonShapes ==
    /\ flag \in BOOLEAN /\ tools \in BOOLEAN
    /\ row \in {Disabled, Errored} \cup {Running(n) : n \in Tasks}
    /\ sups \in Seq([at : {"run", "backoff", "park", "over"}, crashes : Nat, aborted : BOOLEAN])

\* A body runs under its supervisor, or outlives one that was aborted.
BodiesAreRun ==
    bodies \subseteq Tasks /\ \A n \in bodies : sups[n].at = "run" \/ sups[n].aborted

DaemonInv == DaemonShapes /\ BodiesAreRun /\ DaemonIsOwned

=============================================================================
