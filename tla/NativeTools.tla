------------------------------ MODULE NativeTools ------------------------------
(***************************************************************************)
(* The coding operations of a Native execution (native_coding_tools.rs,     *)
(* native_coding_tools/shell.rs, file_tools.rs): shell.exec runs one        *)
(* command as the leader of its own process group and answers when the      *)
(* group is over; files.edit reads, replaces and writes under one lock;     *)
(* shutdown freezes admission, cancels the commands and waits.              *)
(* The kernel's part is external: processes fork, exit, leave the group     *)
(* and die of a signal later; a pid is reused once its group is empty and   *)
(* its leader reaped. Abstracted: output, its spill file and its rendering. *)
(***************************************************************************)
EXTENDS Naturals, FiniteSets

CONSTANTS
    Call,        \* tool calls
    Pid,         \* process ids the kernel hands out
    FaultLimit   \* bound on the failures of system calls

VARIABLES
    kind,      \* "none", "shell" or "edit"
    pc,        \* where the owned task of each call is
    cancel,    \* calls whose attempt was cancelled
    token,     \* admitted commands told to stop by shutdown
    group,     \* of each call: pid, live members, whether SIGKILL reached it,
               \* whether a descendant left it with the pipes, leader reaped
    why,       \* Finish: why the command is being ended
    bad,       \* clean-up steps that failed
    file,      \* edits in the file; `seen` is what an edit read
    seen,
    admission, \* "open", "closing" (shutdown waits) or "closed"
    struck,    \* <<c, d>>: a signal of c reached a process of d's group
    faults

vars == <<kind, pc, cancel, token, group, why, bad, file, seen, admission, struck, faults>>

NoGroup == [pid |-> {}, live |-> {}, doomed |-> FALSE, escaped |-> FALSE, reaped |-> FALSE]

TypeOK ==
    /\ kind \in [Call -> {"none", "shell", "edit"}]
    /\ pc \in [Call -> {"none", "owned", "watching", "killed", "quiet", "reaped", "drained",
                        "locked", "answered"}]
    /\ cancel \subseteq Call /\ token \subseteq Call
    /\ \A c \in Call : /\ group[c].pid \subseteq Pid /\ Cardinality(group[c].pid) <= 1
                       /\ group[c].live \subseteq {"leader", "child"}
    /\ why \in [Call -> {"none", "cancelled", "exited", "timeout", "failed"}]
    /\ bad \in [Call -> SUBSET {"kill", "group", "reap", "drain"}]
    /\ file \subseteq Call /\ seen \in [Call -> SUBSET Call]
    /\ admission \in {"open", "closing", "closed"}
    /\ struck \subseteq Call \X Call /\ faults \in 0 .. FaultLimit

Init ==
    /\ kind = [c \in Call |-> "none"] /\ pc = [c \in Call |-> "none"]
    /\ cancel = {} /\ token = {} /\ group = [c \in Call |-> NoGroup]
    /\ why = [c \in Call |-> "none"] /\ bad = [c \in Call |-> {}]
    /\ file = {} /\ seen = [c \in Call |-> {}]
    /\ admission = "open" /\ struck = {} /\ faults = 0

Fault == faults < FaultLimit /\ faults' = faults + 1
Sound == UNCHANGED faults
Goes(c, from, to) == pc[c] = from /\ pc' = [pc EXCEPT ![c] = to]
Fails(c, step) == bad' = [bad EXCEPT ![c] = @ \cup {step}]
Told(c) == c \in cancel \cup token

command == <<cancel, token, group, why, bad, struck>>
files == <<file, seen>>

-----------------------------------------------------------------------------
(* Admission                                                               *)

\* run_owned: the body becomes a task of the profile, or the call is refused.
Start(c, k) ==
    /\ Goes(c, "none", IF admission = "open" THEN "owned" ELSE "answered")
    /\ kind' = [kind EXCEPT ![c] = k]
    /\ UNCHANGED <<command, files, admission>> /\ Sound

CancelAttempt(c) ==
    /\ kind[c] = "shell" /\ c \notin cancel /\ pc[c] # "answered"
    /\ cancel' = cancel \cup {c}
    /\ UNCHANGED <<kind, pc, token, group, why, bad, files, admission, struck>> /\ Sound

\* Lifecycle::shutdown: closed to new calls, every admitted command told.
Shutdown ==
    /\ admission = "open" /\ admission' = "closing"
    /\ token' = token \cup {c \in Call : kind[c] = "shell" /\ pc[c] \notin {"none", "answered"}}
    /\ UNCHANGED <<kind, pc, cancel, group, why, bad, files, struck>> /\ Sound

\* mutation: shutdown does not wait for the tasks it took
IdleAlways == TRUE
Idle == \A c \in Call : pc[c] \in {"none", "answered"}

ShutdownReturns ==
    /\ admission = "closing" /\ Idle /\ admission' = "closed"
    /\ UNCHANGED <<kind, pc, command, files>> /\ Sound

-----------------------------------------------------------------------------
(* files.edit                                                              *)

\* mutation: the edit does not take the lock
LockFreeAlways == TRUE
LockFree == \A c \in Call : pc[c] # "locked"

\* edit_file reads the file under the mutations lock.
ReadFile(c) ==
    /\ kind[c] = "edit" /\ LockFree /\ Goes(c, "owned", "locked")
    /\ seen' = [seen EXCEPT ![c] = file]
    /\ UNCHANGED <<kind, command, file, admission>> /\ Sound

\* atomic_write replaces the file by what was read with the edit in it.
WriteFile(c) ==
    /\ Goes(c, "locked", "answered")
    /\ file' = seen[c] \cup {c}
    /\ UNCHANGED <<kind, command, seen, admission>> /\ Sound

-----------------------------------------------------------------------------
(* shell.exec: the command starts                                          *)

StartsCancelled(c) ==
    /\ kind[c] = "shell" /\ Told(c) /\ Goes(c, "owned", "answered")
    /\ why' = [why EXCEPT ![c] = "cancelled"]
    /\ UNCHANGED <<kind, cancel, token, group, bad, struck, files, admission>> /\ Sound

Groups(p) == {c \in Call : p \in group[c].pid /\ (~group[c].reaped \/ group[c].live # {})}

\* setsid in the child: its pid names its group.
Spawn(c, p) ==
    /\ kind[c] = "shell" /\ ~Told(c) /\ Groups(p) = {}
    /\ Goes(c, "owned", "watching")
    /\ group' = [group EXCEPT ![c] = [NoGroup EXCEPT !.pid = {p}, !.live = {"leader"}]]
    \* Without a pidfd or a pipe the command is ended at once.
    /\ \/ Sound /\ UNCHANGED why
       \/ Fault /\ why' = [why EXCEPT ![c] = "failed"]
    /\ UNCHANGED <<kind, cancel, token, bad, struck, files, admission>>

SpawnFails(c) ==
    /\ kind[c] = "shell" /\ ~Told(c) /\ Fault /\ Goes(c, "owned", "answered")
    /\ why' = [why EXCEPT ![c] = "failed"]
    /\ UNCHANGED <<kind, cancel, token, group, bad, struck, files, admission>>

-----------------------------------------------------------------------------
(* The processes of the group                                              *)

Alone == UNCHANGED <<kind, pc, cancel, token, why, bad, files, admission, struck>> /\ Sound

Fork(c) ==
    /\ "leader" \in group[c].live /\ "child" \notin group[c].live /\ ~group[c].doomed
    /\ group' = [group EXCEPT ![c].live = @ \cup {"child"}] /\ Alone

Exit(c, member) ==
    /\ member \in group[c].live
    /\ group' = [group EXCEPT ![c].live = @ \ {member}] /\ Alone

\* A descendant calls setsid itself and keeps the pipes open.
Escape(c) ==
    /\ "child" \in group[c].live /\ ~group[c].doomed
    /\ group' = [group EXCEPT ![c].live = @ \ {"child"}, ![c].escaped = TRUE] /\ Alone

-----------------------------------------------------------------------------
(* shell.exec: the command is ended                                        *)

Finish(c, w) ==
    /\ pc[c] = "watching" /\ why[c] = "none"
    /\ \/ w = "cancelled" /\ Told(c) /\ Sound
       \/ w = "exited" /\ ~Told(c) /\ "leader" \notin group[c].live /\ Sound
       \/ w = "timeout" /\ ~Told(c) /\ Sound
       \/ w = "failed" /\ ~Told(c) /\ Fault
    /\ why' = [why EXCEPT ![c] = w]
    /\ UNCHANGED <<kind, pc, cancel, token, group, bad, files, admission, struck>>

\* SIGKILL to the group the pid names now.
Signal(c) ==
    LET hit == {d \in Call : group[d].live # {} /\ group[c].pid \cap group[d].pid # {}} IN
    /\ group' = [d \in Call |-> IF d \in hit THEN [group[d] EXCEPT !.doomed = TRUE] ELSE group[d]]
    /\ struck' = struck \cup ({c} \X hit)

Ends(c) == why[c] # "none"

Kill(c) ==
    /\ Ends(c) /\ Goes(c, "watching", "killed") /\ Signal(c)
    /\ UNCHANGED <<kind, cancel, token, why, bad, files, admission>> /\ Sound

KillFails(c) ==
    /\ Ends(c) /\ Goes(c, "watching", "quiet") /\ Fault /\ Fails(c, "kill")
    /\ UNCHANGED <<kind, cancel, token, group, why, files, admission, struck>>

\* mutation: the leader alone is waited for
LeaderGone(c) == "leader" \notin group[c].live
GroupGone(c) == group[c].live = {}

\* wait_for_process_group_termination, for two seconds
GroupEnds(c) ==
    /\ GroupGone(c) /\ Goes(c, "killed", "quiet")
    /\ UNCHANGED <<kind, command, files, admission>> /\ Sound

GroupLives(c) ==
    /\ ~GroupGone(c) /\ Goes(c, "killed", "quiet") /\ Fault /\ Fails(c, "group")
    /\ UNCHANGED <<kind, cancel, token, group, why, files, admission, struck>>

\* The exit is observed, then the leader is reaped and its pid forgotten.
Reap(c) ==
    /\ "leader" \notin group[c].live /\ Goes(c, "quiet", "reaped")
    /\ \/ group' = [group EXCEPT ![c].reaped = TRUE] /\ UNCHANGED bad /\ Sound
       \/ Fault /\ Fails(c, "reap") /\ UNCHANGED group
    /\ UNCHANGED <<kind, cancel, token, why, files, admission, struck>>

\* drain_readers: the pipes close, or two seconds pass.
Drain(c) ==
    /\ Goes(c, "reaped", "drained")
    /\ IF group[c].live = {} /\ ~group[c].escaped THEN UNCHANGED bad ELSE Fails(c, "drain")
    /\ UNCHANGED <<kind, cancel, token, group, why, files, admission, struck>> /\ Sound

\* mutation: the pid is not forgotten when the leader is reaped
PidKept(c) == TRUE
PidHeld(c) == ~group[c].reaped

\* The answer; dropping the owner signals a group it still names.
Answer(c) ==
    /\ Goes(c, "drained", "answered")
    /\ IF PidHeld(c) THEN Signal(c) ELSE UNCHANGED <<group, struck>>
    /\ UNCHANGED <<kind, cancel, token, why, bad, files, admission>> /\ Sound

-----------------------------------------------------------------------------
CallStep(c) ==
    \/ Start(c, "shell") \/ Start(c, "edit") \/ CancelAttempt(c)
    \/ ReadFile(c) \/ WriteFile(c)
    \/ StartsCancelled(c) \/ (\E p \in Pid : Spawn(c, p)) \/ SpawnFails(c)
    \/ Fork(c) \/ (\E m \in {"leader", "child"} : Exit(c, m)) \/ Escape(c)
    \/ (\E w \in {"cancelled", "exited", "timeout", "failed"} : Finish(c, w))
    \/ Kill(c) \/ KillFails(c) \/ GroupEnds(c) \/ GroupLives(c)
    \/ Reap(c) \/ Drain(c) \/ Answer(c)

Next == Shutdown \/ ShutdownReturns \/ \E c \in Call : CallStep(c)

Spec == Init /\ [][Next]_vars

-----------------------------------------------------------------------------
(* Properties                                                              *)

\* A command that was answered left nothing of its group running, unless the
\* answer says that the clean-up failed.
CommandIsOver ==
    \A c \in Call : kind[c] = "shell" /\ pc[c] = "answered"
                    /\ bad[c] \cap {"kill", "group", "reap"} = {} => group[c].live = {}

\* No signal meant for one command reaches the processes of another, however
\* the kernel reuses pids.
SignalsStayHome == \A hit \in struck : hit[1] = hit[2]

\* Every answered edit is in the file, also one made beside others.
EditsLand ==
    admission = "open" => {c \in Call : kind[c] = "edit" /\ pc[c] = "answered"} \subseteq file

\* When shutdown has returned, no body of a tool call runs.
ClosedIsIdle == admission = "closed" => \A c \in Call : pc[c] \in {"none", "answered"}

\* An answered operation is over and done: the four facts above.
AnsweredIsDone == CommandIsOver /\ SignalsStayHome /\ EditsLand /\ ClosedIsIdle

-----------------------------------------------------------------------------
(* The inductive invariant                                                 *)

ToolShapes ==
    /\ kind \in [Call -> {"none", "shell", "edit"}]
    /\ pc \in [Call -> {"none", "owned", "watching", "killed", "quiet", "reaped", "drained",
                        "locked", "answered"}]
    /\ group \in [Call -> [pid : SUBSET Pid, live : SUBSET {"leader", "child"},
                           doomed : BOOLEAN, escaped : BOOLEAN, reaped : BOOLEAN]]
    /\ bad \in [Call -> SUBSET {"kill", "group", "reap", "drain"}]
    /\ file \subseteq Call /\ seen \in [Call -> SUBSET Call]
    /\ struck \subseteq Call \X Call

\* A pid names one group as long as its leader is not reaped or a member lives.
OneGroupPerPid ==
    \A c, d \in Call : \A p \in Pid : c \in Groups(p) /\ d \in Groups(p) => c = d

\* No process runs before the command starts nor, unless a step of its end
\* failed, after its group was seen to end.
GroupsEnd ==
    \A c \in Call :
        \/ pc[c] \in {"none", "owned", "locked"}
        \/ pc[c] \in {"quiet", "reaped", "drained", "answered"}
           /\ bad[c] \cap {"kill", "group", "reap"} = {}
        => group[c].live = {}

KindsOfCalls ==
    \A c \in Call : /\ pc[c] \in {"watching", "killed", "quiet", "reaped", "drained"} => kind[c] = "shell"
                    /\ pc[c] = "none" <=> kind[c] = "none"

\* The lock covers read and write: what an edit read is the file.
OneEditor ==
    \A c \in Call : pc[c] = "locked" =>
        seen[c] = file /\ \A d \in Call : pc[d] = "locked" => c = d

\* A command names its group by the pid until the leader is reaped.
HeldUntilReaped == \A c \in Call : group[c].reaped => pc[c] \in {"reaped", "drained", "answered"}

ToolsInv == ToolShapes /\ OneGroupPerPid /\ GroupsEnd /\ KindsOfCalls /\ OneEditor
            /\ HeldUntilReaped /\ AnsweredIsDone

=============================================================================
