---------------------------- MODULE ThreadTurns ----------------------------
(***************************************************************************)
(* The life of a Thread turn in hirsel-host: from the SQL transaction that *)
(* accepts it, through admission onto one of the two executors of its      *)
(* Thread, to the transaction that ends it and reports to the requester.   *)
(*                                                                         *)
(* Actors and the locks between them                                       *)
(*   storage   every statement or transaction under the one SQLite mutex   *)
(*             is a single action (state, requests, bound, ...)            *)
(*   poller    pump_pending, every 250 ms, under the admission mutex       *)
(*   Owner     Stop and the removal of a queued message, same mutex        *)
(*   CLI work  one task per Thread in the registry's `cli` map             *)
(*   lane      the Native pump of one Thread; admission onto Lash holds    *)
(*             the lane's request_lock (pcs "run" and "bind")              *)
(*   crash     loses everything volatile, then interrupts running turns    *)
(*                                                                         *)
(* A handler is one action per stretch between two awaits that another     *)
(* actor can see; what a handler read before an await stays in its record  *)
(* (pump.queued, pump.batch, lane.turn, ...) and may be stale afterwards.  *)
(*                                                                         *)
(* A definition marked "mutation" is a plausible slip in the definition    *)
(* that follows it. Nothing uses it: it is there to be put in its place,   *)
(* to see that a property notices.                                         *)
(***************************************************************************)
EXTENDS Integers, FiniteSets

CONSTANTS
    Thread,      \* Threads of one history
    Turn,        \* every turn the instance may ever accept
    None,        \* no turn, no Thread, no outcome
    Parent,      \* the Thread tree
    ThreadOf,    \* the Thread a turn belongs to
    KindOf,      \* who creates the turn
    ExecOf,      \* the executor captured when the turn is accepted
    ReportOf,    \* the turn that delivers this turn's end to its requester
    Capacity,    \* permits of the shared semaphore (4 in the host)
    Budget       \* bound on each environment event

Kinds == {"owner", "delegated", "wake", "report", "background"}
Execs == {"native", "cli"}
Events == {"stop", "drop", "mark", "archive", "snooze", "command",
           "empty", "fault", "crash"}

ASSUME TreeAssumption ==
    /\ None \notin Thread /\ None \notin Turn
    /\ Parent \in [Thread -> Thread \cup {None}]
    /\ ThreadOf \in [Turn -> Thread]
    /\ KindOf \in [Turn -> Kinds]
    /\ ExecOf \in [Turn -> Execs]

\* enqueue, queue_thread_turn and start_thread_turn store the requester of a
\* turn: the delegating caller's Thread, otherwise the Thread's parent. A root
\* Thread's own turns have none. A background turn is always Native: it is the
\* Native lane that starts it.
ASSUME ReportAssumption ==
    /\ ReportOf \in [Turn -> Turn \cup {None}]
    /\ \A t \in Turn : ReportOf[t] # None => KindOf[ReportOf[t]] = "report"
    /\ \A t, u \in Turn : ReportOf[t] = ReportOf[u] /\ ReportOf[t] # None => t = u
    /\ \A t \in Turn : KindOf[t] # "delegated" =>
          IF ReportOf[t] = None THEN Parent[ThreadOf[t]] = None
                                ELSE ThreadOf[ReportOf[t]] = Parent[ThreadOf[t]]
    /\ \A t \in Turn : KindOf[t] = "delegated" => ReportOf[t] # None
    /\ \A t \in Turn : KindOf[t] = "background" => ExecOf[t] = "native"

ASSUME BoundAssumption ==
    /\ Capacity \in Nat \ {0}
    /\ Budget \in [Events -> Nat]

VARIABLES
    \* durable
    state,       \* thread_turns.state, "none" before the row exists
    requests,    \* turns that have a thread_requests row
    order,       \* the row's AUTOINCREMENT id, 0 before it exists
    clock,       \* the last id handed out
    cancelReq,   \* turns with cancel_requested_at set
    bound,       \* turns with an unrevoked execution binding
    archived, snoozed,
    lash,        \* Lash's durable record of a turn's input
    commands,    \* Threads whose Lash queue holds a session command
    opened,      \* Threads whose Native lane store exists
    \* volatile
    pump, stop, drop, cli, lane, anchor,
    \* history and bounds
    asked,       \* turns a Stop or a removal by the Owner was meant for
    left         \* what is left of Budget

ledger == <<state, requests, order, clock, bound>>
flags == <<cancelReq, archived, snoozed>>
native == <<lash, commands, opened>>
actors == <<pump, stop, drop, cli, lane, anchor>>
ghosts == <<asked, left>>
vars == <<ledger, flags, native, actors, ghosts>>

TurnStates == {"none", "queued", "running",
               "completed", "failed", "cancelled", "interrupted"}
OpenStates == {"queued", "running"}
Terminal == {"completed", "failed", "cancelled", "interrupted"}

-----------------------------------------------------------------------------
(* Reading the ledger *)

Open(t) == state[t] \in OpenStates
TurnsOf(th) == {t \in Turn : ThreadOf[t] = th}
RunningIn(th) == {t \in TurnsOf(th) : state[t] = "running"}

\* A Thread's report turns wait while it is snoozed, an archived Thread holds
\* every request.
HeldReports(t) == ThreadOf[t] \in archived \/ KindOf[t] = "report"   \* mutation
Held(t) == \/ ThreadOf[t] \in archived
           \/ KindOf[t] = "report" /\ ThreadOf[t] \in snoozed
Pending == {t \in requests : ~Held(t)}
PendingOf(th) == Pending \cap TurnsOf(th)
AnyOf(S) == S                                            \* mutation
FirstOf(S) == {t \in S : \A u \in S : order[t] <= order[u]}

\* The chain from a Thread to the root of its tree; a Thread's subtree is the
\* set of Threads on whose chain it lies.
Line[n \in Nat] == [th \in Thread |->
    IF n = 0 \/ Parent[th] = None THEN {th}
    ELSE {th} \cup Line[n - 1][Parent[th]]]
Subtree(th) == {d \in Thread : th \in Line[Cardinality(Thread)][d]}

\* validate_caller: the binding is unrevoked, the turn runs, nobody asked to
\* cancel it.
Authorized(t) == t \in bound /\ state[t] = "running" /\ t \notin cancelReq

UnreportedEnds(S) == {}                                  \* mutation
ReportsToNobody(S) == {ReportOf[t] : t \in S}            \* mutation
Reports(S) == {ReportOf[t] : t \in S} \ {None}

-----------------------------------------------------------------------------
(* Writing the ledger *)

Spend(e) == left[e] > 0 /\ left' = [left EXCEPT ![e] = @ - 1]

\* finish_with_failure on the turns of S, open when it is called: the terminal
\* state and the report to the requester commit together. Reports accepted by
\* one transaction share an id here; their row order is SQLite's scan order.
Finish(S, outcome) ==
    /\ state' = [t \in Turn |-> IF t \in S THEN outcome
                                ELSE IF t \in Reports(S) THEN "queued"
                                ELSE state[t]]
    /\ order' = [t \in Turn |-> IF t \in Reports(S) THEN clock + 1 ELSE order[t]]
    /\ clock' = IF Reports(S) = {} THEN clock ELSE clock + 1

OnlyIfQueued(t) == IF state[t] = "queued" THEN {t} ELSE {}   \* mutation
EvenIfEnded(t) == {t}                                    \* mutation
IfOpen(t) == IF Open(t) THEN {t} ELSE {}

\* complete_thread_turn: a terminal turn keeps its first result; otherwise the
\* end, its report, the request row and the bindings go in one transaction.
\* A Native caller then removes the rows it still owns.
CompleteRemoving(t, outcome, rows) ==
    /\ Finish(IfOpen(t), outcome)
    /\ requests' = (requests \ (IfOpen(t) \cup rows)) \cup Reports(IfOpen(t))
    /\ bound' = bound \ IfOpen(t)
Complete(t, outcome) == CompleteRemoving(t, outcome, {})

\* One more turn and its request row, in one transaction.
Accepted(t) ==
    /\ state[t] = "none"
    /\ state' = [state EXCEPT ![t] = "queued"]
    /\ requests' = requests \cup {t}
    /\ order' = [order EXCEPT ![t] = clock + 1]
    /\ clock' = clock + 1
    /\ UNCHANGED bound

\* run_thread_turn writes only a queued turn, and the unique index
\* thread_one_running refuses a second running turn of the Thread.
AlwaysRuns(t) == TRUE                                    \* mutation
CanRun(t) == state[t] # "queued" \/ RunningIn(ThreadOf[t]) = {}
RunTurn(t) == state' = [state EXCEPT ![t] = IF @ = "queued" THEN "running" ELSE @]

-----------------------------------------------------------------------------
(* Records of the actors *)

NoPump == [pc |-> "idle", queued |-> {}, running |-> {}, batch |-> {}, seen |-> {}]
NoStop == [pc |-> "idle", thread |-> None]
NoDrop == [pc |-> "idle", turn |-> None]
NoCli == [pc |-> "none", turn |-> None, token |-> FALSE, outcome |-> None]
NoLane == [pc |-> "idle", turn |-> None, stop |-> FALSE, outcome |-> None]

AdmissionFreeOfStop == pump.pc = "idle" /\ drop.pc = "idle"   \* mutation
AdmissionFree == pump.pc = "idle" /\ stop.pc = "idle" /\ drop.pc = "idle"

\* request_lock of a lane: held by its own admission and by the removal of a
\* queued request of its Thread.
AdmissionHolds(th) == lane[th].pc \in {"run", "bind"}
DropHolds(th) == drop.pc = "clean" /\ ThreadOf[drop.turn] = th

CliPermit == {th \in Thread : cli[th].pc \in {"ready", "bind", "drive"}}
LanePermit == {th \in Thread : lane[th].pc \in {"admit", "run", "bind", "drain", "settle"}}
PermitFree == Cardinality(CliPermit) + Cardinality(LanePermit) < Capacity

Init ==
    /\ state = [t \in Turn |-> "none"]
    /\ requests = {} /\ bound = {} /\ cancelReq = {}
    /\ order = [t \in Turn |-> 0] /\ clock = 0
    /\ archived = {} /\ snoozed = {}
    /\ lash = [t \in Turn |-> "absent"]
    /\ commands = {} /\ opened = {}
    /\ pump = NoPump /\ stop = NoStop /\ drop = NoDrop
    /\ cli = [th \in Thread |-> NoCli]
    /\ lane = [th \in Thread |-> NoLane]
    /\ anchor = [th \in Thread |-> None]
    /\ asked = {} /\ left = Budget

-----------------------------------------------------------------------------
(* Acceptance and Owner or agent marks: single transactions *)

\* append_thread_owner_record: a message is accepted even on an archived
\* Thread, which holds its request.
AcceptOwner(t) ==
    /\ KindOf[t] = "owner"
    /\ Accepted(t)
    /\ UNCHANGED <<flags, native, actors, ghosts>>

\* delegate_thread: a running, bound caller of the requesting Thread sends to
\* a Thread in its reach.
Delegate(c, t) ==
    /\ KindOf[t] = "delegated"
    /\ Authorized(c)
    /\ ThreadOf[c] = ThreadOf[ReportOf[t]]
    /\ Accepted(t)
    /\ UNCHANGED <<flags, native, actors, ghosts>>

\* queue_background_thread_request: a process wake, timer or fork brief.
AcceptWake(t) ==
    /\ KindOf[t] = "wake"
    /\ ThreadOf[t] \notin archived
    /\ Accepted(t)
    /\ UNCHANGED <<flags, native, actors, ghosts>>

\* thread_archive::apply: the subtree leaves the active tree and its open
\* turns, except the caller's own, are marked for cancellation.
Archive(root, keep) ==
    /\ Spend("archive")
    /\ archived' = archived \cup Subtree(root)
    /\ cancelReq' = cancelReq \cup
          {t \in Turn : ThreadOf[t] \in Subtree(root) /\ Open(t) /\ t # keep}
    /\ UNCHANGED <<ledger, snoozed, native, actors, asked>>

OwnerArchive(root) == Archive(root, None)

AgentArchive(c, root) ==
    /\ Authorized(c)
    /\ root \in Subtree(ThreadOf[c])
    /\ Archive(root, c)

Unarchive(root) ==
    /\ archived \cap Subtree(root) # {}
    /\ archived' = archived \ Subtree(root)
    /\ UNCHANGED <<ledger, cancelReq, snoozed, native, actors, ghosts>>

\* threads.cancel: the running turn of the Thread, else its first queued one.
AgentCancel(c, th) ==
    LET open == {t \in TurnsOf(th) : Open(t)}
        first == IF RunningIn(th) # {} THEN RunningIn(th) ELSE FirstOf(open)
    IN  /\ Authorized(c)
        /\ th \in Subtree(ThreadOf[c])
        /\ Spend("mark")
        /\ \E t \in first : cancelReq' = cancelReq \cup {t}
        /\ UNCHANGED <<ledger, archived, snoozed, native, actors, asked>>

Snooze(th) ==
    /\ Spend("snooze")
    /\ snoozed' = snoozed \cup {th}
    /\ UNCHANGED <<ledger, cancelReq, archived, native, actors, asked>>

\* The Owner clears the snooze or its time passes.
SnoozeEnds(th) ==
    /\ th \in snoozed
    /\ snoozed' = snoozed \ {th}
    /\ UNCHANGED <<ledger, cancelReq, archived, native, actors, ghosts>>

\* A tool or model refresh queues a session command on an opened lane.
QueueCommand(th) ==
    /\ th \in opened
    /\ Spend("command")
    /\ commands' = commands \cup {th}
    /\ UNCHANGED <<ledger, flags, lash, opened, actors, asked>>

-----------------------------------------------------------------------------
(* Cancelling what a Thread executes *)

SignalLost(th) == UNCHANGED cli                          \* mutation
Signal(th) == cli' = [cli EXCEPT ![th].token = TRUE]

\* reconcile_unowned_inputs: a pending Lash input of the Thread whose request
\* is gone, or held, is cancelled.
NotReconciled(th) == lash                                \* mutation
Reconciled(th) == [t \in Turn |->
    IF ThreadOf[t] = th /\ lash[t] = "pending" /\ t \notin Pending
    THEN "absent" ELSE lash[t]]
Withdrawn(t, inputs) == [inputs EXCEPT ![t] = IF @ = "pending" THEN "absent" ELSE @]

\* cancel_owned_turn on an opened lane. A live drain is asked to stop; an
\* anchor without one is completed here and its unclaimed input discarded. It
\* fails when the Thread has no anchor.
OwnsTurn(th) == anchor[th] # None
CancelOwned(th) ==
    /\ ~AdmissionHolds(th)
    /\ opened' = opened \cup {th}
    /\ IF lane[th].pc \in {"drain", "settle"} \/ ~OwnsTurn(th)
       THEN /\ lane' = [lane EXCEPT ![th].stop = @ \/ lane[th].pc = "drain"]
            /\ UNCHANGED <<ledger, lash, anchor>>
       ELSE /\ CompleteRemoving(anchor[th], "cancelled", {anchor[th]})
            /\ lash' = IF KindOf[anchor[th]] = "background" THEN Reconciled(th)
                       ELSE Withdrawn(anchor[th], lash)
            /\ anchor' = [anchor EXCEPT ![th] = None]
            /\ UNCHANGED lane

-----------------------------------------------------------------------------
(* The poller: pump_pending *)

\* The rest of the pass takes the pending requests, in id order.
Marked(st) == {t \in cancelReq : state[t] = st}
Snapshot == IF Pending = {} THEN NoPump
            ELSE [NoPump EXCEPT !.pc = "requests", !.batch = Pending]

\* Under the admission mutex: the cancellations asked for, with the state the
\* query saw. With none of them the second query follows at once.
PumpBegin ==
    /\ AdmissionFree
    /\ Marked("queued") \cup Marked("running") \cup Pending # {}
    /\ pump' = IF Marked("queued") \cup Marked("running") = {} THEN Snapshot
               ELSE [NoPump EXCEPT !.pc = "cancels", !.queued = Marked("queued"),
                                   !.running = Marked("running")]
    /\ UNCHANGED <<ledger, flags, native, stop, drop, cli, lane, anchor, ghosts>>

\* A tick that finds nothing to do.
PumpIdle ==
    /\ AdmissionFree
    /\ Marked("queued") \cup Marked("running") \cup Pending = {}
    /\ UNCHANGED vars

PumpCancelQueued(t) ==
    LET th == ThreadOf[t]
    IN  /\ pump.pc = "cancels" /\ t \in pump.queued
        /\ IF cli[th].turn = t THEN Signal(th) ELSE UNCHANGED cli
        /\ Complete(t, "cancelled")
        /\ pump' = [pump EXCEPT !.queued = @ \ {t}]
        /\ UNCHANGED <<flags, native, stop, drop, lane, anchor, ghosts>>

\* A CLI work of the Thread, whichever turn it runs, takes the signal.
PumpCancelCli(t) ==
    LET th == ThreadOf[t]
    IN  /\ pump.pc = "cancels" /\ t \in pump.running
        /\ cli[th].pc # "none"
        /\ Signal(th)
        /\ pump' = [pump EXCEPT !.running = @ \ {t}]
        /\ UNCHANGED <<ledger, flags, native, stop, drop, lane, anchor, ghosts>>

\* Otherwise the lane; its refusal ends this pass of the poller for every
\* Thread.
PumpCancelLane(t) ==
    LET th == ThreadOf[t]
    IN  /\ pump.pc = "cancels" /\ t \in pump.running
        /\ cli[th].pc = "none"
        /\ CancelOwned(th)
        /\ pump' = IF OwnsTurn(th) THEN [pump EXCEPT !.running = @ \ {t}] ELSE NoPump
        /\ UNCHANGED <<flags, commands, stop, drop, cli, ghosts>>

PumpSnapshot ==
    /\ pump.pc = "cancels" /\ pump.queued = {} /\ pump.running = {}
    /\ pump' = Snapshot
    /\ UNCHANGED <<ledger, flags, native, stop, drop, cli, lane, anchor, ghosts>>

\* One request of the snapshot after the other; the pass ends with the last.
Next1(t) == pump.pc = "requests" /\ t \in FirstOf(pump.batch)
Without(t, seen) == IF pump.batch = {t} THEN NoPump
                    ELSE [pump EXCEPT !.batch = @ \ {t}, !.seen = seen]
Consumed(t) == Without(t, pump.seen)
ConsumedSeen(t) == Without(t, pump.seen \cup {ThreadOf[t]})
CliSkips(t) == ExecOf[t] = "cli" /\ state[t] # "queued"
SeenOnly(t) == ThreadOf[t] \in pump.seen                 \* mutation
Blocked(t) == ThreadOf[t] \in pump.seen \/ cli[ThreadOf[t]].pc # "none"

\* A CLI request that already runs is left alone, one that ended is removed.
RetiredWhenRun(t) == IF state[t] = "queued" THEN {} ELSE {t}   \* mutation
Retired(t) == IF state[t] \in Terminal THEN {t} ELSE {}
PumpSkipCli(t) ==
    /\ Next1(t) /\ CliSkips(t)
    /\ requests' = requests \ Retired(t)
    /\ pump' = Consumed(t)
    /\ UNCHANGED <<state, order, clock, bound, flags, native,
                   stop, drop, cli, lane, anchor, ghosts>>

\* One request per Thread and pass, none while CLI work occupies the Thread.
PumpSkipBusy(t) ==
    /\ Next1(t) /\ ~CliSkips(t) /\ Blocked(t)
    /\ pump' = ConsumedSeen(t)
    /\ UNCHANGED <<ledger, flags, native, stop, drop, cli, lane, anchor, ghosts>>

PumpSpawnCli(t) ==
    /\ Next1(t) /\ ~CliSkips(t) /\ ~Blocked(t) /\ ExecOf[t] = "cli"
    /\ cli' = [cli EXCEPT ![ThreadOf[t]] = [NoCli EXCEPT !.pc = "wait", !.turn = t]]
    /\ pump' = ConsumedSeen(t)
    /\ UNCHANGED <<ledger, flags, native, stop, drop, lane, anchor, ghosts>>

PumpNotifyLane(t) ==
    /\ Next1(t) /\ ~CliSkips(t) /\ ~Blocked(t) /\ ExecOf[t] = "native"
    /\ opened' = opened \cup {ThreadOf[t]}
    /\ pump' = ConsumedSeen(t)
    /\ UNCHANGED <<ledger, flags, lash, commands, stop, drop, cli, lane, anchor, ghosts>>

\* A lane that cannot be opened, or has no provider, fails the request.
PumpLaneUnavailable(t) ==
    /\ Next1(t) /\ ~CliSkips(t) /\ ~Blocked(t) /\ ExecOf[t] = "native"
    /\ ThreadOf[t] \notin opened
    /\ Spend("fault")
    /\ Complete(t, "failed")
    /\ pump' = ConsumedSeen(t)
    /\ UNCHANGED <<flags, native, stop, drop, cli, lane, anchor, asked>>

PumpStep ==
    \/ PumpBegin \/ PumpSnapshot
    \/ \E t \in Turn :
          \/ PumpCancelQueued(t) \/ PumpCancelCli(t) \/ PumpCancelLane(t)
          \/ PumpSkipCli(t) \/ PumpSkipBusy(t) \/ PumpSpawnCli(t)
          \/ PumpNotifyLane(t) \/ PumpLaneUnavailable(t)

-----------------------------------------------------------------------------
(* Stop: ThreadRuntimeRegistry::cancel *)

\* request_thread_cancellation marks what runs in the Thread at this instant.
\* The Stop is meant for that turn or for the CLI work of the Thread.
StopBegin(th) ==
    /\ AdmissionFree
    /\ Spend("stop")
    /\ cancelReq' = cancelReq \cup RunningIn(th)
    /\ asked' = asked \cup RunningIn(th) \cup ({cli[th].turn} \ {None})
    /\ stop' = [pc |-> "deliver", thread |-> th]
    /\ UNCHANGED <<ledger, archived, snoozed, native, pump, drop, cli, lane, anchor>>

\* The signal goes to what executes the Thread by then.
StopDeliver ==
    LET th == stop.thread
    IN  /\ stop.pc = "deliver"
        /\ stop' = NoStop
        /\ \/ /\ cli[th].pc # "none"
              /\ Signal(th)
              /\ UNCHANGED <<ledger, native, lane, anchor>>
           \/ /\ cli[th].pc = "none"
              /\ CancelOwned(th)
              /\ UNCHANGED <<commands, cli>>
        /\ UNCHANGED <<flags, pump, drop, ghosts>>

-----------------------------------------------------------------------------
(* The Owner removes a queued message: ThreadRuntimeRegistry::cancel_queued *)

\* The request exists and its turn is queued; a CLI work of that very turn is
\* signalled.
DropBegin(t) ==
    LET th == ThreadOf[t]
    IN  /\ AdmissionFree
        /\ KindOf[t] = "owner" /\ t \in requests /\ state[t] = "queued"
        /\ Spend("drop")
        /\ asked' = asked \cup {t}
        /\ IF cli[th].turn = t THEN Signal(th) ELSE UNCHANGED cli
        /\ opened' = IF ExecOf[t] = "native" THEN opened \cup {th} ELSE opened
        /\ drop' = [pc |-> "act", turn |-> t]
        /\ UNCHANGED <<ledger, flags, lash, commands, pump, stop, lane, anchor>>

DropCli ==
    /\ drop.pc = "act" /\ ExecOf[drop.turn] = "cli"
    /\ Complete(drop.turn, "cancelled")
    /\ drop' = NoDrop
    /\ UNCHANGED <<flags, native, pump, stop, cli, lane, anchor, ghosts>>

\* cancel_thread_request under the lane's request_lock: too late once the
\* request is gone or anchored.
GoneOnly(t) == t \notin requests                         \* mutation
Claimed(t) == t \notin requests \/ anchor[ThreadOf[t]] = t

DropClaimed ==
    LET t == drop.turn
    IN  /\ drop.pc = "act" /\ ExecOf[t] = "native" /\ ~AdmissionHolds(ThreadOf[t])
        /\ Claimed(t)
        /\ drop' = NoDrop
        /\ UNCHANGED <<ledger, flags, native, pump, stop, cli, lane, anchor, ghosts>>

\* remove_cancelled_request records the end first, without the request row ...
RowFirst ==   \* mutation
    /\ drop.pc = "act" /\ ExecOf[drop.turn] = "native"
    /\ ~AdmissionHolds(ThreadOf[drop.turn]) /\ ~Claimed(drop.turn)
    /\ requests' = requests \ {drop.turn}
    /\ drop' = [drop EXCEPT !.pc = "clean"]
    /\ UNCHANGED <<state, order, clock, bound, flags, native, pump, stop,
                   cli, lane, anchor, ghosts>>
DropFinish ==
    LET t == drop.turn
    IN  /\ drop.pc = "act" /\ ExecOf[t] = "native" /\ ~AdmissionHolds(ThreadOf[t])
        /\ ~Claimed(t)
        /\ Finish(IfOpen(t), "cancelled")
        /\ requests' = requests \cup Reports(IfOpen(t))
        /\ drop' = [drop EXCEPT !.pc = "clean"]
        /\ UNCHANGED <<bound, flags, native, pump, stop, cli, lane, anchor, ghosts>>

\* ... then withdraws the Lash input and removes the row.
DropClean ==
    /\ drop.pc = "clean"
    /\ lash' = Withdrawn(drop.turn, lash)
    /\ requests' = requests \ {drop.turn}
    /\ drop' = NoDrop
    /\ UNCHANGED <<state, order, clock, bound, flags, commands, opened,
                   pump, stop, cli, lane, anchor, ghosts>>

OwnerStep ==
    \/ StopDeliver \/ DropCli \/ DropClaimed \/ DropFinish \/ DropClean

-----------------------------------------------------------------------------
(* CLI work: CliTurn::run and CliTurn::execute *)

CliGoes(th, pc) == cli' = [cli EXCEPT ![th].pc = pc]
CliEnds(th, outcome) == cli' = [cli EXCEPT ![th].pc = "done", ![th].outcome = outcome]

\* The select between the cancellation token and a permit.
CliAcquire(th) ==
    /\ cli[th].pc = "wait" /\ PermitFree
    /\ CliGoes(th, "ready")
    /\ UNCHANGED <<ledger, flags, native, pump, stop, drop, lane, anchor, ghosts>>

CliCancelledWaiting(th) ==
    /\ cli[th].pc = "wait" /\ cli[th].token
    /\ CliEnds(th, "cancelled")
    /\ UNCHANGED <<ledger, flags, native, pump, stop, drop, lane, anchor, ghosts>>

\* No longer queued, or refused by the unique index: the work fails.
CliRun(th) ==
    LET t == cli[th].turn
    IN  /\ cli[th].pc = "ready"
        /\ IF state[t] = "queued" /\ CanRun(t)
           THEN CliGoes(th, "bind") /\ RunTurn(t)
           ELSE CliEnds(th, "failed") /\ UNCHANGED state
        /\ UNCHANGED <<requests, order, clock, bound, flags, native,
                       pump, stop, drop, lane, anchor, ghosts>>

\* bind_thread_execution commits the row of a running turn and only then
\* validates the caller.
Bind(t) == bound' = IF state[t] = "running" THEN bound \cup {t} ELSE bound
CanBind(t) == state[t] = "running" /\ t \notin cancelReq

CliBind(th) ==
    LET t == cli[th].turn
    IN  /\ cli[th].pc = "bind"
        /\ Bind(t)
        /\ IF CanBind(t) THEN CliGoes(th, "drive") ELSE CliEnds(th, "failed")
        /\ UNCHANGED <<state, requests, order, clock, flags, native,
                       pump, stop, drop, lane, anchor, ghosts>>

\* revoke_thread_execution.
NotRevoked(t) == bound   \* mutation
Revoked(t) == bound \ {t}

\* The driver's terminal event, its silence, or the token; the bridge revokes
\* the binding as it finishes.
CliDriven(th, outcome) ==
    /\ cli[th].pc = "drive"
    /\ outcome \in {"completed", "failed"} \cup (IF cli[th].token THEN {"cancelled"} ELSE {})
    /\ CliEnds(th, outcome)
    /\ bound' = Revoked(cli[th].turn)
    /\ UNCHANGED <<state, requests, order, clock, flags, native,
                   pump, stop, drop, lane, anchor, ghosts>>

\* Retried by the code until it commits.
CliComplete(th) ==
    /\ cli[th].pc = "done"
    /\ CliGoes(th, "remove")
    /\ Complete(cli[th].turn, cli[th].outcome)
    /\ UNCHANGED <<flags, native, pump, stop, drop, lane, anchor, ghosts>>

CliRemove(th) ==
    /\ cli[th].pc = "remove"
    /\ cli' = [cli EXCEPT ![th] = NoCli]
    /\ UNCHANGED <<ledger, flags, native, pump, stop, drop, lane, anchor, ghosts>>

CliStep(th) ==
    \/ CliAcquire(th) \/ CliCancelledWaiting(th) \/ CliRun(th) \/ CliBind(th)
    \/ \E o \in Terminal : CliDriven(th, o)
    \/ CliComplete(th) \/ CliRemove(th)

-----------------------------------------------------------------------------
(* The Native lane: spawn_turn_pump and admit_next_thread_request *)

LaneGoes(th, pc, turn) ==
    lane' = [lane EXCEPT ![th] = [NoLane EXCEPT !.pc = pc, !.turn = turn]]
LaneRests(th) == LaneGoes(th, "idle", None)

LashPending(th) == {t \in TurnsOf(th) : lash[t] = "pending"}

\* The 100 ms process bridge, a retry timer or a notification wakes the pump
\* while any of this holds; a pass that finds none of it changes nothing.
LaneWork(th) == \/ LashPending(th) # {} \/ th \in commands
                \/ PendingOf(th) # {} \/ anchor[th] # None

LaneBegin(th) ==
    /\ lane[th].pc = "idle" /\ th \in opened /\ LaneWork(th)
    /\ PermitFree
    /\ LaneGoes(th, "admit", None)
    /\ UNCHANGED <<ledger, flags, native, pump, stop, drop, cli, anchor, ghosts>>

\* admit_next_thread_request: unowned inputs are cancelled first; a background
\* anchor or a CLI request at the head means nothing to admit.
Admitting(th) == lane[th].pc = "admit" /\ ~DropHolds(th)
Candidates(th) ==
    IF anchor[th] # None /\ KindOf[anchor[th]] = "background" THEN {}
    ELSE {t \in FirstOf(PendingOf(th)) : ExecOf[t] = "native"}
NothingAdmitted(th) ==
    \/ anchor[th] # None /\ KindOf[anchor[th]] = "background"
    \/ PendingOf(th) = {}
    \/ \E t \in FirstOf(PendingOf(th)) : ExecOf[t] = "cli"

\* A request whose turn ended is withdrawn, never replayed; then the next one.
LaneDiscard(th, t) ==
    /\ Admitting(th) /\ t \in Candidates(th) /\ state[t] \in Terminal
    /\ lash' = Withdrawn(t, Reconciled(th))
    /\ requests' = requests \ {t}
    /\ anchor' = [anchor EXCEPT ![th] = None]
    /\ UNCHANGED <<state, order, clock, bound, flags, commands, opened,
                   pump, stop, drop, cli, lane, ghosts>>

\* Enqueued into Lash unless a crash left it there.
LanePick(th, t) ==
    /\ Admitting(th) /\ t \in Candidates(th) /\ Open(t)
    /\ lash' = [Reconciled(th) EXCEPT ![t] = "pending"]
    /\ LaneGoes(th, "run", t)
    /\ UNCHANGED <<ledger, flags, commands, opened, pump, stop, drop, cli, anchor, ghosts>>

LaneRun(th) ==
    LET t == lane[th].turn
    IN  /\ lane[th].pc = "run"
        /\ IF CanRun(t) THEN RunTurn(t) /\ LaneGoes(th, "bind", t)
                        ELSE LaneRests(th) /\ UNCHANGED state
        /\ UNCHANGED <<requests, order, clock, bound, flags, native,
                       pump, stop, drop, cli, anchor, ghosts>>

\* The anchors name the turn and its drain only after a successful bind.
LaneBind(th) ==
    LET t == lane[th].turn
    IN  /\ lane[th].pc = "bind"
        /\ Bind(t)
        /\ IF CanBind(t)
           THEN LaneGoes(th, "drain", t) /\ anchor' = [anchor EXCEPT ![th] = t]
           ELSE LaneRests(th) /\ UNCHANGED anchor
        /\ UNCHANGED <<state, requests, order, clock, flags, native,
                       pump, stop, drop, cli, ghosts>>

\* activate_background_turn: an anchor kept by an empty drain is bound again,
Activating(th) == Admitting(th) /\ NothingAdmitted(th) /\ lash' = Reconciled(th)
LaneResume(th) ==
    /\ Activating(th)
    /\ anchor[th] # None
    /\ LaneGoes(th, "bind", anchor[th])
    /\ UNCHANGED <<ledger, flags, commands, opened, pump, stop, drop, cli, anchor, ghosts>>

\* queued Lash work with no request starts a turn of its own, running at once,
SessionWork(th) == th \in commands \/ \E t \in TurnsOf(th) : Reconciled(th)[t] = "pending"
LaneBackground(th, b) ==
    /\ Activating(th)
    /\ anchor[th] = None /\ SessionWork(th) /\ RunningIn(th) = {}
    /\ ThreadOf[b] = th /\ KindOf[b] = "background" /\ state[b] = "none"
    /\ state' = [state EXCEPT ![b] = "running"]
    /\ LaneGoes(th, "bind", b)
    /\ UNCHANGED <<requests, order, clock, bound, flags, commands, opened,
                   pump, stop, drop, cli, anchor, ghosts>>

\* and the pump rests when there is none, or when the unique index refuses the
\* new turn. (An instance that has used up its background turns rests too.)
SpareBackground(th) == \E b \in TurnsOf(th) : KindOf[b] = "background" /\ state[b] = "none"
LaneRest(th) ==
    /\ Activating(th)
    /\ anchor[th] = None
    /\ ~SessionWork(th) \/ RunningIn(th) # {} \/ ~SpareBackground(th)
    /\ LaneRests(th)
    /\ UNCHANGED <<ledger, flags, commands, opened, pump, stop, drop, cli, anchor, ghosts>>

\* External: a Lash drain claims every pending input of the session with its
\* queued commands, runs them as one turn and reports how it ended.
LaneDrained(th, outcome) ==
    /\ lane[th].pc = "drain"
    /\ LashPending(th) # {} \/ th \in commands
    /\ outcome \in {"completed", "failed"} \cup (IF lane[th].stop THEN {"cancelled"} ELSE {})
    /\ lash' = [t \in Turn |-> IF t \in LashPending(th) THEN "done" ELSE lash[t]]
    /\ commands' = commands \ {th}
    /\ lane' = [lane EXCEPT ![th].pc = "settle", ![th].outcome = outcome]
    /\ UNCHANGED <<ledger, flags, opened, pump, stop, drop, cli, anchor, ghosts>>

\* External: the drain errors before it claims anything.
LaneDrainError(th) ==
    /\ lane[th].pc = "drain"
    /\ Spend("fault")
    /\ lane' = [lane EXCEPT ![th].pc = "settle", ![th].outcome = "failed"]
    /\ UNCHANGED <<ledger, flags, native, pump, stop, drop, cli, anchor, asked>>

\* An empty drain (another owner's lease, or nothing left to claim) keeps the
\* anchor for the retry and gives the permit back.
LaneEmpty(th) ==
    /\ lane[th].pc = "drain"
    /\ \/ LashPending(th) = {} /\ th \notin commands /\ UNCHANGED left
       \/ Spend("empty")
    /\ LaneRests(th)
    /\ UNCHANGED <<ledger, flags, native, pump, stop, drop, cli, anchor, asked>>

\* finish_thread_request / finish_active_thread, then the anchors are cleared.
LaneSettle(th) ==
    LET t == anchor[th]
    IN  /\ lane[th].pc = "settle"
        /\ CompleteRemoving(t, lane[th].outcome, {t})
        /\ lash' = Withdrawn(t, lash)
        /\ anchor' = [anchor EXCEPT ![th] = None]
        /\ LaneRests(th)
        /\ UNCHANGED <<flags, commands, opened, pump, stop, drop, cli, ghosts>>

\* The projection cannot be stored, twice: the pump stops until a restart and
\* the anchor stays.
LaneHalt(th) ==
    /\ lane[th].pc = "settle"
    /\ Spend("fault")
    /\ LaneGoes(th, "stopped", None)
    /\ UNCHANGED <<ledger, flags, native, pump, stop, drop, cli, anchor, asked>>

LaneAdmit(th) ==
    \/ \E t \in Turn : LaneDiscard(th, t) \/ LanePick(th, t) \/ LaneBackground(th, t)
    \/ LaneResume(th) \/ LaneRest(th)
LaneStep(th) ==
    \/ LaneBegin(th) \/ LaneAdmit(th) \/ LaneRun(th) \/ LaneBind(th)
    \/ \E o \in Terminal : LaneDrained(th, o)
    \/ LaneDrainError(th) \/ LaneEmpty(th) \/ LaneSettle(th) \/ LaneHalt(th)

-----------------------------------------------------------------------------
(* Restart: interrupt_unfinished_thread_turns before the poller starts *)

\* interrupt_unfinished_thread_turns: the running turns end and their request
\* rows go, so that nothing is dispatched again.
RequeueRunning(S) ==   \* mutation
    /\ state' = [t \in Turn |-> IF t \in S THEN "queued" ELSE state[t]]
    /\ UNCHANGED <<order, clock, requests>>
Interrupt(S) ==
    /\ Finish(S, "interrupted")
    /\ requests' = (requests \ S) \cup Reports(S)

\* The Lash session of an interrupted turn's Thread is abandoned with whatever
\* was queued there.
CrashRestart ==
    LET cut == {t \in Turn : state[t] = "running"}
        lost == {ThreadOf[t] : t \in cut}
    IN  /\ Spend("crash")
        /\ Interrupt(cut)
        /\ lash' = [t \in Turn |-> IF lash[t] = "pending" /\ ThreadOf[t] \in lost
                                   THEN "absent" ELSE lash[t]]
        /\ commands' = commands \ lost
        /\ pump' = NoPump /\ stop' = NoStop /\ drop' = NoDrop
        /\ cli' = [th \in Thread |-> NoCli]
        /\ lane' = [th \in Thread |-> NoLane]
        /\ anchor' = [th \in Thread |-> None]
        /\ UNCHANGED <<bound, flags, opened, asked>>

-----------------------------------------------------------------------------

Environment ==
    \/ \E t \in Turn : AcceptOwner(t) \/ AcceptWake(t) \/ DropBegin(t)
    \/ \E c, t \in Turn : Delegate(c, t)
    \/ \E th \in Thread : \/ OwnerArchive(th) \/ Unarchive(th)
                          \/ Snooze(th) \/ SnoozeEnds(th)
                          \/ QueueCommand(th) \/ StopBegin(th)
    \/ \E c \in Turn, th \in Thread : AgentArchive(c, th) \/ AgentCancel(c, th)
    \/ CrashRestart

Next ==
    \/ Environment \/ PumpStep \/ PumpIdle \/ OwnerStep
    \/ \E th \in Thread : CliStep(th) \/ LaneStep(th)

Spec == Init /\ [][Next]_vars

-----------------------------------------------------------------------------
(* Fairness *)

\* Each actor is a sequential task that the runtime keeps scheduling. It waits
\* for the admission mutex, a request_lock or a permit in the fair queues of
\* tokio, so it also gets what is free only now and then: strong fairness. That
\* a driver or a drain ends is the one assumption about the executors.
Fairness ==
    /\ SF_vars(PumpStep) /\ SF_vars(OwnerStep)
    /\ \A th \in Thread : SF_vars(CliStep(th)) /\ SF_vars(LaneStep(th))

FairSpec == Spec /\ Fairness

\* The same without that assumption: work that executes a turn ends only once
\* it was told to stop.
CliUnlessDriving(th) == (cli[th].pc = "drive" => cli[th].token) /\ CliStep(th)
LaneUnlessDraining(th) == (lane[th].pc = "drain" => lane[th].stop) /\ LaneStep(th)
EndlessSpec ==
    /\ Spec /\ SF_vars(PumpStep) /\ SF_vars(OwnerStep)
    /\ \A th \in Thread : SF_vars(CliUnlessDriving(th)) /\ SF_vars(LaneUnlessDraining(th))

-----------------------------------------------------------------------------
(* Properties *)

CliPcs == {"none", "wait", "ready", "bind", "drive", "done", "remove"}
LanePcs == {"idle", "admit", "run", "bind", "drain", "settle", "stopped"}

LedgerTypeOK ==
    /\ state \in [Turn -> TurnStates]
    /\ requests \subseteq Turn /\ bound \subseteq Turn
    /\ order \in [Turn -> Nat] /\ clock \in Nat
FlagsTypeOK ==
    /\ cancelReq \subseteq Turn /\ archived \subseteq Thread /\ snoozed \subseteq Thread
NativeTypeOK ==
    /\ lash \in [Turn -> {"absent", "pending", "done"}]
    /\ commands \subseteq Thread /\ opened \subseteq Thread
PumpTypeOK ==
    pump \in [pc : {"idle", "cancels", "requests"}, queued : SUBSET Turn,
              running : SUBSET Turn, batch : SUBSET Turn, seen : SUBSET Thread]
OwnerTypeOK ==
    /\ stop \in [pc : {"idle", "deliver"}, thread : Thread \cup {None}]
    /\ drop \in [pc : {"idle", "act", "clean"}, turn : Turn \cup {None}]
    /\ stop.pc = "deliver" => stop.thread \in Thread
    /\ drop.pc # "idle" => drop.turn \in Turn
CliTypeOK ==
    /\ cli \in [Thread -> [pc : CliPcs, turn : Turn \cup {None},
                           token : BOOLEAN, outcome : Terminal \cup {None}]]
    /\ \A th \in Thread : /\ cli[th].pc # "none" => cli[th].turn \in Turn
                          /\ cli[th].pc = "done" => cli[th].outcome \in Terminal
LaneTypeOK ==
    /\ lane \in [Thread -> [pc : LanePcs, turn : Turn \cup {None},
                            stop : BOOLEAN, outcome : Terminal \cup {None}]]
    /\ anchor \in [Thread -> Turn \cup {None}]
    /\ \A th \in Thread : /\ lane[th].pc \in {"run", "bind"} => lane[th].turn \in Turn
                          /\ lane[th].pc \in {"drain", "settle"} => anchor[th] \in Turn
                          /\ lane[th].pc = "settle" => lane[th].outcome \in Terminal
GhostTypeOK == asked \subseteq Turn /\ left \in [Events -> Nat]

\* Every variable holds a value its columns, locks and records can hold, and an
\* actor at work has the turn, the outcome or the Thread its next step reads.
TypeOK ==
    /\ LedgerTypeOK /\ FlagsTypeOK /\ NativeTypeOK /\ PumpTypeOK
    /\ OwnerTypeOK /\ CliTypeOK /\ LaneTypeOK /\ GhostTypeOK

\* No accepted turn is lost: from acceptance to its end a turn that was asked
\* for has its request row, across crashes, cancellations and both executors.
AcceptedIsHeld ==
    \A t \in Turn : Open(t) /\ KindOf[t] # "background" => t \in requests

\* A requester has exactly one report of a turn when it ended and none before.
ReportedOnce ==
    \A t \in Turn : ReportOf[t] # None =>
        (state[t] \in Terminal <=> state[ReportOf[t]] # "none")

\* Tool authority belongs to the work that executes the turn: a turn that may
\* call tools is driven by its Thread's CLI work or anchored in its lane.
AuthorityIsOwned ==
    \A t \in Turn : Authorized(t) =>
        LET th == ThreadOf[t]
        IN  \/ cli[th].turn = t /\ cli[th].pc = "drive"
            \/ anchor[th] = t

\* What a drain executes is a running turn: a request removed or cancelled
\* while queued is never executed, whatever the admission had already read.
DrainedTurnRuns ==
    \A th \in Thread : lane[th].pc = "drain" => state[anchor[th]] = "running"

\* A driver whose turn was ended by somebody else has been told to stop.
EndedDriverIsSignalled ==
    \A th \in Thread :
        cli[th].pc = "drive" /\ state[cli[th].turn] \in Terminal => cli[th].token

\* One admitted input per Thread lane: a drain finds in Lash no input but the
\* one of the turn it was bound to.
OneAdmittedInput ==
    \A th \in Thread : lane[th].pc = "drain" => LashPending(th) \subseteq {anchor[th]}

\* Two executors never work in one Thread at the same time: a driver whose
\* Thread has a drain already lost its turn and has been told to stop.
NoOverlap ==
    \A th \in Thread : lane[th].pc = "drain" /\ cli[th].pc = "drive" => cli[th].token

\* A turn ends cancelled only if its own cancellation was asked for: an archive
\* or threads.cancel marked it, the Owner dropped it, or it was what its Thread
\* executed when the Owner pressed Stop.
CancelIsAddressed ==
    \A t \in Turn : state[t] = "cancelled" => t \in cancelReq \cup asked

\* Acceptance is kept: an accepted turn that never started does not fail.
FailsOnlyIfRun ==
    [][\A t \in Turn : state[t] = "queued" => state'[t] # "failed"]_vars

\* Archived Threads take no delegated work (thread_archive.rs:58). Refuted: a
\* delegated send does not look at the archive.
ArchivedTakesNoDelegation ==
    [][\A t \in Turn : /\ KindOf[t] = "delegated"
                        /\ state[t] = "none" /\ state'[t] # "none"
                        => ThreadOf[t] \notin archived]_vars

\* Per-Thread FIFO: a request starts only after every earlier one of its
\* Thread ended, reports aside (those a snooze may hold back).
FifoStart ==
    [][\A t, u \in Turn :
          /\ state[t] = "queued" /\ state'[t] = "running"
          /\ ThreadOf[u] = ThreadOf[t] /\ KindOf[u] \notin {"report", "background"}
          /\ 0 < order[u] /\ order[u] < order[t]
          => ~Open(u)]_vars

\* An input Lash has consumed is never given to Lash again.
NoReplay ==
    [][\A t \in Turn : lash[t] = "done" => lash'[t] = "done"]_vars

\* The turn table as every reader sees it.
Ledger == INSTANCE TurnLedger
LedgerSpec == Ledger!Spec

\* A marked turn ends.
CancelEnds == \A t \in Turn : t \in cancelReq ~> state[t] \in Terminal

\* Where nothing is archived, an accepted turn ends: no schedule of poller,
\* lanes, drivers, crashes and lost capacity leaves it waiting for ever.
AcceptedEnds == \A t \in Turn : state[t] \in OpenStates ~> state[t] \in Terminal
=============================================================================
