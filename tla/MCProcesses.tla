---------------------------- MODULE MCProcesses ----------------------------
(***************************************************************************)
(* Instances of ProcessDelivery, Timers and of both together for TLC. A    *)
(* behaviour is one of `part`: the receipts of processes that turns start, *)
(* the timers alone over a longer time, or the pipeline from a one-shot    *)
(* timer to the turn that answers its process. The variables the part does *)
(* not use keep one value. ProcessDelivery is extended: its properties     *)
(* hold in all parts as they stand, its type invariant in "receipts".      *)
(***************************************************************************)
EXTENDS ProcessDelivery, TLC

CONSTANTS
    OneShots, Repeating,    \* the timers' subscriptions
    Seconds,                \* the interval of each
    TimerInstants,          \* bounds of the timers: on the clock,
    Failures, Edits,        \* on failed starts and changes,
    Crashes,                \* on crashes of the part "timers"
    PipelineInstants        \* and on the clock of the pipeline

ASSUME ProcessesAssumption ==
    /\ {TimerInstants, PipelineInstants, Failures, Edits, Crashes, FaultLimit} \subseteq Nat
    /\ Seconds \in [OneShots \cup Repeating -> Nat \ {0}]
    /\ OneShots \X (1 .. PipelineInstants) \subseteq Run

VARIABLES part, now, sub, reserved, retired, poll, failed, died

tvars == <<now, sub, reserved, retired, poll, failed, died>>
dvars == <<lashQueue, woke, drained, staged, chat, turns, settled, acked,
           archived, bridge, faults>>

\* Two processes, one of which wakes its Thread. The other has the name of the
\* one the pipeline's timer starts.
Runs == {<<"once", 1>>, <<"every", 2>>}
WakingRuns == {<<"every", 2>>}

\* A one-shot and a recurring timer over two periods.
Intervals == "once" :> 1 @@ "every" :> 2

T == INSTANCE Timers WITH
    Sub <- OneShots \cup Repeating, Recurring <- Repeating, Interval <- Seconds,
    LastInstant <- TimerInstants, FailLimit <- Failures, EditLimit <- Edits,
    CrashLimit <- Crashes

\* One-shots, from registration to acknowledgement.
P == INSTANCE ProcessPipeline WITH
    Sub <- OneShots, Recurring <- {}, Interval <- [s \in OneShots |-> Seconds[s]],
    Waking <- {}, LastInstant <- PipelineInstants, FailLimit <- Failures,
    EditLimit <- Edits

DeliveryRests == lashQueue = {} /\ woke = {} /\ drained = {} /\ staged = <<>>
                 /\ chat = <<>> /\ turns = <<>> /\ settled = {} /\ acked = {}
                 /\ archived = FALSE /\ bridge = Idle /\ faults = 0

MCInit ==
    \/ part = "receipts" /\ Init /\ T!Init
    \/ part = "timers" /\ T!Init /\ status = [r \in T!Firing |-> "absent"]
       /\ DeliveryRests
    \/ part = "pipeline" /\ P!Init

Receipts == part = "receipts" /\ Next /\ UNCHANGED <<part, tvars>>
Timed == part = "timers" /\ T!Fire /\ UNCHANGED <<part, dvars>>
Pipeline == part = "pipeline" /\ P!Next /\ UNCHANGED part

MCNext == Receipts \/ Timed \/ Pipeline

mcvars == <<part, tvars, status, dvars>>

Fairness ==
    /\ WF_mcvars(part = "receipts" /\ Bridge /\ UNCHANGED <<part, tvars>>)
    /\ WF_mcvars(part = "timers" /\ T!Poll /\ UNCHANGED <<part, dvars>>)
    /\ WF_mcvars(part = "pipeline" /\ P!T!Poll /\ UNCHANGED <<part, dvars>>)
    /\ WF_mcvars(part = "pipeline" /\ P!D!Bridge /\ UNCHANGED <<part, tvars>>)
    /\ WF_mcvars(part = "pipeline" /\ P!T!Tick /\ UNCHANGED <<part, dvars>>)

MCSpec == MCInit /\ [][MCNext]_mcvars /\ Fairness

-----------------------------------------------------------------------------
(* The properties of the modules, in the parts they are about.             *)

\* Type invariant of each part.
TypesOK ==
    /\ part \in {"receipts", "timers", "pipeline"}
    /\ part = "receipts" => TypeOK
    /\ part = "timers" => T!TypeOK
    /\ part = "pipeline" => P!T!TypeOK /\ P!D!TypeOK

\* Not before its time and once per period (Timers).
FiresOncePerPeriod ==
    /\ part = "timers" => T!FiresOncePerPeriod
    /\ part = "pipeline" => P!T!FiresOncePerPeriod

\* Only a delivered one-shot is retired (Timers).
RetiredHasRun == T!RetiredHasRun

\* A delivered one-shot is retired at last (Timers).
DeliveredIsRetired ==
    \A s \in OneShots :
        (part = "timers" /\ <<s, 1>> \in reserved) ~> sub[s].state # "enabled"

\* An enabled one-shot whose time has come is answered with a turn
\* (ProcessPipeline).
DueIsAnswered ==
    \A s \in OneShots :
        (part = "pipeline" /\ P!DueOneShot(s))
            ~> (part = "pipeline" => P!AnsweredOrExcused(s))

=============================================================================
