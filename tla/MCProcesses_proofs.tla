--------------------------- MODULE MCProcesses_proofs ---------------------------
(***************************************************************************)
(* Theorems about the instances of MCProcesses, for all values of their    *)
(* constants: the receipts of any processes, any timers over any time, and *)
(* both as one pipeline over one process registry, with crashes that stop  *)
(* both at once.                                                           *)
(*                                                                         *)
(* The components are proved in their own modules. What is left is that    *)
(* their steps stay theirs when they share the registry and the crash: a   *)
(* timer that starts a process changes nothing the receipts rely on but    *)
(* the process's status, and a crash of the lane leaves the timers what is *)
(* durable, and a poll at rest.                                            *)
(***************************************************************************)
EXTENDS MCProcesses, ProcessDelivery_proofs

\* The theorems about Timers and ProcessDelivery, of the components that
\* MCProcesses and ProcessPipeline instantiate.
TP == INSTANCE Timers_proofs WITH
    Sub <- OneShots \cup Repeating, Recurring <- Repeating, Interval <- Seconds,
    LastInstant <- TimerInstants, FailLimit <- Failures, EditLimit <- Edits,
    CrashLimit <- Crashes

PTP == INSTANCE Timers_proofs WITH
    Sub <- OneShots, Recurring <- {}, Interval <- [s \in OneShots |-> Seconds[s]],
    LastInstant <- PipelineInstants, FailLimit <- Failures, EditLimit <- Edits,
    CrashLimit <- 0

PDP == INSTANCE ProcessDelivery_proofs WITH Run <- P!Execution, WakingRun <- {}

PipelineInv == PTP!TimersInv /\ PTP!Counts /\ PDP!DeliveryInv

PartsInv ==
    /\ part \in {"receipts", "timers", "pipeline"}
    /\ part = "receipts" => DeliveryInv /\ retired = {}
    /\ part = "timers" => TP!TimersInv /\ TP!Counts /\ DeliveryRests
    /\ part = "pipeline" => PipelineInv

-----------------------------------------------------------------------------
(* The instances here and in MCProcesses are the same.                     *)

LEMMA SaneTimers == TP!Sane /\ PTP!Sane /\ FaultLimit \in Nat
BY ProcessesAssumption DEF TP!Sane, PTP!Sane

LEMMA TimersAreTimers ==
    /\ T!Init => TP!Init
    /\ T!Fire => TP!Fire
    /\ TP!FiresOncePerPeriod => T!FiresOncePerPeriod
    /\ TP!RetiredHasRun => T!RetiredHasRun
    /\ TP!TypeOK => T!TypeOK
<1> USE DEF T!NoRec, TP!NoRec, T!Resting, TP!Resting, T!Instant, TP!Instant
<1>1. T!Init => TP!Init
    BY DEF T!Init, TP!Init
<1>2. T!Fire => TP!Fire
    BY DEF T!Fire, TP!Fire, T!Poll, TP!Poll, T!BeginPoll, TP!BeginPoll, T!Retire, TP!Retire,
           T!EndPoll, TP!EndPoll, T!SkipNotDue, TP!SkipNotDue, T!EmitStarts, TP!EmitStarts,
           T!EmitReserved, TP!EmitReserved, T!EmitFails, TP!EmitFails,
           T!EmitNothing, TP!EmitNothing, T!CrashPoll, TP!CrashPoll, T!Tick, TP!Tick,
           T!Register, TP!Register, T!Revise, TP!Revise, T!Disable, TP!Disable,
           T!Change, TP!Change, T!Enabled, TP!Enabled, T!Done, TP!Done,
           T!Retiring, TP!Retiring, T!At, TP!At, T!Due, TP!Due, T!PeriodOf, TP!PeriodOf,
           T!Occurrence, TP!Occurrence
<1>3. TP!FiresOncePerPeriod => T!FiresOncePerPeriod
    BY DEF TP!FiresOncePerPeriod, T!FiresOncePerPeriod, TP!Cardinality, T!Cardinality
<1>4. TP!RetiredHasRun => T!RetiredHasRun
    BY DEF TP!RetiredHasRun, T!RetiredHasRun
<1>5. TP!TypeOK => T!TypeOK
    BY DEF TP!TypeOK, T!TypeOK, TP!SubStates, T!SubStates, TP!Firing, T!Firing,
           TP!Period, T!Period
<1>6. QED
    BY <1>1, <1>2, <1>3, <1>4, <1>5

LEMMA PipelineTimersAreTimers ==
    /\ P!T!Init => PTP!Init
    /\ P!T!Fire => PTP!Fire
    /\ P!T!Resting = PTP!Resting
    /\ PTP!FiresOncePerPeriod => P!T!FiresOncePerPeriod
    /\ PTP!RetiredHasRun => T!RetiredHasRun
    /\ PTP!TypeOK => P!T!TypeOK
<1> USE DEF P!T!NoRec, PTP!NoRec, P!T!Resting, PTP!Resting, P!T!Instant, PTP!Instant
<1>1. P!T!Init => PTP!Init
    BY DEF P!T!Init, PTP!Init
<1>2. P!T!Fire => PTP!Fire
    BY DEF P!T!Fire, PTP!Fire, P!T!Poll, PTP!Poll, P!T!BeginPoll, PTP!BeginPoll,
           P!T!Retire, PTP!Retire, P!T!EndPoll, PTP!EndPoll, P!T!SkipNotDue, PTP!SkipNotDue,
           P!T!EmitStarts, PTP!EmitStarts, P!T!EmitReserved, PTP!EmitReserved,
           P!T!EmitFails, PTP!EmitFails, P!T!EmitNothing, PTP!EmitNothing,
           P!T!CrashPoll, PTP!CrashPoll, P!T!Tick, PTP!Tick, P!T!Register, PTP!Register,
           P!T!Revise, PTP!Revise, P!T!Disable, PTP!Disable, P!T!Change, PTP!Change,
           P!T!Enabled, PTP!Enabled, P!T!Done, PTP!Done, P!T!Retiring, PTP!Retiring,
           P!T!At, PTP!At, P!T!Due, PTP!Due, P!T!PeriodOf, PTP!PeriodOf,
           P!T!Occurrence, PTP!Occurrence
<1>3. PTP!FiresOncePerPeriod => P!T!FiresOncePerPeriod
    BY DEF PTP!FiresOncePerPeriod, P!T!FiresOncePerPeriod, PTP!Cardinality, P!T!Cardinality
<1>4. PTP!RetiredHasRun => T!RetiredHasRun
    BY DEF PTP!RetiredHasRun, T!RetiredHasRun
<1>5. PTP!TypeOK => P!T!TypeOK
    BY DEF PTP!TypeOK, P!T!TypeOK, PTP!SubStates, P!T!SubStates, PTP!Firing, P!T!Firing,
           PTP!Period, P!T!Period
<1>6. QED
    BY <1>1, <1>2, <1>3, <1>4, <1>5

LEMMA PipelineReceiptsAreReceipts ==
    /\ P!D!Init => PDP!Init
    /\ P!D!Crash => PDP!Crash
    /\ P!Delivered => PDP!Next
    /\ PDP!TypeOK => P!D!TypeOK
<1> USE DEF P!D!AtPc, PDP!AtPc, P!D!Idle, PDP!Idle, P!D!NoKey, PDP!NoKey,
            P!D!Key, PDP!Key, P!D!WakeKey, PDP!WakeKey, P!D!EndKey, PDP!EndKey,
            P!D!Live, PDP!Live, P!D!Reported, PDP!Reported,
            P!D!lash, PDP!lash, P!D!receipts, PDP!receipts
<1>1. P!D!Init => PDP!Init
    BY DEF P!D!Init, PDP!Init
<1>2. P!D!Crash => PDP!Crash
    BY DEF P!D!Crash, PDP!Crash
<1>3. P!D!Bridge => PDP!Bridge
    BY DEF P!D!Bridge, PDP!Bridge, P!D!BeginPass, PDP!BeginPass, P!D!Unqueue, PDP!Unqueue,
           P!D!ReadEnds, PDP!ReadEnds, P!D!ReadPending, PDP!ReadPending,
           P!D!StageWake, PDP!StageWake, P!D!StageEnd, PDP!StageEnd, P!D!StageKey, PDP!StageKey,
           P!D!AppendMessage, PDP!AppendMessage, P!D!EnqueueRefused, PDP!EnqueueRefused,
           P!D!Enqueue, PDP!Enqueue, P!D!Acknowledge, PDP!Acknowledge, P!D!EndPass, PDP!EndPass,
           P!D!Pending, PDP!Pending, P!D!FirstOf, PDP!FirstOf, P!D!HasMessage, PDP!HasMessage,
           P!D!ToSet, PDP!ToSet
<1>4. P!Delivered => PDP!Next
    BY <1>3 DEF P!Delivered, PDP!Next, PDP!Deliver, P!D!PassFails, PDP!PassFails,
           P!D!PumpDrains, PDP!PumpDrains, P!D!Wake, PDP!Wake, P!D!CancelProcess, PDP!CancelProcess,
           P!D!EndRun, PDP!EndRun, P!D!SettleTurn, PDP!SettleTurn, P!D!SetArchived, PDP!SetArchived,
           P!D!ToSet, PDP!ToSet
<1>5. PDP!TypeOK => P!D!TypeOK
    BY DEF PDP!TypeOK, P!D!TypeOK, PDP!Statuses, P!D!Statuses, PDP!Pcs, P!D!Pcs
<1>6. QED
    BY <1>1, <1>2, <1>4, <1>5

-----------------------------------------------------------------------------
(* The pipeline                                                            *)

\* A timer's poll may start a process; nothing else of the receipts moves.
LEMMA FireKeepsReceipts ==
    ASSUME PDP!DeliveryInv, PTP!Fire, UNCHANGED dvars
    PROVE  PDP!DeliveryInv'
<1>1. status' \in [P!Execution -> PDP!Statuses]
    <2>1. status \in [P!Execution -> PDP!Statuses]
        BY DEF PDP!DeliveryInv, PDP!TypeOK
    <2>2. status' = status \/ \E r : status' = [status EXCEPT ![r] = "running"]
        BY DEF PTP!Fire, PTP!Poll, PTP!BeginPoll, PTP!Retire, PTP!EndPoll, PTP!SkipNotDue,
               PTP!EmitStarts, PTP!EmitReserved, PTP!EmitFails, PTP!EmitNothing,
               PTP!CrashPoll, PTP!Tick, PTP!Register, PTP!Revise, PTP!Disable, PTP!Change
    <2>3. QED
        BY <2>1, <2>2 DEF PDP!Statuses, PDP!Live
<1>2. PDP!TypeOK'
    BY <1>1 DEF PDP!DeliveryInv, PDP!TypeOK, dvars
<1>3. PDP!RowsInv' /\ PDP!WakeIsHeld'
    BY DEF PDP!DeliveryInv, PDP!RowsInv, PDP!WakeIsHeld, dvars
<1>4. PDP!PassInv'
    BY DEF PDP!DeliveryInv, PDP!PassInv, PDP!RestPending, PDP!AtPc, dvars
<1>5. QED
    BY <1>2, <1>3, <1>4 DEF PDP!DeliveryInv

LEMMA PipelineNextKeepsInv ==
    ASSUME PipelineInv, P!Next
    PROVE  PipelineInv'
<1> USE SaneTimers
<1>1. CASE P!Timed
    <2>1. PTP!Fire /\ UNCHANGED dvars
        BY <1>1, PipelineTimersAreTimers DEF P!Timed, P!dvars, dvars
    <2>2. PTP!TimersInv' /\ PTP!Counts'
        BY <2>1, PTP!NextInv, PTP!CountsStay DEF PipelineInv
    <2>3. QED
        BY <2>1, <2>2, FireKeepsReceipts DEF PipelineInv
<1>2. CASE P!Delivered
    <2>1. PDP!Next /\ UNCHANGED PTP!tvars
        BY <1>2, PipelineReceiptsAreReceipts DEF P!Delivered, P!tvars, PTP!tvars
    <2>2. PTP!TimersInv' /\ PTP!Counts'
        BY <2>1, PTP!NextInv, PTP!CountsStay DEF PipelineInv
    <2>3. QED
        BY <2>1, <2>2, PDP!NextInv DEF PipelineInv
<1>3. CASE P!Crash
    <2>1. PDP!Crash /\ poll' = PTP!Resting /\ UNCHANGED <<now, sub, reserved, retired, failed, died>>
        BY <1>3, PipelineReceiptsAreReceipts, PipelineTimersAreTimers DEF P!Crash
    <2>2. PTP!TimersInv' /\ PTP!Counts'
        BY <2>1, PTP!RestKeepsInv DEF PipelineInv, PTP!Counts
    <2>3. PDP!DeliveryInv'
        BY <2>1, PDP!PassMovesKeepsInv DEF PipelineInv
    <2>4. QED
        BY <2>2, <2>3 DEF PipelineInv
<1>4. QED
    BY <1>1, <1>2, <1>3 DEF P!Next

\* What the pipeline shows of its receipts is a step of the ledger as well.
LEMMA PipelineImplementsLedger ==
    ASSUME PipelineInv, P!Next
    PROVE  [Ledger!Next]_<<staged, Len(chat), Len(turns)>>
<1>1. CASE P!Timed \/ P!Crash
    BY <1>1 DEF P!Timed, P!dvars, P!Crash, P!D!Crash, P!D!receipts
<1>2. CASE P!Delivered
    <2>1. [PDP!Ledger!Next]_<<staged, Len(chat), Len(turns)>>
        BY <1>2, PDP!NextImplementsLedger, PipelineReceiptsAreReceipts DEF PipelineInv
    <2>2. PDP!Key \subseteq Key
        BY ProcessesAssumption DEF PDP!Key, Key, PDP!EndKey, EndKey, P!Execution
    <2>3. QED
        BY <2>1, <2>2 DEF PDP!Ledger!Next, Ledger!Next, PDP!Ledger!Enter, Ledger!Enter,
           PDP!Ledger!Tell, Ledger!Tell, PDP!Ledger!Accept, Ledger!Accept,
           PDP!Ledger!ToSet, Ledger!ToSet
<1>3. QED
    BY <1>1, <1>2 DEF P!Next

-----------------------------------------------------------------------------
(* All parts                                                               *)

LEMMA MCInitInv == MCInit => PartsInv
<1> USE SaneTimers
<1>1. ASSUME part = "receipts", Init, T!Init PROVE PartsInv
    BY <1>1, InitInv DEF PartsInv, T!Init
<1>2. ASSUME part = "timers", T!Init, DeliveryRests PROVE PartsInv
    BY <1>2, TimersAreTimers, TP!InitInv DEF PartsInv, TP!Init, TP!Counts
<1>3. ASSUME part = "pipeline", P!Init PROVE PartsInv
    <2>1. PTP!Init /\ PDP!Init
        BY <1>3, PipelineTimersAreTimers, PipelineReceiptsAreReceipts DEF P!Init
    <2>2. QED
        BY <1>3, <2>1, PTP!InitInv, PDP!InitInv DEF PartsInv, PipelineInv, PTP!Init, PTP!Counts
<1>4. QED
    BY <1>1, <1>2, <1>3 DEF MCInit

LEMMA MCNextInv ==
    ASSUME PartsInv, [MCNext]_mcvars
    PROVE  PartsInv'
<1> USE SaneTimers
<1>1. CASE Receipts
    <2>1. /\ part = "receipts" /\ part' = part /\ retired' = retired
          /\ DeliveryInv /\ retired = {} /\ Next
        BY <1>1 DEF Receipts, tvars, PartsInv
    <2>2. QED
        BY <2>1, NextInv DEF PartsInv
<1>2. CASE Timed
    <2>1. /\ part = "timers" /\ part' = part /\ UNCHANGED dvars /\ TP!Fire
          /\ TP!TimersInv /\ TP!Counts /\ DeliveryRests
        BY <1>2, TimersAreTimers DEF Timed, PartsInv
    <2>2. TP!TimersInv' /\ TP!Counts'
        BY <2>1, TP!NextInv, TP!CountsStay
    <2>3. DeliveryRests'
        BY <2>1 DEF DeliveryRests, dvars
    <2>4. QED
        BY <2>1, <2>2, <2>3 DEF PartsInv
<1>3. CASE Pipeline
    <2>1. part = "pipeline" /\ part' = part /\ P!Next /\ PipelineInv
        BY <1>3 DEF Pipeline, PartsInv
    <2>2. QED
        BY <2>1, PipelineNextKeepsInv DEF PartsInv
<1>4. CASE UNCHANGED mcvars
    <2>1. /\ UNCHANGED <<part, tvars, status, dvars>> 
        BY <1>4 DEF mcvars
    <2>2. part = "receipts" => PartsInv'
        BY <2>1, NextInv DEF PartsInv, tvars, dvars, vars, lash, receipts
    <2>3. part = "timers" => PartsInv'
        <3>1. UNCHANGED TP!tvars /\ DeliveryRests' = DeliveryRests
            BY <2>1 DEF tvars, TP!tvars, dvars, DeliveryRests
        <3>2. QED
            BY <2>1, <3>1, TP!NextInv, TP!CountsStay DEF PartsInv
    <2>4. part = "pipeline" => PartsInv'
        <3>1. UNCHANGED PTP!tvars /\ UNCHANGED PDP!vars
            BY <2>1 DEF tvars, PTP!tvars, dvars, PDP!vars, PDP!lash, PDP!receipts
        <3>2. QED
            BY <2>1, <3>1, PTP!NextInv, PTP!CountsStay, PDP!NextInv DEF PartsInv, PipelineInv
    <2>5. QED
        BY <2>2, <2>3, <2>4 DEF PartsInv
<1>5. QED
    BY <1>1, <1>2, <1>3, <1>4 DEF MCNext

THEOREM PartsInductive == MCSpec => []PartsInv
BY MCInitInv, MCNextInv, PTL DEF MCSpec

-----------------------------------------------------------------------------
(* Theorems                                                                *)

\* Every part keeps its types: an occurrence is one of the timer's periods, and
\* what a pass of the bridge holds are rows of the table.
THEOREM PartsAreTyped == MCSpec => []TypesOK
<1>1. PartsInv => TypesOK
    BY SaneTimers, TimersAreTimers, PipelineTimersAreTimers, PipelineReceiptsAreReceipts,
       TP!InvImpliesTypes, PTP!InvImpliesTypes
       DEF PartsInv, PipelineInv, TypesOK, DeliveryInv, PDP!DeliveryInv
<1>2. QED
    BY PartsInductive, <1>1, PTL

\* No process before its time and no two for one period (timers.rs, the
\* idempotency keys), in the pipeline too, whose crashes stop the poll anywhere.
THEOREM PipelineFiresOnce == MCSpec => []FiresOncePerPeriod
<1>1. PartsInv => FiresOncePerPeriod
    BY SaneTimers, TimersAreTimers, PipelineTimersAreTimers,
       TP!InvImpliesOncePerPeriod, PTP!InvImpliesOncePerPeriod
       DEF PartsInv, PipelineInv, FiresOncePerPeriod
<1>2. QED
    BY PartsInductive, <1>1, PTL

\* Only what was delivered is retired (timers.rs:275-286).
THEOREM RetiredRanEverywhere == MCSpec => []RetiredHasRun
<1>1. PartsInv => RetiredHasRun
    BY TimersAreTimers, PipelineTimersAreTimers
       DEF PartsInv, PipelineInv, RetiredHasRun, TP!TimersInv, PTP!TimersInv, T!RetiredHasRun
<1>2. QED
    BY PartsInductive, <1>1, PTL

\* The receipts of the processes that timers start are told and accepted once
\* each and in order as well.
THEOREM PipelineDeliversInOrder == MCSpec => []ToldThenAcceptedInOrder
<1>1. PartsInv => ToldThenAcceptedInOrder
    <2>1. DeliveryRests => ToldThenAcceptedInOrder
        BY DEF DeliveryRests, ToldThenAcceptedInOrder, IsPrefix
    <2>2. PDP!ToldThenAcceptedInOrder => ToldThenAcceptedInOrder
        BY DEF PDP!ToldThenAcceptedInOrder, ToldThenAcceptedInOrder, PDP!IsPrefix, IsPrefix
    <2>3. QED
        BY <2>1, <2>2, InvImpliesOrder, PDP!InvImpliesOrder DEF PartsInv, PipelineInv
<1>2. QED
    BY PartsInductive, <1>1, PTL

\* With timers, receipts and crashes together, a reader still sees nothing but
\* the steps of DeliveryLedger.
THEOREM PipelineImplementsDeliveryLedger == MCSpec => LedgerSpec
<1>1. MCInit => Ledger!Init
    BY DEF MCInit, Init, DeliveryRests, P!Init, P!D!Init, Ledger!Init
<1>2. ASSUME PartsInv, [MCNext]_mcvars
      PROVE  [Ledger!Next]_<<staged, Len(chat), Len(turns)>>
    <2>1. CASE Receipts
        BY <1>2, <2>1, NextImplementsLedger DEF Receipts, PartsInv
    <2>2. CASE Timed \/ UNCHANGED mcvars
        BY <2>2 DEF Timed, mcvars, dvars
    <2>3. CASE Pipeline
        BY <1>2, <2>3, PipelineImplementsLedger DEF Pipeline, PartsInv
    <2>4. QED
        BY <1>2, <2>1, <2>2, <2>3 DEF MCNext
<1>3. QED
    BY PartsInductive, <1>1, <1>2, PTL DEF MCSpec, LedgerSpec, Ledger!Spec

=============================================================================
