-------------------------- MODULE ProcessPipeline --------------------------
(***************************************************************************)
(* A Thread whose processes are started by its timers: Timers and          *)
(* ProcessDelivery over one process registry (`status`), on one host. Both *)
(* tasks belong to the same lane, so one crash stops both.                 *)
(***************************************************************************)
EXTENDS Naturals, Sequences

CONSTANTS Sub, Recurring, Interval, LastInstant, FailLimit, EditLimit,
          Waking, FaultLimit

VARIABLES now, sub, reserved, retired, poll, failed, died,
          status, lashQueue, woke, drained, staged, chat, turns, settled,
          acked, archived, bridge, faults

Execution == Sub \X (1 .. LastInstant)

T == INSTANCE Timers WITH CrashLimit <- 0
D == INSTANCE ProcessDelivery WITH Run <- Execution, WakingRun <- Waking

tvars == <<now, sub, reserved, retired, poll, failed, died>>
dvars == <<lashQueue, woke, drained, staged, chat, turns, settled, acked,
           archived, bridge, faults>>
vars == <<tvars, status, dvars>>

Init == T!Init /\ D!Init

\* The poll and the bridge are tasks of the lane that died.
Crash ==
    /\ D!Crash
    /\ poll' = T!Resting
    /\ UNCHANGED <<now, sub, reserved, retired, failed, died>>

Timed == T!Fire /\ UNCHANGED dvars

Delivered ==
    /\ \/ D!Bridge \/ D!PassFails \/ D!PumpDrains
       \/ \E r \in Execution : D!Wake(r) \/ D!CancelProcess(r)
                           \/ \E end \in {"completed", "failed"} : D!EndRun(r, end)
       \/ \E k \in D!Key : D!SettleTurn(k)
       \/ \E a \in BOOLEAN : D!SetArchived(a)
    /\ UNCHANGED tvars

Next == Timed \/ Delivered \/ Crash

\* Both loops tick for ever; time passes; Lash ends what it runs.
Fairness ==
    /\ WF_vars(T!Poll /\ UNCHANGED dvars)
    /\ WF_vars(D!Bridge /\ UNCHANGED tvars)
    /\ WF_vars(T!Tick /\ UNCHANGED dvars)

Spec == Init /\ [][Next]_vars /\ Fairness

-----------------------------------------------------------------------------
DueOneShot(s) ==
    sub[s].state = "enabled" /\ now - sub[s].created >= Interval[s]

\* What can keep a due one-shot without its turn: its process still runs, or
\* Lash found it abandoned; the Thread is archived.
AnsweredOrExcused(s) ==
    \/ D!EndKey(<<s, 1>>) \in acked
    \/ status[<<s, 1>>] \in {"running", "abandoned"}
    \/ archived

\* A one-shot that comes due while it is enabled is answered with a turn: it is
\* not lost between the poll, the emission, a crash and the receipts.
DueIsAnswered ==
    \A s \in Sub \ Recurring : DueOneShot(s) ~> AnsweredOrExcused(s)

=============================================================================
