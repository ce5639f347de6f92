-------------------------- MODULE ProcessDelivery --------------------------
(***************************************************************************)
(* How the events of a Thread's Lash processes become messages and turns   *)
(* of that Thread: the process bridge of one Native lane                   *)
(* (lash_runtime/process_bridge.rs) over the receipts of the table         *)
(* process_deliveries.                                                     *)
(*                                                                         *)
(* A pass of the bridge captures the wakes resident in Lash's queue, then  *)
(* the ends of processes, then works the pending receipts off in rowid     *)
(* order: message, turn, acknowledgement. Each of these is its own commit  *)
(* in one of two stores, so a pass may stop between any two of them: at a  *)
(* crash, at an archived Thread, at a store error. The next pass starts    *)
(* over. Lash (processes, its queue) is external; its durable state is     *)
(* modelled as far as the bridge can see it.                               *)
(***************************************************************************)
EXTENDS Naturals, Sequences, SequencesExt, FiniteSets

CONSTANTS
    Run,        \* executions of processes
    WakingRun,  \* the executions that wake their Thread once while they run
    FaultLimit  \* bound on crashes, failed passes and archivings together

WakeKey(r) == <<"process-wake", r>>
EndKey(r) == <<"process-terminal", r>>
Key == {WakeKey(r) : r \in WakingRun} \cup {EndKey(r) : r \in Run}

Live == {"running"}     \* ProcessStatus::Running and ::Waiting
Reported == {"completed", "failed", "cancelled"}
Statuses == {"absent", "abandoned"} \cup Live \cup Reported

VARIABLES
    status,     \* Lash: the process registry
    lashQueue,  \* Lash: wakes resident in the session's queued work
    woke,       \* Lash: runs that have emitted their wake
    drained,    \* wakes the turn pump took from the queue itself
    staged,     \* receipts, in rowid order
    chat,       \* process messages of the conversation, in order
    turns,      \* turns accepted for receipts, in order (the activity keys)
    settled,    \* those whose request has been consumed
    acked,      \* receipts with triage_dispatched = 1
    archived,   \* thread_archive: the Thread accepts no work
    bridge,     \* the pass of the bridge task: volatile
    faults      \* how many of those so far

receipts == <<staged, chat, turns, settled, acked>>
lash == <<status, lashQueue, woke, drained>>
vars == <<lash, receipts, archived, bridge, faults>>

NoKey == <<>>
Idle == [pc |-> "idle", todo |-> {}, pending |-> {}, key |-> NoKey]
Pcs == {"idle", "wakes", "unqueue", "ends", "deliver", "enqueue", "ack"}

TypeOK ==
    /\ status \in [Run -> Statuses]
    /\ lashQueue \subseteq WakingRun /\ woke \subseteq WakingRun
    /\ drained \subseteq WakingRun
    /\ staged \in Seq(Key) /\ chat \in Seq(Key) /\ turns \in Seq(Key)
    /\ settled \subseteq Key /\ acked \subseteq Key
    /\ archived \in BOOLEAN
    /\ bridge \in [pc : Pcs, todo : SUBSET Key, pending : SUBSET DOMAIN staged,
                   key : Key \cup {NoKey}]
    /\ faults \in 0 .. FaultLimit

Init ==
    /\ status = [r \in Run |-> "absent"]
    /\ lashQueue = {} /\ woke = {} /\ drained = {}
    /\ staged = <<>> /\ chat = <<>> /\ turns = <<>>
    /\ settled = {} /\ acked = {}
    /\ archived = FALSE
    /\ bridge = Idle
    /\ faults = 0

-----------------------------------------------------------------------------
(* Lash, as the bridge sees it (external).                                 *)

\* A turn starts a process, or a trigger occurrence does.
StartRun(r) ==
    /\ status[r] = "absent"
    /\ status' = [status EXCEPT ![r] = "running"]
    /\ UNCHANGED <<lashQueue, woke, drained, receipts, archived, bridge, faults>>

\* process_wake: a durable batch in the session's queue.
Wake(r) ==
    /\ r \in WakingRun \ woke /\ status[r] \in Live
    /\ woke' = woke \cup {r}
    /\ lashQueue' = lashQueue \cup {r}
    /\ UNCHANGED <<status, drained, receipts, archived, bridge, faults>>

EndRun(r, end) ==
    /\ status[r] \in Live
    /\ status' = [status EXCEPT ![r] = end]
    /\ UNCHANGED <<lashQueue, woke, drained, receipts, archived, bridge, faults>>

\* activate_background_turn: Lash's own notifier and every other notification
\* of the lane reach the turn pump too; it drains whatever is queued.
PumpDrains ==
    /\ lashQueue # {}
    /\ drained' = drained \cup lashQueue
    /\ lashQueue' = {}
    /\ UNCHANGED <<status, woke, receipts, archived, bridge, faults>>

-----------------------------------------------------------------------------
(* The Thread around the bridge.                                           *)

\* cancel_process: only an execution the snapshot shows running; Lash ends it.
CancelProcess(r) == EndRun(r, "cancelled")

\* The executor finishes the turn of a receipt: request row gone, key kept.
SettleTurn(k) ==
    /\ k \in ToSet(turns) \ settled
    /\ settled' = settled \cup {k}
    /\ UNCHANGED <<lash, staged, chat, turns, acked, archived, bridge, faults>>

SetArchived(a) ==
    /\ archived # a
    /\ a => faults < FaultLimit
    /\ archived' = a
    /\ faults' = IF a THEN faults + 1 ELSE faults
    /\ UNCHANGED <<lash, receipts, bridge>>

-----------------------------------------------------------------------------
(* The bridge task. todo (keys to stage) and pending (rowids) are what it  *)
(* read, and may be stale; key is the delivery at hand.                    *)

AtPc(pc) == bridge.pc = pc

BeginPass ==
    /\ AtPc("idle")
    /\ bridge' = [Idle EXCEPT !.pc = "wakes",
                              !.todo = {WakeKey(r) : r \in lashQueue}]
    /\ UNCHANGED <<lash, receipts, archived, faults>>

\* INSERT OR IGNORE: re-entry keeps the first payload.
StageKey(k) == staged' = IF k \in ToSet(staged) THEN staged ELSE Append(staged, k)

\* mutation: the wake leaves Lash's queue first
StageWakeLate(k) ==
    /\ AtPc("wakes") /\ k \in bridge.todo
    /\ lashQueue' = {r \in lashQueue : WakeKey(r) # k}
    /\ bridge' = [bridge EXCEPT !.pc = "unqueue", !.key = k]
    /\ UNCHANGED <<status, woke, drained, receipts, archived, faults>>

StageWake(k) ==
    /\ AtPc("wakes") /\ k \in bridge.todo
    /\ StageKey(k)
    /\ bridge' = [bridge EXCEPT !.pc = "unqueue", !.key = k]
    /\ UNCHANGED <<lash, chat, turns, settled, acked, archived, faults>>

\* cancel_queued_work_batch
Unqueue ==
    /\ AtPc("unqueue")
    /\ lashQueue' = {r \in lashQueue : WakeKey(r) # bridge.key}
    /\ bridge' = [bridge EXCEPT !.pc = "wakes", !.key = NoKey,
                                !.todo = @ \ {bridge.key}]
    /\ UNCHANGED <<status, woke, drained, receipts, archived, faults>>

\* capture_terminal_processes: every execution the snapshot shows ended, in
\* every pass. An abandoned one is not reported.
ReadEnds ==
    /\ AtPc("wakes") /\ bridge.todo = {}
    /\ bridge' = [bridge EXCEPT !.pc = "ends",
                     !.todo = {EndKey(r) : r \in {x \in Run : status[x] \in Reported}}]
    /\ UNCHANGED <<lash, receipts, archived, faults>>

StageEnd(k) ==
    /\ AtPc("ends") /\ k \in bridge.todo
    /\ StageKey(k)
    /\ bridge' = [bridge EXCEPT !.todo = @ \ {k}]
    /\ UNCHANGED <<lash, chat, turns, settled, acked, archived, faults>>

\* mutation: a receipt whose message exists needs nothing any more
PendingUntold == {i \in DOMAIN staged : staged[i] \notin ToSet(chat)}

\* WHERE message_id IS NULL OR triage_dispatched = 0
Pending == {i \in DOMAIN staged : staged[i] \notin ToSet(chat) \/ staged[i] \notin acked}

ReadPending ==
    /\ AtPc("ends") /\ bridge.todo = {}
    /\ bridge' = [Idle EXCEPT !.pc = "deliver", !.pending = Pending]
    /\ UNCHANGED <<lash, receipts, archived, faults>>

\* mutation: the latest receipt first
LastOf(i, S) == \A j \in S : j <= i

\* ORDER BY rowid
FirstOf(i, S) == \A j \in S : i <= j

\* mutation: message and message_id are two commits, the second of which is lost
HasTurn(k) == k \in ToSet(turns)

\* message_id of the receipt
HasMessage(k) == k \in ToSet(chat)

\* deliver_process_message: the conversation row and the receipt's message_id
\* in one transaction.
AppendMessage ==
    /\ AtPc("deliver")
    /\ \E i \in bridge.pending :
          /\ FirstOf(i, bridge.pending)
          /\ chat' = IF HasMessage(staged[i]) THEN chat ELSE Append(chat, staged[i])
          /\ bridge' = [bridge EXCEPT !.pc = "enqueue", !.key = staged[i],
                                      !.pending = @ \ {i}]
    /\ UNCHANGED <<lash, staged, turns, settled, acked, archived, faults>>

\* ensure_accepts_work comes before the activity key is looked up, and its
\* error ends the pass with `?`.
EnqueueRefused ==
    /\ AtPc("enqueue") /\ archived
    /\ bridge' = Idle
    /\ UNCHANGED <<lash, receipts, archived, faults>>

\* queue_background_thread_request: turn, request and activity key together;
\* the key outlives the request.
Enqueue ==
    /\ AtPc("enqueue") /\ ~archived
    /\ turns' = IF bridge.key \in ToSet(turns) THEN turns ELSE Append(turns, bridge.key)
    /\ bridge' = [bridge EXCEPT !.pc = "ack"]
    /\ UNCHANGED <<lash, staged, chat, settled, acked, archived, faults>>

\* mark_process_enqueued
Acknowledge ==
    /\ AtPc("ack")
    /\ acked' = acked \cup {bridge.key}
    /\ bridge' = [bridge EXCEPT !.pc = "deliver", !.key = NoKey]
    /\ UNCHANGED <<lash, staged, chat, turns, settled, archived, faults>>

\* The projection (ProcessView) ends the pass.
EndPass ==
    /\ AtPc("deliver") /\ bridge.pending = {}
    /\ bridge' = Idle
    /\ UNCHANGED <<lash, receipts, archived, faults>>

\* Any await of the pass fails: `?` ends it, and what is volatile is dropped.
PassFails ==
    /\ ~AtPc("idle") /\ faults < FaultLimit
    /\ faults' = faults + 1
    /\ bridge' = Idle
    /\ UNCHANGED <<lash, receipts, archived>>

\* The host dies. Lash may find executions abandoned when it reopens.
Crash ==
    /\ faults < FaultLimit
    /\ faults' = faults + 1
    /\ bridge' = Idle
    /\ \E gone \in SUBSET {r \in Run : status[r] \in Live} :
          status' = [r \in Run |-> IF r \in gone THEN "abandoned" ELSE status[r]]
    /\ UNCHANGED <<lashQueue, woke, drained, receipts, archived>>

Bridge ==
    \/ BeginPass \/ Unqueue \/ ReadEnds \/ ReadPending
    \/ \E k \in bridge.todo : StageWake(k) \/ StageEnd(k)
    \/ AppendMessage \/ EnqueueRefused \/ Enqueue \/ Acknowledge \/ EndPass

\* What this module adds to a Thread whose processes something else starts.
Deliver ==
    \/ Bridge \/ PassFails \/ Crash
    \/ PumpDrains
    \/ \E r \in Run : Wake(r) \/ CancelProcess(r)
                      \/ \E end \in {"completed", "failed"} : EndRun(r, end)
    \/ \E k \in Key : SettleTurn(k)
    \/ \E a \in BOOLEAN : SetArchived(a)

Next == Deliver \/ \E r \in Run : StartRun(r)

\* The bridge is polled every 100 ms, whatever happened to its last pass.
Spec == Init /\ [][Next]_vars /\ WF_vars(Bridge)

-----------------------------------------------------------------------------
(* Properties.                                                             *)

\* A wake Lash has emitted is resident in its queue, was taken by the pump, or
\* has its receipt, across every crash and failed pass: it is staged before it
\* is removed (process_bridge.rs:118-137, "Stage before consuming").
WakeIsHeld ==
    \A r \in woke : r \in lashQueue \cup drained \/ WakeKey(r) \in ToSet(staged)

\* Messages and turns appear once per receipt and in the order the receipts
\* were staged, although passes are abandoned half way and receipts retried:
\* process_deliveries.rs:113-172 and the activity key of
\* queue_background_thread_request, which outlives the request.
ToldThenAcceptedInOrder ==
    /\ IsPrefix(chat, staged)
    /\ IsPrefix(turns, chat)

\* The receipts implement the ledger: ADR 0021, "appends exactly one structured
\* conversation message, then accepts a normal turn".
Ledger == INSTANCE DeliveryLedger WITH
    inbox <- staged, told <- Len(chat), accepted <- Len(turns)
LedgerSpec == Ledger!Spec

=============================================================================
