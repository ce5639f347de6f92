---------------------------- MODULE TimelineBarrier ----------------------------
(***************************************************************************)
(* The timeline of Native turns (bridges.rs, timeline.rs, turn_ingest.rs,  *)
(* tools.rs fail_turn_timeline, lifecycle.rs spawn_turn_pump). Lash runs   *)
(* one drain after another and publishes what it does on an observation    *)
(* stream; the bridge task stores the events of the stream; the pump ends  *)
(* a turn as completed only when the bridge has seen its Committed event.  *)
(* Turn d is the turn of drain d. Abstracted: text batches are sets of     *)
(* event numbers; Lash's replay window is the unread part of the stream.   *)
(***************************************************************************)
EXTENDS Naturals, Sequences, FiniteSets

CONSTANTS
    Drains,      \* drains the lane runs
    EventLimit,  \* bound on the events of one drain
    FaultLimit   \* bound on failed timeline and completion writes

Drain == 1 .. Drains
Event == Drain \X (1 .. EventLimit)

VARIABLES
    stream,     \* unread observation items
    ingest,     \* TurnIngest: its route (0: none) and its pending text
    barrier,    \* TimelineCommitState: last committed drain, failed drains
    lane,       \* the pump: its drain (0 before the first) and where it is
    turn,       \* thread_turns.state
    integrity,  \* timeline_integrity_failures
    emitted,    \* events Lash produced
    stored,     \* thread_turn_events
    dropped,    \* events refused by a failed reroute (history variable)
    faults

vars == <<stream, ingest, barrier, lane, turn, integrity, emitted, stored,
          dropped, faults>>

Item == [kind : {"text", "item", "committed", "gap"}, of : {0} \cup Drain,
         ev : SUBSET Event]

TypeOK ==
    /\ \A i \in DOMAIN stream : stream[i] \in Item
    /\ ingest \in [route : {0} \cup Drain, pending : SUBSET Event]
    /\ barrier \in [committed : {0} \cup Drain, failures : SUBSET Drain]
    /\ lane \in [drain : {0} \cup Drain, owned : BOOLEAN,
                 at : {"idle", "running", "waiting", "settling", "halted"}]
    /\ turn \in [Drain -> {"queued", "running", "completed", "failed"}]
    /\ integrity \subseteq Drain
    /\ stored \subseteq emitted /\ dropped \subseteq emitted /\ emitted \subseteq Event
    /\ faults \in 0 .. FaultLimit

Init ==
    /\ stream = <<>> /\ ingest = [route |-> 0, pending |-> {}]
    /\ barrier = [committed |-> 0, failures |-> {}]
    /\ lane = [drain |-> 0, owned |-> FALSE, at |-> "idle"]
    /\ turn = [d \in Drain |-> "queued"] /\ integrity = {}
    /\ emitted = {} /\ stored = {} /\ dropped = {} /\ faults = 0

-----------------------------------------------------------------------------
(* Completion                                                              *)

\* complete_thread_turn_with_failure: the first terminal state stays.
Ended(t, d, state) == [t EXCEPT ![d] = IF @ = "running" THEN state ELSE @]

\* fail_turn_timeline_integrity: the turn fails now, or the failure is kept
\* for its completion, because it cannot be stored or comes too late.
FailTurn(d) ==
    \/ /\ turn' = Ended(turn, d, "failed")
       /\ integrity' = IF turn'[d] = "failed" THEN integrity \ {d}
                       ELSE integrity \cup {d}
    \/ integrity' = integrity \cup {d} /\ UNCHANGED turn

Fault == faults < FaultLimit /\ faults' = faults + 1

-----------------------------------------------------------------------------
(* Lash                                                                    *)

\* The pump starts the next drain, whose id names its turn.
RunDrain ==
    /\ lane.at = "idle" /\ lane.drain < Drains
    /\ lane' = [drain |-> lane.drain + 1, owned |-> TRUE, at |-> "running"]
    /\ turn' = [turn EXCEPT ![lane.drain + 1] = "running"]
    /\ UNCHANGED <<stream, ingest, barrier, integrity, emitted, stored, dropped, faults>>

Emit ==
    /\ lane.at = "running"
    /\ LET n == Cardinality({e \in emitted : e[1] = lane.drain})
           e == <<lane.drain, n + 1>>
       IN  /\ n < EventLimit /\ emitted' = emitted \cup {e}
           /\ \E k \in {"text", "item"} :
                stream' = Append(stream, [kind |-> k, of |-> lane.drain, ev |-> {e}])
    /\ UNCHANGED <<ingest, barrier, lane, turn, integrity, stored, dropped, faults>>

\* The drain ends with an output, or with an error and without a commit.
DrainRan ==
    /\ lane.at = "running" /\ lane' = [lane EXCEPT !.at = "waiting"]
    /\ stream' = Append(stream, [kind |-> "committed", of |-> lane.drain, ev |-> {}])
    /\ UNCHANGED <<ingest, barrier, turn, integrity, emitted, stored, dropped, faults>>

DrainFails ==
    /\ lane.at = "running" /\ lane' = [lane EXCEPT !.at = "settling"]
    /\ UNCHANGED <<stream, ingest, barrier, turn, integrity, emitted, stored, dropped, faults>>

\* The bridge fell behind the replay window: the unread items are gone.
FallBehind ==
    /\ stream # <<>> /\ Head(stream).kind # "gap"
    /\ stream' = <<[kind |-> "gap", of |-> 0, ev |-> {}]>>
    /\ UNCHANGED <<ingest, barrier, lane, turn, integrity, emitted, stored, dropped, faults>>

-----------------------------------------------------------------------------
(* The bridge                                                              *)

Stores(events) == /\ stored' = stored \cup events
                  /\ UNCHANGED <<turn, integrity, faults>>

\* A failed write fails the turn the ingest is routed to.
WriteFails(d) == Fault /\ FailTurn(d) /\ UNCHANGED stored

\* mutation: a failed write is only logged
WriteFailsSilently(d) == Fault /\ UNCHANGED <<stored, turn, integrity>>

\* An item of another drain flushes the text of the last one first. When that
\* fails the item is refused: only the routed turn fails.
RerouteFails ==
    /\ stream # <<>> /\ Head(stream).of \notin {0, ingest.route}
    /\ ingest.pending # {} /\ WriteFails(ingest.route)
    /\ ingest' = [ingest EXCEPT !.pending = {}]
    /\ stream' = Tail(stream) /\ dropped' = dropped \cup Head(stream).ev
    /\ UNCHANGED <<barrier, lane, emitted>>

\* The ingest's pending text after the reroute the item asks for.
Rerouted(d) == IF d = ingest.route THEN {} ELSE ingest.pending
Kept(d) == IF d = ingest.route THEN ingest.pending ELSE {}

\* Text is batched: it may also flush what was pending, of another block.
TakeText ==
    /\ stream # <<>> /\ Head(stream).kind = "text" /\ stream' = Tail(stream)
    /\ LET d == Head(stream).of IN
       \E flushed \in {{}, Kept(d)} :
         /\ ingest' = [route |-> d, pending |-> (Kept(d) \ flushed) \cup Head(stream).ev]
         /\ Stores(Rerouted(d) \cup flushed)
    /\ UNCHANGED <<barrier, lane, emitted, dropped>>

\* Any other event is stored after the text before it.
TakeItem ==
    /\ stream # <<>> /\ Head(stream).kind = "item" /\ stream' = Tail(stream)
    /\ ingest' = [route |-> Head(stream).of, pending |-> {}]
    /\ Stores(ingest.pending \cup Head(stream).ev)
    /\ UNCHANGED <<barrier, lane, emitted, dropped>>

TakeItemFails ==
    /\ stream # <<>> /\ Head(stream).kind = "item" /\ stream' = Tail(stream)
    /\ Head(stream).of = ingest.route \/ ingest.pending = {}
    /\ ingest' = [route |-> Head(stream).of, pending |-> {}]
    /\ WriteFails(Head(stream).of)
    /\ UNCHANGED <<barrier, lane, emitted, dropped>>

\* Committed: flush, then tell the pump, also when the flush failed.
TakeCommitted ==
    /\ stream # <<>> /\ Head(stream).kind = "committed" /\ stream' = Tail(stream)
    /\ LET d == Head(stream).of IN
       /\ ingest' = [route |-> d, pending |-> {}]
       /\ barrier' = [barrier EXCEPT !.committed = d]
       /\ \/ Stores(ingest.pending)
          \/ d = ingest.route /\ ingest.pending # {} /\ WriteFails(d)
    /\ UNCHANGED <<lane, emitted, dropped>>

\* mutation: a gap is logged like an error of the stream
GapOfNobody == {}
GapOf == IF lane.owned THEN {lane.drain} ELSE {}

\* A gap, after a flush, fails the turn that owns the lane.
TakeGap ==
    /\ stream # <<>> /\ Head(stream).kind = "gap" /\ stream' = Tail(stream)
    /\ ingest.pending = {}
    /\ barrier' = [barrier EXCEPT !.failures = @ \cup GapOf]
    /\ \/ GapOf = {} /\ UNCHANGED <<turn, integrity>>
       \/ \E d \in GapOf : FailTurn(d)
    /\ UNCHANGED <<ingest, lane, emitted, stored, dropped, faults>>

\* After 80 ms without an item, and when the stream ends and is resumed.
Flush ==
    /\ ingest.pending # {}
    /\ ingest' = [ingest EXCEPT !.pending = {}]
    /\ Stores(ingest.pending) \/ WriteFails(ingest.route)
    /\ UNCHANGED <<stream, barrier, lane, emitted, dropped>>

Bridge == RerouteFails \/ TakeText \/ TakeItem \/ TakeItemFails
          \/ TakeCommitted \/ TakeGap \/ Flush

-----------------------------------------------------------------------------
(* The pump                                                                *)

\* clear_active_turn_id
Cleared == [committed |-> IF barrier.committed = lane.drain THEN 0 ELSE barrier.committed,
            failures |-> barrier.failures \ {lane.drain}]

\* mutation: the wait is over with the first commit or the time-out
AnyCommit == TRUE
Committed == barrier.committed = lane.drain /\ lane.drain \notin barrier.failures

\* The turn ends as Lash says, or failed when its timeline is known broken.
Complete ==
    /\ lane.at = "waiting" /\ Committed
    /\ \E state \in {"completed", "failed"} :
         /\ lane.drain \in integrity => state = "failed"
         /\ turn' = Ended(turn, lane.drain, state)
         /\ lane.drain \in integrity => turn'[lane.drain] = "failed"
    /\ integrity' = integrity \ {lane.drain}
    /\ lane' = [lane EXCEPT !.at = "idle", !.owned = FALSE] /\ barrier' = Cleared
    /\ UNCHANGED <<stream, ingest, emitted, stored, dropped, faults>>

\* Time-out, or a failed drain: the turn's timeline is broken.
WaitFails ==
    /\ lane.at = "waiting" /\ FailTurn(lane.drain)
    /\ lane' = [lane EXCEPT !.at = "settling"]
    /\ UNCHANGED <<stream, ingest, barrier, emitted, stored, dropped, faults>>

CompleteFails ==
    /\ lane.at = "waiting" /\ Committed /\ Fault
    /\ lane' = [lane EXCEPT !.at = "settling"]
    /\ UNCHANGED <<stream, ingest, barrier, turn, integrity, emitted, stored, dropped>>

\* The second attempt ends the turn without an output, or stops the pump.
Settle ==
    /\ lane.at = "settling" /\ barrier' = Cleared
    /\ \/ /\ turn' = Ended(turn, lane.drain, "failed")
          /\ integrity' = integrity \ {lane.drain}
          /\ lane' = [lane EXCEPT !.at = "idle", !.owned = FALSE]
          /\ UNCHANGED faults
       \/ /\ Fault /\ lane' = [lane EXCEPT !.at = "halted", !.owned = FALSE]
          /\ UNCHANGED <<turn, integrity>>
    /\ UNCHANGED <<stream, ingest, emitted, stored, dropped>>

Pump == Complete \/ WaitFails \/ CompleteFails \/ Settle

Next == RunDrain \/ Emit \/ DrainRan \/ DrainFails \/ FallBehind \/ Bridge \/ Pump

Spec == Init /\ [][Next]_vars /\ WF_vars(Bridge) /\ WF_vars(Pump)

-----------------------------------------------------------------------------
(* Properties                                                              *)

\* A completed turn shows all its drain did, except for an event whose
\* reroute could not store the text before it (bridges.rs:84-87): the
\* promise of TimelineCommitBarrier, timeline.rs:15, where the code keeps it.
CompletedIsWhole ==
    \A d \in Drain : turn[d] = "completed" =>
        \A e \in emitted \ dropped : e[1] = d => e \in stored

\* "Success cannot overtake the durable Lash observation stream", timeline.rs:15.
\* Refuted: by the event named above.
SuccessIsDurable ==
    \A d \in Drain : turn[d] = "completed" =>
        \A e \in emitted : e[1] = d => e \in stored

\* The pump never waits for ever for a commit that was lost (timeline.rs:46-60).
Waiting == lane.at = "waiting"
WaitEnds == Waiting ~> ~Waiting

-----------------------------------------------------------------------------
(* The inductive invariant                                                 *)

\* The turn of the pump's drain can still end as completed.
Sound(d) == /\ lane.drain = d /\ lane.at \in {"running", "waiting"}
            /\ turn[d] = "running" /\ d \notin integrity \cup barrier.failures

\* Each drain's commit is the last of its items, and comes after its run.
CommitIsLast ==
    \A i \in DOMAIN stream :
        /\ stream[i].of <= lane.drain
        /\ stream[i].kind = "gap" <=> stream[i].of = 0
        /\ stream[i].kind = "gap" => i = 1
        /\ \A e \in stream[i].ev : e[1] = stream[i].of
        /\ stream[i].kind = "committed" =>
             /\ stream[i].ev = {}
             /\ stream[i].of = lane.drain => lane.at # "running"
             /\ \A j \in DOMAIN stream : j > i => stream[j].of # stream[i].of

\* The bridge has told of the drain only what it read to the end.
CommitIsRead ==
    /\ barrier.committed <= lane.drain
    /\ barrier.committed # 0 /\ barrier.committed = lane.drain =>
         /\ lane.at # "running"
         /\ \A i \in DOMAIN stream : stream[i].of # lane.drain

LaneOwns ==
    /\ lane.owned <=> lane.at \in {"running", "waiting", "settling"}
    /\ lane.drain = 0 => lane.at = "idle"
    /\ lane.at # "idle" => turn[lane.drain] # "completed"
    /\ \A d \in Drain : d > lane.drain => turn[d] = "queued"
    /\ \A e \in emitted : e[1] <= lane.drain
    /\ \A i \in DOMAIN stream : stream[i].ev \subseteq emitted
    /\ \A e \in ingest.pending : e[1] = ingest.route
    /\ ingest.route <= lane.drain

InStream(e) == \E i \in DOMAIN stream : e \in stream[i].ev
Gap == \E i \in DOMAIN stream : stream[i].kind = "gap"

\* While a turn can end as completed, each event of its drain is stored or on
\* its way, unless a gap is on its way; once it is committed, it is stored.
OnItsWay ==
    \A d \in Drain : Sound(d) =>
        \A e \in emitted \ dropped : e[1] = d =>
            \/ e \in stored
            \/ barrier.committed # d /\ (e \in ingest.pending \/ InStream(e) \/ Gap)

LineInv == TypeOK /\ stream \in Seq(Item) /\ ingest.pending \subseteq emitted
           /\ CommitIsLast /\ CommitIsRead /\ LaneOwns /\ OnItsWay /\ CompletedIsWhole

=============================================================================
