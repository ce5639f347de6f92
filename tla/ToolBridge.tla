------------------------------ MODULE ToolBridge ------------------------------
(***************************************************************************)
(* The tool calls of one CLI turn and its timeline (thread_tool_bridge.rs, *)
(* telemetry.rs, cli_turn.rs execute, turn_ingest.rs, thread_events.rs,    *)
(* client-core store.rs stream): the agent's stdio bridge, which sends a   *)
(* call again when its answer is lost and may be restarted; the handlers   *)
(* of its connections in the host; the driver's own events, which the      *)
(* turn's task publishes; the end of the turn, which aborts the handlers   *)
(* at any of their awaits; and the live view of a client.                  *)
(***************************************************************************)
EXTENDS Naturals, Sequences, FiniteSets, SequencesExt

CONSTANTS
    Call,       \* tool calls the agent makes
    ConnLimit,  \* bound on connections to the bridge
    TextLimit,  \* bound on the driver's own timeline events
    FaultLimit  \* bound on failed timeline writes

Bridge == {1, 2}         \* bound: the agent restarts its stdio bridge once
Key == Bridge \X Call    \* (bridge_instance, invocation_id)
Terminal == {"completed", "cancelled", "failed"}

VARIABLES
    turn,       \* thread_turns.state; its end revokes the binding
    cancelReq,  \* cancel_requested_at
    revoked,    \* thread_execution_bindings.revoked
    integrity,  \* timeline_integrity_failures has the turn
    phase,      \* of the bridge: "open", "closing", "closed"
    stdio,      \* the agent's side: bridge instance, call, attempts; 0: idle
    conns,      \* the host's connections: key and where its handler is
    invoker,    \* first_invoker
    lock,       \* connections whose handler holds the receipts
    receipts,   \* keys with a stored result
    pending,    \* ToolTelemetry.pending
    table,      \* thread_turn_events, in seq order
    unsent,     \* driver events stored and not broadcast yet
    live,       \* seqs a connected client shows, the last one first seen
    effects,    \* per call, how often it took effect (history variable)
    answered,   \* keys whose tool returned (history variable)
    lost        \* timeline writes that failed (history variable)

agent == <<stdio>>
calls == <<conns, invoker, lock, receipts, pending>>
timeline == <<table, unsent, live>>
turns == <<turn, cancelReq, revoked, integrity>>
ghosts == <<effects, answered, lost>>
vars == <<turns, phase, agent, calls, timeline, ghosts>>

Where == {"asked", "queued", "started", "ran", "settling", "done", "gone"}

TypeOK ==
    /\ turn \in {"running"} \cup Terminal
    /\ {cancelReq, revoked, integrity} \subseteq BOOLEAN
    /\ phase \in {"open", "closing", "closed"}
    /\ stdio.inst \in Bridge /\ stdio.tries \in 0 .. 2
    /\ \A i \in DOMAIN conns : conns[i].key \in Key /\ conns[i].at \in Where
    /\ invoker \subseteq Bridge /\ Cardinality(invoker) <= 1
    /\ lock \subseteq DOMAIN conns /\ Cardinality(lock) <= 1
    /\ receipts \subseteq Key /\ pending \subseteq Key /\ answered \subseteq Key
    /\ unsent \subseteq DOMAIN table /\ live.shown \subseteq DOMAIN table
    /\ live.last \in {0} \cup DOMAIN table /\ lost \in 0 .. FaultLimit

Init ==
    /\ turn = "running" /\ cancelReq = FALSE /\ revoked = FALSE
    /\ integrity = FALSE /\ phase = "open"
    /\ stdio = [inst |-> 1, tries |-> 0, of |-> 0]
    /\ conns = <<>> /\ invoker = {} /\ lock = {} /\ receipts = {} /\ pending = {}
    /\ table = <<>> /\ unsent = {} /\ live = [shown |-> {}, last |-> 0]
    /\ effects = [c \in Call |-> 0] /\ answered = {} /\ lost = 0

-----------------------------------------------------------------------------
(* Timeline                                                                *)

\* apply_delta: an event older than the last one shown is dropped.
Shown(l, seq) ==
    IF seq > l.last THEN [shown |-> l.shown \cup {seq}, last |-> seq] ELSE l

\* A guarded event is stored and broadcast under the storage guard.
Publish(e) ==
    /\ table' = Append(table, e)
    /\ live' = Shown(live, Len(table) + 1)
    /\ UNCHANGED unsent

\* mutation: the failure is not remembered when the turn cannot be failed
FailForgets == /\ turn' \in {turn, "failed"}
               /\ UNCHANGED integrity

\* fail_turn_timeline_integrity: the turn fails at once, or at its completion
\* when even that cannot be stored.
FailTurn ==
    \/ turn' = "failed" /\ UNCHANGED integrity
    \/ integrity' = TRUE /\ UNCHANGED turn

WriteFails ==
    /\ lost < FaultLimit /\ lost' = lost + 1
    /\ turn = "running" /\ FailTurn
    /\ UNCHANGED timeline

\* A driver event is stored under the guard and broadcast after it.
Say ==
    /\ phase = "open" /\ unsent = {}
    /\ \/ /\ Len(SelectSeq(table, LAMBDA e : e[1] = "text")) < TextLimit
          /\ table' = Append(table, <<"text", 0>>)
          /\ unsent' = {Len(table')}
          /\ UNCHANGED <<live, turns, lost, phase>>
       \* the task ends with the error
       \/ WriteFails /\ phase' = "closing" /\ UNCHANGED <<cancelReq, revoked>>
    /\ UNCHANGED <<agent, calls, effects, answered>>

Expose ==
    /\ \E seq \in unsent : live' = Shown(live, seq)
    /\ unsent' = {}
    /\ UNCHANGED <<turns, phase, agent, calls, table, ghosts>>

-----------------------------------------------------------------------------
(* The agent's stdio bridge: one call at a time, two attempts each.        *)

Connect(tries, c) ==
    /\ Len(conns) < ConnLimit
    /\ stdio' = [stdio EXCEPT !.tries = tries, !.of = Len(conns) + 1]
    /\ conns' = Append(conns, [key |-> <<stdio.inst, c>>, at |-> "asked"])
    /\ UNCHANGED <<turns, phase, invoker, lock, receipts, pending, timeline, ghosts>>

Invoke(c) == phase = "open" /\ stdio.tries = 0 /\ Connect(1, c)

\* The answer is late or lost: the same invocation again.
InvokeAgain ==
    phase = "open" /\ stdio.tries = 1 /\ Connect(2, conns[stdio.of].key[2])

\* The agent restarts a bridge that stopped, or that it stopped.
RestartStdio ==
    /\ stdio.inst = 1
    /\ stdio' = [inst |-> 2, tries |-> 0, of |-> 0]
    /\ UNCHANGED <<turns, phase, calls, timeline, ghosts>>

Answered ==
    /\ stdio.tries > 0 /\ conns[stdio.of].at = "done"
    /\ stdio' = [stdio EXCEPT !.tries = 0]
    /\ UNCHANGED <<turns, phase, calls, timeline, ghosts>>

-----------------------------------------------------------------------------
(* The handler of a connection, cut at its awaits.                         *)

\* validate_caller
Authority == turn = "running" /\ ~cancelReq /\ ~revoked

At(i, place) == i \in DOMAIN conns /\ conns[i].at = place
Goes(i, place) == conns' = [conns EXCEPT ![i].at = place]
KeyOf(i) == conns[i].key
Free == lock = {}

\* mutation: any bridge instance may call
OtherInvokerNone(i) == FALSE

OtherInvoker(i) == invoker \notin {{}, {KeyOf(i)[1]}}

\* A second bridge instance ends the execution: what the first one's last call
\* did is unknown to it.
Admit(i) ==
    /\ At(i, "asked")
    /\ \/ ~Authority /\ Goes(i, "gone") /\ UNCHANGED <<invoker, revoked>>
       \/ /\ Authority /\ OtherInvoker(i)
          /\ revoked' = TRUE /\ Goes(i, "gone") /\ UNCHANGED invoker
       \/ /\ Authority /\ ~OtherInvoker(i)
          /\ invoker' = {KeyOf(i)[1]} /\ Goes(i, "queued") /\ UNCHANGED revoked
    /\ UNCHANGED <<turn, cancelReq, integrity, phase, agent, lock, receipts,
                   pending, timeline, ghosts>>

\* mutation: the receipt is not looked up
KnownNever(i) == FALSE

Known(i) == KeyOf(i) \in receipts

Replay(i) ==
    /\ At(i, "queued") /\ Free /\ Known(i)
    /\ Goes(i, IF Authority THEN "done" ELSE "gone")
    /\ UNCHANGED <<turns, phase, agent, invoker, lock, receipts, pending,
                   timeline, ghosts>>

\* start_tool: under the guard, published and registered before anything else.
Start(i) ==
    /\ At(i, "queued") /\ Free /\ ~Known(i)
    /\ \/ /\ Authority
          /\ Publish(<<"start", KeyOf(i)>>) /\ pending' = pending \cup {KeyOf(i)}
          /\ Goes(i, "started") /\ lock' = {i}
          /\ UNCHANGED <<turn, integrity, lost>>
       \/ /\ Authority /\ WriteFails
          /\ Goes(i, "gone") /\ UNCHANGED <<pending, lock>>
       \/ /\ ~Authority
          /\ Goes(i, "gone")
          /\ UNCHANGED <<pending, lock, timeline, turn, integrity, lost>>
    /\ UNCHANGED <<cancelReq, revoked, phase, agent, invoker, receipts, effects,
                   answered>>

\* facade.execute: a tool checks the authority itself.
Execute(i) ==
    /\ At(i, "started")
    /\ Goes(i, "ran")
    /\ effects' = [effects EXCEPT ![KeyOf(i)[2]] = @ + (IF Authority THEN 1 ELSE 0)]
    /\ UNCHANGED <<turns, phase, agent, invoker, lock, receipts, pending, timeline,
                   answered, lost>>

\* mutation: a returned call stays registered until its result is published
StillPendingKept(i) == pending

StillPending(i) == pending \ {KeyOf(i)}

\* finish_tool, up to the wait for the storage.
Settle(i) ==
    /\ At(i, "ran")
    /\ pending' = StillPending(i)
    /\ answered' = answered \cup {KeyOf(i)}
    /\ Goes(i, "settling")
    /\ UNCHANGED <<turns, phase, agent, invoker, lock, receipts, timeline, effects,
                   lost>>

\* The result is published, whatever became of the authority, and the receipt
\* is stored.
Done(i) ==
    /\ At(i, "settling")
    /\ \/ Publish(<<"done", KeyOf(i)>>) /\ UNCHANGED <<turn, integrity, lost>>
       \/ WriteFails
    /\ pending' = pending \ {KeyOf(i)}
    /\ receipts' = receipts \cup {KeyOf(i)} /\ lock' = {}
    /\ Goes(i, "done")
    /\ UNCHANGED <<cancelReq, revoked, phase, agent, invoker, effects, answered>>

-----------------------------------------------------------------------------
(* The end of the turn                                                     *)

\* threads.cancel, or the Owner's Stop.
Stop ==
    /\ turn = "running" /\ ~cancelReq
    /\ cancelReq' = TRUE
    /\ UNCHANGED <<turn, revoked, integrity, phase, agent, calls, timeline, ghosts>>

\* The driver ends, is interrupted, or its bridge is invalidated.
Finish ==
    /\ phase = "open" /\ unsent = {}
    /\ phase' = "closing"
    /\ UNCHANGED <<turns, agent, calls, timeline, ghosts>>

AllGone == \A i \in DOMAIN conns : conns[i].at \in {"done", "gone"}

\* abort_all: each handler goes at the await it has reached. (All of them at
\* once: the host marks them in one pass.)
Abort ==
    /\ phase = "closing" /\ ~AllGone
    /\ conns' = [i \in DOMAIN conns |->
                   [conns[i] EXCEPT !.at = IF @ = "done" THEN @ ELSE "gone"]]
    /\ lock' = {}
    /\ UNCHANGED <<turns, phase, agent, invoker, receipts, pending, timeline, ghosts>>

\* finish_pending
Interrupted(k) ==
    /\ phase = "closing" /\ AllGone /\ k \in pending
    /\ pending' = pending \ {k}
    /\ \/ Publish(<<"interrupted", k>>) /\ UNCHANGED <<turn, integrity, lost>>
       \/ WriteFails
    /\ UNCHANGED <<cancelReq, revoked, phase, agent, conns, invoker, lock, receipts,
                   effects, answered>>

Closed ==
    /\ phase = "closing" /\ AllGone /\ pending = {}
    /\ phase' = "closed" /\ revoked' = TRUE
    /\ UNCHANGED <<turn, cancelReq, integrity, agent, calls, timeline, ghosts>>

\* complete_after_commit, retried until it is stored.
Complete ==
    /\ phase = "closed" /\ turn = "running"
    /\ turn' \in (IF integrity THEN {"failed"} ELSE Terminal)
    /\ integrity' = FALSE
    /\ UNCHANGED <<cancelReq, revoked, phase, agent, calls, timeline, ghosts>>

Conn == 1 .. ConnLimit

Handler(i) == Admit(i) \/ Replay(i) \/ Start(i) \/ Execute(i) \/ Settle(i) \/ Done(i)

Agent == InvokeAgain \/ RestartStdio \/ Answered \/ \E c \in Call : Invoke(c)

End == Stop \/ Finish \/ Abort \/ Closed \/ Complete
       \/ \E k \in Key : Interrupted(k)

Next == Say \/ Expose \/ Agent \/ End \/ \E i \in Conn : Handler(i)

Spec == Init /\ [][Next]_vars

-----------------------------------------------------------------------------
(* Properties                                                              *)

\* A call takes effect once, though its answer may be lost, it may be sent again
\* while its first copy runs, or the bridge be restarted (thread_tool_bridge.rs
\* "A lost IPC reply retries the same host invocation, never a new tool effect").
EffectOnce == \A c \in Call : effects[c] <= 1

Ends(k) == {n \in DOMAIN table : table[n] \in {<<"done", k>>, <<"interrupted", k>>}}
Starts(k) == {n \in DOMAIN table : table[n] = <<"start", k>>}

\* A call has one start and at most one end after it, and what returned is never
\* reported as interrupted (telemetry.rs "would later fabricate an interrupted
\* replacement for a result we actually received").
OneHonestEnd ==
    \A k \in Key :
        /\ Cardinality(Starts(k)) <= 1 /\ Cardinality(Ends(k)) <= 1
        /\ \A e \in Ends(k) : \E s \in Starts(k) : s < e
        /\ k \in answered => \A e \in Ends(k) : table[e][1] = "done"

\* A turn whose timeline lost an event does not end as completed.
LostEventFailsTurn == lost > 0 => turn \notin {"completed", "cancelled"}

\* When the turn ends, every published start has its end, unless a write failed
\* (thread_tool_bridge.rs:50-51). Refuted: a handler aborted between taking its
\* call from the registry and publishing the result.
EveryStartEnds ==
    turn \in Terminal /\ phase = "closed" /\ lost = 0 =>
        \A k \in Key : Starts(k) # {} => Ends(k) # {}

\* What was broadcast is shown (tools.rs:139-141 "independent producers cannot
\* collide or reorder the durable and live views"). Refuted: a tool event
\* overtakes a driver event between its storing and its broadcast.
LiveIsDurable == DOMAIN table \ unsent \subseteq live.shown

-----------------------------------------------------------------------------
(* The inductive invariant                                                 *)

Event == {<<"text", 0>>} \cup ({"start", "done", "interrupted"} \X Key)
Working == {i \in DOMAIN conns : conns[i].at \in {"started", "ran", "settling"}}

\* No handler runs any more, and none will.
Quiet == phase # "open" /\ AllGone

BridgeShapes ==
    /\ conns \in Seq([key : Key, at : Where]) /\ table \in Seq(Event)
    /\ stdio \in [inst : Bridge, tries : 0 .. 2, of : Nat]
    /\ stdio.tries > 0 => stdio.of \in DOMAIN conns
    /\ receipts \subseteq Key /\ pending \subseteq Key /\ answered \subseteq Key
    /\ effects \in [Call -> Nat] /\ lost \in Nat

\* The receipts are held by the handler at work, whose call has started and has
\* no result yet; only handlers of the first invoker get past their admission.
OneHandler ==
    /\ phase = "closed" => AllGone
    /\ \A i \in Working : /\ lock = {i} /\ KeyOf(i) \notin receipts
                          /\ Starts(KeyOf(i)) # {}
    /\ \A i \in DOMAIN conns :
           conns[i].at \notin {"asked", "gone"} => invoker = {KeyOf(i)[1]}

\* A key that has started has a receipt, is at work, or will never be asked for
\* again; so has one that took effect, and it is the first invoker's.
StartedOnce ==
    /\ \A k \in Key :
           Starts(k) # {} => k \in receipts \/ Quiet \/ \E i \in Working : KeyOf(i) = k
    /\ \A c \in Call : effects[c] > 0 =>
           \E b \in Bridge :
               /\ invoker = {b}
               /\ \/ <<b, c>> \in receipts \/ Quiet
                  \/ \E i \in Working : KeyOf(i) = <<b, c>> /\ conns[i].at # "started"
    /\ \A c \in Call : effects[c] <= 1

\* The table as the registry and the receipts tell it.
EndedOnce ==
    \A k \in Key :
        /\ \A m, n \in Starts(k) : m = n
        /\ \A m, n \in Ends(k) : m = n
        /\ \A e \in Ends(k) : \E s \in Starts(k) : s < e
        /\ k \in answered => Starts(k) # {} /\ \A e \in Ends(k) : table[e] = <<"done", k>>
        /\ k \in pending => Starts(k) # {} /\ Ends(k) = {} /\ k \notin answered
        /\ Ends(k) # {} => k \in receipts \/ Quiet

LossIsKnown == lost > 0 => turn = "failed" \/ (turn = "running" /\ integrity)

BridgeInv == BridgeShapes /\ OneHandler /\ StartedOnce /\ EndedOnce /\ LossIsKnown

=============================================================================
