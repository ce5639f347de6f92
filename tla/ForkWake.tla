-------------------------------- MODULE ForkWake --------------------------------
(***************************************************************************)
(* Triage forks (fork_wake/dispatch.rs, tools.rs, session.rs). Each message *)
(* that is not the Owner's is given to a task of its own: it waits for a    *)
(* permit, reads the Thread, lets a short agent turn take one exit (record, *)
(* escalate, drop), and escalates the message itself when no exit was taken.*)
(* The task and the agent's tool call interleave: a time-out looks at the   *)
(* exit while the call's effect is under way. Everything is in memory but   *)
(* the recorded activity and the queued turn. Abstracted: the pack, the     *)
(* brief and the provider; the panic handler is an early fallback.          *)
(***************************************************************************)
EXTENDS Naturals, FiniteSets

CONSTANTS
    Message,     \* messages, each with its own key
    Forks,       \* MAX_CONCURRENT_FORKS
    FaultLimit   \* bound on failed storage calls and failed turns

VARIABLES
    task,      \* dispatch task of each message: where it is
    slot,      \* ForkTools.exit
    call,      \* the exit call that holds the claim, and whether it wrote
    recorded,  \* messages with an activity in their Thread
    turns,     \* turns queued for each message
    dropped,   \* messages the agent dropped
    excused,   \* messages lost where the code gives up (history variable)
    archived,  \* the destination accepts no work
    faults

vars == <<task, slot, call, recorded, turns, dropped, excused, archived, faults>>

Exit == {"record", "escalate", "drop"}
NoCall == [exit |-> "none", wrote |-> FALSE]

TypeOK ==
    /\ task \in [Message -> {"none", "permit", "reading", "triage", "closing",
                             "deciding", "fallback", "gone"}]
    /\ slot \in [Message -> {"open", "claimed", "taken"}]
    /\ call \in [Message -> [exit : Exit \cup {"none"}, wrote : BOOLEAN]]
    /\ recorded \subseteq Message /\ dropped \subseteq Message /\ excused \subseteq Message
    /\ turns \in [Message -> 0 .. 2]
    /\ archived \in BOOLEAN /\ faults \in 0 .. FaultLimit

Init ==
    /\ task = [m \in Message |-> "none"] /\ slot = [m \in Message |-> "open"]
    /\ call = [m \in Message |-> NoCall]
    /\ recorded = {} /\ turns = [m \in Message |-> 0] /\ dropped = {} /\ excused = {}
    /\ archived = FALSE /\ faults = 0

Fault == faults < FaultLimit /\ faults' = faults + 1
Goes(m, from, to) == task[m] = from /\ task' = [task EXCEPT ![m] = to]
effects == <<recorded, turns, dropped>>

-----------------------------------------------------------------------------
(* The dispatch task                                                       *)

\* dispatch: one task per message, at once.
Dispatch(m) ==
    /\ Goes(m, "none", "permit")
    /\ UNCHANGED <<slot, call, effects, excused, archived, faults>>

HoldsPermit(m) == task[m] \in {"reading", "triage", "closing", "deciding", "fallback"}

TakePermit(m) ==
    /\ Cardinality({n \in Message : HoldsPermit(n)}) < Forks
    /\ Goes(m, "permit", "reading")
    /\ UNCHANGED <<slot, call, effects, excused, archived, faults>>

ReadContext(m) ==
    /\ Goes(m, "reading", "triage")
    /\ UNCHANGED <<slot, call, effects, excused, archived, faults>>

\* The context cannot be read: the message is given up without a fallback.
ContextFails(m) ==
    /\ Goes(m, "reading", "gone") /\ Fault
    /\ excused' = excused \cup {m}
    /\ UNCHANGED <<slot, call, effects, archived>>

\* The turn is over: it ended, failed, timed out or never started. Its exit
\* call may still be running, also while the session is closed.
TurnEnds(m) ==
    /\ Goes(m, "triage", "closing")
    /\ UNCHANGED <<slot, call, effects, excused, archived, faults>>

\* After close the call is over, or the close was cut short by the backstop.
SessionCloses(m) ==
    /\ Goes(m, "closing", "deciding")
    /\ \/ call[m] = NoCall /\ UNCHANGED <<slot, call, faults>>
       \/ call[m] # NoCall /\ Fault /\ UNCHANGED <<slot, call>>
       \/ call[m] # NoCall /\ call' = [call EXCEPT ![m] = NoCall] /\ UNCHANGED <<slot, faults>>
    /\ UNCHANGED <<effects, excused, archived>>

Panics(m) ==
    /\ task[m] \in {"reading", "triage", "deciding"} /\ Fault
    /\ task' = [task EXCEPT ![m] = "fallback"]
    /\ UNCHANGED <<slot, call, effects, excused, archived>>

\* mutation: a claimed exit counts as taken
TakenWhenClaimed(m) == slot[m] # "open"
Taken(m) == slot[m] = "taken"

Decide(m) ==
    /\ Goes(m, "deciding", IF Taken(m) THEN "gone" ELSE "fallback")
    /\ UNCHANGED <<slot, call, effects, excused, archived, faults>>

-----------------------------------------------------------------------------
(* Queueing a turn                                                         *)

\* mutation: the key of the request is not looked up
QueuedTwice(m) == [turns EXCEPT ![m] = @ + 1]
Queued(m) == IF turns[m] = 0 THEN [turns EXCEPT ![m] = 1] ELSE turns

\* queue_background_thread_request: one turn per key, none when archived.
Inject(m) == ~archived /\ turns' = Queued(m)

\* Refused, or queued and then not published.
InjectFails(m) ==
    \/ archived /\ UNCHANGED <<turns, faults>>
    \/ Fault /\ (UNCHANGED turns \/ Inject(m))

Fallback(m) ==
    /\ Goes(m, "fallback", "gone")
    /\ \/ Inject(m) /\ UNCHANGED <<excused, faults>>
       \/ InjectFails(m) /\ excused' = excused \cup {m}
    /\ UNCHANGED <<slot, call, recorded, dropped, archived>>

-----------------------------------------------------------------------------
(* The agent's exit call                                                   *)

\* claim; the tools are gone with the session.
Claim(m) ==
    /\ task[m] = "triage" /\ slot[m] = "open" /\ call[m] = NoCall
    /\ \E e \in Exit : call' = [call EXCEPT ![m] = [exit |-> e, wrote |-> FALSE]]
    /\ slot' = [slot EXCEPT ![m] = "claimed"]
    /\ UNCHANGED <<task, effects, excused, archived, faults>>

Written(m) == call' = [call EXCEPT ![m].wrote = TRUE]

\* The effect of the exit, before the slot is set.
Write(m) ==
    /\ call[m] # NoCall /\ ~call[m].wrote /\ Written(m)
    /\ CASE call[m].exit = "record" -> recorded' = recorded \cup {m} /\ UNCHANGED <<turns, dropped>>
         [] call[m].exit = "escalate" -> Inject(m) /\ UNCHANGED <<recorded, dropped>>
         [] call[m].exit = "drop" -> dropped' = dropped \cup {m} /\ UNCHANGED <<recorded, turns>>
    /\ UNCHANGED <<task, slot, excused, archived, faults>>

\* A failed effect releases the claim: the agent may take another exit.
WriteFails(m) ==
    /\ ~call[m].wrote
    /\ \/ call[m].exit = "record" /\ Fault /\ UNCHANGED turns
       \/ call[m].exit = "escalate" /\ InjectFails(m)
    /\ slot' = [slot EXCEPT ![m] = "open"] /\ call' = [call EXCEPT ![m] = NoCall]
    /\ UNCHANGED <<task, recorded, dropped, excused, archived>>

Commit(m) ==
    /\ call[m].wrote
    /\ slot' = [slot EXCEPT ![m] = "taken"] /\ call' = [call EXCEPT ![m] = NoCall]
    /\ UNCHANGED <<task, effects, excused, archived, faults>>

-----------------------------------------------------------------------------
(* The rest of the host                                                    *)

Archive == archived' = ~archived /\ Fault
           /\ UNCHANGED <<task, slot, call, effects, excused>>

Alive(m) == task[m] \notin {"none", "gone"}

\* A reset of the history or a restart aborts every task.
Stop ==
    /\ Fault /\ \E m \in Message : Alive(m)
    /\ task' = [m \in Message |-> IF Alive(m) THEN "gone" ELSE task[m]]
    /\ call' = [m \in Message |-> NoCall]
    /\ excused' = excused \cup {m \in Message : Alive(m)}
    /\ UNCHANGED <<slot, effects, archived>>

Step(m) == TakePermit(m) \/ ReadContext(m) \/ TurnEnds(m) \/ SessionCloses(m)
           \/ Decide(m) \/ Fallback(m)
Agent(m) == Claim(m) \/ Write(m) \/ WriteFails(m) \/ Commit(m)

Next ==
    \/ \E m \in Message : Dispatch(m) \/ Step(m) \/ Agent(m) \/ ContextFails(m) \/ Panics(m)
    \/ Archive
    \/ Stop

\* Calls are bounded by time-outs, so every task moves on; a call in flight
\* need not.
Spec == Init /\ [][Next]_vars /\ \A m \in Message : WF_vars(Step(m))

-----------------------------------------------------------------------------
(* Properties                                                              *)

Handled(m) == m \in recorded \cup dropped \/ turns[m] > 0

\* A message becomes one turn at most, although the fork's own escalation, a
\* later retry of it and the fallback may all queue it.
OneTurnPerMessage == \A m \in Message : turns[m] <= 1

\* A finished dispatch left a trace: "an exit is only taken once its side
\* effect has landed" (tools.rs), whatever failed or timed out in between.
\* The places where the code gives a message up are excused.
GoneIsHandled == \A m \in Message : task[m] = "gone" => Handled(m) \/ m \in excused

\* Every dispatched message is finished, with more messages than permits.
Dispatched(m) == task[m] # "none"
Finished(m) == task[m] = "gone"
EveryForkEnds == \A m \in Message : Dispatched(m) ~> Finished(m)

-----------------------------------------------------------------------------
(* The inductive invariant                                                 *)

\* A trace is left before it is claimed to be: by the exit call that wrote, by
\* the slot it is committed to, by the task that looked at the slot.
TraceFirst ==
    \A m \in Message :
        /\ call[m].wrote => Handled(m)
        /\ slot[m] = "taken" => Handled(m)
        /\ call[m].exit = "none" => ~call[m].wrote

WakeInv == TypeOK /\ TraceFirst /\ OneTurnPerMessage /\ GoneIsHandled

=============================================================================
