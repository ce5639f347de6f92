----------------------------- MODULE TurnLedger -----------------------------
(***************************************************************************)
(* What hirsel's storage promises about turns, whoever drives them: the    *)
(* table thread_turns as a reader of it (a client, a requester, the next   *)
(* process) may see it change. ThreadTurns implements it.                  *)
(*                                                                         *)
(*   - a turn moves none -> queued -> running -> one terminal state, and   *)
(*     may end without running;                                            *)
(*   - one turn of a Thread runs at a time;                                *)
(*   - a terminal state is never rewritten;                                *)
(*   - the end of a turn and the acceptance of its report by the requester *)
(*     are one event, so no end is reported twice or not at all.           *)
(***************************************************************************)
CONSTANTS Thread, Turn, None, ThreadOf, ReportOf

VARIABLE state

OpenStates == {"queued", "running"}
Terminal == {"completed", "failed", "cancelled", "interrupted"}

Idle(th) == \A t \in Turn : ThreadOf[t] = th => state[t] # "running"
ReportsOf(S) == {ReportOf[t] : t \in S} \ {None}

Init == state = [t \in Turn |-> "none"]

Accept(t) ==
    /\ state[t] = "none"
    /\ state' = [state EXCEPT ![t] = "queued"]

Begin(t) ==
    /\ state[t] = "queued" /\ Idle(ThreadOf[t])
    /\ state' = [state EXCEPT ![t] = "running"]

\* A turn the executor opens for queued session work of its own.
BeginUnaddressed(t) ==
    /\ state[t] = "none" /\ Idle(ThreadOf[t])
    /\ state' = [state EXCEPT ![t] = "running"]

\* Several turns end at once only when a restart interrupts them.
End(S, outcome) ==
    /\ \A t \in S : state[t] \in OpenStates
    /\ \A r \in ReportsOf(S) : state[r] = "none"
    /\ outcome = "interrupted" \/ \A t, u \in S : t = u
    /\ state' = [t \in Turn |-> IF t \in S THEN outcome
                                ELSE IF t \in ReportsOf(S) THEN "queued"
                                ELSE state[t]]

Next ==
    \/ \E t \in Turn : Accept(t) \/ Begin(t) \/ BeginUnaddressed(t)
    \/ \E S \in SUBSET Turn, outcome \in Terminal : End(S, outcome)

Spec == Init /\ [][Next]_state
=============================================================================
