------------------------------ MODULE ClaudeDriver -----------------------------
(***************************************************************************)
(* One session of the Claude driver (claude.rs, claude_events.rs,            *)
(* claude_config.rs): a spawn checks the tool bridge, sends the prompt and   *)
(* waits for its echo and for an init with the right tools; an interrupt     *)
(* asks and waits for the end; retire ends it; a reader task receives        *)
(* stdout. A request checks for the end, registers, and checks again under   *)
(* the stdin lock.                                                           *)
(* The CLI is external. Abstracted: a message text is its number; ClaudeText *)
(* has the text of a message, and tool events pair by the CLI's own ids.     *)
(***************************************************************************)
EXTENDS Naturals, Sequences

CONSTANTS
    MessageLimit,  \* bound on assistant messages
    WireLimit,     \* bound on lines buffered in stdout
    FaultLimit     \* bound on timeouts, bad lines, exits and refusals

Request == {"prompt", "interrupt"}

VARIABLES
    spawn,    \* start, asked, init, out, failed
    intr,     \* idle, asked, waiting
    retired,  \* the registry dropped the session
    request,  \* of each request: none, checked, registered, waiting, ok, error
    pending,  \* requests a receipt may answer
    output,   \* ClaudeOutput: initialized, the final message if any
    hub,      \* outcome and output of the terminal event
    reader,   \* read_claude_stdout: reading, draining, done
    killed,   \* the process group was killed
    wire,     \* stdout not yet read
    cli,      \* Claude: alive, requests to answer, init sent, messages, result
    faults

vars == <<spawn, intr, retired, request, pending, output, hub, reader, killed, wire, cli, faults>>

Line == [kind : {"receipt"}, of : Request, ok : BOOLEAN]
   \cup [kind : {"init", "aborted", "foreign"}, ok : BOOLEAN]
   \cup [kind : {"message", "result"}, n : 0 .. MessageLimit, ok : BOOLEAN]

TypeOK ==
    /\ spawn \in {"start", "asked", "init", "out", "failed"} /\ intr \in {"idle", "asked", "waiting"}
    /\ request \in [Request -> {"none", "checked", "registered", "waiting", "ok", "error"}]
    /\ pending \subseteq Request /\ retired \in BOOLEAN /\ killed \in BOOLEAN
    /\ output \in [initialized : BOOLEAN, final : 0 .. MessageLimit]
    /\ hub \in [outcome : {"none", "done", "failed", "interrupted"}, output : 0 .. MessageLimit]
    /\ reader \in {"reading", "draining", "done"}
    /\ Len(wire) <= WireLimit /\ \A i \in DOMAIN wire : wire[i] \in Line
    /\ faults \in 0 .. FaultLimit /\ cli.asked \subseteq Request

Init ==
    /\ spawn = "start" /\ intr = "idle" /\ retired = FALSE /\ killed = FALSE
    /\ request = [r \in Request |-> "none"] /\ pending = {}
    /\ output = [initialized |-> FALSE, final |-> 0] /\ hub = [outcome |-> "none", output |-> 0]
    /\ reader = "reading" /\ wire = <<>> /\ faults = 0
    /\ cli = [alive |-> TRUE, asked |-> {}, init |-> FALSE, messages |-> 0, finals |-> {}, result |-> 0, over |-> FALSE]

IsTerminal == hub.outcome # "none"
SessionHeld == spawn # "failed" /\ (~retired \/ intr # "idle")
Fault == faults < FaultLimit /\ faults' = faults + 1

Completed(outcome, text) == IF IsTerminal THEN hub ELSE [outcome |-> outcome, output |-> text]

\* reject_pending: the waiters of R hear that the session is closed.
Rejected(R) ==
    /\ pending' = pending \ R
    /\ request' = [r \in Request |-> IF r \in pending \cap R /\ request[r] = "waiting"
                                     THEN "error" ELSE request[r]]

-----------------------------------------------------------------------------
(* request                                                                 *)

Check(r) ==
    /\ request[r] = "none"
    /\ request' = [request EXCEPT ![r] = IF IsTerminal THEN "error" ELSE "checked"]
    /\ UNCHANGED <<retired, pending, output, hub, reader, killed, wire, cli, faults>>

Register(r) ==
    /\ request[r] = "checked"
    /\ request' = [request EXCEPT ![r] = "registered"] /\ pending' = pending \cup {r}
    /\ UNCHANGED <<spawn, intr, retired, output, hub, reader, killed, wire, cli, faults>>

\* mutation: the end of the session is not checked again
NoRecheck(r) == TRUE
StillOpen(r) == ~IsTerminal /\ r \in pending

Write(r) ==
    /\ request[r] = "registered"
    /\ request' = [request EXCEPT ![r] = IF StillOpen(r) THEN "waiting" ELSE "error"]
    /\ pending' = IF StillOpen(r) THEN pending ELSE pending \ {r}
    /\ cli' = IF StillOpen(r) THEN [cli EXCEPT !.asked = @ \cup {r}] ELSE cli
    /\ UNCHANGED <<spawn, intr, retired, output, hub, reader, killed, wire, faults>>

TimeOut(r) ==
    /\ Fault /\ request[r] = "waiting"
    /\ request' = [request EXCEPT ![r] = "error"] /\ pending' = pending \ {r}
    /\ UNCHANGED <<spawn, intr, retired, output, hub, reader, killed, wire, cli>>

-----------------------------------------------------------------------------
(* spawn, interrupt, retire                                                *)

\* preflight of the scoped bridge, then the prompt.
SpawnAsks == spawn = "start" /\ spawn' = "asked" /\ Check("prompt") /\ UNCHANGED intr

SpawnEchoed ==
    /\ spawn = "asked" /\ request["prompt"] = "ok" /\ spawn' = "init"
    /\ UNCHANGED <<intr, retired, request, pending, output, hub, reader, killed, wire, cli, faults>>

\* mutation: the handle is published on the echo alone
EchoIsEnough == TRUE
ScopeChecked == output.initialized

SpawnOut ==
    /\ spawn = "init" /\ ScopeChecked /\ spawn' = "out"
    /\ UNCHANGED <<intr, retired, request, pending, output, hub, reader, killed, wire, cli, faults>>

\* A refused prompt, an end before init, or the timeout; the session is dropped
\* and its group killed.
SpawnFails ==
    /\ \/ spawn = "asked" /\ request["prompt"] = "error"
       \/ spawn = "init" /\ ~output.initialized /\ (IsTerminal \/ faults < FaultLimit)
    /\ spawn' = "failed" /\ killed' = TRUE
    /\ UNCHANGED <<intr, retired, request, pending, output, hub, reader, wire, cli, faults>>

InterruptAsks ==
    /\ spawn = "out" /\ ~retired /\ intr = "idle" /\ ~IsTerminal
    /\ intr' = "asked" /\ Check("interrupt") /\ UNCHANGED spawn

InterruptAnswered ==
    /\ intr = "asked" /\ request["interrupt"] = "ok" /\ intr' = "waiting"
    /\ UNCHANGED <<spawn, retired, request, pending, output, hub, reader, killed, wire, cli, faults>>

\* The request failed or the end did not come: the driver ends the session.
InterruptForces ==
    /\ \/ intr = "asked" /\ request["interrupt"] = "error" /\ UNCHANGED faults
       \/ intr = "waiting" /\ ~IsTerminal /\ Fault
    /\ intr' = "idle" /\ killed' = TRUE /\ hub' = Completed("interrupted", 0)
    /\ Rejected(Request)
    /\ UNCHANGED <<spawn, retired, output, reader, wire, cli>>

InterruptEnds ==
    /\ intr = "waiting" /\ IsTerminal /\ intr' = "idle" /\ killed' = TRUE /\ Rejected(Request)
    /\ UNCHANGED <<spawn, retired, output, hub, reader, wire, cli, faults>>

Retire ==
    /\ spawn = "out" /\ ~retired /\ retired' = TRUE
    /\ killed' = TRUE /\ hub' = Completed("interrupted", 0) /\ Rejected(Request)
    /\ UNCHANGED <<spawn, intr, output, reader, wire, cli, faults>>

-----------------------------------------------------------------------------
(* The reader                                                              *)

\* A line Claude may not send: other tools, another session, a native Sub-agent,
\* output before init.
Refused(line) ==
    \/ line.kind = "foreign" \/ (line.kind = "init" /\ ~line.ok)
    \/ line.kind \in {"message", "result", "aborted"} /\ ~output.initialized

\* The terminal event that the line brings: its outcome and output.
End(line) ==
    CASE Refused(line) -> <<"failed", 0>>
      [] line.kind = "aborted" -> <<"interrupted", output.final>>
      [] line.kind = "result" /\ line.ok -> <<"done", line.n>>
      [] line.kind = "result" /\ ~line.ok -> <<"failed", output.final>>
      [] OTHER -> <<"none", 0>>

Handled(line) ==
    /\ hub' = IF End(line)[1] = "none" THEN hub ELSE Completed(End(line)[1], End(line)[2])
    /\ output' = IF IsTerminal \/ Refused(line) THEN output
                 ELSE [initialized |-> output.initialized \/ line.kind = "init",
                       final |-> IF line.kind # "message" THEN output.final
                                 ELSE IF line.ok THEN line.n ELSE 0]

\* handle: the receipt first, then the output; after the end no input waits.
Receive(line) ==
    IF line.kind = "receipt"
    THEN /\ pending' = pending \ {line.of}
         /\ request' = IF line.of \in pending /\ request[line.of] = "waiting"
                       THEN [request EXCEPT ![line.of] = IF line.ok THEN "ok" ELSE "error"]
                       ELSE request
         /\ UNCHANGED <<output, hub>>
    ELSE /\ Handled(line)
         /\ Rejected(IF hub'.outcome # "none" THEN {"prompt"} ELSE {})

ReadLine ==
    /\ reader # "done" /\ wire # <<>> /\ SessionHeld
    /\ Receive(Head(wire)) /\ wire' = Tail(wire)
    /\ UNCHANGED <<spawn, intr, retired, reader, killed, cli, faults>>

SeeExit ==
    /\ reader = "reading" /\ ~cli.alive /\ reader' = "draining"
    /\ UNCHANGED <<spawn, intr, retired, request, pending, output, hub, killed, wire, cli, faults>>

\* The end of stdout, its failure, or the drain deadline.
ReaderEnds ==
    /\ reader # "done"
    /\ \/ ~cli.alive /\ (wire = <<>> \/ ~SessionHeld) /\ UNCHANGED faults
       \/ Fault
    /\ reader' = "done" /\ cli' = [cli EXCEPT !.alive = FALSE]
    /\ hub' = Completed("failed", IF SessionHeld THEN output.final ELSE 0)
    /\ IF SessionHeld THEN killed' = TRUE /\ Rejected(Request)
       ELSE UNCHANGED <<killed, request, pending>>
    /\ UNCHANGED <<spawn, intr, retired, output, wire>>

-----------------------------------------------------------------------------
(* Claude                                                                  *)

Says(line) == cli.alive /\ Len(wire) < WireLimit /\ wire' = Append(wire, line)

Quiet == UNCHANGED <<spawn, intr, retired, request, pending, output, hub, reader, killed>>

CliAnswers(r, ok) ==
    /\ r \in cli.asked /\ Says([kind |-> "receipt", of |-> r, ok |-> ok])
    /\ IF ok THEN UNCHANGED faults ELSE r = "interrupt" /\ Fault
    /\ cli' = [cli EXCEPT !.asked = @ \ {r}] /\ Quiet

CliInit(ok) ==
    /\ ~cli.init /\ Says([kind |-> "init", ok |-> ok])
    /\ IF ok THEN UNCHANGED faults ELSE Fault
    /\ cli' = [cli EXCEPT !.init = TRUE] /\ Quiet

CliMessage(ends) ==
    /\ cli.init /\ ~cli.over /\ cli.messages < MessageLimit
    /\ Says([kind |-> "message", n |-> cli.messages + 1, ok |-> ends])
    /\ cli' = [cli EXCEPT !.messages = @ + 1,
                          !.finals = IF ends THEN @ \cup {cli.messages + 1} ELSE @]
    /\ UNCHANGED faults /\ Quiet

CliResult(ok) ==
    /\ cli.init /\ ~cli.over /\ Says([kind |-> "result", n |-> cli.messages, ok |-> ok])
    /\ cli' = [cli EXCEPT !.over = TRUE, !.result = cli.messages] /\ UNCHANGED faults /\ Quiet

CliAborted ==
    /\ cli.init /\ ~cli.over /\ Says([kind |-> "aborted", ok |-> FALSE])
    /\ cli' = [cli EXCEPT !.over = TRUE] /\ UNCHANGED faults /\ Quiet

CliForeign ==
    /\ Fault /\ Says([kind |-> "foreign", ok |-> FALSE]) /\ UNCHANGED cli /\ Quiet

CliExits ==
    /\ cli.alive /\ cli' = [cli EXCEPT !.alive = FALSE, !.asked = {}]
    /\ IF killed THEN UNCHANGED faults ELSE Fault
    /\ UNCHANGED wire /\ Quiet

Next ==
    \/ \E r \in Request : Register(r) \/ Write(r) \/ TimeOut(r)
    \/ SpawnAsks \/ SpawnEchoed \/ SpawnOut \/ SpawnFails
    \/ InterruptAsks \/ InterruptAnswered \/ InterruptForces \/ InterruptEnds \/ Retire
    \/ ReadLine \/ SeeExit \/ ReaderEnds
    \/ \E r \in Request, ok \in BOOLEAN : CliAnswers(r, ok)
    \/ \E ok \in BOOLEAN : CliInit(ok) \/ CliMessage(ok) \/ CliResult(ok)
    \/ CliAborted \/ CliForeign \/ CliExits

Spec == Init /\ [][Next]_vars

-----------------------------------------------------------------------------
(* Properties                                                              *)

\* A done session ends with the text of its result; another end carries no text
\* but that of a message that ended the turn.
EndSaysWhatWasSaid ==
    /\ hub.outcome = "done" => hub.output = cli.result
    /\ hub.outcome \in {"failed", "interrupted"} => hub.output \in {0} \cup cli.finals

\* A request that waits can still be answered, and once the reader is gone none
\* waits; a session nobody holds has its process group killed.
NobodyWaitsInVain ==
    /\ SessionHeld => \A r \in Request : request[r] = "waiting" => r \in pending /\ reader # "done"
    /\ ~SessionHeld \/ reader = "done" => killed

\* No handle is given out before Claude showed exactly the tools the host gave it.
HandleIsScoped == spawn = "out" => output.initialized

ClaudeIsHonest == EndSaysWhatWasSaid /\ NobodyWaitsInVain /\ HandleIsScoped

=============================================================================
