------------------------------- MODULE CodexDriver -----------------------------
(***************************************************************************)
(* One session of the Codex driver (codex.rs, codex_io.rs, shared.rs): a     *)
(* spawn asks the app-server a fixed series of requests, a reader task       *)
(* receives its stdout, an interrupt and a retire end the session, and the   *)
(* event hub retains the log that the executor's stream reads.               *)
(* The app-server is external: it answers, notifies for its root thread and  *)
(* for child threads, and exits. Abstracted: a message text is its number;   *)
(* initialize and config/read are one request, and so are thread/start and   *)
(* the catalog check that follows it.                                        *)
(***************************************************************************)
EXTENDS Naturals, Sequences

CONSTANTS
    ItemLimit,   \* bound on items the server reports
    WireLimit,   \* bound on lines buffered in stdout
    FaultLimit   \* bound on timeouts, garbage, exits and refused requests

Spawn == 1 .. 3       \* initialize, thread/start, turn/start
Open == 2
Turn == 3
Interrupt == 4
Request == 1 .. 4
Out == 4              \* the spawn returned its handle
Failed == 5

VARIABLES
    spawn,     \* the request the spawn is at, then Out or Failed
    intr,      \* the interrupt: idle, chosen, asked, waiting
    retired,   \* the registry dropped the session
    answer,    \* of each request: none, waiting, ok, error
    state,     \* CodexState: root known, turn active, last and final message
    hub,       \* EventHub: outcome and output of the terminal event
    stream,    \* the executor's stream: where it is, events unseen, woken
    reader,    \* read_codex_stdout: reading, draining, done
    killed,    \* the process group was killed
    wire,      \* stdout not yet read
    server,    \* the app-server: alive, requests to answer, turn, items said
    faults

vars == <<spawn, intr, retired, answer, state, hub, stream, reader, killed, wire, server, faults>>

Line == [kind : {"reply"}, of : Request, ok : BOOLEAN]
   \cup [kind : {"note", "final", "work"}, root : BOOLEAN, n : 1 .. ItemLimit]
   \cup [kind : {"started", "completed", "failed", "interrupted"}, root : BOOLEAN]

TypeOK ==
    /\ spawn \in 1 .. Failed /\ retired \in BOOLEAN /\ killed \in BOOLEAN
    /\ intr \in {"idle", "chosen", "asked", "waiting"}
    /\ answer \in [Request -> {"none", "waiting", "ok", "error"}]
    /\ state \in [root : BOOLEAN, active : BOOLEAN, last : 0 .. ItemLimit, final : 0 .. ItemLimit]
    /\ hub.outcome \in {"none", "done", "failed", "interrupted"} /\ hub.output \in 0 .. ItemLimit
    /\ stream.pc \in {"none", "reading", "waiting", "ended"} /\ stream.unseen \in BOOLEAN
    /\ reader \in {"reading", "draining", "done"}
    /\ \A i \in DOMAIN wire : wire[i] \in Line
    /\ Len(wire) <= WireLimit /\ faults \in 0 .. FaultLimit
    /\ server.turn \in {"none", "running", "over"} /\ server.asked \subseteq Request

Init ==
    /\ spawn = 1 /\ intr = "idle" /\ retired = FALSE /\ killed = FALSE
    /\ answer = [r \in Request |-> "none"]
    /\ state = [root |-> FALSE, active |-> FALSE, last |-> 0, final |-> 0]
    /\ hub = [outcome |-> "none", output |-> 0]
    /\ stream = [pc |-> "none", unseen |-> FALSE, woken |-> FALSE]
    /\ reader = "reading" /\ wire = <<>> /\ faults = 0
    /\ server = [alive |-> TRUE, asked |-> {}, turn |-> "none", items |-> 0, last |-> 0, final |-> 0]

-----------------------------------------------------------------------------
(* The hub                                                                 *)

IsTerminal == hub.outcome # "none"
SessionHeld == spawn # Failed /\ (~retired \/ intr # "idle")

\* emit: push and notify; nothing is pushed after the terminal event.
Emitted == IF IsTerminal THEN stream
           ELSE [stream EXCEPT !.unseen = TRUE, !.woken = stream.pc # "none"]

\* complete: the output and the terminal event in one step.
Completed(outcome, output) ==
    /\ hub' = IF IsTerminal THEN hub ELSE [outcome |-> outcome, output |-> output]
    /\ stream' = Emitted

\* stream: subscribe, read the log, wait for a notification, read again.
Subscribe ==
    /\ spawn = Out /\ stream.pc = "none" /\ ~retired
    /\ stream' = [stream EXCEPT !.pc = "reading"]
    /\ UNCHANGED <<spawn, intr, retired, answer, state, hub, reader, killed, wire, server, faults>>

ReadLog ==
    /\ stream.pc = "reading"
    /\ stream' = [stream EXCEPT !.pc = IF IsTerminal THEN "ended" ELSE "waiting", !.unseen = FALSE]
    /\ UNCHANGED <<spawn, intr, retired, answer, state, hub, reader, killed, wire, server, faults>>

Recv ==
    /\ stream.pc = "waiting" /\ stream.woken
    /\ stream' = [stream EXCEPT !.pc = "reading", !.woken = FALSE]
    /\ UNCHANGED <<spawn, intr, retired, answer, state, hub, reader, killed, wire, server, faults>>

-----------------------------------------------------------------------------
(* Requests                                                                *)

\* fail: no turn, every waiter refused, a terminal event, the group killed.
Fail ==
    /\ state' = [state EXCEPT !.active = FALSE]
    /\ answer' = [r \in Request |-> IF answer[r] = "waiting" THEN "error" ELSE answer[r]]
    /\ Completed("failed", state.final)
    /\ killed' = TRUE

\* mutation: a request is registered whether the session ended or not
AlwaysOpen == TRUE
Accepts == ~IsTerminal

\* request: registered under the state lock, then written.
Ask(r) ==
    /\ answer[r] = "none"
    /\ answer' = [answer EXCEPT ![r] = IF Accepts THEN "waiting" ELSE "error"]
    /\ server' = IF Accepts THEN [server EXCEPT !.asked = @ \cup {r}] ELSE server
    /\ UNCHANGED <<state, hub, stream, reader, killed, wire, faults>>

SpawnAsk ==
    /\ spawn \in Spawn /\ Ask(spawn) /\ UNCHANGED <<spawn, intr, retired>>

SpawnNext ==
    /\ spawn \in Spawn /\ answer[spawn] = "ok" /\ spawn' = spawn + 1
    /\ UNCHANGED <<intr, retired, answer, state, hub, stream, reader, killed, wire, server, faults>>

\* The startup guard kills the group; the session is dropped.
SpawnFails ==
    /\ spawn \in Spawn /\ answer[spawn] = "error" /\ spawn' = Failed /\ killed' = TRUE
    /\ UNCHANGED <<intr, retired, answer, state, hub, stream, reader, wire, server, faults>>

Fault == faults < FaultLimit /\ faults' = faults + 1

\* control_timeout of one request.
TimeOut(r) ==
    /\ Fault /\ answer[r] = "waiting" /\ SessionHeld /\ Fail
    /\ UNCHANGED <<spawn, intr, retired, reader, wire, server>>

\* interrupt reads the active turn, asks, and waits for the terminal event.
ChooseTurn ==
    /\ spawn = Out /\ ~retired /\ intr = "idle" /\ answer[Interrupt] = "none"
    /\ ~IsTerminal /\ state.root /\ state.active
    /\ intr' = "chosen"
    /\ UNCHANGED <<spawn, retired, answer, state, hub, stream, reader, killed, wire, server, faults>>

AskInterrupt ==
    /\ intr = "chosen" /\ Ask(Interrupt) /\ intr' = "asked" /\ UNCHANGED <<spawn, retired>>

InterruptAnswered ==
    /\ intr = "asked" /\ answer[Interrupt] = "ok" /\ intr' = "waiting"
    /\ UNCHANGED <<spawn, retired, answer, state, hub, stream, reader, killed, wire, server, faults>>

InterruptRefused ==
    /\ intr = "asked" /\ answer[Interrupt] = "error" /\ intr' = "idle" /\ Fail
    /\ UNCHANGED <<spawn, retired, reader, wire, server, faults>>

InterruptEnds ==
    /\ intr = "waiting" /\ IsTerminal /\ intr' = "idle" /\ killed' = TRUE
    /\ UNCHANGED <<spawn, retired, answer, state, hub, stream, reader, wire, server, faults>>

InterruptTimesOut ==
    /\ Fault /\ intr = "waiting" /\ ~IsTerminal /\ intr' = "idle" /\ Fail
    /\ UNCHANGED <<spawn, retired, reader, wire, server>>

Retire ==
    /\ spawn = Out /\ ~retired /\ retired' = TRUE /\ Fail
    /\ UNCHANGED <<spawn, intr, reader, wire, server, faults>>

-----------------------------------------------------------------------------
(* The reader                                                              *)

\* mutation: notifications of child threads count as the root's
AnyThread(line) == TRUE
Ours(line) == line.root

\* receive, the correlated reply of a request.
ReceiveReply(line) ==
    IF answer[line.of] = "waiting"
    THEN /\ answer' = [answer EXCEPT ![line.of] = IF line.ok THEN "ok" ELSE "error"]
         /\ state' = [state EXCEPT !.root = @ \/ (line.of = Open /\ line.ok),
                                   !.active = @ \/ (line.of = Turn /\ line.ok /\ ~IsTerminal)]
         /\ stream' = IF line.of = Open /\ line.ok THEN Emitted ELSE stream
         /\ UNCHANGED hub
    ELSE UNCHANGED <<answer, state, hub, stream>>

\* receive, an item: a message followed by work is no final answer.
ReceiveItem(line) ==
    IF IsTerminal \/ ~state.root \/ ~Ours(line) \/ ~state.active
    THEN UNCHANGED <<answer, state, hub, stream>>
    ELSE /\ state' = [state EXCEPT !.last = IF line.kind = "work" THEN 0 ELSE line.n,
                                   !.final = IF line.kind = "final" THEN line.n ELSE @]
         /\ stream' = Emitted /\ UNCHANGED <<answer, hub>>

\* receive, a turn notification.
ReceiveTurn(line) ==
    IF IsTerminal \/ ~state.root \/ ~Ours(line) \/ (line.kind # "started" /\ ~state.active)
    THEN UNCHANGED <<answer, state, hub, stream>>
    ELSE IF line.kind = "started"
    THEN state' = [state EXCEPT !.active = TRUE] /\ UNCHANGED <<answer, hub, stream>>
    ELSE /\ state' = [state EXCEPT !.active = FALSE] /\ UNCHANGED answer
         /\ CASE line.kind = "completed" ->
                        Completed("done", IF state.final # 0 THEN state.final ELSE state.last)
              [] line.kind = "failed" -> Completed("failed", state.final)
              [] line.kind = "interrupted" -> Completed("interrupted", state.final)

Receive(line) ==
    CASE line.kind = "reply" -> ReceiveReply(line)
      [] line.kind \in {"note", "final", "work"} -> ReceiveItem(line)
      [] line.kind \in {"started", "completed", "failed", "interrupted"} -> ReceiveTurn(line)

ReadLine ==
    /\ reader # "done" /\ wire # <<>> /\ SessionHeld
    /\ Receive(Head(wire)) /\ wire' = Tail(wire)
    /\ UNCHANGED <<spawn, intr, retired, reader, killed, server, faults>>

\* child.wait: buffered stdout is still drained.
SeeExit ==
    /\ reader = "reading" /\ ~server.alive /\ reader' = "draining" /\ killed' = TRUE
    /\ UNCHANGED <<spawn, intr, retired, answer, state, hub, stream, wire, server, faults>>

\* The end of stdout, or the drain deadline: whoever still waits is refused. A
\* dropped session needs nothing.
ReaderEnds ==
    /\ reader # "done" /\ ~server.alive
    /\ wire = <<>> \/ ~SessionHeld
    /\ reader' = "done"
    /\ IF SessionHeld THEN Fail ELSE UNCHANGED <<state, answer, hub, stream, killed>>
    /\ UNCHANGED <<spawn, intr, retired, wire, server, faults>>

\* A line that is no JSON, a stdout error, or the deadline with lines unread.
ReaderBreaks ==
    /\ Fault /\ reader # "done" /\ SessionHeld /\ reader' = "done" /\ Fail
    /\ server' = [server EXCEPT !.alive = FALSE]
    /\ UNCHANGED <<spawn, intr, retired, wire>>

-----------------------------------------------------------------------------
(* The app-server                                                          *)

Says(line) == Len(wire) < WireLimit /\ wire' = Append(wire, line)

ServerAnswers(r, ok) ==
    /\ server.alive /\ r \in server.asked
    /\ IF ok THEN UNCHANGED faults ELSE Fault
    /\ Says([kind |-> "reply", of |-> r, ok |-> ok])
    /\ server' = [server EXCEPT !.asked = @ \ {r},
                                !.turn = IF r = Turn /\ ok THEN "running" ELSE @]
    /\ UNCHANGED <<spawn, intr, retired, answer, state, hub, stream, reader, killed>>

ServerItem(kind, root) ==
    /\ server.alive /\ server.turn = "running" /\ server.items < ItemLimit
    /\ Says([kind |-> kind, root |-> root, n |-> server.items + 1])
    /\ server' = [server EXCEPT !.items = @ + 1,
            !.last = IF ~root THEN @ ELSE IF kind = "work" THEN 0 ELSE server.items + 1,
            !.final = IF root /\ kind = "final" THEN server.items + 1 ELSE @]
    /\ UNCHANGED <<spawn, intr, retired, answer, state, hub, stream, reader, killed, faults>>

ServerTurn(kind, root) ==
    /\ server.alive /\ server.turn = "running"
    /\ Says([kind |-> kind, root |-> root])
    /\ server' = IF root /\ kind # "started" THEN [server EXCEPT !.turn = "over"] ELSE server
    /\ UNCHANGED <<spawn, intr, retired, answer, state, hub, stream, reader, killed, faults>>

ServerExits ==
    /\ server.alive
    /\ IF killed THEN UNCHANGED faults ELSE Fault
    /\ server' = [server EXCEPT !.alive = FALSE, !.asked = {}]
    /\ UNCHANGED <<spawn, intr, retired, answer, state, hub, stream, reader, killed, wire>>

Next ==
    \/ Subscribe \/ ReadLog \/ Recv
    \/ SpawnAsk \/ SpawnNext \/ SpawnFails
    \/ \E r \in Request : TimeOut(r)
    \/ ChooseTurn \/ AskInterrupt \/ InterruptAnswered \/ InterruptRefused
    \/ InterruptEnds \/ InterruptTimesOut \/ Retire
    \/ ReadLine \/ SeeExit \/ ReaderEnds \/ ReaderBreaks
    \/ \E r \in Request, ok \in BOOLEAN : ServerAnswers(r, ok)
    \/ \E kind \in {"note", "final", "work"}, root \in BOOLEAN : ServerItem(kind, root)
    \/ \E kind \in {"started", "completed", "failed", "interrupted"}, root \in BOOLEAN :
          ServerTurn(kind, root)
    \/ ServerExits

Spec == Init /\ [][Next]_vars

-----------------------------------------------------------------------------
(* Properties                                                              *)

\* A turn that is done ends with the final answer of the root thread, or with
\* its last message when none was marked final; another end never promotes
\* commentary.
EndSaysWhatWasSaid ==
    /\ hub.outcome = "done" =>
           hub.output = IF server.final # 0 THEN server.final ELSE server.last
    /\ hub.outcome \in {"failed", "interrupted"} => hub.output \in {0, state.final}

\* Once the reader is gone no request waits for it, and a session nobody holds
\* or whose reader is gone has its process group killed.
NobodyWaitsInVain ==
    /\ reader = "done" /\ SessionHeld => \A r \in Request : answer[r] # "waiting"
    /\ ~SessionHeld \/ reader = "done" => killed

\* A stream that waits has read every event or has a notification pending.
NoEventUnseen == stream.pc = "waiting" /\ stream.unseen => stream.woken

CodexIsHonest == EndSaysWhatWasSaid /\ NobodyWaitsInVain /\ NoEventUnseen

=============================================================================
