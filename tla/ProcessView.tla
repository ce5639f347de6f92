----------------------------- MODULE ProcessView -----------------------------
(***************************************************************************)
(* The process rows a client shows (crates/hirsel-host/src/lash_runtime/   *)
(* process_projection.rs, process_bridge.rs, build_snapshot of protocol.rs *)
(* and the clients' handling of process_upsert and process_removed).  A    *)
(* row stands for the runs and the subscription that have one name.  The   *)
(* bridge of a lane reads the registry in three calls, projects what it    *)
(* read, compares the rows with what it found last and broadcasts the      *)
(* difference; a client that connects subscribes to the broadcasts first   *)
(* and then gets a snapshot of its own, read in the same three calls and   *)
(* not from what the bridge last published.                                *)
(***************************************************************************)
EXTENDS Integers, Sequences, FiniteSets, FiniteSetsExt

CONSTANTS Name,        \* process names
          ChangeLimit, \* bound: changes of the registry
          HelloLimit   \* bound: connections

VARIABLES reg,     \* Lash: runs, subscription and deliveries of each name
          last,    \* last_processes: what the bridge last published
          poll,    \* what the bridge has read so far
          conn,    \* the connection: its phase and what its snapshot has read
          frames,  \* broadcasts the connection has not passed on yet
          shown,   \* the rows the client shows
          early,   \* history: the snapshot read what was not published yet
          changes, hellos

vars == <<reg, last, poll, conn, frames, shown, early, changes, hellos>>

-----------------------------------------------------------------------------
(* The projection                                                          *)

\* runs: the executions of a name, oldest first; sub: its subscription;
\* fired: deliveries, each the revision that fired and the run it started.
NoSub == [state |-> "none", once |-> FALSE, rev |-> 0]
Ended(runs) == {i \in DOMAIN runs : runs[i] = "ended"}
Active(runs) == DOMAIN runs \ Ended(runs)

\* A one-shot waits until a run its revision started is in the registry.
Future(runs, sub, fired) ==
    /\ sub.state = "on"
    /\ sub.once => \A i \in DOMAIN runs : <<sub.rev, i>> \notin fired

Recurring(sub) == sub.state = "on" /\ ~sub.once

\* active_process_id, trigger_revision, and in `at` the times of the row.
Absent == [state |-> "absent", run |-> 0, trigger |-> 0, at |-> 0]
Row(runs, sub, fired) ==
    IF runs = <<>> /\ sub.state = "none" THEN Absent
    ELSE [state |-> IF Active(runs) # {} THEN "running"
                    ELSE IF Future(runs, sub, fired) THEN "waiting" ELSE "ended",
          run |-> Max(Active(runs) \cup {0}),
          trigger |-> IF Recurring(sub) THEN sub.rev ELSE 0,
          at |-> Len(runs) + Cardinality(Ended(runs)) + sub.rev]

Rows == [n \in Name |-> Row(reg[n].runs, reg[n].sub, reg[n].fired)]

-----------------------------------------------------------------------------
(* The registry: what Lash does to the runs and subscription of a name      *)

Alter(n, g) ==
    /\ changes < ChangeLimit
    /\ changes' = changes + 1
    /\ reg' = [reg EXCEPT ![n] = g]
    /\ UNCHANGED <<last, poll, conn, frames, shown, early, hellos>>

\* A run starts, by itself or for the subscription.
StartRun(n) == Alter(n, [reg[n] EXCEPT !.runs = Append(@, "active")])

FireSub(n) ==
    LET g == reg[n] IN
    /\ Future(g.runs, g.sub, g.fired)
    /\ Alter(n, [g EXCEPT !.runs = Append(@, "active"),
                          !.fired = @ \cup {<<g.sub.rev, Len(g.runs) + 1>>}])

EndRun(n) ==
    \E i \in Active(reg[n].runs) : Alter(n, [reg[n] EXCEPT !.runs[i] = "ended"])

\* A subscription is registered, retired (or disabled) or deleted; a
\* tombstoned one is as good as none.
SetSub(n) ==
    \E state \in {"on", "off", "none"}, once \in BOOLEAN :
        /\ state = "on" \/ (reg[n].sub.state \notin {"none", state} /\ once = reg[n].sub.once)
        /\ Alter(n, [reg[n] EXCEPT !.sub =
               [state |-> state, once |-> once, rev |-> @.rev + 1]])

\* cancel_process and disable_trigger act on what the row on screen names.
Cancel(n) ==
    LET r == shown[n].run IN
    /\ conn.pc = "live"
    /\ r \in Active(reg[n].runs)
    /\ Alter(n, [reg[n] EXCEPT !.runs[r] = "ended"])

Disable(n) ==
    LET sub == reg[n].sub IN
    /\ conn.pc = "live"
    /\ shown[n].trigger # 0
    /\ shown[n].trigger = sub.rev
    /\ Recurring(sub)
    /\ Alter(n, [reg[n] EXCEPT !.sub.state = "off", !.sub.rev = @ + 1])

-----------------------------------------------------------------------------
(* process_snapshot: the runs, then the subscriptions, then the deliveries  *)

Unread == [runs |-> <<>>, subs |-> <<>>]
ReadRuns == [runs |-> [n \in Name |-> reg[n].runs], subs |-> <<>>]
ReadSubs(r) == [r EXCEPT !.subs = [n \in Name |-> reg[n].sub]]
Projected(r) == [n \in Name |-> Row(r.runs[n], r.subs[n], reg[n].fired)]

-----------------------------------------------------------------------------
(* The bridge                                                              *)

\* Every interval; a poll that finds nothing new matters only if the registry
\* changes while it reads.
Poll ==
    /\ poll = Unread
    /\ Rows # last \/ changes < ChangeLimit
    /\ poll' = ReadRuns
    /\ UNCHANGED <<reg, last, conn, frames, shown, early, changes, hellos>>

PollSubs ==
    /\ poll # Unread /\ poll.subs = <<>>
    /\ poll' = ReadSubs(poll)
    /\ UNCHANGED <<reg, last, conn, frames, shown, early, changes, hellos>>

\* The rows that differ from the last ones: a removal or an upsert each.
\* mutation: a row that is gone is not announced.
UpsertsOnly(now) == {n \in Name : now[n] # last[n] /\ now[n] # Absent}
Differing(now) == {n \in Name : now[n] # last[n]}

Publish ==
    LET now == Projected(poll) IN
    /\ poll.subs # <<>>
    /\ frames' = IF conn.pc = "off" \/ Differing(now) = {} THEN frames
                 ELSE frames \o <<[n \in Differing(now) |-> now[n]]>>
    /\ last' = now
    /\ poll' = Unread
    /\ UNCHANGED <<reg, conn, shown, early, changes, hellos>>

-----------------------------------------------------------------------------
(* The client                                                              *)

\* The connection subscribes to the broadcasts before it builds the snapshot.
Hello ==
    /\ conn.pc = "off"
    /\ hellos < HelloLimit
    /\ hellos' = hellos + 1
    /\ conn' = [pc |-> "hello", read |-> Unread]
    /\ frames' = <<>>
    /\ early' = FALSE
    /\ UNCHANGED <<reg, last, poll, shown, changes>>

Snapshot ==
    /\ conn.pc = "hello"
    /\ conn' = [pc |-> "runs", read |-> ReadRuns]
    /\ early' = (early \/ Rows # last)
    /\ UNCHANGED <<reg, last, poll, frames, shown, changes, hellos>>

SnapshotSubs ==
    /\ conn.pc = "runs"
    /\ conn' = [pc |-> "subs", read |-> ReadSubs(conn.read)]
    /\ early' = (early \/ Rows # last)
    /\ UNCHANGED <<reg, last, poll, frames, shown, changes, hellos>>

HelloOk ==
    /\ conn.pc = "subs"
    /\ shown' = Projected(conn.read)
    /\ conn' = [pc |-> "live", read |-> Unread]
    /\ early' = (early \/ Rows # last)
    /\ UNCHANGED <<reg, last, poll, frames, changes, hellos>>

\* process_upsert and process_removed.
Receive ==
    /\ conn.pc = "live"
    /\ frames # <<>>
    /\ shown' = [n \in Name |-> IF n \in DOMAIN Head(frames) THEN Head(frames)[n] ELSE shown[n]]
    /\ frames' = Tail(frames)
    /\ UNCHANGED <<reg, last, poll, conn, early, changes, hellos>>

Drop ==
    /\ conn.pc # "off"
    /\ conn' = [pc |-> "off", read |-> Unread]
    /\ frames' = <<>>
    /\ early' = FALSE
    /\ UNCHANGED <<reg, last, poll, shown, changes, hellos>>

-----------------------------------------------------------------------------
Init ==
    /\ reg = [n \in Name |-> [runs |-> <<>>, sub |-> NoSub, fired |-> {}]]
    /\ last = [n \in Name |-> Absent]
    /\ poll = Unread
    /\ conn = [pc |-> "off", read |-> Unread]
    /\ frames = <<>>
    /\ shown = [n \in Name |-> Absent]
    /\ early = FALSE
    /\ changes = 0
    /\ hellos = 0

Next ==
    \/ \E n \in Name : StartRun(n) \/ FireSub(n) \/ EndRun(n) \/ SetSub(n)
    \/ \E n \in Name : Cancel(n) \/ Disable(n)
    \/ Poll
    \/ PollSubs
    \/ Publish
    \/ Hello
    \/ Snapshot
    \/ SnapshotSubs
    \/ HelloOk
    \/ Receive
    \/ Drop

Spec == Init /\ [][Next]_vars

-----------------------------------------------------------------------------
(* Properties                                                              *)

\* Type invariant.
TypeOK ==
    /\ \A n \in Name :
        /\ \A i \in DOMAIN reg[n].runs : reg[n].runs[i] \in {"active", "ended"}
        /\ reg[n].sub.state \in {"none", "on", "off"}
        /\ shown[n].state \in {"absent", "waiting", "running", "ended"}
    /\ DOMAIN last = Name
    /\ conn.pc \in {"off", "hello", "runs", "subs", "live"}
    /\ conn.pc = "off" => frames = <<>>
    /\ changes \in 0..ChangeLimit /\ hellos \in 0..HelloLimit

\* The bridge has nothing to publish and the client has seen all it published.
Quiet == conn.pc = "live" /\ frames = <<>> /\ poll = Unread /\ last = Rows

\* A client whose snapshot read the registry only while the bridge was up to
\* date shows the projection once the bridge is quiet, although both read
\* runs, subscriptions and deliveries at different moments and the client
\* applies broadcasts that are older than its snapshot.
RowsConverge == Quiet /\ ~early => shown = Rows

\* "clients remove rows that disappear from the authoritative projection"
\* (docs/adr/0021): so does every client once the bridge is quiet.  The
\* code does not announce a row that came and went between two polls, and a
\* client that connected in between keeps it.
GoneRowsGo == Quiet => \A n \in Name : Rows[n] = Absent => shown[n] = Absent
=============================================================================
