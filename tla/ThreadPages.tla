----------------------------- MODULE ThreadPages -----------------------------
(***************************************************************************)
(* A Thread read page by page while its turns run: thread_detail and       *)
(* scoped_thread_read of the host (storage/thread_messages.rs,             *)
(* thread_read.rs, thread_events.rs), the live events of tools.rs and the  *)
(* web client's merge of both (threads/store.ts, threads/model.ts).  The   *)
(* client shows what pages and broadcasts brought it, over lost            *)
(* connections; an answer is written past the broadcasts still queued.     *)
(* An agent reads the same conversation backwards with a cursor.  Removed  *)
(* messages are in ClientSync.                                             *)
(***************************************************************************)
EXTENDS Naturals, Sequences, FiniteSets, FiniteSetsExt, Functions

CONSTANTS Limit,        \* messages of a page (100 for clients)
          MessageLimit, \* bound: messages
          TurnLimit,    \* bound: turns
          EventLimit,   \* bound: events of a turn
          QueueLimit,   \* bound: broadcasts not yet forwarded
          DropLimit,    \* bound: lost connections
          Reads         \* bound: whether an agent reads too

VARIABLES msgs,    \* the last message's id
          turns,   \* thread_turns: messages, state, and the number of events
          owed,    \* events appended whose broadcast is still to come
          queue,   \* broadcasts not yet forwarded to the client
          web,     \* the client: online, what it shows, the page it waits for
          lost,    \* history: turns with an event the client missed for good
          missed,  \* history: messages sent while away, since the last newest page
          hole,    \* history: one of them was not in the next newest page
          agent,   \* the reading agent: its cursor and what it has read
          drops

host == <<msgs, turns, owed>>
vars == <<host, queue, web, lost, missed, hole, agent, drops>>

Turns == DOMAIN turns
Progress == [queued |-> 0, running |-> 1, done |-> 2]
Seqs(t) == 0..(turns[t].events - 1)

-----------------------------------------------------------------------------
(* Broadcasts.  What is sent to a client that is away is missed.           *)

Tell(frames) ==
    /\ queue' = IF web.online THEN queue \o frames ELSE queue
    /\ Len(queue') <= QueueLimit

Msg(m) == [kind |-> "msg", id |-> m]
TurnRow(t, state) == [kind |-> "turn", id |-> t, state |-> state]
Event(t, n) == [kind |-> "event", id |-> t, seq |-> n]

Away(sent) == missed' = IF web.online THEN missed ELSE missed \cup sent

-----------------------------------------------------------------------------
(* The host                                                                *)

NewTurn(owner) == [owner |-> owner, agent |-> 0, state |-> "queued", events |-> 0]

\* A message and its turn.
Post ==
    /\ msgs < MessageLimit /\ Len(turns) < TurnLimit
    /\ msgs' = msgs + 1
    /\ turns' = Append(turns, NewTurn(msgs'))
    /\ Tell(<<Msg(msgs'), TurnRow(Len(turns'), "queued")>>)
    /\ Away({msgs'})
    /\ UNCHANGED <<owed, web, lost, hole, agent, drops>>

\* A report or a wake: a turn that no message shows.
Wake ==
    /\ Len(turns) < TurnLimit
    /\ turns' = Append(turns, NewTurn(0))
    /\ Tell(<<TurnRow(Len(turns'), "queued")>>)
    /\ UNCHANGED <<msgs, owed, web, lost, missed, hole, agent, drops>>

Start(t) ==
    /\ turns[t].state = "queued"
    /\ turns' = [turns EXCEPT ![t].state = "running"]
    /\ Tell(<<TurnRow(t, "running")>>)
    /\ UNCHANGED <<msgs, owed, web, lost, missed, hole, agent, drops>>

\* append_next: the next sequence number of the turn, whoever appends.
Appended(t) ==
    /\ turns[t].state = "running"
    /\ turns[t].events < EventLimit
    /\ turns' = [turns EXCEPT ![t].events = @ + 1]

Said(t, n) ==
    /\ Tell(<<Event(t, n)>>)
    /\ lost' = IF web.online THEN lost ELSE lost \cup {t}

\* publish_guarded_turn_event of a tool call: broadcast under the guard.
ToolEvent(t) ==
    /\ Appended(t)
    /\ Said(t, turns[t].events)
    /\ UNCHANGED <<msgs, owed, web, missed, hole, agent, drops>>

\* publish_turn_event of the turn's ingest: the broadcast follows the append.
IngestEvent(t) ==
    /\ \A o \in owed : o[1] # t
    /\ Appended(t)
    /\ owed' = owed \cup {<<t, turns[t].events>>}
    /\ UNCHANGED <<msgs, queue, web, lost, missed, hole, agent, drops>>

Announce(o) ==
    /\ Said(o[1], o[2])
    /\ owed' = owed \ {o}
    /\ UNCHANGED <<msgs, turns, web, missed, hole, agent, drops>>

\* With a reply or without; the ingest has published its events by then.
Finish(t) ==
    /\ turns[t].state = "running" /\ \A o \in owed : o[1] # t
    /\ \E reply \in {0, 1} :
        /\ msgs + reply <= MessageLimit
        /\ msgs' = msgs + reply
        /\ turns' = [turns EXCEPT ![t].state = "done", ![t].agent = reply * msgs']
        /\ Tell([i \in 1..reply |-> Msg(msgs')] \o <<TurnRow(t, "done")>>)
        /\ Away(IF reply = 1 THEN {msgs'} ELSE {})
    /\ UNCHANGED <<owed, web, lost, hole, agent, drops>>

-----------------------------------------------------------------------------
(* thread_detail                                                           *)

Latest(S, n) == {x \in S : Cardinality({y \in S : y > x}) < n}

PageMessages(before) == Latest({m \in 1..msgs : m < before}, Limit)

\* The page's own turns; on the newest page also the last ones that are
\* unfinished or that no message shows.
Represented(page) == {t \in Turns : turns[t].owner \in page \/ turns[t].agent \in page}
Supplemental(page) ==
    Latest({t \in Turns \ Represented(page) :
            turns[t].state # "done" \/ (turns[t].owner = 0 /\ turns[t].agent = 0)}, Limit)
TimelineTurns(before, page) ==
    Represented(page) \cup (IF before = 0 THEN Supplemental(page) ELSE {})

-----------------------------------------------------------------------------
(* The web client                                                          *)

\* mutation: live arrivals are gone once the page is in, states go back, only
\* the newest events are taken.
PageOnly(prior, page) == page
Merge(prior, page) == prior \cup page
Monotone(old, new) == IF Progress[new] > Progress[old] THEN new ELSE old
OnlyNewer(prior, n) == IF \A k \in prior : k < n THEN {n} ELSE {}
Accepted(prior, n) == {n}

\* hello_ok: the client asks for the newest page of the Thread on screen.
Connect ==
    /\ ~web.online
    /\ web' = [web EXCEPT !.online = TRUE, !.asks = {0}]
    /\ UNCHANGED <<host, queue, lost, missed, hole, agent, drops>>

\* "Load earlier messages": the page before the first message shown.
Earlier ==
    /\ web.online /\ web.asks = {}
    /\ web.more /\ web.msgs # {}
    /\ web' = [web EXCEPT !.asks = {Min(web.msgs)}]
    /\ UNCHANGED <<host, queue, lost, missed, hole, agent, drops>>

Behind(m) == web.loaded \/ \E k \in web.msgs : k < m

\* mergeDetail and mergeTimelineEvents of an answer.
Answer ==
    \E before \in web.asks :
        LET page == PageMessages(IF before = 0 THEN msgs + 1 ELSE before)
            shown == TimelineTurns(before, page)
        IN
        /\ web.online
        /\ web' = [web EXCEPT
              !.asks = {},
              !.msgs = Merge(@, page),
              !.turns = [t \in Turns |-> IF t \in DOMAIN @ THEN Monotone(@[t], turns[t].state)
                                         ELSE turns[t].state],
              !.events = [t \in Turns |-> LET had == IF t \in DOMAIN @ THEN @[t] ELSE {}
                                          IN IF t \in shown THEN Merge(had, Seqs(t)) ELSE had],
              !.more = IF before # 0 \/ ~web.loaded
                       THEN \E m \in 1..msgs : page # {} /\ m < Min(page) ELSE @,
              !.loaded = TRUE]
        /\ lost' = lost \ shown
        /\ hole' = (hole \/ \E m \in missed \ page : before = 0 /\ Behind(m))
        /\ missed' = IF before = 0 THEN {} ELSE missed
        /\ UNCHANGED <<host, queue, agent, drops>>

Put(f, t, x) == [u \in DOMAIN f \cup {t} |-> IF u = t THEN x ELSE f[u]]
Of(f, t, default) == IF t \in DOMAIN f THEN f[t] ELSE default

\* msg, thread_turn, turn_event.
Receive ==
    LET f == Head(queue) IN
    /\ queue # <<>>
    /\ queue' = Tail(queue)
    /\ \/ f.kind = "msg" /\ web' = [web EXCEPT !.msgs = @ \cup {f.id}]
       \/ f.kind = "turn" /\ web' = [web EXCEPT !.turns =
             Put(@, f.id, Monotone(Of(@, f.id, "queued"), f.state))]
       \/ f.kind = "event" /\ LET had == Of(web.events, f.id, {}) IN
             web' = [web EXCEPT !.events = Put(@, f.id, had \cup Accepted(had, f.seq))]
    /\ UNCHANGED <<host, lost, missed, hole, agent, drops>>

\* The connection is lost with what it had not forwarded; requests fail.
Drop ==
    /\ web.online /\ drops < DropLimit
    /\ drops' = drops + 1
    /\ web' = [web EXCEPT !.online = FALSE, !.asks = {}]
    /\ queue' = <<>>
    /\ missed' = missed \cup {f.id : f \in {g \in Range(queue) : g.kind = "msg"}}
    /\ lost' = lost \cup {f.id : f \in {g \in Range(queue) : g.kind = "event"}}
    /\ UNCHANGED <<host, hole, agent>>

-----------------------------------------------------------------------------
(* scoped_thread_read: each page goes on before the first item of the last  *)

\* Reading from the newest message; `upto` is the newest one at that time.
ReadFirst ==
    /\ agent.upto = 0 /\ msgs > 0 /\ Reads
    /\ LET page == PageMessages(msgs + 1) IN
       agent' = [upto |-> msgs, read |-> page, again |-> FALSE,
                 next |-> IF 1 \in page THEN {} ELSE {Min(page)}]
    /\ UNCHANGED <<host, queue, web, lost, missed, hole, drops>>

\* page_ids: one more than a page is asked for to see whether it is the last.
Exactly == Limit    \* mutation: no more than a page
Asked == Limit + 1

ReadNext ==
    \E before \in agent.next :
        /\ LET asked == Latest({m \in 1..msgs : m < before}, Asked)
               page == Latest(asked, Limit)
           IN agent' = [agent EXCEPT !.read = @ \cup page,
                                     !.again = @ \/ agent.read \cap page # {},
                                     !.next = IF page = asked THEN {} ELSE {Min(page)}]
        /\ UNCHANGED <<host, queue, web, lost, missed, hole, drops>>

-----------------------------------------------------------------------------
Init ==
    /\ msgs = 0 /\ turns = <<>> /\ owed = {} /\ queue = <<>>
    /\ web = [online |-> FALSE, msgs |-> {}, turns |-> <<>>, events |-> <<>>,
              more |-> FALSE, loaded |-> FALSE, asks |-> {}]
    /\ lost = {} /\ missed = {} /\ hole = FALSE /\ drops = 0
    /\ agent = [upto |-> 0, read |-> {}, again |-> FALSE, next |-> {}]

Next ==
    \/ Post
    \/ Wake
    \/ \E t \in Turns : Start(t) \/ ToolEvent(t) \/ IngestEvent(t) \/ Finish(t)
    \/ \E o \in owed : Announce(o)
    \/ Connect
    \/ Earlier
    \/ Answer
    \/ Receive
    \/ Drop
    \/ ReadFirst
    \/ ReadNext

Spec == Init /\ [][Next]_vars

-----------------------------------------------------------------------------
(* Properties                                                              *)

\* Type invariant.
TypeOK ==
    /\ \A t \in Turns : turns[t].state \in DOMAIN Progress /\ turns[t].events \in 0..EventLimit
    /\ \A o \in owed : o[1] \in Turns /\ o[2] \in Seqs(o[1])
    /\ web.msgs \subseteq 1..msgs /\ DOMAIN web.turns \subseteq Turns
    /\ ~web.online => queue = <<>> /\ web.asks = {}
    /\ agent.read \subseteq 1..msgs

Quiet == web.online /\ web.loaded /\ web.asks = {} /\ queue = <<>> /\ owed = {}

\* Once everything sent has arrived, whatever the order of pages, broadcasts and
\* lost connections: turns have the host's states, the timeline of every turn
\* that missed nothing or came in a page since is whole, and while the messages
\* sent during an absence were in the next newest page, the conversation has no
\* hole and offers earlier messages if there are some.
PagesAreWhole ==
    Quiet =>
        /\ web.turns = [t \in Turns |-> turns[t].state]
        /\ \A t \in Turns \ lost : Of(web.events, t, {}) = Seqs(t)
        /\ ~hole => /\ \A m \in 1..msgs : (\E k \in web.msgs : k < m) => m \in web.msgs
                    /\ web.msgs = 1..msgs \/ web.more

\* An agent that follows next_cursor to its end has read every message there
\* was when it began, none of them twice, although messages keep coming.
ReadsAll == ~agent.again /\ (agent.next = {} => agent.read = 1..agent.upto)

\* "independent producers cannot collide or reorder the durable and live
\* views" (tools.rs, publish_turn_event): a turn's events reach a client in the
\* order of their sequence numbers.  The code broadcasts an event of the ingest
\* after the connection is free again, so a tool event may overtake it; a client
\* of the core drops the overtaken one (apply_delta).
LiveIsDurable ==
    \A i, j \in DOMAIN queue :
        i < j /\ queue[i].kind = "event" /\ queue[j].kind = "event" /\ queue[i].id = queue[j].id
            => queue[i].seq < queue[j].seq
=============================================================================
