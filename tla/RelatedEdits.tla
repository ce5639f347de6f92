---------------------------- MODULE RelatedEdits ----------------------------
(***************************************************************************)
(* The references of a Thread, edited by a core client, a web client and   *)
(* agents: storage/thread_related.rs and publish_thread_related of the     *)
(* host, the requests of hirsel-client-core (client.rs, transport.rs,      *)
(* store.rs) and the web client's related/store.ts; with them create_thread,*)
(* which the core client sends on every connection until it is answered.   *)
(* A written frame is not written again, unless writing it failed, which   *)
(* does not tell whether the host has it.  Answers are written past the    *)
(* broadcasts still queued.  One reference target, one Thread.             *)
(***************************************************************************)
EXTENDS Naturals, Sequences, FiniteSets

CONSTANTS EditLimit,  \* bound: edits asked for
          IdLimit,    \* bound: reference ids
          EventLimit  \* bound: lost connections, resets, other changes

VARIABLES hist,     \* the host's history
          rev,      \* the Thread's revision
          item,     \* the id of its reference, 0 if it has none
          ids,      \* the last reference id
          receipts, \* thread_related_receipts, with the hosts' answers due
          serving,  \* requests being handled
          hits,     \* history: the histories in which an edit took effect
          made,     \* Threads created for the core client's key
          req,      \* the clients' edits
          create,   \* the core client's pending creation
          client,   \* connection, history, list and the Thread being open
          inbox,    \* frames the host has not read
          queue,    \* broadcasts not yet forwarded
          events

host == <<hist, rev, item, ids, receipts, serving, hits, made>>
wire == <<inbox, queue>>
vars == <<host, req, create, client, wire, events>>

Client == {"core", "web"}
Edit == 1 .. EditLimit     \* requests by their client ids
NoId == 0                  \* of an agent's edit
NoList == [rev |-> 0, item |-> 0]
Offline == [on |-> FALSE, hist |-> 0, list |-> NoList, opened |-> FALSE, stale |-> FALSE]
NoEdit == [by |-> "no", id |-> 0, hist |-> 0, st |-> "no"]
NoCreate == [st |-> "no", hist |-> 0, sent |-> FALSE]

Event == events < EventLimit /\ events' = events + 1

-----------------------------------------------------------------------------
(* The host                                                                *)

\* Every client has its place in the broadcast; e is the client id it carries.
Tell(e) == queue' = [c \in Client |->
    IF client[c].on THEN Append(queue[c], [e |-> e, hist |-> hist, rev |-> rev, item |-> item])
    ELSE queue[c]]

\* add and remove: neither changes what is so already.
Effect(id) ==
    \/ id = 0 /\ item = 0 /\ ids < IdLimit
       /\ ids' = ids + 1 /\ item' = ids' /\ rev' = rev + 1
    \/ id = 0 /\ item # 0 /\ UNCHANGED <<ids, item, rev>>
    \/ id # 0 /\ item = id /\ item' = 0 /\ rev' = rev + 1 /\ UNCHANGED ids
    \/ id # 0 /\ item # id /\ UNCHANGED <<ids, item, rev>>

\* mutation: a client id is not looked up.
ReplayNever(e) == FALSE
Replay(e) == e \in receipts

Settle(e, st) == req' = [req EXCEPT ![e].st = IF @ \in {"queued", "sent"} THEN st ELSE @]

\* add_thread_related, remove_thread_related: another history is an error.
Commit(x) ==
    /\ x \in serving /\ ~x.done /\ x.e \in Edit
    /\ LET e == x.e IN
       IF req[e].hist # hist
       THEN /\ serving' = serving \ {x}
            /\ IF x.live THEN Settle(e, "failed") ELSE UNCHANGED req
            /\ UNCHANGED <<rev, item, ids, receipts, hits>>
       ELSE /\ serving' = (serving \ {x}) \cup {[x EXCEPT !.done = TRUE, !.hist = hist]}
            /\ receipts' = receipts \cup {e}
            /\ IF Replay(e) THEN UNCHANGED <<rev, item, ids, hits>>
               ELSE /\ Effect(req[e].id)
                    /\ hits' = IF rev' = rev THEN hits ELSE [hits EXCEPT ![e] = Append(@, hist)]
            /\ UNCHANGED req
    /\ UNCHANGED <<hist, made, create, client, wire, events>>

\* publish_thread_related: the list of this moment, under the store's lock;
\* after a reset an error.
Publish(x) ==
    /\ x \in serving /\ x.done
    /\ serving' = serving \ {x}
    /\ IF x.hist = hist THEN Tell(x.e) /\ UNCHANGED req
       ELSE /\ UNCHANGED queue
            /\ IF x.live THEN Settle(x.e, "failed") ELSE UNCHANGED req
    /\ UNCHANGED <<hist, rev, item, ids, receipts, hits, made, create, client, inbox, events>>

\* An agent's edit is published without a client id.
Agent ==
    /\ Event
    /\ \E id \in {0, item} : Effect(id)
    /\ serving' = serving \cup {[e |-> NoId, by |-> "agent", live |-> FALSE, done |-> TRUE,
                                 hist |-> hist]}
    /\ UNCHANGED <<hist, receipts, hits, made, req, create, client, wire>>

\* Any other change of the Thread: the same counter.
Touch ==
    /\ Event
    /\ rev' = rev + 1
    /\ UNCHANGED <<hist, item, ids, receipts, serving, hits, made, req, create, client, wire>>

Reset ==
    /\ Event /\ hist = 1
    /\ hist' = 2 /\ rev' = 1 /\ item' = 0 /\ ids' = 0 /\ receipts' = {} /\ made' = 0
    /\ UNCHANGED <<serving, hits, req, create, client, wire>>

Frame(kind, e) == [kind |-> kind, e |-> e]

\* A connection's requests are handled one after the other.
Next1(c, kind) ==
    /\ client[c].on
    /\ \A x \in serving : ~(x.live /\ x.by = c)
    /\ inbox[c] # <<>> /\ Head(inbox[c]).kind = kind
    /\ inbox' = [inbox EXCEPT ![c] = Tail(@)]

Taken(c, e, live) == [e |-> e, by |-> c, live |-> live, done |-> FALSE, hist |-> 0]

ServeEdit(c) ==
    /\ Next1(c, "edit")
    /\ serving' = serving \cup {Taken(c, Head(inbox[c]).e, TRUE)}
    /\ UNCHANGED <<hist, rev, item, ids, receipts, hits, made, req, create, client, queue, events>>

\* create_in_transaction: the Thread of the key, if there is one.
KeyNever == FALSE   \* mutation: the key is not looked up
KeyKnown == made > 0

Created == made' = IF KeyKnown THEN made ELSE made + 1

ServeCreate ==
    /\ Next1("core", "create")
    /\ IF create.hist # hist
       THEN create' = [create EXCEPT !.st = "failed"] /\ UNCHANGED made
       ELSE create' = [create EXCEPT !.st = "done"] /\ Created
    /\ UNCHANGED <<hist, rev, item, ids, receipts, serving, hits, req, client, queue, events>>

-----------------------------------------------------------------------------
(* The clients' lists                                                      *)

Ordered(list, new) == IF new.rev >= list.rev THEN new ELSE list

Shown(c, new) == client' = [client EXCEPT ![c].list = Ordered(@, new)]

\* thread_detail answers with the list of this moment.
ServeOpen(c) ==
    /\ Next1(c, "open")
    /\ client' = [client EXCEPT ![c].list = Ordered(@, [rev |-> rev, item |-> item]),
                                ![c].opened = TRUE, ![c].stale = FALSE]
    /\ UNCHANGED <<host, req, create, queue, events>>

\* The core client takes a list that carries a client id only for an edit of its own
\* that is pending; the web client takes every list.
Mine(e) == e \in Edit /\ req[e].by = "core" /\ req[e].st = "sent"
Takes(c, e) == c = "web" \/ e = NoId \/ Mine(e)

Receive(c) ==
    /\ queue[c] # <<>>
    /\ queue' = [queue EXCEPT ![c] = Tail(@)]
    /\ LET f == Head(queue[c]) IN
       IF f.hist # client[c].hist THEN UNCHANGED <<client, req>>
       ELSE /\ IF Takes(c, f.e) THEN Shown(c, [rev |-> f.rev, item |-> f.item])
               ELSE client' = [client EXCEPT ![c].stale = @ \/ f.rev > client[c].list.rev]
            /\ IF f.e \in Edit /\ req[f.e].by = c THEN Settle(f.e, "done") ELSE UNCHANGED req
    /\ UNCHANGED <<host, create, inbox, events>>

-----------------------------------------------------------------------------
(* The clients                                                             *)

\* Bound: a behaviour has edits or a creation.
\* add and remove in the history the Owner was looking at.  The core client queues;
\* the web client has to be connected.
Ask(c, e) ==
    /\ req[e].st = "no" /\ \A d \in 1 .. e - 1 : req[d].st # "no"
    /\ create.st = "no"
    /\ client[c].hist # 0 /\ client[c].opened
    /\ c = "web" => client[c].on
    /\ \E id \in {0, client[c].list.item} :
         req' = [req EXCEPT ![e] = [by |-> c, id |-> id, hist |-> client[c].hist,
                                    st |-> IF c = "web" THEN "sent" ELSE "queued"]]
    /\ inbox' = IF c = "web" THEN [inbox EXCEPT ![c] = Append(@, Frame("edit", e))] ELSE inbox
    /\ UNCHANGED <<host, create, client, queue, events>>

Create ==
    /\ create.st = "no" /\ client["core"].hist # 0
    /\ \A e \in Edit : req[e].st = "no"
    /\ create' = [st |-> "pending", hist |-> client["core"].hist, sent |-> FALSE]
    /\ UNCHANGED <<host, req, client, wire, events>>

\* flush_pending: one frame; then the creations this connection has not carried.
SendEdit(e) ==
    /\ client["core"].on /\ req[e].st = "queued"
    /\ req' = [req EXCEPT ![e].st = "sent"]
    /\ inbox' = [inbox EXCEPT !["core"] = Append(@, Frame("edit", e))]
    /\ UNCHANGED <<host, create, client, queue, events>>

Unsent == create.st = "pending" /\ ~create.sent

SendCreate ==
    /\ client["core"].on /\ Unsent
    /\ create' = [create EXCEPT !.sent = TRUE]
    /\ inbox' = [inbox EXCEPT !["core"] = Append(@, Frame("create", NoId))]
    /\ UNCHANGED <<host, req, client, queue, events>>

\* mutation: the open Thread is not opened again.
OnceOpened(c) == IF client[c].opened THEN <<>> ELSE <<Frame("open", NoId)>>
Reopened(c) == <<Frame("open", NoId)>>

\* HelloOk.  Another history takes the list, the pending requests and the queued
\* frames; the Thread on screen is opened again.
Hello(c) ==
    /\ ~client[c].on
    /\ LET other == client[c].hist \notin {0, hist} IN
       /\ client' = [client EXCEPT ![c] =
             IF other THEN [Offline EXCEPT !.on = TRUE, !.hist = hist]
             ELSE [@ EXCEPT !.on = TRUE, !.hist = hist]]
       /\ req' = [e \in Edit |-> IF other /\ req[e].by = c /\ req[e].st \in {"queued", "sent"}
                                 THEN [req[e] EXCEPT !.st = "gone"] ELSE req[e]]
       /\ create' = IF c = "core" /\ other /\ create.st = "pending"
                    THEN [create EXCEPT !.st = "gone"] ELSE create
    /\ inbox' = [inbox EXCEPT ![c] = Reopened(c)]
    /\ UNCHANGED <<host, queue, events>>

\* mutation: what an earlier connection carried is not sent again.
SentKept == create

\* sent_this_connection ends with the connection.
SentForgotten == [create EXCEPT !.sent = FALSE]

\* The connection breaks: what was on the way is lost, or the host has it and its
\* answer is lost; the web client's requests fail.  `unsure` is a queued frame
\* whose writing failed.
Drop(c) ==
    /\ client[c].on /\ Event
    /\ client' = [client EXCEPT ![c].on = FALSE]
    /\ queue' = [queue EXCEPT ![c] = <<>>]
    /\ inbox' = [inbox EXCEPT ![c] = <<>>]
    /\ req' = [e \in Edit |-> IF c = "web" /\ req[e].by = c /\ req[e].st = "sent"
                              THEN [req[e] EXCEPT !.st = "failed"] ELSE req[e]]
    /\ create' = IF c = "core" THEN SentForgotten ELSE create
    /\ LET cut == {IF x.by = c THEN [x EXCEPT !.live = FALSE] ELSE x : x \in serving}
           first == IF inbox[c] = <<>> THEN {} ELSE {Head(inbox[c])}
           unsure == IF c # "core" \/ inbox[c] # <<>> THEN {}
                     ELSE {Frame("edit", e) : e \in {d \in Edit : req[d].st = "queued"}}
       IN \/ serving' = cut /\ UNCHANGED made
          \/ \E f \in first \cup unsure :
                /\ f.kind = "edit" /\ serving' = cut \cup {Taken(c, f.e, FALSE)}
                /\ UNCHANGED made
          \/ \E f \in first :
                /\ f.kind = "create" /\ create.hist = hist /\ Created
                /\ serving' = cut
    /\ UNCHANGED <<hist, rev, item, ids, receipts, hits>>

-----------------------------------------------------------------------------
Init ==
    /\ hist = 1 /\ rev = 1 /\ item = 0 /\ ids = 0 /\ receipts = {} /\ serving = {}
    /\ hits = [e \in Edit |-> <<>>] /\ made = 0
    /\ req = [e \in Edit |-> NoEdit] /\ create = NoCreate
    /\ client = [c \in Client |-> Offline]
    /\ inbox = [c \in Client |-> <<>>] /\ queue = [c \in Client |-> <<>>]
    /\ events = 0

\* What the host and a core client do by themselves for a creation.
Works(c) == Hello(c) \/ ServeOpen(c) \/ ServeEdit(c)
Finish == ServeCreate \/ SendCreate \/ \E x \in serving : Commit(x) \/ Publish(x)

Next ==
    \/ Finish \/ Agent \/ Touch \/ Reset \/ Create
    \/ \E c \in Client : Works(c) \/ Receive(c) \/ Drop(c) \/ \E e \in Edit : Ask(c, e)
    \/ \E e \in Edit : SendEdit(e)

Spec == Init /\ [][Next]_vars /\ WF_vars(Finish) /\ WF_vars(Works("core"))

-----------------------------------------------------------------------------
(* Properties                                                              *)

\* Type invariant.
TypeOK ==
    /\ item \in 0..ids /\ ids <= IdLimit /\ receipts \subseteq Edit
    /\ \A e \in Edit : req[e].st \in {"no", "queued", "sent", "done", "failed", "gone"}
    /\ create.st \in {"no", "pending", "done", "failed", "gone"}
    /\ \A c \in Client : ~client[c].on => inbox[c] = <<>> /\ queue[c] = <<>>
    /\ \A x \in serving : x.live => client[x.by].on

\* A request that reaches the host twice, after a failed write or a lost answer,
\* takes effect once, in the history it was meant for; a creation makes one
\* Thread (docs/related-links.md:43-48).
RequestsActOnce ==
    /\ \A e \in Edit : hits[e] \in {<<>>, <<req[e].hist>>}
    /\ made <= 1

Quiet(c) == /\ client[c].on /\ client[c].hist = hist /\ client[c].opened
            /\ inbox[c] = <<>> /\ queue[c] = <<>> /\ serving = {}

\* Once everything has arrived a client that has the Thread open shows its
\* references, whatever answer overtook which broadcast. The core client is excused
\* while it has passed over a list that carried the client id of another client.
RelatedIsCurrent ==
    \A c \in Client : Quiet(c) /\ ~client[c].stale => client[c].list.item = item

\* A creation does not stay pending.
CreatePending == create.st = "pending"
CreateEnds == CreatePending ~> ~CreatePending

\* "Clients compare against the last applied Related snapshot revision"
\* (docs/related-links.md:49-51): a list reaches every client. The core client
\* passes over a list with the client id of another one (transport.rs,
\* ThreadRelatedChanged) and keeps the old list until it opens the Thread again.
RelatedReachesAll == \A c \in Client : Quiet(c) => client[c].list.item = item

-----------------------------------------------------------------------------
(* The inductive invariant of RequestsActOnce                              *)

\* An edit keeps the history it was asked in.
EditShapes ==
    /\ hist \in {1, 2} /\ made \in {0, 1}
    /\ DOMAIN req = Edit /\ DOMAIN hits = Edit
    /\ \A e \in Edit :
          /\ req[e] = [by |-> req[e].by, id |-> req[e].id, hist |-> req[e].hist,
                       st |-> req[e].st]
          /\ req[e].st = "no" => req[e].hist = 0

\* An edit has taken effect only if it has a receipt, or had one before the
\* reset; a receipt is of the current history.
HitsHaveReceipts ==
    \A e \in Edit :
        /\ hits[e] \in {<<>>, <<req[e].hist>>}
        /\ hits[e] # <<>> => e \in receipts \/ (req[e].hist = 1 /\ hist = 2)
        /\ e \in receipts => req[e].hist = hist

EditInv == EditShapes /\ HitsHaveReceipts

-----------------------------------------------------------------------------
(* The inductive invariant of RelatedIsCurrent and of the types            *)

ListShapes ==
    /\ {hist, rev, item, ids} \subseteq Nat /\ hist > 0 /\ rev > 0
    /\ serving \subseteq [e : Nat, by : Client \cup {"agent"}, live : BOOLEAN,
                          done : BOOLEAN, hist : Nat]
    /\ \A x \in serving : x.live => x.by \in Client
    /\ client \in [Client -> [on : BOOLEAN, hist : Nat, list : [rev : Nat, item : Nat],
                              opened : BOOLEAN, stale : BOOLEAN]]
    /\ inbox \in [Client -> Seq([kind : {"edit", "create", "open"}, e : Nat])]
    /\ queue \in [Client -> Seq([e : Nat, hist : Nat, rev : Nat, item : Nat])]
    /\ create = [st |-> create.st, hist |-> create.hist, sent |-> create.sent]

\* No list is ahead of the Thread, and one of its revision is the Thread's.
OfNow(p) == p.rev <= rev /\ (p.rev = rev => p.item = item)

Behind(c) ==
    /\ client[c].hist <= hist
    /\ client[c].hist = 0 => client[c].list = NoList /\ ~client[c].on
    /\ client[c].hist = hist => OfNow(client[c].list)
    /\ \A i \in DOMAIN queue[c] :
          queue[c][i].hist <= hist /\ (queue[c][i].hist = hist => OfNow(queue[c][i]))

ListsAreBehind == \A c \in Client : Behind(c)

\* Revision r is one since which the reference is as it is now, and a client has
\* a list of it or of a later one, or one is on its way.
HasSince(c, r) ==
    /\ client[c].list.rev >= r => client[c].list.item = item
    /\ \A i \in DOMAIN queue[c] :
          queue[c][i].hist = hist /\ queue[c][i].rev >= r => queue[c][i].item = item
    /\ \/ client[c].list.rev >= r
       \/ \E i \in DOMAIN queue[c] : queue[c][i].hist = hist /\ queue[c][i].rev >= r

ToPublish == \E x \in serving : x.done /\ x.hist = hist
ToOpen(c) == \E i \in DOMAIN inbox[c] : inbox[c][i].kind = "open"

\* A client that has the Thread open shows its reference, or is about to.
ListComes ==
    \A c \in Client :
        client[c].on /\ client[c].hist = hist /\ client[c].opened /\ ~client[c].stale =>
            ToPublish \/ ToOpen(c) \/ \E r \in 0 .. rev : HasSince(c, r)

ListInv == ListShapes /\ TypeOK /\ ListsAreBehind /\ ListComes

=============================================================================
