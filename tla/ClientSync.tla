----------------------------- MODULE ClientSync -----------------------------
(***************************************************************************)
(* One client of the client core and the host, over one connection at a    *)
(* time: the client's outbox, its cache of one Thread and its messages,    *)
(* reconnects and resyncs; the host's acceptance of sends, its broadcast   *)
(* queue with a bound, its duplicate filter and its snapshots              *)
(* (protocol.rs, hello_dedupe.rs, thread_commands.rs, storage/chat.rs,     *)
(* client-core transport.rs, client.rs, store.rs).                         *)
(*                                                                         *)
(* Frames of one direction keep their order; the session forwards          *)
(* broadcasts in the order they were published, but what it answers to a   *)
(* request overtakes them. A lost connection loses both directions.        *)
(* Another client (`the world`) changes the Thread and removes messages.   *)
(***************************************************************************)
EXTENDS Naturals, Sequences, SequencesExt, FiniteSets

CONSTANTS
    Send,        \* client ids of the client's sends, never "none"
    QueueLimit,  \* capacity of the broadcast queue
    EventLimit   \* bound on changes by others, lost connections, refused
                 \* enqueues, failed resyncs and retries, together

History == {1, 2}       \* bound: one history reset

\* The message of another author.
Other == {<<"other", 1>>}

\* rev is Thread.revision; val is what changes without it (activity, execution).
Row == [rev : Nat, val : {0, 1}]
NewThread == [rev |-> 0, val |-> 0]

VARIABLES
    history,    \* host: meta.history_id
    thr,        \* host: the Thread's row
    messages,   \* host: its messages
    copies,     \* host: sends accepted, per client id (history variable)
    serving,    \* host: accepted sends whose handler has not published yet
    session,    \* host: "down", "subscribed" or "online"
    inbox,      \* frames to the host
    queue,      \* broadcasts the session has not forwarded
    lost,       \* whether the queue dropped some since the last hello
                \* (history variable)
    known,      \* HelloBroadcastDedupe: the last Thread sent, if any
    chan,       \* frames to the client
    client,     \* the client's store and outbox
    shown,      \* the store's confirmed messages
    removed,    \* removed_message_ids
    submitted,  \* sends submitted, each with its history
    events,     \* events counted by EventLimit
    lagged      \* the receiver is still to be told of a drop

host == <<history, thr, messages, copies, serving>>
wire == <<session, inbox, queue, lost, lagged, known, chan>>
store == <<client, shown, removed>>
vars == <<host, wire, store, submitted, events>>

\* out: the PendingSend rows of the conversation; sent: sent_this_connection;
\* opened: opened_threads; opening: a pending OpenThread; framed: its frame is
\* queued.
NewClient == [online |-> FALSE, hist |-> 0, thr |-> NewThread,
              out |-> [s \in Send |-> "no"], sent |-> {}, drafts |-> {},
              opened |-> FALSE, opening |-> FALSE, framed |-> FALSE]

\* A message is a send and how often the client id was accepted by then; the
\* messages the host has accepted so far, in any history.
Accepted == Other \cup {m \in Send \X Nat : m[2] \in 1 .. copies[m[1]]}

TypeOK ==
    /\ history \in History /\ thr \in Row
    /\ messages \subseteq Accepted
    /\ copies \in [Send -> Nat]
    /\ \A x \in serving : x.m \in Accepted /\ {x.live, x.read} \subseteq BOOLEAN
    /\ session \in {"down", "subscribed", "online"}
    /\ Len(queue) <= QueueLimit /\ {lost, lagged} \subseteq BOOLEAN
    /\ known \subseteq Row
    /\ client.online \in BOOLEAN /\ client.hist \in {0} \cup History
    /\ client.thr \in Row
    /\ client.out \in [Send -> {"no", "pending", "error"}]
    /\ client.sent \subseteq Send /\ client.drafts \subseteq Send
    /\ {client.opened, client.opening, client.framed} \subseteq BOOLEAN
    /\ shown \subseteq Accepted /\ removed \subseteq Accepted
    /\ submitted \in [Send -> {0} \cup History]

Init ==
    /\ history = 1 /\ thr = NewThread /\ messages = {}
    /\ copies = [s \in Send |-> 0] /\ serving = {}
    /\ session = "down" /\ inbox = <<>> /\ queue = <<>> /\ lost = FALSE
    /\ lagged = FALSE /\ known = {} /\ chan = <<>>
    /\ client = NewClient /\ shown = {} /\ removed = {}
    /\ submitted = [s \in Send |-> 0]
    /\ events = 0

-----------------------------------------------------------------------------
(* Broadcasts                                                              *)

\* tokio's broadcast channel: a full queue loses its oldest entries.
Broadcast(evs) ==
    IF session = "down" THEN UNCHANGED <<queue, lost, lagged>>
    ELSE LET all == queue \o evs
             over == IF Len(all) > QueueLimit THEN Len(all) - QueueLimit ELSE 0 IN
         /\ queue' = SubSeq(all, over + 1, Len(all))
         /\ lost' = (lost \/ over > 0) /\ lagged' = (lagged \/ over > 0)

\* An upsert carries no value: it is refreshed when it is forwarded.
Upsert == [kind |-> "upsert"]
Msg(m) == [kind |-> "msg", m |-> m]
MsgRemoved(m) == [kind |-> "removed", m |-> m]
Refusal(s) == [kind |-> "error", s |-> s]

Reply(frames) == chan' = chan \o frames

-----------------------------------------------------------------------------
(* The world: other clients, agents, the Owner's reset.                    *)

Event == events < EventLimit /\ events' = events + 1

\* A mutation moves the revision; activity and execution do not.
ChangeThread ==
    /\ Event
    /\ \/ thr' = [thr EXCEPT !.rev = @ + 1]
       \/ thr' = [thr EXCEPT !.val = 1 - @]
    /\ Broadcast(<<Upsert>>)
    /\ UNCHANGED <<history, messages, copies, serving, session, inbox, known,
                   chan, store, submitted>>

PostOther ==
    /\ Event
    /\ \E m \in Other \ (messages \cup removed) :
          messages' = messages \cup {m} /\ Broadcast(<<Msg(m), Upsert>>)
    /\ UNCHANGED <<history, thr, copies, serving, session, inbox, known, chan,
                   store, submitted>>

\* cancel_queued_message from another client, while the turn is queued: the
\* message goes, and the receipt of its client id with it.
CancelQueued(m) ==
    /\ Event
    /\ m \in messages \ Other
    /\ messages' = messages \ {m}
    /\ Broadcast(<<MsgRemoved(m), Upsert>>)
    /\ UNCHANGED <<history, thr, copies, serving, session, inbox, known, chan,
                   store, submitted>>

\* reset_history: every row goes, a new history id comes. Nobody is told.
Reset ==
    /\ Event /\ history = 1
    /\ history' = 2
    /\ thr' = NewThread /\ messages' = {}
    /\ UNCHANGED <<copies, serving, wire, store, submitted>>

-----------------------------------------------------------------------------
(* Sessions                                                                *)

\* run_protocol subscribes before it reads the snapshot.
Subscribe ==
    /\ session = "down"
    /\ session' = "subscribed"
    /\ UNCHANGED <<host, inbox, queue, lost, lagged, known, chan, store, submitted,
                   events>>

Hello == [kind |-> "hello", hist |-> history, thr |-> thr]

SendHello ==
    /\ session = "subscribed"
    /\ session' = "online"
    /\ Reply(<<Hello>>)
    /\ known' = {thr} /\ lost' = FALSE
    /\ UNCHANGED <<host, inbox, queue, lagged, store, submitted, events>>

\* Both directions are lost. What the host is doing for the client goes on.
Break ==
    /\ session # "down"
    /\ Event
    /\ session' = "down"
    /\ inbox' = <<>> /\ queue' = <<>> /\ chan' = <<>>
    /\ lost' = FALSE /\ lagged' = FALSE /\ known' = {}
    /\ serving' = {[x EXCEPT !.live = FALSE] : x \in serving}
    /\ client' = [client EXCEPT !.online = FALSE, !.sent = {}]
    /\ UNCHANGED <<history, thr, messages, copies, shown, removed, submitted>>

\* The session waits for its handler before it looks at anything else.
Free == session = "online" /\ \A x \in serving : ~x.live

\* A lagged receiver gets a new snapshot, then what the queue still holds.
Resync ==
    /\ Free /\ lagged
    /\ lost' = FALSE /\ lagged' = FALSE
    /\ Reply(<<Hello>>)
    /\ known' = {thr}
    /\ UNCHANGED <<host, session, inbox, queue, store, submitted, events>>

\* The snapshot fails: an error of no request. The session goes on, with the
\* duplicate filter as it was, and what the queue dropped never comes.
ResyncFails ==
    /\ Event
    /\ Free /\ lagged
    /\ lagged' = FALSE
    /\ Reply(<<Refusal("none")>>)
    /\ UNCHANGED <<host, session, inbox, queue, lost, known, store, submitted>>

\* refresh_thread_upsert, then should_send.
Forward ==
    /\ Free /\ ~lagged /\ queue # <<>>
    /\ queue' = Tail(queue)
    /\ LET e == Head(queue)
           dropped == \E k \in known : thr.rev < k.rev \/ thr = k IN
       IF e.kind # "upsert" THEN Reply(<<e>>) /\ UNCHANGED known
       ELSE IF dropped THEN UNCHANGED <<chan, known>>
       ELSE Reply(<<[kind |-> "upsert", thr |-> thr]>>) /\ known' = {thr}
    /\ UNCHANGED <<host, session, inbox, lost, lagged, store, submitted, events>>

-----------------------------------------------------------------------------
(* Requests                                                                *)

Request(kind) == Free /\ inbox # <<>> /\ Head(inbox).kind = kind
                 /\ inbox' = Tail(inbox)

\* mutation: the duplicate filter keeps the value it sent last
BeforeOpenKept == UNCHANGED known

\* before_request: the reply can move the client's copy back and forth.
BeforeOpen == known' = {}

ServeOpen ==
    /\ Request("open")
    /\ BeforeOpen
    /\ Reply(<<[kind |-> "opened", thr |-> thr, ms |-> messages]>>)
    /\ UNCHANGED <<host, session, queue, lost, lagged, store, submitted, events>>

Live(s) == {m \in messages : m[1] = s}

\* append_thread_owner_record: an error for another history, the first message
\* again for a client id that has one.
RefuseSend ==
    /\ Request("send")
    /\ Head(inbox).hist # history
    /\ Reply(<<Refusal(Head(inbox).s)>>)
    /\ UNCHANGED <<host, session, queue, lost, lagged, known, store, submitted, events>>

\* mutation: the client id is not looked up
KnownSendNever(s) == FALSE

KnownSend(s) == Live(s) # {}

AnswerAgain ==
    /\ Request("send")
    /\ Head(inbox).hist = history /\ KnownSend(Head(inbox).s)
    /\ Reply(<<Msg(CHOOSE m \in Live(Head(inbox).s) : TRUE)>>)
    /\ UNCHANGED <<host, session, queue, lost, lagged, known, store, submitted, events>>

AcceptSend ==
    /\ Request("send")
    /\ LET s == Head(inbox).s IN
       /\ Head(inbox).hist = history /\ ~KnownSend(s)
       /\ copies' = [copies EXCEPT ![s] = @ + 1]
       /\ messages' = messages \cup {<<s, copies'[s]>>}
       /\ serving' = serving \cup
            {[m |-> <<s, copies'[s]>>, live |-> TRUE, read |-> FALSE]}
    /\ UNCHANGED <<history, thr, session, queue, lost, lagged, known, chan, store,
                   submitted, events>>

\* The handler reads the request back; a message removed since its acceptance
\* has none any more, which is an error of the send.
ReadRequest(x) ==
    /\ x \in serving /\ ~x.read
    /\ IF x.m \in messages
       THEN /\ serving' = (serving \ {x}) \cup {[x EXCEPT !.read = TRUE]}
            /\ UNCHANGED chan
       ELSE /\ serving' = serving \ {x}
            /\ IF x.live THEN Reply(<<Refusal(x.m[1])>>) ELSE UNCHANGED chan
    /\ UNCHANGED <<history, thr, messages, copies, session, inbox, queue, lost, lagged,
                   known, store, submitted, events>>

Publishes(x) ==
    /\ x \in serving /\ x.read
    /\ serving' = serving \ {x}
    /\ Broadcast(<<Msg(x.m), Upsert>>)
    /\ UNCHANGED <<history, thr, messages, copies, session, inbox, known, store,
                   submitted>>

\* publish_thread_message, which nothing orders with the message's removal.
Publish(x) == Publishes(x) /\ UNCHANGED <<chan, events>>

\* enqueue is refused: the message is published all the same, and the send gets
\* an error.
PublishRefused(x) ==
    /\ Event
    /\ Publishes(x)
    /\ IF x.live THEN Reply(<<Refusal(x.m[1])>>) ELSE UNCHANGED chan

-----------------------------------------------------------------------------
(* The client                                                              *)

Submit(s) ==
    /\ client.hist # 0 /\ submitted[s] = 0
    /\ client' = [client EXCEPT !.out[s] = "pending"]
    /\ submitted' = [submitted EXCEPT ![s] = client.hist]
    /\ UNCHANGED <<host, wire, shown, removed, events>>

Retry(s) ==
    /\ client.out[s] = "error"
    /\ Event
    /\ client' = [client EXCEPT !.out[s] = "pending", !.sent = @ \ {s}]
    /\ UNCHANGED <<host, wire, shown, removed, submitted>>

OpenThread ==
    /\ client.hist # 0 /\ ~client.opening /\ ~client.opened
    /\ client' = [client EXCEPT !.opening = TRUE, !.framed = TRUE]
    /\ UNCHANGED <<host, wire, shown, removed, submitted, events>>

Unsent == {s \in Send : client.out[s] = "pending" /\ s \notin client.sent}

\* flush_pending: the queued frames, then the sends this connection has not
\* carried.
Flush ==
    /\ client.online /\ session = "online"
    /\ client.framed \/ Unsent # {}
    /\ inbox' = inbox
         \o (IF client.framed THEN <<[kind |-> "open"]>> ELSE <<>>)
         \o SetToSeq({[kind |-> "send", s |-> s, hist |-> submitted[s]] : s \in Unsent})
    /\ client' = [client EXCEPT !.framed = FALSE, !.sent = @ \cup Unsent]
    /\ UNCHANGED <<host, session, queue, lost, lagged, known, chan, shown, removed,
                   submitted, events>>

Receive(kind) == chan # <<>> /\ Head(chan).kind = kind /\ chan' = Tail(chan)

\* mutation: the texts of unsent messages go with the old history
DraftsLost(c) == c.drafts

\* recovered_drafts
Drafts(c) == c.drafts \cup {s \in Send : c.out[s] # "no"}

\* apply_hello_ok: another history is another store; the drafts are kept.
NewStore(c, h) ==
    IF c.hist \notin {0, h}
    THEN [NewClient EXCEPT !.drafts = Drafts(c)]
    ELSE c

\* mutation: opened Threads are not opened again
ReopenPending(c) == c.opening

\* A pending open loses its frame with its connection; an opened Thread is
\* opened again.
Reopen(c) == c.opening \/ c.opened

\* mutation: what was sent before the resync is not sent again
SentKept(c) == c.sent

\* sent_this_connection is cleared by every HelloOk.
SentAfterHello(c) == {}

ReceiveHello ==
    /\ Receive("hello")
    /\ LET f == Head(chan)
           c == NewStore(client, f.hist)
           other == client.hist \notin {0, f.hist} IN
       /\ client' = [c EXCEPT !.online = TRUE, !.hist = f.hist, !.thr = f.thr,
                              !.sent = SentAfterHello(c), !.opening = Reopen(c),
                              !.framed = Reopen(c)]
       /\ shown' = IF other THEN {} ELSE shown
       /\ removed' = IF other THEN {} ELSE removed
    /\ UNCHANGED <<host, session, inbox, queue, lost, lagged, known, submitted, events>>

\* apply_message: the pending row of its client id goes, whatever else.
Confirm(c, ms) ==
    [c EXCEPT !.out = [s \in Send |-> IF c.out[s] = "pending"
                                         /\ \E m \in ms : m[1] = s
                                      THEN "no" ELSE c.out[s]]]

\* mutation: removed messages are not remembered
StillShownAll(ms) == ms

StillShown(ms) == ms \ removed

ReceiveMsg ==
    /\ Receive("msg")
    /\ LET m == Head(chan).m IN
       /\ client' = Confirm(client, {m})
       /\ shown' = shown \cup StillShown({m})
    /\ UNCHANGED <<host, session, inbox, queue, lost, lagged, known, removed,
                   submitted, events>>

ReceiveRemoved ==
    /\ Receive("removed")
    /\ removed' = removed \cup {Head(chan).m}
    /\ shown' = shown \ {Head(chan).m}
    /\ UNCHANGED <<host, session, inbox, queue, lost, lagged, known, client,
                   submitted, events>>

\* mutation: equal revisions are taken for equal Threads
NewerOnly(old, new) == IF new.rev > old.rev THEN new ELSE old

\* upsert_thread
Newer(old, new) == IF new.rev >= old.rev THEN new ELSE old

ReceiveUpsert ==
    /\ Receive("upsert")
    /\ client' = [client EXCEPT !.thr = Newer(@, Head(chan).thr)]
    /\ UNCHANGED <<host, session, inbox, queue, lost, lagged, known, shown, removed,
                   submitted, events>>

\* apply_detail: only for an open this client waits for; messages are merged.
ReceiveOpened ==
    /\ Receive("opened")
    /\ LET f == Head(chan) IN
       IF client.opening
       THEN /\ client' = [Confirm(client, f.ms) EXCEPT
                            !.opening = FALSE, !.opened = TRUE,
                            !.thr = Newer(@, f.thr)]
            /\ shown' = shown \cup StillShown(f.ms)
       ELSE UNCHANGED <<client, shown>>
    /\ UNCHANGED <<host, session, inbox, queue, lost, lagged, known, removed,
                   submitted, events>>

\* An error without a client id changes nothing (it is told to the application).
ReceiveError ==
    /\ Receive("error")
    /\ client' = [client EXCEPT !.out =
                    [s \in Send |-> IF s = Head(chan).s /\ @[s] = "pending"
                                    THEN "error" ELSE @[s]]]
    /\ UNCHANGED <<host, session, inbox, queue, lost, lagged, known, shown, removed,
                   submitted, events>>

-----------------------------------------------------------------------------
World == ChangeThread \/ PostOther \/ Reset \/ Break
         \/ \E m \in messages : CancelQueued(m)

Hosts == \/ Subscribe \/ SendHello \/ Resync \/ Forward
         \/ ServeOpen \/ RefuseSend \/ AnswerAgain \/ AcceptSend
         \/ \E x \in serving : ReadRequest(x) \/ Publish(x)

Owner == OpenThread \/ \E s \in Send : Submit(s) \/ Retry(s)

Clients == \/ Flush \/ ReceiveHello \/ ReceiveMsg \/ ReceiveRemoved
           \/ ReceiveUpsert \/ ReceiveOpened \/ ReceiveError

Next == World \/ Hosts \/ Owner \/ Clients \/ ResyncFails
        \/ \E x \in serving : PublishRefused(x)

\* The reconnect loop never gives up; the session and the client serve what
\* they receive.
Spec == Init /\ [][Next]_vars /\ WF_vars(Hosts) /\ WF_vars(Clients)

-----------------------------------------------------------------------------
(* Properties                                                              *)

\* A send is one message however often it is sent: after a lost answer, a
\* resync or a retry, and none reaches another history (thread_commands.rs:9-10
\* "a retry must still acknowledge its accepted message").
OneCopy ==
    /\ \A s \in Send : Cardinality(Live(s)) <= 1
    /\ \A m \in messages \ Other : submitted[m[1]] = history

\* What the Owner submitted stays with the client until the host has it; a
\* history reset leaves it as a draft (store.rs:277-278).
NothingSubmittedIsLost ==
    \A s \in Send : submitted[s] # 0 =>
        client.out[s] # "no" \/ s \in client.drafts \/ copies[s] > 0

Quiet ==
    /\ client.online /\ session = "online" /\ client.hist = history
    /\ inbox = <<>> /\ queue = <<>> /\ ~lagged /\ chan = <<>> /\ serving = {}
    /\ ~client.framed

\* Broadcasts were dropped and the snapshot in their place failed: the client is
\* behind until its connection ends.
Stale == lost /\ ~lagged

\* When nothing is under way any more, the client shows the host's Thread, every
\* message of a Thread it has open, and none whose removal it was told: whatever
\* was dropped, overtaken or refreshed in between. Only the last holds where a
\* resync failed.
QuietClientIsCurrent ==
    Quiet =>
        /\ ~Stale => client.thr = thr /\ (client.opened => messages \subseteq shown)
        /\ shown \cap removed = {}

\* A pending send does not stay pending: it is confirmed, refused or a draft,
\* unless a failed resync took its echo away.
SendPending(s) == client.out[s] = "pending"
SendIsAnswered == \A s \in Send : SendPending(s) ~> ~SendPending(s) \/ Stale

-----------------------------------------------------------------------------
(* The inductive invariant of OneCopy and NothingSubmittedIsLost           *)

ToHost == {[kind |-> "open"]} \cup [kind : {"send"}, s : Send, hist : {0} \cup History]
Queued == {Upsert} \cup [kind : {"msg", "removed"}, m : Accepted]
ToClient == [kind : {"hello"}, hist : History, thr : Row]
            \cup [kind : {"upsert"}, thr : Row]
            \cup [kind : {"opened"}, thr : Row, ms : SUBSET Accepted]
            \cup [kind : {"msg", "removed"}, m : Accepted]
            \cup [kind : {"error"}, s : Send \cup {"none"}]

\* Whatever carries a message carries an accepted one.
SyncShapes ==
    /\ history \in History /\ thr \in Row
    /\ copies \in [Send -> Nat] /\ submitted \in [Send -> {0} \cup History]
    /\ messages \subseteq Accepted
    /\ serving \subseteq [m : Accepted \ Other, live : BOOLEAN, read : BOOLEAN]
    /\ inbox \in Seq(ToHost) /\ queue \in Seq(Queued) /\ chan \in Seq(ToClient)
    /\ lagged \in BOOLEAN
    /\ client \in [online : BOOLEAN, hist : {0} \cup History, thr : Row,
                   out : [Send -> {"no", "pending", "error"}], sent : SUBSET Send,
                   drafts : SUBSET Send, opened : BOOLEAN, opening : BOOLEAN,
                   framed : BOOLEAN]

OneMessage ==
    \A m \in messages \ Other :
        submitted[m[1]] = history /\ \A n \in messages \ Other : n[1] = m[1] => n = m

\* A frame carries the history its send was submitted in.
MeantFor ==
    \A i \in DOMAIN inbox : inbox[i].kind = "send" =>
        inbox[i].hist \in {0, submitted[inbox[i].s]}

SendInv == SyncShapes /\ OneMessage /\ MeantFor /\ NothingSubmittedIsLost

-----------------------------------------------------------------------------
(* The inductive invariant of QuietClientIsCurrent, on top of SendInv      *)

\* Frames, and requests whose answer is still to be sent, are of a session.
Connected ==
    session # "online" => chan = <<>> /\ ~client.online /\ \A x \in serving : ~x.live

\* What was told to be removed is a send's message that is gone for good.
Gone == Accepted \ (Other \cup messages)
RemovedIsGone ==
    /\ removed \subseteq Gone /\ shown \cap removed = {}
    /\ \A i \in DOMAIN queue : queue[i].kind = "removed" => queue[i].m \in Gone
    /\ \A i \in DOMAIN chan : chan[i].kind = "removed" => chan[i].m \in Gone

\* A message the client has not got from anywhere else is still on its way.
Carried(m) == lost \/ (\E x \in serving : x.m = m) \/ \E i \in DOMAIN queue : queue[i] = Msg(m)
AfterOpened(i, m) ==
    \E j \in DOMAIN chan : i < j /\ (chan[j].kind = "hello" \/ chan[j] = Msg(m))
OpenedIsCompleted ==
    \A i \in DOMAIN chan : chan[i].kind = "opened" =>
        \A m \in messages \ chan[i].ms : Carried(m) \/ AfterOpened(i, m)

OpenIsUnderWay ==
    client.opening /\ \/ client.framed
                      \/ \E i \in DOMAIN inbox : inbox[i].kind = "open"
                      \/ \E i \in DOMAIN chan : chan[i].kind = "opened"
MessagesArrive ==
    client.online /\ client.hist = history /\ (client.opened \/ client.opening) =>
        \A m \in messages : m \in shown \/ Carried(m) \/ AfterOpened(0, m) \/ OpenIsUnderWay

\* No history goes back: of the client, the hellos on their way, the host.
HistoriesGrow ==
    /\ client.hist <= history
    /\ \A i \in DOMAIN chan : chan[i].kind = "hello" =>
          /\ client.hist <= chan[i].hist /\ chan[i].hist <= history
          /\ \A j \in DOMAIN chan : i <= j /\ chan[j].kind = "hello" => chan[i].hist <= chan[j].hist

\* Frames of the host's history, and whether the client has or gets any.
HasThread(f) == f.kind \in {"hello", "upsert", "opened"}
Current(f) == f.kind = "hello" /\ f.hist = history
Fresh(i) == client.hist = history \/ \E h \in DOMAIN chan : h <= i /\ Current(chan[h])
Told == client.hist = history \/ \E h \in DOMAIN chan : Current(chan[h])

\* In one history the revisions do not go back either.
RevisionsGrow ==
    /\ client.hist = history => client.thr.rev <= thr.rev
    /\ \A i \in DOMAIN chan : HasThread(chan[i]) =>
          /\ client.hist = history => client.thr.rev <= chan[i].thr.rev
          /\ Fresh(i) => chan[i].thr.rev <= thr.rev
          /\ Fresh(i) => \A j \in DOMAIN chan :
                i <= j /\ HasThread(chan[j]) => chan[i].thr.rev <= chan[j].thr.rev

\* The Thread the duplicate filter knows is the last one the client is told.
Sets(f) == f.kind \in {"hello", "upsert"}
KnownIsLast ==
    Told => \A k \in known :
        \/ \E i \in DOMAIN chan :
              /\ Sets(chan[i]) /\ chan[i].thr = k
              /\ \A j \in DOMAIN chan : i < j => ~HasThread(chan[j])
        \/ client.thr = k /\ \A j \in DOMAIN chan : ~HasThread(chan[j])

\* With no upsert to come, the client has or is told the Thread as it is.
LastIsCurrent ==
    session = "online" /\ Told /\ ~lost /\ (\A i \in DOMAIN queue : queue[i] # Upsert) =>
        \/ \E i \in DOMAIN chan :
              /\ Sets(chan[i])
              /\ \A j \in DOMAIN chan : i <= j /\ HasThread(chan[j]) => chan[j].thr = thr
        \/ client.thr = thr /\ \A j \in DOMAIN chan : HasThread(chan[j]) => chan[j].thr = thr

FlowInv ==
    /\ TypeOK /\ Connected /\ RemovedIsGone /\ OpenedIsCompleted /\ MessagesArrive
    /\ HistoriesGrow /\ RevisionsGrow /\ KnownIsLast /\ LastIsCurrent

=============================================================================
