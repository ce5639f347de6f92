------------------------------- MODULE WebClient -------------------------------
(***************************************************************************)
(* The web application's connection (app/src/ws/client.ts and the sends and *)
(* requests of app/src/threads/store.ts) against the session that           *)
(* protocol.rs runs for it. A message of the Owner stays in `pending` until *)
(* its echo, an error or a timeout settles it, and is sent again by every   *)
(* hello_ok; a request is failed by the loss of its connection; an upload   *)
(* waits in the outbox for a connection and then for an answer or its       *)
(* timeout. An error frame that comes before hello_ok drops the token.      *)
(* Frames of one direction keep their order, a lost connection loses both.  *)
(* A receiver that lagged loses broadcasts and gets a hello in their place, *)
(* or an error and nothing else when the snapshot fails.                    *)
(* Abstracted: what is shown, cancelled messages and the acknowledgement by *)
(* an opened Thread, and all frames but those of one request and one upload,*)
(* the representatives of their kinds.                                      *)
(***************************************************************************)
EXTENDS Naturals, Sequences, SequencesExt

CONSTANTS
    Message,     \* client ids of the Owner's messages
    FaultLimit,  \* bound on lost connections, lags, failures of the host, resets
    TimeLimit    \* bound on the request's timeout, sign-ins and retries by hand

VARIABLES
    host,      \* history, accepted messages, whether the token is valid
    sock,      \* "none", "opening" (hello sent), "open" (hello_ok seen), "stopped"
    served,    \* the host answered this connection's hello
    up, down,  \* frames in flight
    web,       \* token, history, outbox, upload and request of the client
    pending,   \* each message: "no", "sending" or "failed"
    armed,     \* messages whose acknowledgement timer runs
    sentIn,    \* the history each message was submitted in, 0 if it was not
    faults, ticks

vars == <<host, sock, served, up, down, web, pending, armed, sentIn, faults, ticks>>

History == {1, 2}
Send(m) == [k |-> "send", m |-> m, h |-> sentIn[m]]
Action == [k |-> "action", m |-> "none", h |-> web.hist]
Upload == [k |-> "upload", m |-> "none", h |-> 0]
Hello == [k |-> "hello", m |-> "none", h |-> host.hist]
Echo(m) == [k |-> "msg", m |-> m, h |-> 0]
Error(m) == [k |-> "error", m |-> m, h |-> 0]
Answer(k) == [k |-> k, m |-> "none", h |-> 0]

TypeOK ==
    /\ host.hist \in History /\ host.accepted \subseteq Message /\ host.valid \in BOOLEAN
    /\ sock \in {"none", "opening", "open", "stopped"} /\ served \in BOOLEAN
    /\ web.token \in BOOLEAN /\ web.hist \in History \cup {0}
    /\ web.request \in {"no", "waiting", "applied", "failed"}
    /\ web.upload \in {"no", "queued", "waiting", "done", "failed"}
    /\ pending \in [Message -> {"no", "sending", "failed"}]
    /\ armed \subseteq Message /\ sentIn \in [Message -> History \cup {0}]
    /\ faults \in 0 .. FaultLimit /\ ticks \in 0 .. TimeLimit

Init ==
    /\ host = [hist |-> 1, accepted |-> {}, valid |-> TRUE]
    /\ sock = "none" /\ served = FALSE /\ up = <<>> /\ down = <<>>
    /\ web = [token |-> TRUE, hist |-> 0, request |-> "no", upload |-> "no"]
    /\ pending = [m \in Message |-> "no"] /\ armed = {} /\ sentIn = [m \in Message |-> 0]
    /\ faults = 0 /\ ticks = 0

Fault == faults < FaultLimit /\ faults' = faults + 1
Tick == ticks < TimeLimit /\ ticks' = ticks + 1

-----------------------------------------------------------------------------
(* The session (protocol.rs)                                               *)

\* run_protocol: the token is checked, then the snapshot is read and sent.
SayHello ==
    /\ sock = "opening" /\ ~served /\ served' = TRUE
    /\ down' = <<IF host.valid THEN Hello ELSE Error("none")>>
    /\ UNCHANGED <<host, sock, up, web, pending, armed, sentIn, faults, ticks>>

\* build_snapshot fails: an error frame of the same form, and the session ends.
SnapshotFails ==
    /\ sock = "opening" /\ ~served /\ host.valid /\ Fault /\ served' = TRUE
    /\ down' = <<Error("none")>>
    /\ UNCHANGED <<host, sock, up, web, pending, armed, sentIn, ticks>>

Request(k) == sock = "open" /\ up # <<>> /\ Head(up).k = k /\ up' = Tail(up)
Replies(f) == down' = Append(down, f)

\* A message the host has is echoed; a new one is accepted, or refused with an
\* error, as one of another history is.
ServeSend ==
    /\ Request("send")
    /\ LET m == Head(up).m IN
       \/ /\ Head(up).h = host.hist
          /\ host' = [host EXCEPT !.accepted = @ \cup {m}] /\ Replies(Echo(m))
       \/ /\ Head(up).h # host.hist \/ m \notin host.accepted
          /\ Replies(Error(m)) /\ UNCHANGED host
    /\ UNCHANGED <<sock, served, web, pending, armed, sentIn, faults, ticks>>

ServeAction ==
    /\ Request("action")
    /\ Replies(Answer(IF Head(up).h = host.hist THEN "applied" ELSE "refused"))
    /\ UNCHANGED <<host, sock, served, web, pending, armed, sentIn, faults, ticks>>

ServeUpload ==
    /\ Request("upload") /\ Replies(Answer("blob"))
    /\ UNCHANGED <<host, sock, served, web, pending, armed, sentIn, faults, ticks>>

\* at lists, in order, the places in down of all frames but the broadcasts.
Answers(at) ==
    LET kept == {i \in DOMAIN down : down[i].k # "msg"} IN
    /\ at \in [DOMAIN at -> kept] /\ \A i \in kept : \E j \in DOMAIN at : at[j] = i
    /\ \A i, j \in DOMAIN at : i < j => at[i] < at[j]

\* The receiver lagged: the broadcasts it missed are gone, a snapshot follows,
\* or, when that fails, an error of no request, and the session goes on.
Lag ==
    /\ sock = "open" /\ Fault
    /\ \E i \in DOMAIN down : down[i].k = "msg"
    /\ \E n \in 0 .. Len(down), f \in {Hello, Error("none")} :
          \E at \in [1 .. n -> DOMAIN down] :
             Answers(at) /\ down' = Append([i \in 1 .. n |-> down[at[i]]], f)
    /\ UNCHANGED <<host, sock, served, up, web, pending, armed, sentIn, ticks>>

\* reset_history; the connections stay.
Reset ==
    /\ host.hist = 1 /\ Fault
    /\ host' = [host EXCEPT !.hist = 2, !.accepted = {}]
    /\ UNCHANGED <<sock, served, up, down, web, pending, armed, sentIn, ticks>>

\* The Owner's token is replaced.
Revoke ==
    /\ host.valid /\ Fault /\ host' = [host EXCEPT !.valid = FALSE]
    /\ UNCHANGED <<sock, served, up, down, web, pending, armed, sentIn, ticks>>

-----------------------------------------------------------------------------
(* The connection (ws/client.ts)                                           *)

\* connect, and scheduleReconnect's timer.
OpenSocket ==
    /\ sock = "none" /\ sock' = "opening" /\ served' = FALSE /\ up' = <<>> /\ down' = <<>>
    /\ UNCHANGED <<host, web, pending, armed, sentIn, faults, ticks>>

\* mutation: requests are left waiting
RequestKept == web
\* disconnectThreads
RequestFailed == IF web.request = "waiting" THEN [web EXCEPT !.request = "failed"] ELSE web

\* The close event.
Close ==
    /\ sock \in {"opening", "open"} /\ Fault
    /\ sock' = "none" /\ up' = <<>> /\ down' = <<>>
    /\ web' = RequestFailed /\ armed' = {}
    /\ UNCHANGED <<host, served, pending, sentIn, ticks>>

Receive(k) == down # <<>> /\ Head(down).k = k

\* handleAuthReject: any error without a client id before hello_ok.
Rejected ==
    /\ sock = "opening" /\ Receive("error") /\ down' = <<>>
    /\ sock' = "stopped" /\ up' = <<>>
    /\ web' = [RequestFailed EXCEPT !.token = FALSE,
                 !.upload = IF @ \in {"queued", "waiting"} THEN "failed" ELSE @]
    /\ armed' = {}
    /\ UNCHANGED <<host, served, pending, sentIn, faults, ticks>>

\* The Owner signs in again with the host's token.
SignIn ==
    /\ sock = "stopped" /\ Tick
    /\ sock' = "none" /\ host' = [host EXCEPT !.valid = TRUE] /\ web' = [web EXCEPT !.token = TRUE]
    /\ UNCHANGED <<served, up, down, pending, armed, sentIn, faults>>

\* mutation: only new messages are sent, the pending ones are left
NoneUnsettled == {}
Unsettled == {m \in Message : pending[m] = "sending"}

\* hello_ok of the known history: pending messages again, then the outbox.
HelloOk ==
    /\ Receive("hello") /\ web.hist \in {0, Head(down).h}
    /\ down' = Tail(down) /\ sock' = "open"
    /\ armed' = armed \cup Unsettled
    /\ up' = up \o SetToSeq({Send(m) : m \in Unsettled})
                \o (IF web.upload = "queued" THEN <<Upload>> ELSE <<>>)
    /\ web' = [web EXCEPT !.hist = Head(down).h, !.upload = IF @ = "queued" THEN "waiting" ELSE @]
    /\ UNCHANGED <<host, served, pending, sentIn, faults, ticks>>

\* acceptHistory: the requests and the store of the other history go.
HelloOther ==
    /\ Receive("hello") /\ web.hist \notin {0, Head(down).h}
    /\ down' = Tail(down) /\ sock' = "open"
    /\ web' = [RequestFailed EXCEPT !.hist = Head(down).h,
                 !.upload = IF @ \in {"queued", "waiting"} THEN "failed" ELSE @]
    /\ pending' = [m \in Message |-> "no"] /\ armed' = {}
    /\ UNCHANGED <<host, served, up, sentIn, faults, ticks>>

-----------------------------------------------------------------------------
(* Messages (threads/store.ts)                                             *)

Ready == sock = "open" /\ web.hist # 0

SendMessage(m) ==
    /\ Ready /\ sentIn[m] = 0
    /\ sentIn' = [sentIn EXCEPT ![m] = web.hist]
    /\ pending' = [pending EXCEPT ![m] = "sending"] /\ armed' = armed \cup {m}
    /\ up' = Append(up, [k |-> "send", m |-> m, h |-> web.hist])
    /\ UNCHANGED <<host, sock, served, down, web, faults, ticks>>

\* transmitMessage does nothing without a connection: the next hello_ok sends it.
RetryMessage(m) ==
    /\ pending[m] = "failed" /\ Tick
    /\ pending' = [pending EXCEPT ![m] = "sending"]
    /\ IF Ready THEN up' = Append(up, Send(m)) /\ armed' = armed \cup {m}
       ELSE UNCHANGED <<up, armed>>
    /\ UNCHANGED <<host, sock, served, down, web, sentIn, faults>>

AckTimeout(m) ==
    /\ m \in armed /\ armed' = armed \ {m}
    /\ pending' = [pending EXCEPT ![m] = IF @ = "no" THEN "no" ELSE "failed"]
    /\ UNCHANGED <<host, sock, served, up, down, web, sentIn, faults, ticks>>

\* receiveMessage, acknowledgeMessage
Echoed ==
    /\ sock = "open" /\ Receive("msg") /\ down' = Tail(down)
    /\ LET m == Head(down).m IN
       pending' = [pending EXCEPT ![m] = "no"] /\ armed' = armed \ {m}
    /\ UNCHANGED <<host, sock, served, up, web, sentIn, faults, ticks>>

\* An error of no request, after hello_ok: it is shown to the Owner, no more.
ErrorShown ==
    /\ sock = "open" /\ Receive("error") /\ Head(down).m = "none" /\ down' = Tail(down)
    /\ UNCHANGED <<host, sock, served, up, web, pending, armed, sentIn, faults, ticks>>

\* An error with the message's client id.
Refused ==
    /\ sock = "open" /\ Receive("error") /\ Head(down).m \in Message /\ down' = Tail(down)
    /\ LET m == Head(down).m IN
       /\ pending' = [pending EXCEPT ![m] = IF @ = "no" THEN "no" ELSE "failed"]
       /\ armed' = armed \ {m}
    /\ UNCHANGED <<host, sock, served, up, web, sentIn, faults, ticks>>

-----------------------------------------------------------------------------
(* Requests and uploads                                                    *)

\* threadAction; a request needs a connection.
Ask ==
    /\ Ready /\ web.request = "no"
    /\ up' = Append(up, Action) /\ web' = [web EXCEPT !.request = "waiting"]
    /\ UNCHANGED <<host, sock, served, down, pending, armed, sentIn, faults, ticks>>

\* enqueue: at once on an open socket, else in the outbox.
UploadBlob ==
    /\ web.upload = "no"
    /\ IF sock = "open" THEN up' = Append(up, Upload) /\ web' = [web EXCEPT !.upload = "waiting"]
       ELSE UNCHANGED up /\ web' = [web EXCEPT !.upload = "queued"]
    /\ UNCHANGED <<host, sock, served, down, pending, armed, sentIn, faults, ticks>>

\* thread_action_applied, an error of the request, blob_ok: settle what waits.
Settles ==
    /\ sock = "open" /\ down # <<>> /\ down' = Tail(down)
    /\ \/ Receive("blob") /\ web' = [web EXCEPT !.upload = IF @ = "waiting" THEN "done" ELSE @]
       \/ /\ Head(down).k \in {"applied", "refused"}
          /\ web' = IF web.request # "waiting" THEN web
                    ELSE [web EXCEPT !.request = IF Receive("applied") THEN "applied" ELSE "failed"]
    /\ UNCHANGED <<host, sock, served, up, pending, armed, sentIn, faults, ticks>>

RequestTimeout ==
    /\ web.request = "waiting" /\ Tick /\ web' = [web EXCEPT !.request = "failed"]
    /\ UNCHANGED <<host, sock, served, up, down, pending, armed, sentIn, faults>>

\* The promise is settled: what the outbox or the host still does is not seen.
UploadTimeout ==
    /\ web.upload \in {"queued", "waiting"} /\ web' = [web EXCEPT !.upload = "failed"]
    /\ UNCHANGED <<host, sock, served, up, down, pending, armed, sentIn, faults, ticks>>

-----------------------------------------------------------------------------

Steady ==
    \/ SayHello \/ ServeSend \/ ServeAction \/ ServeUpload \/ OpenSocket \/ Rejected \/ HelloOk \/ HelloOther
    \/ Echoed \/ Refused \/ ErrorShown \/ Settles

Next ==
    \/ Steady \/ SnapshotFails \/ Lag \/ Reset \/ Revoke \/ Close \/ SignIn
    \/ Ask \/ UploadBlob \/ RequestTimeout \/ UploadTimeout
    \/ \E m \in Message : SendMessage(m) \/ RetryMessage(m) \/ AckTimeout(m)

Spec == Init /\ [][Next]_vars /\ WF_vars(Steady) /\ WF_vars(UploadTimeout)
             /\ \A m \in Message : WF_vars(AckTimeout(m))

-----------------------------------------------------------------------------
(* What the client owes the Owner while it knows the host's history: a       *)
(* message he sent is still in the list of pending ones, to be sent again or *)
(* retried by hand, or the host accepted it, whatever frames and connections *)
(* were lost; and no request waits on a connection that is gone.             *)
WebKeepsFaith ==
    /\ \A m \in Message : sentIn[m] = host.hist => pending[m] # "no" \/ m \in host.accepted
    /\ web.request = "waiting" => sock = "open"

(* Every message is acknowledged or shown as failed in the end, unless the   *)
(* client was turned away: lost connections and lags are bounded here, and   *)
(* the timers, the session and the socket's events are fair. An echo that a  *)
(* failed resync took away is made up for by the acknowledgement timer.      *)
Unsent(m) == pending[m] = "sending"
TurnedAway == sock = "stopped"
SendSettles == \A m \in Message : Unsent(m) ~> ~Unsent(m) \/ TurnedAway

(* "Signalled to the app when the token is rejected" (ws/client.ts:41): the  *)
(* stored token is dropped only for a token the host does not take.          *)
TokenStands == host.valid => web.token

-----------------------------------------------------------------------------
(* The inductive invariant of WebKeepsFaith and of the types               *)

WebShapes ==
    /\ host \in [hist : History, accepted : SUBSET Message, valid : BOOLEAN]
    /\ web \in [token : BOOLEAN, hist : History \cup {0},
                request : {"no", "waiting", "applied", "failed"},
                upload : {"no", "queued", "waiting", "done", "failed"}]
    /\ up \in Seq([k : {"send", "action", "upload"}, m : Message \cup {"none"},
                  h : History \cup {0}])
    /\ down \in Seq([k : {"hello", "msg", "error", "applied", "refused", "blob"},
                    m : Message \cup {"none"}, h : History \cup {0}])

\* A send on its way carries the history its message was submitted in.
SendsAreMeant ==
    /\ \A m \in Message : pending[m] # "no" => sentIn[m] # 0
    /\ \A i \in DOMAIN up : up[i].k = "send" =>
          up[i].m \in Message /\ sentIn[up[i].m] # 0 /\ up[i].h = sentIn[up[i].m]

\* An echo on its way is of a message the host has, or had before the reset.
EchoesAreTrue ==
    \A i \in DOMAIN down : down[i].k = "msg" =>
        /\ down[i].m \in Message /\ sentIn[down[i].m] # 0
        /\ down[i].m \in host.accepted \/ sentIn[down[i].m] # host.hist

\* No history goes back: of the messages, the client, the hellos on their way, the host.
HistoriesGrow ==
    /\ web.hist <= host.hist /\ \A m \in Message : sentIn[m] <= web.hist
    /\ \A i \in DOMAIN down : down[i].k = "hello" =>
          /\ web.hist <= down[i].h /\ down[i].h <= host.hist /\ down[i].h # 0
          /\ \A j \in DOMAIN down : i <= j /\ down[j].k = "hello" => down[i].h <= down[j].h

WebInv == WebShapes /\ TypeOK /\ SendsAreMeant /\ EchoesAreTrue /\ HistoriesGrow /\ WebKeepsFaith

=============================================================================
