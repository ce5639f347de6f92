---------------------------- MODULE MCAnswers ----------------------------
(***************************************************************************)
(* Instances of the modules in which somebody waits for an answer: the     *)
(* clients, the pump of a lane, a triage fork, a phone and a push. A       *)
(* behaviour is of one `part` and TLC checks every part in one run; the    *)
(* variables v1, v2, ... stand for those of the part's module, in the      *)
(* order it declares them, and those it does not use stay 0.               *)
(***************************************************************************)
EXTENDS Naturals, FiniteSets

CONSTANTS
    Parts,      \* the parts of this run
    Sends,      \* client ids of the core client's sends
    Backlog,    \* of the broadcast queue
    Upsets,     \* bound on the events of the world beside the sends
    Texts,      \* messages of the web client
    Cuts,       \* bound on its lost connections and the host's faults
    Timeouts,   \* bound on its sign-ins, retries by hand and request timeouts
    EditCount,  \* bound on edits of the references
    RefIds,     \* bound on reference ids
    Troubles,   \* bound on the events beside the edits
    Name,       \* messages of the forks, pairing codes, devices
    Forks,      \* permits of the forks
    Faults,     \* bound on faults of the forks and on dropped connections
    Restarts,   \* bound on restarts of the app and of the host it pairs with
    Changes,    \* bound on changes of a Thread's attention
    Attempts,   \* attempts of a push
    Drains,     \* drains of a lane
    Events,     \* bound on the events of a drain
    BadWrites   \* bound on failed writes of a timeline

ASSUME NumbersAssumption ==
    {Forks, Faults, Restarts, Changes, Attempts, Drains, Events, BadWrites} \subseteq Nat

\* "other" stands for another author in ClientSync, "none" for no client id.
ASSUME SendsAssumption ==
    /\ IsFiniteSet(Sends) /\ Sends \cap {"other", "none"} = {}
    /\ {Backlog, Upsets, EditCount, RefIds, Troubles} \subseteq Nat

ASSUME TextsAssumption == IsFiniteSet(Texts) /\ "none" \notin Texts /\ {Cuts, Timeouts} \subseteq Nat

VARIABLES
    part,  \* the component this behaviour is of
    v1, v2, v3, v4, v5, v6, v7, v8, v9, v10, v11, v12, v13, v14, v15, v16,
    v17

vars == <<part, v1, v2, v3, v4, v5, v6, v7, v8, v9, v10, v11, v12, v13, v14,
          v15, v16, v17>>

\* Sends over events of the world, such as a lost connection and a reset.
Sync == INSTANCE ClientSync WITH
    Send <- Sends, QueueLimit <- Backlog, EventLimit <- Upsets,
    history <- v1, thr <- v2, messages <- v3, copies <- v4, serving <- v5,
    session <- v6, inbox <- v7, queue <- v8, lost <- v9, known <- v10,
    chan <- v11, client <- v12, shown <- v13, removed <- v14,
    submitted <- v15, events <- v16, lagged <- v17

\* Messages and one upload of the web client with faults.
Web == INSTANCE WebClient WITH
    Message <- Texts, FaultLimit <- Cuts, TimeLimit <- Timeouts,
    host <- v1, sock <- v2, served <- v3, up <- v4, down <- v5, web <- v6,
    pending <- v7, armed <- v8, sentIn <- v9, faults <- v10, ticks <- v11

\* A core client, a web client and an agent that edit the references.
Related == INSTANCE RelatedEdits WITH
    EditLimit <- EditCount, IdLimit <- RefIds, EventLimit <- Troubles,
    hist <- v1, rev <- v2, item <- v3, ids <- v4, receipts <- v5,
    serving <- v6, hits <- v7, made <- v8, req <- v9, create <- v10,
    client <- v11, inbox <- v12, queue <- v13, events <- v14

\* Drains one after another, with failed writes.
Line == INSTANCE TimelineBarrier WITH
    EventLimit <- Events, FaultLimit <- BadWrites,
    stream <- v1, ingest <- v2, barrier <- v3, lane <- v4, turn <- v5,
    integrity <- v6, emitted <- v7, stored <- v8, dropped <- v9,
    faults <- v10

\* Wakes that share the fork permits.
Fork == INSTANCE ForkWake WITH
    Message <- Name, FaultLimit <- Faults,
    task <- v1, slot <- v2, call <- v3, recorded <- v4, turns <- v5,
    dropped <- v6, excused <- v7, archived <- v8, faults <- v9

\* A phone that is paired over connections that drop.
Pair == INSTANCE Pairing WITH
    Code <- Name, DropLimit <- Faults, FaultLimit <- Restarts, StartLimit <- Restarts,
    codes <- v1, tokens <- v2, shown <- v3, core <- v4, link <- v5,
    app <- v6, saved <- v7, told <- v8, drops <- v9, faults <- v10,
    starts <- v11

\* Devices and changes of one Thread's need for the Owner.
Push == INSTANCE PushGateway WITH
    Device <- Name, ChangeLimit <- Changes,
    needs <- v1, changes <- v2, publishing <- v3, revoked <- v4,
    gate <- v5, senders <- v6, attempts <- v7

\* The variables from the nth on are not used.
None15 == v15 = 0 /\ v16 = 0 /\ v17 = 0
None12 == v12 = 0 /\ v13 = 0 /\ v14 = 0 /\ None15
None11 == v11 = 0 /\ None12
None10 == v10 = 0 /\ None11
None9 == v9 = 0 /\ None10
None8 == v8 = 0 /\ None9

Keep15 == UNCHANGED <<v15, v16, v17>>
Keep12 == UNCHANGED <<v12, v13, v14>> /\ Keep15
Keep11 == UNCHANGED v11 /\ Keep12
Keep10 == UNCHANGED v10 /\ Keep11
Keep9 == UNCHANGED v9 /\ Keep10
Keep8 == UNCHANGED v8 /\ Keep9

Init ==
    /\ part \in Parts
    /\ \/ part = "sync" /\ Sync!Init
       \/ part = "web" /\ Web!Init /\ None12
       \/ part = "related" /\ Related!Init /\ None15
       \/ part = "timeline" /\ Line!Init /\ None11
       \/ part = "fork" /\ Fork!Init /\ None10
       \/ part = "pairing" /\ Pair!Init /\ None12
       \/ part = "push" /\ Push!Init /\ None8

SyncStep == part = "sync" /\ Sync!Next /\ UNCHANGED part
WebStep == part = "web" /\ Web!Next /\ UNCHANGED part /\ Keep12
RelatedStep == part = "related" /\ Related!Next /\ UNCHANGED part /\ Keep15
LineStep == part = "timeline" /\ Line!Next /\ UNCHANGED part /\ Keep11
ForkStep == part = "fork" /\ Fork!Next /\ UNCHANGED part /\ Keep10
PairStep == part = "pairing" /\ Pair!Next /\ UNCHANGED part /\ Keep12
PushStep == part = "push" /\ Push!Next /\ UNCHANGED part /\ Keep8

Next == SyncStep \/ WebStep \/ RelatedStep \/ LineStep \/ ForkStep 
        \/ PairStep \/ PushStep

\* The fairness each module argues for.
Fairness ==
    /\ WF_vars(part = "sync" /\ Sync!Hosts /\ UNCHANGED part)
    /\ WF_vars(part = "sync" /\ Sync!Clients /\ UNCHANGED part)
    /\ WF_vars(part = "web" /\ Web!Steady /\ UNCHANGED part /\ Keep12)
    /\ WF_vars(part = "web" /\ Web!UploadTimeout /\ UNCHANGED part /\ Keep12)
    /\ \A m \in Texts : WF_vars(part = "web" /\ Web!AckTimeout(m) /\ UNCHANGED part /\ Keep12)
    /\ WF_vars(part = "related" /\ Related!Finish /\ UNCHANGED part /\ Keep15)
    /\ WF_vars(part = "related" /\ Related!Works("core") /\ UNCHANGED part /\ Keep15)
    /\ WF_vars(part = "timeline" /\ Line!Bridge /\ UNCHANGED part /\ Keep11)
    /\ WF_vars(part = "timeline" /\ Line!Pump /\ UNCHANGED part /\ Keep11)
    /\ \A m \in Name : WF_vars(part = "fork" /\ Fork!Step(m) /\ UNCHANGED part /\ Keep10)
    /\ WF_vars(part = "push" /\ Push!Enqueue /\ UNCHANGED part /\ Keep8)
    /\ WF_vars(part = "push" /\ Push!Attempt /\ UNCHANGED part /\ Keep8)
    /\ WF_vars(part = "pairing" /\ Pair!Redeem /\ UNCHANGED part /\ Keep12)
    /\ WF_vars(part = "pairing" /\ Pair!Recognise /\ UNCHANGED part /\ Keep12)
    /\ WF_vars(part = "pairing" /\ Pair!Core /\ UNCHANGED part /\ Keep12)
    /\ WF_vars(part = "pairing" /\ Pair!MainThread /\ UNCHANGED part /\ Keep12)
    /\ WF_vars(part = "pairing" /\ Pair!Compose /\ UNCHANGED part /\ Keep12)

Spec == Init /\ [][Next]_vars /\ Fairness

-----------------------------------------------------------------------------
(* The properties of the modules, in the parts they are about.             *)

\* Type invariant of each part.
TypeOK ==
    /\ part = "sync" => Sync!TypeOK
    /\ part = "web" => Web!TypeOK
    /\ part = "related" => Related!TypeOK
    /\ part = "timeline" => Line!TypeOK
    /\ part = "fork" => Fork!TypeOK
    /\ part = "pairing" => Pair!TypeOK
    /\ part = "push" => Push!TypeOK

\* What a client asks takes effect once, however often it sends it and whatever
\* was reset meanwhile: a send is one message (ClientSync), an edit of the
\* references one change and a creation one Thread (RelatedEdits).
RequestsActOnce ==
    /\ part = "sync" => Sync!OneCopy
    /\ part = "related" => Related!RequestsActOnce

\* What was submitted stays with the client until the host has it (ClientSync).
NothingSubmittedIsLost == part = "sync" => Sync!NothingSubmittedIsLost

\* Once everything under way has arrived the client shows what the host holds:
\* the Thread and its messages, unless a resync failed, and no removed message
\* (ClientSync), and the references (RelatedEdits);
\* the web client keeps what it says of its messages, token and timers true at
\* any time (WebClient).
ClientsAreCurrent ==
    /\ part = "sync" => Sync!QuietClientIsCurrent
    /\ part = "related" => Related!RelatedIsCurrent
    /\ part = "web" => Web!WebKeepsFaith

\* A completed turn shows all that its drain did (TimelineBarrier).
CompletedIsWhole == part = "timeline" => Line!CompletedIsWhole

\* A wake given to a triage fork becomes one turn at most, and none is given up
\* without a trace (ForkWake).
WakesAreHandled == part = "fork" => Fork!OneTurnPerMessage /\ Fork!GoneIsHandled

\* A pairing code issues one token (Pairing), and an episode of attention is
\* pushed no more once an attempt reached every device of its claim, and not
\* taken for delivered before (PushGateway).
DevicesAreServedOnce ==
    /\ part = "pairing" => Pair!OneTokenPerCode
    /\ part = "push" => Push!EpisodeDeliveredOnce

\* What somebody waits for in a part, of the name k where there are several.
Owed(k) ==
    CASE part = "sync" -> \E s \in Sends : Sync!SendPending(s)
      [] part = "web" -> \E m \in Texts : Web!Unsent(m)
      [] part = "related" -> Related!CreatePending
      [] part = "timeline" -> Line!Waiting
      [] part = "fork" -> Fork!Dispatched(k)
      [] part = "pairing" -> Pair!Received(k)
      [] part = "push" -> Push!InFlight

Given(k) ==
    CASE part = "sync" -> ~Owed(k) \/ Sync!Stale
      [] part = "web" -> ~Owed(k) \/ Web!TurnedAway
      [] part = "fork" -> Fork!Finished(k)
      [] part = "pairing" -> Pair!Delivered(k)
      [] OTHER -> ~Owed(k)

\* Nothing stays pending: a send and a creation of the core client are answered
\* or given back, unless a failed resync took the answer away, a message of the
\* web client is acknowledged or failed, the pump of a lane does not wait for a
\* lost commit, a dispatched wake finishes, a received token reaches the app, a
\* push in flight is settled or overtaken.
EveryWaitEnds == \A k \in Name : Owed(k) ~> Given(k)

\* "Clients compare against the last applied Related snapshot revision"
\* (docs/related-links.md:49-51): a list of references reaches every client.
RelatedReachesAll == part = "related" => Related!RelatedReachesAll

\* "Signalled to the app when the token is rejected" (ws/client.ts:41): the web
\* client drops its token only when the host does not take it.
TokenStands == part = "web" => Web!TokenStands

=============================================================================
