---------------------------- MODULE MCServices ----------------------------
(***************************************************************************)
(* Instances of the modules about the services beside a turn and the       *)
(* host's stores. A behaviour is of one `part` and TLC checks every part   *)
(* in one run; the variables v1, v2, ... stand for those of the part's     *)
(* module, in the order it declares them, and those it does not use stay   *)
(* 0. ThreadScope, which has theorems, is extended: the run checks the     *)
(* properties they are about. Its variables rest in the other parts.       *)
(***************************************************************************)
EXTENDS ThreadScope, Sequences

CONSTANTS
    Parts,      \* the parts of this run
    Caller,     \* tool calls and edits of an artifact
    CallIds,    \* tool calls of a CLI turn
    Sockets,    \* bound on the connections to its bridge
    TextEvents, \* bound on its driver's own events
    WriteFaults, \* bound on failed writes of its timeline
    ClientIds,  \* client ids of uploads
    Pids,       \* process ids of the kernel
    Providers, Booted,  \* provider instances, and the one booted with
    Tries,      \* bound on the attempts of an upload and of an edit
    Resets,     \* bound on the faults of uploads
    Faults,     \* bound on the faults of edits, tool calls and settings
    Settings,   \* bound on Settings operations
    Crashes,    \* panics that park a plugin
    Toggles,    \* bound on toggles of a plugin, and on its panics
    Boots       \* bound on starts of the host

ASSUME ServicesAssumption ==
    /\ {Tries, Resets, Faults, Settings, Crashes, Toggles, Boots} \subseteq Nat
    /\ {Sockets, TextEvents, WriteFaults} \subseteq Nat
    /\ Booted \in Providers

VARIABLES
    part,  \* the component this behaviour is of
    v1, v2, v3, v4, v5, v6, v7, v8, v9, v10, v11, v12, v13, v14, v15, v16,
    v17

mcvars == <<part, vars, v1, v2, v3, v4, v5, v6, v7, v8, v9, v10, v11, v12, v13,
            v14, v15, v16, v17>>

\* Tool calls over connections of two bridge instances, and failed writes.
Bridge == INSTANCE ToolBridge WITH
    Call <- CallIds, ConnLimit <- Sockets, TextLimit <- TextEvents,
    FaultLimit <- WriteFaults,
    turn <- v1, cancelReq <- v2, revoked <- v3, integrity <- v4,
    phase <- v5, stdio <- v6, conns <- v7, invoker <- v8, lock <- v9,
    receipts <- v10, pending <- v11, table <- v12, unsent <- v13,
    live <- v14, effects <- v15, answered <- v16, lost <- v17

\* Pages of one message, one turn with two events and one lost connection.
Pages == INSTANCE ThreadPages WITH
    Limit <- 1, MessageLimit <- 3, TurnLimit <- 1, EventLimit <- 2,
    QueueLimit <- 2, DropLimit <- 1, Reads <- TRUE,
    msgs <- v1, turns <- v2, owed <- v3, queue <- v4, web <- v5,
    lost <- v6, missed <- v7, hole <- v8, agent <- v9, drops <- v10

\* An agent that reads the pages while messages arrive.
Reads == INSTANCE ThreadPages WITH
    Limit <- 1, MessageLimit <- 3, TurnLimit <- 2, EventLimit <- 0,
    QueueLimit <- 2, DropLimit <- 0, Reads <- TRUE,
    msgs <- v1, turns <- v2, owed <- v3, queue <- v4, web <- v5,
    lost <- v6, missed <- v7, hole <- v8, agent <- v9, drops <- v10

\* One process, three changes of the registry, two connections.
Rows == INSTANCE ProcessView WITH
    Name <- {"n"}, ChangeLimit <- 3, HelloLimit <- 2,
    reg <- v1, last <- v2, poll <- v3, conn <- v4, frames <- v5,
    shown <- v6, early <- v7, changes <- v8, hellos <- v9

\* Uploads, each made again, beside resets of the history.
Blob == INSTANCE Blobs WITH
    Client <- ClientIds, Attempts <- Tries, FaultLimit <- Resets,
    history <- v1, lock <- v2, files <- v3, rows <- v4, pc <- v5,
    hist <- v6, answer <- v7, reset <- v8, faults <- v9

\* Edits of one artifact, each called again.
Edits == INSTANCE Artifacts WITH
    Op <- Caller, Attempts <- Tries, FaultLimit <- Faults,
    content <- v1, cards <- v2, receipts <- v3, outputs <- v4, pc <- v5,
    read <- v6, told <- v7, faults <- v8

\* Tool calls beside shutdown on a kernel that reuses its pids.
Tools == INSTANCE NativeTools WITH
    Call <- Caller, Pid <- Pids, FaultLimit <- Faults,
    kind <- v1, pc <- v2, cancel <- v3, token <- v4, group <- v5,
    why <- v6, bad <- v7, file <- v8, seen <- v9, admission <- v10,
    struck <- v11, faults <- v12

\* Settings operations, the poll of the file, edits by hand and faults.
Config == INSTANCE HostConfig WITH
    Provider <- Providers, OpLimit <- Settings, UpsetLimit <- Faults,
    file <- v1, default <- v2, op <- v3, poll <- v4, revision <- v5,
    shown <- v6, expected <- v7, past <- v8, counts <- v9

\* One plugin daemon, toggled and panicking.
Daemon == INSTANCE Plugins WITH
    CrashLimit <- Crashes, ToggleLimit <- Toggles, PanicLimit <- Toggles,
    StartLimit <- Boots,
    flag <- v1, row <- v2, tools <- v3, sups <- v4, bodies <- v5,
    toggles <- v6, panics <- v7, starts <- v8

\* Three Threads in a tree, five events.
Heads == INSTANCE Headlines WITH
    Threads <- {1, 2, 3}, EventLimit <- 5,
    parent <- v1, fact <- v2, headline <- v3, owed <- v4, events <- v5

\* Two Threads and one client, four operations.
Tree == INSTANCE ThreadRows WITH
    Threads <- {1, 2}, Client <- {"c"}, OpLimit <- 4,
    row <- v1, copy <- v2, act <- v3, accepted <- v4, edited <- v5,
    ops <- v6

\* Two view calls, one event and one reset of the history.
View == INSTANCE Views WITH
    Call <- {"c", "d"}, Thread <- {1, 2}, Top <- 1, View <- {"v"},
    HistoryLimit <- 2,
    hist <- v1, shown <- v2, guard <- v3, call <- v4, event <- v5,
    landed <- v6

\* One session of the Codex driver, one fault.
Codex == INSTANCE CodexDriver WITH
    ItemLimit <- 2, WireLimit <- 1, FaultLimit <- 1,
    spawn <- v1, intr <- v2, retired <- v3, answer <- v4, state <- v5,
    hub <- v6, stream <- v7, reader <- v8, killed <- v9, wire <- v10,
    server <- v11, faults <- v12

\* Four tool notifications of Codex in any order.
Events == INSTANCE CodexTools WITH
    Source <- {"a", "codex:1"}, EventLimit <- 4,
    active <- v1, used <- v2, completed <- v3, next <- v4, log <- v5

\* One session of the Claude driver, one fault.
Claude == INSTANCE ClaudeDriver WITH
    MessageLimit <- 2, WireLimit <- 1, FaultLimit <- 1,
    spawn <- v1, intr <- v2, retired <- v3, request <- v4, pending <- v5,
    output <- v6, hub <- v7, reader <- v8, killed <- v9, wire <- v10,
    cli <- v11, faults <- v12

\* Two messages of up to two blocks.
Words == INSTANCE ClaudeText WITH
    Text <- {<<"a">>, <<"a", "b">>, <<"b">>}, MessageLimit <- 2,
    ledger <- v1, message <- v2, sent <- v3, out <- v4

\* The variables from the nth on are not used.
None13 == v13 = 0 /\ v14 = 0 /\ v15 = 0 /\ v16 = 0 /\ v17 = 0
None11 == v11 = 0 /\ v12 = 0 /\ None13
None10 == v10 = 0 /\ None11
None9 == v9 = 0 /\ None10
None7 == v7 = 0 /\ v8 = 0 /\ None9
None6 == v6 = 0 /\ None7
None5 == v5 = 0 /\ None6
None1 == v1 = 0 /\ v2 = 0 /\ v3 = 0 /\ v4 = 0 /\ None5

Keep13 == UNCHANGED <<v13, v14, v15, v16, v17>>
Keep11 == UNCHANGED <<v11, v12>> /\ Keep13
Keep10 == UNCHANGED v10 /\ Keep11
Keep9 == UNCHANGED v9 /\ Keep10
Keep7 == UNCHANGED <<v7, v8>> /\ Keep9
Keep6 == UNCHANGED v6 /\ Keep7
Keep5 == UNCHANGED v5 /\ Keep6
Keep1 == UNCHANGED <<v1, v2, v3, v4>> /\ Keep5

\* ThreadScope rests.
Apart == UNCHANGED <<part, vars>>

MCInit ==
    /\ part \in Parts
    /\ Init
    /\ \/ part = "bridge" /\ Bridge!Init
       \/ part = "scope" /\ None1
       \/ part = "pages" /\ Pages!Init /\ None11
       \/ part = "reads" /\ Reads!Init /\ None11
       \/ part = "rows" /\ Rows!Init /\ None10
       \/ part = "blobs" /\ Blob!Init /\ None10
       \/ part = "edits" /\ Edits!Init /\ None9
       \/ part = "tools" /\ Tools!Init /\ None13
       \/ part = "config" /\ Config!Init /\ None10
       \/ part = "plugins" /\ Daemon!Init /\ None9
       \/ part = "headlines" /\ Heads!Init /\ None6
       \/ part = "threads" /\ Tree!Init /\ None7
       \/ part = "views" /\ View!Init /\ None7
       \/ part = "codex" /\ Codex!Init /\ None13
       \/ part = "codex tools" /\ Events!Init /\ None6
       \/ part = "claude" /\ Claude!Init /\ None13
       \/ part = "claude text" /\ Words!Init /\ None5

CallsStep == part = "bridge" /\ Bridge!Next /\ Apart
ScopeStep == part = "scope" /\ Next /\ UNCHANGED part /\ Keep1
PagesStep == part = "pages" /\ Pages!Next /\ Apart /\ Keep11
ReadsStep == part = "reads" /\ Reads!Next /\ Apart /\ Keep11
RowsStep == part = "rows" /\ Rows!Next /\ Apart /\ Keep10
BlobStep == part = "blobs" /\ Blob!Next /\ Apart /\ Keep10
EditsStep == part = "edits" /\ Edits!Next /\ Apart /\ Keep9
ToolsStep == part = "tools" /\ Tools!Next /\ Apart /\ Keep13
ConfigStep == part = "config" /\ Config!Next /\ Apart /\ Keep10
DaemonStep == part = "plugins" /\ Daemon!Next /\ Apart /\ Keep9
HeadsStep == part = "headlines" /\ Heads!Next /\ Apart /\ Keep6
TreeStep == part = "threads" /\ Tree!Next /\ Apart /\ Keep7
ViewStep == part = "views" /\ View!Next /\ Apart /\ Keep7
CodexStep == part = "codex" /\ Codex!Next /\ Apart /\ Keep13
EventsStep == part = "codex tools" /\ Events!Next /\ Apart /\ Keep6
ClaudeStep == part = "claude" /\ Claude!Next /\ Apart /\ Keep13
WordsStep == part = "claude text" /\ Words!Next /\ Apart /\ Keep5

MCNext == CallsStep \/ ScopeStep \/ PagesStep \/ ReadsStep \/ RowsStep
        \/ BlobStep \/ EditsStep \/ ToolsStep \/ ConfigStep \/ DaemonStep 
        \/ HeadsStep \/ TreeStep \/ ViewStep \/ CodexStep \/ EventsStep 
        \/ ClaudeStep \/ WordsStep

MCSpec == MCInit /\ [][MCNext]_mcvars

-----------------------------------------------------------------------------
(* The properties of the modules, in the parts they are about.             *)

\* Type invariant of ThreadScope and of each part.
TypesOK ==
    /\ TypeOK
    /\ part = "bridge" => Bridge!TypeOK
    /\ part = "pages" => Pages!TypeOK
    /\ part = "reads" => Reads!TypeOK
    /\ part = "rows" => Rows!TypeOK
    /\ part = "blobs" => Blob!TypeOK
    /\ part = "edits" => Edits!TypeOK
    /\ part = "tools" => Tools!TypeOK
    /\ part = "config" => Config!TypeOK
    /\ part = "plugins" => Daemon!TypeOK
    /\ part = "headlines" => Heads!TypeOK
    /\ part = "threads" => Tree!TypeOK
    /\ part = "views" => View!TypeOK
    /\ part = "codex" => Codex!TypeOK
    /\ part = "codex tools" => Events!TypeOK
    /\ part = "claude" => Claude!TypeOK
    /\ part = "claude text" => Words!TypeOK

\* A tool call takes effect once, ends once and honestly, and a turn that lost
\* an event of its timeline does not end as completed (ToolBridge).
CallsAreHonest ==
    part = "bridge" => Bridge!EffectOnce /\ Bridge!OneHonestEnd /\ Bridge!LostEventFailsTurn

\* What is stored in two places agrees, or will: a row and its file (Blobs), an
\* operation, its content and its card (Artifacts), hirsel.toml, the default
\* route and what clients were told (HostConfig).
StoresAgree ==
    /\ part = "blobs" => Blob!RowHasFile
    /\ part = "edits" => Edits!EditsAreKept
    /\ part = "config" => Config!SettingsStand

\* What was answered or stopped is over: a command left no process (NativeTools),
\* a plugin daemon that runs is the one the table names, or its supervisor was
\* aborted (Plugins).
AnsweredIsDone ==
    /\ part = "tools" => Tools!AnsweredIsDone
    /\ part = "plugins" => Daemon!DaemonIsOwned

\* A driver's session ends with what the agent said, leaves nobody waiting, and
\* passes text and tool events on once (CodexDriver, CodexTools, ClaudeDriver,
\* ClaudeText).
DriversAreHonest ==
    /\ part = "codex" => Codex!CodexIsHonest
    /\ part = "codex tools" => Events!ToolEventsPair
    /\ part = "claude" => Claude!ClaudeIsHonest
    /\ part = "claude text" => Words!TextOnce

\* The Threads the Owner sees are as their facts, rules and histories make them
\* (Headlines, ThreadRows, Views); whole pages and timelines reach a reader
\* (ThreadPages), and the projected processes a client (ProcessView).
ThreadsAreTrue ==
    /\ part = "headlines" => Heads!HeadlineIsCurrent
    /\ part = "threads" => Tree!RowsKeepTheirRules
    /\ part = "views" => View!ViewsStayAuthorised
    /\ part = "pages" => Pages!PagesAreWhole
    /\ part = "reads" => Reads!ReadsAll
    /\ part = "rows" => Rows!RowsConverge

=============================================================================
