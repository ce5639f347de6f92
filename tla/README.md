# hirsel-host in TLA+

hirsel is a personal agent host: one Owner talks to a tree of Threads, each
Thread runs agent turns, and turns wake, delegate to and report to other
Threads; phones and browsers show all of it. This directory holds a
specification of the host and of the clients' side of its protocol, its TLC
instances, and proofs checked by TLAPS. Paths below are relative to `src/`;
`host/` stands for `crates/hirsel-host/src/`, `core/` for
`crates/hirsel-client-core/src/`, `drivers/` for `crates/hirsel-drivers/src/`.

| modules | what they are |
| --- | --- |
| `ThreadTurns`, `TurnLedger` | the life of a turn, and the abstract promise it implements |
| `ThreadTurns_proofs`, `ProcessDelivery_proofs`, `ThreadScope_proofs`, `Timers_proofs` | theorems about these modules, for all values of their constants |
| `MCProcesses_proofs`, `MCClients_proofs`, `MCAnswers_proofs`, `MCServices_proofs` | theorems about the components these modules put together |
| `ProcessDelivery`, `DeliveryLedger` | process events becoming messages and turns, and the promise |
| `Timers`, `ProcessPipeline` | timer subscriptions; timers and delivery on one process registry |
| `ClientSync`, `WebClient`, `RelatedEdits`, `Pairing`, `PushGateway` | host and clients over connections that fail |
| `TimelineBarrier`, `ForkWake`, `ToolBridge`, `NativeTools` | what runs beside a turn |
| `CodexDriver`, `CodexTools`, `ClaudeDriver`, `ClaudeText` | the drivers of external agents |
| `ThreadScope`, `ThreadRows`, `Headlines`, `Views`, `ThreadPages`, `ProcessView` | the tree of Threads, its rights, and what is read of it |
| `Artifacts`, `Blobs`, `HostConfig`, `Plugins` | stores and the services around them |
| `MCThreadTurns`, `MCProcesses`, `MCAnswers`, `MCServices`, `*.cfg` | instances for TLC |
| `PROJECT.json` | definitions mapped to source lines, runs, findings, hazards, theorems |

Each component module ends with its properties. A definition marked "mutation" is
a plausible slip in the definition that follows it. Nothing uses it; it is there
to be put in its place, to see that a property notices. `PROJECT.json` names one
for each property of each run. A property whose comment says "Refuted", or names
what the code does instead, states what a document of the repository promises and
the code does not keep; see section 6.

## 1. The system

### Components

| component | state | operations | hard behaviour | what makes it correct |
| --- | --- | --- | --- | --- |
| Turn ledger (`host/storage/thread_activity.rs`, `thread_completion.rs`, `thread_requests.rs`, `current.sql`) | `thread_turns`, `thread_requests` | accept, run, finish, interrupt, mark | five callers end the same turn | first terminal state wins; end and report are one commit; no open turn without a request |
| Admission registry (`host/lash_runtime/thread_lanes.rs`) | map of lanes, map of CLI tasks, semaphore of 4, admission mutex | 250 ms pass, Stop, removal of a queued message | a pass works with what it read before its awaits | per-Thread FIFO; no request lost or run twice; a cancellation reaches what it was meant for |
| Native lane (`host/lash_runtime/thread_queue.rs`, `lifecycle.rs`) | request lock, turn anchors, Lash session | admit, bind, drain, settle, retry, reconcile | crash between the enqueue into Lash and the start; empty drains; background work | one admitted input; nothing consumed is replayed |
| CLI work (`host/lash_runtime/cli_turn.rs`) | one task per Thread, cancellation token | wait for a permit, run, bind, drive, complete | signalled at any await | an ended driver was told to stop; a waiting turn never fails |
| Execution bindings (`host/storage/thread_scope.rs`) | `thread_execution_bindings` | bind, validate, revoke | the row commits before the caller is validated | authority belongs to the work that owns the turn |
| Archive, snooze, marks (`host/storage/thread_archive.rs`, `threads.rs`, `thread_mutations.rs`) | `archived_at`, `snoozed_until`, `cancel_requested_at` | archive or release a subtree, snooze, `threads.cancel` | marks are acted on later, by the poller | marked work ends; held work comes back in order |
| Delegation and reports (`host/storage/thread_delegation.rs`) | requester columns, receipts | delegated send, terminal and progress report | report cascades up the tree | one report per end |
| Process delivery (`host/storage/process_deliveries.rs`, `host/lash_runtime/process_bridge.rs`) | staged receipts | capture, stage, tell, accept, acknowledge | a crash between any two | each event is told and answered once, in order |
| Timers (`host/lash_runtime/timers.rs`) | subscriptions, reserved occurrences | poll, emit, retire, edit | the poll works off a list it read earlier | once per period; only what ran is retired |
| Timeline (`host/lash_runtime/timeline.rs`, `turn_ingest.rs`, `bridges.rs`) | event rows, commit barrier | ingest, reroute, commit, wait | a drain ends before its events are stored | a completed turn is whole; the pump never waits for ever |
| Tool bridge (`host/thread_tool_bridge.rs`, `telemetry.rs`) | invocation receipts, pending table | connect, invoke, replay, drain | a call repeated after an uncertain answer; the turn ends meanwhile | one effect and one honest end per call |
| Fork wake (`host/fork_wake/`) | permits, exit slot | dispatch, exit, fall back | time-out against a late exit | one turn at most, none dropped without trace |
| Client protocol (`host/protocol.rs`, `protocol/hello_dedupe.rs`, `thread_commands.rs`, `core/`) | broadcast queue, snapshot, outbox, cache | hello, resync, send, resend, open, reset | snapshot against concurrent events, answers that overtake broadcasts, a resync that fails | acts once, loses nothing a client submitted, converges while its snapshots succeed |
| Web client (`app/src/ws/client.ts`, `app/src/threads/store.ts`) | pending sends, request, upload, timers | connect, send, time out, retry | timers against answers and reconnects | what it shows as sent or failed is true, and settles |
| Related references (`host/storage/thread_related.rs`, `core/`, `app/src/related/`) | list with revision, receipts | edit, replay, broadcast | edits of several clients over lossy links | one effect per edit; every client has the list |
| Pairing (`host/devices.rs`, `core/transport.rs`, Android) | codes, tokens, phase | redeem, hand over, store | drops at every frame; the app recomposes late | one token per code; a received token reaches the app |
| Push (`host/push.rs`) | claim of an episode, senders | publish, claim, send, settle | retries repeat every device and outlive their episode | nothing is pushed after an attempt that reached all; no episode passes for delivered before |
| Grants and reach (`host/storage/thread_scope.rs`, `thread_grants.rs`) | tree, grants, receipts | create, grant, revoke, replay | chains of grants, calls made again | nothing outside what the Owner gave; revoked stays revoked |
| Thread rows (`host/thread_commands.rs`, `storage/threads.rs`, `thread_mutations.rs`) | rows with revision | create, convert, settle, pin, edit | edits on copies that are stale | rules of a row hold; a fenced edit replaces what was seen |
| Headlines (`host/thread_rollups.rs`) | stored headline of every Thread | a dozen transactions refresh, some do not | a stored copy of a whole subtree | current wherever the code refreshes |
| Views (`host/templates/views.rs`, `host/tools/views.rs`) | active views, execution guard | show, update, clear, event | authorised before the guard is taken | no write on another's authority |
| Thread pages, process rows (`host/storage/thread_read.rs`, `process_projection.rs`, `app/src/threads/`) | pages, live events, projection | read, merge, poll, broadcast | reads apart from each other while turns write | whole pages; rows converge |
| Blobs, artifacts (`host/storage/blobs.rs`, `artifacts.rs`, `artifact_tools.rs`) | files and rows; content, cards, receipts | upload, clean up; edit, replay | two stores, a reset in between; concurrent edits | no row without its file; no edit lost or doubled |
| Native coding tools (`host/native_coding_tools/`) | process groups, mutation lock | exec, kill, reap, edit, shut down | a reused pid; an abort while the group lives | an answered call left no process and struck no stranger |
| Configuration (`host/lib.rs`, `host/host_config/`) | `hirsel.toml`, default route | settings, poll, edit by hand | read, write and derive under different locks | settings stand and become current |
| Plugins (`host/plugins.rs`, `plugins/supervisor.rs`) | flag, row, supervisors, bodies | enable, disable, panic, park | an aborted supervisor that still gets the table | the table tells the truth; a daemon no row names belongs to an aborted supervisor |
| Drivers (`drivers/`) | request table, event hub, reader | spawn, interrupt, retire, read | a request registered while the reader ends | nobody left waiting; each event once |
| History reset (`reset_history` in `host/lash_runtime/thread_lanes.rs`) | epoch | swap | work of the old history still finishing | nothing of the old history acts in the new one |

### How they interact

    Owner, delegates,   accept    +--------------+  pending   +---------+
    wakes, reports  ------------> | turn ledger  | ---------> | poller  |
                                  | (SQLite)     | <--------- |         |
                                  +--------------+   cancel   +---------+
                                     ^        ^             spawn |   | notify
                              finish |        | finish            v   v
                                 +----------+ +-------------+  (one per Thread)
                                 | CLI work | | Native lane | <--> Lash
                                 +----------+ +-------------+

Everything durable goes through one SQLite connection behind a mutex, so a
storage call is atomic. Everything between two storage calls is not. The locks
that matter are the *admission* mutex (poller pass, Stop, removal), the lane's
*request_lock* (admission, removal, `cancel_owned_turn`) and the semaphore of
four permits that CLI work and lanes share.

Around it, every client connection is one session task with the same broadcast
channel in front of it: what a session answers to a request is written past the
broadcasts it has still to forward, and a session that lags starts over with a
snapshot. Lash, the agents behind the drivers, the kernel and the network are
external and modelled from the calls the code makes to them.

## 2. ThreadTurns

### State and its code

| variable | code |
| --- | --- |
| `state`, `requests`, `order`, `clock` | rows of `thread_turns` and `thread_requests`, the AUTOINCREMENT id and its last value |
| `cancelReq` | `thread_turns.cancel_requested_at` |
| `bound` | unrevoked rows of `thread_execution_bindings` |
| `archived`, `snoozed` | columns of `threads` |
| `lash`, `commands` | Lash's durable `pending_turn_inputs` and queued session commands (external) |
| `opened` | Threads that have a Native lane |
| `pump` | one pass of `pump_pending`: both lists it read and where it is |
| `stop`, `drop` | `cancel` and `cancel_queued` between their awaits |
| `cli` | the task in the `cli` map: position, turn, token, outcome |
| `lane`, `anchor` | the pump task of `spawn_turn_pump` and its `TurnAnchorState` |
| `asked`, `left` | history: turns a Stop or removal was meant for; what is left of `Budget` |

A handler is split into one action per stretch between two awaits that another
actor can observe. `pump_pending` is `PumpBegin`, the three cancellations
(`PumpCancelQueued`, `PumpCancelCli`, `PumpCancelLane`), `PumpSnapshot` and one
of five outcomes per request; `CliTurn::run` and `execute` are `CliAcquire` to
`CliRemove`; the lane is `LaneBegin`, the admission
(`LaneDiscard`/`LanePick`/`LaneResume`/`LaneBackground`/`LaneRest`), `LaneRun`,
`LaneBind`, the drain and its end. What was read before an await stays in the
actor's record and may be stale. `CrashRestart` is a crash at any moment
together with the restart transaction that precedes the poller.

### Abstractions

- A turn is a model value whose Thread, creator, executor and report are
  constants: storage fixes them when it accepts the turn. The report of a turn
  is a turn of its own, so a report's own report is expressed, too.
- A pass with nothing marked reads both of its queries in one step. A tick
  that finds nothing is `PumpIdle`, so that an idle system is not a deadlock.
- `opened` survives a crash: `open_persisted_process_lanes` reopens lanes
  before the first pass.
- Reports accepted by one restart transaction share an order id. SQLite's scan
  order decides between them, and no property depends on it.
- A lane that cannot be opened, a drain that errors and a projection that
  cannot be stored are the event `fault`. A failure of the timeline's integrity
  is the outcome "failed" of a drain. An empty drain is the event `empty`.
- `LaneRest` is also taken when the instance has no background turn left. This
  is a bound of the instance and not a rule of the code.
- Delegation reach is reduced to "the caller runs in the requester's Thread",
  `threads.cancel` and the agents' archive to the caller's subtree.
- Lash is external: an input is absent, pending or consumed, and a drain takes
  all pending inputs with the queued commands, as the calls hirsel makes imply.

Sections 3 to 5 treat the other modules. Section 6 lists the runs, 7 the proofs.

## 3. The other components

The rule is the same everywhere: one action per stretch of a handler between two
awaits (or two commits, or two frames) that somebody else can observe, with what
was read before in the record of the actor.

### Processes and timers

`ProcessDelivery` is the process bridge of one lane. A pass captures the wakes
resident in Lash's queue (`lashQueue`, with `woke`, `drained`), then the ends of
processes (`status`, `settled`), reads the rowids of the receipts that have no turn
yet and works this set off, lowest first: `staged` is the table, `chat` and `turns` what was told and accepted, `acked` the
acknowledgements. `bridge` is the pass; a fault ends it anywhere: a crash, an
archived Thread, a failed write. It implements `DeliveryLedger` (section 5).
`Timers` is the poll of the timer source: `sub` the subscriptions with their
revisions, `reserved` the occurrences, `poll` the list in hand. `ProcessPipeline`
composes both on one `status`, with one crash for both tasks.

### Clients

- `ClientSync`: host and core client. `chan`, `queue`, `inbox` are the wires and the
  broadcast queue (bounded: a session may lag), `session` and `known` the duplicate
  filter of `hello_dedupe.rs`, `client` the outbox and drafts, `shown` and `removed`
  the cache of one Thread. The world changes the Thread, removes messages, drops
  connections and resets the history. Message ids are distinct across resets and
  the Thread's row survives one: what is checked is what happens to messages.
  A full queue drops broadcasts (`lost`, until the next hello) and the receiver is told
  once (`lagged`). The session then greets anew (`Resync`), or cannot build the snapshot:
  `ResyncFails` sends an error of no request, keeps the old duplicate filter and goes on
  without what was dropped (`protocol.rs:203`). The state after that is `Stale`.
- `WebClient`: the same host against `ws/client.ts`: `pending` sends with their
  `armed` timers, one request and one upload as representatives of their kinds,
  `web.token`. Frames of one direction keep their order. `Lag` loses broadcasts and puts a
  hello in their place, or an error that the client only shows (`ErrorShown`).
- `RelatedEdits`: one reference of a Thread edited by a core client, a web client
  and agents, with `receipts`, `create_thread` (sent on every connection until it
  is answered) and the stale lists of a client that has the Thread open.
- `Pairing`: codes, tokens, the core's pending token, the phase the app was told and
  what it stored. `PushGateway`: changes of attention, the claim of an
  episode, sender tasks, revoked devices. `attempts` keeps of every attempt at an
  episode which devices it was for and which it reached. `FcmPushSender::send` goes on
  after a failure and then fails as a whole, and `send_with_retry` repeats the whole: a
  device that was reached is pushed the episode again, up to `MAX_DELIVERY_ATTEMPTS` times
  and once more for each later claim.

### Beside a turn

- `TimelineBarrier`: Lash's observation stream, the ingest with its route and
  pending text, the commit barrier, the pump that waits for it.
- `ForkWake`: one task per message between permit and end, the agent's exit call
  beside it, archive and shutdown.
- `ToolBridge`: the stdio bridge, the host's connections, `first_invoker` and the
  receipts under their lock, the pending table of `telemetry.rs`, the end of the
  turn that aborts handlers at an await, and the live view of a client.
- `NativeTools`: a command as leader of a process group on a kernel that reuses ids,
  cancellation, time-out, reaping and drain, edits under the mutation lock,
  shutdown.
- `CodexDriver`, `ClaudeDriver`: spawn, requests, interrupt, retire, the reader and the
  event hub. `CodexTools` and `ClaudeText` are the two pure parts: identities of tool
  events, and text put together from deltas and envelopes.

### Threads and stores

- `ThreadScope`: the tree, grants, receipts and all calls that change reach, by agents
  and Owner. `ThreadRows`: rows with their revision, the Owner's addressed
  actions and the agents' mutations, an instrument's action checked twice.
- `Headlines`: one action per transaction that changes a fact, those that do not
  refresh included. `Views`: calls that authorise before they take the guard.
- `ThreadPages`: pages, live events and their merge by the web client; an agent's
  cursor. `ProcessView`: three reads of a registry that changes in between, the
  difference broadcast, the snapshot of a hello.
- `Artifacts`, `Blobs`, `HostConfig`, `Plugins` as their comments say.

### The part variable

`MCProcesses`, `MCAnswers` and `MCServices` hold instances of many independent
components. A behaviour belongs to one `part`, chosen by `Init`; `Next` is the
disjunction of the parts' steps, and a property of the module is the conjunction
`part = ... => Module!Property`. `MCAnswers` and `MCServices` share generic
variables `v1`, `v2`, ... between the parts, in the order each module declares
its own; `Parts` restricts a run to some of them. `MCProcesses` extends
`ProcessDelivery`, and `MCServices` extends `ThreadScope`, so that the properties they
check of these two are those the theorems are about. The sizes of the instances are
constants with a named assumption (`NumbersAssumption`, `ProcessesAssumption`,
`ServicesAssumption`, `SendsAssumption`, `TextsAssumption`: numbers are numbers, periods are
positive, client ids and the web client's messages are finitely many and no client id is the other
author's, the provider the host boots on exists), and what is proved about these modules is proved for all their values. Parts do not interact: TLC
explores the sum, and not the product, of their states. Where components do
interact there is a module that composes them (`ProcessPipeline`, `ClientSync`,
`ToolBridge`, `ThreadTurns`). `Parts = {"x"}` in a copy of the `.cfg` checks one
component alone.

## 4. What a module leaves out

Message bodies, artifacts and activities that commit with a turn, prompts, wording,
layout, progress bars and logging. In the protocol: frames of settings, devices and
files, which share the session loop. In the drivers: usage, model lists. Kinds with
the same handling have one representative, which the module's comment names. See
section 8 for components without a module.

## 5. The abstract specifications

### TurnLedger

`TurnLedger` has four actions: a turn is accepted, begins, begins unaddressed
(background work) or ends together with the acceptance of its report; several
end at once only when they are interrupted. `ThreadTurns` implements it with the
identity mapping on `state` (`LedgerSpec`). What has to be shown is that ten code
paths which end turns, five of which may race for the same one, look to every
reader like that one `End` action. `cli` checks it and
`ImplementsLedger` proves it for every instance.

### DeliveryLedger

An inbox that process events enter once each, a number of them told to the
conversation and a number accepted as turns, `accepted <= told <= Len(inbox)`.
`ProcessDelivery` implements it with the table as the inbox (`LedgerSpec` of
`MCProcesses`), with crashes, archives and failed writes between any two
commits: no retry tells twice, no order of receipts is overtaken. `processes`
checks it and `ImplementsDeliveryLedger` proves it.

## 6. What the runs check

### Turns

All instances have a root Thread `p` with one child `c`, so a turn of `c`
reports to `p`. That is the smallest tree with a report.

| run | instance | properties | what it shows |
| --- | --- | --- | --- |
| `native` | two messages, the report, a background turn; one removal, command, empty drain, crash | `TypeOK`, `DrainedTurnRuns`, `AcceptedIsHeld`, `NoReplay` | no accepted turn vanishes, nothing consumed goes to Lash again, a drain never executes a turn that ended while queued |
| `held` | two messages in one lane, a delegated turn and its report; one archive (and releases), one snooze | `ReportedOnce`, `OneAdmittedInput`, `FifoStart` | held work comes back in order, a drain finds one input |
| `cli` | two messages, a wake and its report, one permit; one Stop, one removal | `CancelIsAddressed`, `EndedDriverIsSignalled`, `AcceptedIsHeld`, `FailsOnlyIfRun`, `LedgerSpec` | only the addressed turn is cancelled and its driver is told |
| `mixed` | a Thread moved from CLI to Native between two messages, background work, two permits; one Stop, removal, command, fault, crash | `NoOverlap`, `AuthorityIsOwned` | the unique index keeps the executors apart, except for a driver already told to stop; authority stays with the owner of the turn |
| `native_ends` | three Native turns; one empty drain, one crash; `FairSpec` | `AcceptedEnds` | every accepted turn ends |
| `cli_cancel` | three CLI turns, one mark; `EndlessSpec` | `CancelEnds` | a marked turn ends even if its driver never ends by itself |
| `cli_behind_background` | as `mixed`, only a command | `FailsOnlyIfRun` | **violated**: disagreement 1 |

Sizes are between ten thousand and half a million distinct states. Deadlock is
checked in the passing ones. `held` and `cli` declare the two Owner messages of
`p` symmetric (`OwnerMessages`): they have the same Thread, kind and executor, and
all properties of these runs are safety properties.

The bounds: a race in this code is between one turn and the next in a Thread, or
between a turn and its requester; two turns per Thread and a report contain
both. One permit makes every wait for a permit happen, two let a CLI work and a
lane of one Thread meet (capacity 4 with more Threads adds no new conflict, for
permits are only counted). One occurrence of each environment event per
run suffices for the races of that event with everything else. Combinations
that no passing run has (a snooze with a crash) are those of the disagreements
below.

### Everything else

| run | parts | properties |
| --- | --- | --- |
| `processes` | receipts, timers, pipeline | `TypesOK`; `WakeIsHeld`: a wake is in Lash's queue, taken or staged; `ToldThenAcceptedInOrder`; `LedgerSpec`; `FiresOncePerPeriod`, `RetiredHasRun`; live: `DeliveredIsRetired`, `DueIsAnswered` (from a due one-shot over its process to an answered turn) |
| `answers` | sync, web, related, timeline, fork, pairing, push | `TypeOK`; `RequestsActOnce`, `NothingSubmittedIsLost`, `ClientsAreCurrent`, `CompletedIsWhole`, `WakesAreHandled`, `DevicesAreServedOnce`; live: `EveryWaitEnds` |
| `services` | the seventeen others | `TypesOK`; `CallsAreHonest`, `ReachIsGiven`, `StoresAgree`, `AnsweredIsDone`, `DriversAreHonest`, `ThreadsAreTrue`; the action property `RevokedStaysRevoked` |
| `related_ignored` | related | `RelatedReachesAll`: **violated**, disagreement 2 |
| `token_dropped` | web | `TokenStands`: **violated**, disagreement 3 |

`answers` has 437 840 distinct states, `services` 1 191 749. These runs do not check
for deadlock: the instances end when their bounds are used up. Every action of every
part is taken in them.

| part | bound | what it makes happen |
| --- | --- | --- |
| receipts, timers, pipeline | two processes, two faults; a one-shot and a recurring timer, four instants, two edits, one failed start, one crash; one one-shot, two faults | a pass that dies after each commit; an edit or a crash between reservation, emission and retirement, over two periods |
| sync | one send, queue of 2, two events | a lost connection and a reset around one send; a session that lags and greets anew, or fails to |
| web | one message and upload, two faults, one time-out of the request or retry by hand | a time-out against the answer it waited for, over two connections or after a failed resync |
| related | one edit per client and an agent's, two ids, two events | a resent edit beside another client's, and a reset |
| timeline | two drains of two events, one failed write | events of a drain stored under the route of the next |
| fork | two wakes, one permit, two faults | one wake waits while the other times out beside its exit |
| pairing | two codes, two drops, one fault, one start | pairing again after a lost token |
| push | two devices, three changes, two attempts | an attempt that reaches one of two devices; an episode, its end and the next one while retries run |
| bridge | one call, three connections, two stdio instances, one failed write | a resend while the first copy runs, from a restarted bridge too |
| scope | four Threads, two grants each, four calls | a grant of a grant, revoked, called again |
| pages, reads | pages of one message, three messages, two events, one loss; two turns | a page read across messages, a live event before its page |
| rows | one name, three changes, two connections | a row that comes and goes between two polls |
| blobs, edits | two attempts of one upload, three faults; two edits called twice | a retry beside a reset and a stop; concurrent edits with a lost answer |
| tools | two calls, one pid | a pid reused for the other call |
| config | two operations, one upset | both sections written at once beside the poll |
| plugins | crash limit 2, four toggles, four panics | park beside disable and enable |
| headlines, threads, views | three Threads, five events; two Threads, four operations; two calls, two histories | a chain of ancestors; a stale edit; a view shown anew while a call waits |
| codex, claude and their parts | one session, one fault; four events; two messages of two blocks | a request beside the end of the reader; repeated and reordered events |

Three properties of `answers` mean less than their names, because the code does:

- `ClientsAreCurrent` and `EveryWaitEnds` excuse a `Stale` core client, whose resync failed:
  until its connection ends it may show an old Thread, lack messages, and have a send that the
  host accepted still pending, since the echo was among what was dropped. Nothing on the host
  tries the snapshot again. That it shows no message whose removal it was told is not excused,
  nor is the loss of a send. Without the excuse TLC refutes both.
  The web client's sends end in that case, too: their 20 second timer marks them as failed.
- `DevicesAreServedOnce` says of pushes that nothing follows an attempt that reached every
  device of its claim, and that an episode counts as delivered only after one. It is not one
  push for each device: after an attempt that reached one of two, both are pushed again.
- `AnsweredIsDone` says of plugins that a daemon without a row that names it belongs to an aborted
  supervisor. Right after `Disable` such a daemon still runs; it stops at its next await.

### What the code does against its own documentation

The first three have a run in which TLC finds the violation.

1. **`cli_behind_background` / `FailsOnlyIfRun`.** The poller starts CLI
   work without a look at the Thread's lane; while a background turn runs there
   the message fails on the unique index. `docs/product-direction.md:23`:
   admission and concurrency bounds "preserve each accepted request".
2. **`related_ignored` / `RelatedReachesAll`.** A core client passes over a
   broadcast list of references that carries another client's id
   (`core/transport.rs:498`), and shows the old list until the Thread is opened
   again. `docs/related-links.md:49`: "Clients compare against the last applied
   Related snapshot revision". `RelatedIsCurrent`, which the passing run checks,
   excuses just this client.
3. **`token_dropped` / `TokenStands`.** A snapshot that cannot be built is
   answered like a rejected token (`host/protocol.rs:127`); the web client erases
   a token the host takes, and stops. `app/src/ws/client.ts:41`: "Signalled to
   the app when the token is rejected".

The next ones have no run of their own. The budgets are in `MCThreadTurns`, so a
copy of a `.cfg` reproduces each.

4. **`CancelEnds`** with the `SmallTurns` on Native and `ArchiveBudget`, under
   `FairSpec`. A turn is started at `host/lash_runtime/thread_queue.rs:169`,
   bound at line 172 and named by the lane's anchor at line 176. A mark between
   the first two refuses the bind: the turn runs and nobody owns it. From then
   on the poller's call of `cancel_owned_turn` fails, and the `?` at
   `thread_lanes.rs:187` ends every later pass before it reads any request of any
   Thread. A restart is needed. `thread_archive.rs:3`: "their open work is
   cancelled". The same window is open to Stop and to `threads.cancel`.
5. **`OneAdmittedInput`** with `HeldTurns` and `SnoozeBudget`. "One admitted input
   per Thread lane" (`thread_queue.rs:1`): after a crash between enqueue and
   start, and a snooze that ends between reconciliation and the next one, a
   drain finds two. `NoReplay` is refuted there, too: the second request is still
   pending and is enqueued again, unless Lash refuses an id it has consumed.
6. **`CancelIsAddressed`** with `HeldTurns` and `StopBudget`. Stop marks what
   runs, and then cancels what the lane owns by the time it gets the request
   lock. If the marked turn settles in between, the next message is cancelled.
7. **`ArchivedTakesNoDelegation`** with `HeldTurns` and `ArchiveBudget`.
   `thread_archive.rs:58`: "Wakes and delegated sends check this before they
   create a turn". Wakes do, delegated sends do not.
8. **`AuthorityIsOwned`** with `SmallTurns` on Native and `LostBudget`.
   `thread_queue.rs:98` resets the lane's anchor whenever it discards the row of
   an ended turn. A report turn that an empty drain keeps for its retry and that
   a snooze then hides loses its owner that way, if a crash left such a row
   behind. Until the snooze ends Stop answers that nothing runs, and a mark has
   the effect of 4. The test at `thread_recovery_tests.rs:1242` asserts that the
   anchor is kept until Stop.

`AuthorityIsOwned` holds in `mixed`, `OneAdmittedInput` in `held` and `NoReplay` in
`native` because their events do not include the combination that 8 and 5 need: a
snoozed Thread and a crash. `CancelIsAddressed` holds in `cli` because the CLI executes all of
its turns. For three of these properties section 7 proves where exactly they hold, whatever the
Threads, turns and other events.

The following are defined in their modules with the sentence they come from, and
refuted when their part is checked against them: `ToolBridge!EveryStartEnds` (a
handler aborted between the registry and its publication), `ToolBridge!LiveIsDurable`
and `ThreadPages!LiveIsDurable` (a tool event overtakes an ingested one between its
row and its broadcast), `TimelineBarrier!SuccessIsDurable` (an event whose reroute
could not store the text before it), `Pairing!TokenIsSaved` (a later phase replaces
the one with the token before the app composes), `Headlines!HeadlineIsFact` (an
acceptance, a delegation, a report and a restored subtree refresh nothing),
`HostConfig!EditRepointsDefault` (a default derived before the change is written
after it), `ProcessView!GoneRowsGo` (a row between two polls). In `ForkWake`
`GoneIsHandled` excuses a wake whose context could not be read:
`fork_wake/dispatch.rs:154-162` gives it up without the fallback.

### Fairness

In `ThreadTurns`, `Fairness` is strong fairness of the poller, of the Owner's
commands and of each Thread's CLI work and lane. Each is one sequential tokio task
or a timer loop that the runtime keeps scheduling; what can stop it are the
admission mutex, a request lock and a permit. Tokio's `Mutex` and `Semaphore` serve
waiters in order, so a task that finds them free again and again gets them: strong,
not weak, fairness. `FairSpec` therefore also assumes that a driver and a drain
end. `EndlessSpec` drops that assumption: a driving CLI work or a draining lane is
fair only once it was told to stop.

In the other modules it is weak fairness of what a scheduled task or a timer
loop does next:

| part | fair | because |
| --- | --- | --- |
| receipts, timers, pipeline | the bridge, the poll, and the clock of the pipeline | loops of the lane with their own interval |
| sync, related | the host's session, the core's connection loop | one task each; the core reconnects with a backoff for ever |
| web | the session, socket events and reconnect timer; the timers of uploads and acknowledgements | events of the browser's loop; `setTimeout` with `MESSAGE_ACK_TIMEOUT_MS` (`threads/store.ts:242`) |
| timeline | the bridge, the pump | tasks of the lane; the wait has a time-out |
| fork | each message's task | the triage turn has a time-out |
| pairing | the host's redemption, the core, the app's main thread and composition | the app keeps running, or is started again |
| push | enqueue and attempts | tasks with a bounded number of retries |

No environment event and no fault is fair; their number is bounded by the
instance, so that connections last in the end. The components of `services` have
no liveness property.

## 7. What is proved

### ThreadTurns

`ThreadTurns_proofs.tla` proves, from `TreeAssumption`, `ReportAssumption` and
`BoundAssumption` alone (any tree, any turns, any capacity, any budgets):

| theorem | statement |
| --- | --- |
| `TypeCorrect` | `Spec => []TypeOK`: types, and an actor at work has the turn and outcome its next step reads |
| `ReportExactlyOnce` | `Spec => []ReportedOnce`: the report exists exactly when its turn ended |
| `NoAcceptedTurnLost` | `Spec => []AcceptedIsHeld`: an open addressed turn has its request row |
| `ImplementsLedger` | `Spec => LedgerSpec` |

The inductive invariant is `LedgerInv`:

    TypeOK /\ ReportedOnce /\ AcceptedIsHeld /\ RowsHaveTurns /\ DroppedEnded

Neither safety invariant is inductive alone. `ReportedOnce` needs the
injectivity of `ReportOf` and that nothing else accepts a report turn.
`AcceptedIsHeld` needs that a request row always belongs to an accepted turn
(`RowsHaveTurns`), or a removed row could belong to a turn accepted later, and
that the turn of a half-finished removal has ended (`DroppedEnded`), or
`DropClean` would take the row of an open turn.

The argument has one central lemma, `NextMoves`: every step of every actor
leaves `state` alone, accepts one turn, starts one turn in an idle Thread, or
ends a set of open turns with their reports; and it says what happens to the
request rows and to the removal meanwhile. The invariant and the refinement both
follow from this classification, not from forty separate action proofs.

### The actors of ThreadTurns

In the same module, from the same three assumptions:

| theorem | statement |
| --- | --- |
| `OnlyRunningTurnsDrain` | `Spec => []DrainedTurnRuns`: what a drain executes is a running turn |
| `EndedDriversAreTold` | `Spec => []EndedDriverIsSignalled`: a driver whose turn somebody else ended has its token cancelled |
| `ExecutorsExclude` | `Spec => []NoOverlap`: a drain and a driver are never both at work in one Thread, unless the driver was told to stop |
| `RequestsStartInOrder` | `Spec => FifoStart`: no addressed turn starts before an earlier one of its Thread |

A second classification of the steps says what they do to the record of each actor
(`CliFollows` and its likes for lane, anchor, poller and removal), so that each
part of the two invariants is disturbed by a few steps only.

`WorkInv` adds to `LedgerInv`: one turn runs per Thread; the turn of a drain is not on
the poller's list of queued turns to cancel, because it was bound unmarked, or was
listed before it ran and then refused by the bind; a driver's turn did start; and a
removal has signalled the CLI work on its turn before it ends that turn. The last is
why `EndedDriverIsSignalled` holds across the two commits of `cancel_queued`.

`FifoInv` says of a turn that a lane is about to run, or that CLI work waits with, that
no earlier request of its Thread is queued (`First`). That is true at admission and stays
true, for later requests get greater ids (`OrderBound`). The poller's snapshot is old by
the time it dispatches, so `BatchFirst` says of it: for a Thread that the pass
has not seen yet, it holds with each request every earlier one that is still queued.

### Cancellation, authority and inputs, where they can be relied on

Three properties of `ThreadTurns` are refuted by some histories (disagreements 5, 6 and 8) and
hold in others. These theorems, in the same module, say in which: the condition is on the Threads and
the budget and not on the size of anything.

| theorem | condition | statement |
| --- | --- | --- |
| `CliCancelsAreAddressed` | none | `Spec => [](\A th : CliOnly(th) => CancelledIn(th))`: in a Thread that only the CLI executes a turn is cancelled only if its own Stop, mark or removal was asked for |
| `CliHistoryIsAddressed` | every turn is the CLI's | `Spec => []CancelIsAddressed` |
| `LanesKeepTheirTurns` | none | for each Thread `KeepsAuthority(th) => OwnedIn(th)` and `OrderedRows(th) => InputsIn(th)` |
| `AuthorityHasAnOwner` | each Thread gets no reports, or there is no snooze, or no restart | `Spec => []AuthorityIsOwned` |
| `DrainsFindOneInput` | each Thread gets no reports, or there is neither snooze nor restart | `Spec => []OneAdmittedInput` |

The condition of `AuthorityHasAnOwner` excludes the combination that disagreement 8 needs and nothing
else; it covers `mixed`. That of `DrainsFindOneInput` also excludes a restart where a Thread has reports,
since reports of one restart share an id and nothing fixes which is admitted first, and a snooze there
without a restart: `held` checks that last case and it is not proved.

`AimInv` is about who cancels. In a CLI Thread a running turn is what the CLI work executes
(`RunsInCli`), so the turns that the poller found running and marked are the ones it will signal
(`PumpAims`). A Stop marks what runs before it signals, and no other turn takes that place
meanwhile (`StopAims`); a removal is of a turn that was asked for (`DropAims`); so a token that is
cancelled, or an outcome that says so, belongs to an addressed turn (`CliAims`). On the Native
path the second step fails: the lane settles the marked turn and takes the next one.

`FrontInv` is about the order of a Thread's rows. Ids tie only between reports of one
restart (`Ties`), and only a removal cut short by a restart leaves the row of an ended turn
(`Leftover`). Where a snooze hides all rows of a Thread or none (`Even`), the turn a lane is
about to run, and its anchor, are at the front of the rows (`LaneFront`). So what
`LaneDiscard` drops is never the turn of the anchor, and a row in front of the anchor's does not
come back: a turn that is bound and runs has its owner (`OwnedInv`). A pending input of Lash whose
request is still there is at the front, too (`LashFront`), and with distinct ids there is one front:
reconciliation withdraws the others, and the drain finds just that input (`InputsInv`).

### ProcessDelivery

`ProcessDelivery_proofs.tla`, from `FaultLimit \in Nat`: any processes, any of them
waking, any number of faults.

| theorem | statement |
| --- | --- |
| `DeliveryTypes` | `Spec => []TypeOK` |
| `NoWakeLost` | `Spec => []WakeIsHeld`: an emitted wake is in Lash's queue, drained or staged |
| `DeliveredInOrder` | `Spec => []ToldThenAcceptedInOrder`: once each, in the order of the table |
| `ImplementsDeliveryLedger` | `Spec => LedgerSpec` |

The invariant is `DeliveryInv`: `TypeOK`, `WakeIsHeld`, `RowsInv` (`chat` and `turns`
are prefixes of the table) and `PassInv`. The prefixes are not inductive alone,
for a pass works with rowids it read many commits ago: `PassInv` says that every
row without a turn is still in its hands, the one it is telling apart. So the
lowest one it takes is the next one due or was accepted before, whichever pass was
given up between its message and its turn.

### ThreadScope

`ThreadScope_proofs.tla`, from no assumption: any Threads, limit of grants and calls.

| theorem | statement |
| --- | --- |
| `ReachIsAlwaysGiven` | `Spec => []ReachIsGiven`: no chain of grants reaches beyond what place or Owner gave |
| `RetryNeverWidens` | `Spec => RevokedStaysRevoked`: a grant is added only by a call that has no receipt yet |

The invariant `ScopeInv` says that ancestors are closed (`Forest`) and that the
target of every grant in force lies below the holder, below an ancestor of it, or
below a target that the Owner gave one of these (`GrantsCovered`). This is about
what was `given` and not about what is in force, since revoking a grant leaves
those that were handed on from it.

### Timers

`Timers_proofs.tla`, from `Sane` (a last instant, positive intervals): any
subscriptions, and any number of edits, failed starts and crashes.

| theorem | statement |
| --- | --- |
| `TimersTypes` | `TimersSpec => []TypeOK`: an occurrence is one of the clock's periods |
| `OncePerPeriod` | `TimersSpec => []FiresOncePerPeriod` |
| `RetiredRan` | `TimersSpec => []RetiredHasRun` |

`TimersInv` says that a reserved period is over by now (`ReservedIsOver`), and that
the records a poll holds agree with the subscription on its creation, however old
they are (`ListInv`). The count follows: the occurrences of one subscription map
one to one into the periods that are over.

### Processes together

`MCProcesses_proofs.tla`, from `ProcessesAssumption`: what the run `processes` checks of
receipts, timers and the pipeline of both.

| theorem | statement |
| --- | --- |
| `PartsAreTyped` | `MCSpec => []TypesOK` |
| `PipelineFiresOnce`, `RetiredRanEverywhere` | `MCSpec => []FiresOncePerPeriod`, `MCSpec => []RetiredHasRun` |
| `PipelineDeliversInOrder` | `MCSpec => []ToldThenAcceptedInOrder` |
| `PipelineImplementsDeliveryLedger` | `MCSpec => LedgerSpec` |

The lemmas of `Timers_proofs` and `ProcessDelivery_proofs` are instantiated and not proved
again. What has to be shown is that the steps of one component remain steps the
other's invariant survives when they share a registry: a timer that starts a
process changes nothing the receipts rely on but its status; the end of a process leaves
the timers alone; one crash ends a pass of the bridge and a poll of the timers at once.

### Clients and turns beside them

`MCClients_proofs.tla` (the parts sync, related and web) and `MCAnswers_proofs.tla`, which builds on it,
from `NumbersAssumption`, `SendsAssumption` and `TextsAssumption`, about all seven parts: every
safety property that the run `answers` checks.

| theorem | statement | invariant |
| --- | --- | --- |
| `PartsAreTyped` | `Spec => []TypeOK` | those below |
| `ForksLeaveATrace` | `Spec => []WakesAreHandled`: a wake becomes one turn at most, and is not given up without a trace | `ForkWake!WakeInv` |
| `DevicesServedOnce` | `Spec => []DevicesAreServedOnce`: one token per code; no push of an episode after an attempt that reached all its devices, and none taken for delivered before | `Pairing!PairInv`, `PushGateway!GateInv` |
| `CompletedTurnsAreWhole` | `Spec => []CompletedIsWhole`: a completed turn shows all its drain did and the ingest did not refuse | `TimelineBarrier!LineInv` |
| `RequestsActOnlyOnce` | `Spec => []RequestsActOnce`: a send is one message, an edit of the references one change, a creation one Thread | `ClientSync!SendInv`, `RelatedEdits!EditInv` |
| `SubmittedSendsAreKept` | `Spec => []NothingSubmittedIsLost`: a submitted send stays in outbox or drafts until the host has accepted it | `ClientSync!SendInv` |
| `ClientsShowTheHost` | `Spec => []ClientsAreCurrent`: once nothing is under way, a client shows the host's Thread, messages and references, unless a resync failed on its connection; the web client keeps what it sent and waits on no dead connection | `ClientSync!FlowInv`, `RelatedEdits!ListInv`, `WebClient!WebInv` |

- `WakeInv`: the exit call writes before it takes the slot (`TraceFirst`), so the dispatch
  that finds the slot taken may leave the message to it.
- `PairInv`: every token on a wire, in a phase or in the app was issued (`TokensAreIssued`).
- `GateInv`: an episode in flight has one sender (`OneSender`), and an episode that is sent, idle
  or to come has had no attempt that reached everyone (`NotDeliveredYet`); the episode number
  plus the publications under way never exceeds the changes there were
  (`EpisodesAreCounted`): a late publication opens no episode twice.
- `LineInv`: in a drain whose integrity is intact, every event is stored, pending, in the
  stream before the commit, or there is a gap before it (`OnItsWay`); the commit is
  the last item of a drain (`CommitIsLast`) and releases the pump for its own drain only
  (`CommitIsRead`).
- `SendInv`: what a frame, a broadcast or a snapshot carries was accepted once (`Accepted`,
  `SyncShapes`), whatever was removed since, so that nothing else can end a pending send; a
  frame on its way to the host names the history its send was submitted in (`MeantFor`), so
  that no send passes a reset; two messages never share a client id (`OneMessage`).
- `EditInv`: an edit that took effect has its receipt, or had it before the reset, and a
  receipt is of the current history (`HitsHaveReceipts`).
- `FlowInv`: the property is about a quiet client, the invariant about all that can be under way to
  one. Of messages: one that the client does not show is with a session task, in the broadcast queue, on the
  wire behind the answer that missed it, or the answer that has it is to come
  (`MessagesArrive`, `OpenedIsCompleted`), or the queue has `lost` something since the last hello; a removal is told of a message that will not be
  published again (`RemovedIsGone`). Of the Thread's row: histories never go back along the
  wire (`HistoriesGrow`), nor do revisions after the first frame of the current history
  (`RevisionsGrow`); the row in the duplicate filter is the last that the client is told
  (`KnownIsLast`), so the filter drops nothing the client has yet to see, after a failed resync
  either; and without an upsert in the queue, or one lost, the last frame is the row as it is
  (`LastIsCurrent`).
- `ListInv`: no list on its way is ahead of the Thread (`ListsAreBehind`), and since the
  last revision that changed the reference there is a list for each client, shown or queued,
  or one to be published (`ListComes`). An edit that changes nothing raises the revision and need not
  arrive.
- `WebInv`: a send on its way carries the history its message was submitted in
  (`SendsAreMeant`), and an echo is of a message the host has, or had before a reset the message does
  not outlive (`EchoesAreTrue`).

### Services and stores

`MCServices_proofs.tla`, from `ServicesAssumption`, about six of the seventeen parts.

| theorem | statement | invariants |
| --- | --- | --- |
| `AnsweredOperationsAreDone` | `MCSpec => []AnsweredIsDone`: an answered command left no process and struck no stranger, an answered edit is in the file, a shut host runs no call; a plugin's row is what the Owner chose, and a daemon is the row's or an aborted supervisor's | `NativeTools!ToolsInv`, `Plugins!DaemonInv` |
| `StoresStayTogether` | `MCSpec => []StoresAgree`: a blob's row has its file; an artifact's content is its receipts; document, clients and default route agree | `Blobs!BlobInv`, `Artifacts!EditsInv`, `HostConfig!ConfigInv` |
| `CallsStayHonest` | `MCSpec => []CallsAreHonest`: a tool call has one effect, one start and at most one end, a returned call is not told as interrupted, and a turn that lost an event does not complete | `ToolBridge!BridgeInv` |

- `ToolsInv`: a pid names one group until its leader is reaped *and* its members are gone
  (`OneGroupPerPid`), and a command forgets the pid when it reaps the leader
  (`HeldUntilReaped`): no signal can meet a later group of the same number. `OneEditor` is
  the mutation lock between an edit's read and write.
- `BridgeInv`: a handler works alone under the lock of the receipts, and only those of the first
  invoker do (`OneHandler`); a key that has started has its receipt, is the one at work, or
  comes never again because the turn is over (`StartedOnce`); the timeline has what
  receipts and pending table tell, a start before its end (`EndedOnce`); a lost event has
  failed the turn or marked it (`LossIsKnown`).
- `DaemonInv`: a body runs under a supervisor that supervises it, or outlives one that was aborted
  (`BodiesAreRun`); with it a body whose supervisor goes on is the one the row names.
- `BlobInv`: a row belongs to an attempt that is over, so no cleanup can still remove its
  file (`RowsAreOver`); a written file stands while its history does (`FilesStand`); a reset
  is alone between its rows and its files (`ResetIsAlone`).
- `EditsInv`: the content is the edits that have a receipt, each once, with one card each.
- `ConfigInv`: one operation holds the lock of provider, model and roster, one rewrites
  the document and what it read is the file (`LocksHold`, `RewritesFit`); clients were told
  the surface of the file or the one before (`ClientsTold`); what was derived stands
  until it is written unless the file changed since (`DerivedStands`). The last two are
  about a host without hand edits and failures: with them the properties promise less, too
  (section 6, `EditRepointsDefault`).

Each invariant is stated at the end of its component's module. A step of another part
leaves a part alone, so that their conjunction over `part` is inductive (`PartsInv`).

### What is only model-checked

- `FailsOnlyIfRun` and `NoReplay` of `ThreadTurns` hold for the executors and events of their
  instance and are refuted for others (section 6). `OneAdmittedInput` where a Thread that gets
  reports is snoozed and the host does not restart: the run `held`.
- `TypesOK`, `DriversAreHonest` and `ThreadsAreTrue` of `MCServices`: invariants of the drivers and
  the read models over request table, hub and what is under way are not written yet. In `Headlines`, `ThreadRows` and `CodexTools` the
  chain of ancestors or the list of positions is a recursive function over the data; what such
  a function computes for every input needs induction over it, which is beyond the prover.
- The liveness properties, which hold under fairness, and whatever needs `ENABLED`. That `Line`
  computes the chain of ancestors is not proved for the reason above, and no proof uses it.

## 8. What is not modelled

- **Client FFI**: a binding without state. **Scripted runtime**, **debug routes**: for
  tests; the route that dispatches a triage fork is `Dispatch` of `ForkWake`.
  Deployment, tools and screens.
- In `ThreadTurns`: the timeline and headlines that commit with a turn (`ThreadPages`,
  `TimelineBarrier` and `Headlines` have them), the history's epoch, scripted lanes,
  Lash's lease protocol, which shows as the empty drain. A failing SQLite
  statement, apart from the retry until commit of a CLI completion, which stutters.
- Progress reports and receipts of a delegated send; authorities of processes;
  provider detection; stores and routes of plugins; versions and export of
  artifacts; registration of push tokens; throttling of failed pairings.
- The abort of the old history's turn tasks by a reset. What a reset does to sends,
  edits, uploads and views under way is modelled (`ClientSync`, `RelatedEdits`,
  `Blobs`, `Views`).
- A session that lags and its resync are in `ClientSync` and `WebClient` alone: `RelatedEdits`,
  `ThreadPages`, `ProcessView` and `Views` have broadcasts that all arrive while the connection lasts.
- In `NativeTools`, edits share one mutation lock, as the calls of one `NativeCodingTools` do
  (`native_coding_tools.rs:45`). Two instances over one directory exclude nothing, and an edit of one
  may be lost to the other. `files.write` and edits that fail are left out.
- In `HostConfig`, a prompt that cannot be stored or applied to the live session
  (`lib.rs:233`) and the built-in defaults that stand in for a malformed file
  (`host_config/mod.rs:421`).
- In `ThreadTurns`, a CLI driver that reports "interrupted" (`cli_turn.rs:63`): its turn ends
  interrupted by the statement that ends a failed one.
- Three actions join two steps of the code between which another task may run: the poller's
  signal to a queued CLI work and the completion of its turn (`PumpCancelQueued`,
  `thread_lanes.rs:165-180`), so that the work never sees the token before the turn has ended; the
  admission that found nothing and the activation of a background turn, two holds of
  the request lock (`Activating`, `lifecycle.rs:516-525`); in `TimelineBarrier` the check of the timeline's
  integrity and the commit of the turn (`Complete`, `turn_ingest.rs:381-403`).
- In `ToolBridge`, a result for which `execution_telemetry_guard` is refused
  (`telemetry.rs:85`): the call leaves the pending table and its end is not told.
- In the drivers, a further `prompt` while a turn runs.

Some behaviours were met on the way and lie outside the modules' abstraction: the pump
of a lane may drain a wake of a process before the bridge has captured it
(`process_bridge.rs:18`, `lifecycle.rs:630`); a removed queued message loses its row
in `client_messages`, so that a later resend is accepted anew; an action on a Thread
whose answer was lost is refused as stale when it is made again
(`thread_commands.rs:344`); publications of a Thread may reach the broadcast channel
in another order than the row changed (`tools/threads.rs:81`; `PushGateway` has this
for pushes).

## 9. Plan

1. The two drivers, whose invariant relates request table, reader and hub.
2. `Views` and `ThreadPages`, whose properties need no recursion over the tree.
3. A module of delegation: receipts, progress reports, the cascade up the tree against
   an abstract call and return.
