------------------------------- MODULE HostConfig ------------------------------
(***************************************************************************)
(* Settings (lib.rs), the config file behind them (host_config) and the     *)
(* default Native execution derived from it (thread_lanes.rs).              *)
(* A Settings operation checks what it was asked under a lock, rewrites its *)
(* section of the file under the store's write lock, re-derives the default *)
(* and broadcasts what it changed. The admission poll re-derives the        *)
(* default when the file changed, and the Owner edits the file by hand.     *)
(* Abstracted: a model is the provider it belongs to and a number; fork,    *)
(* Sub-agent and prompt sections are one `prompt` section; of the instances *)
(* the Owner adds, all are in the same state: absent, without key, or usable.*)
(***************************************************************************)
EXTENDS Naturals

CONSTANTS
    Provider,    \* roster instances a resident agent may run on
    Booted,      \* the one the host booted with
    OpLimit,     \* bound on Settings operations
    UpsetLimit   \* bound on edits by hand and failed writes of the default

Model == Provider \X {1, 2}
Instance == {"absent", "keyless", "usable"}
File == [provider : Provider, model : Model, prompt : {0, 1}, added : Instance]
Route == [provider : Provider, model : Model]

Op == {"provider", "model", "prompt", "roster"}

VARIABLES
    file,      \* hirsel.toml
    default,   \* native_execution_default
    op,        \* of each Settings operation: where it is, what it was asked,
               \* the document it rewrites, what it derived, the surface before
    poll,      \* the admission poll: where it is and what it derived
    revision,  \* config_revision: the file it last reacted to, if any
    shown,     \* what clients were last told
    expected,  \* the file as the operations and edits meant it
    past,      \* former contents of the file
    counts     \* operations, edits, faults; an edit fell into a rewrite

vars == <<file, default, op, poll, revision, shown, expected, past, counts>>

\* agent_provider: a provider that left the roster gives the booted one.
Choice(f) == IF f.added = "absent" THEN Booted ELSE f.provider

\* selection_in: a model the provider does not offer gives its default model.
Selection(f) == IF f.model[1] = Choice(f) THEN f.model ELSE <<Choice(f), 1>>

\* The model surface a client shows.
Surface(f) == [provider |-> Choice(f), model |-> Selection(f)]

\* native_default_route: a provider without a key is not routable.
Routed(f) == IF f.added = "usable" THEN Choice(f) ELSE Booted

\* model_spec: the booted provider's own selection when the choice is not routable.
ModelSpec(f) == IF Routed(f) = Choice(f) THEN Selection(f) ELSE <<Booted, 1>>

\* The default execution of a Thread's new turns.
Live(f) == [provider |-> Routed(f), model |-> ModelSpec(f)]

Pc == {"idle", "checked", "captured", "stored", "spec", "routed", "applied"}

\* A file with the defaults of some provider; nothing is held when idle.
Plain(p) == [provider |-> p, model |-> <<p, 1>>, prompt |-> 0, added |-> "usable"]
NoFile == Plain(Booted)
Idle == [pc |-> "idle", want |-> NoFile, doc |-> NoFile, got |-> Surface(NoFile),
         before |-> Surface(NoFile)]
NoPoll == [pc |-> "idle", got |-> Surface(NoFile)]

TypeOK ==
    /\ file \in File /\ expected \in File /\ past \subseteq File
    /\ default \in Route /\ revision \subseteq File
    /\ op \in [Op -> [pc : Pc, want : File, doc : File, got : Route, before : Route]]
    /\ poll \in [pc : Pc, got : Route]
    /\ shown \in [provider : Provider, model : Model, prompt : {0, 1}]
    /\ counts \in [ops : 0 .. OpLimit, edits : 0 .. UpsetLimit, faults : 0 .. UpsetLimit,
                   clash : BOOLEAN]

\* The host has loaded the file and derived the default once.
InitFrom(f) ==
    /\ file = f /\ expected = f /\ default = Live(f)
    /\ op = [o \in Op |-> Idle] /\ poll = NoPoll
    /\ revision = {} /\ past = {} /\ shown = [provider |-> f.provider, model |-> f.model, prompt |-> 0]
    /\ counts = [ops |-> 0, edits |-> 0, faults |-> 0, clash |-> FALSE]

Init == \E p \in Provider : InitFrom(Plain(p))

Goes(o, from, to) == op[o].pc = from /\ op' = [op EXCEPT ![o].pc = to]

-----------------------------------------------------------------------------
(* A Settings operation                                                    *)

\* mutation: a model change does not take the provider lock
PromptLockOnly(o) == op[o].pc = "idle"
LockFree(o) ==
    IF o = "prompt" THEN op[o].pc = "idle"
    ELSE \A x \in {"provider", "model", "roster"} : op[x].pc = "idle"

\* What the operation wants of the file: a provider comes with its default
\* model, a model frame names the provider it was rendered for.
Wish(o, f, p, n) ==
    CASE o = "provider" -> [f EXCEPT !.provider = p, !.model = <<p, 1>>]
      [] o = "model"    -> [f EXCEPT !.model = <<p, n>>]
      [] o = "prompt"   -> [f EXCEPT !.prompt = 1 - f.prompt]
      [] o = "roster"   -> [f EXCEPT !.added = IF n = 1 THEN "keyless"
                                               ELSE IF p = Booted THEN "absent" ELSE "usable"]

\* set_agent_provider, set_agent_model, set_agent_prompt; add_provider,
\* update_provider and remove_provider: lock and check.
Begin(o, p, n) ==
    /\ counts.ops < OpLimit /\ LockFree(o)
    /\ o = "model" => Choice(file) = p
    /\ o = "provider" => p = Booted \/ file.added # "absent"
    /\ o = "roster" /\ p = Booted /\ n = 2 => file.added # "absent"
    /\ op' = [op EXCEPT ![o] = [@ EXCEPT !.pc = "checked", !.want = Wish(o, file, p, n),
                                         !.before = Surface(file)]]
    /\ counts' = [counts EXCEPT !.ops = @ + 1]
    /\ UNCHANGED <<file, default, poll, revision, shown, expected, past>>

\* mutation: the store's write lock is not taken
WriteFreeAlways == TRUE
WriteFree == \A o \in Op : op[o].pc # "captured"

\* The store reloads the file and copies the document it will rewrite.
Capture(o) ==
    /\ WriteFree /\ op[o].pc = "checked"
    /\ op' = [op EXCEPT ![o] = [@ EXCEPT !.pc = "captured", !.doc = file]]
    /\ UNCHANGED <<file, default, poll, revision, shown, expected, counts, past>>

\* The sections of w written into document f.
Written(o, f, w) ==
    CASE o = "provider" -> [f EXCEPT !.provider = w.provider, !.model = w.model]
      [] o = "model"    -> [f EXCEPT !.model = w.model]
      [] o = "prompt"   -> [f EXCEPT !.prompt = w.prompt]
      [] o = "roster"   -> [f EXCEPT !.added = w.added]

\* persist_and_replace
Persist(o) ==
    /\ op[o].pc = "captured"
    /\ op' = [op EXCEPT ![o] = [Idle EXCEPT !.before = op[o].before,
                                    !.pc = IF o \in {"prompt", "roster"} THEN "applied" ELSE "stored"]]
    /\ past' = past \cup {file}
    /\ file' = Written(o, op[o].doc, op[o].want)
    /\ expected' = Written(o, expected, op[o].want)
    /\ UNCHANGED <<default, poll, revision, shown, counts>>

\* refresh_execution_default: the model first, the route it goes with after.
ReadSpec(o) ==
    /\ op[o].pc = "stored"
    /\ op' = [op EXCEPT ![o] = [@ EXCEPT !.pc = "spec", !.got.model = ModelSpec(file)]]
    /\ UNCHANGED <<file, default, poll, revision, shown, expected, counts, past>>

ReadRoute(o) ==
    /\ op[o].pc = "spec"
    /\ op' = [op EXCEPT ![o] = [@ EXCEPT !.pc = "routed", !.got.provider = Routed(file)]]
    /\ UNCHANGED <<file, default, poll, revision, shown, expected, counts, past>>

WriteDefault(o) ==
    /\ Goes(o, "routed", "applied") /\ default' = op[o].got
    /\ UNCHANGED <<file, poll, revision, shown, expected, counts, past>>

Upset == counts.edits + counts.faults < UpsetLimit

Fault == Upset /\ counts' = [counts EXCEPT !.faults = @ + 1]

\* The operation fails with its change in the file and nothing broadcast.
WriteDefaultFails(o) ==
    /\ Fault /\ op[o].pc = "routed" /\ op' = [op EXCEPT ![o] = Idle]
    /\ UNCHANGED <<file, default, poll, revision, shown, expected, past>>

\* broadcast_model_snapshot only if it moved; broadcast_prompts always.
Broadcast(o) ==
    /\ op[o].pc = "applied" /\ op' = [op EXCEPT ![o] = Idle]
    /\ shown' = IF o = "prompt" THEN [shown EXCEPT !.prompt = file.prompt]
                ELSE IF Surface(file) = op[o].before THEN shown
                ELSE [shown EXCEPT !.provider = Choice(file), !.model = Selection(file)]
    /\ UNCHANGED <<file, default, poll, revision, expected, counts, past>>

-----------------------------------------------------------------------------
(* The admission poll and the Owner's editor                               *)

\* mutation: the revision is the one the refresh ends with
SeenLater == IF poll.pc = "routed" THEN {file} ELSE revision
Seen == revision

\* pump_pending: the revision is swapped before the refresh.
PollStart ==
    /\ poll.pc = "idle" /\ {file} # revision
    /\ poll' = [poll EXCEPT !.pc = "stored"] /\ revision' = {file}
    /\ UNCHANGED <<file, default, op, shown, expected, counts, past>>

PollSpec ==
    /\ poll.pc = "stored"
    /\ poll' = [poll EXCEPT !.pc = "spec", !.got.model = ModelSpec(file)]
    /\ UNCHANGED <<file, default, op, revision, shown, expected, counts, past>>

PollRoute ==
    /\ poll.pc = "spec"
    /\ poll' = [poll EXCEPT !.pc = "routed", !.got.provider = Routed(file)]
    /\ UNCHANGED <<file, default, op, revision, shown, expected, counts, past>>

PollWrite ==
    /\ poll.pc = "routed" /\ poll' = NoPoll
    /\ default' = poll.got /\ revision' = Seen
    /\ UNCHANGED <<file, op, shown, expected, counts, past>>

\* The poll fails; the revision it swapped stays.
PollFails ==
    /\ Fault /\ poll.pc = "routed" /\ poll' = NoPoll
    /\ UNCHANGED <<file, default, op, revision, shown, expected, past>>

\* The Owner points the main Agent at p by hand.
HandEdit(p) ==
    /\ Upset /\ p # file.provider
    /\ past' = past \cup {file}
    /\ file' = [file EXCEPT !.provider = p, !.model = <<p, 1>>]
    /\ expected' = [expected EXCEPT !.provider = p, !.model = <<p, 1>>]
    /\ counts' = [counts EXCEPT !.edits = @ + 1,
                                !.clash = @ \/ \E o \in Op : op[o].pc \in {"checked", "captured"}]
    /\ UNCHANGED <<default, op, poll, revision, shown>>

OpStep(o) ==
    \/ \E p \in Provider, n \in {1, 2} : Begin(o, p, n)
    \/ Capture(o) \/ Persist(o) \/ ReadSpec(o) \/ ReadRoute(o)
    \/ WriteDefault(o) \/ WriteDefaultFails(o) \/ Broadcast(o)

Next ==
    \/ \E o \in Op : OpStep(o)
    \/ PollStart \/ PollSpec \/ PollRoute \/ PollWrite \/ PollFails
    \/ \E p \in Provider : HandEdit(p)

Spec == Init /\ [][Next]_vars

-----------------------------------------------------------------------------
(* Properties                                                              *)

Quiet == poll.pc = "idle" /\ (\A o \in Op : op[o].pc = "idle") /\ revision = {file}

\* No operation undoes another: the file holds what each section was last set
\* to, and, unless an instance is removed, a model frame never lands on a
\* provider it was not rendered for. An edit by hand that falls into a rewrite is
\* outside this.
SettingsAreKept ==
    \/ counts.clash
    \/ /\ file = expected
       /\ (\A f \in past \cup {file} : f.added # "absent") => file.model[1] = file.provider

\* Without edits by hand and failed writes, a settled host has told its clients
\* what the file says and, unless the file returned to former contents, runs new
\* turns on it.
SettledIsCurrent ==
    Quiet /\ counts.edits = 0 /\ counts.faults = 0 =>
        /\ [provider |-> shown.provider, model |-> shown.model] = Surface(file)
        /\ shown.prompt = file.prompt
        /\ file \notin past => default = Live(file)

SettingsStand == SettingsAreKept /\ SettledIsCurrent

\* docs/hirsel-config.md: a later change of the provider, "from Settings or from
\* this file, repoints the default route". It does not when the default derived
\* before the change is written after it, and the poll has reacted already or
\* sees contents it has seen before.
EditRepointsDefault == Quiet /\ counts.faults = 0 => default = Live(file)

-----------------------------------------------------------------------------
(* The inductive invariant                                                 *)

ConfigShapes ==
    /\ file \in File /\ expected \in File /\ past \subseteq File
    /\ default \in Route /\ revision \subseteq past \cup {file}
    /\ op \in [Op -> [pc : Pc, want : File, doc : File, got : Route, before : Route]]
    /\ poll \in [pc : Pc, got : Route]
    /\ shown \in [provider : Provider, model : Model, prompt : {0, 1}]
    /\ counts \in [ops : Nat, edits : Nat, faults : Nat, clash : BOOLEAN]
    /\ counts.clash => counts.edits > 0

\* Operations on the provider, the model and the roster, which share a lock.
Locked == {"provider", "model", "roster"}

\* One operation holds the lock, and one document is being rewritten.
LocksHold ==
    /\ \A o, x \in Locked : op[o].pc # "idle" /\ op[x].pc # "idle" => o = x
    /\ \A o, x \in Op : op[o].pc = "captured" /\ op[x].pc = "captured" => o = x
    /\ \A o \in {"prompt", "roster"} : op[o].pc \in {"idle", "checked", "captured", "applied"}

\* The document is the file, and what an operation wants still fits it.
RewritesFit ==
    \/ counts.clash
    \/ /\ \A o \in Op : op[o].pc = "captured" => op[o].doc = file
       /\ \A o \in {"provider", "model"} : op[o].pc \in {"checked", "captured"} =>
             op[o].want.model[1] = IF o = "model" THEN Choice(file) ELSE op[o].want.provider

Calm == counts.edits = 0 /\ counts.faults = 0

ShownSurface == [provider |-> shown.provider, model |-> shown.model]

\* Clients were told the surface of the file, or the one before the operation
\* that is about to tell them.
ClientsTold ==
    Calm =>
        /\ \A o \in Locked : op[o].pc # "idle" => op[o].before = ShownSurface
        /\ (\A o \in Locked : op[o].pc \in {"idle", "checked", "captured"})
              => ShownSurface = Surface(file)
        /\ op["prompt"].pc # "applied" => shown.prompt = file.prompt

\* What an operation derived stands until it writes it, for it holds the lock;
\* what the poll derived stands unless the file changed since.
DerivedStands ==
    Calm =>
        /\ \A o \in {"provider", "model"} :
              /\ op[o].pc \in {"spec", "routed"} => op[o].got.model = ModelSpec(file)
              /\ op[o].pc = "routed" => op[o].got.provider = Routed(file)
        /\ revision = {file} /\ file \notin past =>
              /\ poll.pc = "idle" => default = Live(file)
              /\ poll.pc \in {"spec", "routed"} => poll.got.model = ModelSpec(file)
              /\ poll.pc = "routed" => poll.got.provider = Routed(file)

ConfigInv == ConfigShapes /\ LocksHold /\ RewritesFit /\ ClientsTold /\ DerivedStands
             /\ SettingsAreKept

=============================================================================
