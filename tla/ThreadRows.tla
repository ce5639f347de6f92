----------------------------- MODULE ThreadRows -----------------------------
(***************************************************************************)
(* The rows of the Thread tree and the edits made to them: the Owner's     *)
(* addressed actions (crates/hirsel-host/src/thread_commands.rs, storage/  *)
(* threads.rs, storage/thread_icons.rs), the agent's mutations (storage/   *)
(* thread_mutations.rs), the action of an instrument, which is checked     *)
(* once when the handler reads the row and once more in the transaction    *)
(* that accepts it (storage/thread_messages.rs), and the checks and        *)
(* triggers of storage/current.sql.  The texts, icon, showcase and         *)
(* execution of a Thread, and its instrument, are one version number.      *)
(***************************************************************************)
EXTENDS Integers, FiniteSets

CONSTANTS Threads,  \* Thread ids, in the order they are created
          Client,   \* Owner clients
          OpLimit   \* bound: operations on the rows

Top == 0
Kinds == {"space", "task"}

VARIABLES row,      \* the rows of the Threads created so far
          copy,     \* the row each client has on screen, and its id
          act,      \* an instrument action between the two checks
          accepted, \* history: the accepted actions
          edited,   \* history: what the last fenced edit replaced
          ops

vars == <<row, copy, act, accepted, edited, ops>>

Known == DOMAIN row
NewRow(kind, p) ==
    [kind |-> kind, parent |-> p, settled |-> FALSE, archived |-> FALSE,
     asleep |-> FALSE, pinned |-> FALSE, content |-> 0, rev |-> 1]
NoCopy == [id |-> Top, row |-> NewRow("task", Top)]
NoAct == [id |-> Top, rev |-> 0, saw |-> 0, settles |-> FALSE]

Children(t) == {u \in Known : row[u].parent = t}
Descends(u, t) ==
    LET up[n \in Nat] == IF n = 0 THEN {u}
                         ELSE up[n - 1] \cup ({row[x].parent : x \in up[n - 1]} \ {Top})
    IN t \in up[Cardinality(Known)]

Tick == ops < OpLimit /\ ops' = ops + 1

\* Every UPDATE of a row bumps its revision.
\* mutation: the agent's update leaves the revision alone.
SameRevision(r) == r
Bumped(r) == [r EXCEPT !.rev = @ + 1]
Put(t, r) == row' = [row EXCEPT ![t] = Bumped(r)]

-----------------------------------------------------------------------------
(* The tree                                                                *)

\* create_in_transaction, with the trigger threads_kind_parent_insert.
Create(t, kind, p) ==
    /\ Tick
    /\ t \in Threads \ Known
    /\ \A u \in Threads \ Known : t <= u
    /\ p # Top /\ row[p].kind = "task" => kind = "task"
    /\ row' = [u \in Known \cup {t} |-> IF u = t THEN NewRow(kind, p) ELSE row[u]]
    /\ UNCHANGED <<copy, act, accepted, edited>>

\* What a conversion requires of the Thread's parent and children.
\* mutation: a Space with Spaces in it may become a Task.
ParentOnly(t, kind) ==
    /\ kind = "space" => /\ ~row[t].settled
                         /\ row[t].parent # Top => row[row[t].parent].kind = "space"
Convertible(t, kind) ==
    /\ kind = "space" => /\ ~row[t].settled
                         /\ row[t].parent # Top => row[row[t].parent].kind = "space"
    /\ kind = "task" => \A u \in Children(t) : row[u].kind = "task"

\* settle_addressed_thread
Settle(t, settled) ==
    /\ Tick
    /\ row[t].kind = "task"
    /\ row[t].settled # settled
    /\ Put(t, [row[t] EXCEPT !.settled = settled])
    /\ UNCHANGED <<copy, act, accepted, edited>>

\* pin_addressed_thread: only at the top of the tree.
Pin(t, pinned) ==
    /\ Tick
    /\ row[t].parent = Top
    /\ row[t].pinned # pinned
    /\ Put(t, [row[t] EXCEPT !.pinned = pinned])
    /\ UNCHANGED <<copy, act, accepted, edited>>

\* archive_addressed_thread and the agent's archive: the whole subtree.
Archive(t, archived) ==
    LET moved == {u \in Known : Descends(u, t) /\ row[u].archived # archived}
    IN /\ Tick
       /\ moved # {}
       /\ row' = [u \in Known |->
                    IF u \in moved THEN Bumped([row[u] EXCEPT !.archived = archived])
                    ELSE row[u]]
       /\ UNCHANGED <<copy, act, accepted, edited>>

\* snooze_addressed_thread
Snooze(t, asleep) ==
    /\ Tick
    /\ row[t].asleep # asleep
    /\ Put(t, [row[t] EXCEPT !.asleep = asleep])
    /\ UNCHANGED <<copy, act, accepted, edited>>

\* The snooze runs out; the row is not written.
SnoozeEnds(t) ==
    /\ row[t].asleep
    /\ row' = [row EXCEPT ![t].asleep = FALSE]
    /\ UNCHANGED <<copy, act, accepted, edited, ops>>

\* ThreadMutation::Update of the agent: no revision is expected of it.
AgentUpdate(t) ==
    /\ Tick
    /\ row' = [row EXCEPT ![t] = Bumped([@ EXCEPT !.content = @ + 1])]
    /\ UNCHANGED <<copy, act, accepted, edited>>

-----------------------------------------------------------------------------
(* The Owner's fenced edits                                                *)

\* A Thread row reaches the client.
See(c, t) ==
    /\ copy[c] # [id |-> t, row |-> row[t]]
    /\ copy' = [copy EXCEPT ![c] = [id |-> t, row |-> row[t]]]
    /\ UNCHANGED <<row, act, accepted, edited, ops>>

\* The revision the Owner saw is the row's revision.
\* mutation: the edit is applied to whatever the row has become.
AnyRevision(c) == TRUE
Unchanged(c) == row[copy[c].id].rev = copy[c].row.rev

\* update_addressed_thread_text, update_thread_icon
OwnerEdit(c) ==
    LET t == copy[c].id
    IN /\ Tick
       /\ t \in Known
       /\ Unchanged(c)
       /\ Put(t, [row[t] EXCEPT !.content = @ + 1])
       /\ edited' = [saw |-> copy[c].row.content, was |-> row[t].content]
       /\ UNCHANGED <<copy, act, accepted>>

\* set_addressed_thread_kind
OwnerKind(c, kind) ==
    LET t == copy[c].id
    IN /\ Tick
       /\ t \in Known
       /\ Unchanged(c)
       /\ row[t].kind # kind
       /\ Convertible(t, kind)
       /\ Put(t, [row[t] EXCEPT !.kind = kind])
       /\ edited' = [saw |-> copy[c].row.content, was |-> row[t].content]
       /\ UNCHANGED <<copy, act, accepted>>

-----------------------------------------------------------------------------
(* Instrument actions                                                      *)

Active(t) == ~row[t].settled /\ ~row[t].archived /\ ~row[t].asleep

\* handle_addressed_thread_action reads and checks the row ...
Press(c, settles) ==
    LET t == copy[c].id
    IN /\ act = NoAct
       /\ t \in Known
       /\ Unchanged(c)
       /\ Active(t)
       /\ settles => row[t].kind = "task"
       /\ act' = [id |-> t, rev |-> row[t].rev, saw |-> copy[c].row.content,
                  settles |-> settles]
       /\ UNCHANGED <<row, copy, accepted, edited, ops>>

\* ... and the transaction checks the row it finds: the same Thread at the same
\* revision, still active, still of the kind that may be settled.
\* mutation: the transaction relies on the handler's check.
Rechecked(t) == TRUE
StillThere(t) ==
    /\ row[t].rev = act.rev
    /\ Active(t)
    /\ act.settles => row[t].kind = "task"

Accept ==
    LET t == act.id
    IN /\ act # NoAct
       /\ Tick
       /\ StillThere(t)
       /\ Put(t, IF act.settles THEN [row[t] EXCEPT !.settled = TRUE] ELSE row[t])
       /\ accepted' = accepted \cup {[id |-> t, rev |-> act.rev, saw |-> act.saw,
                                       was |-> row[t].content]}
       /\ act' = NoAct
       /\ UNCHANGED <<copy, edited>>

Refuse ==
    /\ act # NoAct
    /\ act' = NoAct
    /\ UNCHANGED <<row, copy, accepted, edited, ops>>

-----------------------------------------------------------------------------
Init ==
    /\ row = [t \in {} |-> NewRow("task", Top)]
    /\ copy = [c \in Client |-> NoCopy]
    /\ act = NoAct
    /\ accepted = {}
    /\ edited = [saw |-> 0, was |-> 0]
    /\ ops = 0

Next ==
    \/ \E t \in Threads, k \in Kinds, p \in {Top} \cup Known : Create(t, k, p)
    \/ \E t \in Known :
         \/ \E b \in BOOLEAN : Settle(t, b) \/ Pin(t, b) \/ Archive(t, b) \/ Snooze(t, b)
         \/ SnoozeEnds(t)
         \/ AgentUpdate(t)
         \/ \E c \in Client : See(c, t)
    \/ \E c \in Client :
         \/ OwnerEdit(c)
         \/ \E k \in Kinds : OwnerKind(c, k)
         \/ \E b \in BOOLEAN : Press(c, b)
    \/ Accept
    \/ Refuse

Spec == Init /\ [][Next]_vars

-----------------------------------------------------------------------------
(* Properties                                                              *)

\* Type invariant.
TypeOK ==
    /\ Known \subseteq Threads
    /\ \A t \in Known : /\ row[t].kind \in Kinds
                        /\ row[t].parent \in {Top} \cup {u \in Known : u < t}
                        /\ row[t].rev \in 1..(OpLimit + 1)
    /\ ops \in 0..OpLimit

\* Whatever the order of creations, conversions, completions, pins and edits of
\* several clients and agents: a Task holds only Tasks, a Space is never
\* settled, only a Thread at the top is pinned; a fenced edit replaces exactly
\* what its author saw; and an instrument action is accepted only against the
\* content the Owner saw, once per revision of the row.
RowsKeepTheirRules ==
    /\ \A t \in Known :
         /\ row[t].parent # Top /\ row[row[t].parent].kind = "task" => row[t].kind = "task"
         /\ row[t].kind = "space" => ~row[t].settled
         /\ row[t].pinned => row[t].parent = Top
    /\ edited.saw = edited.was
    /\ \A x, y \in accepted :
         /\ x.saw = x.was
         /\ x.id = y.id /\ x.rev = y.rev => x = y
=============================================================================
