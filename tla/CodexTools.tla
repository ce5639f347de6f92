------------------------------- MODULE CodexTools ------------------------------
(***************************************************************************)
(* CodexToolState (codex_io.rs): the identity of the tool events that the    *)
(* Codex driver emits for a turn. The provider reports starts and            *)
(* completions in any order, with or without an id of its own, and its ids   *)
(* may look like the ones the driver makes up.                              *)
(* Abstracted: a tool call is a name and a fingerprint of its arguments.     *)
(***************************************************************************)
EXTENDS Naturals, Sequences, SequencesExt

CONSTANTS
    Source,      \* ids of the provider, some shaped like the driver's own
    EventLimit   \* bound on reported items

Own(n) == "codex:" \o ToString(n)
Sources == [id : Source, given : {TRUE}] \cup [id : {""}, given : {FALSE}]
Prints == {"x", "y"}
Names == {"run"}

VARIABLES
    active,     \* calls started and not completed, in order
    used,       \* event ids given out
    completed,  \* ids of the provider that completed
    next,       \* next_synthetic_id
    log         \* the tool events emitted

vars == <<active, used, completed, next, log>>

Id == Source \cup {Own(n) : n \in 1 .. EventLimit + 1}

TypeOK ==
    /\ \A i \in DOMAIN active : active[i] \in [source : Sources, id : Id, name : Names, print : Prints]
    /\ used \subseteq Id /\ completed \subseteq Source
    /\ next \in 0 .. EventLimit + 1
    /\ \A i \in DOMAIN log : log[i] \in [kind : {"started", "completed", "conflict", "nothing"}, id : Id \cup {""}]

Init == active = <<>> /\ used = {} /\ completed = {} /\ next = 0 /\ log = <<>>

Emit(kind, id) == log' = Append(log, [kind |-> kind, id |-> id])

\* The first call, in order, that satisfies P.
Positions(P(_)) == {i \in DOMAIN active : P(active[i]) /\ \A j \in 1 .. i - 1 : ~P(active[j])}

\* unique_event_id without a preferred id: the next one nobody used.
\* mutation: the id is not checked against the provider's
UnseenNext == next + 1
Synthetic == CHOOSE n \in next + 1 .. EventLimit + 1 :
                 Own(n) \notin used /\ \A m \in next + 1 .. n - 1 : Own(m) \in used

Start(source, name, print) ==
    /\ Len(log) < EventLimit
    /\ IF source.given /\ \E i \in DOMAIN active : active[i].source = source
       THEN \E i \in Positions(LAMBDA a : a.source = source) :
               /\ Emit(IF active[i].name = name /\ active[i].print = print
                       THEN "nothing" ELSE "conflict", "")
               /\ UNCHANGED <<active, used, next>>
       ELSE IF source.given /\ (source.id \in completed \/ source.id \in used)
       THEN Emit("conflict", "") /\ UNCHANGED <<active, used, next>>
       ELSE LET id == IF source.given THEN source.id ELSE Own(Synthetic) IN
            /\ used' = used \cup {id} /\ next' = IF source.given THEN next ELSE Synthetic
            /\ active' = Append(active, [source |-> source, id |-> id, name |-> name, print |-> print])
            /\ Emit("started", id)
    /\ UNCHANGED completed

\* completion_id: the provider's id decides; without one the earliest exact
\* match, else the earliest call of that name.
Match(source, name, print) ==
    IF source.given THEN Positions(LAMBDA a : a.source = source)
    ELSE LET exact == Positions(LAMBDA a : ~a.source.given /\ a.print = print)
         IN IF exact # {} THEN exact ELSE Positions(LAMBDA a : ~a.source.given /\ a.name = name)

Done(source) == completed' = IF source.given THEN completed \cup {source.id} ELSE completed

CompletedBefore(source) == source.given /\ source.id \in completed

Complete(source, name, print) ==
    /\ Len(log) < EventLimit
    /\ \/ \E i \in Match(source, name, print) :
            /\ active' = RemoveAt(active, i) /\ Done(source)
            /\ Emit("completed", active[i].id) /\ UNCHANGED <<used, next>>
       \/ /\ Match(source, name, print) = {} /\ CompletedBefore(source)
          /\ Emit("nothing", "") /\ UNCHANGED <<active, used, next, completed>>
       \/ /\ Match(source, name, print) = {} /\ ~CompletedBefore(source)
          /\ LET fresh == source.given /\ source.id \notin used
                 id == IF fresh THEN source.id ELSE Own(Synthetic)
             IN /\ used' = used \cup {id} /\ next' = IF fresh THEN next ELSE Synthetic
                /\ Emit("completed", id)
          /\ Done(source) /\ UNCHANGED active

Next ==
    \E source \in Sources, name \in Names, print \in Prints :
        Start(source, name, print) \/ Complete(source, name, print)

Spec == Init /\ [][Next]_vars

-----------------------------------------------------------------------------
(* Properties                                                              *)

\* Whatever the provider repeats or reorders, an event id starts at most once,
\* completes at most once and never starts after it completed, and a started
\* call without an end is one the driver still holds.
ToolEventsPair ==
    /\ \A i, j \in DOMAIN log : i < j /\ log[i].id = log[j].id /\ log[i].id # "" =>
           log[i].kind = "started" /\ log[j].kind = "completed"
    /\ \A i \in DOMAIN log : log[i].kind = "started" =>
           \/ \E j \in DOMAIN log : j > i /\ log[j].kind = "completed" /\ log[j].id = log[i].id
           \/ \E k \in DOMAIN active : active[k].id = log[i].id

=============================================================================
