------------------------------- MODULE Artifacts -------------------------------
(***************************************************************************)
(* Edits of one artifact by agents (lash_runtime/artifact_tools.rs,         *)
(* storage/artifacts.rs). A call reads the content, applies its edit to     *)
(* what it read, and publishes the result in one transaction that checks    *)
(* that nobody changed it since, with a card in the conversation and a      *)
(* receipt of the operation. Calls of several agents interleave; a call     *)
(* whose answer was lost is made again, also while the first still runs.    *)
(* Abstracted: the text, which is the sequence of the edits it went through *)
(* (two histories of edits never give the same text here).                  *)
(***************************************************************************)
EXTENDS Naturals, Sequences, FiniteSets

CONSTANTS
    Op,          \* operation ids of edits
    Attempts,    \* bound on the calls of one operation
    FaultLimit   \* bound on stops and on cancelled or fenced callers

Attempt == Op \X (1 .. Attempts)

VARIABLES
    content,   \* artifacts.content
    cards,     \* messages that show the artifact, counted
    receipts,  \* artifact_operations
    outputs,   \* turn_output_artifacts of each operation's turn
    pc,        \* where each call is
    read,      \* what it read
    told,      \* operations whose call was answered with success
    faults

vars == <<content, cards, receipts, outputs, pc, read, told, faults>>

TypeOK ==
    /\ content \in Seq(Op) /\ cards \in 0 .. Cardinality(Attempt)
    /\ receipts \subseteq Op /\ outputs \subseteq Op /\ told \subseteq Op
    /\ pc \in [Attempt -> {"none", "looking", "edited", "published", "gone"}]
    /\ \A a \in Attempt : read[a] \in Seq(Op)
    /\ faults \in 0 .. FaultLimit

Init ==
    /\ content = <<>> /\ cards = 0 /\ receipts = {} /\ outputs = {} /\ told = {}
    /\ pc = [a \in Attempt |-> "none"] /\ read = [a \in Attempt |-> <<>>] /\ faults = 0

Fault == faults < FaultLimit /\ faults' = faults + 1
Goes(a, from, to) == pc[a] = from /\ pc' = [pc EXCEPT ![a] = to]
stored == <<content, cards, receipts, outputs>>

-----------------------------------------------------------------------------
(* One call                                                                *)

\* The first call, or one after it; the artifact is in the caller's reach.
Start(a) ==
    /\ \A i \in 1 .. a[2] - 1 : pc[<<a[1], i>>] # "none"
    /\ Goes(a, "none", "looking")
    /\ UNCHANGED <<stored, read, told, faults>>

\* artifact_operation: a known operation is answered from its receipt.
Replay(a) ==
    /\ a[1] \in receipts /\ Goes(a, "looking", "published")
    /\ UNCHANGED <<stored, read, told, faults>>

\* scoped_artifact, and the replacement in what was read.
ReadContent(a) ==
    /\ a[1] \notin receipts /\ Goes(a, "looking", "edited")
    /\ read' = [read EXCEPT ![a] = content]
    /\ UNCHANGED <<stored, told, faults>>

Done(a) == a[1] \in receipts

\* mutation: the content is not compared with what was read
AlwaysCurrent(a) == TRUE
Current(a) == content = read[a]

\* publish_artifact_inner: content, card, receipt and output, or nothing.
Publish(a) ==
    /\ Goes(a, "edited", "published")
    /\ IF Done(a) THEN UNCHANGED stored
       ELSE /\ Current(a)
            /\ content' = Append(read[a], a[1])
            /\ cards' = cards + 1
            /\ receipts' = receipts \cup {a[1]}
            /\ outputs' = outputs \cup {a[1]}
    /\ UNCHANGED <<read, told, faults>>

\* "artifact changed while editing; read it and retry"
Conflict(a) ==
    /\ ~Done(a) /\ ~Current(a) /\ Goes(a, "edited", "gone")
    /\ UNCHANGED <<stored, read, told, faults>>

Answer(a) ==
    /\ Goes(a, "published", "gone")
    /\ told' = told \cup {a[1]}
    /\ UNCHANGED <<stored, read, faults>>

\* The caller was cancelled or lost its reach: every step checks it.
Refused(a) ==
    /\ Fault /\ pc[a] \in {"looking", "edited", "published"}
    /\ pc' = [pc EXCEPT ![a] = "gone"]
    /\ UNCHANGED <<stored, read, told>>

Stop ==
    /\ Fault
    /\ pc' = [a \in Attempt |-> IF pc[a] = "none" THEN "none" ELSE "gone"]
    /\ UNCHANGED <<stored, read, told>>

CallStep(a) == Start(a) \/ Replay(a) \/ ReadContent(a) \/ Publish(a) \/ Conflict(a)
               \/ Answer(a) \/ Refused(a)

Next == Stop \/ \E a \in Attempt : CallStep(a)

Spec == Init /\ [][Next]_vars

-----------------------------------------------------------------------------
(* Properties                                                              *)

Times(op) == Cardinality({i \in DOMAIN content : content[i] = op})

\* No edit is lost and none is made twice: every operation with a receipt is in
\* the content once, with one card, however calls interleave or are made again,
\* and an agent is told of success only then.
EditsAreKept ==
    /\ \A op \in Op : Times(op) = IF op \in receipts THEN 1 ELSE 0
    /\ cards = Cardinality(receipts) /\ told \subseteq receipts
    /\ outputs = receipts

-----------------------------------------------------------------------------
(* The inductive invariant                                                 *)

EditShapes ==
    /\ content \in Seq(Op) /\ receipts \subseteq Op
    /\ pc \in [Attempt -> {"none", "looking", "edited", "published", "gone"}]
    /\ read \in [Attempt -> Seq(Op)]
    /\ IsFiniteSet(receipts)

\* An edit is in the content exactly when it has its receipt, and once.
ContentIsReceipts ==
    /\ \A i, j \in DOMAIN content : content[i] = content[j] => i = j
    /\ {content[i] : i \in DOMAIN content} = receipts
    /\ cards = Cardinality(receipts) /\ outputs = receipts /\ told \subseteq receipts

PublishedHasReceipt == \A a \in Attempt : pc[a] = "published" => a[1] \in receipts

EditsInv == EditShapes /\ ContentIsReceipts /\ PublishedHasReceipt

=============================================================================
