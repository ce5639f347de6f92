------------------------------- MODULE ClaudeText ------------------------------
(***************************************************************************)
(* The text of an assistant message (claude_events.rs): Claude streams a     *)
(* block in deltas and sends the completed block again in an envelope; the   *)
(* driver emits the deltas and, of an envelope, only what no delta carried.  *)
(* Deltas and envelopes may or may not name the block they belong to, and a  *)
(* message may come without deltas.                                         *)
(* Abstracted: a block is a sequence of letters, a delta is one letter;      *)
(* thinking blocks are reconciled like text and block ids follow the block.  *)
(***************************************************************************)
EXTENDS Naturals, Sequences, SequencesExt

CONSTANTS
    Text,          \* texts a block may have
    MessageLimit   \* bound on assistant messages

NoIndex == 0
Streams == {"named", "bare", "none"}
Envelopes == {"named", "bare", "whole"}

VARIABLES
    ledger,    \* text_blocks
    message,   \* what Claude sends: its blocks, how it streams and completes them
    sent,      \* letters streamed of each block, blocks completed
    out        \* letters emitted for the message

vars == <<ledger, message, sent, out>>

TypeOK ==
    /\ \A i \in DOMAIN ledger : ledger[i].completed \in BOOLEAN /\ ledger[i].index \in 0 .. 2
    /\ message.count \in 0 .. MessageLimit
    /\ \A i \in DOMAIN message.blocks : message.blocks[i] \in Text
    /\ sent.completed \in 0 .. Len(message.blocks)

Init ==
    /\ ledger = <<>> /\ out = <<>>
    /\ message = [count |-> 0, blocks |-> <<>>, stream |-> "none", envelope |-> "bare"]
    /\ sent = [letters |-> <<>>, completed |-> 0]

\* mutation: a new message keeps the blocks of the one before
KeptBlocks == ledger
FreshBlocks == <<>>

\* start_message: by message_start, or by the id of the first envelope.
StartMessage(blocks, stream, envelope) ==
    /\ message.count < MessageLimit /\ sent.completed = Len(message.blocks)
    /\ message' = [count |-> message.count + 1, blocks |-> blocks, stream |-> stream, envelope |-> envelope]
    /\ sent' = [letters |-> [i \in DOMAIN blocks |-> 0], completed |-> 0]
    /\ ledger' = FreshBlocks /\ out' = <<>>

\* The block that streams next, if any: the first one that is not complete.
Streaming == {b \in DOMAIN message.blocks :
                 /\ message.stream # "none" /\ sent.letters[b] < Len(message.blocks[b])
                 /\ \A c \in 1 .. b - 1 : sent.letters[c] = Len(message.blocks[c])}

\* record_stream_delta: a named delta joins its block, a bare one stands alone.
Recorded(index, letter) ==
    LET open == {i \in DOMAIN ledger : index # NoIndex /\ ledger[i].index = index /\ ~ledger[i].completed}
    IN IF open = {}
       THEN Append(ledger, [index |-> index, text |-> <<letter>>, completed |-> FALSE])
       ELSE [ledger EXCEPT ![Max(open)].text = Append(@, letter)]

Delta(b) ==
    /\ b \in Streaming
    /\ LET letter == message.blocks[b][sent.letters[b] + 1]
       IN /\ ledger' = Recorded(IF message.stream = "named" THEN b ELSE NoIndex, letter)
          /\ out' = Append(out, letter)
    /\ sent' = [sent EXCEPT !.letters[b] = @ + 1]
    /\ UNCHANGED message

\* mutation: text that an envelope consumed may be matched again
AnyBlock(block) == TRUE
Unconsumed(block) == ~block.completed

\* The oldest blocks whose text adds up to a prefix of `text`, as few as equal it.
Pending(books, index) ==
    {i \in DOMAIN books : Unconsumed(books[i]) /\ (index = NoIndex \/ books[i].index = NoIndex)}

Joined(books, chosen) == FlattenSeq([k \in 1 .. Cardinality(chosen) |->
                                        books[SetToSortSeq(chosen, <)[k]].text])

Matched(books, index, text) ==
    LET pending == Pending(books, index)
        upTo(i) == {j \in pending : j <= i}
        equal == {i \in pending : Joined(books, upTo(i)) = text}
    IN IF equal # {} THEN upTo(Min(equal))
       ELSE IF IsPrefix(Joined(books, pending), text) THEN pending ELSE {}

\* reconcile_envelope: the books after, and the text that is still to emit.
Reconciled(books, index, text) ==
    LET named == {i \in DOMAIN books :
                     index # NoIndex /\ books[i].index = index /\ IsPrefix(books[i].text, text)}
        matched == Matched(books, index, text)
        rest(prefix) == SubSeq(text, Len(prefix) + 1, Len(text))
    IN IF named # {}
       THEN [books |-> [books EXCEPT ![Min(named)].text = text, ![Min(named)].completed = TRUE],
             rest |-> rest(books[Min(named)].text)]
       ELSE IF matched # {}
       THEN [books |-> [i \in DOMAIN books |->
                           IF i \in matched THEN [books[i] EXCEPT !.completed = TRUE] ELSE books[i]],
             rest |-> rest(Joined(books, matched))]
       ELSE [books |-> Append(books, [index |-> index, text |-> text, completed |-> TRUE]),
             rest |-> text]

\* The envelope of one block, sent once it was streamed.
Envelope ==
    LET b == sent.completed + 1
        done == Reconciled(ledger, IF message.envelope = "named" THEN b ELSE NoIndex, message.blocks[b])
    IN /\ message.envelope # "whole" /\ b \in DOMAIN message.blocks
       /\ message.stream = "none" \/ sent.letters[b] = Len(message.blocks[b])
       /\ ledger' = done.books /\ out' = out \o done.rest
       /\ sent' = [sent EXCEPT !.completed = b]
       /\ UNCHANGED message

\* One envelope for the whole message: the position in it names a block unless
\* it is the only one.
WholeEnvelope ==
    LET n == Len(message.blocks)
        first == Reconciled(ledger, IF n > 1 THEN 1 ELSE NoIndex, message.blocks[1])
        second == Reconciled(first.books, 2, message.blocks[n])
    IN /\ message.envelope = "whole" /\ n > 0 /\ sent.completed = 0 /\ Streaming = {}
       /\ ledger' = IF n > 1 THEN second.books ELSE first.books
       /\ out' = out \o first.rest \o (IF n > 1 THEN second.rest ELSE <<>>)
       /\ sent' = [sent EXCEPT !.completed = n]
       /\ UNCHANGED message

Blocks == {<<t>> : t \in Text} \cup {<<t, u>> : t, u \in Text}

Next ==
    \/ \E blocks \in Blocks, stream \in Streams, envelope \in Envelopes :
          StartMessage(blocks, stream, envelope)
    \/ \E b \in 1 .. 2 : Delta(b)
    \/ Envelope \/ WholeEnvelope

Spec == Init /\ [][Next]_vars

-----------------------------------------------------------------------------
(* Properties                                                              *)

\* However the message is cut into deltas and envelopes, the text emitted is its
\* text in order, nothing twice, and all of it once its envelopes are in.
TextOnce ==
    LET whole == FlattenSeq(message.blocks)
    IN /\ IsPrefix(out, whole)
       /\ sent.completed = Len(message.blocks) => out = whole

=============================================================================
