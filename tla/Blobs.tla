--------------------------------- MODULE Blobs ---------------------------------
(***************************************************************************)
(* Uploaded files (storage/blobs.rs, Storage::reset). An upload writes its  *)
(* file outside the database and then commits its row; a client sends it    *)
(* again after a lost answer, which is another attempt with the same client *)
(* id. A history reset deletes the rows and the files, in that order, under *)
(* the connection's lock. The host may stop between any two steps.          *)
(* Abstracted: names, types, bytes and the signed URL they are served by.   *)
(***************************************************************************)
EXTENDS Naturals, FiniteSets

CONSTANTS
    Client,      \* client ids of uploads
    Attempts,    \* bound on the attempts of one upload
    FaultLimit   \* bound on resets, stops and failed file operations

Attempt == Client \X (1 .. Attempts)

VARIABLES
    history,   \* meta.history_id, counted
    lock,      \* who holds the connection across an await: "none" or "reset"
    files,     \* attempts whose file is in the blobs directory
    rows,      \* attempts with a row in blobs and client_blobs
    pc,        \* where each attempt is
    hist,      \* the history each attempt began in
    answer,    \* the blob each attempt was answered with, if any
    reset,     \* the files of the old history are still to be removed
    faults

vars == <<history, lock, files, rows, pc, hist, answer, reset, faults>>

TypeOK ==
    /\ history \in 1 .. FaultLimit + 1 /\ lock \in {"none", "reset"}
    /\ files \subseteq Attempt /\ rows \subseteq Attempt
    /\ pc \in [Attempt -> {"none", "begun", "written", "cleanup", "gone"}]
    /\ hist \in [Attempt -> 0 .. FaultLimit + 1]
    /\ \A a \in Attempt : answer[a] \subseteq Attempt /\ Cardinality(answer[a]) <= 1
    /\ reset \in BOOLEAN /\ faults \in 0 .. FaultLimit

Init ==
    /\ history = 1 /\ lock = "none" /\ files = {} /\ rows = {}
    /\ pc = [a \in Attempt |-> "none"] /\ hist = [a \in Attempt |-> 0]
    /\ answer = [a \in Attempt |-> {}] /\ reset = FALSE /\ faults = 0

Fault == faults < FaultLimit /\ faults' = faults + 1
Goes(a, from, to) == pc[a] = from /\ pc' = [pc EXCEPT ![a] = to]
Unlocked == lock = "none"

-----------------------------------------------------------------------------
(* store_blob                                                              *)

Begin(a) ==
    /\ Unlocked /\ Goes(a, "none", "begun")
    /\ hist' = [hist EXCEPT ![a] = history]
    /\ UNCHANGED <<history, lock, files, rows, answer, faults>>

\* The file comes first: "a pre-commit crash" leaves "a detectable orphan file".
WriteFile(a) ==
    /\ Goes(a, "begun", "written")
    /\ files' = files \cup {a}
    /\ UNCHANGED <<history, lock, rows, hist, answer, faults>>

WriteFileFails(a) ==
    /\ Fault /\ Goes(a, "begun", "gone")
    /\ UNCHANGED <<history, lock, files, rows, hist, answer>>

Twins(a) == {b \in rows : b[1] = a[1]}

\* mutation: the history is not checked again
AnyHistory(a) == TRUE
SameHistory(a) == hist[a] = history

\* The row, unless the client id has one or the history is another.
CommitRow(a) ==
    /\ Unlocked /\ SameHistory(a)
    /\ IF Twins(a) = {}
       THEN rows' = rows \cup {a} /\ answer' = [answer EXCEPT ![a] = {a}] /\ Goes(a, "written", "gone")
       ELSE answer' = [answer EXCEPT ![a] = Twins(a)] /\ UNCHANGED rows /\ Goes(a, "written", "cleanup")
    /\ UNCHANGED <<history, lock, files, hist, faults>>

CommitFails(a) ==
    /\ Unlocked /\ Goes(a, "written", "cleanup")
    /\ IF SameHistory(a) THEN Fault ELSE UNCHANGED faults
    /\ UNCHANGED <<history, lock, files, rows, hist, answer>>

RemoveFile(a) ==
    /\ Goes(a, "cleanup", "gone")
    /\ \/ files' = files \ {a} /\ UNCHANGED faults
       \/ Fault /\ UNCHANGED files
    /\ UNCHANGED <<history, lock, rows, hist, answer>>

-----------------------------------------------------------------------------
(* Storage::reset                                                          *)

\* mutation: the connection is given back before the files are removed
ResetUnlocks == lock' = "none"
ResetHolds == lock' = "reset"

ResetRows ==
    /\ Fault /\ Unlocked /\ ~reset
    /\ rows' = {} /\ history' = history + 1
    /\ ResetHolds /\ reset' = TRUE
    /\ UNCHANGED <<files, pc, hist, answer>>

\* remove_dir_all; when it fails some files stay.
ResetFiles ==
    /\ reset /\ reset' = FALSE /\ lock' = "none"
    /\ \/ files' = {} /\ UNCHANGED faults
       \/ Fault /\ \E kept \in SUBSET files : files' = kept
    /\ UNCHANGED <<history, rows, pc, hist, answer>>

\* The host stops: handlers and the reset are gone, rows and files are there.
Stop ==
    /\ Fault /\ reset' = FALSE /\ lock' = "none"
    /\ pc' = [a \in Attempt |-> IF pc[a] = "none" THEN "none" ELSE "gone"]
    /\ UNCHANGED <<history, files, rows, hist, answer>>

Upload(a) == Begin(a) \/ WriteFile(a) \/ WriteFileFails(a) \/ CommitRow(a)
             \/ CommitFails(a) \/ RemoveFile(a)

Next ==
    \/ ResetRows
    \/ ResetFiles
    \/ Stop
    \/ \E a \in Attempt : Upload(a) /\ UNCHANGED reset

Spec == Init /\ [][Next]_vars

-----------------------------------------------------------------------------
(* Properties                                                              *)

\* "never an unreadable metadata row" (blobs.rs): a row has its file through
\* retries, resets and stops; a client id has one row, and a client that was
\* answered in this history can read what it was answered with.
RowHasFile ==
    /\ rows \subseteq files
    /\ \A a \in rows : Twins(a) = {a}
    /\ \A a \in Attempt : hist[a] = history => answer[a] \subseteq rows

-----------------------------------------------------------------------------
(* The inductive invariant                                                 *)

BlobShapes ==
    /\ history \in Nat \ {0} /\ files \subseteq Attempt /\ rows \subseteq Attempt
    /\ pc \in [Attempt -> {"none", "begun", "written", "cleanup", "gone"}]
    /\ hist \in [Attempt -> Nat]
    /\ answer \in [Attempt -> SUBSET Attempt] /\ reset \in BOOLEAN

\* What may still be removed, or was written in another history, has no row.
RowsAreOver == \A a \in rows : pc[a] = "gone"

\* A file stands until its attempt is over, in the history it was begun in.
FilesStand ==
    \A a \in Attempt :
        /\ hist[a] <= history
        /\ pc[a] = "none" => answer[a] = {}
        /\ pc[a] = "written" /\ hist[a] = history => a \in files

\* The reset holds the connection from its rows to its files.
ResetIsAlone == reset => lock = "reset" /\ rows = {} /\ \A a \in Attempt : hist[a] < history

BlobInv == BlobShapes /\ RowsAreOver /\ FilesStand /\ ResetIsAlone /\ RowHasFile

=============================================================================
