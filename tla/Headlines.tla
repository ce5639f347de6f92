------------------------------ MODULE Headlines ------------------------------
(***************************************************************************)
(* The headline a Thread shows for its children (crates/hirsel-host/src/   *)
(* thread_rollups.rs).  It is stored, not computed on read: an operation   *)
(* that changes a fact a headline is made of has to refresh the ancestors  *)
(* of the Thread it changed, in the same transaction, and there are a      *)
(* dozen such operations in five files.  One action here is one such       *)
(* transaction.  The headline itself is abstracted to what it tells: the   *)
(* number of live children, the most urgent of them and its status, or, of *)
(* a childless Thread, its own words.                                      *)
(***************************************************************************)
EXTENDS Integers, FiniteSets, FiniteSetsExt, Functions

CONSTANTS Threads,    \* Thread ids, in the order they are created
          EventLimit  \* bound: transactions

Top == 0

VARIABLES parent,   \* the parent of each Thread created so far
          fact,     \* what a headline reads of each Thread
          headline, \* the stored headline
          owed,     \* history: ancestors an operation has left unrefreshed
          events

vars == <<parent, fact, headline, owed, events>>

Known == DOMAIN parent

NewFact == [asks |-> FALSE, running |-> FALSE, queued |-> FALSE,
            last |-> "none", settled |-> FALSE, archived |-> FALSE, own |-> 0]

-----------------------------------------------------------------------------
(* thread_rollups.rs                                                        *)

Urgency == <<"needs you", "failed", "running", "queued", "blocked", "done", "idle">>

Status(f) ==
    CASE f.asks -> 1
      [] ~f.asks /\ f.running -> 3
      [] ~f.asks /\ ~f.running /\ f.queued -> 4
      [] OTHER -> CASE f.last = "failed" -> 2
                    [] f.last = "stopped" -> 5
                    [] OTHER -> IF f.settled THEN 6 ELSE 7

LiveChildren(par, fs, p) == {c \in DOMAIN par : par[c] = p /\ ~fs[c].archived}

\* A Thread and its live descendants, over live Threads only.
LiveSubtree(par, fs, c) ==
    LET below[n \in Nat] ==
          IF n = 0 THEN {c}
          ELSE below[n - 1] \cup
                 UNION {LiveChildren(par, fs, d) : d \in below[n - 1]}
    IN below[Cardinality(DOMAIN par)]

ChildStatus(par, fs, c) == Min({Status(fs[d]) : d \in LiveSubtree(par, fs, c)})

Headline(par, fs, p) ==
    LET cs   == LiveChildren(par, fs, p)
        best == Min({ChildStatus(par, fs, c) : c \in cs})
    IN IF cs = {} THEN <<"own", fs[p].own>>
       ELSE <<Cardinality(cs),
              Min({c \in cs : ChildStatus(par, fs, c) = best}), Urgency[best]>>

Ancestors(par, t) ==
    LET above[n \in Nat] ==
          IF n = 0 THEN {par[t]} \ {Top}
          ELSE above[n - 1] \cup ({par[a] : a \in above[n - 1]} \ {Top})
    IN above[Cardinality(DOMAIN par)]

\* The whole archived or restored subtree, live or not.
Subtree(par, t) == {t} \cup {d \in DOMAIN par : t \in Ancestors(par, d)}

\* refresh_from: the ancestors of the changed Thread, never the Thread itself.
\* mutation: the walk stops after the direct parent.
FromParentOnly(par, t) == {par[t]} \ {Top}
FromChanged(par, t) == Ancestors(par, t)

\* The transaction refreshes the Threads of "again" from the facts "seen" it has
\* written so far, and ends with the facts fs; "left" are the Threads whose
\* facts it changes without a refresh after it.
Written(par, seen, fs, again, left) ==
    /\ events < EventLimit
    /\ events' = events + 1
    /\ parent' = par
    /\ fact' = fs
    /\ headline' = [p \in DOMAIN par |->
                      IF p \in again \/ p \notin Known THEN Headline(par, seen, p)
                      ELSE headline[p]]
    /\ owed' = (owed \ again) \cup left

Set(t, f) == [fact EXCEPT ![t] = f]

Refreshing(t, f) ==
    Written(parent, Set(t, f), Set(t, f), FromChanged(parent, t), {})
Leaving(t, f) ==
    Written(parent, Set(t, f), Set(t, f), {}, Ancestors(parent, t))

-----------------------------------------------------------------------------
(* The transactions                                                        *)

Grown(t, p) == [x \in Known \cup {t} |-> IF x = t THEN p ELSE parent[x]]
WithNew(t, f) == [x \in Known \cup {t} |-> IF x = t THEN f ELSE fact[x]]
Fresh(t) == t \in Threads \ Known /\ \A u \in Threads \ Known : t <= u

\* create_in_transaction and ThreadMutation::Create.
Create(t, p, asks) ==
    /\ Fresh(t)
    /\ LET fs == WithNew(t, [NewFact EXCEPT !.asks = asks])
       IN Written(Grown(t, p), fs, fs, FromChanged(Grown(t, p), t), {})

\* delegate_thread creates the child and its turn and refreshes nothing.
Delegate(t, p) ==
    /\ p \in Known
    /\ Fresh(t)
    /\ LET fs == WithNew(t, [NewFact EXCEPT !.queued = TRUE])
       IN Written(Grown(t, p), fs, fs, {}, Ancestors(Grown(t, p), t))

\* enqueue_background_turn, queue_thread_turn.
QueueTurn(t) ==
    /\ ~fact[t].queued
    /\ Refreshing(t, [fact[t] EXCEPT !.queued = TRUE])

\* enqueue of a delegation, and the Owner's own message: no refresh.
AcceptTurn(t) ==
    /\ ~fact[t].queued
    /\ Leaving(t, [fact[t] EXCEPT !.queued = TRUE])

\* run_thread_turn
RunTurn(t) ==
    /\ fact[t].queued
    /\ ~fact[t].running
    /\ Refreshing(t, [fact[t] EXCEPT !.queued = FALSE, !.running = TRUE])

\* finish_with_failure, and the report that queues a turn on the requesting
\* parent after the refresh.
Finish(t, how, reports) ==
    LET p    == parent[t]
        done == Set(t, [fact[t] EXCEPT !.running = FALSE, !.last = how])
    IN /\ fact[t].running
       /\ reports => p # Top
       /\ Written(parent, done,
                  IF reports THEN [done EXCEPT ![p].queued = TRUE] ELSE done,
                  FromChanged(parent, t),
                  IF reports /\ ~fact[p].queued THEN Ancestors(parent, p) ELSE {})

\* update_thread and ThreadMutation::Update change the attention.
\* mutation: an attention change that refreshes nothing.
AttentionLeft(t, asks) ==
    /\ fact[t].asks # asks
    /\ LET fs == Set(t, [fact[t] EXCEPT !.asks = asks])
       IN Written(parent, fs, fs, {}, {})
Attention(t, asks) ==
    /\ fact[t].asks # asks
    /\ Refreshing(t, [fact[t] EXCEPT !.asks = asks])

\* settle_addressed_thread
Settle(t, settled) ==
    /\ fact[t].settled # settled
    /\ Refreshing(t, [fact[t] EXCEPT !.settled = settled])

\* An action of the Thread's instrument that settles it.
SettlingAction(t) ==
    /\ ~fact[t].settled
    /\ ~fact[t].archived
    /\ Refreshing(t, [fact[t] EXCEPT !.settled = TRUE])

\* set_headline: the Thread itself is refreshed too when it has live children;
\* without them the new words are stored as its headline.
SetHeadline(t) ==
    /\ fact[t].own = 0
    /\ LET fs == Set(t, [fact[t] EXCEPT !.own = 1])
       IN Written(parent, fs, fs, {t} \cup FromChanged(parent, t), {})

\* thread_archive::apply rewrites the whole subtree, clears the attention of
\* the Threads it archives, and refreshes the ancestors of the root only.
Archive(t, archived) ==
    LET sub == Subtree(parent, t)
        fs  == [x \in Known |->
                  IF x \notin sub \/ fact[x].archived = archived THEN fact[x]
                  ELSE IF archived
                    THEN [fact[x] EXCEPT !.archived = TRUE, !.asks = FALSE]
                    ELSE [fact[x] EXCEPT !.archived = FALSE]]
    IN /\ fs # fact
       /\ Written(parent, fs, fs, FromChanged(parent, t), sub)

-----------------------------------------------------------------------------
Init ==
    /\ parent = [x \in {} |-> Top]
    /\ fact = [x \in {} |-> NewFact]
    /\ headline = [x \in {} |-> <<"own", 0>>]
    /\ owed = {}
    /\ events = 0

Next ==
    \/ \E t \in Threads, p \in {Top} \cup Known, asks \in BOOLEAN : Create(t, p, asks)
    \/ \E t \in Threads, p \in Known : Delegate(t, p)
    \/ \E t \in Known :
         \/ QueueTurn(t)
         \/ AcceptTurn(t)
         \/ RunTurn(t)
         \/ \E how \in {"completed", "failed", "stopped"}, r \in BOOLEAN : Finish(t, how, r)
         \/ \E b \in BOOLEAN : Attention(t, b) \/ Settle(t, b) \/ Archive(t, b)
         \/ SettlingAction(t)
         \/ SetHeadline(t)

Spec == Init /\ [][Next]_vars

-----------------------------------------------------------------------------
(* Properties                                                              *)

\* Type invariant.
TypeOK ==
    /\ Known \subseteq Threads
    /\ \A t \in Known : parent[t] \in {Top} \cup {u \in Known : u < t}
    /\ DOMAIN fact = Known /\ DOMAIN headline = Known
    /\ owed \subseteq Known

\* A stored headline equals the one its Thread's live subtree gives now, except
\* for the ancestors of an acceptance, a delegation, a report or an archived
\* subtree that no refresh has reached since: every other transaction that
\* changes a fact refreshes all the headlines made of it.
HeadlineIsCurrent ==
    \A p \in Known \ owed : headline[p] = Headline(parent, fact, p)

\* "Deterministic parent headlines derived only from Host facts"
\* (thread_rollups.rs:1): the headline of a live Thread is the one its facts
\* give.  The code leaves it behind after an acceptance, a delegation, a report
\* and an archived subtree that is restored.
HeadlineIsFact ==
    \A p \in Known : ~fact[p].archived => headline[p] = Headline(parent, fact, p)
=============================================================================
