------------------------------ MODULE ThreadScope ------------------------------
(***************************************************************************)
(* Reach in the tree of Threads (storage/thread_scope.rs, thread_grants.rs, *)
(* thread_mutations.rs, thread_delegation.rs). A Thread reaches itself, what *)
(* hangs below it and, for each of its durable grants, one more subtree; a  *)
(* root grant reaches every Thread, those made later included. Agents make  *)
(* Threads and hand reach down the tree; the Owner widens and narrows at    *)
(* will. A call is retried after a lost answer, with its operation id.      *)
(* Abstracted: the caller's binding (ThreadTurns has it), texts, revisions. *)
(***************************************************************************)
EXTENDS Naturals, FiniteSets

CONSTANTS
    Threads,      \* Thread ids: 1 and 2 are at the top at first
    GrantLimit,   \* MAX_GRANTS
    EventLimit    \* bound on the calls that take effect

Root == 0         \* target_key of a root grant; the address of the top
Owner == 0        \* `granted_by` of the Owner

VARIABLES
    above,     \* ancestors of each Thread that exists
    grants,    \* thread_grants: <<Thread, target>>
    given,     \* every grant the Owner ever made (history variable)
    receipts,  \* thread_mutation_receipts, thread_grant_receipts
    events

vars == <<above, grants, given, receipts, events>>

Made == DOMAIN above
Target == Threads \cup {Root}
Below(t) == {u \in Made : u = t \/ t \in above[u]}

\* A receipt is a call that changes reach: who made it, with its operation id.
Call == [by : Threads \cup {Owner}, op : 1 .. EventLimit, grant : BOOLEAN,
         id : Threads, target : Target]

TypeOK ==
    /\ Made \subseteq Threads /\ \A t \in Made : above[t] \subseteq Made \ {t}
    /\ grants \subseteq Made \X Target
    /\ given \subseteq Made \X Target
    /\ receipts \subseteq Call
    /\ events \in 0 .. EventLimit

Init ==
    /\ above = [t \in {1, 2} |-> {}]
    /\ grants = {} /\ given = {} /\ receipts = {} /\ events = 0

Event == events < EventLimit /\ events' = events + 1

-----------------------------------------------------------------------------
(* Reach                                                                   *)

HoldsRoot(c) == <<c, Root>> \in grants

\* REACH_CTE
Reach(c) ==
    IF HoldsRoot(c) THEN Made
    ELSE Below(c) \cup UNION {Below(t) : t \in {u \in Made : <<c, u>> \in grants}}

\* authorize, and resolve for the address of the top.
Resolves(c, t) == IF t = Root THEN HoldsRoot(c) ELSE t \in Reach(c)

-----------------------------------------------------------------------------
(* Making Threads                                                          *)

\* A new Thread below `parent`, or at the top.
Make(parent) ==
    /\ \E t \in Threads \ Made :
          /\ \A u \in Threads \ Made : t <= u
          /\ above' = [u \in Made \cup {t} |->
                         IF u # t THEN above[u]
                         ELSE IF parent = Root THEN {} ELSE above[parent] \cup {parent}]
    /\ UNCHANGED <<grants, given, receipts>>

\* threads_create
Create(c, parent) == Event /\ Resolves(c, parent) /\ Make(parent)

\* threads_delegate without a Thread: the child hangs below the caller.
Delegate(c) == Event /\ Make(c)

OwnerCreate == Event /\ \E parent \in Made \cup {Root} : Make(parent)

-----------------------------------------------------------------------------
(* Grants                                                                  *)

\* A grant only widens: not what the Thread has by its place in the tree.
Widens(id, target) == target = Root \/ (target # id /\ target \notin Below(id))

Room(id, target) == <<id, target>> \in grants
                    \/ Cardinality({g \in grants : g[1] = id}) < GrantLimit

\* grant, revoke
Applied(x) == IF x.grant THEN grants \cup {<<x.id, x.target>>}
              ELSE grants \ {<<x.id, x.target>>}

\* mutation: reach may be changed sideways
AnyBelow(c, id) == c # id
Widener(c, id) == c \in above[id]

\* mutation: a Thread hands on what it does not hold
HandsOnAnything(c, target) == TRUE
HandsOn(c, target) == Resolves(c, target)

\* authorize_widening: an ancestor, within what it can reach itself; it may
\* always narrow.
Authorized(x) ==
    /\ x.id \in Reach(x.by) /\ Widener(x.by, x.id)
    /\ x.grant => HandsOn(x.by, x.target)

\* mutation: the operation id of a call is not looked up
KnownNever(x) == FALSE
Known(x) == x \in receipts

\* A call that takes effect, with its receipt in the same transaction.
Take(x) ==
    /\ x.id \in Made /\ x.target \in Made \cup {Root}
    /\ x.grant => Widens(x.id, x.target) /\ Room(x.id, x.target)
    /\ grants' = Applied(x)
    /\ receipts' = receipts \cup {x}
    /\ UNCHANGED above

Unused(x) == \A y \in receipts : y.op # x.op

\* threads_grant, threads_revoke; a known call only repeats its answer.
AgentCall(x) ==
    /\ x.by \in Made
    /\ Unused(x) \/ x \in receipts
    /\ Event /\ ~Known(x) /\ Authorized(x) /\ Take(x)
    /\ UNCHANGED given

\* set_thread_reach
OwnerCall(x) ==
    /\ x.by = Owner
    /\ Unused(x) \/ x \in receipts
    /\ Event /\ ~Known(x) /\ Take(x)
    /\ given' = IF x.grant THEN given \cup {<<x.id, x.target>>} ELSE given

\* Operation ids are fresh: the next number, or that of a retried call.
Calls == [by : Made \cup {Owner}, op : {Cardinality(receipts) + 1}, grant : BOOLEAN,
          id : Made, target : Made \cup {Root}] \cup receipts

Next ==
    \/ \E c \in Made : Delegate(c) \/ \E parent \in Made \cup {Root} : Create(c, parent)
    \/ OwnerCreate
    \/ \E x \in Calls : AgentCall(x) \/ OwnerCall(x)

Spec == Init /\ [][Next]_vars

-----------------------------------------------------------------------------
(* Properties                                                              *)

\* What lies below a Thread, or below a target the Owner ever gave it.
Given(a) ==
    IF <<a, Root>> \in given THEN Made
    ELSE Below(a) \cup UNION {Below(t) : t \in {u \in Made : <<a, u>> \in given}}

\* "authority flows down the tree, never sideways" (thread_grants.rs): whatever
\* chain of grants agents make, and whatever was revoked meanwhile, a Thread
\* reaches only what its own ancestors have by place or were given by the Owner.
ReachIsGiven ==
    \A c \in Made : Reach(c) \subseteq UNION {Given(a) : a \in above[c] \cup {c}}

\* Whatever grant a step adds is the grant of a call that never took effect
\* before: a retried call does not bring back what was revoked after it.
GrowsByNewCall ==
    \A g \in grants' \ grants :
        \E x \in receipts' \ receipts : x.grant /\ g = <<x.id, x.target>>
RevokedStaysRevoked == [][GrowsByNewCall]_vars

=============================================================================
