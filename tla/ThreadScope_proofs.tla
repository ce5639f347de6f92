--------------------------- MODULE ThreadScope_proofs ---------------------------
(***************************************************************************)
(* Theorems about ThreadScope: for any set of Threads, any limits and any  *)
(* history of calls, reach is never more than the Owner gave, and a call   *)
(* that took effect before never widens it again.                          *)
(***************************************************************************)
EXTENDS ThreadScope, TLAPS

\* Some ancestor of c, or c itself, was given the top, or a Thread that is u or
\* above it, or is itself above u.
Covered(c, u) ==
    \E a \in above[c] \cup {c} :
        \/ <<a, Root>> \in given
        \/ a = u \/ a \in above[u]
        \/ \E t \in Made : <<a, t>> \in given /\ (t = u \/ t \in above[u])

\* The whole of reach by the top hangs on a grant of the top.
CoveredTop(c) == \E a \in above[c] \cup {c} : <<a, Root>> \in given

\* `above` is the ancestor relation of a forest: closed, without cycles.
Forest ==
    /\ \A t \in Made : above[t] \subseteq Made
    /\ \A t \in Made : \A u \in above[t] : above[u] \subseteq above[t]

\* A grant in force is covered by what the Owner gave.
GrantsCovered ==
    /\ grants \subseteq Made \X (Made \cup {Root})
    /\ \A c \in Made : <<c, Root>> \in grants => CoveredTop(c)
    /\ \A c, u \in Made : <<c, u>> \in grants => Covered(c, u)

ScopeInv == Forest /\ GrantsCovered

-----------------------------------------------------------------------------
(* Reach is covered                                                        *)

\* What covers a Thread covers what is below it.
LEMMA CoveredBelow ==
    ASSUME Forest, NEW c \in Made, NEW t \in Made, NEW u \in Made,
           t \in above[u], Covered(c, t)
    PROVE  Covered(c, u)
<1>1. above[t] \subseteq above[u]
    BY DEF Forest
<1>2. PICK a \in above[c] \cup {c} :
          \/ <<a, Root>> \in given
          \/ a = t \/ a \in above[t]
          \/ \E s \in Made : <<a, s>> \in given /\ (s = t \/ s \in above[t])
    BY DEF Covered
<1>3. QED
    BY <1>1, <1>2 DEF Covered

\* A Thread is covered in what its ancestors are covered in.
LEMMA CoveredFromAbove ==
    ASSUME Forest, NEW d \in Made, NEW c \in above[d]
    PROVE  /\ \A u \in Made : Covered(c, u) => Covered(d, u)
           /\ CoveredTop(c) => CoveredTop(d)
<1>1. above[c] \cup {c} \subseteq above[d] \cup {d}
    BY DEF Forest
<1>2. QED
    BY <1>1 DEF Covered, CoveredTop

LEMMA TopCoversAll ==
    ASSUME NEW c, NEW u, CoveredTop(c)
    PROVE  Covered(c, u)
BY DEF Covered, CoveredTop

\* REACH_CTE finds nothing that is not covered.
LEMMA ReachCovered ==
    ASSUME ScopeInv, NEW c \in Made, NEW u \in Reach(c)
    PROVE  u \in Made /\ Covered(c, u)
<1>1. CASE HoldsRoot(c)
    <2>1. CoveredTop(c)
        BY <1>1 DEF ScopeInv, GrantsCovered, HoldsRoot
    <2>2. QED
        BY <1>1, <2>1, TopCoversAll DEF Reach
<1>2. CASE u \in Below(c)
    BY <1>2 DEF Below, Covered
<1>3. CASE \E t \in Made : <<c, t>> \in grants /\ u \in Below(t)
    <2>1. PICK t \in Made : <<c, t>> \in grants /\ u \in Below(t)
        BY <1>3
    <2>2. Covered(c, t)
        BY <2>1 DEF ScopeInv, GrantsCovered
    <2>3. u \in Made /\ (u = t \/ t \in above[u])
        BY <2>1 DEF Below
    <2>4. QED
        BY <2>2, <2>3, CoveredBelow DEF ScopeInv
<1>4. QED
    BY <1>1, <1>2, <1>3 DEF Reach

\* So what is covered for a Thread is given to it or to an ancestor.
LEMMA CoveredIsGiven ==
    ASSUME NEW c \in Made, NEW u \in Made, Covered(c, u)
    PROVE  \E a \in above[c] \cup {c} : u \in Given(a)
BY DEF Covered, Given, Below

LEMMA InvImpliesReachIsGiven == ScopeInv => ReachIsGiven
BY ReachCovered, CoveredIsGiven DEF ReachIsGiven

-----------------------------------------------------------------------------
(* Every step keeps the invariant                                          *)

\* A new Thread has no grant, and the ancestors of the others stay theirs.
LEMMA MakeKeepsInv ==
    ASSUME ScopeInv, NEW parent \in Made \cup {Root}, Make(parent)
    PROVE  ScopeInv'
<1>1. PICK t \in Threads \ Made :
          above' = [u \in Made \cup {t} |->
                      IF u # t THEN above[u]
                      ELSE IF parent = Root THEN {} ELSE above[parent] \cup {parent}]
    BY DEF Make
<1>2. Made' = Made \cup {t} /\ t \notin Made
    BY <1>1 DEF Made
<1>3. \A u \in Made : above'[u] = above[u]
    BY <1>1
<1>4. above'[t] = IF parent = Root THEN {} ELSE above[parent] \cup {parent}
    BY <1>1
<1>5. UNCHANGED <<grants, given>>
    BY DEF Make
<1>6. Forest'
    <2>1. \A u \in Made : above[u] \subseteq Made
        BY DEF ScopeInv, Forest
    <2>2. above'[t] \subseteq Made
        BY <1>4, <2>1
    <2>3. \A v \in above'[t] : above'[v] \subseteq above'[t]
        BY <1>3, <1>4, <2>1 DEF ScopeInv, Forest
    <2>4. \A u \in Made : \A v \in above'[u] : above'[v] \subseteq above'[u]
        BY <1>3, <2>1 DEF ScopeInv, Forest
    <2>5. QED
        BY <1>2, <1>3, <2>1, <2>2, <2>3, <2>4 DEF Forest
<1>7. GrantsCovered'
    <2>1. grants' \subseteq Made' \X (Made' \cup {Root})
        BY <1>2, <1>5 DEF ScopeInv, GrantsCovered
    <2>2. \A c \in Made' : <<c, Root>> \in grants' => c \in Made /\ CoveredTop(c)
        BY <1>5 DEF ScopeInv, GrantsCovered
    <2>3. \A c \in Made : CoveredTop(c) => CoveredTop(c)'
        BY <1>3, <1>5 DEF CoveredTop
    <2>4. ASSUME NEW c \in Made', NEW u \in Made', <<c, u>> \in grants'
          PROVE  Covered(c, u)'
        <3>1. c \in Made /\ (u \in Made \/ u = Root)
            BY <1>5, <2>4 DEF ScopeInv, GrantsCovered
        <3>2. CASE u \in Made
            <4>1. Covered(c, u)
                BY <1>5, <2>4, <3>1, <3>2 DEF ScopeInv, GrantsCovered
            <4>2. QED
                BY <1>2, <1>3, <1>5, <3>1, <3>2, <4>1 DEF Covered
        <3>3. CASE u = Root
            BY <2>2, <2>3, <2>4, <3>1, <3>3 DEF Covered, CoveredTop
        <3>4. QED
            BY <3>1, <3>2, <3>3
    <2>5. QED
        BY <2>1, <2>2, <2>3, <2>4 DEF GrantsCovered
<1>8. QED
    BY <1>6, <1>7 DEF ScopeInv

\* A call keeps the invariant when what it grants is covered afterwards.
LEMMA TakeKeepsInv ==
    ASSUME ScopeInv, NEW x, Take(x), given \subseteq given',
           x.grant => /\ x.target = Root => CoveredTop(x.id)'
                      /\ x.target \in Made => Covered(x.id, x.target)'
    PROVE  ScopeInv'
<1>1. above' = above /\ Made' = Made
    BY DEF Take, Made
<1>2. Forest'
    BY <1>1 DEF ScopeInv, Forest
<1>3. x.id \in Made /\ x.target \in Made \cup {Root}
    BY DEF Take
<1>4. grants' \subseteq grants \/ (x.grant /\ grants' = grants \cup {<<x.id, x.target>>})
    BY DEF Take, Applied
<1>5. \A c, u : Covered(c, u) => Covered(c, u)'
    BY <1>1 DEF Covered
<1>6. \A c : CoveredTop(c) => CoveredTop(c)'
    BY <1>1 DEF CoveredTop
<1>7. GrantsCovered'
    BY <1>1, <1>3, <1>4, <1>5, <1>6 DEF ScopeInv, GrantsCovered
<1>8. QED
    BY <1>2, <1>7 DEF ScopeInv

\* An agent hands on what it reaches, to a Thread below it.
LEMMA AgentCallKeepsInv ==
    ASSUME ScopeInv, NEW x, AgentCall(x)
    PROVE  ScopeInv'
<1>1. /\ x.by \in Made /\ Take(x) /\ UNCHANGED <<above, given>>
      /\ x.by \in above[x.id] /\ x.id \in Made
      /\ x.grant => Resolves(x.by, x.target)
    BY DEF AgentCall, Authorized, Widener, HandsOn, Take
<1>2. ASSUME x.grant, x.target = Root
      PROVE  CoveredTop(x.id)
    <2>1. CoveredTop(x.by)
        BY <1>1, <1>2 DEF Resolves, HoldsRoot, ScopeInv, GrantsCovered
    <2>2. QED
        BY <1>1, <2>1, CoveredFromAbove DEF ScopeInv
<1>3. ASSUME x.grant, x.target \in Made
      PROVE  Covered(x.id, x.target)
    <2>1. CASE x.target = Root
        BY <1>2, <1>3, <2>1, TopCoversAll
    <2>2. CASE x.target # Root
        <3>1. Covered(x.by, x.target)
            BY <1>1, <1>3, <2>2, ReachCovered DEF Resolves
        <3>2. QED
            BY <1>1, <1>3, <3>1, CoveredFromAbove DEF ScopeInv
    <2>3. QED
        BY <2>1, <2>2
<1>4. /\ CoveredTop(x.id) => CoveredTop(x.id)'
      /\ Covered(x.id, x.target) => Covered(x.id, x.target)'
    BY <1>1 DEF CoveredTop, Covered, Made
<1>5. QED
    BY <1>1, <1>2, <1>3, <1>4, TakeKeepsInv

\* What the Owner grants is given.
LEMMA OwnerCallKeepsInv ==
    ASSUME ScopeInv, NEW x, OwnerCall(x)
    PROVE  ScopeInv'
<1>1. Take(x) /\ given \subseteq given' /\ above' = above
    BY DEF OwnerCall, Take
<1>2. x.grant => <<x.id, x.target>> \in given'
    BY DEF OwnerCall
<1>3. x.grant /\ x.target = Root => CoveredTop(x.id)'
    BY <1>2 DEF CoveredTop
<1>4. x.grant /\ x.target \in Made => Covered(x.id, x.target)'
    BY <1>1, <1>2 DEF Covered, Made
<1>5. QED
    BY <1>1, <1>3, <1>4, TakeKeepsInv

LEMMA InitInv == Init => ScopeInv
BY DEF Init, ScopeInv, Forest, GrantsCovered, Made

LEMMA NextInv == ScopeInv /\ [Next]_vars => ScopeInv'
<1> SUFFICES ASSUME ScopeInv, [Next]_vars PROVE ScopeInv'
    OBVIOUS
<1>1. ASSUME NEW c \in Made, Delegate(c) PROVE ScopeInv'
    BY <1>1, MakeKeepsInv DEF Delegate
<1>2. ASSUME NEW c \in Made, NEW parent \in Made \cup {Root}, Create(c, parent)
      PROVE  ScopeInv'
    BY <1>2, MakeKeepsInv DEF Create
<1>3. CASE OwnerCreate
    BY <1>3, MakeKeepsInv DEF OwnerCreate
<1>4. ASSUME NEW x \in Calls, AgentCall(x) \/ OwnerCall(x) PROVE ScopeInv'
    BY <1>4, AgentCallKeepsInv, OwnerCallKeepsInv
<1>5. CASE UNCHANGED vars
    <2>1. above' = above /\ Made' = Made /\ grants' = grants /\ given' = given
        BY <1>5 DEF vars, Made
    <2>2. Forest'
        BY <2>1 DEF ScopeInv, Forest
    <2>3. \A c, u : (Covered(c, u)' <=> Covered(c, u)) /\ (CoveredTop(c)' <=> CoveredTop(c))
        BY <2>1 DEF Covered, CoveredTop
    <2>4. GrantsCovered'
        BY <2>1, <2>3 DEF ScopeInv, GrantsCovered
    <2>5. QED
        BY <2>2, <2>4 DEF ScopeInv
<1>6. QED
    BY <1>1, <1>2, <1>3, <1>4, <1>5 DEF Next

-----------------------------------------------------------------------------
(* Theorems                                                                *)

\* Whatever grants agents chain and whatever is revoked meanwhile, no Thread
\* reaches more than it has by place or the Owner gave it or an ancestor
\* (thread_grants.rs: "authority flows down the tree, never sideways").
THEOREM ReachIsAlwaysGiven == Spec => []ReachIsGiven
<1>1. ScopeInv /\ [Next]_vars => ScopeInv'
    BY NextInv
<1>2. QED
    BY InitInv, <1>1, InvImpliesReachIsGiven, PTL DEF Spec

\* A step that adds a grant takes a call that has no receipt yet, so no retry
\* of a call brings back what was revoked after it (thread_grants.rs).
THEOREM RetryNeverWidens == Spec => RevokedStaysRevoked
<1>1. ASSUME NEW x, Take(x), x \notin receipts
      PROVE  GrowsByNewCall
    BY <1>1 DEF Take, Applied, GrowsByNewCall
<1>2. ASSUME NEW parent, Make(parent)
      PROVE  GrowsByNewCall
    BY <1>2 DEF Make, GrowsByNewCall
<1>3. ASSUME Next
      PROVE  GrowsByNewCall
    BY <1>1, <1>2, <1>3
       DEF Next, Delegate, Create, OwnerCreate, AgentCall, OwnerCall, Known
<1>4. [Next]_vars => [GrowsByNewCall]_vars
    BY <1>3
<1>5. QED
    BY <1>4, PTL DEF Spec, RevokedStaysRevoked

=============================================================================
