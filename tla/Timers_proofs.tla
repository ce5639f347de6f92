------------------------------ MODULE Timers_proofs ------------------------------
(***************************************************************************)
(* Theorems about Timers: for any subscriptions, intervals, clock, edits,  *)
(* failed starts and crashes, a subscription starts at most one process a  *)
(* period, none before its time, and only what has run is retired.         *)
(*                                                                         *)
(* The idempotency keys are what carries this: two occurrences of one      *)
(* subscription differ in their period, and a period that is reserved is   *)
(* over by the present clock (ReservedIsOver). That needs the poll's old   *)
(* records to agree with the subscription on when it was created           *)
(* (ListInv), which no edit moves.                                         *)
(***************************************************************************)
EXTENDS Timers, FiniteSetTheorems, TLAPS

Sane == LastInstant \in Nat /\ Interval \in [Sub -> Nat \ {0}] /\ Recurring \subseteq Sub

\* Other components may change the process registry meanwhile.
TimersSpec == Init /\ [][Fire]_tvars

Rec == [id : Sub, rev : Nat, created : Instant]

Shapes ==
    /\ now \in Instant
    /\ sub \in [Sub -> [state : SubStates, rev : Nat, created : Instant]]
    /\ poll \in [pc : {"rest", "emit", "retire"}, list : SUBSET Rec, at : Instant,
                 rec : Rec \cup {NoRec}]

\* The periods of s that are over by `t`, counted from its creation `c`.
Over(s, c, t) == IF s \in Recurring THEN (t - c) \div Interval[s]
                 ELSE IF t - c >= Interval[s] THEN 1 ELSE 0

ReservedIsOver ==
    /\ reserved \subseteq Sub \X (Nat \ {0})
    /\ \A r \in reserved : /\ sub[r[1]].state # "absent"
                           /\ r[2] <= Over(r[1], sub[r[1]].created, now)

\* What a record says of its subscription still holds, but for the revision.
ListInv ==
    /\ poll.at <= now
    /\ \A s \in Sub : sub[s].created <= now
    /\ \A rec \in poll.list : /\ sub[rec.id].state # "absent"
                              /\ rec.created = sub[rec.id].created
                              /\ rec.created <= poll.at
    /\ poll.pc = "retire" => poll.rec.id \in Sub /\ <<poll.rec.id, 1>> \in reserved

TimersInv == Shapes /\ ReservedIsOver /\ ListInv /\ RetiredHasRun

Counts == failed \in Nat /\ died \in Nat

-----------------------------------------------------------------------------
(* Periods                                                                 *)

LEMMA DivGrows ==
    ASSUME NEW a \in Nat, NEW b \in Nat, a <= b, NEW k \in Nat \ {0}
    PROVE  a \div k \in Nat /\ a \div k <= b \div k
OBVIOUS

LEMMA DivPositive ==
    ASSUME NEW a \in Nat, NEW k \in Nat \ {0}, a \div k > 0
    PROVE  a >= k
OBVIOUS

\* Time only adds periods, and the first one takes an interval.
LEMMA OverGrows ==
    ASSUME Sane, NEW s \in Sub, NEW c \in Instant, NEW t \in Instant, NEW u \in Instant,
           c <= t, t <= u
    PROVE  /\ Over(s, c, t) \in Nat /\ Over(s, c, t) <= Over(s, c, u)
           /\ Over(s, c, t) > 0 => t - c >= Interval[s]
           /\ s \notin Recurring => Over(s, c, t) \in {0, 1}
<1>1. t - c \in Nat /\ u - c \in Nat /\ t - c <= u - c /\ Interval[s] \in Nat \ {0}
    BY DEF Sane, Instant
<1>2. CASE s \in Recurring
    BY <1>1, <1>2, DivGrows, DivPositive DEF Over
<1>3. CASE s \notin Recurring
    BY <1>1, <1>3 DEF Over
<1>4. QED
    BY <1>2, <1>3

LEMMA DivSmaller ==
    ASSUME NEW a \in Nat, NEW k \in Nat \ {0}
    PROVE  a \div k <= a
OBVIOUS

\* An interval takes at least one instant.
LEMMA OverBounded ==
    ASSUME Sane, NEW s \in Sub, NEW c \in Instant, NEW t \in Instant, c <= t
    PROVE  Over(s, c, t) <= t - c
<1>1. t - c \in Nat /\ Interval[s] \in Nat \ {0}
    BY DEF Sane, Instant
<1>2. CASE s \in Recurring
    BY <1>1, <1>2, DivSmaller DEF Over
<1>3. CASE s \notin Recurring
    BY <1>1, <1>3 DEF Over
<1>4. QED
    BY <1>2, <1>3

LEMMA PeriodIsOver ==
    ASSUME NEW rec, NEW t
    PROVE  PeriodOf(rec, t) = Over(rec.id, rec.created, t)
BY DEF PeriodOf, Over

-----------------------------------------------------------------------------
(* What the invariant gives                                                *)

LEMMA InvImpliesOncePerPeriod == Sane /\ TimersInv => FiresOncePerPeriod
<1> SUFFICES ASSUME Sane, TimersInv, NEW s \in Sub
             PROVE  LET fired == {r \in reserved : r[1] = s}
                        over == IF s \in Recurring
                                THEN (now - sub[s].created) \div Interval[s] ELSE 1 IN
                    /\ Cardinality(fired) <= over
                    /\ fired # {} => now - sub[s].created >= Interval[s]
    BY DEF FiresOncePerPeriod
<1> DEFINE fired == {r \in reserved : r[1] = s}
           n == Over(s, sub[s].created, now)
           period == [r \in fired |-> r[2]]
<1>1. /\ now \in Instant /\ sub[s].created \in Instant /\ sub[s].created <= now
    BY DEF TimersInv, Shapes, ListInv
<1>2. /\ n \in Nat
      /\ n > 0 => now - sub[s].created >= Interval[s]
      /\ s \notin Recurring => n <= 1
    BY <1>1, OverGrows DEF Instant
<1>3. \A r \in fired : r[1] = s /\ r[2] \in 1 .. n /\ r = <<r[1], r[2]>>
    <2>1. TAKE r \in fired
    <2>2. r \in Sub \X (Nat \ {0}) /\ r[1] = s /\ r[2] <= n
        BY DEF TimersInv, ReservedIsOver
    <2>3. QED
        BY <1>2, <2>2
<1>4. period \in Injection(fired, 1 .. n)
    BY <1>3 DEF Injection, IsInjective
<1>5. IsFiniteSet(1 .. n) /\ Cardinality(1 .. n) = n
    BY <1>2, FS_Interval
<1>6. Cardinality(fired) <= n
    BY <1>4, <1>5, FS_Injection
<1>7. fired # {} => n > 0
    BY <1>2, <1>3
<1>8. IsFiniteSet(fired)
    BY <1>4, <1>5, FS_Injection
<1>9. Cardinality(fired) \in Nat
    BY <1>8, FS_CardinalityType
<1>10. n <= IF s \in Recurring THEN (now - sub[s].created) \div Interval[s] ELSE 1
    BY <1>2 DEF Over
<1>11. (IF s \in Recurring THEN (now - sub[s].created) \div Interval[s] ELSE 1) \in Int
    BY <1>2 DEF Over
<1>12. QED
    BY <1>2, <1>6, <1>7, <1>9, <1>10, <1>11

-----------------------------------------------------------------------------
(* Every step keeps the invariant                                          *)

\* Types: an occurrence is one of a period before the last instant.
LEMMA InvImpliesTypes ==
    ASSUME Sane, TimersInv, Counts
    PROVE  TypeOK
<1>1. ASSUME NEW r \in reserved PROVE r \in Firing
    <2>1. r \in Sub \X (Nat \ {0}) /\ r[2] <= Over(r[1], sub[r[1]].created, now)
        BY <1>1 DEF TimersInv, ReservedIsOver
    <2>2. /\ r[1] \in Sub /\ r[2] \in Nat \ {0} /\ now \in Instant /\ LastInstant \in Nat
          /\ sub[r[1]].created \in Instant /\ sub[r[1]].created <= now
        BY <2>1 DEF TimersInv, Shapes, ListInv, Sane
    <2>3. /\ Over(r[1], sub[r[1]].created, now) \in Nat
          /\ Over(r[1], sub[r[1]].created, now) <= now - sub[r[1]].created
        BY <2>2, OverGrows, OverBounded DEF Instant
    <2>4. r[2] \in Period
        BY <2>1, <2>2, <2>3 DEF Instant, Period
    <2>5. QED
        BY <2>1, <2>4 DEF Firing
<1>2. ASSUME NEW s \in retired PROVE s \in Sub
    BY <1>2 DEF TimersInv, RetiredHasRun, ReservedIsOver
<1>3. QED
    BY <1>1, <1>2 DEF TypeOK, TimersInv, Shapes, Counts, Rec

LEMMA InitInv ==
    ASSUME Sane, Init
    PROVE  TimersInv
<1>1. 0 \in Instant
    BY DEF Sane, Instant
<1>2. Shapes
    BY <1>1 DEF Init, Shapes, SubStates, Resting
<1>3. ReservedIsOver /\ ListInv /\ RetiredHasRun
    BY DEF Init, ReservedIsOver, ListInv, RetiredHasRun, Resting
<1>4. QED
    BY <1>2, <1>3 DEF TimersInv

\* The clock goes on: more periods are over.
LEMMA TickKeepsInv ==
    ASSUME Sane, TimersInv, Tick
    PROVE  TimersInv'
<1>1. now \in Instant /\ now' \in Instant /\ now <= now'
      /\ UNCHANGED <<sub, reserved, retired, poll>>
    BY DEF Tick, TimersInv, Shapes, Instant, Sane
<1>2. Shapes' /\ RetiredHasRun'
    BY <1>1 DEF TimersInv, Shapes, RetiredHasRun
<1>3. ListInv'
    <2>1. poll.at \in Instant /\ \A s \in Sub : sub[s].created \in Instant
        BY DEF TimersInv, Shapes
    <2>2. QED
        BY <1>1, <2>1 DEF TimersInv, ListInv, Instant, Sane
<1>4. ReservedIsOver'
    <2>1. \A r \in reserved : r[2] <= Over(r[1], sub[r[1]].created, now')
        <3>1. TAKE r \in reserved
        <3>2. r[1] \in Sub /\ r[2] \in Nat /\ r[2] <= Over(r[1], sub[r[1]].created, now)
            BY DEF TimersInv, ReservedIsOver
        <3>3. sub[r[1]].created \in Instant /\ sub[r[1]].created <= now
            BY <3>2 DEF TimersInv, Shapes, ListInv
        <3>4. Over(r[1], sub[r[1]].created, now) <= Over(r[1], sub[r[1]].created, now')
              /\ Over(r[1], sub[r[1]].created, now) \in Nat
            BY <1>1, <3>2, <3>3, OverGrows
        <3>5. Over(r[1], sub[r[1]].created, now') \in Nat
            BY <1>1, <3>2, <3>3, OverGrows DEF Instant, Sane
        <3>6. QED
            BY <3>2, <3>4, <3>5
    <2>2. QED
        BY <1>1, <2>1 DEF TimersInv, ReservedIsOver
<1>5. QED
    BY <1>2, <1>3, <1>4 DEF TimersInv

\* An edit moves neither the creation of a subscription that was there, nor
\* does it make one absent.
LEMMA ChangeKeepsInv ==
    ASSUME Sane, TimersInv, NEW s \in Sub, Register(s) \/ Revise(s) \/ Disable(s)
    PROVE  TimersInv'
<1>1. /\ UNCHANGED <<now, reserved, retired, poll>>
      /\ \E state \in {"enabled", "disabled"}, c \in {now, sub[s].created} :
            /\ sub' = [sub EXCEPT ![s] = [state |-> state, rev |-> sub[s].rev + 1, created |-> c]]
            /\ sub[s].state # "absent" => c = sub[s].created
    BY DEF Register, Revise, Disable, Change, Enabled
<1>2. PICK state \in {"enabled", "disabled"}, c \in {now, sub[s].created} :
            /\ sub' = [sub EXCEPT ![s] = [state |-> state, rev |-> sub[s].rev + 1, created |-> c]]
            /\ sub[s].state # "absent" => c = sub[s].created
    BY <1>1
<1>3. /\ c \in Instant /\ c <= now /\ sub[s].rev \in Nat
      /\ sub \in [Sub -> [state : SubStates, rev : Nat, created : Instant]]
    BY DEF TimersInv, Shapes, ListInv, Instant, Sane
<1>4. /\ sub' \in [Sub -> [state : SubStates, rev : Nat, created : Instant]]
      /\ sub'[s].state # "absent" /\ sub'[s].created = c
      /\ \A t \in Sub \ {s} : sub'[t] = sub[t]
    BY <1>2, <1>3 DEF SubStates
<1>5. \A t \in Sub : sub[t].state # "absent" => sub'[t].state # "absent"
                                               /\ sub'[t].created = sub[t].created
    BY <1>2, <1>4
<1>6. Shapes' /\ RetiredHasRun'
    BY <1>1, <1>4 DEF TimersInv, Shapes, RetiredHasRun
<1>7. ReservedIsOver'
    BY <1>1, <1>5 DEF TimersInv, ReservedIsOver
<1>8. ListInv'
    <2>1. \A t \in Sub : sub'[t].created <= now
        BY <1>3, <1>4 DEF TimersInv, ListInv
    <2>2. \A rec \in poll.list : rec.id \in Sub
        BY DEF TimersInv, Shapes, Rec
    <2>3. QED
        BY <1>1, <1>5, <2>1, <2>2 DEF TimersInv, ListInv
<1>9. QED
    BY <1>6, <1>7, <1>8 DEF TimersInv

\* A step of the poll that leaves the store alone: it drops records, or goes on
\* to retire what is reserved.
LEMMA PollMovesKeepsInv ==
    ASSUME TimersInv, UNCHANGED <<now, sub, reserved, retired>>,
           poll' \in [pc : {"rest", "emit", "retire"}, list : SUBSET poll.list,
                      at : Instant, rec : Rec \cup {NoRec}],
           poll'.at = poll.at \/ (poll'.at <= now /\ poll'.list = {}),
           poll'.pc = "retire" => poll'.rec.id \in Sub /\ <<poll'.rec.id, 1>> \in reserved
    PROVE  TimersInv'
<1>1. poll' \in [pc : {"rest", "emit", "retire"}, list : SUBSET Rec, at : Instant,
                 rec : Rec \cup {NoRec}]
    BY DEF TimersInv, Shapes
<1>2. Shapes' /\ ReservedIsOver' /\ RetiredHasRun'
    BY <1>1 DEF TimersInv, Shapes, ReservedIsOver, RetiredHasRun
<1>3. ListInv'
    BY DEF TimersInv, ListInv
<1>4. QED
    BY <1>2, <1>3 DEF TimersInv

LEMMA RestKeepsInv ==
    ASSUME Sane, TimersInv, UNCHANGED <<now, sub, reserved, retired>>, poll' = Resting
    PROVE  TimersInv'
<1>1. 0 \in Instant /\ 0 <= now
    BY DEF TimersInv, Shapes, Instant, Sane
<1>2. poll' \in [pc : {"rest", "emit", "retire"}, list : SUBSET poll.list,
                 at : Instant, rec : Rec \cup {NoRec}]
      /\ poll'.at = 0 /\ poll'.list = {} /\ poll'.pc = "rest"
    BY <1>1 DEF Resting
<1>3. QED
    BY <1>1, <1>2, PollMovesKeepsInv

LEMMA BeginPollKeepsInv ==
    ASSUME Sane, TimersInv, BeginPoll
    PROVE  TimersInv'
<1>1. /\ UNCHANGED <<now, sub, reserved, retired>>
      /\ poll'.pc = "emit" /\ poll'.at = now /\ poll'.rec = NoRec
      /\ poll'.list = {[id |-> s, rev |-> sub[s].rev, created |-> sub[s].created] :
                          s \in {x \in Sub : Enabled(x)}}
      /\ poll' = [pc |-> "emit", at |-> now, rec |-> NoRec, list |-> poll'.list]
    BY DEF BeginPoll
<1>2. \A rec \in poll'.list : /\ rec \in Rec /\ sub[rec.id].state # "absent"
                              /\ rec.created = sub[rec.id].created /\ rec.created <= now
    BY <1>1 DEF TimersInv, Shapes, ListInv, Rec, Enabled
<1>3. Shapes' /\ ReservedIsOver' /\ RetiredHasRun'
    BY <1>1, <1>2 DEF TimersInv, Shapes, ReservedIsOver, RetiredHasRun
<1>4. now <= now
    BY DEF TimersInv, Shapes, Instant, Sane
<1>5. ListInv'
    BY <1>1, <1>2, <1>4 DEF TimersInv, ListInv
<1>6. QED
    BY <1>3, <1>5 DEF TimersInv

LEMMA DoneShape ==
    ASSUME TimersInv, NEW rec
    PROVE  /\ Done(rec) \in [pc : {"rest", "emit", "retire"}, list : SUBSET poll.list,
                             at : Instant, rec : Rec \cup {NoRec}]
           /\ Done(rec).at = poll.at /\ Done(rec).pc = "emit"
BY DEF Done, TimersInv, Shapes

\* An occurrence that is due is a period that is over.
LEMMA DueOccurrence ==
    ASSUME Sane, TimersInv, NEW rec \in poll.list, Due(rec, poll.at)
    PROVE  /\ Occurrence(rec, poll.at) \in Sub \X (Nat \ {0})
           /\ Occurrence(rec, poll.at)[1] = rec.id /\ sub[rec.id].state # "absent"
           /\ Occurrence(rec, poll.at)[2] <= Over(rec.id, sub[rec.id].created, now)
           /\ rec.id \notin Recurring => Occurrence(rec, poll.at) = <<rec.id, 1>>
<1>1. /\ rec \in Rec /\ poll.at \in Instant /\ now \in Instant /\ poll.at <= now
      /\ rec.created <= poll.at /\ rec.created = sub[rec.id].created
      /\ sub[rec.id].state # "absent"
    BY DEF TimersInv, Shapes, ListInv
<1>2. rec.id \in Sub /\ rec.created \in Instant
    BY <1>1 DEF Rec
<1>3. /\ PeriodOf(rec, poll.at) \in Nat /\ PeriodOf(rec, poll.at) > 0
      /\ PeriodOf(rec, poll.at) <= Over(rec.id, rec.created, now)
      /\ rec.id \notin Recurring => PeriodOf(rec, poll.at) = 1
    BY <1>1, <1>2, PeriodIsOver, OverGrows DEF Due
<1>4. QED
    BY <1>1, <1>2, <1>3 DEF Occurrence

\* To retire next what is reserved.
LEMMA RetiringShape ==
    ASSUME TimersInv, NEW rec \in poll.list
    PROVE  /\ Retiring(rec) \in [pc : {"rest", "emit", "retire"}, list : SUBSET poll.list,
                                 at : Instant, rec : Rec \cup {NoRec}]
           /\ Retiring(rec).at = poll.at /\ Retiring(rec).pc = "retire"
           /\ Retiring(rec).rec = rec /\ rec.id \in Sub
BY DEF Retiring, TimersInv, Shapes, Rec

LEMMA EmitKeepsInv ==
    ASSUME Sane, TimersInv, NEW rec \in poll.list,
           SkipNotDue(rec) \/ EmitStarts(rec) \/ EmitReserved(rec) \/ EmitFails(rec)
           \/ EmitNothing(rec)
    PROVE  TimersInv'
<1>1. CASE SkipNotDue(rec) \/ EmitFails(rec) \/ EmitNothing(rec)
    <2>1. UNCHANGED <<now, sub, reserved, retired>> /\ poll' = Done(rec)
        BY <1>1 DEF SkipNotDue, EmitFails, EmitNothing
    <2>2. QED
        BY <2>1, DoneShape, PollMovesKeepsInv
<1>2. CASE EmitReserved(rec)
    <2>1. /\ UNCHANGED <<now, sub, reserved, retired>>
          /\ Occurrence(rec, poll.at) \in reserved /\ Due(rec, poll.at)
          /\ poll' = IF rec.id \in Recurring THEN Done(rec) ELSE Retiring(rec)
        BY <1>2 DEF EmitReserved
    <2>2. CASE rec.id \in Recurring
        BY <2>1, <2>2, DoneShape, PollMovesKeepsInv
    <2>3. CASE rec.id \notin Recurring
        <3>1. <<rec.id, 1>> \in reserved
            BY <2>1, <2>3, DueOccurrence
        <3>2. poll' = Retiring(rec)
            BY <2>1, <2>3
        <3>3. QED
            BY <2>1, <3>1, <3>2, RetiringShape, PollMovesKeepsInv
    <2>4. QED
        BY <2>2, <2>3
<1>3. CASE EmitStarts(rec)
    <2>1. /\ UNCHANGED <<now, sub, retired>> /\ Due(rec, poll.at)
          /\ reserved' = reserved \cup {Occurrence(rec, poll.at)}
          /\ poll' = IF rec.id \in Recurring THEN Done(rec) ELSE Retiring(rec)
        BY <1>3 DEF EmitStarts
    <2>2. /\ Occurrence(rec, poll.at) \in Sub \X (Nat \ {0})
          /\ Occurrence(rec, poll.at)[1] = rec.id /\ sub[rec.id].state # "absent"
          /\ Occurrence(rec, poll.at)[2] <= Over(rec.id, sub[rec.id].created, now)
          /\ rec.id \notin Recurring => Occurrence(rec, poll.at) = <<rec.id, 1>>
        BY <2>1, DueOccurrence
    <2>3. ReservedIsOver' /\ RetiredHasRun'
        BY <2>1, <2>2 DEF TimersInv, ReservedIsOver, RetiredHasRun
    <2>4. /\ poll' \in [pc : {"rest", "emit", "retire"}, list : SUBSET poll.list,
                        at : Instant, rec : Rec \cup {NoRec}]
          /\ poll'.at = poll.at
          /\ poll'.pc = "retire" => poll'.rec.id \in Sub /\ <<poll'.rec.id, 1>> \in reserved'
        <3>1. CASE rec.id \in Recurring
            BY <2>1, <3>1, DoneShape
        <3>2. CASE rec.id \notin Recurring
            BY <2>1, <2>2, <3>2, RetiringShape
        <3>3. QED
            BY <3>1, <3>2
    <2>5. Shapes'
        <3>1. poll' \in [pc : {"rest", "emit", "retire"}, list : SUBSET Rec, at : Instant,
                         rec : Rec \cup {NoRec}]
            BY <2>4 DEF TimersInv, Shapes
        <3>2. QED
            BY <2>1, <3>1 DEF TimersInv, Shapes
    <2>6. ListInv'
        BY <2>1, <2>4 DEF TimersInv, ListInv
    <2>7. QED
        BY <2>3, <2>5, <2>6 DEF TimersInv
<1>4. QED
    BY <1>1, <1>2, <1>3

\* What is retired was reserved when the poll turned to it.
LEMMA RetireKeepsInv ==
    ASSUME TimersInv, Retire
    PROVE  TimersInv'
<1> DEFINE s == poll.rec.id
<1>1. /\ poll.pc = "retire" /\ UNCHANGED <<now, reserved>> /\ poll' = Done(poll.rec)
      /\ \/ /\ sub' = [sub EXCEPT ![s].state = "deleted"]
            /\ retired' = retired \cup {s}
         \/ UNCHANGED <<sub, retired>>
    BY DEF Retire
<1>2. s \in Sub /\ <<s, 1>> \in reserved
    BY <1>1 DEF TimersInv, ListInv
<1>3. /\ poll' \in [pc : {"rest", "emit", "retire"}, list : SUBSET poll.list,
                    at : Instant, rec : Rec \cup {NoRec}]
      /\ poll'.at = poll.at /\ poll'.pc = "emit"
    BY <1>1, DoneShape
<1>4. /\ sub' \in [Sub -> [state : SubStates, rev : Nat, created : Instant]]
      /\ \A t \in Sub : /\ sub'[t].created = sub[t].created
                         /\ sub[t].state # "absent" => sub'[t].state # "absent"
    <2>1. sub \in [Sub -> [state : SubStates, rev : Nat, created : Instant]]
        BY DEF TimersInv, Shapes
    <2>2. CASE UNCHANGED sub
        BY <2>1, <2>2
    <2>3. CASE sub' = [sub EXCEPT ![s].state = "deleted"]
        BY <1>2, <2>1, <2>3 DEF SubStates
    <2>4. QED
        BY <1>1, <2>2, <2>3
<1>5. RetiredHasRun'
    BY <1>1, <1>2 DEF TimersInv, RetiredHasRun
<1>6. ReservedIsOver'
    BY <1>1, <1>4 DEF TimersInv, ReservedIsOver
<1>7. Shapes'
    <2>1. poll' \in [pc : {"rest", "emit", "retire"}, list : SUBSET Rec, at : Instant,
                     rec : Rec \cup {NoRec}]
        BY <1>3 DEF TimersInv, Shapes
    <2>2. QED
        BY <1>1, <1>4, <2>1 DEF TimersInv, Shapes
<1>8. ListInv'
    <2>1. \A r \in poll.list : r.id \in Sub
        BY DEF TimersInv, Shapes, Rec
    <2>2. QED
        BY <1>1, <1>3, <1>4, <2>1 DEF TimersInv, ListInv
<1>9. QED
    BY <1>5, <1>6, <1>7, <1>8 DEF TimersInv

LEMMA NextInv ==
    ASSUME Sane, TimersInv, [Fire]_tvars
    PROVE  TimersInv'
<1>1. CASE EndPoll \/ CrashPoll
    BY <1>1, RestKeepsInv DEF EndPoll, CrashPoll
<1>2. CASE UNCHANGED tvars
    BY <1>2 DEF tvars, TimersInv, Shapes, ReservedIsOver, ListInv, RetiredHasRun
<1>3. QED
    BY <1>1, <1>2, BeginPollKeepsInv, RetireKeepsInv, EmitKeepsInv, TickKeepsInv, ChangeKeepsInv
       DEF Fire, Poll

LEMMA CountsStay ==
    ASSUME Counts, [Fire]_tvars
    PROVE  Counts'
BY DEF Counts, Fire, Poll, BeginPoll, Retire, EndPoll, CrashPoll, Tick, SkipNotDue, EmitStarts,
       EmitReserved, EmitFails, EmitNothing, Register, Revise, Disable, Change, tvars

-----------------------------------------------------------------------------
(* Theorems                                                                *)

\* Types: what is reserved is one of the occurrences of the clock's range.
THEOREM TimersTypes ==
    ASSUME Sane
    PROVE  TimersSpec => []TypeOK
<1>1. Init => TimersInv /\ Counts
    BY InitInv DEF Init, Counts
<1>2. TimersInv /\ Counts /\ [Fire]_tvars => (TimersInv /\ Counts)'
    BY NextInv, CountsStay
<1>3. TimersInv /\ Counts => TypeOK
    BY InvImpliesTypes
<1>4. QED
    BY <1>1, <1>2, <1>3, PTL DEF TimersSpec

\* No process before its time and no two for one period (timers.rs, the
\* idempotency keys), whatever polls crash, fail or see an old list.
THEOREM OncePerPeriod ==
    ASSUME Sane
    PROVE  TimersSpec => []FiresOncePerPeriod
<1>1. ASSUME TimersInv PROVE FiresOncePerPeriod
    BY <1>1, InvImpliesOncePerPeriod
<1>2. QED
    BY InitInv, NextInv, <1>1, PTL DEF TimersSpec

\* Only what was delivered is retired (timers.rs:275-286).
THEOREM RetiredRan ==
    ASSUME Sane
    PROVE  TimersSpec => []RetiredHasRun
<1>1. ASSUME TimersInv PROVE RetiredHasRun
    BY <1>1 DEF TimersInv
<1>2. QED
    BY InitInv, NextInv, <1>1, PTL DEF TimersSpec

=============================================================================
