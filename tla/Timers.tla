------------------------------- MODULE Timers -------------------------------
(***************************************************************************)
(* The timer trigger source of one Thread's lane                           *)
(* (lash_runtime/timers.rs): a poll loop that turns due timer              *)
(* subscriptions into occurrences, which start processes.                  *)
(*                                                                         *)
(* The subscriptions, the reservations of their occurrences and the        *)
(* processes they start are Lash's and durable. The poll reads the enabled *)
(* subscriptions once and works the list off, one emission and, for a      *)
(* one-shot, one fenced deletion at a time: what it holds in `poll` may be *)
(* stale when it is used, and a crash may come after any step. Its errors  *)
(* are logged per subscription and left to the next poll.                  *)
(***************************************************************************)
EXTENDS Naturals, FiniteSets

CONSTANTS
    Sub,        \* timer subscriptions
    Recurring,  \* those with every_secs; the others are one-shots
    Interval,   \* every_secs, or the delay of a one-shot
    LastInstant, \* bound on the clock
    FailLimit,  \* bound on starts that Lash reports as failed
    EditLimit,  \* bound on changes of one subscription
    CrashLimit  \* bound on host crashes

Instant == 0 .. LastInstant
Period == 1 .. LastInstant
\* Occurrences; the process that one starts is identified by it.
Firing == Sub \X Period

VARIABLES
    now,
    sub,        \* the subscriptions: state, revision, creation
    reserved,   \* occurrences whose delivery Lash has reserved
    retired,    \* subscriptions retire_delivered_one_shot tombstoned
    status,     \* the process registry, shared with ProcessDelivery
    poll,       \* the poll's list and the record it works on: volatile
    failed,     \* starts failed so far
    died        \* crashes so far

tvars == <<now, sub, reserved, retired, poll, failed, died>>

SubStates == {"absent", "enabled", "disabled", "deleted"}
NoRec == [id |-> "none", rev |-> 0, created |-> 0]
Resting == [pc |-> "rest", list |-> {}, at |-> 0, rec |-> NoRec]

TypeOK ==
    /\ now \in Instant
    /\ sub \in [Sub -> [state : SubStates, rev : Nat, created : Instant]]
    /\ reserved \subseteq Firing /\ retired \subseteq Sub
    /\ poll.pc \in {"rest", "emit", "retire"} /\ poll.at \in Instant
    /\ \A rec \in poll.list : rec.id \in Sub
    /\ failed \in Nat /\ died \in Nat

Init ==
    /\ now = 0
    /\ sub = [s \in Sub |-> [state |-> "absent", rev |-> 0, created |-> 0]]
    /\ reserved = {} /\ retired = {}
    /\ poll = Resting
    /\ failed = 0 /\ died = 0

Enabled(s) == sub[s].state = "enabled"

-----------------------------------------------------------------------------
(* The world: the clock, and the programs and the Owner that change        *)
(* subscriptions. Every change moves the revision.                         *)

Tick ==
    /\ now < LastInstant
    /\ now' = now + 1
    /\ UNCHANGED <<sub, reserved, retired, status, poll, failed, died>>

Change(s, state, created) ==
    /\ sub[s].rev < EditLimit
    /\ sub' = [sub EXCEPT ![s] = [state |-> state, rev |-> @.rev + 1,
                                  created |-> created]]
    /\ UNCHANGED <<now, reserved, retired, status, poll, failed, died>>

Register(s) == sub[s].state = "absent" /\ Change(s, "enabled", now)

\* A program registers the same subscription again: a new revision of it.
Revise(s) == sub[s].state \in {"enabled", "disabled"}
             /\ Change(s, "enabled", sub[s].created)

\* disable_trigger: only a live recurring one, at the revision the Owner saw.
Disable(s) == s \in Recurring /\ Enabled(s) /\ Change(s, "disabled", sub[s].created)

-----------------------------------------------------------------------------
(* TimerSchedule::due_occurrence                                           *)

\* The latest period that is over: missed ones collapse into it.
PeriodOf(rec, t) == IF rec.id \in Recurring
                    THEN (t - rec.created) \div Interval[rec.id]
                    ELSE IF t - rec.created >= Interval[rec.id] THEN 1 ELSE 0

Due(rec, t) == PeriodOf(rec, t) > 0

\* mutation: keyed by the firing time, which a retry does not repeat
OccurrenceByClock(rec, t) == <<rec.id, t>>

\* mutation: periods counted from zero
OccurrenceFromZero(rec, t) == <<rec.id, PeriodOf(rec, t) - 1>>

\* idempotency_key: the source with its period, or with its scheduled time.
Occurrence(rec, t) == <<rec.id, PeriodOf(rec, t)>>

-----------------------------------------------------------------------------
(* The poll: fire_due_timers.                                              *)

BeginPoll ==
    /\ poll.pc = "rest"
    /\ poll' = [pc |-> "emit", at |-> now, rec |-> NoRec,
                list |-> {[id |-> s, rev |-> sub[s].rev, created |-> sub[s].created] :
                             s \in {x \in Sub : Enabled(x)}}]
    /\ UNCHANGED <<now, sub, reserved, retired, status, failed, died>>

At(rec, pc) == poll.pc = pc /\ rec \in poll.list

Done(rec) == [poll EXCEPT !.pc = "emit", !.list = @ \ {rec}, !.rec = NoRec]

\* A one-shot that was delivered is retired next; the rest of the list waits.
Retiring(rec) == [poll EXCEPT !.pc = "retire", !.rec = rec]

SkipNotDue(rec) ==
    /\ At(rec, "emit") /\ ~Due(rec, poll.at)
    /\ poll' = Done(rec)
    /\ UNCHANGED <<now, sub, reserved, retired, status, failed, died>>

\* Lash reserves the delivery of a new occurrence and starts its process.
EmitStarts(rec) ==
    /\ At(rec, "emit") /\ Due(rec, poll.at) /\ Enabled(rec.id)
    /\ Occurrence(rec, poll.at) \notin reserved
    /\ reserved' = reserved \cup {Occurrence(rec, poll.at)}
    /\ status' = [status EXCEPT ![Occurrence(rec, poll.at)] = "running"]
    /\ poll' = IF rec.id \in Recurring THEN Done(rec) ELSE Retiring(rec)
    /\ UNCHANGED <<now, sub, retired, failed, died>>

\* mutation: an occurrence that was reserved before is left alone
EmitLeavesReserved(rec) ==
    /\ At(rec, "emit") /\ Due(rec, poll.at) /\ Enabled(rec.id)
    /\ Occurrence(rec, poll.at) \in reserved
    /\ poll' = Done(rec)
    /\ UNCHANGED <<now, sub, reserved, retired, status, failed, died>>

\* AlreadyReserved: an earlier poll emitted it.
EmitReserved(rec) ==
    /\ At(rec, "emit") /\ Due(rec, poll.at) /\ Enabled(rec.id)
    /\ Occurrence(rec, poll.at) \in reserved
    /\ poll' = IF rec.id \in Recurring THEN Done(rec) ELSE Retiring(rec)
    /\ UNCHANGED <<now, sub, reserved, retired, status, failed, died>>

\* mutation: the one-shot is retired whatever its report says
EmitFailsRetires(rec) ==
    /\ At(rec, "emit") /\ Due(rec, poll.at) /\ Enabled(rec.id)
    /\ Occurrence(rec, poll.at) \notin reserved
    /\ failed < FailLimit
    /\ failed' = failed + 1
    /\ poll' = IF rec.id \in Recurring THEN Done(rec) ELSE Retiring(rec)
    /\ UNCHANGED <<now, sub, reserved, retired, status, died>>

\* The start fails, or the emission does: nothing is reserved, and the
\* subscription stays for the next poll.
EmitFails(rec) ==
    /\ At(rec, "emit") /\ Due(rec, poll.at) /\ Enabled(rec.id)
    /\ Occurrence(rec, poll.at) \notin reserved
    /\ failed < FailLimit
    /\ failed' = failed + 1
    /\ poll' = Done(rec)
    /\ UNCHANGED <<now, sub, reserved, retired, status, died>>

\* Disabled or deleted since the poll read it: the report is empty.
EmitNothing(rec) ==
    /\ At(rec, "emit") /\ Due(rec, poll.at) /\ ~Enabled(rec.id)
    /\ poll' = Done(rec)
    /\ UNCHANGED <<now, sub, reserved, retired, status, failed, died>>

\* Delete with the revision the poll read. The store refuses another one, and
\* the next poll tries again with that.
Retire ==
    /\ poll.pc = "retire"
    /\ LET s == poll.rec.id IN
       IF sub[s].rev = poll.rec.rev /\ sub[s].state # "deleted"
       THEN /\ sub' = [sub EXCEPT ![s].state = "deleted"]
            /\ retired' = retired \cup {s}
       ELSE UNCHANGED <<sub, retired>>
    /\ poll' = Done(poll.rec)
    /\ UNCHANGED <<now, reserved, status, failed, died>>

EndPoll ==
    /\ poll.pc = "emit" /\ poll.list = {}
    /\ poll' = Resting
    /\ UNCHANGED <<now, sub, reserved, retired, status, failed, died>>

\* The host dies between two steps of a poll.
CrashPoll ==
    /\ died < CrashLimit /\ poll.pc # "rest"
    /\ died' = died + 1
    /\ poll' = Resting
    /\ UNCHANGED <<now, sub, reserved, retired, status, failed>>

Poll ==
    \/ BeginPoll \/ Retire \/ EndPoll
    \/ \E rec \in poll.list :
          SkipNotDue(rec) \/ EmitStarts(rec) \/ EmitReserved(rec)
          \/ EmitFails(rec) \/ EmitNothing(rec)

Fire ==
    \/ Poll \/ CrashPoll \/ Tick
    \/ \E s \in Sub : Register(s) \/ Revise(s) \/ Disable(s)

-----------------------------------------------------------------------------
(* Properties.                                                             *)

\* A subscription starts no process before its time and no two for one period,
\* whichever polls emitted it, crashed or saw an old list: a one-shot runs once
\* (timers.rs:178-217, the idempotency keys).
FiresOncePerPeriod ==
    \A s \in Sub :
        LET fired == {r \in reserved : r[1] = s}
            over == IF s \in Recurring THEN (now - sub[s].created) \div Interval[s] ELSE 1 IN
        /\ Cardinality(fired) <= over
        /\ fired # {} => now - sub[s].created >= Interval[s]

\* Only a delivery retires a one-shot: a failed or empty emission keeps the
\* schedule for a later attempt (timers.rs:275-286).
RetiredHasRun == \A s \in retired : <<s, 1>> \in reserved

\* A one-shot that has been delivered is retired sooner or later: errors reach
\* the retrying poll (timers.rs:260), whose next emission reports the delivery
\* as already reserved.
DeliveredIsRetired ==
    \A s \in Sub \ Recurring :
        <<s, 1>> \in reserved ~> sub[s].state # "enabled"

=============================================================================
