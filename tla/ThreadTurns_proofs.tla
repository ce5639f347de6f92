------------------------- MODULE ThreadTurns_proofs -------------------------
(***************************************************************************)
(* Theorems about ThreadTurns for every set of Threads and turns, every    *)
(* capacity and every budget of environment events: of its ledger, and of  *)
(* what its actors do to each other, that what a drain or a driver         *)
(* executes was not ended behind its back and that the requests of a       *)
(* Thread start in the order they were accepted in.                        *)
(***************************************************************************)
EXTENDS ThreadTurns, TLAPS

-----------------------------------------------------------------------------
(* What the writers of the ledger do to its columns *)

LEMMA IfOpenType == \A t \in Turn : IfOpen(t) \subseteq Turn
BY DEF IfOpen

LEMMA ReportsType == \A S \in SUBSET Turn : Reports(S) \subseteq Turn
BY ReportAssumption DEF Reports

LEMMA FinishType ==
    ASSUME NEW S \in SUBSET Turn, NEW outcome \in Terminal,
           LedgerTypeOK, Finish(S, outcome)
    PROVE  /\ state' \in [Turn -> TurnStates]
           /\ order' \in [Turn -> Nat] /\ clock' \in Nat
BY DEF Finish, LedgerTypeOK, TurnStates, Terminal

LEMMA CompleteType ==
    ASSUME NEW t \in Turn, NEW outcome \in Terminal, NEW rows,
           LedgerTypeOK, CompleteRemoving(t, outcome, rows)
    PROVE  LedgerTypeOK'
BY IfOpenType, ReportsType, FinishType DEF CompleteRemoving, LedgerTypeOK

LEMMA AcceptedType ==
    ASSUME NEW t \in Turn, LedgerTypeOK, Accepted(t)
    PROVE  LedgerTypeOK'
BY DEF Accepted, LedgerTypeOK, TurnStates

LEMMA SpendType ==
    ASSUME NEW e \in Events, GhostTypeOK, Spend(e)
    PROVE  left' \in [Events -> Nat]
BY DEF Spend, GhostTypeOK

LEMMA WithdrawnType ==
    ASSUME NEW t \in Turn,
           NEW inputs \in [Turn -> {"absent", "pending", "done"}]
    PROVE  Withdrawn(t, inputs) \in [Turn -> {"absent", "pending", "done"}]
BY DEF Withdrawn

LEMMA ReconciledType ==
    ASSUME NEW th \in Thread, NativeTypeOK
    PROVE  Reconciled(th) \in [Turn -> {"absent", "pending", "done"}]
BY DEF Reconciled, NativeTypeOK

LEMMA SignalType ==
    ASSUME NEW th \in Thread, CliTypeOK, Signal(th)
    PROVE  CliTypeOK'
BY DEF Signal, CliTypeOK

LEMMA CliGoesType ==
    ASSUME NEW th \in Thread, NEW pc \in CliPcs \ {"done"}, CliTypeOK,
           cli[th].pc # "none", CliGoes(th, pc)
    PROVE  CliTypeOK'
BY DEF CliGoes, CliTypeOK

LEMMA CliEndsType ==
    ASSUME NEW th \in Thread, NEW outcome \in Terminal, CliTypeOK,
           cli[th].pc # "none", CliEnds(th, outcome)
    PROVE  CliTypeOK'
BY DEF CliEnds, CliTypeOK, CliPcs

LEMMA LaneGoesType ==
    ASSUME NEW th \in Thread, NEW pc \in LanePcs \ {"settle"}, NEW t \in Turn \cup {None},
           pc \in {"run", "bind"} => t \in Turn,
           pc = "drain" => anchor'[th] \in Turn,
           LaneTypeOK, LaneGoes(th, pc, t),
           anchor' \in [Thread -> Turn \cup {None}],
           \A d \in Thread \ {th} : anchor'[d] = anchor[d]
    PROVE  LaneTypeOK'
BY DEF LaneGoes, NoLane, LaneTypeOK, LanePcs

LEMMA LaneSettlesType ==
    ASSUME NEW th \in Thread, NEW outcome \in Terminal, LaneTypeOK, UNCHANGED anchor,
           lane[th].pc = "drain",
           lane' = [lane EXCEPT ![th].pc = "settle", ![th].outcome = outcome]
    PROVE  LaneTypeOK'
<1>1. lane'[th] = [lane[th] EXCEPT !.pc = "settle", !.outcome = outcome]
  BY DEF LaneTypeOK
<1>2. \A d \in Thread \ {th} : lane'[d] = lane[d]
  BY DEF LaneTypeOK
<1>3. lane' \in [Thread -> [pc : LanePcs, turn : Turn \cup {None},
                           stop : BOOLEAN, outcome : Terminal \cup {None}]]
  BY DEF LaneTypeOK, LanePcs
<1> QED BY <1>1, <1>2, <1>3 DEF LaneTypeOK

LEMMA CancelOwnedType ==
    ASSUME NEW th \in Thread, TypeOK, CancelOwned(th)
    PROVE  LedgerTypeOK' /\ lash' \in [Turn -> {"absent", "pending", "done"}]
           /\ opened' \subseteq Thread /\ LaneTypeOK'
<1>1. opened' \subseteq Thread
  BY DEF CancelOwned, TypeOK, NativeTypeOK
<1>2. CASE lane[th].pc \in {"drain", "settle"} \/ ~OwnsTurn(th)
  <2> DEFINE told == lane[th].stop \/ lane[th].pc = "drain"
  <2>1. told \in BOOLEAN
    OBVIOUS
  <2>2. lane' = [lane EXCEPT ![th].stop = told] /\ UNCHANGED anchor
    BY <1>2 DEF CancelOwned
  <2> HIDE DEF told
  <2>3. LaneTypeOK'
    BY <2>1, <2>2 DEF TypeOK, LaneTypeOK
  <2> QED BY <1>1, <1>2, <2>3 DEF CancelOwned, TypeOK, LedgerTypeOK, NativeTypeOK, ledger
<1>3. CASE ~(lane[th].pc \in {"drain", "settle"} \/ ~OwnsTurn(th))
  <2>1. anchor[th] \in Turn
    BY <1>3 DEF OwnsTurn, TypeOK, LaneTypeOK
  <2>2. LedgerTypeOK'
    BY <1>3, <2>1, CompleteType DEF CancelOwned, TypeOK, Terminal
  <2>3. lash' \in [Turn -> {"absent", "pending", "done"}]
    BY <1>3, <2>1, WithdrawnType, ReconciledType DEF CancelOwned, TypeOK, NativeTypeOK
  <2>4. LaneTypeOK'
    BY <1>3 DEF CancelOwned, TypeOK, LaneTypeOK
  <2> QED BY <1>1, <2>2, <2>3, <2>4
<1> QED BY <1>2, <1>3

-----------------------------------------------------------------------------
(* Type correctness *)

LEMMA TypeInit == Init => TypeOK
BY TreeAssumption, ReportAssumption, BoundAssumption
DEF Init, TypeOK, LedgerTypeOK, FlagsTypeOK, NativeTypeOK, PumpTypeOK, OwnerTypeOK,
    CliTypeOK, LaneTypeOK, GhostTypeOK, NoPump, NoStop, NoDrop, NoCli, NoLane,
    TurnStates, CliPcs, LanePcs

LEMMA TypeEnvironment == TypeOK /\ Environment => TypeOK'
<1> SUFFICES ASSUME TypeOK, Environment PROVE TypeOK'
  OBVIOUS
<1> USE DEF TypeOK, LedgerTypeOK, FlagsTypeOK, NativeTypeOK, PumpTypeOK, OwnerTypeOK,
            CliTypeOK, LaneTypeOK, GhostTypeOK, ledger, flags, native, actors, ghosts
<1>1. ASSUME NEW t \in Turn, AcceptOwner(t) \/ AcceptWake(t) PROVE TypeOK'
  BY <1>1, AcceptedType DEF AcceptOwner, AcceptWake
<1>2. ASSUME NEW t \in Turn, DropBegin(t) PROVE TypeOK'
  <2>1. ThreadOf[t] \in Thread
    BY TreeAssumption
  <2>2. CliTypeOK'
    BY <1>2, <2>1, SignalType DEF DropBegin
  <2>3. GhostTypeOK'
    BY <1>2, SpendType DEF DropBegin, Events
  <2> QED BY <1>2, <2>1, <2>2, <2>3 DEF DropBegin
<1>3. ASSUME NEW a \in Turn, NEW t \in Turn, Delegate(a, t) PROVE TypeOK'
  BY <1>3, AcceptedType DEF Delegate
<1>4. ASSUME NEW th \in Thread, NEW keep, Archive(th, keep) PROVE TypeOK'
  BY <1>4, SpendType DEF Archive, Subtree, Events
<1>5. ASSUME NEW th \in Thread, Unarchive(th) PROVE TypeOK'
  BY <1>5 DEF Unarchive
<1>6. ASSUME NEW th \in Thread, Snooze(th) \/ SnoozeEnds(th) PROVE TypeOK'
  BY <1>6, SpendType DEF Snooze, SnoozeEnds, Events
<1>7. ASSUME NEW th \in Thread, QueueCommand(th) PROVE TypeOK'
  BY <1>7, SpendType DEF QueueCommand, Events
<1>8. ASSUME NEW th \in Thread, StopBegin(th) PROVE TypeOK'
  BY <1>8, SpendType DEF StopBegin, Events, RunningIn, TurnsOf
<1>9. ASSUME NEW a \in Turn, NEW th \in Thread, AgentCancel(a, th) PROVE TypeOK'
  BY <1>9, SpendType DEF AgentCancel, Events, RunningIn, TurnsOf, FirstOf
<1>10. ASSUME CrashRestart PROVE TypeOK'
  <2> DEFINE cut == {t \in Turn : state[t] = "running"}
  <2>1. LedgerTypeOK'
    BY <1>10, FinishType, ReportsType DEF CrashRestart, Interrupt, Terminal
  <2>2. GhostTypeOK'
    BY <1>10, SpendType DEF CrashRestart, Events
  <2>3. NativeTypeOK'
    BY <1>10 DEF CrashRestart
  <2>4. PumpTypeOK' /\ OwnerTypeOK'
    BY <1>10 DEF CrashRestart, NoPump, NoStop, NoDrop
  <2>5. CliTypeOK' /\ LaneTypeOK'
    BY <1>10 DEF CrashRestart, NoCli, NoLane, CliPcs, LanePcs
  <2> QED BY <1>10, <2>1, <2>2, <2>3, <2>4, <2>5 DEF CrashRestart
<1> QED
  BY <1>1, <1>2, <1>3, <1>4, <1>5, <1>6, <1>7, <1>8, <1>9, <1>10
  DEF Environment, OwnerArchive, AgentArchive

LEMMA TypePump == TypeOK /\ (PumpStep \/ PumpIdle) => TypeOK'
<1> SUFFICES ASSUME TypeOK, PumpStep \/ PumpIdle PROVE TypeOK'
  OBVIOUS
<1> USE DEF TypeOK, LedgerTypeOK, FlagsTypeOK, NativeTypeOK, PumpTypeOK, OwnerTypeOK,
            CliTypeOK, LaneTypeOK, GhostTypeOK, ledger, flags, native, actors, ghosts
<1>1. \A t \in Turn : ThreadOf[t] \in Thread
  BY TreeAssumption
<1>2. Snapshot \in [pc : {"idle", "cancels", "requests"}, queued : SUBSET Turn,
                    running : SUBSET Turn, batch : SUBSET Turn, seen : SUBSET Thread]
  BY DEF Snapshot, NoPump, Pending
<1>3. ASSUME NEW t \in Turn, pump' = Consumed(t) \/ pump' = ConsumedSeen(t)
      PROVE  PumpTypeOK'
  <2>1. ASSUME NEW seen \in SUBSET Thread, pump' = Without(t, seen) PROVE PumpTypeOK'
    <3>1. CASE pump.batch = {t}
      BY <2>1, <3>1 DEF Without, NoPump
    <3>2. CASE pump.batch # {t}
      BY <2>1, <3>2 DEF Without
    <3> QED BY <3>1, <3>2
  <2> QED BY <1>1, <1>3, <2>1 DEF Consumed, ConsumedSeen
<1>4. ASSUME PumpIdle \/ PumpBegin \/ PumpSnapshot PROVE TypeOK'
  <2>1. CASE PumpIdle
    BY <2>1 DEF PumpIdle, vars
  <2>2. CASE PumpBegin
    <3>1. PumpTypeOK'
      BY <1>2, <2>2 DEF PumpBegin, NoPump, Marked
    <3> QED BY <2>2, <3>1 DEF PumpBegin
  <2>3. CASE PumpSnapshot
    BY <1>2, <2>3 DEF PumpSnapshot
  <2> QED BY <1>4, <2>1, <2>2, <2>3
<1>5. ASSUME NEW t \in Turn, PumpCancelQueued(t) PROVE TypeOK'
  <2>1. LedgerTypeOK'
    BY <1>5, CompleteType DEF PumpCancelQueued, Complete, Terminal
  <2>2. CliTypeOK'
    BY <1>1, <1>5, SignalType DEF PumpCancelQueued
  <2> QED BY <1>5, <2>1, <2>2 DEF PumpCancelQueued
<1>6. ASSUME NEW t \in Turn, PumpCancelCli(t) PROVE TypeOK'
  <2>1. CliTypeOK'
    BY <1>1, <1>6, SignalType DEF PumpCancelCli
  <2> QED BY <1>6, <2>1 DEF PumpCancelCli
<1>7. ASSUME NEW t \in Turn, PumpCancelLane(t) PROVE TypeOK'
  <2>1. PumpTypeOK'
    BY <1>7 DEF PumpCancelLane, NoPump
  <2> QED BY <1>1, <1>7, <2>1, CancelOwnedType DEF PumpCancelLane
<1>8. ASSUME NEW t \in Turn, PumpSkipCli(t) \/ PumpSkipBusy(t) PROVE TypeOK'
  BY <1>3, <1>8 DEF PumpSkipCli, PumpSkipBusy
<1>9. ASSUME NEW t \in Turn, PumpSpawnCli(t) PROVE TypeOK'
  <2>1. CliTypeOK'
    BY <1>9 DEF PumpSpawnCli, NoCli, CliPcs
  <2> QED BY <1>3, <1>9, <2>1 DEF PumpSpawnCli
<1>10. ASSUME NEW t \in Turn, PumpNotifyLane(t) PROVE TypeOK'
  BY <1>1, <1>3, <1>10 DEF PumpNotifyLane
<1>11. ASSUME NEW t \in Turn, PumpLaneUnavailable(t) PROVE TypeOK'
  <2>1. LedgerTypeOK' /\ GhostTypeOK'
    BY <1>11, CompleteType, SpendType DEF PumpLaneUnavailable, Complete, Terminal, Events
  <2> QED BY <1>3, <1>11, <2>1 DEF PumpLaneUnavailable
<1> QED
  BY <1>4, <1>5, <1>6, <1>7, <1>8, <1>9, <1>10, <1>11 DEF PumpStep

LEMMA TypeOwner == TypeOK /\ OwnerStep => TypeOK'
<1> SUFFICES ASSUME TypeOK, OwnerStep PROVE TypeOK'
  OBVIOUS
<1> USE DEF TypeOK, LedgerTypeOK, FlagsTypeOK, NativeTypeOK, PumpTypeOK, OwnerTypeOK,
            CliTypeOK, LaneTypeOK, GhostTypeOK, ledger, flags, native, actors, ghosts
<1>1. ASSUME StopDeliver PROVE TypeOK'
  <2>1. stop.thread \in Thread /\ OwnerTypeOK'
    BY <1>1 DEF StopDeliver, NoStop
  <2>2. CASE Signal(stop.thread) /\ UNCHANGED <<ledger, native, lane, anchor>>
    BY <1>1, <2>1, <2>2, SignalType DEF StopDeliver
  <2>3. CASE CancelOwned(stop.thread) /\ UNCHANGED <<commands, cli>>
    BY <1>1, <2>1, <2>3, CancelOwnedType DEF StopDeliver
  <2> QED BY <1>1, <2>2, <2>3 DEF StopDeliver
<1>2. ASSUME drop.pc # "idle" PROVE drop.turn \in Turn
  BY <1>2
<1>3. ASSUME DropCli PROVE TypeOK'
  <2>1. LedgerTypeOK'
    BY <1>2, <1>3, CompleteType DEF DropCli, Complete, Terminal
  <2> QED BY <1>3, <2>1 DEF DropCli, NoDrop
<1>4. ASSUME DropClaimed PROVE TypeOK'
  BY <1>4 DEF DropClaimed, NoDrop
<1>5. ASSUME DropFinish PROVE TypeOK'
  <2>1. LedgerTypeOK'
    BY <1>2, <1>5, FinishType, IfOpenType, ReportsType DEF DropFinish, Terminal
  <2> QED BY <1>2, <1>5, <2>1 DEF DropFinish
<1>6. ASSUME DropClean PROVE TypeOK'
  BY <1>2, <1>6, WithdrawnType DEF DropClean, NoDrop
<1> QED BY <1>1, <1>3, <1>4, <1>5, <1>6 DEF OwnerStep

LEMMA TypeCli ==
    ASSUME NEW th \in Thread, TypeOK, CliStep(th)
    PROVE  TypeOK'
<1> USE DEF TypeOK, LedgerTypeOK, FlagsTypeOK, NativeTypeOK, PumpTypeOK, OwnerTypeOK,
            LaneTypeOK, GhostTypeOK, ledger, flags, native, actors, ghosts
<1>1. cli[th].pc # "none" => cli[th].turn \in Turn
  BY DEF CliTypeOK
<1>2. ASSUME CliAcquire(th) PROVE TypeOK'
  BY <1>2, CliGoesType DEF CliAcquire, CliPcs
<1>3. ASSUME CliCancelledWaiting(th) PROVE TypeOK'
  BY <1>3, CliEndsType DEF CliCancelledWaiting, Terminal
<1>4. ASSUME CliRun(th) PROVE TypeOK'
  <2>1. CliTypeOK'
    BY <1>4, CliGoesType, CliEndsType DEF CliRun, CliPcs, Terminal
  <2>2. state' \in [Turn -> TurnStates]
    BY <1>1, <1>4 DEF CliRun, RunTurn, TurnStates
  <2> QED BY <1>4, <2>1, <2>2 DEF CliRun
<1>5. ASSUME CliBind(th) PROVE TypeOK'
  <2>1. CliTypeOK'
    BY <1>5, CliGoesType, CliEndsType DEF CliBind, CliPcs, Terminal
  <2>2. bound' \subseteq Turn
    BY <1>1, <1>5 DEF CliBind, Bind
  <2> QED BY <1>5, <2>1, <2>2 DEF CliBind
<1>6. ASSUME NEW o \in Terminal, CliDriven(th, o) PROVE TypeOK'
  <2>1. CliTypeOK'
    BY <1>6, CliEndsType DEF CliDriven
  <2> QED BY <1>6, <2>1 DEF CliDriven, Revoked
<1>7. ASSUME CliComplete(th) PROVE TypeOK'
  <2>1. CliTypeOK'
    BY <1>7, CliGoesType DEF CliComplete, CliPcs
  <2>2. LedgerTypeOK'
    BY <1>1, <1>7, CompleteType DEF CliComplete, Complete, CliTypeOK
  <2> QED BY <1>7, <2>1, <2>2 DEF CliComplete
<1>8. ASSUME CliRemove(th) PROVE TypeOK'
  <2>1. CliTypeOK'
    BY <1>8 DEF CliRemove, CliTypeOK, NoCli, CliPcs
  <2> QED BY <1>8, <2>1 DEF CliRemove
<1> QED BY <1>2, <1>3, <1>4, <1>5, <1>6, <1>7, <1>8 DEF CliStep

LEMMA TypeLane ==
    ASSUME NEW th \in Thread, TypeOK, LaneStep(th)
    PROVE  TypeOK'
<1> USE DEF TypeOK, LedgerTypeOK, FlagsTypeOK, NativeTypeOK, PumpTypeOK, OwnerTypeOK,
            CliTypeOK, GhostTypeOK, ledger, flags, native, actors, ghosts
<1>1. anchor \in [Thread -> Turn \cup {None}]
  BY DEF LaneTypeOK
<1>2. Reconciled(th) \in [Turn -> {"absent", "pending", "done"}]
  BY ReconciledType
<1>3. ASSUME LaneRests(th), UNCHANGED anchor PROVE LaneTypeOK'
  BY <1>1, <1>3, LaneGoesType DEF LaneRests, LanePcs
<1>4. ASSUME LaneBegin(th) PROVE TypeOK'
  <2>1. LaneTypeOK'
    BY <1>1, <1>4, LaneGoesType DEF LaneBegin, LanePcs
  <2> QED BY <1>4, <2>1 DEF LaneBegin
<1>5. ASSUME NEW t \in Turn, LaneDiscard(th, t) PROVE TypeOK'
  <2>1. LaneTypeOK'
    BY <1>5 DEF LaneDiscard, Admitting, LaneTypeOK
  <2> QED BY <1>2, <1>5, <2>1, WithdrawnType DEF LaneDiscard
<1>6. ASSUME NEW t \in Turn, LanePick(th, t) PROVE TypeOK'
  <2>1. LaneTypeOK'
    BY <1>1, <1>6, LaneGoesType DEF LanePick, LanePcs
  <2>2. lash' \in [Turn -> {"absent", "pending", "done"}]
    BY <1>2, <1>6 DEF LanePick
  <2> QED BY <1>6, <2>1, <2>2 DEF LanePick
<1>7. ASSUME NEW b \in Turn, LaneBackground(th, b) PROVE TypeOK'
  <2>1. LaneTypeOK'
    BY <1>1, <1>7, LaneGoesType DEF LaneBackground, LanePcs
  <2>2. state' \in [Turn -> TurnStates]
    BY <1>7 DEF LaneBackground, TurnStates
  <2> QED BY <1>2, <1>7, <2>1, <2>2 DEF LaneBackground, Activating
<1>8. ASSUME LaneResume(th) PROVE TypeOK'
  <2>1. LaneTypeOK'
    BY <1>1, <1>8, LaneGoesType DEF LaneResume, LanePcs
  <2> QED BY <1>2, <1>8, <2>1 DEF LaneResume, Activating
<1>9. ASSUME LaneRest(th) PROVE TypeOK'
  BY <1>2, <1>3, <1>9 DEF LaneRest, Activating
<1>10. lane[th].pc \in {"run", "bind"} => lane[th].turn \in Turn
  BY DEF LaneTypeOK
<1>11. ASSUME LaneRun(th) PROVE TypeOK'
  <2>1. LaneTypeOK'
    BY <1>1, <1>3, <1>10, <1>11, LaneGoesType DEF LaneRun, LanePcs
  <2>2. state' \in [Turn -> TurnStates]
    BY <1>10, <1>11 DEF LaneRun, RunTurn, TurnStates
  <2> QED BY <1>11, <2>1, <2>2 DEF LaneRun
<1>12. ASSUME LaneBind(th) PROVE TypeOK'
  <2>1. bound' \subseteq Turn
    BY <1>10, <1>12 DEF LaneBind, Bind
  <2>2. CASE CanBind(lane[th].turn)
    <3>1. LaneGoes(th, "drain", lane[th].turn)
          /\ anchor' = [anchor EXCEPT ![th] = lane[th].turn]
      BY <1>12, <2>2 DEF LaneBind
    <3>2. LaneTypeOK'
      BY <1>1, <1>10, <1>12, <3>1, LaneGoesType DEF LaneBind, LanePcs
    <3> QED BY <1>12, <2>1, <3>2 DEF LaneBind
  <2>3. CASE ~CanBind(lane[th].turn)
    BY <1>3, <1>12, <2>1, <2>3 DEF LaneBind
  <2> QED BY <2>2, <2>3
<1>13. ASSUME NEW o \in Terminal, LaneDrained(th, o) PROVE TypeOK'
  <2>1. LaneTypeOK'
    BY <1>13, LaneSettlesType DEF LaneDrained
  <2>2. lash' \in [Turn -> {"absent", "pending", "done"}]
    BY <1>13 DEF LaneDrained
  <2> QED BY <1>13, <2>1, <2>2 DEF LaneDrained
<1>14. ASSUME LaneDrainError(th) PROVE TypeOK'
  <2>1. LaneTypeOK'
    BY <1>14, LaneSettlesType DEF LaneDrainError, Terminal
  <2> QED BY <1>14, <2>1, SpendType DEF LaneDrainError, Events
<1>15. ASSUME LaneEmpty(th) PROVE TypeOK'
  BY <1>3, <1>15, SpendType DEF LaneEmpty, Events
<1>16. ASSUME LaneSettle(th) PROVE TypeOK'
  <2>1. anchor[th] \in Turn /\ lane[th].outcome \in Terminal
    BY <1>16 DEF LaneSettle, LaneTypeOK
  <2>2. LaneTypeOK'
    BY <1>1, <1>16, LaneGoesType DEF LaneSettle, LaneRests, LanePcs
  <2>3. LedgerTypeOK'
    BY <1>16, <2>1, CompleteType DEF LaneSettle
  <2> QED BY <1>16, <2>1, <2>2, <2>3, WithdrawnType DEF LaneSettle
<1>17. ASSUME LaneHalt(th) PROVE TypeOK'
  <2>1. LaneTypeOK'
    BY <1>1, <1>17, LaneGoesType DEF LaneHalt, LanePcs
  <2> QED BY <1>17, <2>1, SpendType DEF LaneHalt, Events
<1> QED
  BY <1>4, <1>5, <1>6, <1>7, <1>8, <1>9, <1>11, <1>12, <1>13, <1>14, <1>15, <1>16, <1>17
  DEF LaneStep, LaneAdmit

LEMMA TypeNext == TypeOK /\ [Next]_vars => TypeOK'
<1>1. TypeOK /\ UNCHANGED vars => TypeOK'
  BY DEF TypeOK, LedgerTypeOK, FlagsTypeOK, NativeTypeOK, PumpTypeOK, OwnerTypeOK,
         CliTypeOK, LaneTypeOK, GhostTypeOK, vars, ledger, flags, native, actors, ghosts
<1> QED
  BY <1>1, TypeEnvironment, TypePump, TypeOwner, TypeCli, TypeLane DEF Next

\* Whatever the interleaving, every variable keeps its type and an actor at
\* work always has the turn, Thread and outcome that its next step reads.
THEOREM TypeCorrect == Spec => []TypeOK
BY TypeInit, TypeNext, PTL DEF Spec

-----------------------------------------------------------------------------
(* What a step may do to the ledger *)

\* ReportedOnce and AcceptedIsHeld are inductive together with two facts: a
\* request row is never there before its turn, and the removal of a queued
\* message reaches its last part only with the turn ended.
RowsHaveTurns == \A t \in requests : state[t] # "none"
DroppedEnded == drop.pc = "clean" => state[drop.turn] \in Terminal
LedgerInv == /\ TypeOK /\ ReportedOnce /\ AcceptedIsHeld
             /\ RowsHaveTurns /\ DroppedEnded

\* The moves of the turn table and its ids ...
Accepts(t) == /\ state[t] = "none" /\ KindOf[t] # "report"
              /\ state' = [state EXCEPT ![t] = "queued"]
              /\ order' = [order EXCEPT ![t] = clock + 1] /\ clock' = clock + 1
Starts(t) == /\ RunningIn(ThreadOf[t]) = {}
             /\ \/ state[t] = "queued"
                \/ state[t] = "none" /\ KindOf[t] = "background"
             /\ state' = [state EXCEPT ![t] = "running"]
             /\ UNCHANGED <<order, clock>>
Ends(S, outcome) == /\ \A t \in S : Open(t)
                    /\ outcome = "interrupted" \/ \A t, u \in S : t = u
                    /\ Finish(S, outcome)
Moves == \/ UNCHANGED <<state, order, clock>>
         \/ \E t \in Turn : Accepts(t) \/ Starts(t)
         \/ \E S \in SUBSET Turn, outcome \in Terminal : Ends(S, outcome)

\* ... the request rows that go with them, and the Owner's removal.
RowsFollow ==
    /\ \A t \in Turn : state[t] = "none" /\ state'[t] = "queued" => t \in requests'
    /\ \A t \in requests' \ requests : state'[t] # "none"
    /\ \A t \in requests \ requests' : state'[t] \in Terminal
DropFollows == drop' = drop \/ drop'.pc # "clean" \/ state'[drop'.turn] \in Terminal

LEMMA EndsEffect ==
    ASSUME LedgerInv, NEW S \in SUBSET Turn, NEW outcome \in Terminal, Ends(S, outcome)
    PROVE  /\ \A t \in S : state'[t] = outcome
           /\ \A t \in Reports(S) : t \notin S /\ state[t] = "none" /\ state'[t] = "queued"
           /\ \A t \in Turn \ (S \cup Reports(S)) : state'[t] = state[t]
<1>1. \A t \in Reports(S) : state[t] = "none"
  BY ReportAssumption
  DEF LedgerInv, ReportedOnce, Reports, Ends, Open, OpenStates, Terminal
<1>2. \A t \in S : state[t] # "none"
  BY DEF Ends, Open, OpenStates
<1> QED BY <1>1, <1>2, ReportsType DEF Ends, Finish

LEMMA CompleteMoves ==
    ASSUME LedgerInv, NEW t \in Turn, NEW outcome \in Terminal, NEW rows \in SUBSET {t},
           CompleteRemoving(t, outcome, rows)
    PROVE  Moves /\ RowsFollow
<1> DEFINE S == IfOpen(t)
<1>1. S \in SUBSET Turn /\ Ends(S, outcome)
  BY DEF IfOpen, Ends, CompleteRemoving
<1>2. requests' = (requests \ (S \cup rows)) \cup Reports(S)
  BY DEF CompleteRemoving
<1>3. \A u \in requests \ requests' : state'[u] \in Terminal
  <2> SUFFICES ASSUME NEW u \in requests \ requests' PROVE state'[u] \in Terminal
    OBVIOUS
  <2>1. u = t /\ u \notin Reports(S)
    BY <1>2 DEF IfOpen
  <2>2. CASE u \in S
    BY <1>1, <2>2, EndsEffect
  <2>3. CASE u \notin S
    <3>1. state[u] \in Terminal
      BY <2>1, <2>3 DEF IfOpen, Open, LedgerInv, TypeOK, LedgerTypeOK, TurnStates,
                        OpenStates, Terminal, RowsHaveTurns
    <3>2. state'[u] = state[u]
      BY <1>1, <2>1, <2>3, EndsEffect
    <3> QED BY <3>1, <3>2
  <2> QED BY <2>2, <2>3
<1>4. \A u \in requests' \ requests : state'[u] # "none"
  BY <1>1, <1>2, EndsEffect
<1>5. ASSUME NEW u \in Turn, state[u] = "none", state'[u] = "queued"
      PROVE  u \in requests'
  BY <1>1, <1>2, <1>5, EndsEffect DEF Terminal
<1> HIDE DEF S
<1> QED BY <1>1, <1>3, <1>4, <1>5 DEF Moves, RowsFollow

LEMMA AcceptedMoves ==
    ASSUME LedgerInv, NEW t \in Turn, KindOf[t] # "report", Accepted(t)
    PROVE  Moves /\ RowsFollow
BY DEF LedgerInv, TypeOK, LedgerTypeOK, Accepted, Moves, Accepts, RowsFollow

LEMMA RunMoves ==
    ASSUME LedgerInv, NEW t \in Turn, CanRun(t), RunTurn(t),
           UNCHANGED <<requests, order, clock>>
    PROVE  Moves /\ RowsFollow
<1>1. CASE state[t] = "queued"
  BY <1>1 DEF LedgerInv, TypeOK, LedgerTypeOK, CanRun, RunTurn, Moves, Starts, RowsFollow
<1>2. CASE state[t] # "queued"
  BY <1>2 DEF LedgerInv, TypeOK, LedgerTypeOK, RunTurn, Moves, RowsFollow
<1> QED BY <1>1, <1>2

LEMMA StillMoves ==
    ASSUME LedgerInv, UNCHANGED <<state, order, clock>>, requests' \subseteq requests,
           \A t \in requests \ requests' : state[t] \in Terminal
    PROVE  Moves /\ RowsFollow
BY DEF Moves, RowsFollow

LEMMA CancelOwnedMoves ==
    ASSUME LedgerInv, NEW th \in Thread, CancelOwned(th)
    PROVE  Moves /\ RowsFollow
<1>1. CASE UNCHANGED ledger
  BY <1>1, StillMoves DEF ledger
<1>2. CASE /\ OwnsTurn(th)
           /\ CompleteRemoving(anchor[th], "cancelled", {anchor[th]})
  <2>1. anchor[th] \in Turn
    BY <1>2 DEF OwnsTurn, LedgerInv, TypeOK, LaneTypeOK
  <2> QED BY <1>2, <2>1, CompleteMoves DEF Terminal
<1> QED BY <1>1, <1>2 DEF CancelOwned

LEMMA NextMoves == LedgerInv /\ [Next]_vars => Moves /\ RowsFollow /\ DropFollows
<1> SUFFICES ASSUME LedgerInv, [Next]_vars PROVE Moves /\ RowsFollow /\ DropFollows
  OBVIOUS
<1> USE DEF ledger, flags, native, actors, ghosts, DropFollows
<1>1. TypeOK /\ \A t \in Turn : ThreadOf[t] \in Thread
  BY TreeAssumption DEF LedgerInv
<1>2. CASE Environment
  <2>1. ASSUME NEW t \in Turn, AcceptOwner(t) \/ AcceptWake(t)
        PROVE  Moves /\ RowsFollow /\ DropFollows
    BY <2>1, AcceptedMoves DEF AcceptOwner, AcceptWake
  <2>2. ASSUME NEW a \in Turn, NEW t \in Turn, Delegate(a, t)
        PROVE  Moves /\ RowsFollow /\ DropFollows
    BY <2>2, AcceptedMoves DEF Delegate
  <2>3. ASSUME NEW t \in Turn, DropBegin(t) PROVE Moves /\ RowsFollow /\ DropFollows
    BY <2>3, StillMoves DEF DropBegin
  <2>4. CASE CrashRestart
    <3> DEFINE cut == {t \in Turn : state[t] = "running"}
    <3>1. cut \in SUBSET Turn /\ Ends(cut, "interrupted") /\ "interrupted" \in Terminal
      BY <2>4 DEF CrashRestart, Interrupt, Ends, Open, OpenStates, Terminal
    <3>2. requests' = (requests \ cut) \cup Reports(cut) /\ drop' = NoDrop
      BY <2>4 DEF CrashRestart, Interrupt
    <3>3. RowsFollow
      BY <3>1, <3>2, EndsEffect DEF RowsFollow, Terminal
    <3> QED BY <3>1, <3>2, <3>3 DEF Moves, NoDrop
  <2>5. CASE \/ \E th \in Thread, keep \in Turn \cup {None} : Archive(th, keep)
             \/ \E th \in Thread : \/ Unarchive(th) \/ Snooze(th) \/ SnoozeEnds(th)
                                   \/ QueueCommand(th) \/ StopBegin(th)
             \/ \E a \in Turn, th \in Thread : AgentCancel(a, th)
    BY <2>5, StillMoves
    DEF Archive, Unarchive, Snooze, SnoozeEnds, QueueCommand, StopBegin, AgentCancel
  <2> QED BY <1>2, <2>1, <2>2, <2>3, <2>4, <2>5
          DEF Environment, OwnerArchive, AgentArchive
<1>3. CASE PumpStep \/ PumpIdle
  <2>1. ASSUME NEW t \in Turn, PumpCancelQueued(t) \/ PumpLaneUnavailable(t)
        PROVE  Moves /\ RowsFollow /\ DropFollows
    BY <2>1, CompleteMoves DEF PumpCancelQueued, PumpLaneUnavailable, Complete, Terminal
  <2>2. ASSUME NEW t \in Turn, PumpCancelLane(t) PROVE Moves /\ RowsFollow /\ DropFollows
    BY <1>1, <2>2, CancelOwnedMoves DEF PumpCancelLane
  <2>3. ASSUME NEW t \in Turn, PumpSkipCli(t) PROVE Moves /\ RowsFollow /\ DropFollows
    BY <2>3, StillMoves DEF PumpSkipCli, Retired
  <2>4. CASE \/ PumpBegin \/ PumpIdle \/ PumpSnapshot
             \/ \E t \in Turn : \/ PumpCancelCli(t) \/ PumpSkipBusy(t)
                                \/ PumpSpawnCli(t) \/ PumpNotifyLane(t)
    BY <2>4, StillMoves
    DEF PumpBegin, PumpIdle, PumpSnapshot, PumpCancelCli, PumpSkipBusy, PumpSpawnCli,
        PumpNotifyLane, vars
  <2> QED BY <1>3, <2>1, <2>2, <2>3, <2>4 DEF PumpStep
<1>4. CASE OwnerStep
  <2>1. drop.pc # "idle" => drop.turn \in Turn
    BY <1>1 DEF TypeOK, OwnerTypeOK
  <2>2. CASE StopDeliver
    BY <1>1, <2>2, StillMoves, CancelOwnedMoves DEF StopDeliver, TypeOK, OwnerTypeOK
  <2>3. CASE DropCli
    BY <2>1, <2>3, CompleteMoves DEF DropCli, Complete, Terminal, NoDrop
  <2>4. CASE DropClaimed
    BY <2>4, StillMoves DEF DropClaimed, NoDrop
  <2>5. CASE DropFinish
    <3> DEFINE t == drop.turn
    <3>1. IfOpen(t) \in SUBSET Turn /\ Ends(IfOpen(t), "cancelled") /\ "cancelled" \in Terminal
      BY <2>1, <2>5 DEF DropFinish, IfOpen, Ends, Terminal
    <3>2. requests' = requests \cup Reports(IfOpen(t))
      BY <2>5 DEF DropFinish
    <3>3. RowsFollow
      BY <3>1, <3>2, EndsEffect DEF RowsFollow
    <3>4. t \in Turn /\ t \in requests /\ drop'.turn = t
      BY <1>1, <2>1, <2>5 DEF DropFinish, Claimed, TypeOK, OwnerTypeOK
    <3>5. state'[t] \in Terminal
      <4>1. CASE Open(t)
        <5>1. t \in IfOpen(t)
          BY <4>1 DEF IfOpen
        <5> QED BY <3>1, <5>1, EndsEffect
      <4>2. CASE ~Open(t)
        <5>1. state[t] \in Terminal
          BY <1>1, <3>4, <4>2 DEF LedgerInv, RowsHaveTurns, Open, TypeOK, LedgerTypeOK,
                                  TurnStates, OpenStates, Terminal
        <5>2. state'[t] = state[t]
          <6>1. t \notin IfOpen(t) /\ t \notin Reports(IfOpen(t))
            BY <4>2 DEF IfOpen, Reports
          <6> QED BY <3>1, <3>4, <6>1, EndsEffect
        <5> QED BY <5>1, <5>2
      <4> QED BY <4>1, <4>2
    <3> HIDE DEF t
    <3> QED BY <3>1, <3>3, <3>4, <3>5 DEF Moves
  <2>6. CASE DropClean
    BY <2>6, StillMoves DEF DropClean, NoDrop, LedgerInv, DroppedEnded
  <2> QED BY <1>4, <2>2, <2>3, <2>4, <2>5, <2>6 DEF OwnerStep
<1>5. ASSUME NEW th \in Thread, CliStep(th) PROVE Moves /\ RowsFollow /\ DropFollows
  <2>1. /\ cli[th].pc # "none" => cli[th].turn \in Turn
        /\ cli[th].pc = "done" => cli[th].outcome \in Terminal
    BY <1>1 DEF TypeOK, CliTypeOK
  <2>2. CASE CliRun(th)
    BY <2>1, <2>2, RunMoves, StillMoves DEF CliRun
  <2>3. CASE CliComplete(th)
    BY <2>1, <2>3, CompleteMoves DEF CliComplete, Complete
  <2>4. CASE \/ CliAcquire(th) \/ CliCancelledWaiting(th) \/ CliBind(th) \/ CliRemove(th)
             \/ \E o \in Terminal : CliDriven(th, o)
    BY <2>4, StillMoves DEF CliAcquire, CliCancelledWaiting, CliBind, CliRemove, CliDriven
  <2> QED BY <1>5, <2>2, <2>3, <2>4 DEF CliStep
<1>6. ASSUME NEW th \in Thread, LaneStep(th) PROVE Moves /\ RowsFollow /\ DropFollows
  <2>1. /\ lane[th].pc = "run" => lane[th].turn \in Turn
        /\ lane[th].pc = "settle" => anchor[th] \in Turn /\ lane[th].outcome \in Terminal
    BY <1>1 DEF TypeOK, LaneTypeOK
  <2>2. ASSUME NEW t \in Turn, LaneDiscard(th, t) PROVE Moves /\ RowsFollow /\ DropFollows
    BY <2>2, StillMoves DEF LaneDiscard
  <2>3. ASSUME NEW b \in Turn, LaneBackground(th, b)
        PROVE  Moves /\ RowsFollow /\ DropFollows
    <3>1. Starts(b) /\ UNCHANGED requests /\ drop' = drop
      BY <2>3 DEF LaneBackground, Starts
    <3>2. \A t \in Turn : state'[t] = "queued" => state[t] = "queued"
      BY <1>1, <3>1 DEF Starts, TypeOK, LedgerTypeOK
    <3> QED BY <3>1, <3>2 DEF Moves, RowsFollow
  <2>4. CASE LaneRun(th)
    BY <2>1, <2>4, RunMoves, StillMoves DEF LaneRun
  <2>5. CASE LaneSettle(th)
    BY <2>1, <2>5, CompleteMoves DEF LaneSettle
  <2>6. CASE \/ LaneBegin(th) \/ \E t \in Turn : LanePick(th, t)
             \/ LaneResume(th) \/ LaneRest(th) \/ LaneBind(th) \/ LaneDrainError(th)
             \/ \E o \in Terminal : LaneDrained(th, o)
             \/ LaneEmpty(th) \/ LaneHalt(th)
    BY <2>6, StillMoves
    DEF LaneBegin, LanePick, LaneResume, LaneRest, LaneBind, LaneDrainError, LaneDrained,
        LaneEmpty, LaneHalt
  <2> QED BY <1>6, <2>2, <2>3, <2>4, <2>5, <2>6 DEF LaneStep, LaneAdmit
<1>7. CASE UNCHANGED vars
  BY <1>7, StillMoves DEF vars
<1> QED BY <1>2, <1>3, <1>4, <1>5, <1>6, <1>7 DEF Next

-----------------------------------------------------------------------------
(* The ledger invariant *)

LEMMA MovesKeep ==
    ASSUME LedgerInv, Moves, RowsFollow, DropFollows, TypeOK'
    PROVE  LedgerInv'
<1>1. ASSUME NEW t \in Turn
      PROVE  /\ state[t] \in Terminal => state'[t] = state[t]
             /\ state[t] # "none" => state'[t] # "none"
  <2>1. CASE UNCHANGED state
    BY <2>1
  <2>2. CASE \E u \in Turn : Accepts(u) \/ Starts(u)
    BY <2>2 DEF Accepts, Starts, LedgerInv, TypeOK, LedgerTypeOK, Terminal
  <2>3. CASE \E S \in SUBSET Turn, outcome \in Terminal : Ends(S, outcome)
    BY <2>3, EndsEffect DEF Ends, Open, OpenStates, Terminal
  <2> QED BY <2>1, <2>2, <2>3 DEF Moves
<1>2. ReportedOnce'
  <2>1. CASE UNCHANGED state
    BY <2>1 DEF LedgerInv, ReportedOnce
  <2>2. ASSUME NEW u \in Turn, Accepts(u) \/ Starts(u) PROVE ReportedOnce'
    BY <2>2, ReportAssumption
    DEF Accepts, Starts, LedgerInv, TypeOK, LedgerTypeOK, ReportedOnce, Terminal
  <2>3. ASSUME NEW S \in SUBSET Turn, NEW outcome \in Terminal, Ends(S, outcome)
        PROVE  ReportedOnce'
    <3> SUFFICES ASSUME NEW t \in Turn, ReportOf[t] # None
                 PROVE  state'[t] \in Terminal <=> state'[ReportOf[t]] # "none"
      BY DEF ReportedOnce
    <3>1. ReportOf[t] \in Turn
      BY ReportAssumption
    <3>2. CASE t \in S
      <4>1. ReportOf[t] \in Reports(S)
        BY <3>2 DEF Reports
      <4>2. state'[t] = outcome /\ state'[ReportOf[t]] = "queued"
        BY <2>3, <3>2, <4>1, EndsEffect
      <4> QED BY <4>2
    <3>3. CASE t \notin S
      <4>1. ReportOf[t] \notin Reports(S)
        BY <3>3, ReportAssumption DEF Reports
      <4>2. state'[ReportOf[t]] # "none" <=> state[ReportOf[t]] # "none"
        BY <2>3, <3>1, <4>1, EndsEffect DEF Ends, Open, OpenStates, Terminal
      <4>3. state'[t] \in Terminal <=> state[t] \in Terminal
        BY <2>3, <3>3, EndsEffect DEF Terminal
      <4> QED BY <4>2, <4>3 DEF LedgerInv, ReportedOnce
    <3> QED BY <3>2, <3>3
  <2> QED BY <2>1, <2>2, <2>3 DEF Moves
<1>3. AcceptedIsHeld'
  <2> SUFFICES ASSUME NEW t \in Turn, Open(t)', KindOf[t] # "background"
               PROVE  t \in requests'
    BY DEF AcceptedIsHeld
  <2>1. state'[t] \in {"queued", "running"} /\ state'[t] \notin Terminal
    BY DEF Open, OpenStates, Terminal
  <2>2. CASE state[t] = "none"
    <3>1. state'[t] = "queued"
      <4>1. CASE \E u \in Turn : Accepts(u) \/ Starts(u)
        BY <2>1, <2>2, <4>1 DEF Accepts, Starts, LedgerInv, TypeOK, LedgerTypeOK
      <4>2. CASE \E S \in SUBSET Turn, outcome \in Terminal : Ends(S, outcome)
        BY <2>1, <2>2, <4>2, EndsEffect
      <4> QED BY <2>1, <2>2, <4>1, <4>2 DEF Moves
    <3> QED BY <2>2, <3>1 DEF RowsFollow
  <2>3. CASE state[t] # "none"
    <3>1. t \in requests
      BY <1>1, <2>1, <2>3
      DEF LedgerInv, AcceptedIsHeld, Open, OpenStates, TypeOK, LedgerTypeOK, TurnStates, Terminal
    <3> QED BY <2>1, <3>1 DEF RowsFollow
  <2> QED BY <2>2, <2>3
<1>4. RowsHaveTurns'
  BY <1>1 DEF RowsFollow, RowsHaveTurns, LedgerInv, TypeOK, LedgerTypeOK
<1>5. DroppedEnded'
  BY <1>1 DEF DropFollows, DroppedEnded, LedgerInv, TypeOK, OwnerTypeOK
<1> QED BY <1>2, <1>3, <1>4, <1>5 DEF LedgerInv

LEMMA LedgerInductive == Spec => []LedgerInv
<1>1. Init => LedgerInv
  BY TypeInit, ReportAssumption
  DEF Init, LedgerInv, ReportedOnce, AcceptedIsHeld, Open, OpenStates, Terminal,
      RowsHaveTurns, DroppedEnded, NoDrop
<1>2. LedgerInv /\ [Next]_vars => LedgerInv'
  BY TypeNext, NextMoves, MovesKeep DEF LedgerInv
<1> QED BY <1>1, <1>2, PTL DEF Spec

\* A requester has exactly one report of a turn once it ended and none before,
\* whichever of poller, Owner, executor or restart ended it first.
THEOREM ReportExactlyOnce == Spec => []ReportedOnce
BY LedgerInductive, PTL DEF LedgerInv

\* No accepted turn is lost: while it is open its request row is there.
THEOREM NoAcceptedTurnLost == Spec => []AcceptedIsHeld
BY LedgerInductive, PTL DEF LedgerInv

-----------------------------------------------------------------------------
(* ThreadTurns implements TurnLedger *)

LEMMA MovesRefine == LedgerInv /\ Moves => [Ledger!Next]_state
<1> SUFFICES ASSUME LedgerInv, Moves PROVE [Ledger!Next]_state
  OBVIOUS
<1>1. CASE UNCHANGED state
  BY <1>1
<1>2. ASSUME NEW t \in Turn, Accepts(t) PROVE Ledger!Next
  BY <1>2 DEF Accepts, Ledger!Next, Ledger!Accept
<1>3. ASSUME NEW t \in Turn, Starts(t) PROVE Ledger!Next
  BY <1>3 DEF Starts, RunningIn, TurnsOf, Ledger!Next, Ledger!Begin,
              Ledger!BeginUnaddressed, Ledger!Idle
<1>4. ASSUME NEW S \in SUBSET Turn, NEW outcome \in Terminal, Ends(S, outcome)
      PROVE  Ledger!Next
  <2>1. Ledger!End(S, outcome)
    <3>1. Ledger!ReportsOf(S) = Reports(S)
      BY DEF Ledger!ReportsOf, Reports
    <3>2. \A t \in S : state[t] \in Ledger!OpenStates
      BY <1>4 DEF Ends, Open, OpenStates, Ledger!OpenStates
    <3>3. \A r \in Reports(S) : state[r] = "none"
      BY <1>4, EndsEffect
    <3>4. state' = [t \in Turn |-> IF t \in S THEN outcome
                                  ELSE IF t \in Reports(S) THEN "queued"
                                  ELSE state[t]]
      BY <1>4 DEF Ends, Finish
    <3> QED BY <1>4, <3>1, <3>2, <3>3, <3>4 DEF Ends, Ledger!End
  <2> QED BY <2>1 DEF Ledger!Next, Ledger!Terminal, Terminal
<1> QED BY <1>1, <1>2, <1>3, <1>4 DEF Moves

\* Every behaviour of poller, lanes, CLI work, Owner and restarts is, for a
\* reader of the turn table, a behaviour of the abstract ledger: one running
\* turn per Thread, terminal states final, every end reported in the same step.
THEOREM ImplementsLedger == Spec => LedgerSpec
<1>1. Init => Ledger!Init
  BY DEF Init, Ledger!Init
<1>2. LedgerInv /\ [Next]_vars => [Ledger!Next]_state
  BY NextMoves, MovesRefine
<1> QED BY <1>1, <1>2, LedgerInductive, PTL DEF Spec, LedgerSpec, Ledger!Spec

-----------------------------------------------------------------------------
(* What a step may do to the record of each actor *)

\* CLI work of a Thread: it starts with the first request of the poller's
\* snapshot, keeps its turn and its token to the end, and drives only a turn
\* that ran when it was bound.
CliFollows(th) ==
    \/ cli'[th].pc = "none"
    \/ /\ cli[th].pc # "none" /\ cli'[th].turn = cli[th].turn
       /\ cli[th].token => cli'[th].token
       /\ \/ cli'[th].pc = cli[th].pc
          \/ cli[th].pc = "wait" /\ cli'[th].pc = "ready"
          \/ cli'[th].pc \in {"bind", "done", "remove"}
          \/ cli[th].pc = "bind" /\ cli'[th].pc = "drive"
             /\ state[cli[th].turn] = "running" /\ UNCHANGED state
    \/ \E t \in Turn :
          /\ Next1(t) /\ ~CliSkips(t) /\ ~Blocked(t) /\ ExecOf[t] = "cli"
          /\ ThreadOf[t] = th /\ UNCHANGED <<state, drop>>
          /\ cli'[th] = [NoCli EXCEPT !.pc = "wait", !.turn = t]

\* A lane and its anchor: admission takes the first pending request, and a
\* drain begins with a running, unmarked turn as its anchor.
LaneFollows(th) ==
    \/ /\ lane'[th].pc = lane[th].pc /\ lane'[th].turn = lane[th].turn
       /\ \/ anchor'[th] = anchor[th]
          \/ anchor'[th] = None /\ lane[th].pc # "drain"
    \/ /\ lane'[th].pc \in {"idle", "admit", "settle", "stopped"}
       /\ anchor'[th] \in {anchor[th], None}
       /\ lane'[th].pc # "idle" => th \in opened
    \/ /\ lane[th].pc = "admit" /\ lane'[th].pc = "run" /\ anchor'[th] = anchor[th]
       /\ lane'[th].turn \in FirstOf(PendingOf(th)) /\ ExecOf[lane'[th].turn] = "native"
       /\ Open(lane'[th].turn) /\ UNCHANGED ledger
    \/ /\ lane'[th].pc = "bind" /\ anchor'[th] = anchor[th]
       /\ \/ lane[th].pc = "run" /\ lane'[th].turn = lane[th].turn
          \/ lane[th].pc = "admit" /\ lane'[th].turn = anchor[th] /\ anchor[th] # None
          \/ lane[th].pc = "admit" /\ ThreadOf[lane'[th].turn] = th
             /\ KindOf[lane'[th].turn] = "background" /\ lane'[th].turn \in Turn
    \/ /\ lane[th].pc = "bind" /\ lane'[th].pc = "drain"
       /\ anchor'[th] = lane[th].turn /\ CanBind(lane[th].turn)
       /\ UNCHANGED <<state, pump>>

\* The poller: its lists of a pass only get shorter, one request per Thread.
PumpFollows ==
    \/ pump' = pump \/ pump' = NoPump
    \/ /\ AdmissionFree
       /\ pump' = [NoPump EXCEPT !.pc = "cancels", !.queued = Marked("queued"),
                                 !.running = Marked("running")]
       /\ UNCHANGED <<state, cancelReq, lane, anchor, stop, drop>>
    \/ AdmissionFree /\ pump' = Snapshot /\ UNCHANGED <<ledger, stop, drop>>
    \/ pump.pc = "cancels" /\ pump' = Snapshot /\ UNCHANGED <<ledger, stop, drop>>
    \/ /\ pump.pc = "cancels" /\ UNCHANGED <<stop, drop>>
       /\ pump'.pc = "cancels" /\ pump'.queued \subseteq pump.queued
       /\ pump'.batch = pump.batch /\ pump'.seen = pump.seen
    \/ /\ pump.pc = "requests" /\ UNCHANGED <<stop, drop>>
       /\ pump'.pc = "requests" /\ pump'.queued = pump.queued
       /\ \E t \in pump.batch :
             /\ pump'.batch = pump.batch \ {t}
             /\ \/ pump'.seen = pump.seen /\ state[t] # "queued"
                \/ pump'.seen = pump.seen \cup {ThreadOf[t]}

\* Stop and the removal of a queued message.
OwnerFollows ==
    \/ UNCHANGED <<stop, drop>>
    \/ stop' = NoStop /\ drop' = NoDrop /\ pump' = NoPump
    \/ AdmissionFree /\ drop' = drop /\ pump' = pump
    \/ /\ AdmissionFree /\ stop' = stop /\ pump' = pump
       /\ drop'.pc = "act" /\ drop'.turn \in Turn
       /\ LET th == ThreadOf[drop'.turn]
          IN  cli[th].turn = drop'.turn => cli'[th].token
    \/ stop.pc = "deliver" /\ stop' = NoStop /\ drop' = drop /\ pump' = pump
    \/ /\ drop.pc # "idle" /\ stop' = stop /\ pump' = pump
       /\ drop'.pc \in {"idle", "clean"}

Grows == cancelReq \subseteq cancelReq' /\ opened \subseteq opened'

ActorsFollow ==
    /\ \A th \in Thread : CliFollows(th) /\ LaneFollows(th)
    /\ PumpFollows /\ OwnerFollows /\ Grows

LEMMA SignalEffect ==
    ASSUME TypeOK, NEW th \in Thread, Signal(th)
    PROVE  /\ cli'[th].token
           /\ \A d \in Thread : CliFollows(d)
<1>1. \A d \in Thread : /\ cli'[d].pc = cli[d].pc /\ cli'[d].turn = cli[d].turn
                        /\ cli[d].token => cli'[d].token
  BY DEF Signal, TypeOK, CliTypeOK
<1>2. cli'[th].token
  BY DEF Signal, TypeOK, CliTypeOK
<1> QED BY <1>1, <1>2 DEF CliFollows

LEMMA CliStill ==
    ASSUME UNCHANGED cli
    PROVE  \A th \in Thread : CliFollows(th)
BY DEF CliFollows

LEMMA LaneStill ==
    ASSUME UNCHANGED <<lane, anchor>>
    PROVE  \A th \in Thread : LaneFollows(th)
BY DEF LaneFollows

LEMMA LaneGoesEffect ==
    ASSUME TypeOK, NEW th \in Thread, NEW pc, NEW t, LaneGoes(th, pc, t)
    PROVE  /\ lane'[th].pc = pc /\ lane'[th].turn = t
           /\ \A d \in Thread \ {th} : lane'[d] = lane[d]
BY DEF LaneGoes, NoLane, TypeOK, LaneTypeOK

LEMMA CliGoesEffect ==
    ASSUME TypeOK, NEW th \in Thread
    PROVE  /\ \A pc : CliGoes(th, pc) =>
                 cli'[th].pc = pc /\ cli'[th].turn = cli[th].turn
                 /\ cli'[th].token = cli[th].token
           /\ \A o : CliEnds(th, o) =>
                 cli'[th].pc = "done" /\ cli'[th].turn = cli[th].turn
                 /\ cli'[th].token = cli[th].token
BY DEF CliGoes, CliEnds, TypeOK, CliTypeOK

LEMMA CancelOwnedFollows ==
    ASSUME TypeOK, NEW th \in Thread, CancelOwned(th)
    PROVE  (\A d \in Thread : LaneFollows(d)) /\ opened \subseteq opened'
<1>1. ASSUME NEW d \in Thread PROVE LaneFollows(d)
  <2>1. CASE lane[th].pc \in {"drain", "settle"} \/ ~OwnsTurn(th)
    <3>1. lane'[d].pc = lane[d].pc /\ lane'[d].turn = lane[d].turn /\ anchor'[d] = anchor[d]
      BY <2>1 DEF CancelOwned, TypeOK, LaneTypeOK
    <3> QED BY <3>1 DEF LaneFollows
  <2>2. CASE ~(lane[th].pc \in {"drain", "settle"} \/ ~OwnsTurn(th))
    <3>1. /\ lane'[d].pc = lane[d].pc /\ lane'[d].turn = lane[d].turn
          /\ anchor'[d] = anchor[d] \/ (anchor'[d] = None /\ lane[d].pc # "drain")
      BY <2>2 DEF CancelOwned, TypeOK, LaneTypeOK
    <3> QED BY <3>1 DEF LaneFollows
  <2> QED BY <2>1, <2>2
<1> QED BY <1>1 DEF CancelOwned

LEMMA EnvironmentFollows == TypeOK /\ Environment => ActorsFollow
<1> SUFFICES ASSUME TypeOK, Environment PROVE ActorsFollow
  OBVIOUS
<1> USE DEF ledger, flags, native, actors, ghosts, Grows
<1>1. ASSUME NEW t \in Turn, DropBegin(t) PROVE ActorsFollow
  <2>1. ThreadOf[t] \in Thread
    BY TreeAssumption
  <2>2. (\A d \in Thread : CliFollows(d))
        /\ (cli[ThreadOf[t]].turn = t => cli'[ThreadOf[t]].token)
    BY <1>1, <2>1, SignalEffect, CliStill DEF DropBegin
  <2>3. OwnerFollows
    BY <1>1, <2>2 DEF DropBegin, OwnerFollows
  <2> QED BY <1>1, <2>2, <2>3, LaneStill DEF DropBegin, ActorsFollow, PumpFollows
<1>2. ASSUME NEW th \in Thread, StopBegin(th) PROVE ActorsFollow
  BY <1>2, CliStill, LaneStill DEF StopBegin, ActorsFollow, PumpFollows, OwnerFollows
<1>3. CASE CrashRestart
  <2>1. \A th \in Thread : CliFollows(th) /\ LaneFollows(th)
    BY <1>3 DEF CrashRestart, CliFollows, LaneFollows, NoCli, NoLane
  <2> QED BY <1>3, <2>1 DEF CrashRestart, ActorsFollow, PumpFollows, OwnerFollows
<1>4. CASE \/ \E t \in Turn : AcceptOwner(t) \/ AcceptWake(t)
           \/ \E a, t \in Turn : Delegate(a, t)
           \/ \E th \in Thread, keep \in Turn \cup {None} : Archive(th, keep)
           \/ \E th \in Thread : \/ Unarchive(th) \/ Snooze(th) \/ SnoozeEnds(th)
                                 \/ QueueCommand(th)
           \/ \E a \in Turn, th \in Thread : AgentCancel(a, th)
  <2>1. UNCHANGED actors /\ Grows
    BY <1>4 DEF AcceptOwner, AcceptWake, Delegate, Archive, Unarchive, Snooze, SnoozeEnds,
                QueueCommand, AgentCancel
  <2> QED BY <2>1, CliStill, LaneStill DEF ActorsFollow, PumpFollows, OwnerFollows
<1> QED BY <1>1, <1>2, <1>3, <1>4 DEF Environment, OwnerArchive, AgentArchive

LEMMA PumpStepFollows == TypeOK /\ (PumpStep \/ PumpIdle) => ActorsFollow
<1> SUFFICES ASSUME TypeOK, PumpStep \/ PumpIdle PROVE ActorsFollow
  OBVIOUS
<1> USE DEF ledger, flags, native, actors, ghosts, Grows
<1>1. \A t \in Turn : ThreadOf[t] \in Thread
  BY TreeAssumption
<1>2. ASSUME NEW t \in Turn, Next1(t), UNCHANGED <<stop, drop>>,
             \/ pump' = Consumed(t) /\ state[t] # "queued"
             \/ pump' = ConsumedSeen(t)
      PROVE  PumpFollows
  <2>1. t \in pump.batch /\ pump.pc = "requests"
    BY <1>2 DEF Next1, FirstOf
  <2>2. CASE pump.batch = {t}
    BY <1>2, <2>2 DEF Consumed, ConsumedSeen, Without, PumpFollows
  <2>3. CASE pump.batch # {t}
    <3>1. /\ pump'.pc = "requests" /\ pump'.queued = pump.queued
          /\ pump'.batch = pump.batch \ {t}
          /\ \/ pump'.seen = pump.seen /\ state[t] # "queued"
             \/ pump'.seen = pump.seen \cup {ThreadOf[t]}
      BY <1>2, <2>1, <2>3 DEF Consumed, ConsumedSeen, Without, TypeOK, PumpTypeOK
    <3> QED BY <1>2, <2>1, <3>1 DEF PumpFollows
  <2> QED BY <2>2, <2>3
<1>3. CASE PumpIdle \/ PumpBegin \/ PumpSnapshot
  <2>1. PumpFollows
    BY <1>3 DEF PumpIdle, PumpBegin, PumpSnapshot, PumpFollows, vars
  <2> QED BY <1>3, <2>1, CliStill, LaneStill
          DEF PumpIdle, PumpBegin, PumpSnapshot, ActorsFollow, OwnerFollows, vars
<1>4. ASSUME NEW t \in Turn, PumpCancelQueued(t) PROVE ActorsFollow
  <2>1. PumpFollows
    BY <1>4 DEF PumpCancelQueued, PumpFollows, TypeOK, PumpTypeOK
  <2> QED BY <1>1, <1>4, <2>1, SignalEffect, CliStill, LaneStill
          DEF PumpCancelQueued, ActorsFollow, OwnerFollows
<1>5. ASSUME NEW t \in Turn, PumpCancelCli(t) PROVE ActorsFollow
  <2>1. PumpFollows
    BY <1>5 DEF PumpCancelCli, PumpFollows, TypeOK, PumpTypeOK
  <2> QED BY <1>1, <1>5, <2>1, SignalEffect, LaneStill
          DEF PumpCancelCli, ActorsFollow, OwnerFollows
<1>6. ASSUME NEW t \in Turn, PumpCancelLane(t) PROVE ActorsFollow
  <2>1. PumpFollows
    BY <1>6 DEF PumpCancelLane, PumpFollows, TypeOK, PumpTypeOK
  <2> QED BY <1>1, <1>6, <2>1, CancelOwnedFollows, CliStill
          DEF PumpCancelLane, ActorsFollow, OwnerFollows
<1>7. ASSUME NEW t \in Turn, PumpSkipCli(t) \/ PumpSkipBusy(t)
      PROVE  ActorsFollow
  <2>1. PumpFollows
    BY <1>2, <1>7 DEF PumpSkipCli, PumpSkipBusy, CliSkips
  <2> QED BY <1>7, <2>1, CliStill, LaneStill
          DEF PumpSkipCli, PumpSkipBusy, ActorsFollow, OwnerFollows
<1>8. ASSUME NEW t \in Turn, PumpNotifyLane(t) \/ PumpLaneUnavailable(t)
      PROVE  ActorsFollow
  <2>1. PumpFollows
    BY <1>2, <1>8 DEF PumpNotifyLane, PumpLaneUnavailable
  <2> QED BY <1>8, <2>1, CliStill, LaneStill
          DEF PumpNotifyLane, PumpLaneUnavailable, ActorsFollow, OwnerFollows
<1>9. ASSUME NEW t \in Turn, PumpSpawnCli(t) PROVE ActorsFollow
  <2>1. PumpFollows
    BY <1>2, <1>9 DEF PumpSpawnCli
  <2>2. ASSUME NEW d \in Thread PROVE CliFollows(d)
    <3>1. CASE d = ThreadOf[t]
      <4>1. cli'[d] = [NoCli EXCEPT !.pc = "wait", !.turn = t]
        BY <1>9, <3>1 DEF PumpSpawnCli, TypeOK, CliTypeOK
      <4>2. /\ Next1(t) /\ ~CliSkips(t) /\ ~Blocked(t) /\ ExecOf[t] = "cli"
            /\ UNCHANGED <<state, drop>>
        BY <1>9 DEF PumpSpawnCli
      <4> QED BY <3>1, <4>1, <4>2 DEF CliFollows
    <3>2. CASE d # ThreadOf[t]
      <4>1. cli'[d] = cli[d]
        BY <1>9, <3>2 DEF PumpSpawnCli, TypeOK, CliTypeOK
      <4> QED BY <4>1 DEF CliFollows
    <3> QED BY <3>1, <3>2
  <2> QED BY <1>9, <2>1, <2>2, LaneStill DEF PumpSpawnCli, ActorsFollow, OwnerFollows
<1> QED BY <1>3, <1>4, <1>5, <1>6, <1>7, <1>8, <1>9 DEF PumpStep

LEMMA OwnerStepFollows == TypeOK /\ OwnerStep => ActorsFollow
<1> SUFFICES ASSUME TypeOK, OwnerStep PROVE ActorsFollow
  OBVIOUS
<1> USE DEF ledger, flags, native, actors, ghosts, Grows
<1>1. CASE StopDeliver
  <2>1. stop.thread \in Thread
    BY <1>1 DEF StopDeliver, TypeOK, OwnerTypeOK
  <2>2. /\ \A d \in Thread : CliFollows(d) /\ LaneFollows(d)
        /\ opened \subseteq opened'
    BY <1>1, <2>1, SignalEffect, CancelOwnedFollows, CliStill, LaneStill DEF StopDeliver
  <2> QED BY <1>1, <2>2 DEF StopDeliver, ActorsFollow, PumpFollows, OwnerFollows
<1>2. CASE DropCli \/ DropClaimed \/ DropFinish \/ DropClean
  <2>1. OwnerFollows /\ UNCHANGED <<pump, cli, lane, anchor>> /\ Grows
    BY <1>2 DEF DropCli, DropClaimed, DropFinish, DropClean, OwnerFollows, NoDrop,
                TypeOK, OwnerTypeOK
  <2> QED BY <2>1, CliStill, LaneStill DEF ActorsFollow, PumpFollows
<1> QED BY <1>1, <1>2 DEF OwnerStep

LEMMA CliStepFollows ==
    ASSUME TypeOK, NEW th \in Thread, CliStep(th)
    PROVE  ActorsFollow
<1> USE DEF ledger, flags, native, actors, ghosts, Grows
<1>1. UNCHANGED <<pump, stop, drop, lane, anchor, cancelReq, opened>>
  BY DEF CliStep, CliAcquire, CliCancelledWaiting, CliRun, CliBind, CliDriven,
         CliComplete, CliRemove
<1>2. ASSUME NEW d \in Thread PROVE CliFollows(d)
  <2>1. CASE d = th
    <3>1. CASE CliAcquire(th) \/ CliCancelledWaiting(th)
      BY <2>1, <3>1, CliGoesEffect DEF CliAcquire, CliCancelledWaiting, CliFollows
    <3>2. CASE CliRun(th)
      BY <2>1, <3>2, CliGoesEffect DEF CliRun, CliFollows
    <3>3. CASE CliBind(th)
      BY <2>1, <3>3, CliGoesEffect DEF CliBind, CanBind, CliFollows
    <3>4. CASE (\E o \in Terminal : CliDriven(th, o)) \/ CliComplete(th)
      BY <2>1, <3>4, CliGoesEffect DEF CliDriven, CliComplete, CliFollows
    <3>5. CASE CliRemove(th)
      BY <2>1, <3>5 DEF CliRemove, NoCli, CliFollows, TypeOK, CliTypeOK
    <3> QED BY <3>1, <3>2, <3>3, <3>4, <3>5 DEF CliStep
  <2>2. CASE d # th
    <3>1. cli'[d] = cli[d]
      BY <2>2 DEF TypeOK, CliTypeOK, CliStep, CliAcquire, CliCancelledWaiting, CliRun,
                  CliBind, CliDriven, CliComplete, CliRemove, CliGoes, CliEnds
    <3> QED BY <3>1 DEF CliFollows
  <2> QED BY <2>1, <2>2
<1> QED BY <1>1, <1>2, LaneStill DEF ActorsFollow, PumpFollows, OwnerFollows

LEMMA LaneStepFollows ==
    ASSUME TypeOK, NEW th \in Thread, LaneStep(th), th \in opened \/ lane[th].pc = "idle"
    PROVE  ActorsFollow
<1> USE DEF ledger, flags, native, actors, ghosts, Grows
<1>1. UNCHANGED <<pump, stop, drop, cli, cancelReq, opened>>
  BY DEF LaneStep, LaneAdmit, LaneBegin, LaneDiscard, LanePick, LaneBackground, LaneResume,
         LaneRest, LaneRun, LaneBind, LaneDrained, LaneDrainError, LaneEmpty, LaneSettle,
         LaneHalt
<1>2. ASSUME NEW d \in Thread, d # th PROVE LaneFollows(d)
  <2>1. lane'[d] = lane[d] /\ anchor'[d] = anchor[d]
    BY <1>2 DEF TypeOK, LaneTypeOK, LaneStep, LaneAdmit, LaneBegin, LaneDiscard, LanePick,
         LaneBackground, LaneResume, LaneRest, LaneRun, LaneBind, LaneDrained,
         LaneDrainError, LaneEmpty, LaneSettle, LaneHalt, LaneGoes, LaneRests
  <2> QED BY <2>1 DEF LaneFollows
<1>3. LaneFollows(th)
  <2> USE DEF LaneFollows, LaneRests
  <2>1. CASE LaneBegin(th)
    BY <2>1, LaneGoesEffect DEF LaneBegin
  <2>2. ASSUME NEW t \in Turn, LaneDiscard(th, t) PROVE LaneFollows(th)
    BY <2>2 DEF LaneDiscard, Admitting, TypeOK, LaneTypeOK
  <2>3. ASSUME NEW t \in Turn, LanePick(th, t) PROVE LaneFollows(th)
    <3>1. lane'[th].pc = "run" /\ lane'[th].turn = t
      BY <2>3, LaneGoesEffect DEF LanePick
    <3>2. /\ lane[th].pc = "admit" /\ anchor'[th] = anchor[th] /\ t \in FirstOf(PendingOf(th))
          /\ ExecOf[t] = "native" /\ Open(t) /\ UNCHANGED ledger
      BY <2>3 DEF LanePick, Admitting, Candidates
    <3> QED BY <3>1, <3>2
  <2>4. ASSUME NEW b \in Turn, LaneBackground(th, b) PROVE LaneFollows(th)
    BY <2>4, LaneGoesEffect DEF LaneBackground, Activating, Admitting
  <2>5. CASE LaneResume(th)
    BY <2>5, LaneGoesEffect DEF LaneResume, Activating, Admitting
  <2>6. CASE LaneRest(th) \/ LaneEmpty(th)
    BY <2>6, LaneGoesEffect DEF LaneRest, LaneEmpty
  <2>7. CASE LaneRun(th)
    BY <2>7, LaneGoesEffect DEF LaneRun
  <2>8. CASE LaneBind(th)
    BY <2>8, LaneGoesEffect DEF LaneBind, TypeOK, LaneTypeOK
  <2>9. CASE (\E o \in Terminal : LaneDrained(th, o)) \/ LaneDrainError(th)
    BY <2>9 DEF LaneDrained, LaneDrainError, TypeOK, LaneTypeOK
  <2>10. CASE LaneSettle(th)
    BY <2>10, LaneGoesEffect DEF LaneSettle, TypeOK, LaneTypeOK
  <2>11. CASE LaneHalt(th)
    BY <2>11, LaneGoesEffect DEF LaneHalt
  <2> QED BY <2>1, <2>2, <2>3, <2>4, <2>5, <2>6, <2>7, <2>8, <2>9, <2>10, <2>11
          DEF LaneStep, LaneAdmit
<1> QED BY <1>1, <1>2, <1>3, CliStill DEF ActorsFollow, PumpFollows, OwnerFollows

-----------------------------------------------------------------------------
(* Who owns which turn *)

\* Poller, Stop and removal exclude each other; the turns the poller is about
\* to cancel are marked; CLI work has a CLI turn of its Thread, a lane and its
\* anchor a Native one, and only an opened lane works.
AdmissionAlone ==
    /\ pump.pc # "idle" => stop.pc = "idle" /\ drop.pc = "idle"
    /\ stop.pc # "idle" => drop.pc = "idle"
QueuedAreMarked == pump.queued \subseteq cancelReq
CliOwns == \A th \in Thread : cli[th].pc # "none" =>
    ThreadOf[cli[th].turn] = th /\ ExecOf[cli[th].turn] = "cli"
LaneOwns == \A th \in Thread :
    /\ lane[th].pc \in {"run", "bind"} =>
          ThreadOf[lane[th].turn] = th /\ ExecOf[lane[th].turn] = "native"
    /\ anchor[th] # None =>
          ThreadOf[anchor[th]] = th /\ ExecOf[anchor[th]] = "native"
    /\ lane[th].pc # "idle" => th \in opened
Owners == AdmissionAlone /\ QueuedAreMarked /\ CliOwns /\ LaneOwns

LEMMA NextFollows == LedgerInv /\ Owners /\ [Next]_vars => ActorsFollow
<1> SUFFICES ASSUME LedgerInv, Owners, [Next]_vars PROVE ActorsFollow
  OBVIOUS
<1>1. TypeOK
  BY DEF LedgerInv
<1>2. ASSUME NEW th \in Thread, LaneStep(th) PROVE ActorsFollow
  BY <1>1, <1>2, LaneStepFollows DEF Owners, LaneOwns
<1>3. CASE UNCHANGED vars
  BY <1>3, CliStill, LaneStill
  DEF vars, flags, native, actors, ActorsFollow, PumpFollows, OwnerFollows, Grows
<1> QED BY <1>1, <1>2, <1>3, EnvironmentFollows, PumpStepFollows, OwnerStepFollows,
           CliStepFollows DEF Next

LEMMA OwnersNext ==
    ASSUME LedgerInv, Owners, ActorsFollow, LedgerInv'
    PROVE  Owners'
<1>1. TypeOK /\ TypeOK'
  BY DEF LedgerInv
<1>2. AdmissionAlone'
  BY DEF Owners, AdmissionAlone, ActorsFollow, PumpFollows, OwnerFollows, AdmissionFree,
         NoPump, NoStop, NoDrop, Snapshot
<1>3. QueuedAreMarked'
  <2>1. Marked("queued") \subseteq cancelReq
    BY DEF Marked
  <2>2. PumpFollows /\ pump.queued \subseteq cancelReq /\ cancelReq \subseteq cancelReq'
    BY DEF Owners, QueuedAreMarked, ActorsFollow, Grows
  <2>3. NoPump.queued = {} /\ Snapshot.queued = {}
    BY DEF NoPump, Snapshot
  <2>4. \/ pump'.queued = pump.queued \/ pump'.queued = {}
        \/ pump'.queued = Marked("queued")
        \/ pump'.queued \subseteq pump.queued
    <3>1. [NoPump EXCEPT !.pc = "cancels", !.queued = Marked("queued"),
                         !.running = Marked("running")].queued = Marked("queued")
      BY DEF NoPump
    <3> QED BY <2>2, <2>3, <3>1 DEF PumpFollows
  <2> QED BY <2>1, <2>2, <2>4 DEF QueuedAreMarked
<1>4. CliOwns'
  <2> SUFFICES ASSUME NEW th \in Thread, cli'[th].pc # "none"
               PROVE  ThreadOf[cli'[th].turn] = th /\ ExecOf[cli'[th].turn] = "cli"
    BY DEF CliOwns
  <2>1. CliFollows(th)
    BY DEF ActorsFollow
  <2>2. CASE cli[th].pc # "none" /\ cli'[th].turn = cli[th].turn
    BY <2>2 DEF Owners, CliOwns
  <2>3. ASSUME NEW t \in Turn, ExecOf[t] = "cli", ThreadOf[t] = th,
               cli'[th] = [NoCli EXCEPT !.pc = "wait", !.turn = t]
        PROVE  ThreadOf[cli'[th].turn] = th /\ ExecOf[cli'[th].turn] = "cli"
    BY <2>3 DEF NoCli
  <2> QED BY <2>1, <2>2, <2>3 DEF CliFollows
<1>5. LaneOwns'
  <2> SUFFICES ASSUME NEW th \in Thread
               PROVE  /\ lane'[th].pc \in {"run", "bind"} =>
                            /\ ThreadOf[lane'[th].turn] = th
                            /\ ExecOf[lane'[th].turn] = "native"
                      /\ anchor'[th] # None =>
                            ThreadOf[anchor'[th]] = th /\ ExecOf[anchor'[th]] = "native"
                      /\ lane'[th].pc # "idle" => th \in opened'
    BY DEF LaneOwns
  <2>1. LaneFollows(th) /\ opened \subseteq opened'
    BY DEF ActorsFollow, Grows
  <2>2. \A t \in PendingOf(th) : ThreadOf[t] = th
    BY DEF PendingOf, TurnsOf
  <2>3. \A b \in Turn : KindOf[b] = "background" => ExecOf[b] = "native"
    BY ReportAssumption
  <2> QED BY <2>1, <2>2, <2>3 DEF Owners, LaneOwns, LaneFollows, FirstOf
<1> QED BY <1>2, <1>3, <1>4, <1>5 DEF Owners

LEMMA OwnersInductive == Spec => [](LedgerInv /\ Owners)
<1>1. Init => Owners
  BY DEF Init, Owners, AdmissionAlone, QueuedAreMarked, CliOwns, LaneOwns, NoPump, NoStop,
         NoDrop, NoCli, NoLane
<1>2. LedgerInv /\ Owners /\ [Next]_vars => LedgerInv' /\ Owners'
  BY TypeNext, NextMoves, MovesKeep, NextFollows, OwnersNext DEF LedgerInv
<1>3. LedgerInv /\ Owners /\ [Next]_vars /\ LedgerInv' => Owners'
  BY <1>2
<1> QED BY <1>1, <1>3, LedgerInductive, PTL DEF Spec

-----------------------------------------------------------------------------
(* Who starts and who ends a turn *)

\* The unique index saw no running turn of the Thread, and the turn was the one
\* admitted by its Thread's CLI work or lane.
StartedBy(t) ==
    /\ RunningIn(ThreadOf[t]) = {}
    /\ \E th \in Thread : \/ cli[th].pc = "ready" /\ cli[th].turn = t
                          \/ lane[th].pc = "run" /\ lane[th].turn = t

\* The poller ends a marked turn it found queued, and signals CLI work on it; it
\* fails a Native one whose lane is not there. The Owner's removal ends its
\* turn, unless that is anchored; the lane its anchor, though not during a
\* drain; CLI work its own. Or the host restarted.
EndedBy(t) ==
    LET th == ThreadOf[t]
    IN  \/ t \in pump.queued /\ (cli[th].turn = t => cli'[th].token)
        \/ ExecOf[t] = "native" /\ th \notin opened
        \/ drop.pc = "act" /\ drop.turn = t /\ (ExecOf[t] = "native" => anchor[th] # t)
        \/ anchor[th] = t /\ lane[th].pc # "drain"
        \/ cli[th].turn = t /\ cli[th].pc = "done"
        \/ \A d \in Thread : cli'[d].pc = "none" /\ lane'[d].pc = "idle"

Changes(t) ==
    \/ state'[t] = state[t]
    \/ state[t] = "none"
    \/ state[t] = "queued" /\ state'[t] = "running" /\ StartedBy(t)
    \/ state'[t] \in Terminal /\ EndedBy(t)

LEMMA FinishChanges ==
    ASSUME LedgerInv, NEW t \in Turn, NEW outcome \in Terminal, Finish(IfOpen(t), outcome)
    PROVE  \A u \in Turn : \/ state'[u] = state[u] \/ state[u] = "none"
                           \/ u = t /\ state'[u] \in Terminal
<1>1. IfOpen(t) \in SUBSET Turn /\ Ends(IfOpen(t), outcome) /\ IfOpen(t) \subseteq {t}
  BY DEF IfOpen, Ends
<1> QED BY <1>1, EndsEffect

LEMMA CompleteChanges ==
    ASSUME LedgerInv, NEW t \in Turn, NEW outcome \in Terminal, NEW rows,
           CompleteRemoving(t, outcome, rows), EndedBy(t)
    PROVE  \A u \in Turn : Changes(u)
BY FinishChanges DEF CompleteRemoving, Changes

LEMMA CancelOwnedChanges ==
    ASSUME LedgerInv, Owners, NEW th \in Thread, CancelOwned(th)
    PROVE  \A u \in Turn : Changes(u)
<1>1. CASE UNCHANGED ledger
  BY <1>1 DEF ledger, Changes
<1>2. CASE /\ OwnsTurn(th) /\ lane[th].pc \notin {"drain", "settle"}
           /\ CompleteRemoving(anchor[th], "cancelled", {anchor[th]})
  <2>1. anchor[th] \in Turn /\ ThreadOf[anchor[th]] = th
    BY <1>2 DEF OwnsTurn, LedgerInv, TypeOK, LaneTypeOK, Owners, LaneOwns
  <2>2. EndedBy(anchor[th])
    BY <1>2, <2>1 DEF EndedBy
  <2> QED BY <1>2, <2>1, <2>2, CompleteChanges DEF Terminal
<1> QED BY <1>1, <1>2 DEF CancelOwned

LEMMA NextChanges ==
    ASSUME LedgerInv, Owners, [Next]_vars
    PROVE  \A u \in Turn : Changes(u)
<1> USE DEF ledger, flags, native, actors, ghosts
<1>1. TypeOK /\ \A t \in Turn : ThreadOf[t] \in Thread
  BY TreeAssumption DEF LedgerInv
<1>2. ASSUME UNCHANGED state PROVE \A u \in Turn : Changes(u)
  BY <1>2 DEF Changes
<1>3. CASE Environment
  <2>1. ASSUME NEW t \in Turn, Accepted(t) PROVE \A u \in Turn : Changes(u)
    BY <1>1, <2>1 DEF Accepted, Changes, TypeOK, LedgerTypeOK
  <2>2. CASE CrashRestart
    <3> DEFINE cut == {t \in Turn : state[t] = "running"}
    <3>1. cut \in SUBSET Turn /\ Ends(cut, "interrupted") /\ "interrupted" \in Terminal
      BY <2>2 DEF CrashRestart, Interrupt, Ends, Open, OpenStates, Terminal
    <3>2. \A d \in Thread : cli'[d].pc = "none" /\ lane'[d].pc = "idle"
      BY <2>2 DEF CrashRestart, NoCli, NoLane
    <3> HIDE DEF cut
    <3> QED BY <3>1, <3>2, EndsEffect DEF Changes, EndedBy
  <2>3. CASE \/ \E th \in Thread, keep \in Turn \cup {None} : Archive(th, keep)
             \/ \E th \in Thread : \/ Unarchive(th) \/ Snooze(th) \/ SnoozeEnds(th)
                                   \/ QueueCommand(th) \/ StopBegin(th)
             \/ \E a \in Turn, th \in Thread : AgentCancel(a, th)
             \/ \E t \in Turn : DropBegin(t)
    BY <1>2, <2>3
    DEF Archive, Unarchive, Snooze, SnoozeEnds, QueueCommand, StopBegin, AgentCancel,
        DropBegin
  <2> QED BY <1>3, <2>1, <2>2, <2>3
          DEF Environment, OwnerArchive, AgentArchive, AcceptOwner, AcceptWake, Delegate
<1>4. CASE PumpStep \/ PumpIdle
  <2>1. ASSUME NEW t \in Turn, PumpCancelQueued(t) PROVE \A u \in Turn : Changes(u)
    <3>1. EndedBy(t)
      BY <1>1, <2>1, SignalEffect DEF PumpCancelQueued, EndedBy
    <3> QED BY <2>1, <3>1, CompleteChanges DEF PumpCancelQueued, Complete, Terminal
  <2>2. ASSUME NEW t \in Turn, PumpLaneUnavailable(t) PROVE \A u \in Turn : Changes(u)
    <3>1. EndedBy(t)
      BY <2>2 DEF PumpLaneUnavailable, EndedBy
    <3> QED BY <2>2, <3>1, CompleteChanges DEF PumpLaneUnavailable, Complete, Terminal
  <2>3. ASSUME NEW t \in Turn, PumpCancelLane(t) PROVE \A u \in Turn : Changes(u)
    BY <1>1, <2>3, CancelOwnedChanges DEF PumpCancelLane
  <2>4. CASE \/ PumpBegin \/ PumpIdle \/ PumpSnapshot
             \/ \E t \in Turn : \/ PumpCancelCli(t) \/ PumpSkipBusy(t) \/ PumpSkipCli(t)
                                \/ PumpSpawnCli(t) \/ PumpNotifyLane(t)
    BY <1>2, <2>4
    DEF PumpBegin, PumpIdle, PumpSnapshot, PumpCancelCli, PumpSkipBusy, PumpSkipCli,
        PumpSpawnCli, PumpNotifyLane, vars
  <2> QED BY <1>4, <2>1, <2>2, <2>3, <2>4 DEF PumpStep
<1>5. CASE OwnerStep
  <2>1. drop.pc # "idle" => drop.turn \in Turn
    BY <1>1 DEF TypeOK, OwnerTypeOK
  <2>2. CASE StopDeliver
    BY <1>1, <1>2, <2>2, CancelOwnedChanges DEF StopDeliver, TypeOK, OwnerTypeOK
  <2>3. CASE DropCli
    <3>1. EndedBy(drop.turn)
      BY <2>3 DEF DropCli, EndedBy
    <3> QED BY <2>1, <2>3, <3>1, CompleteChanges DEF DropCli, Complete, Terminal
  <2>4. CASE DropFinish
    <3>1. EndedBy(drop.turn)
      BY <2>4 DEF DropFinish, Claimed, EndedBy
    <3> QED BY <2>1, <2>4, <3>1, FinishChanges DEF DropFinish, Changes, Terminal
  <2>5. CASE DropClaimed \/ DropClean
    BY <1>2, <2>5 DEF DropClaimed, DropClean
  <2> QED BY <1>5, <2>2, <2>3, <2>4, <2>5 DEF OwnerStep
<1>6. ASSUME NEW th \in Thread, CliStep(th) PROVE \A u \in Turn : Changes(u)
  <2>1. /\ cli[th].pc # "none" => cli[th].turn \in Turn
        /\ cli[th].pc = "done" => cli[th].outcome \in Terminal
    BY <1>1 DEF TypeOK, CliTypeOK
  <2>2. CASE CliRun(th)
    <3>1. cli[th].turn \in Turn /\ cli[th].pc = "ready"
      BY <2>1, <2>2 DEF CliRun
    <3>2. \/ UNCHANGED state
          \/ /\ state[cli[th].turn] = "queued" /\ RunningIn(ThreadOf[cli[th].turn]) = {}
             /\ state' = [state EXCEPT ![cli[th].turn] = "running"]
      BY <2>2 DEF CliRun, CanRun, RunTurn
    <3> QED BY <1>1, <3>1, <3>2 DEF Changes, StartedBy, TypeOK, LedgerTypeOK
  <2>3. CASE CliComplete(th)
    <3>1. EndedBy(cli[th].turn)
      BY <2>3 DEF CliComplete, EndedBy, Owners, CliOwns
    <3> QED BY <2>1, <2>3, <3>1, CompleteChanges DEF CliComplete, Complete
  <2>4. CASE \/ CliAcquire(th) \/ CliCancelledWaiting(th) \/ CliBind(th) \/ CliRemove(th)
             \/ \E o \in Terminal : CliDriven(th, o)
    BY <1>2, <2>4 DEF CliAcquire, CliCancelledWaiting, CliBind, CliRemove, CliDriven
  <2> QED BY <1>6, <2>2, <2>3, <2>4 DEF CliStep
<1>7. ASSUME NEW th \in Thread, LaneStep(th) PROVE \A u \in Turn : Changes(u)
  <2>1. /\ lane[th].pc = "run" => lane[th].turn \in Turn
        /\ lane[th].pc = "settle" => anchor[th] \in Turn /\ lane[th].outcome \in Terminal
    BY <1>1 DEF TypeOK, LaneTypeOK
  <2>2. ASSUME NEW b \in Turn, LaneBackground(th, b) PROVE \A u \in Turn : Changes(u)
    BY <1>1, <2>2 DEF LaneBackground, Changes, TypeOK, LedgerTypeOK
  <2>3. CASE LaneRun(th)
    <3>1. lane[th].turn \in Turn /\ lane[th].pc = "run"
      BY <2>1, <2>3 DEF LaneRun
    <3>2. \/ UNCHANGED state
          \/ /\ state[lane[th].turn] = "queued" /\ RunningIn(ThreadOf[lane[th].turn]) = {}
             /\ state' = [state EXCEPT ![lane[th].turn] = "running"]
      BY <1>1, <2>3 DEF LaneRun, CanRun, RunTurn, TypeOK, LedgerTypeOK
    <3> QED BY <1>1, <3>1, <3>2 DEF Changes, StartedBy, TypeOK, LedgerTypeOK
  <2>4. CASE LaneSettle(th)
    <3>1. EndedBy(anchor[th])
      BY <1>1, <2>4, TreeAssumption DEF LaneSettle, EndedBy, Owners, LaneOwns, TypeOK, LaneTypeOK
    <3> QED BY <2>1, <2>4, <3>1, CompleteChanges DEF LaneSettle
  <2>5. CASE \/ LaneBegin(th) \/ \E t \in Turn : LanePick(th, t) \/ LaneDiscard(th, t)
             \/ LaneResume(th) \/ LaneRest(th) \/ LaneBind(th) \/ LaneDrainError(th)
             \/ \E o \in Terminal : LaneDrained(th, o)
             \/ LaneEmpty(th) \/ LaneHalt(th)
    BY <1>2, <2>5
    DEF LaneBegin, LanePick, LaneDiscard, LaneResume, LaneRest, LaneBind, LaneDrainError,
        LaneDrained, LaneEmpty, LaneHalt
  <2> QED BY <1>7, <2>2, <2>3, <2>4, <2>5 DEF LaneStep, LaneAdmit
<1>8. CASE UNCHANGED vars
  BY <1>2, <1>8 DEF vars
<1> QED BY <1>3, <1>4, <1>5, <1>6, <1>7, <1>8 DEF Next

-----------------------------------------------------------------------------
(* What is executed was not ended behind the executor's back *)

\* One running turn per Thread. The turn of a drain is not on the poller's list
\* of queued turns to cancel: it was bound unmarked, or listed before it ran and
\* refused by the bind. A driver's turn started, and the Owner's removal told
\* CLI work on its turn to stop before it ends that turn.
OneRunning == \A t, u \in Turn :
    ThreadOf[t] = ThreadOf[u] /\ state[t] = "running" /\ state[u] = "running" => t = u
DrainNotListed == \A th \in Thread : lane[th].pc = "drain" => anchor[th] \notin pump.queued
DriverStarted == \A th \in Thread :
    cli[th].pc = "drive" => state[cli[th].turn] \in {"running"} \cup Terminal
DropSignals == drop.pc = "act" => \A th \in Thread :
    cli[th].pc # "none" /\ cli[th].turn = drop.turn => cli[th].token
WorkInv == /\ LedgerInv /\ Owners /\ OneRunning /\ DrainNotListed /\ DriverStarted
           /\ DropSignals /\ DrainedTurnRuns /\ EndedDriverIsSignalled

LEMMA OneRunningNext ==
    ASSUME LedgerInv, OneRunning, Moves
    PROVE  OneRunning'
<1>1. CASE UNCHANGED state
  BY <1>1 DEF OneRunning
<1>2. CASE \E t \in Turn : Accepts(t)
  BY <1>2 DEF Accepts, OneRunning, LedgerInv, TypeOK, LedgerTypeOK
<1>3. ASSUME NEW t \in Turn, Starts(t) PROVE OneRunning'
  <2>1. \A u \in Turn : ThreadOf[u] = ThreadOf[t] => state[u] # "running"
    BY <1>3 DEF Starts, RunningIn, TurnsOf
  <2> QED BY <1>3, <2>1 DEF Starts, OneRunning, LedgerInv, TypeOK, LedgerTypeOK
<1>4. ASSUME NEW S \in SUBSET Turn, NEW outcome \in Terminal, Ends(S, outcome)
      PROVE  OneRunning'
  <2>1. \A u \in Turn : state'[u] = "running" => state[u] = "running"
    BY <1>4, EndsEffect DEF Terminal
  <2> QED BY <2>1 DEF OneRunning
<1> QED BY <1>1, <1>2, <1>3, <1>4 DEF Moves

\* Ended turns stay ended, and a started turn does not go back to the queue.
LEMMA StartedStays ==
    ASSUME LedgerInv, Owners, [Next]_vars, NEW t \in Turn
    PROVE  /\ state[t] \in {"running"} \cup Terminal =>
                  state'[t] \in {"running"} \cup Terminal
           /\ state[t] \in Terminal => state'[t] \in Terminal
BY NextChanges DEF Changes, Terminal

LEMMA DrainNext ==
    ASSUME WorkInv, [Next]_vars, NEW th \in Thread, lane'[th].pc = "drain"
    PROVE  state'[anchor'[th]] = "running" /\ anchor'[th] \notin pump'.queued
<1>1. ActorsFollow /\ LaneFollows(th)
  BY NextFollows DEF WorkInv, ActorsFollow
<1>2. CASE lane[th].pc = "drain" /\ anchor'[th] = anchor[th]
  <2> DEFINE t == anchor[th]
  <2>1. /\ t \in Turn /\ ThreadOf[t] = th /\ ExecOf[t] = "native" /\ th \in opened
        /\ state[t] = "running" /\ t \notin pump.queued
    BY <1>2, TreeAssumption DEF WorkInv, LedgerInv, TypeOK, LaneTypeOK, Owners, LaneOwns,
                DrainNotListed, DrainedTurnRuns
  <2>2. ~EndedBy(t)
    <3>1. cli[th].turn = t /\ cli[th].pc = "done" => ExecOf[t] = "cli"
      BY DEF WorkInv, Owners, CliOwns
    <3> QED BY <1>2, <2>1, <3>1 DEF EndedBy
  <2>3. state'[t] = "running"
    BY <2>1, <2>2, NextChanges DEF WorkInv, Changes
  <2>4. t \notin pump'.queued
    <3>1. t \notin Marked("queued") /\ NoPump.queued = {} /\ Snapshot.queued = {}
      BY <2>1 DEF Marked, NoPump, Snapshot
    <3>2. [NoPump EXCEPT !.pc = "cancels", !.queued = Marked("queued"),
                         !.running = Marked("running")].queued = Marked("queued")
      BY DEF NoPump
    <3>3. PumpFollows
      BY <1>1 DEF ActorsFollow
    <3> QED BY <2>1, <3>1, <3>2, <3>3 DEF PumpFollows
  <2> QED BY <1>2, <2>3, <2>4
<1>3. CASE anchor'[th] = lane[th].turn /\ CanBind(lane[th].turn) /\ UNCHANGED <<state, pump>>
  BY <1>3 DEF CanBind, WorkInv, Owners, QueuedAreMarked
<1> QED BY <1>1, <1>2, <1>3 DEF LaneFollows

LEMMA DriveNext ==
    ASSUME WorkInv, [Next]_vars, NEW th \in Thread, cli'[th].pc = "drive"
    PROVE  /\ state'[cli'[th].turn] \in {"running"} \cup Terminal
           /\ state'[cli'[th].turn] \in Terminal => cli'[th].token
<1>1. CliFollows(th)
  BY NextFollows DEF WorkInv, ActorsFollow
<1>2. CASE cli[th].pc = "drive" /\ cli'[th].turn = cli[th].turn
           /\ (cli[th].token => cli'[th].token)
  <2> DEFINE t == cli[th].turn
  <2>1. /\ t \in Turn /\ ThreadOf[t] = th /\ ExecOf[t] = "cli"
        /\ state[t] \in {"running"} \cup Terminal
        /\ state[t] \in Terminal => cli[th].token
    BY <1>2 DEF WorkInv, LedgerInv, TypeOK, CliTypeOK, Owners, CliOwns, DriverStarted,
                EndedDriverIsSignalled
  <2>2. EndedBy(t) => cli'[th].token
    <3>1. anchor[th] = t => ExecOf[t] = "native"
      BY <2>1, TreeAssumption DEF WorkInv, Owners, LaneOwns
    <3>2. drop.pc = "act" /\ drop.turn = t => cli[th].token
      BY <1>2 DEF WorkInv, DropSignals
    <3>3. cli'[th].pc = "drive"
      OBVIOUS
    <3> QED BY <1>2, <2>1, <3>1, <3>2, <3>3 DEF EndedBy
  <2>3. state'[t] \in {"running"} \cup Terminal
    BY <2>1, StartedStays DEF WorkInv
  <2>4. state'[t] \in Terminal => cli'[th].token
    BY <1>2, <2>1, <2>2, NextChanges DEF WorkInv, Changes, Terminal
  <2> QED BY <1>2, <2>3, <2>4
<1>3. CASE cli'[th].turn = cli[th].turn /\ state[cli[th].turn] = "running" /\ UNCHANGED state
  BY <1>3 DEF Terminal
<1> QED BY <1>1, <1>2, <1>3 DEF CliFollows, NoCli

LEMMA DropSignalsNext ==
    ASSUME WorkInv, [Next]_vars, TypeOK', NEW th \in Thread, drop'.pc = "act",
           cli'[th].pc # "none", cli'[th].turn = drop'.turn
    PROVE  cli'[th].token
<1>1. ActorsFollow /\ CliFollows(th) /\ OwnerFollows /\ Owners'
  BY NextFollows, OwnersNext, TypeNext, NextMoves, MovesKeep
  DEF WorkInv, LedgerInv, ActorsFollow
<1>2. CASE drop' = drop
  <2>1. ~ \E t \in Turn : Next1(t)
    BY <1>2 DEF Next1, WorkInv, Owners, AdmissionAlone
  <2> QED BY <1>1, <1>2, <2>1 DEF CliFollows, WorkInv, DropSignals
<1>3. CASE cli[ThreadOf[drop'.turn]].turn = drop'.turn =>
               cli'[ThreadOf[drop'.turn]].token
  <2>1. ThreadOf[cli'[th].turn] = th
    BY <1>1 DEF Owners, CliOwns
  <2>2. CASE cli'[th].turn = cli[th].turn
    BY <1>3, <2>1, <2>2
  <2>3. CASE cli'[th].turn # cli[th].turn
    <3>1. UNCHANGED drop
      BY <1>1, <2>3 DEF CliFollows
    <3> QED BY <1>2, <3>1
  <2> QED BY <2>2, <2>3
<1>4. drop' = NoDrop => FALSE
  BY DEF NoDrop
<1> QED BY <1>1, <1>2, <1>3, <1>4 DEF OwnerFollows

LEMMA WorkInductive == Spec => []WorkInv
<1>1. Init => WorkInv
  BY TypeInit, ReportAssumption
  DEF Init, WorkInv, LedgerInv, ReportedOnce, AcceptedIsHeld, Open, OpenStates, Terminal,
      RowsHaveTurns, DroppedEnded, Owners, AdmissionAlone, QueuedAreMarked, CliOwns,
      LaneOwns, OneRunning, DrainNotListed, DriverStarted, DropSignals, DrainedTurnRuns,
      EndedDriverIsSignalled, NoPump, NoStop, NoDrop, NoCli, NoLane
<1>2. WorkInv /\ [Next]_vars => WorkInv'
  <2> SUFFICES ASSUME WorkInv, [Next]_vars PROVE WorkInv'
    OBVIOUS
  <2>1. LedgerInv /\ Owners /\ LedgerInv' /\ TypeOK' /\ Moves
    BY TypeNext, NextMoves, MovesKeep DEF WorkInv, LedgerInv
  <2>2. Owners'
    BY <2>1, NextFollows, OwnersNext
  <2>3. OneRunning'
    BY <2>1, OneRunningNext DEF WorkInv
  <2>4. DrainNotListed' /\ DrainedTurnRuns'
    BY DrainNext DEF DrainNotListed, DrainedTurnRuns
  <2>5. DriverStarted' /\ EndedDriverIsSignalled'
    BY DriveNext DEF DriverStarted, EndedDriverIsSignalled
  <2>6. DropSignals'
    BY <2>1, DropSignalsNext DEF DropSignals
  <2> QED BY <2>1, <2>2, <2>3, <2>4, <2>5, <2>6 DEF WorkInv
<1> QED BY <1>1, <1>2, PTL DEF Spec

\* What a drain executes is a running turn, whatever the Owner removed or the
\* poller cancelled between the admission of its request and its bind.
THEOREM OnlyRunningTurnsDrain == Spec => []DrainedTurnRuns
BY WorkInductive, PTL DEF WorkInv

\* A driver whose turn somebody else ended has been told to stop.
THEOREM EndedDriversAreTold == Spec => []EndedDriverIsSignalled
BY WorkInductive, PTL DEF WorkInv

\* Two executors never work in one Thread at the same time: the unique index
\* leaves the driver an ended turn, so it was told to stop.
THEOREM ExecutorsExclude == Spec => []NoOverlap
<1>1. WorkInv => NoOverlap
  <2> SUFFICES ASSUME WorkInv, NEW th \in Thread, lane[th].pc = "drain", cli[th].pc = "drive"
               PROVE  cli[th].token
    BY DEF NoOverlap
  <2>1. /\ anchor[th] \in Turn /\ ThreadOf[anchor[th]] = th /\ ExecOf[anchor[th]] = "native"
        /\ state[anchor[th]] = "running"
    BY TreeAssumption DEF WorkInv, LedgerInv, TypeOK, LaneTypeOK, Owners, LaneOwns,
                          DrainedTurnRuns
  <2>2. cli[th].turn \in Turn /\ ThreadOf[cli[th].turn] = th /\ ExecOf[cli[th].turn] = "cli"
    BY DEF WorkInv, LedgerInv, TypeOK, CliTypeOK, Owners, CliOwns
  <2>3. state[cli[th].turn] # "running"
    BY <2>1, <2>2 DEF WorkInv, OneRunning
  <2> QED BY <2>3 DEF WorkInv, DriverStarted, EndedDriverIsSignalled
<1> QED BY <1>1, WorkInductive, PTL

-----------------------------------------------------------------------------
(* Requests of a Thread start in the order of their ids *)

\* A request comes before another of its Thread unless it is a report, which a
\* snooze may hold back, or of a background turn, which has no request. A turn
\* is first once no earlier one is queued: true when it is admitted, and for
\* good, since later requests get greater ids.
Before(u, t) ==
    /\ ThreadOf[u] = ThreadOf[t] /\ KindOf[u] \notin {"report", "background"}
    /\ 0 < order[u] /\ order[u] < order[t]
First(t) == state[t] # "none" /\ \A u \in Turn : Before(u, t) => state[u] # "queued"

\* What lane and CLI work are about to run is first; the rest of the poller's
\* snapshot holds, for a Thread it has not dispatched yet, every earlier request
\* with each later one.
LaneFirst == \A th \in Thread : lane[th].pc = "run" => First(lane[th].turn)
CliFirst == \A th \in Thread : cli[th].pc \in {"wait", "ready"} => First(cli[th].turn)
InBatch(t, batch) == \A u \in Turn : Before(u, t) /\ state[u] = "queued" => u \in batch
BatchFirst == \A t \in pump.batch :
    /\ state[t] # "none"
    /\ ThreadOf[t] \notin pump.seen => InBatch(t, pump.batch)
OrderBound == \A t \in Turn : order[t] <= clock
FifoInv == /\ LedgerInv /\ Owners /\ OrderBound /\ LaneFirst /\ CliFirst /\ BatchFirst

LEMMA OrderMoves ==
    ASSUME LedgerInv, OrderBound, Moves
    PROVE  /\ OrderBound'
           /\ \A t \in Turn : state[t] # "none" =>
                 /\ order'[t] = order[t] /\ state'[t] # "none"
                 /\ state'[t] = "queued" => state[t] = "queued"
           /\ \A t, u \in Turn : /\ state[t] # "none" /\ state[u] = "none"
                                 /\ state'[u] = "queued"
                                 => order'[t] < order'[u]
<1> USE DEF OrderBound
<1>1. TypeOK /\ LedgerTypeOK
  BY DEF LedgerInv, TypeOK
<1>2. CASE UNCHANGED <<state, order, clock>>
  BY <1>1, <1>2 DEF LedgerTypeOK
<1>3. ASSUME NEW v \in Turn, Accepts(v)
      PROVE  /\ OrderBound'
             /\ \A t \in Turn : state[t] # "none" =>
                   /\ order'[t] = order[t] /\ state'[t] # "none"
                   /\ state'[t] = "queued" => state[t] = "queued"
             /\ \A t, u \in Turn : /\ state[t] # "none" /\ state[u] = "none"
                                   /\ state'[u] = "queued"
                                   => order'[t] < order'[u]
  BY <1>1, <1>3 DEF Accepts, LedgerTypeOK
<1>4. ASSUME NEW v \in Turn, Starts(v)
      PROVE  /\ OrderBound'
             /\ \A t \in Turn : /\ state'[t] = "queued" => state[t] = "queued"
                                /\ order'[t] = order[t]
                                /\ state[t] # "none" => state'[t] # "none"
  BY <1>1, <1>4 DEF Starts, LedgerTypeOK
<1>5. ASSUME NEW S \in SUBSET Turn, NEW outcome \in Terminal, Ends(S, outcome)
      PROVE  /\ OrderBound'
             /\ \A t \in Turn : state[t] # "none" =>
                   /\ order'[t] = order[t] /\ state'[t] # "none"
                   /\ state'[t] = "queued" => state[t] = "queued"
             /\ \A t, u \in Turn : /\ state[t] # "none" /\ state[u] = "none"
                                   /\ state'[u] = "queued"
                                   => order'[t] < order'[u]
  <2>1. /\ order' = [t \in Turn |-> IF t \in Reports(S) THEN clock + 1 ELSE order[t]]
        /\ clock' = IF Reports(S) = {} THEN clock ELSE clock + 1
    BY <1>5 DEF Ends, Finish
  <2>2. /\ \A t \in S : state'[t] = outcome
        /\ \A t \in Reports(S) : state[t] = "none" /\ state'[t] = "queued"
        /\ \A t \in Turn \ (S \cup Reports(S)) : state'[t] = state[t]
    BY <1>5, EndsEffect
  <2>3. \A t \in S : state[t] # "none"
    BY <1>5 DEF Ends, Open, OpenStates
  <2>4. OrderBound'
    BY <1>1, <2>1 DEF LedgerTypeOK
  <2>5. ASSUME NEW t \in Turn, state[t] # "none"
        PROVE  /\ order'[t] = order[t] /\ state'[t] # "none"
               /\ state'[t] = "queued" => state[t] = "queued"
    BY <2>1, <2>2, <2>5 DEF Terminal
  <2>6. ASSUME NEW u \in Turn, state[u] = "none", state'[u] = "queued"
        PROVE  order'[u] = clock + 1
    BY <2>1, <2>2, <2>3, <2>6
  <2> QED BY <1>1, <2>4, <2>5, <2>6 DEF LedgerTypeOK
<1> QED BY <1>2, <1>3, <1>4, <1>5 DEF Moves

\* What was accepted later is not before, and what left the queue stays away.
LEMMA BeforeStays ==
    ASSUME LedgerInv, OrderBound, Moves, TypeOK', NEW t \in Turn, state[t] # "none",
           NEW u \in Turn, Before(u, t)', state'[u] = "queued"
    PROVE  Before(u, t) /\ state[u] = "queued"
<1>1. order'[t] = order[t] /\ order'[u] < order'[t]
  BY OrderMoves DEF Before
<1>2. state[u] # "none"
  <2> SUFFICES ASSUME state[u] = "none" PROVE FALSE
    OBVIOUS
  <2>1. order'[t] < order'[u]
    BY OrderMoves
  <2>2. order'[t] \in Nat /\ order'[u] \in Nat
    BY DEF TypeOK, LedgerTypeOK
  <2> QED BY <1>1, <2>1, <2>2
<1>3. order'[u] = order[u] /\ state[u] = "queued"
  BY <1>2, OrderMoves
<1> QED BY <1>1, <1>3 DEF Before

LEMMA FirstStays ==
    ASSUME LedgerInv, OrderBound, Moves, TypeOK', NEW t \in Turn, First(t)
    PROVE  First(t)'
BY BeforeStays, OrderMoves DEF First

\* Whatever holds an earlier request back holds the later ones of its Thread.
LEMMA PendingBefore ==
    ASSUME LedgerInv, NEW t \in Pending, t \in Turn, NEW u \in Turn, Before(u, t),
           state[u] = "queued"
    PROVE  u \in Pending
<1>1. u \in requests
  BY DEF LedgerInv, AcceptedIsHeld, Before, Open, OpenStates
<1> QED BY <1>1 DEF Pending, Held, Before

LEMMA FirstPending ==
    ASSUME LedgerInv, NEW th \in Thread, NEW t \in FirstOf(PendingOf(th))
    PROVE  t \in Turn /\ First(t)
<1>1. /\ t \in Turn /\ t \in Pending /\ t \in requests /\ ThreadOf[t] = th
      /\ \A u \in PendingOf(th) : order[t] <= order[u]
  BY DEF FirstOf, PendingOf, Pending, TurnsOf
<1>2. state[t] # "none"
  BY <1>1 DEF LedgerInv, RowsHaveTurns
<1>3. ASSUME NEW u \in Turn, Before(u, t), state[u] = "queued" PROVE FALSE
  <2>1. u \in PendingOf(th)
    BY <1>1, <1>3, PendingBefore DEF PendingOf, TurnsOf, Before
  <2>2. order[t] \in Nat /\ order[u] \in Nat
    BY <1>1 DEF LedgerInv, TypeOK, LedgerTypeOK
  <2> QED BY <1>1, <1>3, <2>1, <2>2 DEF Before
<1> QED BY <1>1, <1>2, <1>3 DEF First

LEMMA FifoNext ==
    ASSUME FifoInv, ActorsFollow, Moves, LedgerInv', Owners'
    PROVE  FifoInv'
<1> USE DEF FifoInv
<1>1. TypeOK /\ TypeOK'
  BY DEF LedgerInv
<1>2. OrderBound'
  BY OrderMoves
<1>3. ASSUME NEW th \in Thread, lane'[th].pc = "run", NEW t \in Turn, lane'[th].turn = t
      PROVE  First(t)'
  <2>1. LaneFollows(th)
    BY DEF ActorsFollow
  <2>2. CASE lane[th].pc = "run" /\ lane'[th].turn = lane[th].turn
    BY <1>1, <1>3, <2>2, FirstStays DEF LaneFirst
  <2>3. CASE lane'[th].turn \in FirstOf(PendingOf(th))
    BY <1>1, <1>3, <2>3, FirstPending, FirstStays
  <2> QED BY <1>3, <2>1, <2>2, <2>3 DEF LaneFollows
<1>4. ASSUME NEW th \in Thread, cli'[th].pc \in {"wait", "ready"}, NEW t \in Turn,
             cli'[th].turn = t
      PROVE  First(t)'
  <2>1. CliFollows(th)
    BY DEF ActorsFollow
  <2>2. CASE cli[th].pc \in {"wait", "ready"} /\ cli'[th].turn = cli[th].turn
    BY <1>1, <1>4, <2>2, FirstStays DEF CliFirst
  <2>3. CASE Next1(t) /\ ~Blocked(t)
    <3>1. t \in pump.batch /\ \A u \in pump.batch : order[t] <= order[u]
      BY <2>3 DEF Next1, FirstOf
    <3>2. state[t] # "none" /\ InBatch(t, pump.batch)
      BY <2>3, <3>1 DEF BatchFirst, Blocked
    <3>3. \A u \in Turn : order[u] \in Nat
      BY <1>1 DEF TypeOK, LedgerTypeOK
    <3>4. First(t)
      BY <3>1, <3>2, <3>3 DEF First, InBatch, Before
    <3> QED BY <1>1, <3>4, FirstStays
  <2>4. ASSUME NEW v \in Turn, cli'[th] = [NoCli EXCEPT !.pc = "wait", !.turn = v]
        PROVE  v = t
    BY <1>4, <2>4 DEF NoCli
  <2> QED BY <1>4, <2>1, <2>2, <2>3, <2>4 DEF CliFollows
<1>5. BatchFirst'
  <2>1. PumpFollows
    BY DEF ActorsFollow
  <2>2. \A t \in pump.batch : t \in Turn /\ state[t] # "none" /\ state'[t] # "none"
    BY <1>1, OrderMoves DEF TypeOK, PumpTypeOK, BatchFirst
  <2>3. ASSUME NEW t \in pump.batch, InBatch(t, pump.batch), NEW batch,
               \A u \in pump.batch \ batch : state[u] # "queued"
        PROVE  \A u \in Turn : Before(u, t)' /\ state'[u] = "queued" => u \in batch
    <3> SUFFICES ASSUME NEW u \in Turn, Before(u, t)', state'[u] = "queued"
                 PROVE  u \in batch
      OBVIOUS
    <3>1. Before(u, t) /\ state[u] = "queued"
      BY <1>1, <2>2, BeforeStays
    <3> QED BY <2>3, <3>1 DEF InBatch
  <2>4. CASE pump'.batch = {}
    BY <2>4 DEF BatchFirst
  <2>5. CASE pump' = Snapshot /\ UNCHANGED ledger
    <3>1. ASSUME NEW t \in pump'.batch PROVE state'[t] # "none" /\ InBatch(t, pump.batch)'
      <4>1. pump'.batch = Pending /\ t \in requests /\ t \in Turn
        BY <1>1, <2>5, <3>1 DEF Snapshot, NoPump, Pending, TypeOK, LedgerTypeOK
      <4>2. InBatch(t, Pending)
        BY <4>1, PendingBefore DEF InBatch
      <4>3. state[t] # "none"
        BY <4>1 DEF LedgerInv, RowsHaveTurns
      <4> QED BY <2>5, <4>1, <4>2, <4>3 DEF InBatch, Before, ledger
    <3> QED BY <3>1 DEF BatchFirst, InBatch, Before
  <2>6. CASE pump'.batch = pump.batch /\ pump'.seen = pump.seen
    BY <2>2, <2>3, <2>6 DEF BatchFirst, InBatch, Before
  <2>7. ASSUME NEW v \in pump.batch, pump'.batch = pump.batch \ {v},
               pump'.seen = pump.seen /\ state[v] # "queued"
        PROVE  BatchFirst'
    BY <2>2, <2>3, <2>7 DEF BatchFirst, InBatch, Before
  <2>8. ASSUME NEW v \in pump.batch, pump'.batch = pump.batch \ {v},
               pump'.seen = pump.seen \cup {ThreadOf[v]}
        PROVE  BatchFirst'
    <3>1. ASSUME NEW t \in pump'.batch, ThreadOf[t] \notin pump'.seen
          PROVE  InBatch(t, pump.batch)'
      <4>1. InBatch(t, pump.batch)
        BY <2>8, <3>1 DEF BatchFirst
      <4> SUFFICES ASSUME NEW u \in Turn, Before(u, t)', state'[u] = "queued"
                   PROVE  u \in pump'.batch
        BY DEF InBatch, Before
      <4>2. Before(u, t) /\ state[u] = "queued"
        BY <1>1, <2>2, <2>8, BeforeStays
      <4>3. u # v
        BY <2>8, <3>1, <4>2 DEF Before
      <4> QED BY <2>8, <4>1, <4>2, <4>3 DEF InBatch
    <3> QED BY <2>2, <2>8, <3>1 DEF BatchFirst, InBatch, Before
  <2>9. /\ NoPump.batch = {}
        /\ [NoPump EXCEPT !.pc = "cancels", !.queued = Marked("queued"),
                          !.running = Marked("running")].batch = {}
    BY DEF NoPump
  <2> QED BY <2>1, <2>4, <2>5, <2>6, <2>7, <2>8, <2>9 DEF PumpFollows
<1>6. LaneFirst'
  BY <1>1, <1>3 DEF TypeOK, LaneTypeOK, LaneFirst
<1>7. CliFirst'
  BY <1>1, <1>4 DEF TypeOK, CliTypeOK, CliFirst
<1> QED BY <1>2, <1>5, <1>6, <1>7

LEMMA FifoInductive == Spec => []FifoInv
<1>1. Init => FifoInv
  BY TypeInit, ReportAssumption
  DEF Init, FifoInv, LedgerInv, ReportedOnce, AcceptedIsHeld, Open, OpenStates, Terminal,
      RowsHaveTurns, DroppedEnded, Owners, AdmissionAlone, QueuedAreMarked, CliOwns,
      LaneOwns, OrderBound, LaneFirst, CliFirst, BatchFirst, NoPump, NoStop, NoDrop,
      NoCli, NoLane
<1>2. FifoInv /\ [Next]_vars => FifoInv'
  <2> SUFFICES ASSUME FifoInv, [Next]_vars PROVE FifoInv'
    OBVIOUS
  <2>1. LedgerInv' /\ Moves
    BY TypeNext, NextMoves, MovesKeep DEF FifoInv, LedgerInv
  <2>2. ActorsFollow
    BY NextFollows DEF FifoInv
  <2> QED BY <2>1, <2>2, OwnersNext, FifoNext DEF FifoInv
<1> QED BY <1>1, <1>2, PTL DEF Spec

\* Per-Thread FIFO, across the poller's stale snapshot, both executors, held
\* reports, removals and restarts.
THEOREM RequestsStartInOrder == Spec => FifoStart
<1> DEFINE Fifo == \A t, u \in Turn :
              /\ state[t] = "queued" /\ state'[t] = "running"
              /\ ThreadOf[u] = ThreadOf[t] /\ KindOf[u] \notin {"report", "background"}
              /\ 0 < order[u] /\ order[u] < order[t]
              => ~Open(u)
<1>1. FifoInv /\ [Next]_vars => Fifo
  <2> SUFFICES ASSUME FifoInv, [Next]_vars, NEW t \in Turn, NEW u \in Turn,
                      state[t] = "queued", state'[t] = "running", Before(u, t), Open(u)
               PROVE  FALSE
    BY DEF Before
  <2>1. StartedBy(t)
    BY NextChanges DEF FifoInv, Changes, Terminal
  <2>2. First(t)
    BY <2>1 DEF StartedBy, FifoInv, LaneFirst, CliFirst
  <2>3. state[u] # "running"
    BY <2>1 DEF StartedBy, RunningIn, TurnsOf, Before
  <2> QED BY <2>2, <2>3 DEF First, Open, OpenStates
<1>2. FifoInv /\ [Next]_vars => [Fifo]_vars
  BY <1>1
<1> QED BY <1>2, FifoInductive, PTL DEF Spec, FifoStart

-----------------------------------------------------------------------------
(* Where only the CLI executes, a cancellation ends the turn it was for *)

\* Every turn of the Thread was accepted for the CLI.
CliOnly(th) == \A t \in TurnsOf(th) : ExecOf[t] = "cli"
Addressed == cancelReq \cup asked

\* In such a Thread a running turn is what the CLI work executes. So the turns
\* the poller found running and marked are the ones it signals; and while a Stop
\* is on its way no other turn takes the place of the one it was meant for.
RunsInCli == \A t \in Turn : CliOnly(ThreadOf[t]) /\ state[t] = "running" =>
    cli[ThreadOf[t]].turn = t /\ cli[ThreadOf[t]].pc \in {"bind", "drive", "done"}
PumpAims == pump.pc = "cancels" => \A t \in pump.running :
    /\ t \in cancelReq
    /\ LET th == ThreadOf[t]
       IN  CliOnly(th) /\ cli[th].pc # "none" => cli[th].turn = t
StopAims == stop.pc = "deliver" =>
    (cli[stop.thread].pc # "none" => cli[stop.thread].turn \in asked)
DropAims == drop.pc # "idle" => drop.turn \in asked
CliAims == \A th \in Thread :
    /\ CliOnly(th) /\ cli[th].pc # "none"
    /\ cli[th].token \/ (cli[th].pc = "done" /\ cli[th].outcome = "cancelled")
    => cli[th].turn \in Addressed
CancelledIn(th) == \A t \in TurnsOf(th) : state[t] = "cancelled" => t \in Addressed
AimInv == /\ LedgerInv /\ Owners /\ RunsInCli /\ PumpAims /\ StopAims /\ DropAims
          /\ CliAims /\ \A th \in Thread : CliOnly(th) => CancelledIn(th)


\* What a step may do to the CLI work of a Thread: it ends with nothing left
\* running, keeps its turn and is told to stop for a reason, or starts.
SignalledFor(th) ==
    \/ pump.pc = "cancels" /\ cli[th].turn \in pump.queued
    \/ pump.pc = "cancels" /\ \E t \in pump.running : ThreadOf[t] = th
    \/ stop.pc = "deliver" /\ stop.thread = th
    \/ cli[th].turn \in asked'
Executing == {"bind", "drive", "done"}
WorkFollows(th) ==
    \/ /\ cli'[th].pc = "none"
       /\ cli[th].pc \in Executing => \A t \in Turn : state'[t] # "running"
    \/ /\ cli[th].pc # "none" /\ cli'[th].pc # "none" /\ cli'[th].turn = cli[th].turn
       /\ cli'[th].token => cli[th].token \/ SignalledFor(th)
       /\ cli'[th].pc = "done" /\ cli'[th].outcome = "cancelled" =>
             cli[th].token \/ (cli[th].pc = "done" /\ cli[th].outcome = "cancelled")
       /\ \/ cli'[th].pc = cli[th].pc
          \/ cli[th].pc \in Executing /\ cli'[th].pc \in Executing
          \/ cli[th].pc \notin Executing
          \/ state'[cli[th].turn] # "running"
    \/ /\ cli[th].pc = "none" /\ pump.pc = "requests"
       /\ ~cli'[th].token /\ cli'[th].pc = "wait"

\* Which CLI turns start: the one of the work that ran it.
RunsFollow == \A t \in Turn : ExecOf[t] = "cli" /\ state'[t] = "running" =>
    \/ state[t] = "running"
    \/ \E th \in Thread : /\ cli[th].pc = "ready" /\ cli[th].turn = t
                          /\ cli'[th].pc = "bind" /\ cli'[th].turn = t
CancelledBy(t) ==
    \/ state[t] = "cancelled"
    \/ t \in pump.queued
    \/ drop.pc = "act" /\ drop.turn = t
    \/ ExecOf[t] = "native"
    \/ \E th \in Thread : /\ cli[th].turn = t /\ cli[th].pc = "done"
                          /\ cli[th].outcome = "cancelled"
AimsFollow ==
    /\ cancelReq \subseteq cancelReq' /\ asked \subseteq asked'
    /\ pump'.pc = "cancels" =>
          \/ pump.pc = "cancels" /\ pump'.running \subseteq pump.running
          \/ pump'.running = Marked("running") /\ UNCHANGED <<state, cli>>
    /\ stop'.pc = "deliver" =>
          \/ stop' = stop
          \/ /\ UNCHANGED cli
             /\ cli[stop'.thread].turn # None => cli[stop'.thread].turn \in asked'
    /\ drop'.pc # "idle" =>
          (drop.pc # "idle" /\ drop'.turn = drop.turn) \/ drop'.turn \in asked'
    /\ \A t \in Turn : state'[t] = "cancelled" => CancelledBy(t)
    /\ RunsFollow

LEMMA EndsRun ==
    ASSUME LedgerInv, NEW t \in Turn, NEW outcome \in Terminal, Finish(IfOpen(t), outcome)
    PROVE  /\ RunsFollow /\ state'[t] # "running"
           /\ \A u \in Turn : state'[u] = "cancelled" =>
                 state[u] = "cancelled" \/ (u = t /\ outcome = "cancelled")
<1>1. /\ IfOpen(t) \in SUBSET Turn /\ Ends(IfOpen(t), outcome)
      /\ IfOpen(t) \subseteq {t} /\ (t \in IfOpen(t) <=> Open(t))
  BY DEF IfOpen, Ends
<1>2. /\ \A u \in IfOpen(t) : state'[u] = outcome
      /\ \A u \in Reports(IfOpen(t)) : state'[u] = "queued"
      /\ \A u \in Turn \ (IfOpen(t) \cup Reports(IfOpen(t))) : state'[u] = state[u]
  BY <1>1, EndsEffect
<1>3. state'[t] # "running"
  BY <1>1, <1>2 DEF Open, OpenStates, Terminal
<1>4. RunsFollow
  BY <1>1, <1>2 DEF RunsFollow, Terminal
<1> QED BY <1>1, <1>2, <1>3, <1>4

LEMMA WorkStill ==
    ASSUME UNCHANGED cli
    PROVE  \A th \in Thread : WorkFollows(th)
BY DEF WorkFollows, Executing

LEMMA SignalWork ==
    ASSUME TypeOK, NEW th \in Thread, Signal(th),
           cli[th].pc # "none" => SignalledFor(th)
    PROVE  \A d \in Thread : WorkFollows(d)
<1>1. \A d \in Thread : /\ cli'[d].pc = cli[d].pc /\ cli'[d].turn = cli[d].turn
                        /\ cli'[d].outcome = cli[d].outcome
                        /\ d # th => cli'[d].token = cli[d].token
  BY DEF Signal, TypeOK, CliTypeOK
<1> QED BY <1>1 DEF WorkFollows, Executing

LEMMA StateStill ==
    ASSUME UNCHANGED state
    PROVE  RunsFollow /\ \A t \in Turn : state'[t] = "cancelled" => CancelledBy(t)
BY DEF RunsFollow, CancelledBy

LEMMA CancelOwnedAims ==
    ASSUME LedgerInv, Owners, NEW th \in Thread, CancelOwned(th)
    PROVE  RunsFollow /\ \A t \in Turn : state'[t] = "cancelled" => CancelledBy(t)
<1>1. CASE UNCHANGED ledger
  BY <1>1, StateStill DEF ledger
<1>2. CASE OwnsTurn(th) /\ CompleteRemoving(anchor[th], "cancelled", {anchor[th]})
  <2>1. anchor[th] \in Turn /\ ExecOf[anchor[th]] = "native"
    BY <1>2 DEF OwnsTurn, LedgerInv, TypeOK, LaneTypeOK, Owners, LaneOwns
  <2> QED BY <1>2, <2>1, EndsRun DEF CompleteRemoving, CancelledBy, Terminal
<1> QED BY <1>1, <1>2 DEF CancelOwned

LEMMA EnvironmentAims ==
    ASSUME LedgerInv, Owners, Environment
    PROVE  AimsFollow /\ \A th \in Thread : WorkFollows(th)
<1> USE DEF ledger, flags, native, actors, ghosts
<1>1. TypeOK /\ \A t \in Turn : ThreadOf[t] \in Thread
  BY TreeAssumption DEF LedgerInv
<1>2. ASSUME UNCHANGED <<actors, asked>>, cancelReq \subseteq cancelReq', UNCHANGED state
      PROVE  AimsFollow /\ \A th \in Thread : WorkFollows(th)
  BY <1>2, StateStill, WorkStill DEF AimsFollow
<1>3. ASSUME NEW t \in Turn, Accepted(t), UNCHANGED <<flags, actors, ghosts>>
      PROVE  AimsFollow /\ \A th \in Thread : WorkFollows(th)
  <2>1. \A u \in Turn : state'[u] = state[u] \/ state'[u] = "queued"
    BY <1>1, <1>3 DEF Accepted, TypeOK, LedgerTypeOK
  <2> QED BY <1>3, <2>1, WorkStill DEF AimsFollow, RunsFollow, CancelledBy
<1>4. ASSUME NEW t \in Turn, DropBegin(t)
      PROVE  AimsFollow /\ \A th \in Thread : WorkFollows(th)
  <2>1. \A th \in Thread : WorkFollows(th)
    BY <1>1, <1>4, SignalWork, WorkStill DEF DropBegin, SignalledFor
  <2> QED BY <1>4, <2>1, StateStill DEF DropBegin, AimsFollow
<1>5. ASSUME NEW th \in Thread, StopBegin(th)
      PROVE  AimsFollow /\ \A d \in Thread : WorkFollows(d)
  BY <1>5, StateStill, WorkStill DEF StopBegin, AimsFollow
<1>6. CASE CrashRestart
  <2> DEFINE cut == {t \in Turn : state[t] = "running"}
  <2>1. cut \in SUBSET Turn /\ Ends(cut, "interrupted") /\ "interrupted" \in Terminal
    BY <1>6 DEF CrashRestart, Interrupt, Ends, Open, OpenStates, Terminal
  <2>2. \A t \in Turn : /\ state'[t] # "running"
                        /\ state'[t] = "cancelled" => state[t] = "cancelled"
    <3>1. \A t \in Turn \ cut : state[t] # "running"
      OBVIOUS
    <3> HIDE DEF cut
    <3> QED BY <2>1, <3>1, EndsEffect
  <2>3. \A th \in Thread : WorkFollows(th)
    BY <1>6, <2>2 DEF CrashRestart, WorkFollows, NoCli
  <2> QED BY <1>6, <2>2, <2>3
          DEF CrashRestart, AimsFollow, RunsFollow, CancelledBy, NoPump, NoStop, NoDrop
<1>7. CASE \/ \E th \in Thread, keep \in Turn \cup {None} : Archive(th, keep)
           \/ \E th \in Thread : \/ Unarchive(th) \/ Snooze(th) \/ SnoozeEnds(th)
                                 \/ QueueCommand(th)
           \/ \E a \in Turn, th \in Thread : AgentCancel(a, th)
  <2>1. UNCHANGED <<actors, asked>> /\ cancelReq \subseteq cancelReq' /\ UNCHANGED state
    BY <1>7 DEF Archive, Unarchive, Snooze, SnoozeEnds, QueueCommand, AgentCancel
  <2> QED BY <1>2, <2>1
<1> QED BY <1>3, <1>4, <1>5, <1>6, <1>7
        DEF Environment, OwnerArchive, AgentArchive, AcceptOwner, AcceptWake, Delegate

LEMMA PumpAimsFollow ==
    ASSUME LedgerInv, Owners, PumpStep \/ PumpIdle
    PROVE  AimsFollow /\ \A th \in Thread : WorkFollows(th)
<1> USE DEF ledger, flags, native, actors, ghosts
<1>1. TypeOK /\ PumpTypeOK /\ \A t \in Turn : ThreadOf[t] \in Thread
  BY TreeAssumption DEF LedgerInv, TypeOK
<1>2. ASSUME NEW t \in Turn, PumpCancelQueued(t)
      PROVE  AimsFollow /\ \A th \in Thread : WorkFollows(th)
  <2>1. \A th \in Thread : WorkFollows(th)
    BY <1>1, <1>2, SignalWork, WorkStill DEF PumpCancelQueued, SignalledFor
  <2>2. RunsFollow /\ \A u \in Turn : state'[u] = "cancelled" => CancelledBy(u)
    BY <1>2, EndsRun
    DEF PumpCancelQueued, Complete, CompleteRemoving, CancelledBy, Terminal
  <2> QED BY <1>1, <1>2, <2>1, <2>2 DEF PumpCancelQueued, PumpTypeOK, AimsFollow
<1>3. ASSUME NEW t \in Turn, PumpCancelCli(t)
      PROVE  AimsFollow /\ \A th \in Thread : WorkFollows(th)
  <2>1. \A th \in Thread : WorkFollows(th)
    BY <1>1, <1>3, SignalWork DEF PumpCancelCli, SignalledFor
  <2> QED BY <1>1, <1>3, <2>1, StateStill DEF PumpCancelCli, PumpTypeOK, AimsFollow
<1>4. ASSUME NEW t \in Turn, PumpCancelLane(t)
      PROVE  AimsFollow /\ \A th \in Thread : WorkFollows(th)
  <2>1. RunsFollow /\ \A u \in Turn : state'[u] = "cancelled" => CancelledBy(u)
    BY <1>1, <1>4, CancelOwnedAims DEF PumpCancelLane
  <2>2. pump'.pc = "cancels" => pump'.running \subseteq pump.running
    BY <1>1, <1>4 DEF PumpCancelLane, PumpTypeOK, NoPump
  <2> QED BY <1>4, <2>1, <2>2, WorkStill DEF PumpCancelLane, AimsFollow
<1>5. ASSUME NEW t \in Turn, PumpLaneUnavailable(t)
      PROVE  AimsFollow /\ \A th \in Thread : WorkFollows(th)
  <2>1. RunsFollow /\ \A u \in Turn : state'[u] = "cancelled" => CancelledBy(u)
    BY <1>5, EndsRun
    DEF PumpLaneUnavailable, Complete, CompleteRemoving, CancelledBy, Terminal
  <2>2. pump'.pc # "cancels"
    BY <1>1, <1>5 DEF PumpLaneUnavailable, Next1, ConsumedSeen, Without, PumpTypeOK, NoPump
  <2> QED BY <1>5, <2>1, <2>2, WorkStill DEF PumpLaneUnavailable, AimsFollow
<1>6. ASSUME NEW t \in Turn, PumpSpawnCli(t)
      PROVE  AimsFollow /\ \A th \in Thread : WorkFollows(th)
  <2>1. pump.pc = "requests" /\ pump'.pc # "cancels"
    BY <1>1, <1>6 DEF PumpSpawnCli, Next1, ConsumedSeen, Without, PumpTypeOK, NoPump
  <2>2. ASSUME NEW d \in Thread PROVE WorkFollows(d)
    <3>1. CASE d = ThreadOf[t]
      <4>1. cli'[d] = [NoCli EXCEPT !.pc = "wait", !.turn = t] /\ cli[d].pc = "none"
        BY <1>1, <1>6, <3>1 DEF PumpSpawnCli, Blocked, TypeOK, CliTypeOK
      <4> QED BY <2>1, <4>1 DEF WorkFollows, NoCli
    <3>2. CASE d # ThreadOf[t]
      <4>1. cli'[d] = cli[d]
        BY <1>1, <1>6, <3>2 DEF PumpSpawnCli, TypeOK, CliTypeOK
      <4> QED BY <4>1 DEF WorkFollows, Executing
    <3> QED BY <3>1, <3>2
  <2> QED BY <1>6, <2>1, <2>2, StateStill DEF PumpSpawnCli, AimsFollow
<1>7. CASE \/ PumpBegin \/ PumpIdle \/ PumpSnapshot
  <2>1. UNCHANGED <<state, cancelReq, cli, stop, drop, asked>>
    BY <1>7 DEF PumpBegin, PumpIdle, PumpSnapshot, vars
  <2>2. Snapshot.pc # "cancels"
    BY DEF Snapshot, NoPump
  <2>3. pump'.pc = "cancels" => pump' = pump \/ pump'.running = Marked("running")
    BY <1>7, <2>2 DEF PumpBegin, PumpIdle, PumpSnapshot, NoPump, vars
  <2> QED BY <2>1, <2>3, StateStill, WorkStill DEF AimsFollow
<1>8. ASSUME NEW t \in Turn, PumpSkipBusy(t) \/ PumpSkipCli(t) \/ PumpNotifyLane(t)
      PROVE  AimsFollow /\ \A th \in Thread : WorkFollows(th)
  <2>1. pump.pc = "requests" /\ (pump' = Consumed(t) \/ pump' = ConsumedSeen(t))
    BY <1>8 DEF PumpSkipBusy, PumpSkipCli, PumpNotifyLane, Next1
  <2>2. pump'.pc # "cancels"
    <3>1. \A seen : Without(t, seen).pc \in {"idle", "requests"}
      BY <1>1, <2>1 DEF Without, PumpTypeOK, NoPump
    <3> QED BY <2>1, <3>1 DEF Consumed, ConsumedSeen
  <2> QED BY <1>8, <2>2, StateStill, WorkStill
          DEF PumpSkipBusy, PumpSkipCli, PumpNotifyLane, AimsFollow
<1> QED BY <1>2, <1>3, <1>4, <1>5, <1>6, <1>7, <1>8 DEF PumpStep

LEMMA OwnerAimsFollow ==
    ASSUME LedgerInv, Owners, OwnerStep
    PROVE  AimsFollow /\ \A th \in Thread : WorkFollows(th)
<1> USE DEF ledger, flags, native, actors, ghosts
<1>1. TypeOK /\ OwnerTypeOK
  BY DEF LedgerInv, TypeOK
<1>2. CASE StopDeliver
  <2>1. stop.thread \in Thread /\ stop.pc = "deliver" /\ stop'.pc # "deliver"
    BY <1>1, <1>2 DEF StopDeliver, OwnerTypeOK, NoStop
  <2>2. \A th \in Thread : WorkFollows(th)
    BY <1>1, <1>2, <2>1, SignalWork, WorkStill DEF StopDeliver, SignalledFor
  <2>3. RunsFollow /\ \A u \in Turn : state'[u] = "cancelled" => CancelledBy(u)
    BY <1>2, <2>1, StateStill, CancelOwnedAims DEF StopDeliver
  <2> QED BY <1>2, <2>1, <2>2, <2>3 DEF StopDeliver, AimsFollow
<1>3. CASE DropCli \/ DropFinish
  <2>1. drop.turn \in Turn /\ drop.pc = "act"
    BY <1>1, <1>3 DEF DropCli, DropFinish, OwnerTypeOK
  <2>2. RunsFollow /\ \A u \in Turn : state'[u] = "cancelled" => CancelledBy(u)
    BY <1>3, <2>1, EndsRun
    DEF DropCli, DropFinish, Complete, CompleteRemoving, CancelledBy, Terminal
  <2>3. drop'.pc # "idle" => drop'.turn = drop.turn
    BY <1>1, <1>3 DEF DropCli, DropFinish, NoDrop, OwnerTypeOK
  <2> QED BY <1>3, <2>1, <2>2, <2>3, WorkStill DEF DropCli, DropFinish, AimsFollow
<1>4. CASE DropClaimed \/ DropClean
  BY <1>4, StateStill, WorkStill DEF DropClaimed, DropClean, NoDrop, AimsFollow
<1> QED BY <1>2, <1>3, <1>4 DEF OwnerStep

LEMMA CliAimsFollow ==
    ASSUME LedgerInv, Owners, NEW th \in Thread, CliStep(th)
    PROVE  AimsFollow /\ \A d \in Thread : WorkFollows(d)
<1> USE DEF ledger, flags, native, actors, ghosts
<1>1. TypeOK /\ CliTypeOK /\ LedgerTypeOK
  BY DEF LedgerInv, TypeOK
<1>2. UNCHANGED <<pump, stop, drop, cancelReq, asked>>
  BY DEF CliStep, CliAcquire, CliCancelledWaiting, CliRun, CliBind, CliDriven,
         CliComplete, CliRemove
<1>3. ASSUME NEW d \in Thread, d # th PROVE WorkFollows(d)
  <2>1. cli'[d] = cli[d]
    BY <1>1, <1>3 DEF CliTypeOK, CliStep, CliAcquire, CliCancelledWaiting, CliRun,
                CliBind, CliDriven, CliComplete, CliRemove, CliGoes, CliEnds
  <2> QED BY <2>1 DEF WorkFollows, Executing
<1>4. /\ \A pc : CliGoes(th, pc) => cli'[th] = [cli[th] EXCEPT !.pc = pc]
      /\ \A o : CliEnds(th, o) => cli'[th] = [cli[th] EXCEPT !.pc = "done", !.outcome = o]
  BY <1>1 DEF CliGoes, CliEnds, CliTypeOK
<1>5. cli[th] \in [pc : CliPcs, turn : Turn \cup {None},
                   token : BOOLEAN, outcome : Terminal \cup {None}]
  BY <1>1 DEF CliTypeOK
<1>6. CASE CliComplete(th)
  <2>1. /\ cli[th].turn \in Turn /\ cli[th].outcome \in Terminal /\ cli[th].pc = "done"
        /\ cli'[th] = [cli[th] EXCEPT !.pc = "remove"]
    BY <1>1, <1>4, <1>6 DEF CliComplete, CliTypeOK
  <2>2. Finish(IfOpen(cli[th].turn), cli[th].outcome)
    BY <1>6 DEF CliComplete, Complete, CompleteRemoving
  <2>3. /\ RunsFollow /\ state'[cli[th].turn] # "running"
        /\ \A u \in Turn : state'[u] = "cancelled" => CancelledBy(u)
    BY <2>1, <2>2, EndsRun DEF CancelledBy
  <2>4. WorkFollows(th)
    BY <1>5, <2>1, <2>3 DEF WorkFollows, Executing
  <2> QED BY <1>2, <1>3, <2>3, <2>4 DEF AimsFollow
<1>7. CASE CliRun(th)
  <2>1. cli[th].turn \in Turn /\ cli[th].pc = "ready"
    BY <1>1, <1>7 DEF CliRun, CliTypeOK
  <2>2. \/ UNCHANGED state /\ cli'[th] = [cli[th] EXCEPT !.pc = "done", !.outcome = "failed"]
        \/ /\ state' = [state EXCEPT ![cli[th].turn] = "running"]
           /\ cli'[th] = [cli[th] EXCEPT !.pc = "bind"]
    BY <1>4, <1>7 DEF CliRun, RunTurn
  <2>3. WorkFollows(th)
    BY <1>5, <2>1, <2>2 DEF WorkFollows, Executing
  <2>4. CASE UNCHANGED state
    BY <1>2, <1>3, <2>3, <2>4, StateStill DEF AimsFollow
  <2>5. CASE /\ state' = [state EXCEPT ![cli[th].turn] = "running"]
             /\ cli'[th] = [cli[th] EXCEPT !.pc = "bind"]
    <3>1. \A t \in Turn \ {cli[th].turn} : state'[t] = state[t]
      BY <1>1, <2>5 DEF LedgerTypeOK
    <3>2. state'[cli[th].turn] = "running"
      BY <1>1, <2>1, <2>5 DEF LedgerTypeOK
    <3>3. cli'[th].pc = "bind" /\ cli'[th].turn = cli[th].turn
      BY <1>5, <2>5
    <3> QED BY <1>2, <1>3, <2>1, <2>3, <3>1, <3>2, <3>3
            DEF AimsFollow, RunsFollow, CancelledBy
  <2> QED BY <2>2, <2>4, <2>5
<1>8. CASE \/ CliAcquire(th) \/ CliCancelledWaiting(th) \/ CliBind(th) \/ CliRemove(th)
           \/ \E o \in Terminal : CliDriven(th, o)
  <2>1. UNCHANGED state
    BY <1>8 DEF CliAcquire, CliCancelledWaiting, CliBind, CliRemove, CliDriven
  <2>2. WorkFollows(th)
    <3>1. CASE CliAcquire(th) \/ CliCancelledWaiting(th)
      <4>1. \/ cli[th].pc = "wait" /\ cli'[th] = [cli[th] EXCEPT !.pc = "ready"]
            \/ /\ cli[th].pc = "wait" /\ cli[th].token
               /\ cli'[th] = [cli[th] EXCEPT !.pc = "done", !.outcome = "cancelled"]
        BY <1>4, <3>1 DEF CliAcquire, CliCancelledWaiting
      <4> QED BY <1>5, <4>1 DEF WorkFollows, Executing
    <3>2. CASE CliBind(th)
      <4>1. /\ cli[th].pc = "bind"
            /\ \/ cli'[th] = [cli[th] EXCEPT !.pc = "drive"]
               \/ cli'[th] = [cli[th] EXCEPT !.pc = "done", !.outcome = "failed"]
        BY <1>4, <3>2 DEF CliBind
      <4> QED BY <1>5, <4>1 DEF WorkFollows, Executing
    <3>3. ASSUME NEW o \in Terminal, CliDriven(th, o) PROVE WorkFollows(th)
      <4>1. /\ cli[th].pc = "drive" /\ cli'[th] = [cli[th] EXCEPT !.pc = "done", !.outcome = o]
            /\ o = "cancelled" => cli[th].token
        BY <1>4, <3>3 DEF CliDriven
      <4> QED BY <1>5, <4>1 DEF WorkFollows, Executing
    <3>4. CASE CliRemove(th)
      BY <1>1, <3>4 DEF CliRemove, NoCli, WorkFollows, Executing, CliTypeOK
    <3> QED BY <1>8, <3>1, <3>2, <3>3, <3>4
  <2> QED BY <1>2, <1>3, <2>1, <2>2, StateStill DEF AimsFollow
<1> QED BY <1>6, <1>7, <1>8 DEF CliStep

LEMMA LaneAimsFollow ==
    ASSUME LedgerInv, Owners, NEW th \in Thread, LaneStep(th)
    PROVE  AimsFollow /\ \A d \in Thread : WorkFollows(d)
<1> USE DEF ledger, flags, native, actors, ghosts
<1>1. TypeOK /\ LaneTypeOK /\ LedgerTypeOK
  BY DEF LedgerInv, TypeOK
<1>2. UNCHANGED <<pump, stop, drop, cli, cancelReq, asked>>
  BY DEF LaneStep, LaneAdmit, LaneBegin, LaneDiscard, LanePick, LaneBackground, LaneResume,
         LaneRest, LaneRun, LaneBind, LaneDrained, LaneDrainError, LaneEmpty, LaneSettle,
         LaneHalt
<1>3. ASSUME RunsFollow, \A u \in Turn : state'[u] = "cancelled" => CancelledBy(u)
      PROVE  AimsFollow /\ \A d \in Thread : WorkFollows(d)
  BY <1>2, <1>3, WorkStill DEF AimsFollow
<1>4. ASSUME NEW t \in Turn, ExecOf[t] = "native",
             UNCHANGED state \/ state' = [state EXCEPT ![t] = "running"]
      PROVE  RunsFollow /\ \A u \in Turn : state'[u] = "cancelled" => CancelledBy(u)
  BY <1>1, <1>4 DEF LedgerTypeOK, RunsFollow, CancelledBy
<1>5. CASE LaneSettle(th)
  <2>1. /\ anchor[th] \in Turn /\ ExecOf[anchor[th]] = "native"
        /\ lane[th].outcome \in Terminal
    BY <1>1, <1>5, TreeAssumption DEF LaneSettle, LaneTypeOK, Owners, LaneOwns
  <2> QED BY <1>3, <1>5, <2>1, EndsRun DEF LaneSettle, CompleteRemoving, CancelledBy
<1>6. CASE LaneRun(th)
  <2>1. lane[th].turn \in Turn /\ ExecOf[lane[th].turn] = "native"
    BY <1>1, <1>6 DEF LaneRun, LaneTypeOK, Owners, LaneOwns
  <2>2. UNCHANGED state \/ state' = [state EXCEPT ![lane[th].turn] = "running"]
    BY <1>1, <1>6, <2>1 DEF LaneRun, RunTurn, LedgerTypeOK
  <2> QED BY <1>3, <1>4, <2>1, <2>2
<1>7. ASSUME NEW b \in Turn, LaneBackground(th, b)
      PROVE  AimsFollow /\ \A d \in Thread : WorkFollows(d)
  <2>1. ExecOf[b] = "native"
    BY <1>7, ReportAssumption DEF LaneBackground
  <2> QED BY <1>3, <1>4, <1>7, <2>1 DEF LaneBackground
<1>8. CASE \/ LaneBegin(th) \/ \E t \in Turn : LanePick(th, t) \/ LaneDiscard(th, t)
           \/ LaneResume(th) \/ LaneRest(th) \/ LaneBind(th) \/ LaneDrainError(th)
           \/ \E o \in Terminal : LaneDrained(th, o)
           \/ LaneEmpty(th) \/ LaneHalt(th)
  <2>1. UNCHANGED state
    BY <1>8 DEF LaneBegin, LanePick, LaneDiscard, LaneResume, LaneRest, LaneBind,
                LaneDrainError, LaneDrained, LaneEmpty, LaneHalt
  <2> QED BY <1>3, <2>1, StateStill
<1> QED BY <1>5, <1>6, <1>7, <1>8 DEF LaneStep, LaneAdmit

LEMMA NextAims ==
    ASSUME LedgerInv, Owners, [Next]_vars
    PROVE  AimsFollow /\ \A th \in Thread : WorkFollows(th)
<1>1. CASE UNCHANGED vars
  BY <1>1, StateStill, WorkStill DEF vars, ledger, flags, actors, ghosts, AimsFollow
<1> QED BY <1>1, EnvironmentAims, PumpAimsFollow, OwnerAimsFollow, CliAimsFollow,
           LaneAimsFollow DEF Next

LEMMA AimNext ==
    ASSUME AimInv, [Next]_vars, LedgerInv', Owners'
    PROVE  AimInv'
<1>1. /\ TypeOK /\ TypeOK' /\ AimsFollow /\ \A th \in Thread : WorkFollows(th)
      /\ \A t \in Turn : ThreadOf[t] \in Thread
  BY NextAims, TreeAssumption DEF AimInv, LedgerInv
<1>2. Addressed \subseteq Addressed'
  BY <1>1 DEF AimsFollow, Addressed
<1>3. \A th \in Thread, t \in Turn : CliOnly(th) /\ ThreadOf[t] = th => ExecOf[t] = "cli"
  BY DEF CliOnly, TurnsOf
<1>4. RunsInCli'
  <2> SUFFICES ASSUME NEW t \in Turn, NEW th \in Thread, th = ThreadOf[t], CliOnly(th),
                      state'[t] = "running"
               PROVE  cli'[th].turn = t /\ cli'[th].pc \in Executing
    BY <1>1 DEF RunsInCli, Executing
  <2>1. ExecOf[t] = "cli"
    BY <1>3
  <2>2. CASE state[t] = "running"
    <3>1. cli[th].turn = t /\ cli[th].pc \in Executing
      BY <2>2 DEF AimInv, RunsInCli, Executing
    <3> QED BY <1>1, <3>1 DEF WorkFollows, Executing
  <2>3. ASSUME NEW d \in Thread, cli[d].pc = "ready", cli[d].turn = t,
               cli'[d].pc = "bind", cli'[d].turn = t
        PROVE  cli'[th].turn = t /\ cli'[th].pc \in Executing
    <3>1. d = th
      BY <2>3 DEF AimInv, Owners, CliOwns
    <3> QED BY <2>3, <3>1 DEF Executing
  <2> QED BY <1>1, <2>1, <2>2, <2>3 DEF AimsFollow, RunsFollow
<1>5. PumpAims'
  <2> SUFFICES ASSUME pump'.pc = "cancels", NEW t \in pump'.running
               PROVE  /\ t \in cancelReq'
                      /\ CliOnly(ThreadOf[t]) /\ cli'[ThreadOf[t]].pc # "none" =>
                            cli'[ThreadOf[t]].turn = t
    BY DEF PumpAims
  <2>1. CASE pump.pc = "cancels" /\ pump'.running \subseteq pump.running
    <3>1. t \in Turn /\ WorkFollows(ThreadOf[t]) /\ t \in pump.running
      BY <1>1, <2>1 DEF TypeOK, PumpTypeOK
    <3> QED BY <1>1, <2>1, <3>1 DEF AimInv, PumpAims, WorkFollows, AimsFollow
  <2>2. CASE pump'.running = Marked("running") /\ UNCHANGED <<state, cli>>
    BY <1>1, <2>2 DEF Marked, AimInv, RunsInCli, AimsFollow, TypeOK, FlagsTypeOK
  <2> QED BY <1>1, <2>1, <2>2 DEF AimsFollow
<1>6. StopAims'
  <2> SUFFICES ASSUME stop'.pc = "deliver", cli'[stop'.thread].pc # "none"
               PROVE  cli'[stop'.thread].turn \in asked'
    BY DEF StopAims
  <2>1. CASE stop' = stop
    <3>1. stop.thread \in Thread /\ pump.pc = "idle"
      BY <1>1, <2>1 DEF TypeOK, OwnerTypeOK, AimInv, Owners, AdmissionAlone
    <3>2. WorkFollows(stop.thread)
      BY <1>1, <3>1
    <3> QED BY <1>1, <2>1, <3>1, <3>2 DEF AimInv, StopAims, WorkFollows, AimsFollow
  <2>2. CASE UNCHANGED cli /\ (cli[stop'.thread].turn # None =>
                                  cli[stop'.thread].turn \in asked')
    <3>1. stop'.thread \in Thread
      BY <1>1 DEF TypeOK, OwnerTypeOK
    <3>2. cli[stop'.thread].turn \in Turn
      BY <1>1, <2>2, <3>1 DEF TypeOK, CliTypeOK
    <3> QED BY <2>2, <3>2, TreeAssumption
  <2> QED BY <1>1, <2>1, <2>2 DEF AimsFollow
<1>7. DropAims'
  BY <1>1 DEF AimsFollow, AimInv, DropAims
<1>8. CliAims'
  <2> SUFFICES ASSUME NEW th \in Thread, CliOnly(th), cli'[th].pc # "none",
                      cli'[th].token \/ (cli'[th].pc = "done" /\ cli'[th].outcome = "cancelled")
               PROVE  cli'[th].turn \in Addressed'
    BY DEF CliAims
  <2>1. /\ cli[th].pc # "none" /\ cli'[th].turn = cli[th].turn
        /\ \/ cli[th].token \/ SignalledFor(th)
           \/ cli[th].pc = "done" /\ cli[th].outcome = "cancelled"
    BY <1>1 DEF WorkFollows
  <2>2. CASE SignalledFor(th)
    <3>1. ASSUME NEW t \in pump.running, ThreadOf[t] = th, pump.pc = "cancels"
          PROVE  cli[th].turn \in cancelReq
      BY <2>1, <3>1 DEF AimInv, PumpAims
    <3>2. cli[th].turn \in pump.queued => cli[th].turn \in cancelReq
      BY DEF AimInv, Owners, QueuedAreMarked
    <3>3. stop.pc = "deliver" /\ stop.thread = th => cli[th].turn \in asked
      BY <2>1 DEF AimInv, StopAims
    <3> QED BY <1>1, <2>1, <2>2, <3>1, <3>2, <3>3 DEF SignalledFor, Addressed, AimsFollow
  <2>3. CASE cli[th].token \/ (cli[th].pc = "done" /\ cli[th].outcome = "cancelled")
    BY <1>2, <2>1, <2>3 DEF AimInv, CliAims
  <2> QED BY <2>1, <2>2, <2>3
<1>9. ASSUME NEW th \in Thread, CliOnly(th), NEW t \in TurnsOf(th), state'[t] = "cancelled"
      PROVE  t \in Addressed'
  <2>1. t \in Turn /\ ThreadOf[t] = th /\ ExecOf[t] = "cli" /\ CancelledBy(t)
    BY <1>1, <1>9 DEF TurnsOf, CliOnly, AimsFollow
  <2>2. CASE state[t] = "cancelled"
    BY <1>2, <1>9, <2>2 DEF AimInv, CancelledIn
  <2>3. ASSUME NEW d \in Thread, cli[d].turn = t, cli[d].pc = "done",
               cli[d].outcome = "cancelled"
        PROVE  t \in Addressed
    <3>1. d = th
      BY <2>1, <2>3 DEF AimInv, Owners, CliOwns
    <3> QED BY <1>9, <2>3, <3>1 DEF AimInv, CliAims
  <2>4. CASE t \in pump.queued \/ (drop.pc = "act" /\ drop.turn = t)
    BY <1>2, <2>4 DEF AimInv, Owners, QueuedAreMarked, DropAims, Addressed
  <2> QED BY <1>2, <2>1, <2>2, <2>3, <2>4 DEF CancelledBy
<1> QED BY <1>4, <1>5, <1>6, <1>7, <1>8, <1>9 DEF AimInv, CancelledIn, Executing

LEMMA AimInductive == Spec => []AimInv
<1>1. Init => RunsInCli /\ PumpAims /\ StopAims /\ DropAims /\ CliAims
              /\ \A th \in Thread : CliOnly(th) => CancelledIn(th)
  BY DEF Init, RunsInCli, PumpAims, StopAims, DropAims, CliAims, CancelledIn, TurnsOf,
         NoPump, NoStop, NoDrop, NoCli
<1>2. (LedgerInv /\ Owners) /\ AimInv /\ [Next]_vars /\ (LedgerInv /\ Owners)' => AimInv'
  BY AimNext
<1>3. Init /\ LedgerInv /\ Owners => AimInv
  BY <1>1 DEF AimInv
<1> QED BY <1>2, <1>3, OwnersInductive, PTL DEF Spec

\* In a Thread that only the CLI executes a turn ends cancelled only if its own
\* cancellation was asked for: no Stop, mark or removal, however late it is
\* delivered, ends the message that follows the one it was meant for.
THEOREM CliCancelsAreAddressed ==
    Spec => [](\A th \in Thread : CliOnly(th) => CancelledIn(th))
BY AimInductive, PTL DEF AimInv

\* The same of every turn of a history that never left the CLI.
THEOREM CliHistoryIsAddressed ==
    ASSUME \A t \in Turn : ExecOf[t] = "cli"
    PROVE  Spec => []CancelIsAddressed
<1>1. AimInv => CancelIsAddressed
  BY TreeAssumption DEF AimInv, CliOnly, CancelledIn, TurnsOf, CancelIsAddressed, Addressed
<1> QED BY <1>1, AimInductive, PTL

-----------------------------------------------------------------------------
(* The order of the rows of one Thread *)

\* What is spent of the budget; a Thread that gets no reports; a Thread whose
\* rows are held all or none.
Plain(th) == \A t \in TurnsOf(th) : KindOf[t] # "report"
Even(th) == Plain(th) \/ Budget["snooze"] = 0
Crashed == left["crash"] < Budget["crash"]

LeftBound == /\ \A e \in Events : left[e] <= Budget[e]
             /\ Budget["snooze"] = 0 => snoozed = {}
Ties == \A t, u \in Turn : order[t] = order[u] /\ 0 < order[t] =>
    t = u \/ (KindOf[t] = "report" /\ KindOf[u] = "report" /\ Crashed)
RowsHaveIds == \A t \in requests : 0 < order[t] /\ KindOf[t] # "background"
\* Only a removal of a queued message that a restart cut short leaves the row of
\* an ended turn behind.
Leftover ==
    /\ drop.pc # "idle" => KindOf[drop.turn] = "owner"
    /\ \A t \in requests : state[t] \in Terminal =>
          KindOf[t] = "owner" /\ (Crashed \/ (drop.pc = "clean" /\ drop.turn = t))

AtFront(t) == /\ state[t] # "none"
              /\ \A u \in requests : ThreadOf[u] = ThreadOf[t] => order[t] <= order[u]
LaneFront == \A th \in Thread : Even(th) =>
    /\ lane[th].pc \in {"run", "bind"} /\ KindOf[lane[th].turn] # "background" =>
          AtFront(lane[th].turn)
    /\ anchor[th] # None /\ KindOf[anchor[th]] # "background" => AtFront(anchor[th])

BoundStarted == \A t \in bound : state[t] \in {"running"} \cup Terminal
OwnedIn(th) == \A t \in TurnsOf(th) : Authorized(t) =>
    \/ cli[th].turn = t /\ cli[th].pc = "drive"
    \/ anchor[th] = t
KeepsAuthority(th) == Even(th) \/ Budget["crash"] = 0
OwnedInv == \A th \in Thread : KeepsAuthority(th) => OwnedIn(th)

\* The inputs in Lash.
LashFront == \A t \in Turn : lash[t] = "pending" =>
    /\ KindOf[t] # "background" /\ ExecOf[t] = "native" /\ state[t] # "none"
    /\ Even(ThreadOf[t]) /\ t \in requests => AtFront(t)
OrderedRows(th) == Plain(th) \/ (Budget["snooze"] = 0 /\ Budget["crash"] = 0)
InputsIn(th) ==
    /\ lane[th].pc \in {"run", "bind"} => LashPending(th) \subseteq {lane[th].turn}
    /\ lane[th].pc = "drain" => LashPending(th) \subseteq {anchor[th]}
    /\ anchor[th] # None /\ KindOf[anchor[th]] = "background" => LashPending(th) = {}
InputsInv == \A th \in Thread : OrderedRows(th) => InputsIn(th)
FrontInv == /\ WorkInv /\ OrderBound /\ LeftBound /\ Ties /\ RowsHaveIds /\ Leftover /\ LaneFront
            /\ BoundStarted /\ OwnedInv /\ LashFront /\ InputsInv

\* What a step may do to the ids and the rows of requests: new ones get a fresh
\* id, shared only by the reports of a restart; the row of an ended turn is left
\* by a removal between its two parts, and stays after one cut short.
NewIds == \A t \in Turn :
    \/ order'[t] = order[t]
    \/ /\ state[t] = "none" /\ order'[t] = clock + 1
       /\ \A u \in Turn : order'[u] = clock + 1 =>
             u = t \/ order[u] = clock + 1
             \/ (KindOf[t] = "report" /\ KindOf[u] = "report" /\ Crashed')
NewRows == \A t \in requests' \ requests :
    state[t] = "none" /\ order'[t] = clock + 1 /\ KindOf[t] # "background"
EndedRows == \A t \in requests' : state'[t] \in Terminal =>
    \/ t \in requests /\ state[t] \in Terminal
    \/ drop'.pc = "clean" /\ drop'.turn = t
DropLeaves ==
    /\ drop.pc = "clean" => drop' = drop \/ drop.turn \notin requests' \/ Crashed'
    /\ drop'.pc # "idle" => \/ drop.pc # "idle" /\ drop'.turn = drop.turn
                            \/ KindOf[drop'.turn] = "owner"
LeftFollows ==
    /\ \A e \in Events : left'[e] <= left[e]
    /\ snoozed' \subseteq snoozed \/ left'["snooze"] < left["snooze"]
RowsAct == NewIds /\ NewRows /\ EndedRows /\ DropLeaves /\ LeftFollows

LEMMA SpendLess ==
    ASSUME TypeOK, NEW e \in Events, Spend(e)
    PROVE  (\A f \in Events : left'[f] <= left[f]) /\ left'[e] < left[e]
BY DEF Spend, TypeOK, GhostTypeOK

LEMMA EndRows ==
    ASSUME LedgerInv, NEW t \in Turn, NEW outcome \in Terminal, Finish(IfOpen(t), outcome),
           NEW rows \in SUBSET Turn, IfOpen(t) \subseteq rows,
           requests' = (requests \ rows) \cup Reports(IfOpen(t))
    PROVE  NewIds /\ NewRows /\ \A u \in requests' : state'[u] \in Terminal =>
                                    u \in requests /\ state[u] \in Terminal
<1> DEFINE S == IfOpen(t)
<1>1. S \in SUBSET Turn /\ Ends(S, outcome) /\ \A u \in S : u = t
  BY DEF IfOpen, Ends
<1>2. /\ \A u \in S : state'[u] = outcome
      /\ \A u \in Reports(S) : u \in Turn /\ state[u] = "none" /\ state'[u] = "queued"
      /\ \A u \in Turn \ (S \cup Reports(S)) : state'[u] = state[u]
  BY <1>1, EndsEffect, ReportsType
<1>3. /\ order' = [u \in Turn |-> IF u \in Reports(S) THEN clock + 1 ELSE order[u]]
      /\ \A u, v \in Reports(S) : u = v
      /\ \A u \in Reports(S) : KindOf[u] = "report"
  BY <1>1, ReportAssumption DEF Finish, Reports
<1>4. NewIds
  BY <1>2, <1>3 DEF NewIds
<1>5. NewRows
  BY <1>2, <1>3 DEF NewRows
<1>6. requests \subseteq Turn
  BY DEF LedgerInv, TypeOK, LedgerTypeOK
<1> HIDE DEF S
<1> QED BY <1>2, <1>4, <1>5, <1>6 DEF Terminal, S

LEMMA CompleteRows ==
    ASSUME LedgerInv, NEW t \in Turn, NEW outcome \in Terminal, NEW rows \in SUBSET {t},
           CompleteRemoving(t, outcome, rows)
    PROVE  NewIds /\ NewRows /\ EndedRows
<1>1. IfOpen(t) \cup rows \in SUBSET Turn
  BY DEF IfOpen
<1> QED BY <1>1, EndRows DEF CompleteRemoving, EndedRows

LEMMA RowsStill ==
    ASSUME UNCHANGED <<state, order>>, requests' \subseteq requests
    PROVE  NewIds /\ NewRows /\ EndedRows
BY DEF NewIds, NewRows, EndedRows

LEMMA RunRows ==
    ASSUME LedgerInv, NEW t \in Turn, state' = [state EXCEPT ![t] = "running"],
           UNCHANGED <<order, requests>>
    PROVE  NewIds /\ NewRows /\ EndedRows
<1>1. \A u \in Turn : state'[u] = state[u] \/ state'[u] = "running"
  BY DEF LedgerInv, TypeOK, LedgerTypeOK
<1> QED BY <1>1 DEF NewIds, NewRows, EndedRows, Terminal, LedgerInv, TypeOK, LedgerTypeOK

LEMMA CancelOwnedRows ==
    ASSUME LedgerInv, NEW th \in Thread, CancelOwned(th)
    PROVE  NewIds /\ NewRows /\ EndedRows
<1>1. CASE UNCHANGED ledger
  BY <1>1, RowsStill DEF ledger
<1>2. CASE OwnsTurn(th) /\ CompleteRemoving(anchor[th], "cancelled", {anchor[th]})
  <2>1. anchor[th] \in Turn
    BY <1>2 DEF OwnsTurn, LedgerInv, TypeOK, LaneTypeOK
  <2> QED BY <1>2, <2>1, CompleteRows DEF Terminal
<1> QED BY <1>1, <1>2 DEF CancelOwned

LEMMA EnvironmentRows == LedgerInv /\ LeftBound /\ Environment => RowsAct
<1> SUFFICES ASSUME LedgerInv, LeftBound, Environment PROVE RowsAct
  OBVIOUS
<1> USE DEF ledger, flags, native, actors, ghosts
<1>1. TypeOK /\ LedgerTypeOK /\ left \in [Events -> Nat]
  BY DEF LedgerInv, TypeOK, GhostTypeOK
<1>2. {"snooze", "crash", "archive", "stop", "drop", "mark", "command"} \subseteq Events
  BY DEF Events
<1>3. UNCHANGED left => \A e \in Events : left'[e] <= left[e]
  BY <1>1
<1>4. ASSUME NEW t \in Turn, Accepted(t), KindOf[t] # "background",
             UNCHANGED <<flags, actors, ghosts>>
      PROVE  RowsAct
  <2>1. /\ state[t] = "none" /\ requests' = requests \cup {t}
        /\ \A u \in Turn : /\ order'[u] = IF u = t THEN clock + 1 ELSE order[u]
                           /\ state'[u] = IF u = t THEN "queued" ELSE state[u]
    BY <1>1, <1>4 DEF Accepted, LedgerTypeOK
  <2>2. NewIds
    BY <2>1 DEF NewIds
  <2>3. NewRows
    BY <1>1, <1>4, <2>1 DEF NewRows, LedgerTypeOK
  <2>4. EndedRows
    BY <1>1, <2>1 DEF EndedRows, Terminal, LedgerTypeOK
  <2> QED BY <1>3, <1>4, <2>2, <2>3, <2>4 DEF RowsAct, DropLeaves, LeftFollows
<1>5. ASSUME NEW t \in Turn, DropBegin(t) PROVE RowsAct
  <2>1. NewIds /\ NewRows /\ EndedRows
    BY <1>5, RowsStill DEF DropBegin
  <2> QED BY <1>1, <1>2, <1>5, <2>1, SpendLess
          DEF DropBegin, AdmissionFree, RowsAct, DropLeaves, LeftFollows
<1>6. CASE CrashRestart
  <2> DEFINE cut == {t \in Turn : state[t] = "running"}
  <2>1. cut \in SUBSET Turn /\ Ends(cut, "interrupted") /\ "interrupted" \in Terminal
    BY <1>6 DEF CrashRestart, Interrupt, Ends, Open, OpenStates, Terminal
  <2>2. /\ order' = [u \in Turn |-> IF u \in Reports(cut) THEN clock + 1 ELSE order[u]]
        /\ requests' = (requests \ cut) \cup Reports(cut)
    BY <1>6 DEF CrashRestart, Interrupt, Finish
  <2> HIDE DEF cut
  <2>3. /\ \A u \in Reports(cut) : u \in Turn /\ state[u] = "none" /\ state'[u] = "queued"
        /\ \A u \in Turn \ (cut \cup Reports(cut)) : state'[u] = state[u]
    BY <2>1, EndsEffect, ReportsType
  <2>4. \A u \in Reports(cut) : KindOf[u] = "report"
    BY <2>1, ReportAssumption DEF Reports
  <2>5. (\A e \in Events : left'[e] <= left[e]) /\ left'["crash"] < left["crash"]
    BY <1>1, <1>2, <1>6, SpendLess DEF CrashRestart
  <2>6. Crashed'
    <3>1. /\ left' = [left EXCEPT !["crash"] = left["crash"] - 1]
          /\ left["crash"] <= Budget["crash"] /\ Budget["crash"] \in Nat
      BY <1>2, <1>6, BoundAssumption DEF CrashRestart, Spend, LeftBound
    <3> QED BY <1>1, <1>2, <3>1 DEF Crashed
  <2>7. requests \subseteq Turn
    BY <1>1 DEF LedgerTypeOK
  <2>8. NewRows
    BY <2>2, <2>3, <2>4 DEF NewRows
  <2>9. EndedRows
    BY <2>2, <2>3, <2>7 DEF EndedRows, Terminal
  <2>10. NewIds
    BY <2>2, <2>3, <2>4, <2>6 DEF NewIds
  <2>11. DropLeaves /\ LeftFollows
    BY <1>6, <2>5, <2>6 DEF CrashRestart, NoDrop, DropLeaves, LeftFollows
  <2> QED BY <2>8, <2>9, <2>10, <2>11 DEF RowsAct
<1>7. CASE \/ \E th \in Thread, keep \in Turn \cup {None} : Archive(th, keep)
           \/ \E th \in Thread : \/ Unarchive(th) \/ Snooze(th) \/ SnoozeEnds(th)
                                 \/ QueueCommand(th) \/ StopBegin(th)
           \/ \E a \in Turn, th \in Thread : AgentCancel(a, th)
  <2>1. /\ UNCHANGED <<ledger, drop>>
        /\ \/ UNCHANGED left
           \/ Spend("archive") \/ Spend("command") \/ Spend("mark") \/ Spend("stop")
           \/ Spend("snooze")
        /\ snoozed' \subseteq snoozed \/ Spend("snooze")
    BY <1>7 DEF Archive, Unarchive, Snooze, SnoozeEnds, QueueCommand, StopBegin, AgentCancel
  <2>2. LeftFollows
    BY <1>1, <1>2, <1>3, <2>1, SpendLess DEF LeftFollows
  <2> QED BY <2>1, <2>2, RowsStill DEF RowsAct, DropLeaves
<1> QED BY <1>4, <1>5, <1>6, <1>7
        DEF Environment, OwnerArchive, AgentArchive, AcceptOwner, AcceptWake, Delegate

LEMMA PumpRows == LedgerInv /\ (PumpStep \/ PumpIdle) => RowsAct
<1> SUFFICES ASSUME LedgerInv, PumpStep \/ PumpIdle PROVE RowsAct
  OBVIOUS
<1> USE DEF ledger, flags, native, actors, ghosts
<1>1. TypeOK /\ LedgerTypeOK /\ left \in [Events -> Nat] /\ "fault" \in Events
      /\ \A t \in Turn : ThreadOf[t] \in Thread
  BY TreeAssumption DEF LedgerInv, TypeOK, GhostTypeOK, Events
<1>2. UNCHANGED <<snoozed, drop>> /\ (UNCHANGED left \/ Spend("fault"))
  BY DEF PumpStep, PumpBegin, PumpIdle, PumpSnapshot, PumpCancelQueued, PumpCancelCli,
         PumpCancelLane, PumpSkipBusy, PumpSkipCli, PumpSpawnCli, PumpNotifyLane,
         PumpLaneUnavailable, vars
<1>3. LeftFollows
  BY <1>1, <1>2, SpendLess DEF LeftFollows
<1>4. ASSUME NewIds, NewRows, EndedRows PROVE RowsAct
  BY <1>2, <1>3, <1>4 DEF RowsAct, DropLeaves
<1>5. ASSUME NEW t \in Turn, PumpCancelQueued(t) \/ PumpLaneUnavailable(t) PROVE RowsAct
  BY <1>4, <1>5, CompleteRows
  DEF PumpCancelQueued, PumpLaneUnavailable, Complete, Terminal
<1>6. ASSUME NEW t \in Turn, PumpCancelLane(t) PROVE RowsAct
  BY <1>1, <1>4, <1>6, CancelOwnedRows DEF PumpCancelLane
<1>7. CASE \/ PumpBegin \/ PumpIdle \/ PumpSnapshot
           \/ \E t \in Turn : \/ PumpCancelCli(t) \/ PumpSkipBusy(t) \/ PumpSkipCli(t)
                              \/ PumpSpawnCli(t) \/ PumpNotifyLane(t)
  <2>1. UNCHANGED <<state, order>> /\ requests' \subseteq requests
    BY <1>7 DEF PumpBegin, PumpIdle, PumpSnapshot, PumpCancelCli, PumpSkipBusy,
                PumpSkipCli, PumpSpawnCli, PumpNotifyLane, vars
  <2> QED BY <1>4, <2>1, RowsStill
<1> QED BY <1>5, <1>6, <1>7 DEF PumpStep

LEMMA OwnerRows == LedgerInv /\ OwnerStep => RowsAct
<1> SUFFICES ASSUME LedgerInv, OwnerStep PROVE RowsAct
  OBVIOUS
<1> USE DEF ledger, flags, native, actors, ghosts
<1>1. TypeOK /\ LedgerTypeOK /\ OwnerTypeOK /\ left \in [Events -> Nat]
  BY DEF LedgerInv, TypeOK, GhostTypeOK
<1>2. UNCHANGED <<snoozed, left>>
  BY DEF OwnerStep, StopDeliver, DropCli, DropClaimed, DropFinish, DropClean
<1>3. LeftFollows
  BY <1>1, <1>2 DEF LeftFollows
<1>4. CASE StopDeliver
  <2>1. NewIds /\ NewRows /\ EndedRows
    BY <1>1, <1>4, RowsStill, CancelOwnedRows DEF StopDeliver, OwnerTypeOK
  <2> QED BY <1>3, <1>4, <2>1 DEF StopDeliver, RowsAct, DropLeaves
<1>5. CASE DropCli
  <2>1. drop.turn \in Turn /\ drop.pc = "act"
    BY <1>1, <1>5 DEF DropCli, OwnerTypeOK
  <2>2. NewIds /\ NewRows /\ EndedRows
    BY <1>5, <2>1, CompleteRows DEF DropCli, Complete, Terminal
  <2> QED BY <1>3, <1>5, <2>1, <2>2 DEF DropCli, NoDrop, RowsAct, DropLeaves
<1>6. CASE DropFinish
  <2>1. drop.turn \in Turn /\ drop.pc = "act"
    BY <1>1, <1>6 DEF DropFinish, OwnerTypeOK
  <2>2. drop'.pc = "clean" /\ drop'.turn = drop.turn
    BY <1>1, <1>6 DEF DropFinish, OwnerTypeOK
  <2> DEFINE S == IfOpen(drop.turn)
  <2>3. /\ S \in SUBSET Turn /\ Ends(S, "cancelled") /\ \A u \in S : u = drop.turn
        /\ requests' = requests \cup Reports(S)
    BY <1>6, <2>1 DEF DropFinish, IfOpen, Ends
  <2>4. /\ \A u \in Reports(S) : u \in Turn /\ state[u] = "none" /\ state'[u] = "queued"
        /\ \A u \in Turn \ (S \cup Reports(S)) : state'[u] = state[u]
    BY <2>3, EndsEffect, ReportsType DEF Terminal
  <2>5. /\ order' = [u \in Turn |-> IF u \in Reports(S) THEN clock + 1 ELSE order[u]]
        /\ \A u, v \in Reports(S) : u = v
        /\ \A u \in Reports(S) : KindOf[u] = "report"
    BY <2>3, ReportAssumption DEF Ends, Finish, Reports
  <2> HIDE DEF S
  <2>6. NewIds /\ NewRows
    BY <2>3, <2>4, <2>5 DEF NewIds, NewRows
  <2>7. EndedRows
    BY <1>1, <2>2, <2>3, <2>4 DEF EndedRows, Terminal, LedgerTypeOK
  <2> QED BY <1>3, <2>1, <2>2, <2>6, <2>7 DEF RowsAct, DropLeaves
<1>7. CASE DropClaimed \/ DropClean
  <2>1. NewIds /\ NewRows /\ EndedRows
    BY <1>7, RowsStill DEF DropClaimed, DropClean
  <2> QED BY <1>3, <1>7, <2>1 DEF DropClaimed, DropClean, NoDrop, RowsAct, DropLeaves
<1> QED BY <1>4, <1>5, <1>6, <1>7 DEF OwnerStep

LEMMA CliRows ==
    ASSUME LedgerInv, NEW th \in Thread, CliStep(th)
    PROVE  RowsAct
<1> USE DEF ledger, flags, native, actors, ghosts
<1>1. TypeOK /\ LedgerTypeOK /\ CliTypeOK /\ left \in [Events -> Nat]
  BY DEF LedgerInv, TypeOK, GhostTypeOK
<1>2. UNCHANGED <<snoozed, left, drop>>
  BY DEF CliStep, CliAcquire, CliCancelledWaiting, CliRun, CliBind, CliDriven,
         CliComplete, CliRemove
<1>3. ASSUME NewIds, NewRows, EndedRows PROVE RowsAct
  BY <1>1, <1>2, <1>3 DEF RowsAct, DropLeaves, LeftFollows
<1>4. CASE CliComplete(th)
  <2>1. cli[th].turn \in Turn /\ cli[th].outcome \in Terminal
    BY <1>1, <1>4 DEF CliComplete, CliTypeOK
  <2> QED BY <1>3, <1>4, <2>1, CompleteRows DEF CliComplete, Complete
<1>5. CASE CliRun(th)
  <2>1. cli[th].turn \in Turn
    BY <1>1, <1>5 DEF CliRun, CliTypeOK
  <2>2. UNCHANGED state \/ state' = [state EXCEPT ![cli[th].turn] = "running"]
    BY <1>5 DEF CliRun, RunTurn
  <2>3. UNCHANGED <<order, requests>>
    BY <1>5 DEF CliRun
  <2> QED BY <1>3, <2>1, <2>2, <2>3, RowsStill, RunRows
<1>6. CASE \/ CliAcquire(th) \/ CliCancelledWaiting(th) \/ CliBind(th) \/ CliRemove(th)
           \/ \E o \in Terminal : CliDriven(th, o)
  <2>1. UNCHANGED <<state, order, requests>>
    BY <1>6 DEF CliAcquire, CliCancelledWaiting, CliBind, CliRemove, CliDriven
  <2> QED BY <1>3, <2>1, RowsStill
<1> QED BY <1>4, <1>5, <1>6 DEF CliStep

LEMMA LaneRows ==
    ASSUME LedgerInv, NEW th \in Thread, LaneStep(th)
    PROVE  RowsAct
<1> USE DEF ledger, flags, native, actors, ghosts
<1>1. /\ TypeOK /\ LedgerTypeOK /\ LaneTypeOK /\ left \in [Events -> Nat]
      /\ {"fault", "empty"} \subseteq Events
  BY DEF LedgerInv, TypeOK, GhostTypeOK, Events
<1>2. /\ UNCHANGED <<snoozed, drop>>
      /\ UNCHANGED left \/ Spend("fault") \/ Spend("empty")
  BY DEF LaneStep, LaneAdmit, LaneBegin, LaneDiscard, LanePick, LaneBackground, LaneResume,
         LaneRest, LaneRun, LaneBind, LaneDrained, LaneDrainError, LaneEmpty, LaneSettle,
         LaneHalt
<1>3. LeftFollows
  BY <1>1, <1>2, SpendLess DEF LeftFollows
<1>4. ASSUME NewIds, NewRows, EndedRows PROVE RowsAct
  BY <1>2, <1>3, <1>4 DEF RowsAct, DropLeaves
<1>5. CASE LaneSettle(th)
  <2>1. anchor[th] \in Turn /\ lane[th].outcome \in Terminal
    BY <1>1, <1>5 DEF LaneSettle, LaneTypeOK
  <2> QED BY <1>4, <1>5, <2>1, CompleteRows DEF LaneSettle
<1>6. CASE LaneRun(th)
  <2>1. lane[th].turn \in Turn
    BY <1>1, <1>6 DEF LaneRun, LaneTypeOK
  <2>2. UNCHANGED state \/ state' = [state EXCEPT ![lane[th].turn] = "running"]
    BY <1>1, <1>6, <2>1 DEF LaneRun, RunTurn, LedgerTypeOK
  <2>3. UNCHANGED <<order, requests>>
    BY <1>6 DEF LaneRun
  <2> QED BY <1>4, <2>1, <2>2, <2>3, RowsStill, RunRows
<1>7. ASSUME NEW b \in Turn, LaneBackground(th, b) PROVE RowsAct
  BY <1>4, <1>7, RunRows DEF LaneBackground
<1>8. CASE \/ LaneBegin(th) \/ \E t \in Turn : LanePick(th, t) \/ LaneDiscard(th, t)
           \/ LaneResume(th) \/ LaneRest(th) \/ LaneBind(th) \/ LaneDrainError(th)
           \/ \E o \in Terminal : LaneDrained(th, o)
           \/ LaneEmpty(th) \/ LaneHalt(th)
  <2>1. UNCHANGED <<state, order>> /\ requests' \subseteq requests
    BY <1>8 DEF LaneBegin, LanePick, LaneDiscard, LaneResume, LaneRest, LaneBind,
                LaneDrainError, LaneDrained, LaneEmpty, LaneHalt
  <2> QED BY <1>4, <2>1, RowsStill
<1> QED BY <1>5, <1>6, <1>7, <1>8 DEF LaneStep, LaneAdmit

LEMMA NextRowsAct == LedgerInv /\ LeftBound /\ [Next]_vars => RowsAct
<1> SUFFICES ASSUME LedgerInv, LeftBound, [Next]_vars PROVE RowsAct
  OBVIOUS
<1>1. CASE UNCHANGED vars
  <2>1. UNCHANGED <<state, order, requests, drop, left, snoozed>> /\ left \in [Events -> Nat]
    BY <1>1 DEF vars, ledger, flags, actors, ghosts, LedgerInv, TypeOK, GhostTypeOK
  <2> QED BY <2>1, RowsStill DEF RowsAct, DropLeaves, LeftFollows
<1> QED BY <1>1, EnvironmentRows, PumpRows, OwnerRows, CliRows, LaneRows DEF Next

\* What a step may do to the inputs a lane has in Lash, to its anchor, and to
\* the bindings of its Thread. Admission keeps of the pending inputs only those
\* whose request is pending, and adds the one it took.
Admits(th, pc) == lane[th].pc = "admit" /\ lane'[th].pc = pc
LashFollows(th) ==
    /\ \/ LashPending(th)' \subseteq LashPending(th)
       \/ Admits(th, "run") /\ LashPending(th)' \subseteq LashPending(th) \cup {lane'[th].turn}
    /\ Admits(th, "run") =>
          /\ lane'[th].turn \in Candidates(th) /\ UNCHANGED <<ledger, anchor>>
          /\ LashPending(th)' \subseteq (LashPending(th) \cap Pending) \cup {lane'[th].turn}
    /\ Admits(th, "bind") =>
          /\ NothingAdmitted(th)
          /\ LashPending(th)' \subseteq LashPending(th) \cap Pending
AnchorFollows(th) ==
    \/ anchor'[th] = anchor[th]
    \/ state'[anchor[th]] # "running"
    \/ anchor'[th] = lane[th].turn /\ lane[th].pc = "bind" /\ CanBind(lane[th].turn)
       /\ UNCHANGED state
    \/ \E t \in Turn : LaneDiscard(th, t)
DriveFollows(th) == cli[th].pc = "drive" =>
    \/ cli'[th].pc = "drive" /\ cli'[th].turn = cli[th].turn
    \/ cli[th].turn \notin bound'
    \/ state'[cli[th].turn] # "running"
BoundFollows == \A t \in bound' :
    \/ t \in bound
    \/ /\ state[t] = "running" /\ UNCHANGED state
       /\ \/ t \in cancelReq
          \/ cli'[ThreadOf[t]].turn = t /\ cli'[ThreadOf[t]].pc = "drive"
          \/ anchor'[ThreadOf[t]] = t
HoldFollows == /\ \A th \in Thread : LashFollows(th) /\ AnchorFollows(th) /\ DriveFollows(th)
               /\ BoundFollows

LEMMA LashShrinks ==
    ASSUME NEW th \in Thread, ~Admits(th, "run"), ~Admits(th, "bind"),
           \A t \in Turn : lash'[t] = "pending" => lash[t] = "pending"
    PROVE  LashFollows(th)
BY DEF LashFollows, LashPending, TurnsOf

LEMMA WithdrawnShrinks ==
    /\ \A t, u \in Turn : TypeOK /\ Withdrawn(u, lash)[t] = "pending" => lash[t] = "pending"
    /\ \A th \in Thread, t \in Turn : Reconciled(th)[t] = "pending" =>
          lash[t] = "pending" /\ (ThreadOf[t] = th => t \in Pending)
BY DEF Withdrawn, Reconciled, TypeOK, NativeTypeOK

\* A step that leaves lanes, anchors, bindings and CLI work alone.
LEMMA HoldStill ==
    ASSUME UNCHANGED <<lash, anchor, cli>>, bound' \subseteq bound,
           \A th \in Thread : lane'[th].pc = lane[th].pc
    PROVE  HoldFollows
BY DEF HoldFollows, LashFollows, AnchorFollows, DriveFollows, BoundFollows, Admits,
       LashPending, TurnsOf

LEMMA CancelOwnedHolds ==
    ASSUME LedgerInv, NEW th \in Thread, CancelOwned(th)
    PROVE  /\ \A d \in Thread : LashFollows(d) /\ AnchorFollows(d)
           /\ bound' \subseteq bound
<1>1. TypeOK /\ LaneTypeOK
  BY DEF LedgerInv, TypeOK
<1>2. CASE lane[th].pc \in {"drain", "settle"} \/ ~OwnsTurn(th)
  <2>1. /\ UNCHANGED <<ledger, lash, anchor>>
        /\ \A d \in Thread : lane'[d].pc = lane[d].pc
    BY <1>1, <1>2 DEF CancelOwned, LaneTypeOK
  <2> QED BY <2>1, LashShrinks DEF AnchorFollows, Admits, ledger
<1>3. CASE ~(lane[th].pc \in {"drain", "settle"} \/ ~OwnsTurn(th))
  <2> DEFINE t == anchor[th]
  <2>1. /\ t \in Turn /\ UNCHANGED lane
        /\ CompleteRemoving(t, "cancelled", {t})
        /\ lash' = Reconciled(th) \/ lash' = Withdrawn(t, lash)
        /\ anchor' = [anchor EXCEPT ![th] = None]
    BY <1>1, <1>3 DEF CancelOwned, OwnsTurn, LaneTypeOK
  <2>2. \A u \in Turn : lash'[u] = "pending" => lash[u] = "pending"
    BY <1>1, <2>1, WithdrawnShrinks
  <2>3. state'[t] # "running"
    <3>1. IfOpen(t) \in SUBSET Turn /\ Ends(IfOpen(t), "cancelled") /\ "cancelled" \in Terminal
      BY <2>1 DEF IfOpen, Ends, CompleteRemoving, Terminal
    <3> QED BY <2>1, <3>1, EndsEffect DEF IfOpen, Open, OpenStates
  <2>4. \A d \in Thread : AnchorFollows(d)
    BY <1>1, <2>1, <2>3 DEF AnchorFollows, LaneTypeOK
  <2>5. bound' \subseteq bound
    BY <2>1 DEF CompleteRemoving
  <2> QED BY <2>1, <2>2, <2>4, <2>5, LashShrinks DEF Admits
<1> QED BY <1>2, <1>3

LEMMA SignalHolds ==
    ASSUME TypeOK, NEW th \in Thread, Signal(th) \/ UNCHANGED cli
    PROVE  \A d \in Thread : DriveFollows(d)
<1>1. \A d \in Thread : cli'[d].pc = cli[d].pc /\ cli'[d].turn = cli[d].turn
  BY DEF Signal, TypeOK, CliTypeOK
<1> QED BY <1>1 DEF DriveFollows

LEMMA LaneHolds ==
    ASSUME UNCHANGED <<lash, anchor, lane>>
    PROVE  \A th \in Thread : LashFollows(th) /\ AnchorFollows(th)
BY DEF LashFollows, AnchorFollows, Admits, LashPending, TurnsOf

LEMMA BoundHolds == bound' \subseteq bound => BoundFollows
BY DEF BoundFollows

LEMMA EnvironmentHolds == LedgerInv /\ Environment => HoldFollows
<1> SUFFICES ASSUME LedgerInv, Environment PROVE HoldFollows
  OBVIOUS
<1> USE DEF ledger, flags, native, actors, ghosts
<1>1. TypeOK /\ \A t \in Turn : ThreadOf[t] \in Thread
  BY TreeAssumption DEF LedgerInv
<1>2. ASSUME NEW t \in Turn, DropBegin(t) PROVE HoldFollows
  BY <1>1, <1>2, SignalHolds, LaneHolds, BoundHolds DEF DropBegin, HoldFollows
<1>3. CASE CrashRestart
  <2> DEFINE cut == {t \in Turn : state[t] = "running"}
  <2>1. cut \in SUBSET Turn /\ Ends(cut, "interrupted") /\ "interrupted" \in Terminal
    BY <1>3 DEF CrashRestart, Interrupt, Ends, Open, OpenStates, Terminal
  <2>2. \A t \in Turn : state'[t] # "running"
    <3>1. \A t \in Turn \ cut : state[t] # "running"
      OBVIOUS
    <3> HIDE DEF cut
    <3> QED BY <2>1, <3>1, EndsEffect
  <2>3. \A th \in Thread : LashFollows(th)
    <3>1. \A t \in Turn : lash'[t] = "pending" => lash[t] = "pending"
      BY <1>3 DEF CrashRestart
    <3>2. \A th \in Thread : lane'[th].pc = "idle"
      BY <1>3 DEF CrashRestart, NoLane
    <3> QED BY <3>1, <3>2, LashShrinks DEF Admits
  <2>4. \A th \in Thread : AnchorFollows(th)
    <3> SUFFICES ASSUME NEW th \in Thread, anchor[th] # None, anchor[th] \in Turn
                 PROVE  state'[anchor[th]] # "running"
      BY <1>1, <1>3 DEF CrashRestart, AnchorFollows, TypeOK, LaneTypeOK
    <3> QED BY <2>2
  <2>5. \A th \in Thread : DriveFollows(th)
    BY <1>1, <2>2 DEF DriveFollows, TypeOK, CliTypeOK
  <2>6. UNCHANGED bound
    BY <1>3 DEF CrashRestart
  <2> QED BY <2>3, <2>4, <2>5, <2>6, BoundHolds DEF HoldFollows
<1>4. CASE \/ \E t \in Turn : AcceptOwner(t) \/ AcceptWake(t)
           \/ \E a, t \in Turn : Delegate(a, t)
           \/ \E th \in Thread, keep \in Turn \cup {None} : Archive(th, keep)
           \/ \E th \in Thread : \/ Unarchive(th) \/ Snooze(th) \/ SnoozeEnds(th)
                                 \/ QueueCommand(th) \/ StopBegin(th)
           \/ \E a \in Turn, th \in Thread : AgentCancel(a, th)
  <2>1. UNCHANGED <<lash, anchor, cli, bound, lane>>
    BY <1>4 DEF AcceptOwner, AcceptWake, Accepted, Delegate, Archive, Unarchive, Snooze,
                SnoozeEnds, QueueCommand, StopBegin, AgentCancel
  <2> QED BY <2>1, HoldStill
<1> QED BY <1>2, <1>3, <1>4 DEF Environment, OwnerArchive, AgentArchive

LEMMA PumpHolds == LedgerInv /\ (PumpStep \/ PumpIdle) => HoldFollows
<1> SUFFICES ASSUME LedgerInv, PumpStep \/ PumpIdle PROVE HoldFollows
  OBVIOUS
<1> USE DEF ledger, flags, native, actors, ghosts
<1>1. TypeOK /\ \A t \in Turn : ThreadOf[t] \in Thread
  BY TreeAssumption DEF LedgerInv
<1>2. ASSUME NEW t \in Turn, PumpCancelQueued(t) \/ PumpCancelCli(t) PROVE HoldFollows
  <2>1. bound' \subseteq bound
    BY <1>2 DEF PumpCancelQueued, PumpCancelCli, Complete, CompleteRemoving
  <2> QED BY <1>1, <1>2, <2>1, SignalHolds, LaneHolds, BoundHolds
          DEF PumpCancelQueued, PumpCancelCli, HoldFollows
<1>3. ASSUME NEW t \in Turn, PumpCancelLane(t) PROVE HoldFollows
  BY <1>1, <1>3, CancelOwnedHolds, SignalHolds, BoundHolds DEF PumpCancelLane, HoldFollows
<1>4. ASSUME NEW t \in Turn, PumpSpawnCli(t) PROVE HoldFollows
  <2>1. \A th \in Thread : DriveFollows(th)
    <3> SUFFICES ASSUME NEW th \in Thread, cli[th].pc = "drive" PROVE cli'[th] = cli[th]
      BY DEF DriveFollows
    <3>1. th # ThreadOf[t]
      BY <1>4 DEF PumpSpawnCli, Blocked
    <3> QED BY <1>1, <1>4, <3>1 DEF PumpSpawnCli, TypeOK, CliTypeOK
  <2> QED BY <1>4, <2>1, LaneHolds, BoundHolds DEF PumpSpawnCli, HoldFollows
<1>5. CASE \/ PumpBegin \/ PumpIdle \/ PumpSnapshot
           \/ \E t \in Turn : \/ PumpSkipBusy(t) \/ PumpSkipCli(t) \/ PumpNotifyLane(t)
                              \/ PumpLaneUnavailable(t)
  <2>1. UNCHANGED <<lash, anchor, cli, lane>> /\ bound' \subseteq bound
    BY <1>5 DEF PumpBegin, PumpIdle, PumpSnapshot, PumpSkipBusy, PumpSkipCli,
                PumpNotifyLane, PumpLaneUnavailable, Complete, CompleteRemoving, vars
  <2> QED BY <2>1, HoldStill
<1> QED BY <1>2, <1>3, <1>4, <1>5 DEF PumpStep

LEMMA OwnerHolds == LedgerInv /\ OwnerStep => HoldFollows
<1> SUFFICES ASSUME LedgerInv, OwnerStep PROVE HoldFollows
  OBVIOUS
<1> USE DEF ledger, flags, native, actors, ghosts
<1>1. TypeOK /\ OwnerTypeOK
  BY DEF LedgerInv, TypeOK
<1>2. CASE StopDeliver
  <2>1. stop.thread \in Thread
    BY <1>1, <1>2 DEF StopDeliver, OwnerTypeOK
  <2> QED BY <1>1, <1>2, <2>1, CancelOwnedHolds, SignalHolds, LaneHolds, BoundHolds
          DEF StopDeliver, HoldFollows
<1>3. CASE DropCli \/ DropClaimed \/ DropFinish
  <2>1. UNCHANGED <<lash, anchor, cli, lane>> /\ bound' \subseteq bound
    BY <1>3 DEF DropCli, DropClaimed, DropFinish, Complete, CompleteRemoving
  <2> QED BY <2>1, HoldStill
<1>4. CASE DropClean
  <2>1. UNCHANGED <<anchor, cli, lane, bound>> /\ drop.turn \in Turn
    BY <1>1, <1>4 DEF DropClean, OwnerTypeOK
  <2>2. \A u \in Turn : lash'[u] = "pending" => lash[u] = "pending"
    BY <1>1, <1>4, <2>1, WithdrawnShrinks DEF DropClean
  <2>3. \A th \in Thread : LashFollows(th)
    BY <2>1, <2>2, LashShrinks DEF Admits
  <2> QED BY <2>1, <2>3, BoundHolds DEF HoldFollows, AnchorFollows, DriveFollows
<1> QED BY <1>2, <1>3, <1>4 DEF OwnerStep

LEMMA CliHolds ==
    ASSUME LedgerInv, Owners, NEW th \in Thread, CliStep(th)
    PROVE  HoldFollows
<1> USE DEF ledger, flags, native, actors, ghosts
<1>1. TypeOK /\ CliTypeOK
  BY DEF LedgerInv, TypeOK
<1>2. UNCHANGED <<lane, anchor, lash, cancelReq>>
  BY DEF CliStep, CliAcquire, CliCancelledWaiting, CliRun, CliBind, CliDriven,
         CliComplete, CliRemove
<1>3. \A d \in Thread : LashFollows(d) /\ AnchorFollows(d)
  BY <1>2, LaneHolds
<1>4. ASSUME NEW d \in Thread, d # th PROVE DriveFollows(d)
  <2>1. cli'[d] = cli[d]
    BY <1>1, <1>4 DEF CliTypeOK, CliStep, CliAcquire, CliCancelledWaiting, CliRun,
                CliBind, CliDriven, CliComplete, CliRemove, CliGoes, CliEnds
  <2> QED BY <2>1 DEF DriveFollows
<1>5. CASE CliBind(th)
  <2>1. /\ cli[th].pc = "bind" /\ ThreadOf[cli[th].turn] = th /\ UNCHANGED state
        /\ bound' = IF state[cli[th].turn] = "running" THEN bound \cup {cli[th].turn} ELSE bound
    BY <1>5 DEF CliBind, Bind, Owners, CliOwns
  <2>2. CanBind(cli[th].turn) => cli'[th].pc = "drive" /\ cli'[th].turn = cli[th].turn
    BY <1>1, <1>5 DEF CliBind, CliGoes, CliTypeOK
  <2>3. BoundFollows
    BY <2>1, <2>2 DEF BoundFollows, CanBind
  <2> QED BY <1>3, <1>4, <2>1, <2>3 DEF HoldFollows, DriveFollows
<1>6. CASE \E o \in Terminal : CliDriven(th, o)
  <2>1. bound' = bound \ {cli[th].turn}
    BY <1>6 DEF CliDriven, Revoked
  <2> QED BY <1>3, <1>4, <2>1, BoundHolds DEF HoldFollows, DriveFollows
<1>7. CASE \/ CliAcquire(th) \/ CliCancelledWaiting(th) \/ CliRun(th) \/ CliComplete(th)
           \/ CliRemove(th)
  <2>1. cli[th].pc # "drive" /\ bound' \subseteq bound
    BY <1>7 DEF CliAcquire, CliCancelledWaiting, CliRun, CliComplete, CliRemove, Complete,
                CompleteRemoving
  <2> QED BY <1>3, <1>4, <2>1, BoundHolds DEF HoldFollows, DriveFollows
<1> QED BY <1>5, <1>6, <1>7 DEF CliStep

LEMMA LaneStepHolds ==
    ASSUME LedgerInv, Owners, NEW th \in Thread, LaneStep(th)
    PROVE  HoldFollows
<1> USE DEF ledger, flags, native, actors, ghosts
<1>1. TypeOK /\ LaneTypeOK /\ NativeTypeOK
  BY DEF LedgerInv, TypeOK
<1>2. UNCHANGED <<cli, cancelReq>>
  BY DEF LaneStep, LaneAdmit, LaneBegin, LaneDiscard, LanePick, LaneBackground, LaneResume,
         LaneRest, LaneRun, LaneBind, LaneDrained, LaneDrainError, LaneEmpty, LaneSettle,
         LaneHalt
<1>3. \A d \in Thread : DriveFollows(d)
  BY <1>2 DEF DriveFollows
<1>4. ASSUME NEW d \in Thread, d # th PROVE lane'[d] = lane[d] /\ anchor'[d] = anchor[d]
  BY <1>1, <1>4 DEF LaneTypeOK, LaneStep, LaneAdmit, LaneBegin, LaneDiscard, LanePick,
         LaneBackground, LaneResume, LaneRest, LaneRun, LaneBind, LaneDrained,
         LaneDrainError, LaneEmpty, LaneSettle, LaneHalt, LaneGoes, LaneRests
<1>5. \A d \in Thread \ {th} : AnchorFollows(d)
  BY <1>4 DEF AnchorFollows
<1>6. ASSUME LashFollows(th), AnchorFollows(th), BoundFollows,
             \A t \in Turn : ThreadOf[t] # th /\ lash'[t] = "pending" => lash[t] = "pending"
      PROVE  HoldFollows
  <2>1. ASSUME NEW d \in Thread, d # th PROVE LashFollows(d)
    BY <1>4, <1>6, <2>1 DEF LashFollows, Admits, LashPending, TurnsOf
  <2> QED BY <1>3, <1>5, <1>6, <2>1 DEF HoldFollows
<1>7. ASSUME NEW t \in Turn, LaneDiscard(th, t) PROVE HoldFollows
  <2>1. UNCHANGED <<lane, bound>>
    BY <1>7 DEF LaneDiscard
  <2>2. \A u \in Turn : lash'[u] = "pending" => lash[u] = "pending"
    BY <1>1, <1>7, WithdrawnShrinks DEF LaneDiscard, Withdrawn, Reconciled, NativeTypeOK
  <2> QED BY <1>6, <1>7, <2>1, <2>2, LashShrinks, BoundHolds DEF AnchorFollows, Admits
<1>8. ASSUME NEW t \in Turn, LanePick(th, t) PROVE HoldFollows
  <2>1. /\ lane'[th].pc = "run" /\ lane'[th].turn = t /\ lane[th].pc = "admit"
        /\ t \in Candidates(th) /\ UNCHANGED <<ledger, anchor>>
    BY <1>1, <1>8, LaneGoesEffect DEF LanePick, Admitting
  <2>2. \A u \in Turn : lash'[u] = "pending" => u = t \/ Reconciled(th)[u] = "pending"
    BY <1>8 DEF LanePick, Reconciled
  <2>3. ThreadOf[t] = th
    BY <1>8 DEF LanePick, Candidates, FirstOf, PendingOf, TurnsOf
  <2>4. LashFollows(th)
    BY <2>1, <2>2, WithdrawnShrinks DEF LashFollows, Admits, LashPending, TurnsOf
  <2> QED BY <1>6, <2>1, <2>2, <2>3, <2>4, WithdrawnShrinks, BoundHolds DEF AnchorFollows
<1>9. CASE (\E t \in Turn : LaneBackground(th, t)) \/ LaneResume(th)
  <2>1. /\ lane'[th].pc = "bind" /\ lane[th].pc = "admit" /\ NothingAdmitted(th)
        /\ lash' = Reconciled(th) /\ UNCHANGED <<anchor, bound>>
    BY <1>1, <1>9, LaneGoesEffect DEF LaneBackground, LaneResume, Activating, Admitting
  <2>2. LashFollows(th)
    BY <2>1, WithdrawnShrinks DEF LashFollows, Admits, LashPending, TurnsOf
  <2> QED BY <1>6, <2>1, <2>2, WithdrawnShrinks, BoundHolds DEF AnchorFollows
<1>10. CASE LaneRest(th)
  <2>1. lane'[th].pc = "idle" /\ lash' = Reconciled(th) /\ UNCHANGED <<anchor, bound>>
    BY <1>1, <1>10, LaneGoesEffect DEF LaneRest, LaneRests, Activating
  <2>2. \A t \in Turn : lash'[t] = "pending" => lash[t] = "pending"
    BY <2>1, WithdrawnShrinks
  <2> QED BY <1>6, <2>1, <2>2, LashShrinks, BoundHolds DEF AnchorFollows, Admits
<1>11. CASE LaneBind(th)
  <2>1. /\ lane[th].pc = "bind" /\ ThreadOf[lane[th].turn] = th /\ UNCHANGED <<state, lash>>
        /\ bound' = IF state[lane[th].turn] = "running" THEN bound \cup {lane[th].turn}
                    ELSE bound
        /\ IF CanBind(lane[th].turn) THEN anchor'[th] = lane[th].turn ELSE UNCHANGED anchor
    BY <1>1, <1>11 DEF LaneBind, Bind, Owners, LaneOwns, LaneTypeOK
  <2>2. BoundFollows
    BY <2>1 DEF BoundFollows, CanBind
  <2>3. LashFollows(th) /\ AnchorFollows(th)
    BY <2>1, LashShrinks DEF Admits, AnchorFollows
  <2> QED BY <1>6, <2>1, <2>2, <2>3
<1>12. CASE LaneSettle(th)
  <2>1. /\ lane[th].pc = "settle" /\ anchor[th] \in Turn /\ lane[th].outcome \in Terminal
        /\ CompleteRemoving(anchor[th], lane[th].outcome, {anchor[th]})
        /\ lash' = Withdrawn(anchor[th], lash)
    BY <1>1, <1>12 DEF LaneSettle, LaneTypeOK
  <2>2. state'[anchor[th]] # "running"
    <3>1. IfOpen(anchor[th]) \in SUBSET Turn /\ Ends(IfOpen(anchor[th]), lane[th].outcome)
      BY <2>1 DEF IfOpen, Ends, CompleteRemoving
    <3> QED BY <2>1, <3>1, EndsEffect DEF IfOpen, Open, OpenStates, Terminal
  <2>3. \A t \in Turn : lash'[t] = "pending" => lash[t] = "pending"
    BY <1>1, <2>1, WithdrawnShrinks
  <2>4. LashFollows(th) /\ AnchorFollows(th) /\ BoundFollows
    BY <2>1, <2>2, <2>3, LashShrinks, BoundHolds
    DEF Admits, AnchorFollows, CompleteRemoving
  <2> QED BY <1>6, <2>3, <2>4
<1>13. CASE \/ LaneBegin(th) \/ LaneRun(th) \/ LaneDrainError(th) \/ LaneEmpty(th)
            \/ LaneHalt(th) \/ \E o \in Terminal : LaneDrained(th, o)
  <2>1. lane[th].pc # "admit" /\ UNCHANGED <<anchor, bound>>
    BY <1>13 DEF LaneBegin, LaneRun, LaneDrainError, LaneEmpty, LaneHalt, LaneDrained
  <2>2. \A t \in Turn : lash'[t] = "pending" => lash[t] = "pending"
    BY <1>13 DEF LaneBegin, LaneRun, LaneDrainError, LaneEmpty, LaneHalt, LaneDrained
  <2> QED BY <1>6, <2>1, <2>2, LashShrinks, BoundHolds DEF Admits, AnchorFollows
<1> QED BY <1>7, <1>8, <1>9, <1>10, <1>11, <1>12, <1>13 DEF LaneStep, LaneAdmit

LEMMA NextHolds == LedgerInv /\ Owners /\ [Next]_vars => HoldFollows
<1> SUFFICES ASSUME LedgerInv, Owners, [Next]_vars PROVE HoldFollows
  OBVIOUS
<1>1. CASE UNCHANGED vars
  BY <1>1, HoldStill DEF vars, ledger, native, actors
<1> QED BY <1>1, EnvironmentHolds, PumpHolds, OwnerHolds, CliHolds, LaneStepHolds DEF Next

-----------------------------------------------------------------------------
(* What follows for ids, rows, fronts and inputs *)

LEMMA FrontStays ==
    ASSUME LedgerInv, OrderBound, Moves, NewRows, TypeOK', NEW t \in Turn, AtFront(t)
    PROVE  AtFront(t)'
<1>1. state[t] # "none" /\ order'[t] = order[t] /\ state'[t] # "none" /\ order[t] <= clock
  BY OrderMoves DEF AtFront, OrderBound
<1>2. ASSUME NEW u \in requests', ThreadOf[u] = ThreadOf[t] PROVE order[t] <= order'[u]
  <2>1. u \in Turn /\ order[t] \in Nat /\ clock \in Nat
    BY DEF TypeOK, LedgerTypeOK, LedgerInv
  <2>2. CASE u \in requests
    <3>1. order'[u] = order[u]
      BY <2>1, <2>2, OrderMoves DEF LedgerInv, RowsHaveTurns
    <3> QED BY <1>2, <2>2, <3>1 DEF AtFront
  <2>3. CASE u \notin requests
    BY <1>1, <2>1, <2>3 DEF NewRows
  <2> QED BY <2>2, <2>3
<1> QED BY <1>1, <1>2 DEF AtFront

\* A Thread whose rows are held all or none: the first pending one is first of
\* all its rows, and where one is pending all are.
LEMMA EvenPending ==
    ASSUME LeftBound, NEW th \in Thread, Even(th), NEW t \in PendingOf(th),
           NEW u \in requests, u \in Turn, ThreadOf[u] = th
    PROVE  u \in PendingOf(th)
BY DEF LeftBound, Even, Plain, PendingOf, Pending, Held, TurnsOf

LEMMA FirstIsFront ==
    ASSUME LedgerInv, LeftBound, NEW th \in Thread, Even(th),
           NEW t \in FirstOf(PendingOf(th))
    PROVE  t \in Turn /\ ThreadOf[t] = th /\ t \in requests /\ AtFront(t)
<1>1. /\ t \in PendingOf(th) /\ t \in Turn /\ t \in requests /\ ThreadOf[t] = th
      /\ \A u \in PendingOf(th) : order[t] <= order[u]
  BY DEF FirstOf, PendingOf, Pending, TurnsOf
<1>2. requests \subseteq Turn /\ state[t] # "none"
  BY <1>1 DEF LedgerInv, TypeOK, LedgerTypeOK, RowsHaveTurns
<1> QED BY <1>1, <1>2, EvenPending DEF AtFront

LEMMA TiesNext ==
    ASSUME LedgerInv, OrderBound, LeftBound, Ties, RowsAct, TypeOK'
    PROVE  Ties' /\ LeftBound'
<1>1. /\ \A t \in Turn : order[t] \in Nat /\ order'[t] \in Nat /\ order[t] <= clock
      /\ clock \in Nat /\ left \in [Events -> Nat] /\ left' \in [Events -> Nat]
      /\ Budget \in [Events -> Nat] /\ {"crash", "snooze"} \subseteq Events
  BY BoundAssumption
  DEF LedgerInv, TypeOK, LedgerTypeOK, GhostTypeOK, OrderBound, Events
<1>2. \A e \in Events : left'[e] <= left[e] /\ left[e] <= Budget[e]
  BY DEF RowsAct, LeftFollows, LeftBound
<1>3. Crashed => Crashed'
  BY <1>1, <1>2 DEF Crashed
<1>4. LeftBound'
  <2>1. \A e \in Events : left'[e] <= Budget[e]
    BY <1>1, <1>2
  <2>2. ASSUME Budget["snooze"] = 0 PROVE snoozed' = {}
    <3>1. snoozed = {} /\ left["snooze"] = 0 /\ left'["snooze"] = 0
      BY <1>1, <1>2, <2>2 DEF LeftBound
    <3> QED BY <3>1 DEF RowsAct, LeftFollows
  <2> QED BY <2>1, <2>2 DEF LeftBound
<1>5. ASSUME NEW t \in Turn, NEW u \in Turn, order'[t] = order'[u], 0 < order'[t], t # u
      PROVE  KindOf[t] = "report" /\ KindOf[u] = "report" /\ Crashed'
  <2>1. order[t] # clock + 1 /\ order[u] # clock + 1
    BY <1>1
  <2>2. CASE order'[t] = order[t] /\ order'[u] = order[u]
    BY <1>3, <1>5, <2>2 DEF Ties
  <2>3. CASE order'[t] = clock + 1
    BY <1>5, <2>1, <2>3 DEF RowsAct, NewIds
  <2>4. CASE order'[u] = clock + 1
    BY <1>5, <2>1, <2>4 DEF RowsAct, NewIds
  <2> QED BY <2>2, <2>3, <2>4 DEF RowsAct, NewIds
<1> QED BY <1>4, <1>5 DEF Ties

LEMMA LeftoverNext ==
    ASSUME LedgerInv, Owners, LeftBound, RowsHaveIds, Leftover, OrderBound, Moves, RowsAct,
           TypeOK'
    PROVE  RowsHaveIds' /\ Leftover'
<1>1. requests \subseteq Turn /\ clock \in Nat /\ (Crashed => Crashed')
  <2>1. /\ left["crash"] \in Nat /\ left'["crash"] \in Nat /\ Budget["crash"] \in Nat
        /\ left'["crash"] <= left["crash"]
    BY BoundAssumption
    DEF LedgerInv, TypeOK, GhostTypeOK, Events, RowsAct, LeftFollows
  <2> QED BY <2>1 DEF Crashed, LedgerInv, TypeOK, LedgerTypeOK
<1>2. RowsHaveIds'
  <2> SUFFICES ASSUME NEW t \in requests' PROVE 0 < order'[t] /\ KindOf[t] # "background"
    BY DEF RowsHaveIds
  <2>1. CASE t \in requests
    BY <1>1, <2>1, OrderMoves DEF RowsHaveIds, LedgerInv, RowsHaveTurns
  <2>2. CASE t \notin requests
    BY <1>1, <2>2 DEF RowsAct, NewRows
  <2> QED BY <2>1, <2>2
<1>3. drop'.pc # "idle" => KindOf[drop'.turn] = "owner"
  BY DEF RowsAct, DropLeaves, Leftover
<1>4. ASSUME NEW t \in requests', state'[t] \in Terminal
      PROVE  KindOf[t] = "owner" /\ (Crashed' \/ (drop'.pc = "clean" /\ drop'.turn = t))
  <2>1. CASE drop'.pc = "clean" /\ drop'.turn = t
    BY <1>3, <2>1
  <2>2. CASE t \in requests /\ state[t] \in Terminal
    BY <1>1, <1>4, <2>2 DEF Leftover, RowsAct, DropLeaves
  <2> QED BY <1>4, <2>1, <2>2 DEF RowsAct, EndedRows
<1> QED BY <1>2, <1>3, <1>4 DEF Leftover

LEMMA LaneFrontNext ==
    ASSUME LedgerInv, Owners, OrderBound, LeftBound, LaneFront, ActorsFollow, Moves,
           NewRows, TypeOK'
    PROVE  LaneFront'
<1> SUFFICES ASSUME NEW th \in Thread, Even(th), NEW t \in Turn, KindOf[t] # "background",
                    \/ lane'[th].pc \in {"run", "bind"} /\ lane'[th].turn = t
                    \/ anchor'[th] # None /\ anchor'[th] = t
             PROVE  AtFront(t)'
  BY DEF TypeOK, LaneTypeOK, LaneFront
<1>1. LaneFollows(th) /\ (AtFront(t) => AtFront(t)')
  BY FrontStays DEF ActorsFollow
<1>2. /\ lane[th].pc \in {"run", "bind"} /\ lane[th].turn = t => AtFront(t)
      /\ anchor[th] # None /\ anchor[th] = t => AtFront(t)
  BY DEF LaneFront
<1>3. t \in FirstOf(PendingOf(th)) => AtFront(t)
  BY FirstIsFront
<1>4. CASE lane'[th].pc \in {"run", "bind"} /\ lane'[th].turn = t
  BY <1>1, <1>2, <1>3, <1>4 DEF LaneFollows
<1>5. CASE anchor'[th] # None /\ anchor'[th] = t
  BY <1>1, <1>2, <1>5 DEF LaneFollows
<1> QED BY <1>4, <1>5

LEMMA LashFrontNext ==
    ASSUME LedgerInv, Owners, OrderBound, LeftBound, LashFront, RowsHaveIds, HoldFollows,
           Moves, NewRows, TypeOK'
    PROVE  LashFront'
<1> SUFFICES ASSUME NEW t \in Turn, lash'[t] = "pending"
             PROVE  /\ KindOf[t] # "background" /\ ExecOf[t] = "native" /\ state'[t] # "none"
                    /\ Even(ThreadOf[t]) /\ t \in requests' => AtFront(t)'
  BY DEF LashFront, AtFront
<1> DEFINE th == ThreadOf[t]
<1>1. th \in Thread /\ t \in LashPending(th)' /\ LashFollows(th)
  BY TreeAssumption DEF LashPending, TurnsOf, HoldFollows
<1>2. CASE lash[t] = "pending"
  <2>1. /\ KindOf[t] # "background" /\ ExecOf[t] = "native" /\ state[t] # "none"
        /\ Even(th) /\ t \in requests => AtFront(t)
    BY <1>2 DEF LashFront
  <2>2. state'[t] # "none"
    BY <2>1, OrderMoves
  <2>3. t \in requests' => t \in requests
    BY <2>1 DEF NewRows
  <2> QED BY <2>1, <2>2, <2>3, FrontStays
<1>3. CASE lash[t] # "pending"
  <2>1. t \in Candidates(th)
    BY <1>1, <1>3 DEF LashFollows, LashPending
  <2>2. t \in FirstOf(PendingOf(th)) /\ ExecOf[t] = "native"
    BY <2>1 DEF Candidates
  <2>3. t \in requests
    BY <2>2 DEF FirstOf, PendingOf, Pending
  <2>4. state[t] # "none" /\ KindOf[t] # "background"
    BY <2>3 DEF LedgerInv, RowsHaveTurns, RowsHaveIds
  <2>5. state'[t] # "none"
    BY <2>4, OrderMoves
  <2>6. Even(th) => AtFront(t)'
    BY <1>1, <2>2, FirstIsFront, FrontStays
  <2> QED BY <2>2, <2>4, <2>5, <2>6
<1> QED BY <1>2, <1>3

\* In a Thread of ordered rows a pending input and the first pending request are
\* the same.
LEMMA InputIsFirst ==
    ASSUME LedgerInv, LeftBound, Ties, RowsHaveIds, LashFront, NEW th \in Thread,
           OrderedRows(th), NEW t \in FirstOf(PendingOf(th)),
           NEW u \in LashPending(th) \cap Pending
    PROVE  u = t
<1>1. Even(th)
  BY DEF OrderedRows, Even
<1>2. t \in Turn /\ ThreadOf[t] = th /\ t \in requests /\ AtFront(t)
  BY <1>1, FirstIsFront
<1>3. u \in Turn /\ ThreadOf[u] = th /\ u \in requests /\ lash[u] = "pending"
  BY DEF LashPending, Pending, TurnsOf
<1>4. order[u] <= order[t] /\ order[t] <= order[u]
  BY <1>1, <1>2, <1>3 DEF LashFront, AtFront
<1>5. order[u] = order[t] /\ 0 < order[t]
  BY <1>2, <1>3, <1>4 DEF RowsHaveIds, LedgerInv, TypeOK, LedgerTypeOK
<1>6. Budget["crash"] = 0 => ~Crashed
  BY BoundAssumption DEF Crashed, LedgerInv, TypeOK, GhostTypeOK, Events
<1>7. KindOf[t] # "report" \/ ~Crashed
  BY <1>2, <1>6 DEF OrderedRows, Plain, TurnsOf
<1> QED BY <1>2, <1>3, <1>5, <1>7 DEF Ties

LEMMA InputsNext ==
    ASSUME FrontInv, ActorsFollow, HoldFollows, LashFront', NEW th \in Thread, OrderedRows(th)
    PROVE  InputsIn(th)'
<1>1. /\ LaneFollows(th) /\ LashFollows(th) /\ InputsIn(th) /\ LedgerInv
      /\ LeftBound /\ Ties /\ RowsHaveIds /\ LashFront
  BY DEF ActorsFollow, HoldFollows, FrontInv, InputsInv, WorkInv
<1> DEFINE L == LashPending(th)
           M == LashPending(th)'
<1>2. \A t \in M : KindOf[t] # "background"
  BY DEF LashFront, LashPending, TurnsOf
<1>3. ASSUME ~Admits(th, "run") PROVE M \subseteq L
  BY <1>1, <1>3 DEF LashFollows
<1>4. ASSUME Admits(th, "run")
      PROVE  /\ M \subseteq {lane'[th].turn} /\ anchor'[th] = anchor[th]
             /\ anchor[th] # None => KindOf[anchor[th]] # "background"
  <2>1. /\ lane'[th].turn \in Candidates(th) /\ anchor'[th] = anchor[th]
        /\ M \subseteq (L \cap Pending) \cup {lane'[th].turn}
    BY <1>1, <1>4 DEF LashFollows
  <2>2. lane'[th].turn \in FirstOf(PendingOf(th))
    BY <2>1 DEF Candidates
  <2>3. \A u \in L \cap Pending : u = lane'[th].turn
    BY <1>1, <2>2, InputIsFirst
  <2> QED BY <2>1, <2>3 DEF Candidates
<1>5. ASSUME Admits(th, "bind") PROVE M = {}
  <2>1. NothingAdmitted(th) /\ M \subseteq L \cap Pending
    BY <1>1, <1>5 DEF LashFollows
  <2>2. CASE anchor[th] # None /\ KindOf[anchor[th]] = "background"
    BY <1>1, <2>1, <2>2 DEF InputsIn
  <2>3. CASE PendingOf(th) = {}
    BY <2>1, <2>3 DEF LashPending, PendingOf
  <2>4. ASSUME NEW t \in FirstOf(PendingOf(th)), ExecOf[t] = "cli" PROVE M = {}
    <3>1. \A u \in L \cap Pending : u = t /\ u \in Turn /\ ExecOf[u] = "native"
      BY <1>1, <2>4, InputIsFirst DEF LashFront, LashPending, TurnsOf
    <3> QED BY <2>1, <2>4, <3>1
  <2> QED BY <2>1, <2>2, <2>3, <2>4 DEF NothingAdmitted
<1> HIDE DEF L, M
<1>6. ASSUME lane'[th].pc \in {"run", "bind"} PROVE M \subseteq {lane'[th].turn}
  <2>1. CASE Admits(th, "run")
    BY <1>4, <2>1
  <2>2. CASE Admits(th, "bind")
    BY <1>5, <2>2
  <2>3. CASE ~Admits(th, "run") /\ ~Admits(th, "bind")
    <3>1. lane[th].pc \in {"run", "bind"} /\ lane'[th].turn = lane[th].turn
      BY <1>1, <1>6, <2>3 DEF LaneFollows, Admits
    <3> QED BY <1>1, <1>3, <2>3, <3>1 DEF InputsIn, L
  <2> QED BY <2>1, <2>2, <2>3
<1>7. ASSUME lane'[th].pc = "drain" PROVE M \subseteq {anchor'[th]}
  <2>1. ~Admits(th, "run")
    BY <1>7 DEF Admits
  <2>2. \/ lane[th].pc = "drain" /\ anchor'[th] = anchor[th]
        \/ lane[th].pc = "bind" /\ anchor'[th] = lane[th].turn
    BY <1>1, <1>7 DEF LaneFollows
  <2> QED BY <1>1, <1>3, <2>1, <2>2 DEF InputsIn, L
<1>8. ASSUME anchor'[th] # None, KindOf[anchor'[th]] = "background" PROVE M = {}
  <2>1. ~Admits(th, "run")
    BY <1>4, <1>8
  <2>2. \/ anchor'[th] = anchor[th]
        \/ lane[th].pc = "bind" /\ anchor'[th] = lane[th].turn
    BY <1>1, <1>8 DEF LaneFollows
  <2>3. CASE anchor'[th] = anchor[th]
    BY <1>1, <1>3, <1>8, <2>1, <2>3 DEF InputsIn, L
  <2>4. CASE lane[th].pc = "bind" /\ anchor'[th] = lane[th].turn
    <3>1. M \subseteq {anchor'[th]}
      BY <1>1, <1>3, <2>1, <2>4 DEF InputsIn, L
    <3> QED BY <1>2, <1>8, <3>1
  <2> QED BY <2>2, <2>3, <2>4
<1> QED BY <1>6, <1>7, <1>8 DEF InputsIn, M

\* Discarding the row of an ended turn takes no anchor from a turn that runs.
LEMMA DiscardIsSafe ==
    ASSUME FrontInv, NEW th \in Thread, KeepsAuthority(th), NEW t \in Turn,
           LaneDiscard(th, t), NEW a \in Turn, anchor[th] = a
    PROVE  state[a] # "running"
<1> SUFFICES ASSUME state[a] = "running" PROVE FALSE
  OBVIOUS
<1>1. /\ LedgerInv /\ LeftBound /\ Ties /\ RowsHaveIds /\ Leftover /\ TypeOK
      /\ ThreadOf[a] = th
  BY TreeAssumption DEF FrontInv, WorkInv, LedgerInv, Owners, LaneOwns
<1>2. /\ t \in Candidates(th) /\ state[t] \in Terminal /\ ~DropHolds(th)
  BY DEF LaneDiscard, Admitting
<1>3. KindOf[a] # "background" /\ t \in FirstOf(PendingOf(th))
  BY <1>2, TreeAssumption DEF Candidates
<1>4. t \in PendingOf(th) /\ t \in requests /\ ThreadOf[t] = th
  BY <1>3 DEF FirstOf, PendingOf, Pending, TurnsOf
<1>5. KindOf[t] = "owner" /\ Crashed
  BY <1>1, <1>2, <1>4 DEF Leftover, DropHolds
<1>6. Even(th)
  <2>1. Budget["crash"] = 0 => ~Crashed
    BY <1>1, BoundAssumption DEF Crashed, TypeOK, GhostTypeOK, Events
  <2> QED BY <1>5, <2>1 DEF KeepsAuthority
<1>7. a \in requests
  BY <1>1, <1>3 DEF LedgerInv, AcceptedIsHeld, Open, OpenStates
<1>8. order[t] <= order[a]
  BY <1>1, <1>3, <1>6, <1>7, FirstIsFront DEF AtFront
<1>9. order[a] <= order[t]
  <2>1. AtFront(a)
    BY <1>3, <1>6, TreeAssumption DEF FrontInv, LaneFront
  <2> QED BY <1>1, <1>4, <2>1 DEF AtFront
<1>10. order[a] = order[t] /\ 0 < order[t]
  BY <1>1, <1>4, <1>8, <1>9 DEF RowsHaveIds, TypeOK, LedgerTypeOK
<1>11. t = a
  BY <1>1, <1>5, <1>10 DEF Ties
<1> QED BY <1>2, <1>11 DEF Terminal

LEMMA OwnedNext ==
    ASSUME FrontInv, HoldFollows, [Next]_vars, ActorsFollow, NEW th \in Thread,
           KeepsAuthority(th)
    PROVE  OwnedIn(th)'
<1> SUFFICES ASSUME NEW t \in Turn, ThreadOf[t] = th, t \in bound', state'[t] = "running",
                    t \notin cancelReq'
             PROVE  \/ cli'[th].turn = t /\ cli'[th].pc = "drive"
                    \/ anchor'[th] = t
  BY DEF OwnedIn, Authorized, TurnsOf
<1>1. t \notin cancelReq /\ LedgerInv /\ Owners /\ WorkInv
  BY DEF ActorsFollow, Grows, FrontInv, WorkInv
<1>2. CASE t \notin bound
  BY <1>1, <1>2 DEF HoldFollows, BoundFollows
<1>3. CASE t \in bound
  <2>1. state[t] = "running"
    <3>1. state[t] \in Terminal => state'[t] \in Terminal
      BY <1>1, StartedStays
    <3> QED BY <1>3, <3>1 DEF FrontInv, BoundStarted, Terminal
  <2>2. (cli[th].turn = t /\ cli[th].pc = "drive") \/ anchor[th] = t
    BY <1>1, <1>3, <2>1 DEF FrontInv, OwnedInv, OwnedIn, Authorized, TurnsOf
  <2>3. CASE cli[th].turn = t /\ cli[th].pc = "drive"
    BY <2>3 DEF HoldFollows, DriveFollows
  <2>4. CASE anchor[th] = t
    <3>1. AnchorFollows(th)
      BY DEF HoldFollows
    <3>2. ~ \E u \in Turn : LaneDiscard(th, u)
      BY <2>1, <2>4, DiscardIsSafe
    <3>3. ASSUME lane[th].pc = "bind", CanBind(lane[th].turn)
          PROVE  lane[th].turn = t
      <4>1. lane[th].turn \in Turn /\ ThreadOf[lane[th].turn] = th
        BY <1>1, <3>3 DEF LedgerInv, TypeOK, LaneTypeOK, Owners, LaneOwns
      <4> QED BY <1>1, <2>1, <3>3, <4>1 DEF CanBind, WorkInv, OneRunning
    <3> QED BY <2>4, <3>1, <3>2, <3>3 DEF AnchorFollows
  <2> QED BY <2>2, <2>3, <2>4
<1> QED BY <1>2, <1>3

LEMMA FrontInductive == Spec => []FrontInv
<1>1. Init => OrderBound /\ LeftBound /\ Ties /\ RowsHaveIds /\ Leftover /\ LaneFront
              /\ BoundStarted /\ OwnedInv /\ LashFront /\ InputsInv
  BY BoundAssumption
  DEF Init, OrderBound, LeftBound, Ties, RowsHaveIds, Leftover, LaneFront, BoundStarted,
      OwnedInv, OwnedIn, Authorized, LashFront, InputsInv, InputsIn, LashPending, NoDrop,
      NoLane
<1>2. Init /\ WorkInv => FrontInv
  BY <1>1 DEF FrontInv
<1>3. WorkInv /\ FrontInv /\ [Next]_vars /\ WorkInv' => FrontInv'
  <2> SUFFICES ASSUME FrontInv, [Next]_vars, WorkInv' PROVE FrontInv'
    OBVIOUS
  <2>1. /\ LedgerInv /\ Owners /\ TypeOK' /\ OrderBound /\ LeftBound /\ Ties /\ RowsHaveIds
        /\ Leftover /\ LaneFront /\ LashFront
    BY DEF FrontInv, WorkInv, LedgerInv
  <2>2. Moves /\ RowsAct /\ HoldFollows /\ ActorsFollow
    BY <2>1, NextMoves, NextRowsAct, NextHolds, NextFollows
  <2>3. OrderBound' /\ Ties' /\ LeftBound'
    BY <2>1, <2>2, OrderMoves, TiesNext
  <2>4. RowsHaveIds' /\ Leftover'
    BY <2>1, <2>2, LeftoverNext
  <2>5. LaneFront' /\ LashFront'
    BY <2>1, <2>2, LaneFrontNext, LashFrontNext DEF RowsAct
  <2>6. InputsInv'
    <3>1. \A th \in Thread : OrderedRows(th) => InputsIn(th)'
      BY <2>2, <2>5, InputsNext
    <3> QED BY <3>1 DEF InputsInv
  <2>7. OwnedInv'
    <3>1. \A th \in Thread : KeepsAuthority(th) => OwnedIn(th)'
      BY <2>2, OwnedNext
    <3> QED BY <3>1 DEF OwnedInv
  <2>8. BoundStarted'
    <3> SUFFICES ASSUME NEW t \in bound' PROVE state'[t] \in {"running"} \cup Terminal
      BY DEF BoundStarted
    <3>1. t \in Turn
      BY <2>1 DEF TypeOK, LedgerTypeOK
    <3> QED BY <2>1, <2>2, <3>1, StartedStays
            DEF FrontInv, BoundStarted, HoldFollows, BoundFollows
  <2> QED BY <2>3, <2>4, <2>5, <2>6, <2>7, <2>8 DEF FrontInv
<1> QED BY <1>2, <1>3, WorkInductive, PTL DEF Spec

\* Tool authority belongs to the work that executes the turn, in every history
\* without one of the two events that together refute it: a snoozed Thread that
\* gets reports, and a restart.
THEOREM AuthorityHasAnOwner ==
    ASSUME \A th \in Thread : KeepsAuthority(th)
    PROVE  Spec => []AuthorityIsOwned
<1>1. FrontInv => AuthorityIsOwned
  BY TreeAssumption DEF FrontInv, OwnedInv, OwnedIn, TurnsOf, AuthorityIsOwned
<1> QED BY <1>1, FrontInductive, PTL

\* A drain finds one input, its own turn's, where the rows of the Threads are
\* ordered: restarts, marks, removals and a change of executor do not change it.
THEOREM DrainsFindOneInput ==
    ASSUME \A th \in Thread : OrderedRows(th)
    PROVE  Spec => []OneAdmittedInput
<1>1. FrontInv => OneAdmittedInput
  BY DEF FrontInv, InputsInv, InputsIn, OneAdmittedInput
<1> QED BY <1>1, FrontInductive, PTL

\* Thread by Thread, with no assumption on the others.
THEOREM LanesKeepTheirTurns ==
    Spec => [](\A th \in Thread : /\ KeepsAuthority(th) => OwnedIn(th)
                                  /\ OrderedRows(th) => InputsIn(th))
<1>1. FrontInv => \A th \in Thread : /\ KeepsAuthority(th) => OwnedIn(th)
                                     /\ OrderedRows(th) => InputsIn(th)
  BY DEF FrontInv, OwnedInv, InputsInv
<1> QED BY <1>1, FrontInductive, PTL
=============================================================================
