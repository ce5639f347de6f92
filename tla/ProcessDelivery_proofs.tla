------------------------- MODULE ProcessDelivery_proofs -------------------------
(***************************************************************************)
(* Theorems about ProcessDelivery: for any processes and any number of     *)
(* crashes, failed passes and archivings, no wake is lost, receipts are    *)
(* told and accepted once each in the order they were staged, and readers  *)
(* see nothing but the steps of DeliveryLedger.                            *)
(*                                                                         *)
(* chat and turns are prefixes of the table (RowsInv). What keeps them so  *)
(* is that a pass, from the moment it has read the pending receipts, holds *)
(* or has at hand every row without a turn (PassInv): the first of what it *)
(* holds is either done already or the next one due.                       *)
(***************************************************************************)
EXTENDS ProcessDelivery, TLAPS

RowsInv ==
    /\ \A i, j \in DOMAIN staged : staged[i] = staged[j] => i = j
    /\ Len(chat) <= Len(staged) /\ \A i \in DOMAIN chat : chat[i] = staged[i]
    /\ Len(turns) <= Len(chat) /\ \A i \in DOMAIN turns : turns[i] = staged[i]
    /\ acked \subseteq ToSet(turns)

\* The rows without a turn are still to come, but for those of D.
RestPending(D) == \A i \in DOMAIN staged \ D : i > Len(turns) => i \in bridge.pending

PassInv ==
    /\ AtPc("unqueue") => bridge.key \in ToSet(staged)
    /\ AtPc("deliver") => RestPending({})
    /\ AtPc("enqueue") => \E i \in DOMAIN chat :
                              /\ bridge.key = staged[i] /\ i <= Len(turns) + 1
                              /\ RestPending({i})
    /\ AtPc("ack") => bridge.key \in ToSet(turns) /\ RestPending({})

DeliveryInv == TypeOK /\ RowsInv /\ PassInv /\ WakeIsHeld

-----------------------------------------------------------------------------
(* Sequences as sets                                                       *)

LEMMA ToSetAppend ==
    ASSUME NEW S, NEW s \in Seq(S), NEW e \in S
    PROVE  /\ Append(s, e) \in Seq(S) /\ Len(Append(s, e)) = Len(s) + 1
           /\ DOMAIN Append(s, e) = DOMAIN s \cup {Len(s) + 1}
           /\ \A i \in DOMAIN s : Append(s, e)[i] = s[i]
           /\ Append(s, e)[Len(s) + 1] = e
           /\ ToSet(Append(s, e)) = ToSet(s) \cup {e}
<1>1. /\ Append(s, e) \in Seq(S) /\ Len(Append(s, e)) = Len(s) + 1
      /\ DOMAIN Append(s, e) = DOMAIN s \cup {Len(s) + 1}
      /\ \A i \in DOMAIN s : Append(s, e)[i] = s[i]
      /\ Append(s, e)[Len(s) + 1] = e
    OBVIOUS
<1>2. ToSet(Append(s, e)) = ToSet(s) \cup {e}
    BY <1>1 DEF ToSet
<1>3. QED
    BY <1>1, <1>2

\* A row is in chat exactly when it is one of the first Len(chat), and in turns
\* exactly when it is one of the first Len(turns).
LEMMA ToldRows ==
    ASSUME TypeOK, RowsInv, NEW i \in DOMAIN staged
    PROVE  /\ staged[i] \in Key
           /\ staged[i] \in ToSet(chat) <=> i <= Len(chat)
           /\ staged[i] \in ToSet(turns) <=> i <= Len(turns)
           /\ i \in 1 .. Len(staged) /\ Len(chat) \in Nat /\ Len(turns) \in Nat
<1>1. /\ DOMAIN staged = 1 .. Len(staged) /\ DOMAIN chat = 1 .. Len(chat)
      /\ DOMAIN turns = 1 .. Len(turns) /\ Len(chat) \in Nat /\ Len(turns) \in Nat
      /\ Len(staged) \in Nat /\ staged[i] \in Key
    BY DEF TypeOK
<1>2. staged[i] \in ToSet(chat) <=> i <= Len(chat)
    BY <1>1 DEF RowsInv, ToSet
<1>3. staged[i] \in ToSet(turns) <=> i <= Len(turns)
    BY <1>1 DEF RowsInv, ToSet
<1>4. QED
    BY <1>1, <1>2, <1>3

-----------------------------------------------------------------------------
(* Steps that leave the rows alone                                         *)

LEMMA RowsStay ==
    ASSUME RowsInv, UNCHANGED <<staged, chat, turns, acked>>
    PROVE  RowsInv'
BY DEF RowsInv

\* Lash and the Thread around the bridge.
LEMMA PassStays ==
    ASSUME PassInv, UNCHANGED <<staged, chat, turns, bridge>>
    PROVE  PassInv'
BY DEF PassInv, RestPending, AtPc

LEMMA OutsideKeepsInv ==
    ASSUME FaultLimit \in Nat, DeliveryInv,
           \/ \E r \in Run : StartRun(r) \/ Wake(r) \/ CancelProcess(r)
                             \/ \E end \in {"completed", "failed"} : EndRun(r, end)
           \/ PumpDrains
           \/ \E k \in Key : SettleTurn(k)
           \/ \E a \in BOOLEAN : SetArchived(a)
    PROVE  DeliveryInv'
<1> USE DEF DeliveryInv, receipts, lash
<1>1. UNCHANGED <<staged, chat, turns, acked, bridge>>
    BY DEF StartRun, Wake, CancelProcess, EndRun, PumpDrains, SettleTurn, SetArchived
<1>2. RowsInv' /\ PassInv'
    BY <1>1, RowsStay, PassStays
<1>3. ASSUME NEW r \in Run, StartRun(r) PROVE TypeOK' /\ WakeIsHeld'
    BY <1>3 DEF StartRun, TypeOK, WakeIsHeld, Statuses, Live
<1>4. ASSUME NEW r \in Run, Wake(r) PROVE TypeOK' /\ WakeIsHeld'
    BY <1>4 DEF Wake, TypeOK, WakeIsHeld
<1>5. ASSUME NEW r \in Run, NEW end \in Reported, EndRun(r, end) PROVE TypeOK' /\ WakeIsHeld'
    BY <1>5 DEF EndRun, TypeOK, WakeIsHeld, Statuses, Reported
<1>6. CASE PumpDrains
    BY <1>2, <1>6 DEF PumpDrains, TypeOK, WakeIsHeld
<1>7. ASSUME NEW k \in Key, SettleTurn(k) PROVE TypeOK' /\ WakeIsHeld'
    BY <1>7 DEF SettleTurn, TypeOK, WakeIsHeld
<1>8. ASSUME NEW a \in BOOLEAN, SetArchived(a) PROVE TypeOK' /\ WakeIsHeld'
    BY <1>8 DEF SetArchived, TypeOK, WakeIsHeld
<1>9. QED
    BY <1>2, <1>3, <1>4, <1>5, <1>6, <1>7, <1>8 DEF CancelProcess, Reported

\* A pass that begins, reads or ends.
LEMMA PassMovesKeepsInv ==
    ASSUME FaultLimit \in Nat, DeliveryInv,
           BeginPass \/ ReadEnds \/ EnqueueRefused \/ EndPass \/ PassFails \/ Crash
    PROVE  DeliveryInv'
<1> USE DEF DeliveryInv, receipts, lash
<1>1. UNCHANGED <<staged, chat, turns, acked, settled, lashQueue, woke, drained>>
    BY DEF BeginPass, ReadEnds, EnqueueRefused, EndPass, PassFails, Crash
<1>2. /\ bridge' \in [pc : {"idle", "wakes", "ends"}, todo : SUBSET Key,
                      pending : SUBSET DOMAIN staged, key : Key \cup {NoKey}]
    <2>1. Idle \in [pc : {"idle"}, todo : SUBSET Key, pending : SUBSET DOMAIN staged,
                   key : {NoKey}]
        BY DEF Idle
    <2>2. CASE BeginPass
        BY <2>1, <2>2 DEF BeginPass, Idle, TypeOK, Key
    <2>3. CASE ReadEnds
        BY <2>3 DEF ReadEnds, TypeOK, Key
    <2>4. QED
        BY <2>1, <2>2, <2>3 DEF EnqueueRefused, EndPass, PassFails, Crash
<1>3. RowsInv'
    BY <1>1, RowsStay
<1>4. PassInv'
    BY <1>2 DEF PassInv, AtPc
<1>5. WakeIsHeld'
    BY <1>1 DEF WakeIsHeld
<1>6. status' \in [Run -> Statuses]
    BY DEF BeginPass, ReadEnds, EnqueueRefused, EndPass, PassFails, Crash, TypeOK, Statuses
<1>7. archived' \in BOOLEAN /\ faults' \in 0 .. FaultLimit
    BY DEF BeginPass, ReadEnds, EnqueueRefused, EndPass, PassFails, Crash, TypeOK
<1>8. TypeOK'
    BY <1>1, <1>2, <1>6, <1>7 DEF TypeOK, Pcs
<1>9. QED
    BY <1>3, <1>4, <1>5, <1>8

-----------------------------------------------------------------------------
(* Staging                                                                 *)

\* The table grows at its end, by a key it did not have.
LEMMA StageKeyGrows ==
    ASSUME TypeOK, RowsInv, WakeIsHeld, NEW k \in Key, StageKey(k),
           UNCHANGED <<chat, turns, acked, lashQueue, woke, drained>>
    PROVE  /\ RowsInv' /\ WakeIsHeld'
           /\ staged' \in Seq(Key) /\ k \in ToSet(staged')
           /\ DOMAIN staged \subseteq DOMAIN staged'
<1>1. staged \in Seq(Key) /\ chat \in Seq(Key) /\ turns \in Seq(Key)
    BY DEF TypeOK
<1>2. CASE k \in ToSet(staged)
    BY <1>1, <1>2, RowsStay DEF StageKey, WakeIsHeld
<1>3. CASE k \notin ToSet(staged)
    <2>1. staged' = Append(staged, k)
        BY <1>3 DEF StageKey
    <2>2. /\ staged' \in Seq(Key) /\ Len(staged') = Len(staged) + 1
          /\ DOMAIN staged' = DOMAIN staged \cup {Len(staged) + 1}
          /\ \A i \in DOMAIN staged : staged'[i] = staged[i]
          /\ staged'[Len(staged) + 1] = k
          /\ ToSet(staged') = ToSet(staged) \cup {k}
        BY <1>1, <2>1, ToSetAppend
    <2>3. \A i, j \in DOMAIN staged' : staged'[i] = staged'[j] => i = j
        BY <1>3, <2>2 DEF RowsInv, ToSet
    <2>4. DOMAIN chat \subseteq DOMAIN staged /\ DOMAIN turns \subseteq DOMAIN staged
        BY <1>1 DEF RowsInv
    <2>5. RowsInv'
        BY <1>1, <2>2, <2>3, <2>4 DEF RowsInv
    <2>6. QED
        BY <2>2, <2>5 DEF WakeIsHeld
<1>4. QED
    BY <1>2, <1>3

LEMMA StagingKeepsInv ==
    ASSUME DeliveryInv, NEW k \in bridge.todo, StageWake(k) \/ StageEnd(k)
    PROVE  DeliveryInv'
<1> USE DEF DeliveryInv, receipts, lash
<1>1. k \in Key /\ StageKey(k)
      /\ UNCHANGED <<lash, chat, turns, settled, acked, archived, faults>>
    BY DEF TypeOK, StageWake, StageEnd
<1>2. /\ RowsInv' /\ WakeIsHeld'
      /\ staged' \in Seq(Key) /\ k \in ToSet(staged')
      /\ DOMAIN staged \subseteq DOMAIN staged'
    BY <1>1, StageKeyGrows
<1>3. TypeOK'
    <2>1. bridge' \in [pc : Pcs, todo : SUBSET Key, pending : SUBSET DOMAIN staged',
                      key : Key \cup {NoKey}]
        BY <1>1, <1>2 DEF StageWake, StageEnd, TypeOK, Pcs
    <2>2. QED
        BY <1>1, <1>2, <2>1 DEF TypeOK
<1>4. PassInv'
    <2>1. CASE StageWake(k)
        BY <1>2, <2>1 DEF StageWake, PassInv, AtPc, TypeOK
    <2>2. CASE StageEnd(k)
        BY <2>2 DEF StageEnd, PassInv, AtPc, TypeOK
    <2>3. QED
        BY <2>1, <2>2
<1>5. QED
    BY <1>2, <1>3, <1>4

\* The wake that leaves the queue is staged.
LEMMA UnqueueKeepsInv ==
    ASSUME DeliveryInv, Unqueue
    PROVE  DeliveryInv'
<1> USE DEF DeliveryInv, receipts, lash
<1>1. UNCHANGED <<status, woke, drained, staged, chat, turns, settled, acked, archived, faults>>
    BY DEF Unqueue
<1>2. RowsInv'
    BY <1>1, RowsStay
<1>3. PassInv'
    BY DEF Unqueue, PassInv, AtPc, TypeOK
<1>4. WakeIsHeld'
    BY <1>1 DEF Unqueue, PassInv, WakeIsHeld
<1>5. bridge' \in [pc : Pcs, todo : SUBSET Key, pending : SUBSET DOMAIN staged,
                  key : Key \cup {NoKey}]
    BY DEF Unqueue, TypeOK, Pcs
<1>6. lashQueue' \subseteq WakingRun
    BY DEF Unqueue, TypeOK
<1>7. TypeOK'
    BY <1>1, <1>5, <1>6 DEF TypeOK
<1>8. QED
    BY <1>2, <1>3, <1>4, <1>7

-----------------------------------------------------------------------------
(* Delivery                                                                *)

\* Whoever has no turn is not acknowledged, so the pass that reads the table
\* holds all rows without a turn.
LEMMA ReadPendingKeepsInv ==
    ASSUME DeliveryInv, ReadPending
    PROVE  DeliveryInv'
<1> USE DEF DeliveryInv, receipts, lash
<1>1. UNCHANGED <<lash, receipts, archived, faults>>
    BY DEF ReadPending
<1>2. bridge' = [pc |-> "deliver", todo |-> {}, pending |-> Pending, key |-> NoKey]
    BY DEF ReadPending, Idle
<1>3. TypeOK'
    BY <1>1, <1>2 DEF TypeOK, Pending, Pcs
<1>4. RowsInv' /\ WakeIsHeld'
    BY <1>1, RowsStay DEF WakeIsHeld
<1>5. \A i \in DOMAIN staged : i > Len(turns) => i \in Pending
    <2>1. TAKE i \in DOMAIN staged
    <2>2. HAVE i > Len(turns)
    <2>3. staged[i] \notin ToSet(turns)
        BY <2>2, ToldRows
    <2>4. QED
        BY <2>3 DEF Pending, RowsInv
<1>6. PassInv'
    BY <1>1, <1>2, <1>5 DEF PassInv, RestPending, AtPc
<1>7. QED
    BY <1>3, <1>4, <1>6

\* The first row the pass holds has its turn, or is the first without one.
LEMMA FirstIsDue ==
    ASSUME DeliveryInv, AtPc("deliver"), NEW i \in bridge.pending, FirstOf(i, bridge.pending)
    PROVE  i \in DOMAIN staged /\ i <= Len(turns) + 1
<1> USE DEF DeliveryInv
<1>1. /\ bridge.pending \subseteq DOMAIN staged /\ DOMAIN staged = 1 .. Len(staged)
      /\ Len(staged) \in Nat /\ Len(turns) \in Nat
    BY DEF TypeOK
<1>2. SUFFICES ASSUME i > Len(turns) + 1 PROVE FALSE
    BY <1>1
<1>3. Len(turns) + 1 \in bridge.pending
    BY <1>1, <1>2 DEF PassInv, RestPending
<1>4. QED
    BY <1>1, <1>2, <1>3 DEF FirstOf

LEMMA AppendMessageKeepsInv ==
    ASSUME DeliveryInv, AppendMessage
    PROVE  /\ DeliveryInv'
           /\ chat' = chat \/ (Len(chat') = Len(chat) + 1 /\ Len(chat) < Len(staged))
<1> USE DEF DeliveryInv, receipts, lash
<1>1. PICK i \in bridge.pending :
          /\ FirstOf(i, bridge.pending)
          /\ chat' = IF HasMessage(staged[i]) THEN chat ELSE Append(chat, staged[i])
          /\ bridge' = [bridge EXCEPT !.pc = "enqueue", !.key = staged[i],
                                      !.pending = @ \ {i}]
    BY DEF AppendMessage
<1>2. AtPc("deliver") /\ UNCHANGED <<lash, staged, turns, settled, acked, archived, faults>>
    BY DEF AppendMessage
<1>3. i \in DOMAIN staged /\ i <= Len(turns) + 1
    BY <1>1, <1>2, FirstIsDue
<1>4. /\ staged[i] \in Key /\ i \in 1 .. Len(staged) /\ Len(chat) \in Nat /\ Len(turns) \in Nat
      /\ HasMessage(staged[i]) <=> i <= Len(chat)
    BY <1>3, ToldRows DEF HasMessage
<1>5. bridge' \in [pc : {"enqueue"}, todo : SUBSET Key, pending : SUBSET DOMAIN staged, key : Key]
    BY <1>1, <1>4 DEF TypeOK
<1>6. bridge'.pc = "enqueue" /\ bridge'.key = staged[i] /\ bridge'.pending = bridge.pending \ {i}
    BY <1>1 DEF TypeOK
<1>7. chat \in Seq(Key) /\ turns \in Seq(Key) /\ staged \in Seq(Key)
      /\ DOMAIN chat = 1 .. Len(chat) /\ DOMAIN staged = 1 .. Len(staged)
    BY DEF TypeOK
<1>8. /\ chat' \in Seq(Key) /\ i \in DOMAIN chat' /\ Len(chat) <= Len(chat')
      /\ Len(chat') <= Len(staged) /\ \A j \in DOMAIN chat' : chat'[j] = staged[j]
      /\ chat' = chat \/ (Len(chat') = Len(chat) + 1 /\ Len(chat) < Len(staged))
    <2>1. CASE i <= Len(chat)
        <3>1. chat' = chat
            BY <1>1, <1>4, <2>1
        <3>2. QED
            BY <1>4, <1>7, <2>1, <3>1 DEF RowsInv
    <2>2. CASE ~(i <= Len(chat))
        <3>1. i = Len(chat) + 1
            BY <1>3, <1>4, <2>2 DEF RowsInv
        <3>2. chat' = Append(chat, staged[i])
            BY <1>1, <1>4, <2>2
        <3>3. /\ chat' \in Seq(Key) /\ Len(chat') = Len(chat) + 1
              /\ DOMAIN chat' = DOMAIN chat \cup {Len(chat) + 1}
              /\ \A j \in DOMAIN chat : chat'[j] = chat[j]
              /\ chat'[Len(chat) + 1] = staged[i]
            BY <1>4, <1>7, <3>2, ToSetAppend
        <3>4. QED
            BY <1>4, <3>1, <3>3 DEF RowsInv
    <2>3. QED
        BY <2>1, <2>2
<1>9. RowsInv'
    BY <1>2, <1>4, <1>7, <1>8 DEF RowsInv
<1>10. PassInv'
    <2>1. \A j \in DOMAIN staged : j > Len(turns) => j \in bridge.pending
        BY <1>2 DEF PassInv, RestPending
    <2>2. RestPending({i})'
        BY <1>2, <1>6, <2>1 DEF RestPending
    <2>3. QED
        BY <1>2, <1>3, <1>6, <1>8, <2>2 DEF PassInv, AtPc
<1>11. TypeOK' /\ WakeIsHeld'
    BY <1>2, <1>5, <1>8 DEF TypeOK, WakeIsHeld, Pcs
<1>12. QED
    BY <1>8, <1>9, <1>10, <1>11

LEMMA EnqueueKeepsInv ==
    ASSUME DeliveryInv, Enqueue
    PROVE  /\ DeliveryInv'
           /\ turns' = turns \/ (Len(turns') = Len(turns) + 1 /\ Len(turns) < Len(chat))
<1> USE DEF DeliveryInv, receipts, lash
<1>1. /\ AtPc("enqueue") /\ UNCHANGED <<lash, staged, chat, settled, acked, archived, faults>>
      /\ turns' = IF bridge.key \in ToSet(turns) THEN turns ELSE Append(turns, bridge.key)
      /\ bridge' = [bridge EXCEPT !.pc = "ack"]
    BY DEF Enqueue
<1>2. PICK i \in DOMAIN chat : bridge.key = staged[i] /\ i <= Len(turns) + 1 /\ RestPending({i})
    BY <1>1 DEF PassInv
<1>3. /\ chat \in Seq(Key) /\ turns \in Seq(Key) /\ staged \in Seq(Key)
      /\ DOMAIN chat = 1 .. Len(chat) /\ DOMAIN staged = 1 .. Len(staged)
      /\ DOMAIN turns = 1 .. Len(turns) /\ i \in DOMAIN staged
      /\ Len(chat) \in Nat /\ Len(turns) \in Nat /\ Len(staged) \in Nat
    BY DEF TypeOK, RowsInv
<1>4. bridge.key \in Key /\ (bridge.key \in ToSet(turns) <=> i <= Len(turns))
    BY <1>2, <1>3, ToldRows
<1>5. bridge'.pc = "ack" /\ bridge'.key = bridge.key /\ bridge'.pending = bridge.pending
    BY <1>1 DEF TypeOK
<1>6. /\ turns' \in Seq(Key) /\ bridge.key \in ToSet(turns') /\ ToSet(turns) \subseteq ToSet(turns')
      /\ Len(turns) <= Len(turns') /\ Len(turns') <= Len(chat) /\ i <= Len(turns')
      /\ \A j \in DOMAIN turns' : turns'[j] = staged[j]
      /\ turns' = turns \/ (Len(turns') = Len(turns) + 1 /\ Len(turns) < Len(chat))
    <2>1. CASE i <= Len(turns)
        <3>1. turns' = turns /\ bridge.key \in ToSet(turns)
            BY <1>1, <1>4, <2>1
        <3>2. QED
            BY <1>3, <2>1, <3>1 DEF RowsInv
    <2>2. CASE ~(i <= Len(turns))
        <3>1. i = Len(turns) + 1
            BY <1>2, <1>3, <2>2
        <3>2. turns' = Append(turns, bridge.key)
            BY <1>1, <1>4, <2>2
        <3>3. /\ turns' \in Seq(Key) /\ Len(turns') = Len(turns) + 1
              /\ DOMAIN turns' = DOMAIN turns \cup {Len(turns) + 1}
              /\ \A j \in DOMAIN turns : turns'[j] = turns[j]
              /\ turns'[Len(turns) + 1] = bridge.key
              /\ ToSet(turns') = ToSet(turns) \cup {bridge.key}
            BY <1>3, <1>4, <3>2, ToSetAppend
        <3>4. QED
            BY <1>2, <1>3, <3>1, <3>3 DEF RowsInv
    <2>3. QED
        BY <2>1, <2>2
<1>7. RowsInv'
    BY <1>1, <1>6 DEF RowsInv
<1>8. PassInv'
    <2>1. \A j \in DOMAIN staged : j > Len(turns') => j \in bridge.pending
        <3>1. TAKE j \in DOMAIN staged
        <3>2. HAVE j > Len(turns')
        <3>3. j # i /\ j > Len(turns)
            BY <1>3, <1>6, <3>2
        <3>4. QED
            BY <1>2, <3>3 DEF RestPending
    <2>2. RestPending({})'
        BY <1>1, <1>5, <2>1 DEF RestPending
    <2>3. QED
        BY <1>5, <1>6, <2>2 DEF PassInv, AtPc
<1>9. TypeOK' /\ WakeIsHeld'
    BY <1>1, <1>6 DEF TypeOK, WakeIsHeld, Pcs
<1>10. QED
    BY <1>6, <1>7, <1>8, <1>9

LEMMA AcknowledgeKeepsInv ==
    ASSUME DeliveryInv, Acknowledge
    PROVE  DeliveryInv'
<1> USE DEF DeliveryInv, receipts, lash
<1>1. /\ AtPc("ack") /\ UNCHANGED <<lash, staged, chat, turns, settled, archived, faults>>
      /\ acked' = acked \cup {bridge.key}
      /\ bridge' = [bridge EXCEPT !.pc = "deliver", !.key = NoKey]
    BY DEF Acknowledge
<1>2. bridge.key \in ToSet(turns) /\ RestPending({})
    BY <1>1 DEF PassInv
<1>3. bridge'.pc = "deliver" /\ bridge'.pending = bridge.pending
    BY <1>1 DEF TypeOK
<1>4. RowsInv'
    BY <1>1, <1>2 DEF RowsInv
<1>5. PassInv'
    BY <1>1, <1>2, <1>3 DEF PassInv, RestPending, AtPc
<1>6. bridge.key \in Key
    BY <1>2 DEF TypeOK, ToSet
<1>7. TypeOK' /\ WakeIsHeld'
    BY <1>1, <1>6 DEF TypeOK, WakeIsHeld, Pcs
<1>8. QED
    BY <1>4, <1>5, <1>7

-----------------------------------------------------------------------------
(* The invariant                                                           *)

LEMMA InitInv ==
    ASSUME FaultLimit \in Nat, Init
    PROVE  DeliveryInv
<1>1. TypeOK
    <2>1. staged \in Seq(Key) /\ chat \in Seq(Key) /\ turns \in Seq(Key)
        BY DEF Init
    <2>2. bridge \in [pc : Pcs, todo : SUBSET Key, pending : SUBSET DOMAIN staged,
                     key : Key \cup {NoKey}]
        BY DEF Init, Idle, Pcs
    <2>3. status \in [Run -> Statuses]
        BY DEF Init, Statuses
    <2>4. /\ lashQueue \subseteq WakingRun /\ woke \subseteq WakingRun /\ drained \subseteq WakingRun
          /\ settled \subseteq Key /\ acked \subseteq Key
        BY DEF Init
    <2>5. archived \in BOOLEAN
        BY Zenon DEF Init
    <2>6. faults \in 0 .. FaultLimit
        <3>1. faults = 0
            BY DEF Init
        <3>2. QED
            BY <3>1
    <2>7. QED
        BY <2>1, <2>2, <2>3, <2>4, <2>5, <2>6 DEF TypeOK
<1>2. RowsInv
    BY DEF Init, RowsInv
<1>3. PassInv
    BY DEF Init, PassInv, AtPc, Idle
<1>4. QED
    BY <1>1, <1>2, <1>3 DEF DeliveryInv, Init, WakeIsHeld

LEMMA NextInv ==
    ASSUME FaultLimit \in Nat, DeliveryInv, [Next]_vars
    PROVE  DeliveryInv'
<1>1. CASE Bridge
    BY <1>1, PassMovesKeepsInv, UnqueueKeepsInv, ReadPendingKeepsInv, StagingKeepsInv,
       AppendMessageKeepsInv, EnqueueKeepsInv, AcknowledgeKeepsInv DEF Bridge
<1>2. CASE PassFails \/ Crash
    BY <1>2, PassMovesKeepsInv
<1>3. CASE UNCHANGED vars
    <2>1. UNCHANGED <<staged, chat, turns, acked, bridge>>
        BY <1>3 DEF vars, receipts
    <2>2. RowsInv' /\ PassInv'
        BY <2>1, RowsStay, PassStays DEF DeliveryInv
    <2>3. TypeOK' /\ WakeIsHeld'
        BY <1>3 DEF vars, receipts, lash, DeliveryInv, TypeOK, WakeIsHeld
    <2>4. QED
        BY <2>2, <2>3 DEF DeliveryInv
<1>4. QED
    BY <1>1, <1>2, <1>3, OutsideKeepsInv DEF Next, Deliver

LEMMA InvImpliesOrder == DeliveryInv => ToldThenAcceptedInOrder
BY DEF DeliveryInv, TypeOK, RowsInv, ToldThenAcceptedInOrder, IsPrefix

\* Every step of the receipts is one of the ledger, or is not seen.
LEMMA NextImplementsLedger ==
    ASSUME DeliveryInv, [Next]_vars
    PROVE  [Ledger!Next]_<<staged, Len(chat), Len(turns)>>
<1> DEFINE Unseen == UNCHANGED <<staged, chat, turns>>
<1>1. ASSUME NEW k \in bridge.todo, StageWake(k) \/ StageEnd(k)
      PROVE  Unseen \/ Ledger!Enter(k)
    BY <1>1 DEF StageWake, StageEnd, StageKey, Ledger!Enter, ToSet, Ledger!ToSet
<1>2. ASSUME AppendMessage
      PROVE  Unseen \/ Ledger!Tell
    BY <1>2, AppendMessageKeepsInv DEF AppendMessage, Ledger!Tell
<1>3. ASSUME Enqueue
      PROVE  Unseen \/ Ledger!Accept
    BY <1>3, EnqueueKeepsInv DEF Enqueue, Ledger!Accept
<1>4. bridge.todo \subseteq Key
    BY DEF DeliveryInv, TypeOK
<1>5. CASE \/ BeginPass \/ Unqueue \/ ReadEnds \/ ReadPending \/ EnqueueRefused
           \/ Acknowledge \/ EndPass \/ PassFails \/ Crash \/ PumpDrains
           \/ UNCHANGED vars
    BY <1>5 DEF BeginPass, Unqueue, ReadEnds, ReadPending, EnqueueRefused, Acknowledge,
                EndPass, PassFails, Crash, PumpDrains, vars, receipts
<1>6. ASSUME NEW r \in Run, StartRun(r) \/ Wake(r) \/ \E end : EndRun(r, end)
      PROVE  Unseen
    BY <1>6 DEF StartRun, Wake, EndRun, receipts
<1>7. ASSUME NEW k, SettleTurn(k)
      PROVE  Unseen
    BY <1>7 DEF SettleTurn
<1>8. ASSUME NEW a, SetArchived(a)
      PROVE  Unseen
    BY <1>8 DEF SetArchived, receipts
<1>9. QED
    BY <1>1, <1>2, <1>3, <1>4, <1>5, <1>6, <1>7, <1>8
       DEF Next, Deliver, Bridge, CancelProcess, Ledger!Next
-----------------------------------------------------------------------------
(* Theorems                                                                *)

\* Types, for any number of faults.
THEOREM DeliveryTypes ==
    ASSUME FaultLimit \in Nat
    PROVE  Spec => []TypeOK
<1>1. DeliveryInv => TypeOK
    BY DEF DeliveryInv
<1>2. QED
    BY InitInv, NextInv, <1>1, PTL DEF Spec

\* A wake that Lash has emitted is in its queue, was drained by the pump, or has
\* its receipt (process_bridge.rs: "Stage before consuming").
THEOREM NoWakeLost ==
    ASSUME FaultLimit \in Nat
    PROVE  Spec => []WakeIsHeld
<1>1. DeliveryInv => WakeIsHeld
    BY DEF DeliveryInv
<1>2. QED
    BY InitInv, NextInv, <1>1, PTL DEF Spec

\* Messages and turns of receipts come once each and in the order of the table
\* (process_deliveries.rs), whatever passes are given up and begun again.
THEOREM DeliveredInOrder ==
    ASSUME FaultLimit \in Nat
    PROVE  Spec => []ToldThenAcceptedInOrder
BY InitInv, NextInv, InvImpliesOrder, PTL DEF Spec

\* The receipts implement DeliveryLedger: every step enters one event, tells
\* one, accepts one, or is not seen.
THEOREM ImplementsDeliveryLedger ==
    ASSUME FaultLimit \in Nat
    PROVE  Spec => LedgerSpec
<1>1. Init => Ledger!Init
    BY DEF Init, Ledger!Init
<1>2. QED
    BY InitInv, NextInv, <1>1, NextImplementsLedger, PTL DEF Spec, LedgerSpec, Ledger!Spec

=============================================================================
