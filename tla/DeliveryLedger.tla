--------------------------- MODULE DeliveryLedger ---------------------------
(***************************************************************************)
(* What the receipts of process_deliveries promise a Thread, whatever      *)
(* crashes, archives and retries happen in between: process events enter   *)
(* an inbox once each; the conversation is told of them, and then turns    *)
(* are accepted for them, one each and in inbox order. ProcessDelivery     *)
(* implements it.                                                          *)
(***************************************************************************)
EXTENDS Naturals, Sequences, SequencesExt

CONSTANT Key

VARIABLES inbox, told, accepted

Init == inbox = <<>> /\ told = 0 /\ accepted = 0

Enter(k) ==
    /\ k \notin ToSet(inbox)
    /\ inbox' = Append(inbox, k)
    /\ UNCHANGED <<told, accepted>>

Tell ==
    /\ told < Len(inbox)
    /\ told' = told + 1
    /\ UNCHANGED <<inbox, accepted>>

Accept ==
    /\ accepted < told
    /\ accepted' = accepted + 1
    /\ UNCHANGED <<inbox, told>>

Next == (\E k \in Key : Enter(k)) \/ Tell \/ Accept

Spec == Init /\ [][Next]_<<inbox, told, accepted>>

=============================================================================
