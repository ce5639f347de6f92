--------------------------- MODULE MCAnswers_proofs ----------------------------
(***************************************************************************)
(* Theorems about the parts of MCAnswers, for every value of their         *)
(* constants. Here are triage forks, pairing, push notifications and the   *)
(* timeline of Native turns, in MCClients_proofs the clients. A step of    *)
(* another part leaves a part alone, so each theorem follows from the      *)
(* inductive invariant the part's module states: WakeInv, PairInv,         *)
(* GateInv, LineInv, SendInv and FlowInv, EditInv and ListInv, WebInv.     *)
(* vn is the nth variable of the part's module.                            *)
(***************************************************************************)
EXTENDS MCClients_proofs

-----------------------------------------------------------------------------
(* Triage forks (ForkWake)                                                 *)

Calls == [exit : Fork!Exit \cup {"none"}, wrote : BOOLEAN]

LEMMA NoCallIsACall == Fork!NoCall \in Calls
BY DEF Fork!NoCall, Calls

LEMMA ForkFaults ==
    ASSUME Fork!TypeOK, Fork!Fault
    PROVE  v9' \in 0 .. Faults
BY NumbersAssumption DEF Fork!TypeOK, Fork!Fault

\* What queueing a turn does: one turn for the message, none of another.
LEMMA QueuedOnce ==
    ASSUME Fork!TypeOK, Fork!OneTurnPerMessage, NEW m \in Name
    PROVE  /\ Fork!Queued(m) \in [Name -> 0 .. 1]
           /\ Fork!Queued(m)[m] = 1
           /\ \A n \in Name \ {m} : Fork!Queued(m)[n] = v5[n]
<1>1. \A n \in Name : v5[n] \in 0 .. 2 /\ v5[n] <= 1
    BY DEF Fork!TypeOK, Fork!OneTurnPerMessage
<1>2. \A n \in Name : v5[n] \in 0 .. 1
    BY <1>1
<1>3. QED
    BY <1>2 DEF Fork!TypeOK, Fork!Queued

\* Attempts to queue a turn, failed ones included, leave at most one.
LEMMA QueueingIsSafe ==
    ASSUME Fork!TypeOK, Fork!OneTurnPerMessage, NEW m \in Name,
           \/ Fork!Inject(m) /\ UNCHANGED v9
           \/ Fork!InjectFails(m)
    PROVE  /\ v5' \in [Name -> 0 .. 2] /\ v9' \in 0 .. Faults
           /\ \A n \in Name : v5'[n] <= 1 /\ (v5[n] > 0 => v5'[n] > 0)
<1>1. CASE UNCHANGED v5
    BY <1>1, ForkFaults
       DEF Fork!TypeOK, Fork!OneTurnPerMessage, Fork!Inject, Fork!InjectFails
<1>2. CASE v5' = Fork!Queued(m)
    <2>1. v5' \in [Name -> 0 .. 1] /\ v5'[m] = 1 /\ \A n \in Name \ {m} : v5'[n] = v5[n]
        BY <1>2, QueuedOnce
    <2>2. v9' \in 0 .. Faults
        BY ForkFaults DEF Fork!TypeOK, Fork!InjectFails
    <2>3. QED
        BY <2>1, <2>2
<1>3. QED
    BY <1>1, <1>2 DEF Fork!Inject, Fork!InjectFails

\* A dispatch task moves on; what the agent wrote and committed stays.
LEMMA TaskKeepsInv ==
    ASSUME Fork!WakeInv, NEW m \in Name,
           \/ Fork!Dispatch(m) \/ Fork!TakePermit(m) \/ Fork!ReadContext(m)
           \/ Fork!ContextFails(m) \/ Fork!TurnEnds(m) \/ Fork!SessionCloses(m)
           \/ Fork!Panics(m)
    PROVE  Fork!WakeInv'
<1> USE DEF Fork!WakeInv, Fork!Goes, Fork!effects
<1>1. /\ UNCHANGED <<v2, v4, v5, v6, v8>>
      /\ v9' \in 0 .. Faults
      /\ v3' = v3 \/ v3' = [v3 EXCEPT ![m] = Fork!NoCall]
    BY ForkFaults DEF Fork!Dispatch, Fork!TakePermit, Fork!ReadContext, Fork!ContextFails,
       Fork!TurnEnds, Fork!SessionCloses, Fork!Panics, Fork!TypeOK
<1>2. \E s \in {"permit", "reading", "triage", "closing", "deciding", "fallback", "gone"} :
         /\ v1' = [v1 EXCEPT ![m] = s]
         /\ s = "gone" => v7' = v7 \cup {m}
         /\ s # "gone" => v7' = v7
    BY DEF Fork!Dispatch, Fork!TakePermit, Fork!ReadContext, Fork!ContextFails,
       Fork!TurnEnds, Fork!SessionCloses, Fork!Panics
<1>3. Fork!TypeOK'
    <2>1. v3' \in [Name -> Calls]
        BY <1>1, NoCallIsACall DEF Fork!TypeOK, Calls
    <2>2. v7' \subseteq Name
        BY <1>2 DEF Fork!TypeOK
    <2>3. QED
        BY <1>1, <1>2, <2>1, <2>2 DEF Fork!TypeOK, Calls
<1>4. Fork!TraceFirst'
    BY <1>1 DEF Fork!TypeOK, Fork!TraceFirst, Fork!Handled, Fork!NoCall
<1>5. Fork!OneTurnPerMessage' /\ Fork!GoneIsHandled'
    BY <1>1, <1>2 DEF Fork!TypeOK, Fork!OneTurnPerMessage, Fork!GoneIsHandled, Fork!Handled
<1>6. QED
    BY <1>3, <1>4, <1>5

\* The decision believes the slot: it is taken only after the trace is left.
LEMMA DecideKeepsInv ==
    ASSUME Fork!WakeInv, NEW m \in Name, Fork!Decide(m)
    PROVE  Fork!WakeInv'
<1> USE DEF Fork!WakeInv, Fork!Goes, Fork!effects, Fork!Decide
<1>1. Fork!TypeOK' /\ Fork!TraceFirst' /\ Fork!OneTurnPerMessage'
    BY DEF Fork!TypeOK, Fork!TraceFirst, Fork!Handled, Fork!OneTurnPerMessage
<1>2. Fork!GoneIsHandled'
    BY DEF Fork!TypeOK, Fork!TraceFirst, Fork!Handled, Fork!GoneIsHandled, Fork!Taken
<1>3. QED
    BY <1>1, <1>2

\* The fallback queues the turn, or gives the message up.
LEMMA FallbackKeepsInv ==
    ASSUME Fork!WakeInv, NEW m \in Name, Fork!Fallback(m)
    PROVE  Fork!WakeInv'
<1> USE DEF Fork!WakeInv, Fork!Goes
<1>1. /\ v5' \in [Name -> 0 .. 2] /\ v9' \in 0 .. Faults
      /\ \A n \in Name : v5'[n] <= 1 /\ (v5[n] > 0 => v5'[n] > 0)
    BY QueueingIsSafe DEF Fork!Fallback
<1>2. v5'[m] > 0 \/ m \in v7'
    BY QueuedOnce DEF Fork!Fallback, Fork!Inject
<1>3. Fork!TypeOK'
    BY <1>1 DEF Fork!TypeOK, Fork!Fallback
<1>4. Fork!TraceFirst' /\ Fork!OneTurnPerMessage'
    BY <1>1 DEF Fork!TypeOK, Fork!TraceFirst, Fork!Handled, Fork!OneTurnPerMessage, Fork!Fallback
<1>5. Fork!GoneIsHandled'
    BY <1>1, <1>2 DEF Fork!TypeOK, Fork!Handled, Fork!GoneIsHandled, Fork!Fallback
<1>6. QED
    BY <1>3, <1>4, <1>5

LEMMA ClaimKeepsInv ==
    ASSUME Fork!WakeInv, NEW m \in Name, Fork!Claim(m)
    PROVE  Fork!WakeInv'
<1> USE DEF Fork!WakeInv, Fork!Claim, Fork!effects
<1>1. Fork!TypeOK'
    BY DEF Fork!TypeOK, Fork!Exit
<1>2. Fork!TraceFirst'
    BY DEF Fork!TypeOK, Fork!TraceFirst, Fork!Handled, Fork!Exit
<1>3. Fork!OneTurnPerMessage' /\ Fork!GoneIsHandled'
    BY DEF Fork!TypeOK, Fork!OneTurnPerMessage, Fork!GoneIsHandled, Fork!Handled
<1>4. QED
    BY <1>1, <1>2, <1>3

\* The effect comes before the call says it wrote.
LEMMA WriteKeepsInv ==
    ASSUME Fork!WakeInv, NEW m \in Name, Fork!Write(m)
    PROVE  Fork!WakeInv'
<1> USE DEF Fork!WakeInv
<1>1. /\ v3[m].exit \in Fork!Exit
      /\ v3' = [v3 EXCEPT ![m].wrote = TRUE]
      /\ UNCHANGED <<v1, v2, v7, v8, v9>>
    <2>1. v3[m] # Fork!NoCall /\ ~v3[m].wrote /\ v3[m] \in [exit : Fork!Exit \cup {"none"}, wrote : BOOLEAN]
        BY DEF Fork!Write, Fork!TypeOK
    <2>2. v3[m].exit # "none"
        BY <2>1 DEF Fork!NoCall
    <2>3. QED
        BY <2>1, <2>2 DEF Fork!Write, Fork!Written
<1>2. \/ v4' = v4 \cup {m} /\ UNCHANGED <<v5, v6>>
      \/ v6' = v6 \cup {m} /\ UNCHANGED <<v4, v5>>
      \/ v5' = Fork!Queued(m) /\ UNCHANGED <<v4, v6>>
    BY <1>1 DEF Fork!Write, Fork!Exit, Fork!Inject
<1>3. /\ v5' \in [Name -> 0 .. 2]
      /\ \A n \in Name : v5'[n] <= 1 /\ (v5[n] > 0 => v5'[n] > 0)
    <2>1. CASE v5' = Fork!Queued(m)
        <3>1. v5' \in [Name -> 0 .. 1] /\ v5'[m] = 1 /\ \A n \in Name \ {m} : v5'[n] = v5[n]
            BY <2>1, QueuedOnce
        <3>2. QED
            BY <3>1
    <2>2. CASE v5' = v5
        BY <2>2 DEF Fork!TypeOK, Fork!OneTurnPerMessage
    <2>3. QED
        BY <1>2, <2>1, <2>2
<1>4. v4 \subseteq v4' /\ v6 \subseteq v6' /\ v4' \cup v6' \subseteq v4 \cup v6 \cup {m}
    BY <1>2
<1>5. m \in v4' \cup v6' \/ v5'[m] > 0
    BY <1>2, QueuedOnce
<1>6. Fork!TypeOK'
    <2>1. v3' \in [Name -> Calls]
        BY <1>1 DEF Fork!TypeOK, Calls, Fork!Exit
    <2>2. QED
        BY <1>1, <1>3, <1>4, <2>1 DEF Fork!TypeOK, Calls
<1>7. Fork!TraceFirst'
    BY <1>1, <1>3, <1>4, <1>5 DEF Fork!TypeOK, Fork!TraceFirst, Fork!Handled, Fork!Exit
<1>8. Fork!OneTurnPerMessage' /\ Fork!GoneIsHandled'
    BY <1>1, <1>3, <1>4 DEF Fork!TypeOK, Fork!OneTurnPerMessage, Fork!GoneIsHandled, Fork!Handled
<1>9. QED
    BY <1>6, <1>7, <1>8

\* A failed effect may have queued the turn all the same.
LEMMA WriteFailsKeepsInv ==
    ASSUME Fork!WakeInv, NEW m \in Name, Fork!WriteFails(m)
    PROVE  Fork!WakeInv'
<1> USE DEF Fork!WakeInv
<1>1. /\ v5' \in [Name -> 0 .. 2] /\ v9' \in 0 .. Faults
      /\ \A n \in Name : v5'[n] <= 1 /\ (v5[n] > 0 => v5'[n] > 0)
    <2>1. CASE Fork!InjectFails(m)
        BY <2>1, QueueingIsSafe
    <2>2. CASE Fork!Fault /\ UNCHANGED v5
        BY <2>2, ForkFaults DEF Fork!TypeOK, Fork!OneTurnPerMessage
    <2>3. QED
        BY <2>1, <2>2 DEF Fork!WriteFails
<1>2. /\ v2' = [v2 EXCEPT ![m] = "open"] /\ v3' = [v3 EXCEPT ![m] = Fork!NoCall]
      /\ UNCHANGED <<v1, v4, v6, v7, v8>>
    BY DEF Fork!WriteFails
<1>3. Fork!TypeOK'
    BY <1>1, <1>2 DEF Fork!TypeOK, Fork!NoCall
<1>4. Fork!TraceFirst'
    BY <1>1, <1>2 DEF Fork!TypeOK, Fork!TraceFirst, Fork!Handled, Fork!NoCall
<1>5. Fork!OneTurnPerMessage' /\ Fork!GoneIsHandled'
    BY <1>1, <1>2 DEF Fork!TypeOK, Fork!OneTurnPerMessage, Fork!GoneIsHandled, Fork!Handled
<1>6. QED
    BY <1>3, <1>4, <1>5

LEMMA CommitKeepsInv ==
    ASSUME Fork!WakeInv, NEW m \in Name, Fork!Commit(m)
    PROVE  Fork!WakeInv'
<1> USE DEF Fork!WakeInv, Fork!Commit, Fork!effects
<1>1. Fork!TypeOK'
    BY DEF Fork!TypeOK, Fork!NoCall
<1>2. Fork!TraceFirst'
    BY DEF Fork!TypeOK, Fork!TraceFirst, Fork!Handled, Fork!NoCall
<1>3. Fork!OneTurnPerMessage' /\ Fork!GoneIsHandled'
    BY DEF Fork!TypeOK, Fork!OneTurnPerMessage, Fork!GoneIsHandled, Fork!Handled
<1>4. QED
    BY <1>1, <1>2, <1>3

\* A stop excuses every message whose task it aborts.
LEMMA StopKeepsInv ==
    ASSUME Fork!WakeInv, Fork!Stop \/ Fork!Archive
    PROVE  Fork!WakeInv'
<1> USE DEF Fork!WakeInv, Fork!effects
<1>1. v9' \in 0 .. Faults
    BY ForkFaults DEF Fork!Stop, Fork!Archive
<1>2. Fork!TypeOK'
    <2>1. v3' \in [Name -> Calls]
        BY NoCallIsACall DEF Fork!TypeOK, Fork!Stop, Fork!Archive, Calls
    <2>2. v1' \in [Name -> {"none", "permit", "reading", "triage", "closing", "deciding",
                             "fallback", "gone"}]
        BY DEF Fork!TypeOK, Fork!Stop, Fork!Archive
    <2>3. QED
        BY <1>1, <2>1, <2>2 DEF Fork!TypeOK, Fork!Stop, Fork!Archive, Calls
<1>3. Fork!TraceFirst' /\ Fork!OneTurnPerMessage'
    BY DEF Fork!TypeOK, Fork!TraceFirst, Fork!Handled, Fork!NoCall, Fork!OneTurnPerMessage,
           Fork!Stop, Fork!Archive
<1>4. Fork!GoneIsHandled'
    BY DEF Fork!TypeOK, Fork!GoneIsHandled, Fork!Handled, Fork!Stop, Fork!Archive, Fork!Alive
<1>5. QED
    BY <1>2, <1>3, <1>4

LEMMA ForkNextKeepsInv ==
    ASSUME Fork!WakeInv, Fork!Next
    PROVE  Fork!WakeInv'
BY TaskKeepsInv, DecideKeepsInv, FallbackKeepsInv, ClaimKeepsInv, WriteKeepsInv,
   WriteFailsKeepsInv, CommitKeepsInv, StopKeepsInv
   DEF Fork!Next, Fork!Step, Fork!Agent

LEMMA ForkInitInv == Fork!Init => Fork!WakeInv
<1> SUFFICES ASSUME Fork!Init PROVE Fork!WakeInv
    OBVIOUS
<1>1. Fork!TypeOK
    <2>1. v3 \in [Name -> Calls]
        BY NoCallIsACall DEF Fork!Init
    <2>2. v9 \in 0 .. Faults
        BY NumbersAssumption DEF Fork!Init
    <2>3. QED
        <3>1. /\ v1 \in [Name -> {"none", "permit", "reading", "triage", "closing",
                                 "deciding", "fallback", "gone"}]
              /\ v2 \in [Name -> {"open", "claimed", "taken"}]
              /\ v5 \in [Name -> 0 .. 2]
            BY DEF Fork!Init
        <3>2. QED
            BY <2>1, <2>2, <3>1 DEF Fork!Init, Fork!TypeOK, Calls
<1>2. Fork!TraceFirst /\ Fork!OneTurnPerMessage /\ Fork!GoneIsHandled
    BY DEF Fork!Init, Fork!TraceFirst, Fork!OneTurnPerMessage, Fork!GoneIsHandled, Fork!NoCall
<1>3. QED
    BY <1>1, <1>2 DEF Fork!WakeInv

-----------------------------------------------------------------------------
(* Pairing                                                                 *)

\* The phone's core.
PhoneCore == [auth : Pair!Auth, pending : SUBSET v2, carried : SUBSET v2,
              at : {"off", "sent", "paired", "hello", "online"}]

\* A redeemed code is burnt with the token it issues, or without one.
LEMMA CodesBurn ==
    ASSUME Pair!PairInv, Pair!Next
    PROVE  Pair!OneTokenPerCode' /\ v1' \subseteq v3' /\ v2' \subseteq v3' /\ v3 \subseteq v3' /\ v2 \subseteq v2'
           /\ v3' \subseteq Name
<1>1. /\ v1 \subseteq v3 /\ v2 \subseteq v3 /\ v3 \subseteq Name /\ v1 \cap v2 = {}
      /\ v4.auth.of \subseteq Name
    BY DEF Pair!PairInv, Pair!TypeOK, Pair!OneTokenPerCode, Pair!Auth
<1>2. CASE Pair!Scan
    BY <1>1, <1>2 DEF Pair!Scan, Pair!OneTokenPerCode
<1>3. CASE Pair!Expire
    BY <1>1, <1>3 DEF Pair!Expire, Pair!OneTokenPerCode
<1>4. CASE Pair!Redeem
    BY <1>1, <1>4 DEF Pair!Redeem, Pair!Burnt, Pair!OneTokenPerCode
<1>5. CASE UNCHANGED Pair!host
    BY <1>1, <1>5 DEF Pair!host, Pair!OneTokenPerCode
<1>6. QED
    BY <1>2, <1>3, <1>4, <1>5
       DEF Pair!Next, Pair!Recognise, Pair!Core, Pair!Connect, Pair!Paired, Pair!HelloOk,
           Pair!Disconnected, Pair!App, Pair!MainThread, Pair!Compose, Pair!Restart

\* The parts of TokensAreIssued.
CoreIsIssued == /\ v4 \in PhoneCore
                /\ v4.auth.kind = "token" => v4.auth.of \subseteq v2
                /\ v4.auth.kind = "code" => v4.auth.of \subseteq v3
LinkIsIssued == v5 \in Seq(Pair!Frame) /\ \A i \in DOMAIN v5 : v5[i].of \subseteq v2
AppIsIssued == /\ v6 \in [posts : Seq(Pair!Phase), phase : Pair!Phase]
               /\ v6.phase.token \subseteq v2
               /\ \A i \in DOMAIN v6.posts : v6.posts[i].token \subseteq v2
SavedIsIssued == v7 \subseteq v2 /\ v8 \subseteq v2

LEMMA IssuedParts ==
    Pair!TokensAreIssued /\ SavedIsIssued <=>
        CoreIsIssued /\ LinkIsIssued /\ AppIsIssued /\ SavedIsIssued
BY DEF Pair!TokensAreIssued, CoreIsIssued, LinkIsIssued, AppIsIssued, PhoneCore

\* More tokens and codes do not hurt what does not change.
LEMMA IssuedGrows ==
    ASSUME v2 \subseteq v2', v3 \subseteq v3'
    PROVE  /\ CoreIsIssued /\ UNCHANGED v4 => CoreIsIssued'
           /\ LinkIsIssued /\ UNCHANGED v5 => LinkIsIssued'
           /\ AppIsIssued /\ UNCHANGED v6 => AppIsIssued'
           /\ SavedIsIssued /\ UNCHANGED <<v7, v8>> => SavedIsIssued'
BY DEF CoreIsIssued, LinkIsIssued, AppIsIssued, SavedIsIssued, PhoneCore

\* A post of tokens that were issued.
LEMMA PostIsIssued ==
    ASSUME AppIsIssued, NEW p \in Pair!Phase, p.token \subseteq v2, Pair!Post(p), UNCHANGED v2
    PROVE  AppIsIssued'
<1>1. v6' = [v6 EXCEPT !.posts = Append(v6.posts, p)]
    BY DEF Pair!Post
<1>2. v6'.posts = Append(v6.posts, p) /\ v6'.phase = v6.phase
    BY <1>1 DEF AppIsIssued
<1>3. Append(v6.posts, p) \in Seq(Pair!Phase)
    BY AppendOf DEF AppIsIssued
<1>4. \A i \in DOMAIN Append(v6.posts, p) : Append(v6.posts, p)[i].token \subseteq v2
    BY AppendOf DEF AppIsIssued
<1>5. QED
    BY <1>1, <1>2, <1>3, <1>4 DEF AppIsIssued

LEMMA HostKeepsIssued ==
    ASSUME Pair!PairInv, Pair!Scan \/ Pair!Expire \/ Pair!Redeem \/ Pair!Recognise
    PROVE  CoreIsIssued' /\ LinkIsIssued' /\ AppIsIssued' /\ SavedIsIssued'
<1>1. CoreIsIssued /\ LinkIsIssued /\ AppIsIssued /\ SavedIsIssued
    BY IssuedParts DEF Pair!PairInv, Pair!TypeOK, SavedIsIssued
<1>2. v2 \subseteq v2' /\ v3 \subseteq v3'
    BY CodesBurn DEF Pair!Next
<1>3. AppIsIssued' /\ SavedIsIssued'
    BY <1>1, <1>2, IssuedGrows DEF Pair!Scan, Pair!Expire, Pair!Redeem, Pair!Recognise
<1>4. CASE Pair!Scan
    <2>1. PICK c \in Name \ v3 : v3' = v3 \cup {c}
                                 /\ v4' = Pair!Fresh([kind |-> "code", of |-> {c}])
        BY <1>4 DEF Pair!Scan
    <2>2. CoreIsIssued'
        BY <2>1 DEF CoreIsIssued, PhoneCore, Pair!Fresh, Pair!Auth, Pair!None
    <2>3. QED
        BY <1>1, <1>2, <1>3, <1>4, <2>2, IssuedGrows DEF Pair!Scan
<1>5. CASE Pair!Expire
    BY <1>1, <1>2, <1>3, <1>5, IssuedGrows DEF Pair!Expire
<1>6. CASE Pair!Redeem
    <2>1. v4' = [v4 EXCEPT !.at = "paired"]
        BY <1>6 DEF Pair!Redeem
    <2>2. CoreIsIssued'
        BY <1>1, <1>2, <2>1 DEF CoreIsIssued, PhoneCore
    <2>3. PICK c \in v4.auth.of :
             \/ /\ v2' = v2 \cup {c}
                /\ v5' = <<[kind |-> "paired", of |-> {c}], [kind |-> "hello", of |-> Pair!None]>>
             \/ v5' = <<[kind |-> "error", of |-> Pair!None]>>
        BY <1>6 DEF Pair!Redeem
    <2>4. c \in Name
        BY <1>1 DEF CoreIsIssued, PhoneCore, Pair!Auth
    <2>5. LinkIsIssued'
        <3>1. CASE v5' = <<[kind |-> "error", of |-> Pair!None]>>
            BY <3>1 DEF LinkIsIssued, Pair!Frame, Pair!None
        <3>2. CASE /\ v2' = v2 \cup {c}
                   /\ v5' = <<[kind |-> "paired", of |-> {c}], [kind |-> "hello", of |-> Pair!None]>>
            <4>1. [kind |-> "paired", of |-> {c}] \in Pair!Frame
                  /\ [kind |-> "hello", of |-> Pair!None] \in Pair!Frame
                BY <2>4 DEF Pair!Frame, Pair!None
            <4>2. QED
                BY <3>2, <4>1 DEF LinkIsIssued, Pair!None
        <3>3. QED
            BY <2>3, <3>1, <3>2
    <2>6. QED
        BY <1>3, <2>2, <2>5
<1>7. CASE Pair!Recognise
    <2>1. v4' = [v4 EXCEPT !.at = "hello"] /\ UNCHANGED <<v2, v3>>
        BY <1>7 DEF Pair!Recognise, Pair!host
    <2>2. CoreIsIssued'
        BY <1>1, <1>2, <2>1 DEF CoreIsIssued, PhoneCore
    <2>3. LinkIsIssued'
        BY <1>7 DEF Pair!Recognise, LinkIsIssued, Pair!Frame, Pair!None
    <2>4. QED
        BY <1>3, <2>2, <2>3
<1>8. QED
    BY <1>4, <1>5, <1>6, <1>7

LEMMA CoreKeepsIssued ==
    ASSUME Pair!PairInv, Pair!Core \/ Pair!Disconnected
    PROVE  CoreIsIssued' /\ LinkIsIssued' /\ AppIsIssued' /\ SavedIsIssued'
<1>1. CoreIsIssued /\ LinkIsIssued /\ AppIsIssued /\ SavedIsIssued
    BY IssuedParts DEF Pair!PairInv, Pair!TypeOK, SavedIsIssued
<1>2. UNCHANGED <<v1, v2, v3>>
    BY DEF Pair!Core, Pair!Connect, Pair!Paired, Pair!HelloOk, Pair!Disconnected, Pair!host
<1>3. CASE Pair!Connect
    <2>1. CoreIsIssued'
        <3>1. v4 \in PhoneCore /\ v4' = [v4 EXCEPT !.at = "sent", !.carried = v4.pending]
            BY <1>1, <1>3 DEF Pair!Connect, CoreIsIssued, Pair!Handshake
        <3>2. v4' \in PhoneCore /\ v4'.auth = v4.auth
            BY <3>1 DEF PhoneCore
        <3>3. QED
            BY <1>1, <1>2, <3>1, <3>2 DEF CoreIsIssued, PhoneCore
    <2>3. LinkIsIssued' /\ SavedIsIssued'
        BY <1>1, <1>2, <1>3 DEF Pair!Connect, LinkIsIssued, SavedIsIssued
    <2>2. AppIsIssued'
        BY <1>1, <1>2, <1>3, PostIsIssued DEF Pair!Connect, Pair!Connecting, Pair!Phase, Pair!None
    <2>4. QED
        BY <2>1, <2>2, <2>3
<1>4. CASE Pair!Paired
    <2>1. Head(v5) \in Pair!Frame /\ Head(v5).of \subseteq v2 /\ LinkIsIssued'
        BY <1>1, <1>2, <1>4, TailOf DEF Pair!Paired, LinkIsIssued
    <2>2. CoreIsIssued'
        BY <1>1, <1>2, <1>4, <2>1
           DEF Pair!Paired, CoreIsIssued, PhoneCore, Pair!Auth, Pair!Frame
    <2>3. QED
        BY <1>1, <1>2, <1>4, <2>1, <2>2, IssuedGrows DEF Pair!Paired
<1>5. CASE Pair!HelloOk
    <2>1. LinkIsIssued'
        BY <1>1, <1>2, <1>5, TailOf DEF Pair!HelloOk, LinkIsIssued
    <2>2. CoreIsIssued' /\ v4.carried \subseteq v2
        <3>1. /\ v4 \in PhoneCore
              /\ v4' = [v4 EXCEPT !.at = "online", !.carried = {},
                                  !.pending = IF v4.carried = {} THEN v4.pending ELSE {}]
            BY <1>1, <1>5 DEF Pair!HelloOk, CoreIsIssued, Pair!None
        <3>2. v4' \in PhoneCore /\ v4'.auth = v4.auth
            BY <3>1 DEF PhoneCore
        <3>3. QED
            BY <1>1, <1>2, <3>1, <3>2 DEF CoreIsIssued, PhoneCore
    <2>3. [at |-> "online", token |-> v4.carried] \in Pair!Phase
        BY <1>2, <2>2 DEF Pair!Phase, Pair!PairInv, Pair!TypeOK
    <2>4. AppIsIssued'
        BY <1>1, <1>2, <1>5, <2>2, <2>3, PostIsIssued DEF Pair!HelloOk
    <2>5. SavedIsIssued'
        BY <1>1, <1>2, <1>5, <2>2 DEF Pair!HelloOk, SavedIsIssued
    <2>6. QED
        BY <2>1, <2>2, <2>4, <2>5
<1>6. CASE Pair!Disconnected
    <2>1. CoreIsIssued'
        <3>1. v4 \in PhoneCore /\ v4' = [v4 EXCEPT !.at = "off", !.carried = {}]
            BY <1>1, <1>6 DEF Pair!Disconnected, CoreIsIssued, Pair!None
        <3>2. v4' \in PhoneCore /\ v4'.auth = v4.auth
            BY <3>1 DEF PhoneCore
        <3>3. QED
            BY <1>1, <1>2, <3>1, <3>2 DEF CoreIsIssued, PhoneCore
    <2>3. LinkIsIssued' /\ SavedIsIssued'
        BY <1>1, <1>2, <1>6 DEF Pair!Disconnected, LinkIsIssued, SavedIsIssued
    <2>2. AppIsIssued'
        BY <1>1, <1>2, <1>6, PostIsIssued DEF Pair!Disconnected, Pair!Phase, Pair!None
    <2>4. QED
        BY <2>1, <2>2, <2>3
<1>7. QED
    BY <1>3, <1>4, <1>5, <1>6 DEF Pair!Core

LEMMA AppKeepsIssued ==
    ASSUME Pair!PairInv, Pair!App \/ Pair!Restart
    PROVE  CoreIsIssued' /\ LinkIsIssued' /\ AppIsIssued' /\ SavedIsIssued'
<1>1. CoreIsIssued /\ LinkIsIssued /\ AppIsIssued /\ SavedIsIssued
    BY IssuedParts DEF Pair!PairInv, Pair!TypeOK, SavedIsIssued
<1>2. UNCHANGED <<v1, v2, v3>>
    BY DEF Pair!App, Pair!MainThread, Pair!Compose, Pair!Restart, Pair!host
<1>3. CASE Pair!MainThread
    <2>1. AppIsIssued'
        BY <1>1, <1>2, <1>3, TailOf DEF Pair!MainThread, AppIsIssued
    <2>2. QED
        BY <1>1, <1>2, <1>3, <2>1, IssuedGrows DEF Pair!MainThread
<1>4. CASE Pair!Compose
    <2>1. SavedIsIssued'
        BY <1>1, <1>2, <1>4 DEF Pair!Compose, SavedIsIssued, AppIsIssued
    <2>2. QED
        BY <1>1, <1>2, <1>4, <2>1, IssuedGrows DEF Pair!Compose
<1>5. CASE Pair!Restart
    <2>1. v7 \subseteq Name
        BY <1>1 DEF SavedIsIssued, Pair!PairInv, Pair!TypeOK
    <2>2. CoreIsIssued'
        <3>1. PICK kind \in {"token", "none"} : v4' = Pair!Fresh([kind |-> kind, of |-> v7])
            BY <1>5 DEF Pair!Restart
        <3>2. v7 \subseteq v2'
            BY <1>1, <1>2 DEF SavedIsIssued
        <3>3. QED
            BY <2>1, <3>1, <3>2 DEF CoreIsIssued, PhoneCore, Pair!Fresh, Pair!Auth, Pair!None
    <2>3. LinkIsIssued'
        BY <1>5 DEF Pair!Restart, LinkIsIssued
    <2>4. AppIsIssued'
        BY <1>5 DEF Pair!Restart, AppIsIssued, Pair!Connecting, Pair!Phase, Pair!None
    <2>5. SavedIsIssued'
        BY <1>1, <1>2, <1>5 DEF Pair!Restart, SavedIsIssued
    <2>6. QED
        BY <2>2, <2>3, <2>4, <2>5
<1>6. QED
    BY <1>3, <1>4, <1>5 DEF Pair!App

LEMMA PairNextKeepsInv ==
    ASSUME Pair!PairInv, Pair!Next
    PROVE  Pair!PairInv'
<1>1. CoreIsIssued' /\ LinkIsIssued' /\ AppIsIssued' /\ SavedIsIssued'
    BY HostKeepsIssued, CoreKeepsIssued, AppKeepsIssued DEF Pair!Next
<1>2. Pair!TokensAreIssued'
    BY <1>1 DEF Pair!TokensAreIssued, CoreIsIssued, LinkIsIssued, AppIsIssued, PhoneCore
<1>3. Pair!TypeOK'
    <2>1. v1' \subseteq v3' /\ v2' \subseteq v3' /\ v3' \subseteq Name
        BY CodesBurn
    <2>2. v4'.auth \in Pair!Auth /\ v4'.pending \subseteq Name /\ v4'.carried \subseteq Name
          /\ v4'.at \in {"off", "sent", "paired", "hello", "online"}
        BY <1>1, <2>1 DEF CoreIsIssued, PhoneCore
    <2>3. \A i \in DOMAIN v5' : v5'[i] \in Pair!Frame
        BY <1>1 DEF LinkIsIssued
    <2>4. v6'.phase \in Pair!Phase /\ \A i \in DOMAIN v6'.posts : v6'.posts[i] \in Pair!Phase
        BY <1>1 DEF AppIsIssued
    <2>5. QED
        BY <1>1, <2>1, <2>2, <2>3, <2>4 DEF Pair!TypeOK, SavedIsIssued, Pair!Auth, Pair!Frame, Pair!Phase
<1>4. QED
    BY <1>2, <1>3, CodesBurn DEF Pair!PairInv

LEMMA PairInitInv == Pair!Init => Pair!PairInv
<1> SUFFICES ASSUME Pair!Init PROVE Pair!PairInv
    OBVIOUS
<1>1. Pair!TokensAreIssued
    BY DEF Pair!Init, Pair!TokensAreIssued, Pair!Fresh, Pair!Auth, Pair!None, Pair!Connecting,
           Pair!Phase
<1>2. Pair!TypeOK /\ Pair!OneTokenPerCode
    BY DEF Pair!Init, Pair!TypeOK, Pair!OneTokenPerCode, Pair!Fresh, Pair!Auth, Pair!None,
           Pair!Connecting, Pair!Phase
<1>3. QED
    BY <1>1, <1>2 DEF Pair!PairInv

-----------------------------------------------------------------------------
(* Push notifications (PushGateway)                                        *)

Sender == [episode : Push!Episode, to : SUBSET Name, tries : 0 .. Attempts, id : 1 .. Changes]
Tries == [to : SUBSET Name, reached : SUBSET Name]
HasWhole(q) == \E i \in DOMAIN q : Push!Whole(q[i])

\* FiniteSets, as PushGateway extends it.
LEMMA SameSizes ==
    \A S : Push!Cardinality(S) = Cardinality(S) /\ (Push!IsFiniteSet(S) <=> IsFiniteSet(S))
BY DEF Push!Cardinality, Cardinality, Push!IsFiniteSet, IsFiniteSet

\* An attempt at a send comes behind those that missed a device.
LEMMA AttemptsGrow ==
    ASSUME NEW q \in Seq(Tries), ~HasWhole(q), NEW a \in Tries
    PROVE  /\ Append(q, a) \in Seq(Tries)
           /\ HasWhole(Append(q, a)) <=> Push!Whole(a)
           /\ \A i, j \in DOMAIN Append(q, a) : i < j => ~Push!Whole(Append(q, a)[i])
<1>1. /\ Append(q, a) \in Seq(Tries) /\ Len(q) \in Nat
      /\ DOMAIN Append(q, a) = 1 .. Len(q) + 1 /\ DOMAIN q = 1 .. Len(q)
      /\ Append(q, a)[Len(q) + 1] = a
      /\ \A i \in 1 .. Len(q) : Append(q, a)[i] = q[i]
    OBVIOUS
<1>2. \A i \in 1 .. Len(q) + 1 : i = Len(q) + 1 \/ i \in 1 .. Len(q)
    BY <1>1
<1>3. \A i \in 1 .. Len(q) : ~Push!Whole(q[i])
    BY <1>1 DEF HasWhole
<1>4. QED
    BY <1>1, <1>2, <1>3 DEF HasWhole

\* A sequence number that is new makes one publication more.
LEMMA PublishCounts ==
    ASSUME Push!GateInv, Push!Publish
    PROVE  Push!TypeOK' /\ Push!EpisodesAreCounted'
<1>1. PICK p \in BOOLEAN : v3' = v3 \cup {<<v2 + 1, p>>}
    BY DEF Push!Publish
<1>2. v2 \in Nat /\ v2' = v2 + 1 /\ v2' \in 0 .. Changes /\ UNCHANGED v5
    BY NumbersAssumption DEF Push!Publish, Push!GateInv, Push!TypeOK
<1>3. <<v2 + 1, p>> \notin v3
    BY <1>2 DEF Push!GateInv, Push!EpisodesAreCounted
<1>4. IsFiniteSet(v3') /\ Cardinality(v3') = Cardinality(v3) + 1
    BY <1>1, <1>3, FS_AddElement, SameSizes DEF Push!GateInv, Push!EpisodesAreCounted
<1>5. v5.episode \in Nat /\ Cardinality(v3) \in Nat
    BY NumbersAssumption, FS_CardinalityType, SameSizes
       DEF Push!GateInv, Push!EpisodesAreCounted, Push!TypeOK, Push!Episode
<1>6. v5.episode + Cardinality(v3) <= v2
    BY SameSizes DEF Push!GateInv, Push!EpisodesAreCounted
<1>7. /\ \A q \in v3' : q[1] <= v2'
      /\ \A q, r \in v3' : q[1] = r[1] => q = r
    <2>1. \A q \in v3 : q \in (1 .. Changes) \X BOOLEAN /\ q[1] <= v2
        BY DEF Push!GateInv, Push!TypeOK, Push!EpisodesAreCounted
    <2>2. QED
        BY <1>1, <1>2, <2>1, NumbersAssumption DEF Push!GateInv, Push!EpisodesAreCounted
<1>8. Push!EpisodesAreCounted'
    BY <1>2, <1>4, <1>5, <1>6, <1>7, SameSizes DEF Push!EpisodesAreCounted
<1>9. Push!TypeOK'
    <2>1. v3' \subseteq (1 .. Changes) \X BOOLEAN
        BY <1>1, <1>2, NumbersAssumption DEF Push!GateInv, Push!TypeOK
    <2>2. v1' \in BOOLEAN /\ UNCHANGED <<v4, v5, v6, v7>>
        BY DEF Push!Publish
    <2>3. QED
        BY <1>2, <2>1, <2>2 DEF Push!GateInv, Push!TypeOK, Push!Episode
<1>10. QED
    BY <1>8, <1>9

LEMMA PublishKeepsInv ==
    ASSUME Push!GateInv, Push!Publish \/ Push!Revoke
    PROVE  Push!GateInv'
<1>1. UNCHANGED <<v5, v6, v7>>
    BY DEF Push!Publish, Push!Revoke
<1>2. Push!OneSender' /\ Push!NotDeliveredYet' /\ Push!EpisodeDeliveredOnce'
    BY <1>1 DEF Push!GateInv, Push!OneSender, Push!NotDeliveredYet, Push!Delivered,
       Push!EpisodeDeliveredOnce, Push!Episode
<1>3. CASE Push!Publish
    BY <1>2, <1>3, PublishCounts DEF Push!GateInv
<1>4. CASE Push!Revoke
    <2>1. Push!TypeOK' /\ Push!EpisodesAreCounted'
        BY <1>4 DEF Push!Revoke, Push!GateInv, Push!TypeOK, Push!EpisodesAreCounted, Push!Episode
    <2>2. QED
        BY <1>2, <2>1 DEF Push!GateInv
<1>5. QED
    BY <1>3, <1>4

\* A publication handed over begins one episode at most, which nobody has
\* sent or pushed; an idle one is nobody's either.
LEMMA NotedIsFresh ==
    ASSUME Push!GateInv, NEW p \in v3, NEW g, g = Push!Noted(v5, p[2])
    PROVE  /\ g \in [eligible : BOOLEAN, episode : Push!Episode,
                     status : {"idle", "inFlight", "delivered"}]
           /\ g = v5 \/ (g.episode = v5.episode + 1 /\ g.status = "idle")
           /\ g.status = "idle" => /\ ~HasWhole(v7[g.episode])
                                  /\ \A s \in v6 : s.episode < g.episode
           /\ Push!IsFiniteSet(v3 \ {p})
           /\ g.episode + Push!Cardinality(v3 \ {p}) <= v2
<1>1. /\ v5 \in [eligible : BOOLEAN, episode : Push!Episode,
                 status : {"idle", "inFlight", "delivered"}]
      /\ p[2] \in BOOLEAN /\ v2 \in 0 .. Changes
      /\ v5.episode \in Nat /\ Changes \in Nat
    BY NumbersAssumption DEF Push!GateInv, Push!TypeOK, Push!Episode
<1>2. /\ IsFiniteSet(v3 \ {p}) /\ Cardinality(v3 \ {p}) = Cardinality(v3) - 1
      /\ Cardinality(v3) \in Nat /\ Cardinality(v3 \ {p}) \in Nat
    BY FS_RemoveElement, FS_CardinalityType, SameSizes DEF Push!GateInv, Push!EpisodesAreCounted
<1>3. v5.episode + Cardinality(v3) <= v2
    BY SameSizes DEF Push!GateInv, Push!EpisodesAreCounted
<1>4. v5.episode + 1 \in Push!Episode
    BY <1>1, <1>2, <1>3 DEF Push!Episode
<1>5. \A s \in v6 : s.episode \in Nat /\ s.episode <= v5.episode
    BY NumbersAssumption DEF Push!GateInv, Push!TypeOK, Push!OneSender, Push!Episode
<1>6. CASE g = v5
    <2>1. v5.status = "idle" => ~HasWhole(v7[v5.episode]) /\ \A s \in v6 : s.episode < v5.episode
        BY <1>1, <1>5 DEF Push!GateInv, Push!OneSender, Push!NotDeliveredYet, Push!Delivered, HasWhole
    <2>2. v5.episode + Cardinality(v3 \ {p}) <= v2
        BY <1>1, <1>2, <1>3
    <2>3. Push!IsFiniteSet(v3 \ {p}) /\ Push!Cardinality(v3 \ {p}) = Cardinality(v3 \ {p})
        BY <1>2, SameSizes
    <2>4. QED
        BY <1>1, <1>6, <2>1, <2>2, <2>3
<1>7. CASE g = [eligible |-> p[2], episode |-> v5.episode + 1, status |-> "idle"]
    <2>1. ~HasWhole(v7[v5.episode + 1])
        BY <1>1, <1>4 DEF Push!GateInv, Push!NotDeliveredYet, Push!Delivered, HasWhole
    <2>2. g.episode + Cardinality(v3 \ {p}) <= v2
        BY <1>1, <1>2, <1>3, <1>7
    <2>3. QED
        BY <1>1, <1>2, <1>4, <1>5, <1>7, <2>1, <2>2, SameSizes
<1>8. QED
    BY <1>6, <1>7 DEF Push!Noted

LEMMA EnqueueKeepsInv ==
    ASSUME Push!GateInv, Push!Enqueue
    PROVE  Push!GateInv'
<1>1. PICK p \in v3 :
         /\ v3' = v3 \ {p}
         /\ IF Push!Claims(Push!Noted(v5, p[2])) /\ Name \ v4 # {}
            THEN /\ v5' = [Push!Noted(v5, p[2]) EXCEPT !.status = "inFlight"]
                 /\ v6' = v6 \cup {[episode |-> Push!Noted(v5, p[2]).episode, to |-> Name \ v4,
                                    tries |-> 0, id |-> p[1]]}
            ELSE v5' = Push!Noted(v5, p[2]) /\ UNCHANGED v6
         /\ UNCHANGED <<v1, v2, v4, v7>>
    BY DEF Push!Enqueue
<1> DEFINE g == Push!Noted(v5, p[2])
           new == [episode |-> g.episode, to |-> Name \ v4, tries |-> 0, id |-> p[1]]
           Gates == [eligible : BOOLEAN, episode : Push!Episode,
                     status : {"idle", "inFlight", "delivered"}]
<1>2. /\ g \in Gates
      /\ g = v5 \/ (g.episode = v5.episode + 1 /\ g.status = "idle")
      /\ g.status = "idle" => ~HasWhole(v7[g.episode]) /\ \A s \in v6 : s.episode < g.episode
      /\ Push!IsFiniteSet(v3') /\ g.episode + Push!Cardinality(v3') <= v2
    BY <1>1, NotedIsFresh
<1>3. \/ v5' = g /\ UNCHANGED v6
      \/ /\ g.status = "idle" /\ v5' = [g EXCEPT !.status = "inFlight"]
         /\ v6' = v6 \cup {new}
    BY <1>1 DEF Push!Claims
<1>4. new \in Sender
    BY <1>1, <1>2, NumbersAssumption DEF Push!GateInv, Push!TypeOK, Sender
<1> HIDE DEF g, new
<1>5. /\ v5' \in Gates /\ v5'.episode = g.episode
      /\ v5'.status = "inFlight" \/ v5' = g
    BY <1>2, <1>3
<1>6. /\ v5.episode \in Nat /\ g.episode \in Nat /\ v5.episode <= g.episode
      /\ \A s \in v6 : s.episode \in Nat
    BY <1>2, NumbersAssumption DEF Push!GateInv, Push!TypeOK, Push!Episode
<1>7. Push!TypeOK'
    <2>1. v6' \subseteq Sender
        BY <1>3, <1>4 DEF Push!GateInv, Push!TypeOK, Sender
    <2>2. v3' \subseteq (1 .. Changes) \X BOOLEAN
        BY <1>1 DEF Push!GateInv, Push!TypeOK
    <2>3. QED
        BY <1>1, <1>5, <2>1, <2>2 DEF Push!GateInv, Push!TypeOK, Sender, Push!Episode
<1>8. Push!EpisodesAreCounted'
    BY <1>1, <1>2, <1>5 DEF Push!GateInv, Push!EpisodesAreCounted
<1>9. Push!OneSender'
    <2>1. CASE v5' = g /\ UNCHANGED v6
        BY <1>2, <1>6, <2>1 DEF Push!GateInv, Push!OneSender
    <2>2. CASE v6' = v6 \cup {new} /\ g.status = "idle" /\ v5' = [g EXCEPT !.status = "inFlight"]
        <3>1. new.episode = g.episode /\ v5'.episode = g.episode /\ v5'.status = "inFlight"
            BY <1>2, <2>2 DEF new
        <3>2. \A s \in v6 : s.episode < g.episode
            BY <1>2, <2>2
        <3>3. QED
            BY <1>6, <2>2, <3>1, <3>2 DEF Push!GateInv, Push!OneSender
    <2>3. QED
        BY <1>3, <2>1, <2>2
<1>10. Push!NotDeliveredYet'
    <2>1. \A s \in v6' : ~HasWhole(v7[s.episode])
        BY <1>2, <1>3 DEF Push!GateInv, Push!NotDeliveredYet, Push!Delivered, HasWhole, new
    <2>2. \A e \in Push!Episode : e > g.episode => ~HasWhole(v7[e])
        <3>1. \A e \in Push!Episode : e \in Nat
            BY NumbersAssumption DEF Push!Episode
        <3>2. QED
            BY <1>6, <3>1 DEF Push!GateInv, Push!NotDeliveredYet, Push!Delivered, HasWhole
    <2>3. v5'.status = "idle" => ~HasWhole(v7[v5'.episode])
        BY <1>2, <1>5
    <2>4. QED
        BY <1>1, <1>5, <2>1, <2>2, <2>3 DEF Push!NotDeliveredYet, Push!Delivered, HasWhole, Push!Episode
<1>11. Push!EpisodeDeliveredOnce'
    BY <1>1, <1>2, <1>5 DEF Push!GateInv, Push!EpisodeDeliveredOnce, Push!Delivered, Push!Episode
<1>12. QED
    BY <1>7, <1>8, <1>9, <1>10, <1>11 DEF Push!GateInv

\* An attempt is of a send whose episode is not delivered.
LEMMA AttemptKeepsInv ==
    ASSUME Push!GateInv, Push!Attempt
    PROVE  Push!GateInv'
<1>1. PICK s \in v6 : \E reached \in SUBSET s.to :
         /\ v7' = [v7 EXCEPT ![s.episode] = Append(@, [to |-> s.to, reached |-> reached])]
         /\ \/ /\ reached = s.to
               /\ Push!Settled(s, "delivered") /\ v6' = v6 \ {s}
            \/ /\ reached # s.to /\ s.tries + 1 < Attempts
               /\ v6' = (v6 \ {s}) \cup {[s EXCEPT !.tries = @ + 1]}
               /\ UNCHANGED v5
            \/ /\ reached # s.to /\ s.tries + 1 = Attempts
               /\ Push!Settled(s, "idle") /\ v6' = v6 \ {s}
         /\ UNCHANGED <<v1, v2, v3, v4>>
    BY DEF Push!Attempt, Push!Pushes
<1>2. PICK reached \in SUBSET s.to :
         /\ v7' = [v7 EXCEPT ![s.episode] = Append(@, [to |-> s.to, reached |-> reached])]
         /\ \/ /\ reached = s.to
               /\ Push!Settled(s, "delivered") /\ v6' = v6 \ {s}
            \/ /\ reached # s.to /\ s.tries + 1 < Attempts
               /\ v6' = (v6 \ {s}) \cup {[s EXCEPT !.tries = @ + 1]}
               /\ UNCHANGED v5
            \/ /\ reached # s.to /\ s.tries + 1 = Attempts
               /\ Push!Settled(s, "idle") /\ v6' = v6 \ {s}
         /\ UNCHANGED <<v1, v2, v3, v4>>
    BY <1>1
<1>3. /\ s \in Sender /\ v6 \subseteq Sender
      /\ v7 \in [Push!Episode -> Seq(Tries)]
      /\ v5 \in [eligible : BOOLEAN, episode : Push!Episode,
                 status : {"idle", "inFlight", "delivered"}]
      /\ Push!Episode \subseteq Nat /\ Changes \in Nat /\ Attempts \in Nat
    <2>1. Push!Episode \subseteq Nat /\ Changes \in Nat /\ Attempts \in Nat
        BY NumbersAssumption DEF Push!Episode
    <2>2. /\ s \in Sender /\ v6 \subseteq Sender
          /\ v7 \in [Push!Episode -> Seq(Tries)]
          /\ v5 \in [eligible : BOOLEAN, episode : Push!Episode,
                     status : {"idle", "inFlight", "delivered"}]
        BY DEF Push!GateInv, Push!TypeOK, Sender, Tries
    <2>3. QED
        BY <2>1, <2>2
<1>4. /\ s.episode \in Push!Episode /\ s.episode \in Nat /\ v5.episode \in Nat
      /\ s.episode <= v5.episode /\ ~HasWhole(v7[s.episode])
      /\ \A t \in v6 : t.episode \in Push!Episode /\ (t.episode = s.episode => t = s)
      /\ s.episode = v5.episode => v5.status = "inFlight"
    BY <1>3 DEF Push!GateInv, Push!OneSender, Push!NotDeliveredYet, Push!Delivered, HasWhole, Sender
<1>5. /\ v7' \in [Push!Episode -> Seq(Tries)]
      /\ \A e \in Push!Episode : e # s.episode => v7'[e] = v7[e]
      /\ HasWhole(v7'[s.episode]) <=> reached = s.to
      /\ \A i, j \in DOMAIN v7'[s.episode] : i < j => ~Push!Whole(v7'[s.episode][i])
    <2> DEFINE a == [to |-> s.to, reached |-> reached]
    <2>1. a \in Tries /\ (Push!Whole(a) <=> reached = s.to)
        BY <1>3 DEF Tries, Sender, Push!Whole
    <2>2. v7' = [v7 EXCEPT ![s.episode] = Append(v7[s.episode], a)]
        BY <1>2
    <2> HIDE DEF a
    <2>3. v7[s.episode] \in Seq(Tries)
        BY <1>3, <1>4
    <2>4. /\ Append(v7[s.episode], a) \in Seq(Tries)
          /\ HasWhole(Append(v7[s.episode], a)) <=> Push!Whole(a)
          /\ \A i, j \in DOMAIN Append(v7[s.episode], a) :
                i < j => ~Push!Whole(Append(v7[s.episode], a)[i])
        BY <1>4, <2>1, <2>3, AttemptsGrow
    <2>5. v7'[s.episode] = Append(v7[s.episode], a)
          /\ \A e \in Push!Episode : e # s.episode => v7'[e] = v7[e]
        BY <1>3, <1>4, <2>2
    <2>6. v7' \in [Push!Episode -> Seq(Tries)]
        BY <1>3, <2>2, <2>4
    <2>7. QED
        BY <2>1, <2>4, <2>5, <2>6
<1>6. /\ v5'.episode = v5.episode
      /\ v5' \in [eligible : BOOLEAN, episode : Push!Episode,
                  status : {"idle", "inFlight", "delivered"}]
      /\ s.episode # v5.episode => v5' = v5
      /\ reached = s.to => (s.episode = v5.episode => v5'.status = "delivered")
      /\ reached # s.to => v5'.status # "delivered" \/ v5' = v5
      /\ v6' = v6 \ {s} \/ (reached # s.to /\ v5' = v5)
    BY <1>2, <1>3, <1>4 DEF Push!Settled, Push!OwnEpisode
<1>7. v6' \subseteq Sender /\ \A t \in v6' : (t \in v6 /\ t # s) \/ (reached # s.to /\ t.episode = s.episode)
    <2>1. CASE v6' = v6 \ {s}
        BY <1>3, <2>1
    <2>2. CASE /\ reached # s.to /\ s.tries + 1 < Attempts
               /\ v6' = (v6 \ {s}) \cup {[s EXCEPT !.tries = @ + 1]}
        <3>1. s.tries + 1 \in 0 .. Attempts
            BY <1>3, <2>2 DEF Sender
        <3>2. [s EXCEPT !.tries = @ + 1] \in Sender /\ [s EXCEPT !.tries = @ + 1].episode = s.episode
            BY <1>3, <3>1 DEF Sender
        <3>3. QED
            BY <1>3, <2>2, <3>2
    <2>3. QED
        BY <1>2, <2>1, <2>2
<1>8. Push!TypeOK'
    BY <1>2, <1>3, <1>5, <1>6, <1>7 DEF Push!GateInv, Push!TypeOK, Push!Episode, Sender, Tries
<1>9. Push!OneSender'
    <2>1. CASE v6' = v6 \ {s}
        <3>1. \A t \in v6' : t \in v6 /\ t.episode # s.episode
            BY <1>4, <2>1
        <3>2. QED
            BY <1>6, <3>1 DEF Push!GateInv, Push!OneSender
    <2>2. CASE v5' = v5 /\ v6' = (v6 \ {s}) \cup {[s EXCEPT !.tries = @ + 1]}
        <3>1. [s EXCEPT !.tries = @ + 1].episode = s.episode
            BY <1>3 DEF Sender
        <3>2. \A t \in v6 \ {s} : t.episode # s.episode
            BY <1>4
        <3>3. QED
            BY <1>4, <2>2, <3>1, <3>2 DEF Push!GateInv, Push!OneSender
    <2>3. QED
        BY <1>2, <2>1, <2>2
<1>10. Push!NotDeliveredYet'
    <2>1. \A t \in v6' : ~HasWhole(v7'[t.episode])
        <3>1. \A t \in v6 : t # s => t.episode # s.episode /\ ~HasWhole(v7[t.episode])
            BY <1>4 DEF Push!GateInv, Push!NotDeliveredYet, Push!Delivered, HasWhole
        <3>2. QED
            BY <1>4, <1>5, <1>7, <3>1
    <2>2. v5'.status = "idle" => ~HasWhole(v7'[v5'.episode])
        <3>1. CASE s.episode = v5.episode
            BY <1>5, <1>6, <3>1
        <3>2. CASE s.episode # v5.episode
            <4>1. v5' = v5 /\ v7'[v5.episode] = v7[v5.episode]
                BY <1>3, <1>5, <1>6, <3>2
            <4>2. QED
                BY <4>1 DEF Push!GateInv, Push!NotDeliveredYet, Push!Delivered, HasWhole
        <3>3. QED
            BY <3>1, <3>2
    <2>3. \A e \in Push!Episode : e > v5'.episode => ~HasWhole(v7'[e])
        <3>1. \A e \in Push!Episode : e > v5.episode => ~HasWhole(v7[e])
            BY DEF Push!GateInv, Push!NotDeliveredYet, Push!Delivered, HasWhole
        <3>2. \A e \in Push!Episode : e > v5.episode => e # s.episode
            BY <1>3, <1>4
        <3>3. \A e \in Push!Episode : e > v5.episode => ~HasWhole(v7'[e])
            BY <1>5, <3>1, <3>2
        <3>4. QED
            BY <1>6, <3>3
    <2>4. QED
        BY <2>1, <2>2, <2>3 DEF Push!NotDeliveredYet, Push!Delivered, HasWhole, Push!Episode
<1>11. Push!EpisodeDeliveredOnce'
    <2>1. \A e \in Push!Episode : \A i, j \in DOMAIN v7'[e] : i < j => ~Push!Whole(v7'[e][i])
        <3>1. \A e \in Push!Episode : \A i, j \in DOMAIN v7[e] : i < j => ~Push!Whole(v7[e][i])
            BY DEF Push!GateInv, Push!EpisodeDeliveredOnce
        <3>2. QED
            BY <1>5, <3>1
    <2>2. v5'.status = "delivered" => HasWhole(v7'[v5'.episode])
        <3>1. CASE s.episode = v5.episode
            BY <1>4, <1>5, <1>6, <3>1
        <3>2. CASE s.episode # v5.episode
            <4>1. v5' = v5 /\ v7'[v5.episode] = v7[v5.episode]
                BY <1>3, <1>5, <1>6, <3>2
            <4>2. QED
                BY <4>1 DEF Push!GateInv, Push!EpisodeDeliveredOnce, Push!Delivered, HasWhole
        <3>3. QED
            BY <3>1, <3>2
    <2>3. QED
        BY <2>1, <2>2 DEF Push!EpisodeDeliveredOnce, Push!Delivered, HasWhole, Push!Episode, Push!Whole
<1>12. Push!EpisodesAreCounted'
    BY <1>2, <1>6 DEF Push!GateInv, Push!EpisodesAreCounted
<1>13. QED
    BY <1>8, <1>9, <1>10, <1>11, <1>12 DEF Push!GateInv

LEMMA PushNextKeepsInv ==
    ASSUME Push!GateInv, Push!Next
    PROVE  Push!GateInv'
BY PublishKeepsInv, EnqueueKeepsInv, AttemptKeepsInv DEF Push!Next

LEMMA PushInitInv == Push!Init => Push!GateInv
<1> SUFFICES ASSUME Push!Init PROVE Push!GateInv
    OBVIOUS
<1>1. 0 \in Push!Episode /\ Changes \in Nat
    BY NumbersAssumption DEF Push!Episode
<1>2. Push!TypeOK
    <2>1. v7 \in [Push!Episode -> Seq(Tries)] /\ v2 \in 0 .. Changes
        BY <1>1 DEF Push!Init
    <2>2. v5 \in [eligible : BOOLEAN, episode : Push!Episode,
                 status : {"idle", "inFlight", "delivered"}]
        BY <1>1 DEF Push!Init
    <2>3. QED
        BY <2>1, <2>2 DEF Push!Init, Push!TypeOK, Tries
<1>3. Push!EpisodesAreCounted
    BY FS_EmptySet, SameSizes DEF Push!Init, Push!EpisodesAreCounted
<1>4. Push!OneSender /\ Push!NotDeliveredYet /\ Push!EpisodeDeliveredOnce
    <2>1. \A e \in Push!Episode : v7[e] = <<>> /\ DOMAIN v7[e] = {}
        BY DEF Push!Init
    <2>2. QED
        BY <1>1, <2>1 DEF Push!Init, Push!OneSender, Push!NotDeliveredYet, Push!Delivered,
           Push!EpisodeDeliveredOnce
<1>5. QED
    BY <1>2, <1>3, <1>4 DEF Push!GateInv

-----------------------------------------------------------------------------
(* The timeline of Native turns (TimelineBarrier)                          *)

TurnStates == {"queued", "running", "completed", "failed"}
Lanes == [drain : {0} \cup Line!Drain, owned : BOOLEAN,
          at : {"idle", "running", "waiting", "settling", "halted"}]
Ingests == [route : {0} \cup Line!Drain, pending : SUBSET Line!Event]
Barriers == [committed : {0} \cup Line!Drain, failures : SUBSET Line!Drain]

LEMMA LineShapes ==
    ASSUME Line!LineInv
    PROVE  /\ v1 \in Seq(Line!Item) /\ v2 \in Ingests /\ v3 \in Barriers /\ v4 \in Lanes
           /\ v5 \in [Line!Drain -> TurnStates] /\ v6 \subseteq Line!Drain
           /\ v7 \subseteq Line!Event /\ v8 \subseteq v7 /\ v9 \subseteq v7
           /\ v10 \in 0 .. BadWrites /\ v2.pending \subseteq v7
           /\ v4.drain \in Nat /\ Drains \in Nat /\ v3.committed \in Nat /\ v2.route \in Nat
           /\ \A i \in DOMAIN v1 : v1[i].of \in Nat /\ v1[i] \in Line!Item
           /\ \A e \in v7 : e[1] \in Line!Drain
           /\ 0 \notin Line!Drain /\ Line!Drain \subseteq Nat
<1>1. /\ v1 \in Seq(Line!Item) /\ v2 \in Ingests /\ v3 \in Barriers /\ v4 \in Lanes
      /\ v5 \in [Line!Drain -> TurnStates] /\ v6 \subseteq Line!Drain
      /\ v7 \subseteq Line!Event /\ v8 \subseteq v7 /\ v9 \subseteq v7
      /\ v10 \in 0 .. BadWrites /\ v2.pending \subseteq v7
      /\ \A i \in DOMAIN v1 : v1[i] \in Line!Item
    BY DEF Line!LineInv, Line!TypeOK, Lanes, Ingests, Barriers, TurnStates
<1>2. 0 \notin Line!Drain /\ Line!Drain \subseteq Nat /\ Drains \in Nat
    BY NumbersAssumption DEF Line!Drain
<1>3. v4.drain \in Nat /\ v3.committed \in Nat /\ v2.route \in Nat
    <2>1. {0} \cup Line!Drain \subseteq Nat
        BY <1>2
    <2>2. v4.drain \in {0} \cup Line!Drain /\ v3.committed \in {0} \cup Line!Drain
          /\ v2.route \in {0} \cup Line!Drain
        BY <1>1 DEF Lanes, Barriers, Ingests
    <2>3. QED
        BY <2>1, <2>2
<1>4. \A i \in DOMAIN v1 : v1[i].of \in Nat
    <2>1. {0} \cup Line!Drain \subseteq Nat /\ \A x \in Line!Item : x.of \in {0} \cup Line!Drain
        BY <1>2 DEF Line!Item
    <2>2. QED
        BY <1>1, <2>1
<1>5. \A e \in v7 : e[1] \in Line!Drain
    <2>1. \A e \in Line!Drain \X (1 .. Events) : e[1] \in Line!Drain
        OBVIOUS
    <2>2. QED
        BY <1>1, <2>1 DEF Line!Event
<1>6. QED
    BY <1>1, <1>2, <1>3, <1>4, <1>5

LEMMA LineFaults ==
    ASSUME Line!LineInv, Line!Fault
    PROVE  v10' \in 0 .. BadWrites
BY LineShapes, NumbersAssumption DEF Line!Fault

\* A turn whose timeline is broken is failed or marked: it cannot end as
\* completed any more, unless it did.
LEMMA FailTurnMarks ==
    ASSUME Line!LineInv, NEW d \in Line!Drain, Line!FailTurn(d)
    PROVE  /\ v5' \in [Line!Drain -> TurnStates] /\ v6' \subseteq Line!Drain
           /\ \A x \in Line!Drain :
                /\ v5'[x] = v5[x] \/ (v5[x] = "running" /\ v5'[x] = "failed")
                /\ v5'[x] = "running" /\ x \notin v6' => x # d /\ x \notin v6
<1>1. v5 \in [Line!Drain -> TurnStates] /\ v6 \subseteq Line!Drain
    BY LineShapes
<1>2. CASE v6' = v6 \cup {d} /\ UNCHANGED v5
    BY <1>1, <1>2
<1>3. CASE /\ v5' = [v5 EXCEPT ![d] = IF v5[d] = "running" THEN "failed" ELSE v5[d]]
           /\ v6' = IF v5'[d] = "failed" THEN v6 \ {d} ELSE v6 \cup {d}
    <2>1. v5' \in [Line!Drain -> TurnStates]
        BY <1>1, <1>3 DEF TurnStates
    <2>2. QED
        BY <1>1, <1>3, <2>1
<1>4. QED
    BY <1>2, <1>3 DEF Line!FailTurn, Line!Ended

\* The bridge moves no turn forward: it stores, or breaks the turn d.
Breaks(d) == d \in Line!Drain /\ Line!FailTurn(d)

LEMMA BridgeKeepsTurns ==
    ASSUME Line!LineInv, UNCHANGED <<v4, v7>>, v8 \subseteq v8', v9 \subseteq v9',
           UNCHANGED <<v5, v6>> \/ \E d : Breaks(d)
    PROVE  /\ v5' \in [Line!Drain -> TurnStates] /\ v6' \subseteq Line!Drain
           /\ Line!CompletedIsWhole'
           /\ v4.at # "idle" => v5'[v4.drain] # "completed"
           /\ \A d \in Line!Drain : d > v4.drain => v5'[d] = "queued"
           /\ \A d \in Line!Drain : v5'[d] = "running" /\ d \notin v6' =>
                v5[d] = "running" /\ d \notin v6 /\ ~Breaks(d)
<1>1. /\ v5' \in [Line!Drain -> TurnStates] /\ v6' \subseteq Line!Drain
      /\ \A x \in Line!Drain : v5'[x] = v5[x] \/ (v5[x] = "running" /\ v5'[x] = "failed")
    BY LineShapes, FailTurnMarks DEF Breaks
<1>2. \A x \in Line!Drain : v5'[x] = "running" /\ x \notin v6' => v5[x] = "running" /\ x \notin v6
    BY LineShapes, FailTurnMarks DEF Breaks
<1>3. \A x \in Line!Drain : v5'[x] = "running" /\ x \notin v6' => ~Breaks(x)
    BY FailTurnMarks DEF Breaks
<1>4. Line!CompletedIsWhole'
    BY <1>1 DEF Line!LineInv, Line!CompletedIsWhole
<1>5. v4.at # "idle" => v4.drain \in Line!Drain
    BY LineShapes DEF Line!LineInv, Line!LaneOwns, Lanes
<1>6. v4.at # "idle" => v5'[v4.drain] # "completed"
    BY <1>1, <1>5 DEF Line!LineInv, Line!LaneOwns
<1>7. \A d \in Line!Drain : d > v4.drain => v5'[d] = "queued"
    BY <1>1 DEF Line!LineInv, Line!LaneOwns
<1>8. QED
    BY <1>1, <1>2, <1>3, <1>4, <1>6, <1>7

\* The stream, as the bridge takes its first item.
StreamOK == v1 \in Seq(Line!Item) /\ Line!CommitIsLast
            /\ \A i \in DOMAIN v1 : v1[i].ev \subseteq v7

LEMMA TakeKeepsStream ==
    ASSUME Line!LineInv, v1 # <<>>, v1' = Tail(v1), UNCHANGED <<v4, v7>>
    PROVE  /\ StreamOK'
           /\ Head(v1) \in Line!Item /\ Head(v1) = v1[1] /\ 1 \in DOMAIN v1
           /\ Head(v1).ev \subseteq v7 /\ \A e \in Head(v1).ev : e[1] = Head(v1).of
           /\ \A i \in DOMAIN v1' : i + 1 \in DOMAIN v1 /\ v1'[i] = v1[i + 1] /\ v1'[i].kind # "gap"
           /\ \A e : Line!InStream(e) => e \in Head(v1).ev \/ Line!InStream(e)'
           /\ Line!Gap => Head(v1).kind = "gap"
<1>1. /\ v1' \in Seq(Line!Item) /\ Head(v1) \in Line!Item /\ Head(v1) = v1[1] /\ 1 \in DOMAIN v1
      /\ \A i \in DOMAIN v1' : i + 1 \in DOMAIN v1 /\ v1'[i] = v1[i + 1]
    BY LineShapes, TailOf
<1>2. \A i \in DOMAIN v1 : i = 1 \/ (i - 1 \in DOMAIN v1' /\ v1[i] = v1'[i - 1])
    BY LineShapes
<1>3. \A i \in DOMAIN v1' : v1'[i].kind # "gap"
    <2>1. \A i \in DOMAIN v1' : i + 1 # 1
        BY <1>1
    <2>2. QED
        BY <1>1, <2>1 DEF Line!LineInv, Line!CommitIsLast
<1>4. Line!CommitIsLast'
    <2>1. \A i, j \in DOMAIN v1' : j > i => j + 1 > i + 1
        BY <1>1
    <2>2. QED
        BY <1>1, <1>3, <2>1 DEF Line!LineInv, Line!CommitIsLast
<1>5. /\ \A i \in DOMAIN v1' : v1'[i].ev \subseteq v7
      /\ Head(v1).ev \subseteq v7 /\ \A e \in Head(v1).ev : e[1] = Head(v1).of
    BY <1>1 DEF Line!LineInv, Line!LaneOwns, Line!CommitIsLast
<1>6. \A e : Line!InStream(e) => e \in Head(v1).ev \/ Line!InStream(e)'
    BY <1>1, <1>2 DEF Line!InStream
<1>7. Line!Gap => Head(v1).kind = "gap"
    BY <1>1 DEF Line!Gap, Line!LineInv, Line!CommitIsLast
<1>8. QED
    BY <1>1, <1>3, <1>4, <1>5, <1>6, <1>7 DEF StreamOK

\* What the steps of the bridge have in common.
BridgeFrame ==
    /\ UNCHANGED <<v4, v7>>
    /\ v8 \subseteq v8' /\ v8' \subseteq v7 /\ v9 \subseteq v9' /\ v9' \subseteq v7
    /\ UNCHANGED <<v5, v6>> \/ \E d : Breaks(d)
    /\ v10' \in 0 .. BadWrites
    /\ v3' \in Barriers /\ v3.failures \subseteq v3'.failures

IngestOK == /\ v2 \in Ingests /\ v2.pending \subseteq v7 /\ v2.route <= v4.drain
            /\ \A e \in v2.pending : e[1] = v2.route

LEMMA StillSound ==
    ASSUME Line!LineInv, BridgeFrame, NEW d \in Line!Drain, Line!Sound(d)'
    PROVE  Line!Sound(d) /\ ~Breaks(d)
<1>1. v5'[d] = "running" /\ d \notin v6' /\ d \notin v3'.failures
    BY DEF Line!Sound
<1>2. v5[d] = "running" /\ d \notin v6 /\ ~Breaks(d)
    BY <1>1, BridgeKeepsTurns DEF BridgeFrame
<1>3. QED
    BY <1>1, <1>2 DEF Line!Sound, BridgeFrame

LEMMA BridgeCloses ==
    ASSUME Line!LineInv, BridgeFrame, IngestOK', StreamOK',
           Line!CommitIsRead', Line!OnItsWay'
    PROVE  Line!LineInv'
<1>1. /\ v5' \in [Line!Drain -> TurnStates] /\ v6' \subseteq Line!Drain
      /\ Line!CompletedIsWhole'
      /\ v4.at # "idle" => v5'[v4.drain] # "completed"
      /\ \A d \in Line!Drain : d > v4.drain => v5'[d] = "queued"
    BY BridgeKeepsTurns DEF BridgeFrame
<1>2. v1' \in Seq(Line!Item) /\ Line!CommitIsLast' /\ v2'.pending \subseteq v7'
    BY DEF StreamOK, IngestOK, BridgeFrame
<1>3. Line!TypeOK'
    <2>1. \A i \in DOMAIN v1' : v1'[i] \in Line!Item
        BY <1>2
    <2>2. QED
        BY <1>1, <2>1, LineShapes DEF BridgeFrame, IngestOK, Ingests, Barriers, Lanes, TurnStates, Line!TypeOK
<1>4. Line!LaneOwns'
    BY <1>1 DEF Line!LineInv, Line!LaneOwns, BridgeFrame, IngestOK, StreamOK
<1>5. QED
    BY <1>1, <1>2, <1>3, <1>4 DEF Line!LineInv

\* Committed is not read again, and nothing of its drain comes after it.
LEMMA ReadStays ==
    ASSUME Line!LineInv, UNCHANGED v4, v3'.committed = v3.committed,
           \A i \in DOMAIN v1' : \E j \in DOMAIN v1 : v1'[i] = v1[j]
    PROVE  Line!CommitIsRead'
BY DEF Line!LineInv, Line!CommitIsRead

\* What the bridge may do with the write of a step.
LEMMA StoresOrBreaks ==
    ASSUME Line!LineInv, NEW events \in SUBSET v7, NEW d,
           Line!Stores(events) \/ (d \in Line!Drain /\ Line!WriteFails(d))
    PROVE  /\ v8 \subseteq v8' /\ v8' \subseteq v7 /\ v10' \in 0 .. BadWrites
           /\ (UNCHANGED <<v5, v6>> /\ events \subseteq v8') \/ Breaks(d)
BY LineShapes, LineFaults DEF Line!Stores, Line!WriteFails, Breaks

\* A reroute stores the text before the item, or refuses the item with it.
LEMMA RerouteFailsKeepsInv ==
    ASSUME Line!LineInv, Line!RerouteFails
    PROVE  Line!LineInv'
<1>1. v1 # <<>> /\ v1' = Tail(v1) /\ UNCHANGED <<v3, v4, v7>>
      /\ v2.pending # {} /\ Line!WriteFails(v2.route)
      /\ v2' = [v2 EXCEPT !.pending = {}] /\ v9' = v9 \cup Head(v1).ev
    BY DEF Line!RerouteFails
<1>2. /\ StreamOK' /\ Head(v1).ev \subseteq v7
      /\ \A i \in DOMAIN v1' : i + 1 \in DOMAIN v1 /\ v1'[i] = v1[i + 1]
      /\ \A e : Line!InStream(e) => e \in Head(v1).ev \/ Line!InStream(e)'
      /\ Line!Gap => Head(v1).kind = "gap"
    BY <1>1, TakeKeepsStream
<1>3. v2.route \in Line!Drain
    <2>1. PICK e \in v2.pending : TRUE
        BY <1>1
    <2>2. e[1] = v2.route /\ e[1] \in Line!Drain
        BY <2>1, LineShapes DEF Line!LineInv, Line!LaneOwns
    <2>3. QED
        BY <2>2
<1>4. Breaks(v2.route) /\ v8' = v8 /\ v10' \in 0 .. BadWrites
    BY <1>1, <1>3, LineFaults DEF Line!WriteFails, Breaks
<1>5. BridgeFrame
    BY <1>1, <1>2, <1>4, LineShapes DEF BridgeFrame
<1>6. IngestOK'
    BY <1>1, LineShapes DEF IngestOK, Ingests, Line!LineInv, Line!LaneOwns
<1>7. Line!CommitIsRead'
    BY <1>1, <1>2, ReadStays
<1>8. Line!OnItsWay'
    <2> SUFFICES ASSUME NEW d \in Line!Drain, Line!Sound(d)',
                        NEW e \in v7' \ v9', e[1] = d
                 PROVE  \/ e \in v8'
                        \/ /\ v3'.committed # d
                           /\ e \in v2'.pending \/ Line!InStream(e)' \/ Line!Gap'
        BY DEF Line!OnItsWay
    <2>1. Line!Sound(d) /\ d # v2.route
        BY <1>4, <1>5, StillSound
    <2>2. \/ e \in v8
          \/ v3.committed # d /\ (e \in v2.pending \/ Line!InStream(e) \/ Line!Gap)
        BY <1>1, <2>1 DEF Line!LineInv, Line!OnItsWay
    <2>3. e \notin v2.pending /\ e \notin Head(v1).ev
        BY <1>1, <2>1 DEF Line!LineInv, Line!LaneOwns
    <2>4. Head(v1).kind # "gap"
        <3>1. Head(v1).of \notin {0, v2.route}
            BY DEF Line!RerouteFails
        <3>2. QED
            BY <1>1, <3>1, TakeKeepsStream DEF Line!LineInv, Line!CommitIsLast
    <2>5. QED
        BY <1>1, <1>2, <1>4, <2>2, <2>3, <2>4
<1>9. QED
    BY <1>2, <1>5, <1>6, <1>7, <1>8, BridgeCloses

\* Text waits in the batch of its own drain; what was there of another is stored.
LEMMA TakeTextKeepsInv ==
    ASSUME Line!LineInv, Line!TakeText
    PROVE  Line!LineInv'
<1> DEFINE d == Head(v1).of
<1>1. v1 # <<>> /\ v1' = Tail(v1) /\ UNCHANGED <<v3, v4, v7, v9>> /\ Head(v1).kind = "text"
    BY DEF Line!TakeText
<1>2. /\ StreamOK' /\ Head(v1) \in Line!Item /\ Head(v1) = v1[1] /\ 1 \in DOMAIN v1
      /\ Head(v1).ev \subseteq v7 /\ \A e \in Head(v1).ev : e[1] = d
      /\ \A i \in DOMAIN v1' : i + 1 \in DOMAIN v1 /\ v1'[i] = v1[i + 1]
      /\ \A e : Line!InStream(e) => e \in Head(v1).ev \/ Line!InStream(e)'
      /\ ~Line!Gap
    BY <1>1, TakeKeepsStream
<1>3. PICK flushed \in {{}, Line!Kept(d)} :
         /\ v2' = [route |-> d, pending |-> (Line!Kept(d) \ flushed) \cup Head(v1).ev]
         /\ Line!Stores(Line!Rerouted(d) \cup flushed)
    BY DEF Line!TakeText
<1>4. d \in {0} \cup Line!Drain /\ d <= v4.drain
    BY <1>2 DEF Line!Item, Line!LineInv, Line!CommitIsLast
<1>5. Line!Kept(d) \cup Line!Rerouted(d) = v2.pending /\ \A e \in Line!Kept(d) : e[1] = d
    BY DEF Line!Kept, Line!Rerouted, Line!LineInv, Line!LaneOwns
<1> HIDE DEF d
<1>6. Line!Rerouted(d) \cup flushed \subseteq v7
    BY <1>5, LineShapes
<1>7. /\ v8 \subseteq v8' /\ v8' \subseteq v7 /\ v10' \in 0 .. BadWrites /\ UNCHANGED <<v5, v6>>
      /\ Line!Rerouted(d) \cup flushed \subseteq v8'
    BY <1>3, <1>6, LineShapes DEF Line!Stores
<1>8. BridgeFrame
    BY <1>1, <1>7, LineShapes DEF BridgeFrame
<1>9. IngestOK'
    <2>1. v2'.pending \subseteq v7 /\ v2'.route = d /\ \A e \in v2'.pending : e[1] = d
        BY <1>2, <1>3, <1>5, LineShapes
    <2>2. v2' \in Ingests
        BY <1>3, <1>4, <2>1, LineShapes DEF Ingests
    <2>3. QED
        BY <1>1, <1>4, <2>1, <2>2 DEF IngestOK
<1>10. Line!CommitIsRead'
    BY <1>1, <1>2, ReadStays
<1>11. Line!OnItsWay'
    <2> SUFFICES ASSUME NEW x \in Line!Drain, Line!Sound(x)',
                        NEW e \in v7' \ v9', e[1] = x
                 PROVE  \/ e \in v8'
                        \/ /\ v3'.committed # x
                           /\ e \in v2'.pending \/ Line!InStream(e)' \/ Line!Gap'
        BY DEF Line!OnItsWay
    <2>1. \/ e \in v8
          \/ v3.committed # x /\ (e \in v2.pending \/ Line!InStream(e))
        BY <1>1, <1>2, <1>8, StillSound DEF Line!LineInv, Line!OnItsWay
    <2>2. e \in v2.pending => e \in v8' \/ e \in v2'.pending
        BY <1>3, <1>5, <1>7
    <2>3. e \in Head(v1).ev => e \in v2'.pending
        BY <1>3
    <2>4. QED
        BY <1>1, <1>2, <1>7, <2>1, <2>2, <2>3
<1>12. QED
    BY <1>2, <1>8, <1>9, <1>10, <1>11, BridgeCloses

\* Another event is stored after the text before it, or breaks its turn.
LEMMA TakeItemKeepsInv ==
    ASSUME Line!LineInv, Line!TakeItem \/ Line!TakeItemFails
    PROVE  Line!LineInv'
<1> DEFINE d == Head(v1).of
<1>1. /\ v1 # <<>> /\ v1' = Tail(v1) /\ UNCHANGED <<v3, v4, v7, v9>> /\ Head(v1).kind = "item"
      /\ v2' = [route |-> d, pending |-> {}]
      /\ \/ Line!Stores(v2.pending \cup Head(v1).ev)
         \/ (d = v2.route \/ v2.pending = {}) /\ Line!WriteFails(d)
    BY DEF Line!TakeItem, Line!TakeItemFails
<1>2. /\ StreamOK' /\ Head(v1) \in Line!Item /\ Head(v1) = v1[1] /\ 1 \in DOMAIN v1
      /\ Head(v1).ev \subseteq v7 /\ \A e \in Head(v1).ev : e[1] = d
      /\ \A i \in DOMAIN v1' : i + 1 \in DOMAIN v1 /\ v1'[i] = v1[i + 1]
      /\ \A e : Line!InStream(e) => e \in Head(v1).ev \/ Line!InStream(e)'
      /\ ~Line!Gap
    BY <1>1, TakeKeepsStream
<1>3. d \in Line!Drain /\ d <= v4.drain
    BY <1>1, <1>2 DEF Line!Item, Line!LineInv, Line!CommitIsLast
<1> HIDE DEF d
<1>4. /\ v8 \subseteq v8' /\ v8' \subseteq v7 /\ v10' \in 0 .. BadWrites
      /\ \/ UNCHANGED <<v5, v6>> /\ v2.pending \cup Head(v1).ev \subseteq v8'
         \/ Breaks(d) /\ (d = v2.route \/ v2.pending = {})
    <2>1. v2.pending \cup Head(v1).ev \subseteq v7
        BY <1>2, LineShapes
    <2>2. CASE Line!Stores(v2.pending \cup Head(v1).ev)
        BY <2>1, <2>2, LineShapes DEF Line!Stores
    <2>3. CASE (d = v2.route \/ v2.pending = {}) /\ Line!WriteFails(d)
        BY <1>3, <2>3, LineShapes, LineFaults DEF Line!WriteFails, Breaks
    <2>4. QED
        BY <1>1, <2>2, <2>3
<1>5. BridgeFrame
    BY <1>1, <1>4, LineShapes DEF BridgeFrame
<1>6. IngestOK'
    BY <1>1, <1>3 DEF IngestOK, Ingests
<1>7. Line!CommitIsRead'
    BY <1>1, <1>2, ReadStays
<1>8. Line!OnItsWay'
    <2> SUFFICES ASSUME NEW x \in Line!Drain, Line!Sound(x)',
                        NEW e \in v7' \ v9', e[1] = x
                 PROVE  \/ e \in v8'
                        \/ /\ v3'.committed # x
                           /\ e \in v2'.pending \/ Line!InStream(e)' \/ Line!Gap'
        BY DEF Line!OnItsWay
    <2>1. /\ ~Breaks(x)
          /\ \/ e \in v8
             \/ v3.committed # x /\ (e \in v2.pending \/ Line!InStream(e))
        BY <1>1, <1>2, <1>5, StillSound DEF Line!LineInv, Line!OnItsWay
    <2>2. CASE v2.pending \cup Head(v1).ev \subseteq v8'
        BY <1>1, <1>2, <1>4, <2>1, <2>2
    <2>3. CASE Breaks(d) /\ (d = v2.route \/ v2.pending = {})
        <3>1. e \notin Head(v1).ev /\ e \notin v2.pending
            BY <1>2, <2>1, <2>3 DEF Line!LineInv, Line!LaneOwns
        <3>2. QED
            BY <1>1, <1>2, <1>4, <2>1, <3>1
    <2>4. QED
        BY <1>4, <2>2, <2>3
<1>9. QED
    BY <1>2, <1>5, <1>6, <1>7, <1>8, BridgeCloses

\* The commit of a drain is told when all before it is stored or its turn broken.
LEMMA TakeCommittedKeepsInv ==
    ASSUME Line!LineInv, Line!TakeCommitted
    PROVE  Line!LineInv'
<1> DEFINE d == Head(v1).of
<1>1. /\ v1 # <<>> /\ v1' = Tail(v1) /\ UNCHANGED <<v4, v7, v9>> /\ Head(v1).kind = "committed"
      /\ v2' = [route |-> d, pending |-> {}] /\ v3' = [v3 EXCEPT !.committed = d]
      /\ \/ Line!Stores(v2.pending)
         \/ d = v2.route /\ Line!WriteFails(d)
    BY DEF Line!TakeCommitted
<1>2. /\ StreamOK' /\ Head(v1) \in Line!Item /\ Head(v1) = v1[1] /\ 1 \in DOMAIN v1
      /\ \A i \in DOMAIN v1' : i + 1 \in DOMAIN v1 /\ v1'[i] = v1[i + 1]
      /\ \A e : Line!InStream(e) => e \in Head(v1).ev \/ Line!InStream(e)'
      /\ ~Line!Gap
    BY <1>1, TakeKeepsStream
<1>3. /\ d \in Line!Drain /\ d <= v4.drain /\ Head(v1).ev = {}
      /\ d = v4.drain => v4.at # "running"
    BY <1>1, <1>2 DEF Line!Item, Line!LineInv, Line!CommitIsLast
<1>4. \A i \in DOMAIN v1' : v1'[i].of # d
    <2>1. \A i \in DOMAIN v1' : i + 1 > 1
        BY <1>2 DEF StreamOK
    <2>2. QED
        BY <1>1, <1>2, <2>1 DEF Line!LineInv, Line!CommitIsLast
<1> HIDE DEF d
<1>5. /\ v8 \subseteq v8' /\ v8' \subseteq v7 /\ v10' \in 0 .. BadWrites
      /\ \/ UNCHANGED <<v5, v6>> /\ v2.pending \subseteq v8'
         \/ Breaks(d) /\ d = v2.route
    <2>1. CASE Line!Stores(v2.pending)
        BY <2>1, LineShapes DEF Line!Stores
    <2>2. CASE d = v2.route /\ Line!WriteFails(d)
        BY <1>3, <2>2, LineShapes, LineFaults DEF Line!WriteFails, Breaks
    <2>3. QED
        BY <1>1, <2>1, <2>2
<1>6. v3' \in Barriers /\ v3'.committed = d /\ v3'.failures = v3.failures
    BY <1>1, <1>3, LineShapes DEF Barriers
<1>7. BridgeFrame
    BY <1>1, <1>5, <1>6, LineShapes DEF BridgeFrame
<1>8. IngestOK'
    BY <1>1, <1>3 DEF IngestOK, Ingests
<1>9. Line!CommitIsRead'
    BY <1>1, <1>3, <1>4, <1>6 DEF Line!CommitIsRead
<1>10. Line!OnItsWay'
    <2> SUFFICES ASSUME NEW x \in Line!Drain, Line!Sound(x)',
                        NEW e \in v7' \ v9', e[1] = x
                 PROVE  \/ e \in v8'
                        \/ /\ v3'.committed # x
                           /\ e \in v2'.pending \/ Line!InStream(e)' \/ Line!Gap'
        BY DEF Line!OnItsWay
    <2>1. /\ ~Breaks(x)
          /\ \/ e \in v8
             \/ v3.committed # x /\ (e \in v2.pending \/ Line!InStream(e)')
        BY <1>1, <1>2, <1>3, <1>7, StillSound DEF Line!LineInv, Line!OnItsWay
    <2>2. e \in v2.pending => e \in v8'
        BY <1>5, <2>1 DEF Line!LineInv, Line!LaneOwns
    <2>3. Line!InStream(e)' => d # x
        BY <1>2, <1>4 DEF Line!InStream, StreamOK, Line!CommitIsLast
    <2>4. QED
        BY <1>5, <1>6, <2>1, <2>2, <2>3
<1>11. QED
    BY <1>2, <1>7, <1>8, <1>9, <1>10, BridgeCloses

\* A gap breaks the turn that owns the lane.
LEMMA TakeGapKeepsInv ==
    ASSUME Line!LineInv, Line!TakeGap
    PROVE  Line!LineInv'
<1>1. /\ v1 # <<>> /\ v1' = Tail(v1) /\ UNCHANGED <<v2, v4, v7, v8, v9, v10>>
      /\ v3' = [v3 EXCEPT !.failures = v3.failures \cup Line!GapOf]
      /\ \/ UNCHANGED <<v5, v6>>
         \/ \E d \in Line!GapOf : Line!FailTurn(d)
    BY DEF Line!TakeGap
<1>2. /\ StreamOK' /\ \A i \in DOMAIN v1' : i + 1 \in DOMAIN v1 /\ v1'[i] = v1[i + 1]
    BY <1>1, TakeKeepsStream
<1>3. Line!GapOf \subseteq Line!Drain
    BY LineShapes DEF Line!GapOf, Lanes, Line!LineInv, Line!LaneOwns
<1>4. /\ v3' \in Barriers /\ v3'.committed = v3.committed
      /\ v3'.failures = v3.failures \cup Line!GapOf
    BY <1>1, <1>3, LineShapes DEF Barriers
<1>5. BridgeFrame
    BY <1>1, <1>3, <1>4, LineShapes DEF BridgeFrame, Breaks
<1>6. IngestOK'
    BY <1>1, LineShapes DEF IngestOK, Ingests, Line!LineInv, Line!LaneOwns
<1>7. Line!CommitIsRead'
    BY <1>1, <1>2, <1>4, ReadStays
<1>8. Line!OnItsWay'
    <2>1. ASSUME NEW d \in Line!Drain, Line!Sound(d)' PROVE FALSE
        <3>1. v4.drain = d /\ v4.owned /\ d \notin v3'.failures
            BY <1>1, <2>1 DEF Line!Sound, Line!LineInv, Line!LaneOwns
        <3>2. QED
            BY <1>4, <3>1 DEF Line!GapOf
    <2>2. QED
        BY <2>1 DEF Line!OnItsWay
<1>9. QED
    BY <1>2, <1>5, <1>6, <1>7, <1>8, BridgeCloses

LEMMA FlushKeepsInv ==
    ASSUME Line!LineInv, Line!Flush
    PROVE  Line!LineInv'
<1>1. /\ v2.pending # {} /\ UNCHANGED <<v1, v3, v4, v7, v9>>
      /\ v2' = [v2 EXCEPT !.pending = {}]
      /\ Line!Stores(v2.pending) \/ Line!WriteFails(v2.route)
    BY DEF Line!Flush
<1>2. v2.route \in Line!Drain
    <2>1. PICK e \in v2.pending : TRUE
        BY <1>1
    <2>2. e[1] = v2.route /\ e[1] \in Line!Drain
        BY <2>1, LineShapes DEF Line!LineInv, Line!LaneOwns
    <2>3. QED
        BY <2>2
<1>3. /\ v8 \subseteq v8' /\ v8' \subseteq v7 /\ v10' \in 0 .. BadWrites
      /\ (UNCHANGED <<v5, v6>> /\ v2.pending \subseteq v8') \/ Breaks(v2.route)
    BY <1>1, <1>2, LineShapes, StoresOrBreaks
<1>4. BridgeFrame
    BY <1>1, <1>3, LineShapes DEF BridgeFrame
<1>5. IngestOK' /\ StreamOK'
    BY <1>1, LineShapes
       DEF IngestOK, Ingests, StreamOK, Line!LineInv, Line!LaneOwns, Line!CommitIsLast
<1>6. Line!CommitIsRead'
    BY <1>1, ReadStays
<1>7. Line!OnItsWay'
    <2> SUFFICES ASSUME NEW x \in Line!Drain, Line!Sound(x)',
                        NEW e \in v7' \ v9', e[1] = x
                 PROVE  \/ e \in v8'
                        \/ /\ v3'.committed # x
                           /\ e \in v2'.pending \/ Line!InStream(e)' \/ Line!Gap'
        BY DEF Line!OnItsWay
    <2>1. /\ ~Breaks(x)
          /\ \/ e \in v8
             \/ v3.committed # x /\ (e \in v2.pending \/ Line!InStream(e) \/ Line!Gap)
        BY <1>1, <1>4, StillSound DEF Line!LineInv, Line!OnItsWay
    <2>2. e \in v2.pending => e \in v8'
        BY <1>3, <2>1 DEF Line!LineInv, Line!LaneOwns
    <2>3. Line!InStream(e)' = Line!InStream(e) /\ Line!Gap' = Line!Gap
        BY <1>1 DEF Line!InStream, Line!Gap
    <2>4. QED
        BY <1>1, <1>3, <2>1, <2>2, <2>3
<1>8. QED
    BY <1>4, <1>5, <1>6, <1>7, BridgeCloses

LEMMA BridgeKeepsInv ==
    ASSUME Line!LineInv, Line!Bridge
    PROVE  Line!LineInv'
BY RerouteFailsKeepsInv, TakeTextKeepsInv, TakeItemKeepsInv, TakeCommittedKeepsInv,
   TakeGapKeepsInv, FlushKeepsInv DEF Line!Bridge

\* The next drain has no events yet.
LEMMA RunDrainKeepsInv ==
    ASSUME Line!LineInv, Line!RunDrain
    PROVE  Line!LineInv'
<1> DEFINE d == v4.drain + 1
<1>1. /\ v4.at = "idle" /\ v4.drain < Drains
      /\ v4' = [drain |-> d, owned |-> TRUE, at |-> "running"]
      /\ v5' = [v5 EXCEPT ![d] = "running"]
      /\ UNCHANGED <<v1, v2, v3, v6, v7, v8, v9, v10>>
    BY DEF Line!RunDrain
<1>2. d \in Line!Drain /\ d \in Nat /\ v4.drain < d
    BY <1>1, LineShapes DEF Line!Drain
<1>3. /\ v4' \in Lanes /\ v4'.drain = d /\ v4'.owned /\ v4'.at = "running"
      /\ v5' \in [Line!Drain -> TurnStates] /\ v5'[d] = "running"
      /\ \A x \in Line!Drain \ {d} : v5'[x] = v5[x]
    BY <1>1, <1>2, LineShapes DEF Lanes, TurnStates
<1> HIDE DEF d
<1>4. \A i \in DOMAIN v1 : v1[i].of <= v4.drain /\ v1[i].of # d /\ v1[i].of <= d
    BY <1>2, LineShapes DEF Line!LineInv, Line!CommitIsLast
<1>5. \A e \in v7 : e[1] <= v4.drain /\ e[1] # d /\ e[1] <= d
    <2>1. \A e \in v7 : e[1] \in Nat /\ e[1] <= v4.drain
        BY LineShapes DEF Line!LineInv, Line!LaneOwns
    <2>2. QED
        BY <1>2, <2>1, LineShapes
<1>6. Line!TypeOK' /\ v1' \in Seq(Line!Item) /\ v2'.pending \subseteq v7'
    BY <1>1, <1>3, LineShapes
       DEF Line!TypeOK, Line!LineInv, Lanes, TurnStates
<1>7. Line!CommitIsLast'
    BY <1>1, <1>3, <1>4 DEF Line!LineInv, Line!CommitIsLast
<1>8. Line!CommitIsRead'
    BY <1>1, <1>2, <1>3, LineShapes DEF Line!LineInv, Line!CommitIsRead
<1>9. Line!LaneOwns'
    <2>1. \A x \in Line!Drain : x > d => v5'[x] = "queued"
        BY <1>2, <1>3, LineShapes DEF Line!LineInv, Line!LaneOwns
    <2>2. v2.route <= d /\ d # 0
        BY <1>2, LineShapes DEF Line!LineInv, Line!LaneOwns
    <2>3. QED
        BY <1>1, <1>3, <1>5, <2>1, <2>2 DEF Line!LineInv, Line!LaneOwns
<1>10. Line!OnItsWay'
    BY <1>1, <1>3, <1>5 DEF Line!OnItsWay, Line!Sound
<1>11. Line!CompletedIsWhole'
    BY <1>1, <1>3 DEF Line!LineInv, Line!CompletedIsWhole
<1>12. QED
    BY <1>6, <1>7, <1>8, <1>9, <1>10, <1>11 DEF Line!LineInv

\* An item joins the stream while its drain runs.
LEMMA AppendKeepsStream ==
    ASSUME Line!LineInv, v4.at = "running",
           NEW k \in {"text", "item", "committed"}, NEW ev \in SUBSET Line!Event,
           \A e \in ev : e[1] = v4.drain, k = "committed" => ev = {},
           v1' = Append(v1, [kind |-> k, of |-> v4.drain, ev |-> ev]),
           v4'.drain = v4.drain, k = "committed" => v4'.at # "running",
           v7 \subseteq v7', ev \subseteq v7', v3' = v3
    PROVE  /\ v1' \in Seq(Line!Item) /\ Line!CommitIsLast'
           /\ \A i \in DOMAIN v1' : v1'[i].ev \subseteq v7'
           /\ v4.drain \in Line!Drain /\ v3.committed # v4.drain
           /\ \A e : Line!InStream(e) \/ e \in ev => Line!InStream(e)'
           /\ Line!Gap => Line!Gap'
<1> DEFINE new == [kind |-> k, of |-> v4.drain, ev |-> ev]
<1>1. v4.drain \in Line!Drain /\ v4.drain # 0 /\ v3.committed # v4.drain
    BY LineShapes DEF Line!LineInv, Line!LaneOwns, Line!CommitIsRead, Lanes
<1>2. new \in Line!Item
    BY <1>1 DEF Line!Item
<1>3. /\ new.kind = k /\ new.of = v4.drain /\ new.ev = ev
    OBVIOUS
<1> HIDE DEF new
<1>4. v1 \in Seq(Line!Item) /\ v1' = Append(v1, new)
    BY LineShapes DEF new
<1>5. /\ v1' \in Seq(Line!Item) /\ DOMAIN v1' = 1 .. Len(v1) + 1 /\ DOMAIN v1 = 1 .. Len(v1)
      /\ Len(v1) \in Nat
      /\ \A i \in DOMAIN v1 : v1'[i] = v1[i]
      /\ v1'[Len(v1) + 1] = new
    BY <1>2, <1>4
<1>6. \A i \in DOMAIN v1' : i \in DOMAIN v1 \/ i = Len(v1) + 1
    BY <1>5
<1>7. \A i \in DOMAIN v1 : v1[i].kind = "committed" => v1[i].of # v4.drain
    BY DEF Line!LineInv, Line!CommitIsLast
<1>8. Line!CommitIsLast'
    <2>1. ASSUME NEW i \in DOMAIN v1
          PROVE  /\ v1'[i].of <= v4.drain
                 /\ v1'[i].kind = "gap" <=> v1'[i].of = 0
                 /\ v1'[i].kind = "gap" => i = 1
                 /\ \A e \in v1'[i].ev : e[1] = v1'[i].of
                 /\ v1'[i].kind = "committed" =>
                      /\ v1'[i].ev = {} /\ v1'[i].of # v4.drain
                      /\ \A j \in DOMAIN v1' : j > i => v1'[j].of # v1'[i].of
        BY <1>3, <1>5, <1>6, <1>7 DEF Line!LineInv, Line!CommitIsLast
    <2>2. /\ new.of <= v4.drain /\ new.kind # "gap" /\ new.of # 0
          /\ \A e \in new.ev : e[1] = new.of
          /\ new.kind = "committed" => new.ev = {} /\ v4'.at # "running"
        BY <1>1, <1>3, LineShapes
    <2>3. \A j \in DOMAIN v1' : ~(j > Len(v1) + 1)
        BY <1>5
    <2>4. QED
        BY <1>5, <1>6, <2>1, <2>2, <2>3 DEF Line!CommitIsLast
<1>9. \A i \in DOMAIN v1' : v1'[i].ev \subseteq v7'
    BY <1>3, <1>5, <1>6 DEF Line!LineInv, Line!LaneOwns
<1>10. \A e : Line!InStream(e) \/ e \in ev => Line!InStream(e)'
    BY <1>3, <1>5 DEF Line!InStream
<1>11. Line!Gap => Line!Gap'
    BY <1>5 DEF Line!Gap
<1>12. QED
    BY <1>1, <1>5, <1>8, <1>9, <1>10, <1>11

LEMMA EmitKeepsInv ==
    ASSUME Line!LineInv, Line!Emit
    PROVE  Line!LineInv'
<1> DEFINE n == Line!Cardinality({e \in v7 : e[1] = v4.drain})
           new == <<v4.drain, n + 1>>
<1>1. PICK k \in {"text", "item"} :
         /\ v4.at = "running" /\ n < Events /\ v7' = v7 \cup {new}
         /\ v1' = Append(v1, [kind |-> k, of |-> v4.drain, ev |-> {new}])
         /\ UNCHANGED <<v2, v3, v4, v5, v6, v8, v9, v10>>
    BY DEF Line!Emit
<1>2. v4.drain \in Line!Drain
    BY <1>1, LineShapes DEF Line!LineInv, Line!LaneOwns, Lanes
<1>3. n \in Nat
    <2>1. IsFiniteSet(Line!Drain) /\ IsFiniteSet(1 .. Events)
        BY NumbersAssumption, FS_Interval DEF Line!Drain
    <2>2. IsFiniteSet(Line!Event)
        BY <2>1, FS_Product DEF Line!Event
    <2>3. {e \in v7 : e[1] = v4.drain} \subseteq Line!Event
        BY LineShapes
    <2>4. Cardinality({e \in v7 : e[1] = v4.drain}) \in Nat
        BY <2>2, <2>3, FS_Subset, FS_CardinalityType
    <2>5. QED
        BY <2>4 DEF Line!Cardinality, Cardinality
<1>4. n + 1 \in 1 .. Events
    BY <1>1, <1>3, NumbersAssumption
<1>5. new \in Line!Event /\ new[1] = v4.drain
    BY <1>2, <1>4 DEF Line!Event
<1> HIDE DEF n, new
<1>6. /\ v1' \in Seq(Line!Item) /\ Line!CommitIsLast'
      /\ \A i \in DOMAIN v1' : v1'[i].ev \subseteq v7'
      /\ v3.committed # v4.drain
      /\ \A e : Line!InStream(e) \/ e \in {new} => Line!InStream(e)'
      /\ Line!Gap => Line!Gap'
    BY <1>1, <1>5, AppendKeepsStream
<1>7. Line!TypeOK' /\ v2'.pending \subseteq v7'
    <2>1. v7' \subseteq Line!Event /\ v8' \subseteq v7' /\ v9' \subseteq v7' /\ v2'.pending \subseteq v7'
        BY <1>1, <1>5, LineShapes
    <2>2. \A i \in DOMAIN v1' : v1'[i] \in Line!Item
        BY <1>6
    <2>3. QED
        BY <1>1, <2>1, <2>2 DEF Line!LineInv, Line!TypeOK
<1>8. Line!CommitIsRead'
    BY <1>1, <1>6 DEF Line!LineInv, Line!CommitIsRead
<1>9. Line!LaneOwns'
    <2>1. \A e \in v7' : e[1] <= v4.drain
        BY <1>1, <1>5, LineShapes DEF Line!LineInv, Line!LaneOwns
    <2>2. QED
        BY <1>1, <1>6, <2>1 DEF Line!LineInv, Line!LaneOwns
<1>10. Line!OnItsWay'
    BY <1>1, <1>6 DEF Line!LineInv, Line!OnItsWay, Line!Sound
<1>11. Line!CompletedIsWhole'
    BY <1>1, <1>5 DEF Line!LineInv, Line!CompletedIsWhole, Line!LaneOwns
<1>12. QED
    BY <1>6, <1>7, <1>8, <1>9, <1>10, <1>11 DEF Line!LineInv

\* The pump lets go of the running drain: nothing of it comes after its commit.
LEMMA DrainEndsKeepsInv ==
    ASSUME Line!LineInv, Line!DrainRan \/ Line!DrainFails
    PROVE  Line!LineInv'
<1>1. /\ v4.at = "running" /\ UNCHANGED <<v2, v3, v5, v6, v7, v8, v9, v10>>
      /\ \/ /\ v4' = [v4 EXCEPT !.at = "waiting"]
            /\ v1' = Append(v1, [kind |-> "committed", of |-> v4.drain, ev |-> {}])
         \/ v4' = [v4 EXCEPT !.at = "settling"] /\ UNCHANGED v1
    BY DEF Line!DrainRan, Line!DrainFails
<1>2. /\ v4' \in Lanes /\ v4'.drain = v4.drain /\ v4'.owned = v4.owned
      /\ v4'.at \in {"waiting", "settling"}
    BY <1>1, LineShapes DEF Lanes
<1>3. /\ v1' \in Seq(Line!Item) /\ Line!CommitIsLast'
      /\ \A i \in DOMAIN v1' : v1'[i].ev \subseteq v7'
      /\ v3.committed # v4.drain
      /\ \A e : Line!InStream(e) => Line!InStream(e)'
      /\ Line!Gap => Line!Gap'
    <2>1. CASE v1' = Append(v1, [kind |-> "committed", of |-> v4.drain, ev |-> {}])
        <3>1. /\ v4.at = "running" /\ v4'.drain = v4.drain /\ v4'.at # "running"
              /\ v7 \subseteq v7' /\ v3' = v3
            BY <1>1, <1>2
        <3>2. /\ {} \in SUBSET Line!Event /\ {} \subseteq v7'
              /\ \A e \in {} : e[1] = v4.drain
            OBVIOUS
        <3>3. QED
            BY <2>1, <3>1, <3>2, AppendKeepsStream
    <2>2. CASE UNCHANGED v1
        <3>1. v3.committed # v4.drain
            BY <1>1, LineShapes DEF Line!LineInv, Line!LaneOwns, Line!CommitIsRead
        <3>2. QED
            BY <1>1, <1>2, <2>2, <3>1 DEF Line!LineInv, Line!CommitIsLast, Line!LaneOwns, Line!InStream, Line!Gap
    <2>3. QED
        BY <1>1, <2>1, <2>2
<1>4. Line!TypeOK' /\ v2'.pending \subseteq v7'
    <2>1. \A i \in DOMAIN v1' : v1'[i] \in Line!Item
        BY <1>3
    <2>2. QED
        BY <1>1, <1>2, <2>1 DEF Line!LineInv, Line!TypeOK, Lanes
<1>5. Line!CommitIsRead'
    BY <1>1, <1>2, <1>3 DEF Line!LineInv, Line!CommitIsRead
<1>6. Line!LaneOwns'
    BY <1>1, <1>2, <1>3 DEF Line!LineInv, Line!LaneOwns
<1>7. Line!OnItsWay'
    BY <1>1, <1>2, <1>3 DEF Line!LineInv, Line!OnItsWay, Line!Sound
<1>8. Line!CompletedIsWhole'
    BY <1>1 DEF Line!LineInv, Line!CompletedIsWhole
<1>9. QED
    BY <1>3, <1>4, <1>5, <1>6, <1>7, <1>8 DEF Line!LineInv

LEMMA FallBehindKeepsInv ==
    ASSUME Line!LineInv, Line!FallBehind
    PROVE  Line!LineInv'
<1>1. /\ v1' = <<[kind |-> "gap", of |-> 0, ev |-> {}]>>
      /\ UNCHANGED <<v2, v3, v4, v5, v6, v7, v8, v9, v10>>
    BY DEF Line!FallBehind
<1>2. /\ v1' \in Seq(Line!Item) /\ DOMAIN v1' = {1}
      /\ v1'[1].kind = "gap" /\ v1'[1].of = 0 /\ v1'[1].ev = {} /\ v1'[1] \in Line!Item
    BY <1>1 DEF Line!Item
<1>3. Line!TypeOK'
    BY <1>1, <1>2 DEF Line!LineInv, Line!TypeOK
<1>4. Line!CommitIsLast' /\ Line!CommitIsRead' /\ Line!LaneOwns'
    <2>1. 0 <= v4.drain
        BY LineShapes
    <2>2. QED
        BY <1>1, <1>2, <2>1 DEF Line!LineInv, Line!CommitIsLast, Line!CommitIsRead, Line!LaneOwns
<1>5. Line!OnItsWay'
    BY <1>1, <1>2 DEF Line!LineInv, Line!OnItsWay, Line!Sound, Line!Gap
<1>6. Line!CompletedIsWhole'
    BY <1>1 DEF Line!LineInv, Line!CompletedIsWhole
<1>7. QED
    BY <1>1, <1>2, <1>3, <1>4, <1>5, <1>6 DEF Line!LineInv

\* The pump lets go of its drain, or gives its turn up: no turn can end as
\* completed before the next drain.
LEMMA PumpKeepsRest ==
    ASSUME Line!LineInv, UNCHANGED <<v1, v2, v7, v8, v9>>,
           v4' \in Lanes, v4'.drain = v4.drain, v4'.at \in {"idle", "settling", "halted"},
           v4'.owned <=> v4'.at = "settling", v4.drain # 0,
           v3' \in Barriers, v3'.committed \in {0, v3.committed},
           v5' \in [Line!Drain -> TurnStates], v6' \subseteq Line!Drain, v10' \in 0 .. BadWrites,
           v4'.at # "idle" => v5'[v4.drain] # "completed",
           \A d \in Line!Drain : d > v4.drain => v5'[d] = v5[d],
           Line!CompletedIsWhole'
    PROVE  Line!LineInv'
<1>1. Line!TypeOK'
    <2>1. \A i \in DOMAIN v1' : v1'[i] \in Line!Item
        BY LineShapes
    <2>2. QED
        BY <2>1, LineShapes DEF Line!TypeOK, Lanes, Barriers, TurnStates, Ingests
<1>2. Line!CommitIsLast'
    BY DEF Line!LineInv, Line!CommitIsLast
<1>3. Line!CommitIsRead'
    BY LineShapes DEF Line!LineInv, Line!CommitIsRead
<1>4. Line!LaneOwns'
    BY DEF Line!LineInv, Line!LaneOwns
<1>5. Line!OnItsWay'
    BY DEF Line!OnItsWay, Line!Sound
<1>6. QED
    BY <1>1, <1>2, <1>3, <1>4, <1>5, LineShapes DEF Line!LineInv

LEMMA ClearedShape ==
    ASSUME Line!LineInv
    PROVE  Line!Cleared \in Barriers /\ Line!Cleared.committed \in {0, v3.committed}
BY LineShapes DEF Line!Cleared, Barriers

LEMMA PumpDrain ==
    ASSUME Line!LineInv, v4.at # "idle"
    PROVE  v4.drain \in Line!Drain /\ v4.drain # 0 /\ v5[v4.drain] # "completed"
BY LineShapes DEF Line!LineInv, Line!LaneOwns, Lanes

\* A turn completes on a commit that was read after all its events.
LEMMA CompleteKeepsInv ==
    ASSUME Line!LineInv, Line!Complete
    PROVE  Line!LineInv'
<1> DEFINE d == v4.drain
<1>1. PICK state \in {"completed", "failed"} :
         /\ d \in v6 => state = "failed"
         /\ v5' = [v5 EXCEPT ![d] = IF v5[d] = "running" THEN state ELSE v5[d]]
    BY DEF Line!Complete, Line!Ended
<1>2. /\ v4.at = "waiting" /\ v3.committed = d /\ d \notin v3.failures
      /\ v6' = v6 \ {d} /\ v4' = [v4 EXCEPT !.at = "idle", !.owned = FALSE]
      /\ v3' = Line!Cleared /\ UNCHANGED <<v1, v2, v7, v8, v9, v10>>
    BY DEF Line!Complete, Line!Committed
<1>3. d \in Line!Drain /\ d # 0 /\ v5[d] # "completed"
    BY <1>2, PumpDrain
<1>4. /\ v5' \in [Line!Drain -> TurnStates]
      /\ \A x \in Line!Drain \ {d} : v5'[x] = v5[x]
      /\ v5'[d] = "completed" => v5[d] = "running" /\ d \notin v6
    BY <1>1, <1>3, LineShapes DEF TurnStates
<1>5. Line!CompletedIsWhole'
    <2>1. ASSUME v5'[d] = "completed", NEW e \in v7 \ v9, e[1] = d PROVE e \in v8
        <3>1. Line!Sound(d)
            BY <1>2, <1>4, <2>1 DEF Line!Sound
        <3>2. QED
            BY <1>2, <1>3, <2>1, <3>1 DEF Line!LineInv, Line!OnItsWay
    <2>2. QED
        BY <1>2, <1>4, <2>1 DEF Line!LineInv, Line!CompletedIsWhole
<1>6. v4' \in Lanes /\ v4'.drain = d /\ v4'.at = "idle" /\ ~v4'.owned
    BY <1>2, LineShapes DEF Lanes
<1>7. \A x \in Line!Drain : x > v4.drain => v5'[x] = v5[x]
    <2>1. \A x \in Line!Drain : x > v4.drain => x # d
        BY LineShapes
    <2>2. QED
        BY <1>4, <2>1
<1>8. v6' \subseteq Line!Drain /\ v10' \in 0 .. BadWrites
    BY <1>2, LineShapes
<1>9. v3' \in Barriers /\ v3'.committed \in {0, v3.committed}
    BY <1>2, ClearedShape
<1> HIDE DEF d
<1>10. v4'.drain = v4.drain /\ v4.drain # 0
    BY <1>3, <1>6 DEF d
<1>11. QED
    BY <1>2, <1>4, <1>5, <1>6, <1>7, <1>8, <1>9, <1>10, PumpKeepsRest

\* A wait that fails breaks the turn; a completion that fails leaves it.
LEMMA WaitFailsKeepsInv ==
    ASSUME Line!LineInv, Line!WaitFails \/ Line!CompleteFails
    PROVE  Line!LineInv'
<1>1. /\ v4.at = "waiting" /\ v4' = [v4 EXCEPT !.at = "settling"]
      /\ UNCHANGED <<v1, v2, v3, v7, v8, v9>>
      /\ \/ Line!FailTurn(v4.drain) /\ UNCHANGED v10
         \/ UNCHANGED <<v5, v6>> /\ Line!Fault
    BY DEF Line!WaitFails, Line!CompleteFails
<1>2. v4.drain \in Line!Drain /\ v4.drain # 0 /\ v5[v4.drain] # "completed"
    BY <1>1, PumpDrain
<1>3. v10' \in 0 .. BadWrites
    BY <1>1, LineFaults, LineShapes
<1>4. /\ v5' \in [Line!Drain -> TurnStates] /\ v6' \subseteq Line!Drain
      /\ \A x \in Line!Drain : v5'[x] = v5[x] \/ (v5[x] = "running" /\ v5'[x] = "failed")
    BY <1>1, <1>2, FailTurnMarks, LineShapes
<1>5. Line!CompletedIsWhole'
    BY <1>1, <1>4 DEF Line!LineInv, Line!CompletedIsWhole
<1>6. v4' \in Lanes /\ v4'.drain = v4.drain /\ v4'.at = "settling" /\ v4'.owned
    BY <1>1, LineShapes DEF Lanes, Line!LineInv, Line!LaneOwns
<1>7. \A d \in Line!Drain : d > v4.drain => v5'[d] = v5[d]
    BY <1>4 DEF Line!LineInv, Line!LaneOwns
<1>8. v3' \in Barriers /\ v3'.committed = v3.committed
    BY <1>1, LineShapes
<1>9. v5'[v4.drain] # "completed"
    BY <1>2, <1>4
<1>10. QED
    BY <1>1, <1>2, <1>3, <1>4, <1>5, <1>6, <1>7, <1>8, <1>9, PumpKeepsRest

LEMMA SettleKeepsInv ==
    ASSUME Line!LineInv, Line!Settle
    PROVE  Line!LineInv'
<1>1. /\ v4.at = "settling" /\ v3' = Line!Cleared /\ UNCHANGED <<v1, v2, v7, v8, v9>>
      /\ \/ /\ v5' = [v5 EXCEPT ![v4.drain] = IF v5[v4.drain] = "running" THEN "failed"
                                               ELSE v5[v4.drain]]
            /\ v6' = v6 \ {v4.drain} /\ UNCHANGED v10
            /\ v4' = [v4 EXCEPT !.at = "idle", !.owned = FALSE]
         \/ /\ UNCHANGED <<v5, v6>> /\ Line!Fault
            /\ v4' = [v4 EXCEPT !.at = "halted", !.owned = FALSE]
    BY DEF Line!Settle, Line!Ended
<1>2. v4.drain \in Line!Drain /\ v4.drain # 0 /\ v5[v4.drain] # "completed"
    BY <1>1, PumpDrain
<1>3. v10' \in 0 .. BadWrites
    BY <1>1, LineFaults, LineShapes
<1>4. /\ v5' \in [Line!Drain -> TurnStates] /\ v6' \subseteq Line!Drain
      /\ \A x \in Line!Drain : v5'[x] = v5[x] \/ (v5[x] = "running" /\ v5'[x] = "failed")
    BY <1>1, <1>2, LineShapes DEF TurnStates
<1>5. Line!CompletedIsWhole'
    BY <1>1, <1>4 DEF Line!LineInv, Line!CompletedIsWhole
<1>6. v4' \in Lanes /\ v4'.drain = v4.drain /\ v4'.at \in {"idle", "halted"} /\ ~v4'.owned
    BY <1>1, LineShapes DEF Lanes
<1>7. \A d \in Line!Drain : d > v4.drain => v5'[d] = v5[d]
    BY <1>4 DEF Line!LineInv, Line!LaneOwns
<1>8. v3' \in Barriers /\ v3'.committed \in {0, v3.committed}
    BY <1>1, ClearedShape
<1>9. v5'[v4.drain] # "completed"
    BY <1>2, <1>4
<1>10. QED
    BY <1>1, <1>2, <1>3, <1>4, <1>5, <1>6, <1>7, <1>8, <1>9, PumpKeepsRest

LEMMA LineNextKeepsInv ==
    ASSUME Line!LineInv, Line!Next
    PROVE  Line!LineInv'
BY RunDrainKeepsInv, EmitKeepsInv, DrainEndsKeepsInv, FallBehindKeepsInv, BridgeKeepsInv,
   CompleteKeepsInv, WaitFailsKeepsInv, SettleKeepsInv DEF Line!Next, Line!Pump

LEMMA LineInitInv == Line!Init => Line!LineInv
<1> SUFFICES ASSUME Line!Init PROVE Line!LineInv
    OBVIOUS
<1>1. Line!TypeOK /\ v1 \in Seq(Line!Item) /\ v2.pending \subseteq v7
    BY NumbersAssumption DEF Line!Init, Line!TypeOK
<1>2. Line!CommitIsLast /\ Line!CommitIsRead /\ Line!LaneOwns /\ Line!OnItsWay
    BY DEF Line!Init, Line!CommitIsLast, Line!CommitIsRead, Line!LaneOwns, Line!OnItsWay,
           Line!Sound
<1>3. Line!CompletedIsWhole
    BY DEF Line!Init, Line!CompletedIsWhole
<1>4. QED
    BY <1>1, <1>2, <1>3 DEF Line!LineInv

-----------------------------------------------------------------------------
(* Theorems                                                                *)

\* Each part keeps the invariant of its module.
PartsInv ==
    /\ part = "fork" => Fork!WakeInv
    /\ part = "pairing" => Pair!PairInv
    /\ part = "push" => Push!GateInv
    /\ part = "timeline" => Line!LineInv
    /\ part = "sync" => SyncInv
    /\ part = "related" => Related!EditInv /\ Related!ListInv
    /\ part = "web" => Web!WebInv

LEMMA StutterKeepsInv ==
    ASSUME PartsInv, UNCHANGED vars
    PROVE  PartsInv'
<1>1. part = "fork" => Fork!WakeInv'
    BY DEF PartsInv, vars, Fork!WakeInv, Fork!TypeOK, Fork!TraceFirst, Fork!Handled,
       Fork!OneTurnPerMessage, Fork!GoneIsHandled
<1>2. part = "pairing" => Pair!PairInv'
    BY DEF PartsInv, vars, Pair!PairInv, Pair!TypeOK, Pair!TokensAreIssued, Pair!OneTokenPerCode
<1>3. part = "push" => Push!GateInv'
    BY DEF PartsInv, vars, Push!GateInv, Push!TypeOK, Push!OneSender, Push!NotDeliveredYet,
       Push!Delivered, Push!EpisodesAreCounted, Push!EpisodeDeliveredOnce, Push!Episode
<1>4. part = "timeline" => Line!LineInv'
    BY DEF PartsInv, vars, Line!LineInv, Line!TypeOK, Line!CommitIsLast, Line!CommitIsRead,
       Line!LaneOwns, Line!OnItsWay, Line!Sound, Line!InStream, Line!Gap, Line!CompletedIsWhole
<1>5. part = "sync" => SyncInv'
    <2>1. part = "sync" => Sync!SendInv'
        BY DEF PartsInv, vars, SyncInv, Sync!SendInv, Sync!SyncShapes, Sync!OneMessage,
           Sync!MeantFor, Sync!NothingSubmittedIsLost, Sync!Accepted, Sync!Queued, Sync!ToClient
    <2>2. part = "sync" => Sync!FlowInv'
        <3> SUFFICES ASSUME part = "sync" PROVE Sync!FlowInv'
            OBVIOUS
        <3>1. SyncInv /\ UNCHANGED <<v1, v2, v3, v4, v5, v6, v7, v8, v9, v10, v11, v12, v13, v14>>
            BY DEF PartsInv, vars
        <3>2. \/ v12'.opening = v12.opening
              \/ v12'.opening /\ v12'.framed
            BY <3>1
        <3>3. Sync!OpenIsUnderWay => Sync!OpenIsUnderWay'
            BY <3>1 DEF Sync!OpenIsUnderWay
        <3>4. QED
            BY <2>1, <3>1, <3>2, <3>3, WritingKeepsFlow
    <2>3. QED
        BY <2>1, <2>2 DEF SyncInv
<1>6. part = "related" => Related!EditInv' /\ Related!ListInv'
    <2>1. part = "related" => Related!EditInv'
        BY DEF PartsInv, vars, Related!EditInv, Related!EditShapes, Related!HitsHaveReceipts
    <2>2. part = "related" => Related!ListInv'
        BY DEF PartsInv, vars, Related!ListInv, Related!ListShapes, Related!TypeOK,
           Related!ListsAreBehind, Related!Behind, Related!ListComes, Related!OfNow,
           Related!HasSince, Related!ToPublish, Related!ToOpen
    <2>3. QED
        BY <2>1, <2>2
<1>7. part = "web" => Web!WebInv'
    BY DEF PartsInv, vars, Web!WebInv, Web!WebShapes, Web!TypeOK, Web!SendsAreMeant,
       Web!EchoesAreTrue, Web!HistoriesGrow, Web!WebKeepsFaith
<1>8. QED
    BY <1>1, <1>2, <1>3, <1>4, <1>5, <1>6, <1>7 DEF PartsInv, vars

LEMMA PartsInductive ==
    /\ Init => PartsInv
    /\ PartsInv /\ [Next]_vars => PartsInv'
<1>1. Init => PartsInv
    BY ForkInitInv, PairInitInv, PushInitInv, LineInitInv, SyncInitFlow, RelatedInitInv,
       RelatedListsInit, WebInitInv DEF Init, PartsInv
<1>2. ASSUME PartsInv, Next PROVE PartsInv'
    <2>1. CASE ForkStep
        BY <1>2, <2>1, ForkNextKeepsInv DEF ForkStep, PartsInv
    <2>2. CASE PairStep
        BY <1>2, <2>2, PairNextKeepsInv DEF PairStep, PartsInv
    <2>3. CASE PushStep
        BY <1>2, <2>3, PushNextKeepsInv DEF PushStep, PartsInv
    <2>4. CASE LineStep
        BY <1>2, <2>4, LineNextKeepsInv DEF LineStep, PartsInv
    <2>5. CASE SyncStep
        BY <1>2, <2>5, SyncNextKeepsFlow DEF SyncStep, PartsInv
    <2>6. CASE RelatedStep
        BY <1>2, <2>6, RelatedNextKeepsInv, RelatedListsKept DEF RelatedStep, PartsInv
    <2>7. CASE WebStep
        BY <1>2, <2>7, WebNextKeepsInv DEF WebStep, PartsInv
    <2>8. QED
        BY <1>2, <2>1, <2>2, <2>3, <2>4, <2>5, <2>6, <2>7 DEF Next
<1>3. QED
    BY <1>1, <1>2, StutterKeepsInv

\* A message given to a triage fork becomes one turn at most and is never given
\* up without a trace, for any messages, permits and faults: the exit call
\* writes before it takes the slot (tools.rs), and the dispatch that finds the
\* slot not taken queues the message itself (dispatch.rs).
THEOREM ForksLeaveATrace == Spec => []WakesAreHandled
<1>1. PartsInv => WakesAreHandled
    BY DEF PartsInv, WakesAreHandled, Fork!WakeInv
<1>2. QED
    BY PartsInductive, <1>1, PTL DEF Spec

\* A code issues one token, and no push of an episode of attention follows the
\* attempt that reached every device of its claim, for any codes, devices, drops,
\* restarts and retries: a code is burnt as it is redeemed (devices.rs), an
\* episode is claimed by one send at a time whose result is credited to its own
\* episode only (push.rs claim_delivery). Until an attempt has reached them all a
\* device may well be pushed the episode again.
THEOREM DevicesServedOnce == Spec => []DevicesAreServedOnce
<1>1. PartsInv => DevicesAreServedOnce
    BY DEF PartsInv, DevicesAreServedOnce, Pair!PairInv, Push!GateInv
<1>2. QED
    BY PartsInductive, <1>1, PTL DEF Spec

\* A completed Native turn shows all that its drain did and the ingest did not
\* refuse, for any number of drains, events and failed writes: the commit is the
\* last item of a drain, and what was lost on the way broke the turn or stands
\* before the commit as a gap (timeline.rs, bridges.rs).
THEOREM CompletedTurnsAreWhole == Spec => []CompletedIsWhole
<1>1. PartsInv => CompletedIsWhole
    BY DEF PartsInv, CompletedIsWhole, Line!LineInv
<1>2. QED
    BY PartsInductive, <1>1, PTL DEF Spec

\* What a client asks takes effect once, for any sends, edits, queue bound,
\* resets and lost connections: a send is looked up by its client id before it is
\* accepted (thread_commands.rs), an edit of the references and a creation by
\* their request's receipt, and none acts in another history.
THEOREM RequestsActOnlyOnce == Spec => []RequestsActOnce
<1>1. PartsInv => RequestsActOnce
    BY SendInvImplies, EditInvImpliesOnce DEF PartsInv, SyncInv, RequestsActOnce
<1>2. QED
    BY PartsInductive, <1>1, PTL DEF Spec

\* A submitted send stays in the client's outbox or drafts until the host has
\* accepted it: every message that ends a pending send is one the host accepted,
\* on the wire or in a snapshot, and a change of history keeps its text
\* (store.rs recovered_drafts).
THEOREM SubmittedSendsAreKept == Spec => []NothingSubmittedIsLost
<1>1. PartsInv => NothingSubmittedIsLost
    BY SendInvImplies DEF PartsInv, SyncInv, NothingSubmittedIsLost
<1>2. QED
    BY PartsInductive, <1>1, PTL DEF Spec

\* When nothing is under way any more a client shows what the host holds, for
\* any queue bound, histories, sends, edits and messages, unless the core's last
\* resync failed (it is then behind until its connection ends): a session resyncs
\* what its queue dropped, the duplicate filter drops only what the client has been
\* told, an opened Thread lacks no message that is not still carried, a list of
\* references taken while it was stale is asked for again; and the web client's
\* messages, timers and token say at every step what the host has (client.rs,
\* store.rs, hello_dedupe.rs, protocol.rs, related, ws/client.ts).
THEOREM ClientsShowTheHost == Spec => []ClientsAreCurrent
<1>1. PartsInv => ClientsAreCurrent
    BY FlowImpliesCurrent, ListInvImpliesCurrent DEF PartsInv, ClientsAreCurrent, Web!WebInv
<1>2. QED
    BY PartsInductive, <1>1, PTL DEF Spec

\* Every part keeps to its types and bounds, for any constants: the broadcast
\* queue to its capacity, what is shown to messages the host accepted.
THEOREM PartsAreTyped == Spec => []TypeOK
<1>1. PartsInv => TypeOK
    BY DEF PartsInv, TypeOK, SyncInv, Sync!FlowInv, Web!WebInv, Related!ListInv,
       Line!LineInv, Fork!WakeInv, Pair!PairInv, Push!GateInv
<1>2. QED
    BY PartsInductive, <1>1, PTL DEF Spec

=============================================================================
