--------------------------- MODULE MCClients_proofs ----------------------------
(***************************************************************************)
(* The clients among the parts of MCAnswers, for every value of their      *)
(* constants: the sends of the core client and what it is shown, the lists *)
(* of references, the web client. Each keeps the inductive invariant its   *)
(* module states: SendInv and FlowInv, EditInv and ListInv, WebInv. The    *)
(* theorems that follow are in MCAnswers_proofs. The variables are those   *)
(* of MCAnswers: vn is the nth variable of the part's module.              *)
(***************************************************************************)
EXTENDS MCAnswers, Sequences, FiniteSetTheorems, TLAPS

-----------------------------------------------------------------------------
(* Sequences                                                               *)

LEMMA TailOf ==
    ASSUME NEW S, NEW s \in Seq(S), s # <<>>
    PROVE  /\ Tail(s) \in Seq(S) /\ Head(s) \in S /\ Head(s) = s[1] /\ 1 \in DOMAIN s
           /\ \A i \in DOMAIN Tail(s) : i + 1 \in DOMAIN s /\ Tail(s)[i] = s[i + 1]
OBVIOUS

LEMMA AppendOf ==
    ASSUME NEW S, NEW s \in Seq(S), NEW e \in S
    PROVE  /\ Append(s, e) \in Seq(S)
           /\ \A i \in DOMAIN Append(s, e) :
                 (i \in DOMAIN s /\ Append(s, e)[i] = s[i]) \/ Append(s, e)[i] = e
OBVIOUS

LEMMA ConcatOf ==
    ASSUME NEW S, NEW s \in Seq(S), NEW t \in Seq(S)
    PROVE  /\ s \o t \in Seq(S)
           /\ \A i \in DOMAIN (s \o t) : (i \in DOMAIN s /\ (s \o t)[i] = s[i])
                                         \/ \E j \in DOMAIN t : (s \o t)[i] = t[j]
<1>1. s \o t \in Seq(S) /\ Len(s) \in Nat /\ Len(t) \in Nat /\ Len(s \o t) = Len(s) + Len(t)
    OBVIOUS
<1>2. ASSUME NEW i \in DOMAIN (s \o t)
      PROVE  (i \in DOMAIN s /\ (s \o t)[i] = s[i]) \/ \E j \in DOMAIN t : (s \o t)[i] = t[j]
    <2>1. i \in 1 .. Len(s) + Len(t)
        BY <1>1
    <2>2. CASE i <= Len(s)
        BY <1>1, <2>1, <2>2
    <2>3. CASE i > Len(s)
        <3>1. i - Len(s) \in DOMAIN t /\ (s \o t)[i] = t[i - Len(s)]
            BY <1>1, <2>1, <2>3
        <3>2. QED
            BY <3>1
    <2>4. QED
        BY <1>1, <2>1, <2>2, <2>3
<1>3. QED
    BY <1>1, <1>2

LEMMA PairOf ==
    ASSUME NEW S, NEW a \in S, NEW b \in S
    PROVE  <<a, b>> \in Seq(S) /\ <<a>> \in Seq(S)
OBVIOUS

LEMMA SuffixOf ==
    ASSUME NEW S, NEW s \in Seq(S), NEW n \in 0 .. Len(s)
    PROVE  SubSeq(s, n + 1, Len(s)) \in Seq(S)
<1>1. \A i \in 1 .. Len(s) : s[i] \in S
    OBVIOUS
<1>2. QED
    BY <1>1

LEMMA SeqGrows ==
    ASSUME NEW S, NEW T, S \subseteq T, NEW s \in Seq(S)
    PROVE  s \in Seq(T)
<1>1. Len(s) \in Nat /\ s \in [1 .. Len(s) -> T]
    OBVIOUS
<1>2. QED
    BY <1>1

LEMMA PlaceOf == \A S : \A s \in Seq(S) : \A i \in DOMAIN s : i \in Nat
OBVIOUS

\* A sequence grown at its end holds what it held and the new element.
LEMMA AppendKeeps ==
    ASSUME NEW S, NEW s \in Seq(S), NEW e \in S
    PROVE  /\ \A i \in DOMAIN s : i \in DOMAIN Append(s, e) /\ Append(s, e)[i] = s[i]
           /\ Len(s) + 1 \in DOMAIN Append(s, e) /\ Append(s, e)[Len(s) + 1] = e
OBVIOUS

\* What is not at the head of a sequence stays in its tail.
LEMMA TailKeeps ==
    ASSUME NEW S, NEW s \in Seq(S), s # <<>>
    PROVE  \A i \in DOMAIN s : i # 1 => i - 1 \in DOMAIN Tail(s) /\ Tail(s)[i - 1] = s[i]
OBVIOUS

LEMMA ConcatHas ==
    ASSUME NEW S, NEW s \in Seq(S), NEW T, NEW t \in Seq(T)
    PROVE  /\ s \o t \in Seq(S \cup T)
           /\ \A i \in DOMAIN s : i \in DOMAIN (s \o t) /\ (s \o t)[i] = s[i]
           /\ \A i \in DOMAIN t : \E j \in DOMAIN (s \o t) : (s \o t)[j] = t[i]
<1>1. \A i \in DOMAIN s : i \in DOMAIN (s \o t) /\ (s \o t)[i] = s[i]
    OBVIOUS
<1>2. \A i \in DOMAIN t : Len(s) + i \in DOMAIN (s \o t) /\ (s \o t)[Len(s) + i] = t[i]
    OBVIOUS
<1>3. s \in Seq(S \cup T) /\ t \in Seq(S \cup T)
    BY SeqGrows
<1>4. s \o t \in Seq(S \cup T)
    BY <1>3
<1>5. QED
    BY <1>1, <1>2, <1>4

LEMMA PairHas ==
    ASSUME NEW a, NEW b
    PROVE  /\ \A i \in DOMAIN <<a, b>> : <<a, b>>[i] \in {a, b}
           /\ \E i \in DOMAIN <<a, b>> : <<a, b>>[i] = a
           /\ \E i \in DOMAIN <<a, b>> : <<a, b>>[i] = b
OBVIOUS

-----------------------------------------------------------------------------
(* Sends (ClientSync)                                                      *)

LEMMA SyncCardinality == ASSUME NEW S PROVE Sync!Cardinality(S) = Cardinality(S)
BY DEF Sync!Cardinality, Cardinality

\* A finite set is a sequence in some order.
LEMMA SetToSeqOf ==
    ASSUME NEW S, IsFiniteSet(S)
    PROVE  Sync!SetToSeq(S) \in Seq(S)
<1>1. Cardinality(S) \in Nat /\ ExistsBijection(1 .. Cardinality(S), S)
    BY FS_CardinalityType
<1>2. \E f \in [1 .. Cardinality(S) -> S] : Sync!IsInjective(f)
    BY <1>1 DEF ExistsBijection, Bijection, Injection, IsInjective, Sync!IsInjective
<1>3. Sync!SetToSeq(S) \in [1 .. Cardinality(S) -> S]
    BY <1>2, SyncCardinality DEF Sync!SetToSeq
<1>4. QED
    BY <1>1, <1>3

ClientState == [online : BOOLEAN, hist : {0} \cup Sync!History, thr : Sync!Row,
                out : [Sends -> {"no", "pending", "error"}], sent : SUBSET Sends,
                drafts : SUBSET Sends, opened : BOOLEAN, opening : BOOLEAN,
                framed : BOOLEAN]
Served == [m : Sync!Accepted \ Sync!Other, live : BOOLEAN, read : BOOLEAN]

LEMMA SyncTypes ==
    ASSUME Sync!SendInv
    PROVE  /\ v1 \in {1, 2} /\ v2 \in Sync!Row /\ v4 \in [Sends -> Nat]
           /\ v15 \in [Sends -> {0, 1, 2}]
           /\ v3 \subseteq Sync!Accepted /\ v5 \subseteq Served
           /\ v7 \in Seq(Sync!ToHost) /\ v8 \in Seq(Sync!Queued) /\ v11 \in Seq(Sync!ToClient)
           /\ v12 \in ClientState
           /\ Sync!OneMessage /\ Sync!MeantFor /\ Sync!NothingSubmittedIsLost
BY DEF Sync!SendInv, Sync!SyncShapes, ClientState, Served, Sync!History

LEMMA SyncInitInv == Sync!Init => Sync!SendInv
<1> SUFFICES ASSUME Sync!Init PROVE Sync!SendInv
    OBVIOUS
<1> USE DEF Sync!Init
<1>1. /\ v7 \in Seq(Sync!ToHost) /\ v8 \in Seq(Sync!Queued) /\ v11 \in Seq(Sync!ToClient)
      /\ DOMAIN v7 = {}
    OBVIOUS
<1>2. v2 \in Sync!Row /\ v12 \in ClientState
    BY DEF Sync!NewThread, Sync!Row, Sync!NewClient, ClientState
<1>3. Sync!SyncShapes
    BY <1>1, <1>2 DEF Sync!SyncShapes, Sync!History, ClientState
<1>4. Sync!OneMessage /\ Sync!MeantFor /\ Sync!NothingSubmittedIsLost
    BY <1>1 DEF Sync!OneMessage, Sync!MeantFor, Sync!NothingSubmittedIsLost
<1>5. QED
    BY <1>3, <1>4 DEF Sync!SendInv

\* Steps that accept no send: what they leave on the wires and in the store.
LEMMA RestKeepsInv ==
    ASSUME Sync!SendInv, UNCHANGED <<v1, v4, v15>>, v3' \subseteq v3 \cup Sync!Other,
           v17' \in BOOLEAN, v2' \in Sync!Row, v5' \subseteq Served,
           v7' \in Seq(Sync!ToHost), Sync!MeantFor',
           v8' \in Seq(Sync!Queued), v11' \in Seq(Sync!ToClient), v12' \in ClientState,
           \A s \in Sends : v12.out[s] # "no" \/ s \in v12.drafts =>
               v12'.out[s] # "no" \/ s \in v12'.drafts \/ v4[s] > 0
    PROVE  Sync!SendInv'
<1>0. v1 \in {1, 2} /\ v4 \in [Sends -> Nat] /\ v15 \in [Sends -> {0, 1, 2}]
      /\ v3 \subseteq Sync!Accepted /\ Sync!OneMessage /\ Sync!NothingSubmittedIsLost
    BY SyncTypes
<1>1. Sync!Accepted' = Sync!Accepted /\ Sync!Other \subseteq Sync!Accepted
    BY DEF Sync!Accepted
<1>2. Sync!Queued' = Sync!Queued /\ Sync!ToClient' = Sync!ToClient
    BY <1>1 DEF Sync!Queued, Sync!ToClient
<1>3. Sync!SyncShapes'
    BY <1>0, <1>1, <1>2 DEF Sync!SyncShapes, ClientState, Served, Sync!History
<1>4. Sync!OneMessage'
    BY <1>0 DEF Sync!OneMessage
<1>5. Sync!NothingSubmittedIsLost'
    BY <1>0 DEF Sync!NothingSubmittedIsLost
<1>6. QED
    BY <1>3, <1>4, <1>5 DEF Sync!SendInv

LEMMA InboxRests ==
    ASSUME Sync!SendInv, v15' = v15, v7' = v7 \/ v7' = <<>> \/ (v7 # <<>> /\ v7' = Tail(v7))
    PROVE  v7' \in Seq(Sync!ToHost) /\ Sync!MeantFor'
<1>0. v7 \in Seq(Sync!ToHost) /\ Sync!MeantFor
    BY SyncTypes
<1>1. CASE v7' = v7
    BY <1>0, <1>1 DEF Sync!MeantFor
<1>2. CASE v7' = <<>>
    <2>1. v7' \in Seq(Sync!ToHost) /\ DOMAIN v7' = {}
        BY <1>2
    <2>2. QED
        BY <2>1 DEF Sync!MeantFor
<1>3. CASE v7 # <<>> /\ v7' = Tail(v7)
    <2>1. /\ v7' \in Seq(Sync!ToHost)
          /\ \A i \in DOMAIN v7' : i + 1 \in DOMAIN v7 /\ v7'[i] = v7[i + 1]
        BY <1>0, <1>3, TailOf
    <2>2. QED
        BY <1>0, <2>1 DEF Sync!MeantFor
<1>4. QED
    BY <1>1, <1>2, <1>3

\* The send at the head of the inbox.
LEMMA SendAtHead ==
    ASSUME Sync!SendInv, v7 # <<>>, Head(v7).kind = "send"
    PROVE  /\ Head(v7).s \in Sends /\ Head(v7).hist \in {0, v15[Head(v7).s]}
<1>1. v7 \in Seq(Sync!ToHost) /\ Sync!MeantFor
    BY SyncTypes
<1>2. Head(v7) \in Sync!ToHost /\ Head(v7) = v7[1] /\ 1 \in DOMAIN v7
    BY <1>1, TailOf
<1>3. Head(v7).s \in Sends
    BY <1>2 DEF Sync!ToHost
<1>4. QED
    BY <1>1, <1>2, <1>3 DEF Sync!MeantFor

LEMMA ReplyTyped ==
    ASSUME Sync!SendInv, NEW f \in Sync!ToClient, Sync!Reply(<<f>>)
    PROVE  v11' \in Seq(Sync!ToClient)
<1>1. v11 \in Seq(Sync!ToClient)
    BY SyncTypes
<1>2. <<f>> \in Seq(Sync!ToClient)
    BY PairOf
<1>3. QED
    BY <1>1, <1>2, ConcatOf DEF Sync!Reply

LEMMA FramesTyped ==
    ASSUME Sync!SendInv
    PROVE  /\ Sync!Hello \in Sync!ToClient
           /\ [kind |-> "upsert", thr |-> v2] \in Sync!ToClient
           /\ [kind |-> "opened", thr |-> v2, ms |-> v3] \in Sync!ToClient
           /\ \A s \in Sends \cup {"none"} : Sync!Refusal(s) \in Sync!ToClient
           /\ \A m \in Sync!Accepted : /\ Sync!Msg(m) \in Sync!ToClient /\ Sync!Msg(m) \in Sync!Queued
                                       /\ Sync!MsgRemoved(m) \in Sync!Queued
           /\ Sync!Upsert \in Sync!Queued
           /\ \A e \in Sync!Queued : e.kind # "upsert" => e \in Sync!ToClient
<1>0. v1 \in Sync!History /\ v2 \in Sync!Row /\ v3 \subseteq Sync!Accepted
    BY DEF Sync!SendInv, Sync!SyncShapes
<1>1. Sync!Hello \in Sync!ToClient
    BY <1>0 DEF Sync!Hello, Sync!ToClient
<1>2. /\ [kind |-> "upsert", thr |-> v2] \in Sync!ToClient
      /\ [kind |-> "opened", thr |-> v2, ms |-> v3] \in Sync!ToClient
    BY <1>0 DEF Sync!ToClient
<1>3. \A s \in Sends \cup {"none"} : Sync!Refusal(s) \in Sync!ToClient
    BY DEF Sync!Refusal, Sync!ToClient
<1>4. \A m \in Sync!Accepted : /\ Sync!Msg(m) \in Sync!ToClient /\ Sync!Msg(m) \in Sync!Queued
                               /\ Sync!MsgRemoved(m) \in Sync!Queued
    BY DEF Sync!Msg, Sync!MsgRemoved, Sync!ToClient, Sync!Queued
<1>5. Sync!Upsert \in Sync!Queued /\ \A e \in Sync!Queued : e.kind # "upsert" => e \in Sync!ToClient
    BY DEF Sync!Upsert, Sync!Queued, Sync!ToClient
<1>6. QED
    BY <1>1, <1>2, <1>3, <1>4, <1>5

LEMMA BroadcastTyped ==
    ASSUME Sync!SendInv, NEW evs \in Seq(Sync!Queued), Sync!Broadcast(evs)
    PROVE  v8' \in Seq(Sync!Queued)
<1>0. v8 \in Seq(Sync!Queued)
    BY SyncTypes
<1>1. CASE v6 = "down"
    BY <1>0, <1>1 DEF Sync!Broadcast
<1>2. CASE v6 # "down"
    <2> DEFINE all == v8 \o evs
               over == IF Len(all) > Backlog THEN Len(all) - Backlog ELSE 0
    <2>1. all \in Seq(Sync!Queued)
        BY <1>0, ConcatOf
    <2>2. v8' = SubSeq(all, over + 1, Len(all))
        BY <1>2 DEF Sync!Broadcast
    <2> HIDE DEF all
    <2>3. over \in 0 .. Len(all)
        <3>1. Len(all) \in Nat /\ Backlog \in Nat
            BY <2>1, SendsAssumption
        <3>2. QED
            BY <3>1
    <2> HIDE DEF over
    <2>4. QED
        BY <2>1, <2>2, <2>3, SuffixOf
<1>3. QED
    BY <1>1, <1>2

LEMMA SyncWorldKeepsInv ==
    ASSUME Sync!SendInv, Sync!World, v17' \in BOOLEAN
    PROVE  Sync!SendInv'
<1> USE DEF Sync!host, Sync!wire, Sync!store
<1>0. /\ v1 \in {1, 2} /\ v2 \in Sync!Row /\ v3 \subseteq Sync!Accepted /\ v5 \subseteq Served
      /\ v7 \in Seq(Sync!ToHost) /\ v8 \in Seq(Sync!Queued) /\ v11 \in Seq(Sync!ToClient)
      /\ v12 \in ClientState
    BY SyncTypes
<1>1. CASE Sync!ChangeThread
    <2>1. UNCHANGED <<v1, v3, v4, v5, v7, v11, v12, v15>> /\ Sync!Broadcast(<<Sync!Upsert>>)
        BY <1>1 DEF Sync!ChangeThread
    <2>2. v2' \in Sync!Row
        BY <1>0, <1>1 DEF Sync!ChangeThread, Sync!Row
    <2>3. v8' \in Seq(Sync!Queued)
        BY <2>1, FramesTyped, PairOf, BroadcastTyped
    <2>4. QED
        BY <1>0, <2>1, <2>2, <2>3, InboxRests, RestKeepsInv
<1>2. CASE Sync!PostOther
    <2>1. PICK m \in Sync!Other : v3' = v3 \cup {m}
                                  /\ Sync!Broadcast(<<Sync!Msg(m), Sync!Upsert>>)
        BY <1>2 DEF Sync!PostOther
    <2>2. UNCHANGED <<v1, v2, v4, v5, v7, v11, v12, v15>>
        BY <1>2 DEF Sync!PostOther
    <2>3. Sync!Msg(m) \in Sync!Queued /\ Sync!Upsert \in Sync!Queued
        BY FramesTyped DEF Sync!Accepted
    <2>4. v8' \in Seq(Sync!Queued)
        BY <2>1, <2>3, PairOf, BroadcastTyped
    <2>5. QED
        BY <1>0, <2>1, <2>2, <2>4, InboxRests, RestKeepsInv
<1>3. ASSUME NEW m \in v3, Sync!CancelQueued(m)
      PROVE  Sync!SendInv'
    <2>1. /\ m \in Sync!Accepted /\ v3' = v3 \ {m} /\ UNCHANGED <<v1, v2, v4, v5, v7, v11, v12, v15>>
          /\ Sync!Broadcast(<<Sync!MsgRemoved(m), Sync!Upsert>>)
        BY <1>0, <1>3 DEF Sync!CancelQueued
    <2>2. Sync!MsgRemoved(m) \in Sync!Queued /\ Sync!Upsert \in Sync!Queued
        BY <2>1, FramesTyped
    <2>3. v8' \in Seq(Sync!Queued)
        BY <2>1, <2>2, PairOf, BroadcastTyped
    <2>4. QED
        BY <1>0, <2>1, <2>3, InboxRests, RestKeepsInv
<1>4. CASE Sync!Reset
    <2>1. v1' = 2 /\ v2' = Sync!NewThread /\ v3' = {}
          /\ UNCHANGED <<v4, v5, v7, v8, v11, v12, v15>>
        BY <1>4 DEF Sync!Reset
    <2>2. v2' \in Sync!Row
        BY <2>1 DEF Sync!NewThread, Sync!Row
    <2>3. Sync!Queued' = Sync!Queued /\ Sync!ToClient' = Sync!ToClient /\ Sync!Accepted' = Sync!Accepted
        BY <2>1 DEF Sync!Queued, Sync!ToClient, Sync!Accepted
    <2>4. Sync!SyncShapes'
        BY <2>1, <2>2, <2>3 DEF Sync!SyncShapes, Sync!SendInv, Sync!History
    <2>5. Sync!OneMessage' /\ Sync!NothingSubmittedIsLost'
        BY <2>1 DEF Sync!OneMessage, Sync!NothingSubmittedIsLost, Sync!SendInv
    <2>6. QED
        BY <2>1, <2>4, <2>5, InboxRests DEF Sync!SendInv
<1>5. CASE Sync!Break
    <2>1. /\ v7' = <<>> /\ v8' = <<>> /\ v11' = <<>> /\ UNCHANGED <<v1, v2, v3, v4, v15>>
          /\ v5' = {[x EXCEPT !.live = FALSE] : x \in v5}
          /\ v12' = [v12 EXCEPT !.online = FALSE, !.sent = {}]
        BY <1>5 DEF Sync!Break
    <2>2. v5' \subseteq Served
        BY <1>0, <2>1 DEF Served
    <2>3. v12' \in ClientState /\ v12'.out = v12.out /\ v12'.drafts = v12.drafts
        BY <1>0, <2>1 DEF ClientState
    <2>4. v8' \in Seq(Sync!Queued) /\ v11' \in Seq(Sync!ToClient)
        BY <2>1
    <2>5. QED
        BY <1>0, <2>1, <2>2, <2>3, <2>4, InboxRests, RestKeepsInv
<1>6. QED
    BY <1>1, <1>2, <1>3, <1>4, <1>5 DEF Sync!World

LEMMA SessionKeepsInv ==
    ASSUME Sync!SendInv, v17' \in BOOLEAN,
           Sync!Subscribe \/ Sync!SendHello \/ Sync!Resync \/ Sync!ResyncFails \/ Sync!Forward
           \/ Sync!ServeOpen \/ Sync!RefuseSend \/ Sync!AnswerAgain
    PROVE  Sync!SendInv'
<1> USE DEF Sync!host, Sync!store
<1>0. /\ v2 \in Sync!Row /\ v3 \subseteq Sync!Accepted /\ v5 \subseteq Served
      /\ v8 \in Seq(Sync!Queued) /\ v11 \in Seq(Sync!ToClient)
      /\ v12 \in ClientState
    BY SyncTypes
<1>1. UNCHANGED <<v1, v2, v3, v4, v5, v12, v15>>
    BY DEF Sync!Subscribe, Sync!SendHello, Sync!Resync, Sync!ResyncFails, Sync!Forward,
           Sync!ServeOpen, Sync!RefuseSend, Sync!AnswerAgain
<1>2. v7' = v7 \/ (v7 # <<>> /\ v7' = Tail(v7))
    BY DEF Sync!Subscribe, Sync!SendHello, Sync!Resync, Sync!ResyncFails, Sync!Forward,
           Sync!ServeOpen, Sync!RefuseSend, Sync!AnswerAgain, Sync!Request
<1>3. v8' \in Seq(Sync!Queued)
    <2>1. v8' = v8 \/ (v8 # <<>> /\ v8' = Tail(v8))
        BY DEF Sync!Subscribe, Sync!SendHello, Sync!Resync, Sync!ResyncFails, Sync!Forward,
               Sync!ServeOpen, Sync!RefuseSend, Sync!AnswerAgain
    <2>2. QED
        BY <1>0, <2>1, TailOf
<1>4. v11' \in Seq(Sync!ToClient)
    <2>1. CASE Sync!Subscribe
        BY <1>0, <2>1 DEF Sync!Subscribe
    <2>2. CASE Sync!SendHello \/ Sync!Resync \/ Sync!ResyncFails
        BY <2>2, FramesTyped, ReplyTyped DEF Sync!SendHello, Sync!Resync, Sync!ResyncFails
    <2>3. CASE Sync!Forward
        <3>1. Head(v8) \in Sync!Queued
            BY <1>0, <2>3, TailOf DEF Sync!Forward
        <3>2. \/ v11' = v11
              \/ Head(v8).kind # "upsert" /\ Sync!Reply(<<Head(v8)>>)
              \/ Sync!Reply(<<[kind |-> "upsert", thr |-> v2]>>)
            BY <2>3 DEF Sync!Forward
        <3>3. QED
            BY <1>0, <3>1, <3>2, FramesTyped, ReplyTyped
    <2>4. CASE Sync!ServeOpen
        BY <2>4, FramesTyped, ReplyTyped DEF Sync!ServeOpen
    <2>5. CASE Sync!RefuseSend
        BY <2>5, FramesTyped, ReplyTyped, SendAtHead DEF Sync!RefuseSend, Sync!Request
    <2>6. CASE Sync!AnswerAgain
        <3>1. PICK m \in v3 : Sync!Reply(<<Sync!Msg(m)>>)
            BY <2>6 DEF Sync!AnswerAgain, Sync!KnownSend, Sync!Live
        <3>2. QED
            BY <1>0, <3>1, FramesTyped, ReplyTyped
    <2>7. QED
        BY <2>1, <2>2, <2>3, <2>4, <2>5, <2>6
<1>5. QED
    BY <1>0, <1>1, <1>2, <1>3, <1>4, InboxRests, RestKeepsInv

\* A send is accepted when the history has no message of its client id.
LEMMA AcceptKeepsInv ==
    ASSUME Sync!SendInv, Sync!AcceptSend, v17' \in BOOLEAN
    PROVE  Sync!SendInv'
<1>0. /\ v1 \in {1, 2} /\ v2 \in Sync!Row /\ v4 \in [Sends -> Nat]
      /\ v15 \in [Sends -> {0, 1, 2}]
      /\ v3 \subseteq Sync!Accepted /\ v5 \subseteq Served
      /\ v8 \in Seq(Sync!Queued) /\ v11 \in Seq(Sync!ToClient)
      /\ v12 \in ClientState
      /\ Sync!OneMessage /\ Sync!NothingSubmittedIsLost
    BY SyncTypes
<1>1. PICK s : s = Head(v7).s
    OBVIOUS
<1>2. /\ s \in Sends /\ v15[s] = v1
      /\ v4' = [v4 EXCEPT ![s] = @ + 1] /\ Sync!Live(s) = {}
      /\ v3' = v3 \cup {<<s, v4'[s]>>}
      /\ v5' = v5 \cup {[m |-> <<s, v4'[s]>>, live |-> TRUE, read |-> FALSE]}
      /\ v7 # <<>> /\ v7' = Tail(v7)
      /\ UNCHANGED <<v1, v2, v8, v11, v12, v15>>
    BY <1>0, <1>1, SendAtHead DEF Sync!AcceptSend, Sync!Request, Sync!KnownSend, Sync!store
<1>3. v4' \in [Sends -> Nat] /\ v4'[s] \in 1 .. v4'[s] /\ \A q \in Sends : v4[q] <= v4'[q]
    BY <1>0, <1>2
<1>4. Sync!Accepted \subseteq Sync!Accepted' /\ <<s, v4'[s]>> \in Sync!Accepted' /\ s # "other"
    BY <1>0, <1>2, <1>3, SendsAssumption DEF Sync!Accepted
<1>5. <<s, v4'[s]>> \notin Sync!Other
    BY <1>4 DEF Sync!Other
<1>6. v8' \in Seq(Sync!Queued')
    <2>1. Sync!Queued \subseteq Sync!Queued'
        BY <1>4 DEF Sync!Queued
    <2>2. QED
        BY <1>0, <1>2, <2>1, SeqGrows
<1>7. v11' \in Seq(Sync!ToClient')
    <2>1. Sync!ToClient \subseteq Sync!ToClient'
        BY <1>4 DEF Sync!ToClient
    <2>2. QED
        BY <1>0, <1>2, <2>1, SeqGrows
<1>8. v5' \subseteq [m : Sync!Accepted' \ Sync!Other, live : BOOLEAN, read : BOOLEAN]
    <2> DEFINE x == [m |-> <<s, v4'[s]>>, live |-> TRUE, read |-> FALSE]
               After == [m : Sync!Accepted' \ Sync!Other, live : BOOLEAN, read : BOOLEAN]
    <2>1. Served \subseteq After
        BY <1>4 DEF Served
    <2>2. x \in After
        BY <1>4, <1>5
    <2> HIDE DEF x, After
    <2>3. v5' = v5 \cup {x}
        BY <1>2 DEF x
    <2>4. v5' \subseteq After
        BY <1>0, <2>1, <2>2, <2>3
    <2>5. QED
        BY <2>4 DEF After
<1>9. v7' \in Seq(Sync!ToHost) /\ Sync!MeantFor'
    BY <1>2, InboxRests
<1>10. Sync!SyncShapes'
    BY <1>0, <1>2, <1>3, <1>4, <1>6, <1>7, <1>8, <1>9 DEF Sync!SyncShapes, ClientState, Sync!History
<1>11. Sync!OneMessage'
    <2>1. \A m \in v3 \ Sync!Other : m[1] # s
        BY <1>2 DEF Sync!Live
    <2>2. QED
        BY <1>0, <1>2, <2>1 DEF Sync!OneMessage
<1>12. Sync!NothingSubmittedIsLost'
    <2>1. \A q \in Sends : v4[q] > 0 => v4'[q] > 0
        BY <1>0, <1>3
    <2>2. QED
        BY <1>0, <1>2, <2>1 DEF Sync!NothingSubmittedIsLost
<1>13. QED
    BY <1>9, <1>10, <1>11, <1>12 DEF Sync!SendInv

LEMMA PublishKeepsSends ==
    ASSUME Sync!SendInv, v17' \in BOOLEAN, NEW x \in v5,
           Sync!ReadRequest(x) \/ Sync!Publish(x) \/ Sync!PublishRefused(x)
    PROVE  Sync!SendInv'
<1> USE DEF Sync!store
<1>0. /\ v2 \in Sync!Row /\ v3 \subseteq Sync!Accepted /\ v5 \subseteq Served
      /\ v8 \in Seq(Sync!Queued) /\ v11 \in Seq(Sync!ToClient)
      /\ v12 \in ClientState
    BY SyncTypes
<1>1. UNCHANGED <<v1, v2, v3, v4, v7, v12, v15>>
    BY DEF Sync!ReadRequest, Sync!Publish, Sync!PublishRefused, Sync!Publishes
<1>2. x \in Served /\ x.m \in Sync!Accepted /\ x.m[1] \in Sends
    BY <1>0 DEF Served, Sync!Accepted
<1>3. v5' \subseteq Served
    <2>1. [x EXCEPT !.read = TRUE] \in Served
        BY <1>2 DEF Served
    <2>2. v5' = v5 \ {x} \/ v5' = (v5 \ {x}) \cup {[x EXCEPT !.read = TRUE]}
        BY DEF Sync!ReadRequest, Sync!Publish, Sync!PublishRefused, Sync!Publishes
    <2>3. QED
        BY <1>0, <2>1, <2>2
<1>4. v8' \in Seq(Sync!Queued)
    <2>1. CASE Sync!ReadRequest(x)
        BY <1>0, <2>1 DEF Sync!ReadRequest
    <2>2. CASE Sync!Publishes(x)
        <3>1. Sync!Broadcast(<<Sync!Msg(x.m), Sync!Upsert>>)
            BY <2>2 DEF Sync!Publishes
        <3>2. Sync!Msg(x.m) \in Sync!Queued /\ Sync!Upsert \in Sync!Queued
            BY <1>2, FramesTyped
        <3>3. QED
            BY <3>1, <3>2, PairOf, BroadcastTyped
    <2>3. QED
        BY <2>1, <2>2 DEF Sync!Publish, Sync!PublishRefused
<1>5. v11' \in Seq(Sync!ToClient)
    <2>1. v11' = v11 \/ Sync!Reply(<<Sync!Refusal(x.m[1])>>)
        BY DEF Sync!ReadRequest, Sync!Publish, Sync!PublishRefused, Sync!Publishes
    <2>2. QED
        BY <1>0, <1>2, <2>1, FramesTyped, ReplyTyped
<1>6. QED
    BY <1>0, <1>1, <1>3, <1>4, <1>5, InboxRests, RestKeepsInv

LEMMA OwnerKeepsInv ==
    ASSUME Sync!SendInv, Sync!Owner, v17' \in BOOLEAN
    PROVE  Sync!SendInv'
<1> USE DEF Sync!host, Sync!wire
<1>0. /\ v1 \in {1, 2} /\ v2 \in Sync!Row /\ v3 \subseteq Sync!Accepted /\ v5 \subseteq Served
      /\ v15 \in [Sends -> {0, 1, 2}] /\ v7 \in Seq(Sync!ToHost)
      /\ v8 \in Seq(Sync!Queued) /\ v11 \in Seq(Sync!ToClient)
      /\ v12 \in ClientState /\ Sync!OneMessage /\ Sync!MeantFor /\ Sync!NothingSubmittedIsLost
    BY SyncTypes
<1>1. CASE Sync!OpenThread
    <2>1. UNCHANGED <<v1, v2, v3, v4, v5, v7, v8, v11, v15>>
          /\ v12' = [v12 EXCEPT !.opening = TRUE, !.framed = TRUE]
        BY <1>1 DEF Sync!OpenThread
    <2>2. v12' \in ClientState /\ v12'.out = v12.out /\ v12'.drafts = v12.drafts
        BY <1>0, <2>1 DEF ClientState
    <2>3. QED
        BY <1>0, <2>1, <2>2, InboxRests, RestKeepsInv
<1>2. ASSUME NEW s \in Sends, Sync!Retry(s)
      PROVE  Sync!SendInv'
    <2>1. UNCHANGED <<v1, v2, v3, v4, v5, v7, v8, v11, v15>>
          /\ v12' = [v12 EXCEPT !.out[s] = "pending", !.sent = @ \ {s}]
        BY <1>2 DEF Sync!Retry
    <2>2. v12' \in ClientState /\ v12'.out = [v12.out EXCEPT ![s] = "pending"]
          /\ v12'.drafts = v12.drafts
        BY <1>0, <2>1 DEF ClientState
    <2>3. \A q \in Sends : v12.out[q] # "no" => v12'.out[q] # "no"
        BY <1>0, <2>2 DEF ClientState
    <2>4. QED
        BY <1>0, <2>1, <2>2, <2>3, InboxRests, RestKeepsInv
<1>3. ASSUME NEW s \in Sends, Sync!Submit(s)
      PROVE  Sync!SendInv'
    <2>1. /\ UNCHANGED <<v1, v2, v3, v4, v5, v7, v8, v11>> /\ v15[s] = 0
          /\ v12' = [v12 EXCEPT !.out[s] = "pending"]
          /\ v15' = [v15 EXCEPT ![s] = v12.hist] /\ v12.hist \in {1, 2}
        BY <1>0, <1>3 DEF Sync!Submit, ClientState, Sync!History
    <2>2. v12' \in ClientState /\ v12'.out = [v12.out EXCEPT ![s] = "pending"]
          /\ v12'.drafts = v12.drafts
        BY <1>0, <2>1 DEF ClientState
    <2>3. v15' \in [Sends -> {0, 1, 2}] /\ \A q \in Sends \ {s} : v15'[q] = v15[q]
        BY <1>0, <2>1
    <2>4. Sync!Queued' = Sync!Queued /\ Sync!ToClient' = Sync!ToClient /\ Sync!Accepted' = Sync!Accepted
        BY <2>1 DEF Sync!Queued, Sync!ToClient, Sync!Accepted
    <2>5. Sync!SyncShapes'
        BY <2>1, <2>2, <2>3, <2>4 DEF Sync!SyncShapes, Sync!SendInv, ClientState, Sync!History
    <2>6. Sync!OneMessage'
        <3>1. \A m \in v3 \ Sync!Other : m[1] # s /\ m[1] \in Sends
            BY <1>0, <2>1 DEF Sync!OneMessage, Sync!Accepted
        <3>2. QED
            BY <1>0, <2>1, <2>3, <3>1 DEF Sync!OneMessage
    <2>7. Sync!MeantFor'
        <3>1. \A i \in DOMAIN v7 : v7[i] \in Sync!ToHost
            BY <1>0
        <3>2. \A i \in DOMAIN v7 : v7[i].kind = "send" => v7[i].s \in Sends
            BY <3>1 DEF Sync!ToHost
        <3>3. QED
            BY <1>0, <2>1, <2>3, <3>2 DEF Sync!MeantFor
    <2>8. Sync!NothingSubmittedIsLost'
        <3>1. ASSUME NEW q \in Sends, v15'[q] # 0
              PROVE  v12'.out[q] # "no" \/ q \in v12'.drafts \/ v4'[q] > 0
            <4>1. CASE q = s
                BY <1>0, <2>2, <4>1 DEF ClientState
            <4>2. CASE q # s
                BY <1>0, <2>1, <2>2, <2>3, <3>1, <4>2 DEF ClientState, Sync!NothingSubmittedIsLost
            <4>3. QED
                BY <4>1, <4>2
        <3>2. QED
            BY <3>1 DEF Sync!NothingSubmittedIsLost
    <2>9. QED
        BY <2>5, <2>6, <2>7, <2>8 DEF Sync!SendInv
<1>4. QED
    BY <1>1, <1>2, <1>3 DEF Sync!Owner

\* The frames of a flush carry the sends this connection has not carried.
LEMMA SendsOrdered ==
    ASSUME Sync!SendInv
    PROVE  LET frames == {[kind |-> "send", s |-> s, hist |-> v15[s]] : s \in Sync!Unsent} IN
           Sync!SetToSeq(frames) \in Seq(frames)
<1> DEFINE frames == {[kind |-> "send", s |-> s, hist |-> v15[s]] : s \in Sync!Unsent}
           f == [s \in Sync!Unsent |-> [kind |-> "send", s |-> s, hist |-> v15[s]]]
<1>1. f \in Surjection(Sync!Unsent, frames)
    BY DEF Surjection
<1>2. IsFiniteSet(Sync!Unsent)
    <2>1. Sync!Unsent \subseteq Sends
        BY DEF Sync!Unsent
    <2>2. QED
        BY <2>1, FS_Subset, SendsAssumption
<1> HIDE DEF f, frames
<1>3. IsFiniteSet(frames)
    BY <1>1, <1>2, FS_Surjection
<1>4. Sync!SetToSeq(frames) \in Seq(frames)
    BY <1>3, SetToSeqOf
<1>5. QED
    BY <1>4 DEF frames

LEMMA FlushKeepsSends ==
    ASSUME Sync!SendInv, Sync!Flush, v17' \in BOOLEAN
    PROVE  Sync!SendInv'
<1>0. /\ v2 \in Sync!Row /\ v3 \subseteq Sync!Accepted /\ v5 \subseteq Served
      /\ v15 \in [Sends -> {0, 1, 2}] /\ v7 \in Seq(Sync!ToHost)
      /\ v8 \in Seq(Sync!Queued) /\ v11 \in Seq(Sync!ToClient)
      /\ v12 \in ClientState /\ Sync!MeantFor
    BY SyncTypes
<1> DEFINE opens == IF v12.framed THEN <<[kind |-> "open"]>> ELSE <<>>
           frames == {[kind |-> "send", s |-> s, hist |-> v15[s]] : s \in Sync!Unsent}
           sends == Sync!SetToSeq(frames)
<1>1. /\ v7' = (v7 \o opens) \o sends
      /\ v12' = [v12 EXCEPT !.framed = FALSE, !.sent = @ \cup Sync!Unsent]
      /\ UNCHANGED <<v1, v2, v3, v4, v5, v8, v11, v15>>
    BY DEF Sync!Flush, Sync!host
<1>2. Sync!Unsent \subseteq Sends
    BY DEF Sync!Unsent
<1>3. v12' \in ClientState /\ v12'.out = v12.out /\ v12'.drafts = v12.drafts
    BY <1>0, <1>1, <1>2 DEF ClientState
<1>4. frames \subseteq Sync!ToHost
    BY <1>0, <1>2 DEF Sync!ToHost, Sync!History
<1>5. sends \in Seq(frames)
    BY SendsOrdered
<1>6. opens \in Seq(Sync!ToHost) /\ \A i \in DOMAIN opens : opens[i].kind = "open"
    <2>1. [kind |-> "open"] \in Sync!ToHost
        BY DEF Sync!ToHost
    <2>2. <<[kind |-> "open"]>> \in Seq(Sync!ToHost) /\ DOMAIN <<[kind |-> "open"]>> = {1}
          /\ <<[kind |-> "open"]>>[1].kind = "open"
        BY <2>1, PairOf
    <2>3. QED
        BY <2>2
<1>7. sends \in Seq(Sync!ToHost) /\ \A i \in DOMAIN sends : sends[i] \in frames
    <2> HIDE DEF frames, sends
    <2>1. QED
        BY <1>4, <1>5, SeqGrows
<1>8. v7' \in Seq(Sync!ToHost) /\ Sync!MeantFor'
    <2>1. \A e \in frames : e.hist = v15[e.s]
        OBVIOUS
    <2> HIDE DEF frames, sends, opens
    <2>2. /\ v7 \o opens \in Seq(Sync!ToHost)
          /\ \A i \in DOMAIN (v7 \o opens) : (i \in DOMAIN v7 /\ (v7 \o opens)[i] = v7[i])
                                             \/ \E j \in DOMAIN opens : (v7 \o opens)[i] = opens[j]
        BY <1>0, <1>6, ConcatOf
    <2>3. /\ v7' \in Seq(Sync!ToHost)
          /\ \A i \in DOMAIN v7' : (i \in DOMAIN (v7 \o opens) /\ v7'[i] = (v7 \o opens)[i])
                                   \/ \E j \in DOMAIN sends : v7'[i] = sends[j]
        BY <1>1, <1>7, <2>2, ConcatOf
    <2>4. ASSUME NEW i \in DOMAIN v7', v7'[i].kind = "send"
          PROVE  v7'[i].hist \in {0, v15[v7'[i].s]}
        <3>1. CASE \E j \in DOMAIN v7 : v7'[i] = v7[j]
            BY <1>0, <2>4, <3>1 DEF Sync!MeantFor
        <3>2. CASE \E j \in DOMAIN opens : v7'[i] = opens[j]
            BY <1>6, <2>4, <3>2
        <3>3. CASE \E j \in DOMAIN sends : v7'[i] = sends[j]
            BY <1>7, <2>1, <3>3
        <3>4. QED
            BY <2>2, <2>3, <3>1, <3>2, <3>3
    <2>5. QED
        BY <1>1, <2>3, <2>4 DEF Sync!MeantFor
<1>9. QED
    BY <1>0, <1>1, <1>3, <1>8, RestKeepsInv

\* A message that reaches the client ends only sends the host has accepted.
LEMMA ConfirmKeeps ==
    ASSUME Sync!SendInv, NEW ms \in SUBSET Sync!Accepted, NEW c, c = Sync!Confirm(v12, ms)
    PROVE  /\ c \in ClientState /\ c.drafts = v12.drafts
           /\ \A s \in Sends : v12.out[s] # "no" => c.out[s] # "no" \/ v4[s] > 0
<1>0. v12 \in ClientState /\ v4 \in [Sends -> Nat]
    BY SyncTypes
<1> DEFINE out == [s \in Sends |-> IF v12.out[s] = "pending" /\ \E m \in ms : m[1] = s
                                   THEN "no" ELSE v12.out[s]]
<1>1. c = [v12 EXCEPT !.out = out]
    BY DEF Sync!Confirm
<1>2. out \in [Sends -> {"no", "pending", "error"}]
    BY <1>0 DEF ClientState
<1>3. \A s \in Sends : v12.out[s] # "no" /\ out[s] = "no" => v4[s] > 0
    <2>1. ASSUME NEW s \in Sends, NEW m \in ms, m[1] = s
          PROVE  v4[s] > 0
        <3>1. m \notin Sync!Other
            BY <2>1, SendsAssumption DEF Sync!Other
        <3>2. m \in Sends \X Nat /\ m[2] \in 1 .. v4[s]
            BY <2>1, <3>1 DEF Sync!Accepted
        <3>3. QED
            BY <1>0, <3>2
    <2>2. QED
        BY <2>1
<1> HIDE DEF out
<1>4. c \in ClientState /\ c.out = out /\ c.drafts = v12.drafts
    BY <1>0, <1>1, <1>2 DEF ClientState
<1>5. QED
    BY <1>3, <1>4

\* What the client receives is what the host sent of accepted messages.
LEMMA ReceiveKeepsInv ==
    ASSUME Sync!SendInv, v17' \in BOOLEAN,
           Sync!ReceiveHello \/ Sync!ReceiveMsg \/ Sync!ReceiveRemoved \/ Sync!ReceiveUpsert
           \/ Sync!ReceiveOpened \/ Sync!ReceiveError
    PROVE  Sync!SendInv'
<1>0. /\ v2 \in Sync!Row /\ v3 \subseteq Sync!Accepted /\ v5 \subseteq Served
      /\ v8 \in Seq(Sync!Queued) /\ v11 \in Seq(Sync!ToClient)
      /\ v12 \in ClientState
    BY SyncTypes
<1>1. UNCHANGED <<v1, v2, v3, v4, v5, v7, v8, v15>> /\ v11 # <<>> /\ v11' = Tail(v11)
    BY DEF Sync!ReceiveHello, Sync!ReceiveMsg, Sync!ReceiveRemoved, Sync!ReceiveUpsert,
           Sync!ReceiveOpened, Sync!ReceiveError, Sync!Receive, Sync!host
<1>2. PICK f : f = Head(v11)
    OBVIOUS
<1>3. f \in Sync!ToClient /\ v11' \in Seq(Sync!ToClient)
    BY <1>0, <1>1, <1>2, TailOf
<1>4. /\ v12' \in ClientState
      /\ \A s \in Sends : v12.out[s] # "no" \/ s \in v12.drafts =>
            v12'.out[s] # "no" \/ s \in v12'.drafts \/ v4[s] > 0
    <2>1. CASE Sync!ReceiveHello
        <3> DEFINE c == Sync!NewStore(v12, f.hist)
        <3>1. f.hist \in {1, 2} /\ f.thr \in Sync!Row
            BY <1>2, <1>3, <2>1 DEF Sync!ReceiveHello, Sync!Receive, Sync!ToClient, Sync!History
        <3>2. v12' = [c EXCEPT !.online = TRUE, !.hist = f.hist, !.thr = f.thr,
                               !.sent = {}, !.opening = Sync!Reopen(c),
                               !.framed = Sync!Reopen(c)]
            BY <1>2, <2>1 DEF Sync!ReceiveHello, Sync!SentAfterHello
        <3>3. /\ c \in ClientState
              /\ \A s \in Sends : v12.out[s] # "no" \/ s \in v12.drafts =>
                    c.out[s] # "no" \/ s \in c.drafts
            <4>1. CASE c = v12
                BY <1>0, <4>1
            <4>2. CASE c = [Sync!NewClient EXCEPT !.drafts = Sync!Drafts(v12)]
                <5>1. Sync!NewClient \in ClientState
                    BY DEF Sync!NewClient, ClientState, Sync!NewThread, Sync!Row
                <5>2. Sync!Drafts(v12) \subseteq Sends
                      /\ \A s \in Sends : v12.out[s] # "no" \/ s \in v12.drafts
                                          => s \in Sync!Drafts(v12)
                    BY <1>0 DEF Sync!Drafts, ClientState
                <5>3. c \in ClientState /\ c.drafts = Sync!Drafts(v12)
                    BY <4>2, <5>1, <5>2 DEF ClientState
                <5>4. QED
                    BY <5>2, <5>3
            <4>3. QED
                BY <4>1, <4>2 DEF Sync!NewStore
        <3> HIDE DEF c
        <3>4. Sync!Reopen(c) \in BOOLEAN
            BY <3>3 DEF Sync!Reopen, ClientState
        <3>5. v12' \in ClientState /\ v12'.out = c.out /\ v12'.drafts = c.drafts
            BY <3>1, <3>2, <3>3, <3>4 DEF ClientState, Sync!History
        <3>6. QED
            BY <3>3, <3>5
    <2>2. CASE Sync!ReceiveMsg
        <3>1. f.m \in Sync!Accepted /\ v12' = Sync!Confirm(v12, {f.m})
            BY <1>2, <1>3, <2>2 DEF Sync!ReceiveMsg, Sync!Receive, Sync!ToClient
        <3>2. {f.m} \in SUBSET Sync!Accepted
            BY <3>1
        <3>3. QED
            BY <3>1, <3>2, ConfirmKeeps
    <2>3. CASE Sync!ReceiveRemoved
        BY <1>0, <2>3 DEF Sync!ReceiveRemoved
    <2>4. CASE Sync!ReceiveUpsert
        <3>1. f.thr \in Sync!Row /\ v12' = [v12 EXCEPT !.thr = Sync!Newer(@, f.thr)]
            BY <1>2, <1>3, <2>4 DEF Sync!ReceiveUpsert, Sync!Receive, Sync!ToClient
        <3>2. Sync!Newer(v12.thr, f.thr) \in Sync!Row
            BY <1>0, <3>1 DEF Sync!Newer, ClientState
        <3>3. v12' \in ClientState /\ v12'.out = v12.out /\ v12'.drafts = v12.drafts
            BY <1>0, <3>1, <3>2 DEF ClientState
        <3>4. QED
            BY <3>3
    <2>5. CASE Sync!ReceiveOpened /\ ~v12.opening
        BY <1>0, <2>5 DEF Sync!ReceiveOpened
    <2>6. CASE Sync!ReceiveOpened /\ v12.opening
        <3> DEFINE c == Sync!Confirm(v12, f.ms)
        <3>1. /\ f.ms \in SUBSET Sync!Accepted /\ f.thr \in Sync!Row
              /\ v12' = [c EXCEPT !.opening = FALSE, !.opened = TRUE,
                                  !.thr = Sync!Newer(@, f.thr)]
            BY <1>2, <1>3, <2>6 DEF Sync!ReceiveOpened, Sync!Receive, Sync!ToClient
        <3>2. /\ c \in ClientState /\ c.drafts = v12.drafts
              /\ \A s \in Sends : v12.out[s] # "no" => c.out[s] # "no" \/ v4[s] > 0
            BY <3>1, ConfirmKeeps
        <3> HIDE DEF c
        <3>3. Sync!Newer(c.thr, f.thr) \in Sync!Row
            BY <3>1, <3>2 DEF Sync!Newer, ClientState
        <3>4. v12' \in ClientState /\ v12'.out = c.out /\ v12'.drafts = c.drafts
            BY <3>1, <3>2, <3>3 DEF ClientState
        <3>5. QED
            BY <3>2, <3>4
    <2>7. CASE Sync!ReceiveError
        <3> DEFINE out == [s \in Sends |-> IF s = f.s /\ v12.out[s] = "pending"
                                            THEN "error" ELSE v12.out[s]]
        <3>1. v12' = [v12 EXCEPT !.out = out]
            BY <1>0, <1>2, <2>7 DEF Sync!ReceiveError, ClientState
        <3>2. out \in [Sends -> {"no", "pending", "error"}]
              /\ \A s \in Sends : v12.out[s] # "no" => out[s] # "no"
            BY <1>0 DEF ClientState
        <3> HIDE DEF out
        <3>3. v12' \in ClientState /\ v12'.out = out /\ v12'.drafts = v12.drafts
            BY <1>0, <3>1, <3>2 DEF ClientState
        <3>4. QED
            BY <3>2, <3>3
    <2>8. QED
        BY <2>1, <2>2, <2>3, <2>4, <2>5, <2>6, <2>7
<1>5. QED
    BY <1>0, <1>1, <1>3, <1>4, InboxRests, RestKeepsInv

\* The receiver is behind or it is not.
LEMMA LaggedTyped ==
    ASSUME Sync!SendInv, Sync!Next
    PROVE  v17' \in BOOLEAN
<1>1. v17 \in BOOLEAN
    BY DEF Sync!SendInv, Sync!SyncShapes
<1>2. v17' \in BOOLEAN \/ \E evs : Sync!Broadcast(evs)
    BY <1>1 DEF Sync!Next, Sync!World, Sync!Hosts, Sync!Owner, Sync!Clients, Sync!host, Sync!wire,
       Sync!ChangeThread, Sync!PostOther, Sync!CancelQueued, Sync!Reset, Sync!Break,
       Sync!Subscribe, Sync!SendHello, Sync!Resync, Sync!ResyncFails, Sync!Forward,
       Sync!ServeOpen, Sync!RefuseSend, Sync!AnswerAgain, Sync!AcceptSend, Sync!ReadRequest,
       Sync!Publish, Sync!PublishRefused, Sync!Publishes, Sync!OpenThread, Sync!Submit,
       Sync!Retry, Sync!Flush, Sync!ReceiveHello, Sync!ReceiveMsg, Sync!ReceiveRemoved,
       Sync!ReceiveUpsert, Sync!ReceiveOpened, Sync!ReceiveError
<1>3. QED
    BY <1>1, <1>2 DEF Sync!Broadcast

LEMMA SyncNextKeepsInv == Sync!SendInv /\ Sync!Next => Sync!SendInv'
<1> SUFFICES ASSUME Sync!SendInv, Sync!Next PROVE Sync!SendInv'
    OBVIOUS
<1>0. v17' \in BOOLEAN
    BY LaggedTyped
<1>1. CASE Sync!World
    BY <1>0, <1>1, SyncWorldKeepsInv
<1>2. CASE Sync!Hosts
    BY <1>0, <1>2, SessionKeepsInv, AcceptKeepsInv, PublishKeepsSends DEF Sync!Hosts
<1>3. CASE Sync!Owner
    BY <1>0, <1>3, OwnerKeepsInv
<1>4. CASE Sync!Clients
    BY <1>0, <1>4, FlushKeepsSends, ReceiveKeepsInv DEF Sync!Clients
<1>5. CASE Sync!ResyncFails
    BY <1>0, <1>5, SessionKeepsInv
<1>6. CASE \E x \in v5 : Sync!PublishRefused(x)
    BY <1>0, <1>6, PublishKeepsSends
<1>7. QED
    BY <1>1, <1>2, <1>3, <1>4, <1>5, <1>6 DEF Sync!Next

LEMMA SendInvImplies == Sync!SendInv => Sync!OneCopy /\ Sync!NothingSubmittedIsLost
<1> SUFFICES ASSUME Sync!SendInv PROVE Sync!OneCopy
    BY DEF Sync!SendInv
<1>1. Sync!OneMessage
    BY SyncTypes
<1>2. ASSUME NEW s \in Sends
      PROVE  Sync!Cardinality(Sync!Live(s)) <= 1
    <2>1. \A m \in Sync!Live(s) : m \in v3 \ Sync!Other /\ m[1] = s
        BY SendsAssumption DEF Sync!Live, Sync!Other
    <2>2. \A m, n \in Sync!Live(s) : m = n
        BY <1>1, <2>1 DEF Sync!OneMessage
    <2>3. CASE Sync!Live(s) = {}
        BY <2>3, FS_EmptySet, SyncCardinality
    <2>4. CASE Sync!Live(s) # {}
        <3>1. PICK m : Sync!Live(s) = {m}
            BY <2>2, <2>4
        <3>2. QED
            BY <3>1, FS_Singleton, SyncCardinality
    <2>5. QED
        BY <2>3, <2>4
<1>3. QED
    BY <1>1, <1>2 DEF Sync!OneCopy, Sync!OneMessage

-----------------------------------------------------------------------------
(* What the core client is shown (ClientSync)                              *)

SyncInv == Sync!SendInv /\ Sync!FlowInv

\* The frames on their way to the client.
LEMMA FramesAre ==
    ASSUME Sync!SendInv
    PROVE  \A i \in DOMAIN v11 :
              /\ i \in Nat /\ v11[i] \in Sync!ToClient
              /\ v11[i].kind = "hello" => v11[i].hist \in {1, 2}
              /\ Sync!HasThread(v11[i]) => v11[i].thr \in Sync!Row /\ v11[i].thr.rev \in Nat
<1>1. v11 \in Seq(Sync!ToClient)
    BY SyncTypes
<1>2. \A i \in DOMAIN v11 : i \in Nat /\ v11[i] \in Sync!ToClient
    BY <1>1
<1>3. ASSUME NEW f \in Sync!ToClient
      PROVE  /\ f.kind = "hello" => f.hist \in {1, 2}
             /\ Sync!HasThread(f) => f.thr \in Sync!Row
    BY DEF Sync!ToClient, Sync!HasThread, Sync!History
<1>4. \A r \in Sync!Row : r.rev \in Nat
    BY DEF Sync!Row
<1>5. QED
    BY <1>2, <1>3, <1>4

LEMMA FlowTypes ==
    ASSUME SyncInv
    PROVE  /\ v1 \in {1, 2} /\ v2 \in Sync!Row /\ v2.rev \in Nat
           /\ v12 \in ClientState /\ v12.hist \in {0, 1, 2} /\ v12.thr \in Sync!Row /\ v12.thr.rev \in Nat
           /\ v9 \in BOOLEAN /\ v6 \in {"down", "subscribed", "online"} /\ v10 \subseteq Sync!Row
           /\ v13 \subseteq Sync!Accepted /\ v14 \subseteq Sync!Accepted /\ Len(v8) <= Backlog
<1>1. v1 \in {1, 2} /\ v2 \in Sync!Row /\ v12 \in ClientState
    BY SyncTypes DEF SyncInv
<1>2. v12.hist \in {0, 1, 2} /\ v12.thr \in Sync!Row
    BY <1>1 DEF ClientState, Sync!History
<1>3. v2.rev \in Nat /\ v12.thr.rev \in Nat
    BY <1>1, <1>2 DEF Sync!Row
<1>4. QED
    BY <1>1, <1>2, <1>3 DEF SyncInv, Sync!FlowInv, Sync!TypeOK

\* The next state's types, once the shapes of SendInv are known.
LEMMA SyncTyped ==
    ASSUME Sync!SendInv', v6' \in {"down", "subscribed", "online"}, Len(v8') <= Backlog,
           v9' \in BOOLEAN, v10' \subseteq Sync!Row, v13' \subseteq Sync!Accepted',
           v14' \subseteq Sync!Accepted'
    PROVE  Sync!TypeOK'
BY DEF Sync!SendInv, Sync!SyncShapes, Sync!TypeOK

\* The host adds the frames of F, one at most, behind those on their way.
Grows(F) ==
    /\ \A i \in DOMAIN v11 : i \in DOMAIN v11' /\ v11'[i] = v11[i]
    /\ \A i \in DOMAIN v11' \ DOMAIN v11 :
          /\ v11'[i] \in F /\ 0 < i
          /\ \A j \in DOMAIN v11' : ~(i < j) /\ (j = i \/ j \in DOMAIN v11)
          /\ \A j \in DOMAIN v11 : ~(i <= j) /\ j < i
    /\ \A f \in F : \E i \in DOMAIN v11' \ DOMAIN v11 : v11'[i] = f

LEMMA NothingGrows == ASSUME v11' = v11 PROVE Grows({})
BY DEF Grows

LEMMA ReplyGrows ==
    ASSUME Sync!SendInv, NEW f \in Sync!ToClient, Sync!Reply(<<f>>)
    PROVE  Grows({f})
<1>1. v11 \in Seq(Sync!ToClient)
    BY SyncTypes
<1>2. v11' = Append(v11, f)
    BY <1>1 DEF Sync!Reply
<1>3. /\ Len(v11) \in Nat /\ DOMAIN v11 = 1 .. Len(v11) /\ DOMAIN v11' = 1 .. Len(v11) + 1
      /\ v11'[Len(v11) + 1] = f /\ \A i \in 1 .. Len(v11) : v11'[i] = v11[i]
    BY <1>1, <1>2
<1>4. QED
    BY <1>3 DEF Grows

\* What follows where the host adds frames and the client's Thread stays.
LEMMA HistoriesExtend ==
    ASSUME SyncInv, NEW F, Grows(F), v1' = v1, v12'.hist = v12.hist,
           \A f \in F : f.kind = "hello" => f.hist = v1
    PROVE  Sync!HistoriesGrow'
<1>1. Sync!HistoriesGrow /\ v1 \in {1, 2} /\ v12.hist \in {0, 1, 2}
    BY FlowTypes DEF SyncInv, Sync!FlowInv
<1>2. ASSUME NEW i \in DOMAIN v11', v11'[i].kind = "hello"
      PROVE  /\ v12'.hist <= v11'[i].hist /\ v11'[i].hist <= v1'
             /\ \A j \in DOMAIN v11' : i <= j /\ v11'[j].kind = "hello" => v11'[i].hist <= v11'[j].hist
    <2>1. CASE i \in DOMAIN v11
        BY <1>1, <1>2, <2>1 DEF Sync!HistoriesGrow, Grows
    <2>2. CASE i \notin DOMAIN v11
        <3>1. v11'[i].hist = v1
            BY <1>2, <2>2 DEF Grows
        <3>2. \A j \in DOMAIN v11' : i <= j => v11'[j] \in F
            BY <2>2 DEF Grows
        <3>3. QED
            BY <1>1, <1>2, <3>1, <3>2 DEF Sync!HistoriesGrow
    <2>3. QED
        BY <2>1, <2>2
<1>3. QED
    BY <1>1, <1>2 DEF Sync!HistoriesGrow

\* A frame that was there is fresh if it was; a hello is the only news of a history.
LEMMA FreshExtends ==
    ASSUME NEW F, Grows(F), v1' = v1, v12'.hist = v12.hist
    PROVE  /\ \A i \in DOMAIN v11 : Sync!Fresh(i)' => Sync!Fresh(i)
           /\ Sync!Told' => Sync!Told \/ \E f \in F : Sync!Current(f)
BY DEF Grows, Sync!Fresh, Sync!Told, Sync!Current

LEMMA RevisionsExtend ==
    ASSUME SyncInv, NEW F, Grows(F), v1' = v1, v12'.hist = v12.hist, v12'.thr = v12.thr,
           v2' \in Sync!Row, v2.rev <= v2'.rev,
           \A f \in F : Sync!HasThread(f) => f.thr = v2'
    PROVE  Sync!RevisionsGrow'
<1>1. /\ Sync!RevisionsGrow /\ v2.rev \in Nat /\ v2'.rev \in Nat /\ v12.thr.rev \in Nat
      /\ \A i \in DOMAIN v11 : Sync!HasThread(v11[i]) => v11[i].thr.rev \in Nat
    BY FlowTypes, FramesAre DEF SyncInv, Sync!FlowInv, Sync!Row
<1>2. ASSUME NEW i \in DOMAIN v11', Sync!HasThread(v11'[i])
      PROVE  /\ v12'.hist = v1' => v12'.thr.rev <= v11'[i].thr.rev
             /\ Sync!Fresh(i)' => v11'[i].thr.rev <= v2'.rev
             /\ Sync!Fresh(i)' => \A j \in DOMAIN v11' :
                   i <= j /\ Sync!HasThread(v11'[j]) => v11'[i].thr.rev <= v11'[j].thr.rev
    <2>1. CASE i \in DOMAIN v11
        <3>1. v11'[i] = v11[i] /\ (Sync!Fresh(i)' => Sync!Fresh(i))
            BY <2>1, FreshExtends DEF Grows
        <3>2. Sync!Fresh(i) => v11[i].thr.rev <= v2'.rev
            BY <1>1, <1>2, <2>1, <3>1 DEF Sync!RevisionsGrow
        <3>3. ASSUME NEW j \in DOMAIN v11', i <= j, Sync!HasThread(v11'[j]), Sync!Fresh(i)
              PROVE  v11'[i].thr.rev <= v11'[j].thr.rev
            <4>1. CASE j \in DOMAIN v11
                BY <1>1, <1>2, <2>1, <3>1, <3>3, <4>1 DEF Sync!RevisionsGrow, Grows
            <4>2. CASE j \notin DOMAIN v11
                BY <3>1, <3>2, <3>3, <4>2 DEF Grows
            <4>3. QED
                BY <4>1, <4>2
        <3>4. QED
            BY <1>1, <1>2, <2>1, <3>1, <3>2, <3>3 DEF Sync!RevisionsGrow
    <2>2. CASE i \notin DOMAIN v11
        <3>1. /\ v11'[i].thr = v2'
              /\ \A j \in DOMAIN v11' : i <= j => v11'[j] \in F
            BY <1>2, <2>2 DEF Grows
        <3>2. QED
            BY <1>1, <3>1 DEF Sync!RevisionsGrow
    <2>3. QED
        BY <2>1, <2>2
<1>3. QED
    BY <1>1, <1>2 DEF Sync!RevisionsGrow

LEMMA KnownExtends ==
    ASSUME SyncInv, NEW F, Grows(F), v1' = v1, v12'.hist = v12.hist, v12'.thr = v12.thr,
           \/ v10' = {}
           \/ v10' = v10 /\ \A f \in F : ~Sync!HasThread(f)
           \/ \E f \in F : Sync!Sets(f) /\ v10' = {f.thr}
    PROVE  Sync!KnownIsLast'
<1>1. CASE v10' = {}
    BY <1>1 DEF Sync!KnownIsLast
<1>2. CASE v10' = v10 /\ \A f \in F : ~Sync!HasThread(f)
    <2>1. Sync!KnownIsLast /\ (Sync!Told' => Sync!Told)
        BY <1>2, FreshExtends DEF SyncInv, Sync!FlowInv, Sync!Current, Sync!HasThread
    <2>2. ASSUME NEW k \in v10, Sync!Told
          PROVE  \/ \E i \in DOMAIN v11' :
                       /\ Sync!Sets(v11'[i]) /\ v11'[i].thr = k
                       /\ \A j \in DOMAIN v11' : i < j => ~Sync!HasThread(v11'[j])
                 \/ v12.thr = k /\ \A j \in DOMAIN v11' : ~Sync!HasThread(v11'[j])
        <3>1. \A j \in DOMAIN v11' : Sync!HasThread(v11'[j]) => j \in DOMAIN v11 /\ v11'[j] = v11[j]
            BY <1>2 DEF Grows
        <3>2. CASE \E i \in DOMAIN v11 :
                       /\ Sync!Sets(v11[i]) /\ v11[i].thr = k
                       /\ \A j \in DOMAIN v11 : i < j => ~Sync!HasThread(v11[j])
            BY <3>1, <3>2 DEF Grows
        <3>3. CASE v12.thr = k /\ \A j \in DOMAIN v11 : ~Sync!HasThread(v11[j])
            BY <3>1, <3>3
        <3>4. QED
            BY <2>1, <2>2, <3>2, <3>3 DEF Sync!KnownIsLast
    <2>3. QED
        BY <1>2, <2>1, <2>2 DEF Sync!KnownIsLast
<1>3. CASE \E f \in F : Sync!Sets(f) /\ v10' = {f.thr}
    <2>1. PICK f \in F : Sync!Sets(f) /\ v10' = {f.thr}
        BY <1>3
    <2>2. PICK i \in DOMAIN v11' \ DOMAIN v11 : v11'[i] = f
        BY DEF Grows
    <2>4. \A j \in DOMAIN v11' : ~(i < j)
        BY DEF Grows
    <2>5. QED
        BY <2>1, <2>2, <2>4 DEF Sync!KnownIsLast
<1>4. QED
    BY <1>1, <1>2, <1>3

\* The duplicate filter is not ahead of the Thread where the client is told.
LEMMA KnownIsBehind ==
    ASSUME SyncInv, Sync!Told, NEW k \in v10
    PROVE  ~(v2.rev < k.rev)
<1>1. /\ Sync!RevisionsGrow /\ Sync!KnownIsLast /\ v2.rev \in Nat /\ v12.thr.rev \in Nat
      /\ \A i \in DOMAIN v11 : i \in Nat /\ (Sync!HasThread(v11[i]) => v11[i].thr.rev \in Nat)
    BY FlowTypes, FramesAre DEF SyncInv, Sync!FlowInv
<1>2. CASE \E i \in DOMAIN v11 :
               /\ Sync!Sets(v11[i]) /\ v11[i].thr = k
               /\ \A j \in DOMAIN v11 : i < j => ~Sync!HasThread(v11[j])
    <2>1. PICK i \in DOMAIN v11 :
               /\ Sync!Sets(v11[i]) /\ v11[i].thr = k
               /\ \A j \in DOMAIN v11 : i < j => ~Sync!HasThread(v11[j])
        BY <1>2
    <2>2. Sync!HasThread(v11[i])
        BY <2>1 DEF Sync!Sets, Sync!HasThread
    <2>3. Sync!Fresh(i)
        <3>1. CASE v12.hist = v1
            BY <3>1 DEF Sync!Fresh
        <3>2. CASE \E h \in DOMAIN v11 : Sync!Current(v11[h])
            <4>1. PICK h \in DOMAIN v11 : Sync!Current(v11[h])
                BY <3>2
            <4>2. ~(i < h)
                BY <2>1, <4>1 DEF Sync!Current, Sync!HasThread
            <4>3. h <= i
                BY <1>1, <4>2
            <4>4. QED
                BY <4>1, <4>3 DEF Sync!Fresh
        <3>3. QED
            BY <3>1, <3>2 DEF Sync!Told
    <2>4. QED
        BY <1>1, <2>1, <2>2, <2>3 DEF Sync!RevisionsGrow
<1>3. CASE v12.thr = k /\ \A j \in DOMAIN v11 : ~Sync!HasThread(v11[j])
    <2>1. v12.hist = v1
        BY <1>3 DEF Sync!Told, Sync!Current, Sync!HasThread
    <2>2. QED
        BY <1>1, <1>3, <2>1 DEF Sync!RevisionsGrow
<1>4. QED
    BY <1>1, <1>2, <1>3 DEF Sync!KnownIsLast

\* An upsert is to come, or a frame sets the Thread, or nothing changes, or the
\* duplicate filter knows the Thread and the upsert is dropped.
LEMMA LastExtends ==
    ASSUME SyncInv, NEW F, Grows(F), v1' = v1, v12'.hist = v12.hist, v12'.thr = v12.thr,
           \/ v6' # "online" \/ v9' \/ \E i \in DOMAIN v8' : v8'[i] = Sync!Upsert
           \/ \E f \in F : Sync!Sets(f) /\ f.thr = v2'
           \/ /\ v2' = v2 /\ v6' = v6
              /\ ~v9' /\ (\A i \in DOMAIN v8' : v8'[i] # Sync!Upsert) =>
                    ~v9 /\ \A i \in DOMAIN v8 : v8[i] # Sync!Upsert
              /\ \A f \in F : Sync!HasThread(f) => f.kind = "opened" /\ f.thr = v2
           \/ v2' = v2 /\ F = {} /\ \E k \in v10 : v2.rev < k.rev \/ v2 = k
    PROVE  Sync!LastIsCurrent'
<1> SUFFICES ASSUME v6' = "online", Sync!Told', ~v9', \A i \in DOMAIN v8' : v8'[i] # Sync!Upsert
             PROVE  \/ \E i \in DOMAIN v11' :
                          /\ Sync!Sets(v11'[i])
                          /\ \A j \in DOMAIN v11' : i <= j /\ Sync!HasThread(v11'[j]) => v11'[j].thr = v2'
                    \/ v12'.thr = v2' /\ \A j \in DOMAIN v11' : Sync!HasThread(v11'[j]) => v11'[j].thr = v2'
    BY DEF Sync!LastIsCurrent
<1>1. CASE \E f \in F : Sync!Sets(f) /\ f.thr = v2'
    <2>1. PICK f \in F : Sync!Sets(f) /\ f.thr = v2'
        BY <1>1
    <2>2. PICK i \in DOMAIN v11' \ DOMAIN v11 : v11'[i] = f
        BY DEF Grows
    <2>3. \A j \in DOMAIN v11' : i <= j => j = i
        BY DEF Grows
    <2>4. QED
        BY <2>1, <2>2, <2>3
<1>2. CASE /\ v2' = v2 /\ v6' = v6
           /\ ~v9 /\ \A i \in DOMAIN v8 : v8[i] # Sync!Upsert
           /\ \A f \in F : Sync!HasThread(f) => f.kind = "opened" /\ f.thr = v2
    <2>1. Sync!Told
        <3>1. \A f \in F : ~Sync!Current(f)
            BY <1>2 DEF Sync!Current, Sync!HasThread
        <3>2. QED
            BY <3>1, FreshExtends
    <2>2. \A j \in DOMAIN v11' : Sync!HasThread(v11'[j]) =>
             v11'[j].thr = v2 \/ (j \in DOMAIN v11 /\ v11'[j] = v11[j])
        BY <1>2 DEF Grows
    <2>3. CASE \E i \in DOMAIN v11 :
                  /\ Sync!Sets(v11[i])
                  /\ \A j \in DOMAIN v11 : i <= j /\ Sync!HasThread(v11[j]) => v11[j].thr = v2
        BY <1>2, <2>2, <2>3 DEF Grows
    <2>4. CASE v12.thr = v2 /\ \A j \in DOMAIN v11 : Sync!HasThread(v11[j]) => v11[j].thr = v2
        BY <1>2, <2>2, <2>4
    <2>5. QED
        BY <1>2, <2>1, <2>3, <2>4 DEF SyncInv, Sync!FlowInv, Sync!LastIsCurrent
<1>3. CASE v2' = v2 /\ F = {} /\ \E k \in v10 : v2.rev < k.rev \/ v2 = k
    <2>1. Sync!Told
        BY <1>3, FreshExtends
    <2>2. v2 \in v10
        BY <1>3, <2>1, KnownIsBehind
    <2>3. DOMAIN v11' = DOMAIN v11 /\ \A i \in DOMAIN v11 : i \in Nat /\ v11'[i] = v11[i]
        BY <1>3, FramesAre DEF Grows, SyncInv
    <2>4. CASE \E i \in DOMAIN v11 :
                  /\ Sync!Sets(v11[i]) /\ v11[i].thr = v2
                  /\ \A j \in DOMAIN v11 : i < j => ~Sync!HasThread(v11[j])
        <3>1. PICK i \in DOMAIN v11 :
                  /\ Sync!Sets(v11[i]) /\ v11[i].thr = v2
                  /\ \A j \in DOMAIN v11 : i < j => ~Sync!HasThread(v11[j])
            BY <2>4
        <3>2. \A j \in DOMAIN v11 : i <= j => i = j \/ i < j
            BY <2>3
        <3>3. QED
            BY <1>3, <2>3, <3>1, <3>2
    <2>5. CASE v12.thr = v2 /\ \A j \in DOMAIN v11 : ~Sync!HasThread(v11[j])
        BY <1>3, <2>3, <2>5
    <2>6. QED
        BY <2>1, <2>2, <2>4, <2>5 DEF SyncInv, Sync!FlowInv, Sync!KnownIsLast
<1>4. QED
    BY <1>1, <1>2, <1>3

\* What carries a message still does, or a new frame does.
Passed(F) ==
    \A m \in v3' :
       \/ Sync!Carried(m)'
       \/ m \in v3 /\ (Sync!Carried(m) => \E f \in F : f.kind = "hello" \/ f = Sync!Msg(m))

LEMMA MessagesExtend ==
    ASSUME SyncInv, NEW F, Grows(F), v1' = v1, v12' = v12, v13' = v13,
           v6 = "online" => Passed(F),
           \A f \in F : f.kind = "opened" => v3' \subseteq f.ms,
           \A i \in DOMAIN v7 : v7[i].kind = "open" =>
              \/ \E j \in DOMAIN v7' : v7'[j].kind = "open"
              \/ \E f \in F : f.kind = "opened"
    PROVE  Sync!OpenedIsCompleted' /\ Sync!MessagesArrive'
<1>1. /\ Sync!Connected /\ Sync!OpenedIsCompleted /\ Sync!MessagesArrive
      /\ \A i \in DOMAIN v11 : i \in Nat
    BY FramesAre DEF SyncInv, Sync!FlowInv
<1>2. ASSUME NEW m, NEW i \in DOMAIN v11 \cup {0}, Sync!AfterOpened(i, m)
      PROVE  Sync!AfterOpened(i, m)'
    BY <1>2 DEF Grows, Sync!AfterOpened, Sync!Msg
<1>3. ASSUME NEW m, NEW i \in DOMAIN v11 \cup {0}, \E f \in F : f.kind = "hello" \/ f = Sync!Msg(m)
      PROVE  Sync!AfterOpened(i, m)'
    <2>1. PICK f \in F : f.kind = "hello" \/ f = Sync!Msg(m)
        BY <1>3
    <2>2. PICK j \in DOMAIN v11' \ DOMAIN v11 : v11'[j] = f
        BY DEF Grows
    <2>3. i < j
        BY <1>1, <2>2 DEF Grows
    <2>4. QED
        BY <2>1, <2>2, <2>3 DEF Sync!AfterOpened, Sync!Msg
<1>4. Sync!OpenedIsCompleted'
    <2>1. ASSUME NEW i \in DOMAIN v11', v11'[i].kind = "opened", NEW m \in v3' \ v11'[i].ms
          PROVE  Sync!Carried(m)' \/ Sync!AfterOpened(i, m)'
        <3>1. i \in DOMAIN v11 /\ v11'[i] = v11[i]
            BY <2>1 DEF Grows
        <3>2. v6 = "online"
            BY <1>1, <3>1 DEF Sync!Connected
        <3>3. QED
            BY <1>1, <1>2, <1>3, <2>1, <3>1, <3>2 DEF Passed, Sync!OpenedIsCompleted
    <2>2. QED
        BY <2>1 DEF Sync!OpenedIsCompleted
<1>5. Sync!MessagesArrive'
    <2>1. ASSUME v12.online, v12.hist = v1, v12.opened \/ v12.opening, NEW m \in v3'
          PROVE  m \in v13 \/ Sync!Carried(m)' \/ Sync!AfterOpened(0, m)' \/ Sync!OpenIsUnderWay'
        <3>1. v6 = "online"
            BY <1>1, <2>1 DEF Sync!Connected
        <3>2. Sync!OpenIsUnderWay => Sync!OpenIsUnderWay'
            <4>1. CASE \E i \in DOMAIN v7 : v7[i].kind = "open"
                BY <4>1 DEF Sync!OpenIsUnderWay, Grows
            <4>2. CASE \E i \in DOMAIN v11 : v11[i].kind = "opened"
                BY <4>2 DEF Sync!OpenIsUnderWay, Grows
            <4>3. QED
                BY <4>1, <4>2 DEF Sync!OpenIsUnderWay
        <3>3. QED
            BY <1>1, <1>2, <1>3, <2>1, <3>1, <3>2 DEF Passed, Sync!MessagesArrive
    <2>2. QED
        BY <2>1 DEF Sync!MessagesArrive
<1>6. QED
    BY <1>4, <1>5

\* The entries of a queue are those of another or of evs.
LEMMA RemovedExtends ==
    ASSUME SyncInv, NEW F, Grows(F), UNCHANGED <<v13, v14>>, Sync!Gone \subseteq Sync!Gone',
           \A f \in F : f.kind = "removed" => f.m \in Sync!Gone',
           \A i \in DOMAIN v8' : v8'[i].kind = "removed" =>
              v8'[i].m \in Sync!Gone' \/ \E j \in DOMAIN v8 : v8[j] = v8'[i]
    PROVE  Sync!RemovedIsGone'
<1>1. Sync!RemovedIsGone
    BY DEF SyncInv, Sync!FlowInv
<1>2. \A i \in DOMAIN v11' : v11'[i].kind = "removed" => v11'[i].m \in Sync!Gone'
    BY <1>1 DEF Grows, Sync!RemovedIsGone
<1>3. QED
    BY <1>1, <1>2 DEF Sync!RemovedIsGone

\* A broadcast comes behind the queue, which may lose its oldest entries.
LEMMA BroadcastOf ==
    ASSUME SyncInv, NEW evs \in Seq(Sync!Queued), Sync!Broadcast(evs)
    PROVE  /\ Len(v8') <= Backlog /\ v9' \in BOOLEAN /\ (v9 => v9')
           /\ \A i \in DOMAIN v8' : \/ \E j \in DOMAIN v8 : v8[j] = v8'[i]
                                   \/ \E j \in DOMAIN evs : evs[j] = v8'[i]
           /\ v6 # "down" /\ ~v9' =>
                 /\ \A i \in DOMAIN v8 : \E j \in DOMAIN v8' : v8'[j] = v8[i]
                 /\ \A i \in DOMAIN evs : \E j \in DOMAIN v8' : v8'[j] = evs[i]
<1>0. v8 \in Seq(Sync!Queued) /\ v9 \in BOOLEAN /\ Len(v8) <= Backlog /\ Backlog \in Nat
    BY SyncTypes, FlowTypes, SendsAssumption DEF SyncInv
<1>1. CASE v6 = "down"
    BY <1>0, <1>1 DEF Sync!Broadcast
<1>2. CASE v6 # "down"
    <2> DEFINE all == v8 \o evs
               over == IF Len(all) > Backlog THEN Len(all) - Backlog ELSE 0
    <2>1. /\ all \in Seq(Sync!Queued) /\ Len(all) = Len(v8) + Len(evs)
          /\ \A i \in DOMAIN all : \/ \E j \in DOMAIN v8 : v8[j] = all[i]
                                  \/ \E j \in DOMAIN evs : evs[j] = all[i]
        BY <1>0, ConcatOf
    <2>2. v8' = SubSeq(all, over + 1, Len(all)) /\ (v9' <=> v9 \/ over > 0) /\ v9' \in BOOLEAN
        BY <1>0, <1>2 DEF Sync!Broadcast
    <2>3. /\ \A i \in DOMAIN v8 : \E j \in DOMAIN all : all[j] = v8[i]
          /\ \A i \in DOMAIN evs : \E j \in DOMAIN all : all[j] = evs[i]
        <3>1. \A i \in DOMAIN v8 : i \in DOMAIN all /\ all[i] = v8[i]
            BY <1>0
        <3>2. \A i \in DOMAIN evs : Len(v8) + i \in DOMAIN all /\ all[Len(v8) + i] = evs[i]
            BY <1>0
        <3>3. QED
            BY <3>1, <3>2
    <2> HIDE DEF all
    <2>4. over \in 0 .. Len(all) /\ Len(all) - over <= Backlog /\ Len(all) \in Nat
        <3>1. Len(all) \in Nat
            BY <2>1
        <3>2. QED
            BY <1>0, <3>1
    <2> HIDE DEF over
    <2>5. /\ v8' \in Seq(Sync!Queued) /\ Len(v8') = Len(all) - over
          /\ \A i \in DOMAIN v8' : i + over \in DOMAIN all /\ v8'[i] = all[i + over]
        <3>1. \A s \in Seq(Sync!Queued) : \A n \in 0 .. Len(s) :
                 /\ Len(SubSeq(s, n + 1, Len(s))) = Len(s) - n
                 /\ \A i \in DOMAIN SubSeq(s, n + 1, Len(s)) :
                       i + n \in DOMAIN s /\ SubSeq(s, n + 1, Len(s))[i] = s[i + n]
            OBVIOUS
        <3>2. QED
            BY <2>1, <2>2, <2>4, <3>1, SuffixOf
    <2>6. ~v9' => v8' = all
        <3>1. ~v9' => over = 0
            BY <2>2, <2>4
        <3>2. \A s \in Seq(Sync!Queued) : SubSeq(s, 1, Len(s)) = s
            OBVIOUS
        <3>3. QED
            BY <2>1, <2>2, <2>4, <3>1, <3>2
    <2>7. Len(v8') <= Backlog
        BY <2>4, <2>5
    <2>8. \A i \in DOMAIN v8' : \/ \E j \in DOMAIN v8 : v8[j] = v8'[i]
                               \/ \E j \in DOMAIN evs : evs[j] = v8'[i]
        BY <2>1, <2>5
    <2>9. QED
        BY <1>0, <2>2, <2>3, <2>6, <2>7, <2>8
<1>3. QED
    BY <1>1, <1>2

\* A broadcast of an entry and an upsert: what was carried still is.
LEMMA TellsOfThread ==
    ASSUME SyncInv, NEW e \in Sync!Queued,
           \/ Sync!Broadcast(<<e, Sync!Upsert>>)
           \/ Sync!Broadcast(<<Sync!Upsert>>) /\ e = Sync!Upsert
    PROVE  /\ Len(v8') <= Backlog /\ v9' \in BOOLEAN /\ (v9 => v9')
           /\ \A i \in DOMAIN v8' : v8'[i] \in {e, Sync!Upsert} \/ \E j \in DOMAIN v8 : v8[j] = v8'[i]
           /\ v6 # "down" => v9' \/ \E i \in DOMAIN v8' : v8'[i] = Sync!Upsert
           /\ v6 # "down" => v9' \/ \E i \in DOMAIN v8' : v8'[i] = e
           /\ v6 # "down" => v9' \/ \A i \in DOMAIN v8 : \E j \in DOMAIN v8' : v8'[j] = v8[i]
<1>1. <<e, Sync!Upsert>> \in Seq(Sync!Queued) /\ <<Sync!Upsert>> \in Seq(Sync!Queued)
    <2>1. Sync!Upsert \in Sync!Queued
        BY FramesTyped DEF SyncInv
    <2>2. QED
        BY <2>1, PairOf
<1>2. CASE Sync!Broadcast(<<e, Sync!Upsert>>)
    <2>1. PICK evs \in Seq(Sync!Queued) : evs = <<e, Sync!Upsert>>
        BY <1>1
    <2>2. /\ \A i \in DOMAIN evs : evs[i] \in {e, Sync!Upsert}
          /\ \E i \in DOMAIN evs : evs[i] = e
          /\ \E i \in DOMAIN evs : evs[i] = Sync!Upsert
        BY <2>1, PairHas
    <2>3. Sync!Broadcast(evs)
        BY <1>2, <2>1
    <2> HIDE <2>1
    <2>4. QED
        BY <2>2, <2>3, BroadcastOf
<1>3. CASE Sync!Broadcast(<<Sync!Upsert>>) /\ e = Sync!Upsert
    <2>1. DOMAIN <<Sync!Upsert>> = {1} /\ <<Sync!Upsert>>[1] = Sync!Upsert
        OBVIOUS
    <2>2. QED
        BY <1>1, <1>3, <2>1, BroadcastOf
<1>4. QED
    BY <1>2, <1>3

LEMMA CarriedOn ==
    ASSUME NEW m, Sync!Carried(m), v9 => v9',
           v9' \/ \A x \in v5 : x.m = m => (\E y \in v5' : y.m = m)
                                       \/ \E j \in DOMAIN v8' : v8'[j] = Sync!Msg(m),
           v9' \/ \A i \in DOMAIN v8 : v8[i] = Sync!Msg(m) => \E j \in DOMAIN v8' : v8'[j] = v8[i]
    PROVE  Sync!Carried(m)'
BY DEF Sync!Carried, Sync!Msg

\* Whatever changes the Thread or its messages tells of it.
LEMMA TellingKeepsFlow ==
    ASSUME SyncInv, Sync!SendInv', UNCHANGED <<v1, v6, v7, v10, v12, v13, v14>>,
           NEW e \in Sync!Queued,
           \/ Sync!Broadcast(<<e, Sync!Upsert>>)
           \/ Sync!Broadcast(<<Sync!Upsert>>) /\ e = Sync!Upsert,
           NEW F, Grows(F), \A f \in F : f.kind = "error", v6 # "online" => v11' = v11,
           v2.rev <= v2'.rev, Sync!Accepted' = Sync!Accepted,
           \A m \in v3' : m \in v3 \/ (e = Sync!Msg(m) /\ m \in Sync!Other),
           e.kind = "removed" => e.m \in Sync!Gone',
           \A x \in v5 : x \in v5' \/ e = Sync!Msg(x.m),
           \A x \in v5' : x \in v5
    PROVE  Sync!FlowInv'
<1>0. v2' \in Sync!Row
    BY DEF Sync!SendInv, Sync!SyncShapes
<1>1. Sync!Gone \subseteq Sync!Gone'
    BY DEF Sync!Gone
<1>2. Sync!TypeOK'
    <2>1. Len(v8') <= Backlog /\ v9' \in BOOLEAN
        BY TellsOfThread
    <2>2. QED
        BY <2>1, FlowTypes, SyncTyped
<1>3. Sync!Connected'
    BY DEF Sync!Connected, SyncInv, Sync!FlowInv
<1>4. Sync!RemovedIsGone'
    <2>1. \A i \in DOMAIN v8' : v8'[i].kind = "removed" =>
              v8'[i].m \in Sync!Gone' \/ \E j \in DOMAIN v8 : v8[j] = v8'[i]
        <3>1. Sync!Upsert.kind # "removed"
            BY DEF Sync!Upsert
        <3>2. \A i \in DOMAIN v8' : v8'[i] \in {e, Sync!Upsert} \/ \E j \in DOMAIN v8 : v8[j] = v8'[i]
            BY TellsOfThread
        <3>3. QED
            BY <3>1, <3>2
    <2>2. QED
        BY <1>1, <2>1, RemovedExtends
<1>5. Sync!OpenedIsCompleted' /\ Sync!MessagesArrive'
    <2>1. ASSUME v6 = "online", NEW m \in v3'
          PROVE  Sync!Carried(m)' \/ (m \in v3 /\ ~Sync!Carried(m))
        <3>1. v9' \/ \E j \in DOMAIN v8' : v8'[j] = e
            BY <2>1, TellsOfThread
        <3>2. CASE e = Sync!Msg(m)
            BY <3>1, <3>2 DEF Sync!Carried, Sync!Msg
        <3>3. CASE e # Sync!Msg(m)
            <4>1. m \in v3 /\ \A x \in v5 : x.m = m => x \in v5'
                BY <3>3
            <4>2. (v9 => v9') /\ (v9' \/ \A i \in DOMAIN v8 : \E j \in DOMAIN v8' : v8'[j] = v8[i])
                BY <2>1, TellsOfThread
            <4>3. QED
                BY <4>1, <4>2, CarriedOn
        <3>4. QED
            BY <3>2, <3>3
    <2>2. v6 = "online" => Passed(F)
        BY <2>1 DEF Passed
    <2>3. QED
        BY <2>2, MessagesExtend
<1>6. Sync!HistoriesGrow'
    BY HistoriesExtend
<1>7. Sync!RevisionsGrow' /\ Sync!KnownIsLast'
    <2>1. \A f \in F : ~Sync!HasThread(f)
        BY DEF Sync!HasThread
    <2>2. QED
        BY <1>0, <2>1, RevisionsExtend, KnownExtends
<1>8. Sync!LastIsCurrent'
    <2>1. v6' # "online" \/ v9' \/ \E i \in DOMAIN v8' : v8'[i] = Sync!Upsert
        BY TellsOfThread
    <2>2. QED
        BY <2>1, LastExtends
<1>9. QED
    BY <1>2, <1>3, <1>4, <1>5, <1>6, <1>7, <1>8 DEF Sync!FlowInv

LEMMA ChangeThreadKeepsFlow ==
    ASSUME SyncInv, Sync!ChangeThread, Sync!SendInv'
    PROVE  Sync!FlowInv'
<1>1. /\ UNCHANGED <<v1, v3, v4, v5, v6, v7, v10, v11, v12, v13, v14>>
      /\ Sync!Broadcast(<<Sync!Upsert>>) /\ Sync!Upsert \in Sync!Queued /\ Sync!Upsert.kind # "removed"
    BY FramesTyped DEF Sync!ChangeThread, Sync!store, SyncInv, Sync!Upsert
<1>2. v2.rev <= v2'.rev
    BY FlowTypes DEF Sync!ChangeThread, Sync!Row
<1>3. Sync!Accepted' = Sync!Accepted
    BY <1>1 DEF Sync!Accepted
<1>4. QED
    BY <1>1, <1>2, <1>3, NothingGrows, TellingKeepsFlow

LEMMA MessageEntries ==
    \A m, n : /\ Sync!Msg(m).kind = "msg" /\ Sync!MsgRemoved(m).kind = "removed"
              /\ Sync!MsgRemoved(m).m = m /\ (Sync!Msg(m) = Sync!Msg(n) => m = n)
<1>1. \A m : Sync!Msg(m).m = m
    BY DEF Sync!Msg
<1>2. QED
    BY <1>1 DEF Sync!Msg, Sync!MsgRemoved

LEMMA PostOtherKeepsFlow ==
    ASSUME SyncInv, Sync!PostOther, Sync!SendInv'
    PROVE  Sync!FlowInv'
<1>1. PICK m \in Sync!Other : v3' = v3 \cup {m} /\ Sync!Broadcast(<<Sync!Msg(m), Sync!Upsert>>)
    BY DEF Sync!PostOther
<1>2. UNCHANGED <<v1, v2, v4, v5, v6, v7, v10, v11, v12, v13, v14>> /\ v2.rev <= v2'.rev
    BY FlowTypes DEF Sync!PostOther, Sync!store
<1>3. Sync!Accepted' = Sync!Accepted /\ m \in Sync!Accepted
    BY <1>2 DEF Sync!Accepted
<1>4. Sync!Msg(m) \in Sync!Queued
    BY <1>3, FramesTyped DEF SyncInv
<1>5. QED
    BY <1>1, <1>2, <1>3, <1>4, MessageEntries, NothingGrows, TellingKeepsFlow

LEMMA CancelKeepsFlow ==
    ASSUME SyncInv, NEW m \in v3, Sync!CancelQueued(m), Sync!SendInv'
    PROVE  Sync!FlowInv'
<1>1. /\ m \in v3 \ Sync!Other /\ v3' = v3 \ {m}
      /\ Sync!Broadcast(<<Sync!MsgRemoved(m), Sync!Upsert>>)
      /\ UNCHANGED <<v1, v2, v4, v5, v6, v7, v10, v11, v12, v13, v14>> /\ v2.rev <= v2'.rev
    BY FlowTypes DEF Sync!CancelQueued, Sync!store
<1>2. Sync!Accepted' = Sync!Accepted /\ m \in Sync!Accepted
    BY <1>1, SyncTypes DEF Sync!Accepted, SyncInv
<1>3. Sync!MsgRemoved(m) \in Sync!Queued /\ m \in Sync!Gone'
    BY <1>1, <1>2, FramesTyped DEF SyncInv, Sync!Gone
<1>4. QED
    BY <1>1, <1>2, <1>3, MessageEntries, NothingGrows, TellingKeepsFlow

\* A message is published, whether the send is answered with an error or not.
LEMMA PublishKeepsFlow ==
    ASSUME SyncInv, NEW x \in v5, Sync!Publish(x) \/ Sync!PublishRefused(x), Sync!SendInv'
    PROVE  Sync!FlowInv'
<1>1. /\ v5' = v5 \ {x} /\ Sync!Broadcast(<<Sync!Msg(x.m), Sync!Upsert>>)
      /\ UNCHANGED <<v1, v2, v3, v4, v6, v7, v10, v12, v13, v14>> /\ v2.rev <= v2'.rev
    BY FlowTypes DEF Sync!Publish, Sync!PublishRefused, Sync!Publishes, Sync!store
<1>2. Sync!Accepted' = Sync!Accepted
    BY <1>1 DEF Sync!Accepted
<1>3. x \in Served /\ x.m \in Sync!Accepted /\ x.m[1] \in Sends
    <2>1. v5 \subseteq Served
        BY SyncTypes DEF SyncInv
    <2>2. QED
        BY <2>1 DEF Served, Sync!Accepted
<1>4. Sync!Msg(x.m) \in Sync!Queued /\ Sync!Refusal(x.m[1]) \in Sync!ToClient
    BY <1>3, FramesTyped DEF SyncInv
<1>5. CASE v11' = v11
    BY <1>1, <1>2, <1>4, <1>5, MessageEntries, NothingGrows, TellingKeepsFlow
<1>6. CASE x.live /\ Sync!Reply(<<Sync!Refusal(x.m[1])>>)
    <2>1. v6 = "online"
        BY <1>6 DEF SyncInv, Sync!FlowInv, Sync!Connected
    <2>2. Grows({Sync!Refusal(x.m[1])})
        BY <1>4, <1>6, ReplyGrows DEF SyncInv
    <2>3. Sync!Refusal(x.m[1]).kind = "error"
        BY DEF Sync!Refusal
    <2>4. QED
        BY <1>1, <1>2, <1>4, <2>1, <2>2, <2>3, MessageEntries, TellingKeepsFlow
<1>7. QED
    BY <1>5, <1>6 DEF Sync!Publish, Sync!PublishRefused

\* Steps of the host that change no Thread and no message and tell of none.
LEMMA AnsweringKeepsFlow ==
    ASSUME SyncInv, Sync!SendInv', UNCHANGED <<v1, v2, v6, v12, v13, v14>>,
           v6 # "online" => v11' = v11 /\ \A x \in v5' : ~x.live,
           NEW F, Grows(F), \A f \in F : f.kind = "hello" => f.hist = v1,
           \A f \in F : Sync!HasThread(f) => f.thr = v2,
           \A f \in F : f.kind = "opened" => v3' \subseteq f.ms,
           v10' \subseteq Sync!Row, v9' \in BOOLEAN, Len(v8') <= Backlog,
           \/ v10' = {} /\ \A f \in F : f.kind = "opened"
           \/ v10' = v10 /\ \A f \in F : ~Sync!HasThread(f)
           \/ \E f \in F : Sync!Sets(f) /\ v10' = {f.thr},
           \A i \in DOMAIN v8' : v8'[i].kind = "removed" => \E j \in DOMAIN v8 : v8[j] = v8'[i],
           \A f \in F : f.kind = "removed" => f.m \in Sync!Gone',
           Sync!Gone \subseteq Sync!Gone', Sync!Accepted \subseteq Sync!Accepted',
           v6 = "online" => Passed(F),
           \A i \in DOMAIN v7 : v7[i].kind = "open" =>
              \/ \E j \in DOMAIN v7' : v7'[j].kind = "open"
              \/ \E f \in F : f.kind = "opened",
           \/ \E f \in F : Sync!Sets(f)
           \/ ~v9' /\ (\A i \in DOMAIN v8' : v8'[i] # Sync!Upsert) =>
                 ~v9 /\ \A i \in DOMAIN v8 : v8[i] # Sync!Upsert
           \/ F = {} /\ \E k \in v10 : v2.rev < k.rev \/ v2 = k
    PROVE  Sync!FlowInv'
<1>0. v2 \in Sync!Row /\ v2.rev <= v2'.rev
    BY FlowTypes
<1>1. Sync!TypeOK'
    BY FlowTypes, SyncTyped
<1>2. Sync!Connected'
    BY DEF Sync!Connected, SyncInv, Sync!FlowInv
<1>3. Sync!RemovedIsGone'
    BY RemovedExtends
<1>4. Sync!OpenedIsCompleted' /\ Sync!MessagesArrive'
    BY MessagesExtend
<1>5. Sync!HistoriesGrow'
    BY HistoriesExtend
<1>6. Sync!RevisionsGrow'
    BY <1>0, RevisionsExtend
<1>7. Sync!KnownIsLast'
    BY KnownExtends
<1>8. Sync!LastIsCurrent'
    <2>1. CASE \E f \in F : Sync!Sets(f)
        <3>1. \E f \in F : Sync!Sets(f) /\ f.thr = v2'
            BY <2>1 DEF Sync!Sets, Sync!HasThread
        <3>2. QED
            BY <3>1, LastExtends
    <2>2. CASE /\ ~v9' /\ (\A i \in DOMAIN v8' : v8'[i] # Sync!Upsert) =>
                   ~v9 /\ \A i \in DOMAIN v8 : v8[i] # Sync!Upsert
               /\ \A f \in F : ~Sync!Sets(f)
        <3>1. \A f \in F : Sync!HasThread(f) => f.kind = "opened" /\ f.thr = v2
            BY <2>2 DEF Sync!Sets, Sync!HasThread
        <3>2. QED
            BY <2>2, <3>1, LastExtends
    <2>3. CASE F = {} /\ \E k \in v10 : v2.rev < k.rev \/ v2 = k
        BY <2>3, LastExtends
    <2>4. QED
        BY <2>1, <2>2, <2>3
<1>9. QED
    BY <1>1, <1>2, <1>3, <1>4, <1>5, <1>6, <1>7, <1>8 DEF Sync!FlowInv

\* What stays carries what it carried.
LEMMA CarriedStays ==
    ASSUME NEW F, UNCHANGED v8, v9 => v9',
           \A x \in v5 : x.m \in v3' => \E y \in v5' : y.m = x.m,
           \A m \in v3' : m \in v3 \/ \E y \in v5' : y.m = m
    PROVE  Passed(F)
<1>1. ASSUME NEW m \in v3'
      PROVE  Sync!Carried(m)' \/ (m \in v3 /\ ~Sync!Carried(m))
    BY CarriedOn DEF Sync!Carried
<1>2. QED
    BY <1>1 DEF Passed

\* A snapshot is sent: to begin with, or for what the queue lost.
LEMMA SnapshotKeepsFlow ==
    ASSUME SyncInv, Sync!Resync, Sync!SendInv'
    PROVE  Sync!FlowInv'
<1>1. /\ UNCHANGED <<v1, v2, v3, v4, v5, v6, v7, v8, v12, v13, v14>> /\ v9' = FALSE /\ v10' = {v2}
      /\ v6 = "online" /\ Sync!Reply(<<Sync!Hello>>)
    BY DEF Sync!Resync, Sync!Free, Sync!host, Sync!store
<1>2. Sync!Hello \in Sync!ToClient
    BY FramesTyped DEF SyncInv
<1>3. Grows({Sync!Hello})
    BY <1>1, <1>2, ReplyGrows DEF SyncInv
<1>4. /\ Sync!Hello.kind = "hello" /\ Sync!Hello.hist = v1 /\ Sync!Hello.thr = v2
      /\ Sync!Sets(Sync!Hello)
    BY DEF Sync!Hello, Sync!Sets
<1>5. Sync!Accepted' = Sync!Accepted /\ Sync!Gone' = Sync!Gone
    BY <1>1 DEF Sync!Accepted, Sync!Gone
<1>6. Passed({Sync!Hello})
    BY <1>1, <1>4 DEF Passed
<1>7. {v2} \subseteq Sync!Row /\ Len(v8') <= Backlog
    BY <1>1, FlowTypes
<1>8. QED
    BY <1>1, <1>3, <1>4, <1>5, <1>6, <1>7, AnsweringKeepsFlow

\* The snapshot fails: nothing is told in its place.
LEMMA NoSnapshotKeepsFlow ==
    ASSUME SyncInv, Sync!ResyncFails, Sync!SendInv'
    PROVE  Sync!FlowInv'
<1>1. /\ UNCHANGED <<v1, v2, v3, v4, v5, v6, v7, v8, v9, v10, v12, v13, v14>>
      /\ v9 \in BOOLEAN /\ Len(v8) <= Backlog /\ v10 \subseteq Sync!Row /\ v6 = "online"
    BY FlowTypes DEF Sync!ResyncFails, Sync!Free, Sync!host, Sync!store
<1>2. PICK f \in Sync!ToClient : Sync!Reply(<<f>>) /\ f.kind = "error"
    <2>1. Sync!Refusal("none") \in Sync!ToClient /\ Sync!Reply(<<Sync!Refusal("none")>>)
        BY FramesTyped DEF SyncInv, Sync!ResyncFails
    <2>2. Sync!Refusal("none").kind = "error"
        BY DEF Sync!Refusal
    <2>3. QED
        BY <2>1, <2>2
<1>3. Grows({f}) /\ ~Sync!HasThread(f)
    BY <1>2, ReplyGrows DEF SyncInv, Sync!HasThread
<1>4. Sync!Accepted' = Sync!Accepted /\ Sync!Gone' = Sync!Gone
    BY <1>1 DEF Sync!Accepted, Sync!Gone
<1>5. Passed({f})
    BY <1>1, CarriedStays
<1>6. QED
    BY <1>1, <1>2, <1>3, <1>4, <1>5, AnsweringKeepsFlow

\* An entry of the queue is passed on, an upsert as the Thread is now or not at all.
LEMMA ForwardKeepsFlow ==
    ASSUME SyncInv, Sync!Forward, Sync!SendInv'
    PROVE  Sync!FlowInv'
<1>0. v8 \in Seq(Sync!Queued) /\ Len(v8) <= Backlog /\ v10 \subseteq Sync!Row /\ v2 \in Sync!Row
    BY SyncTypes, FlowTypes DEF SyncInv
<1>1. /\ UNCHANGED <<v1, v2, v3, v4, v5, v6, v7, v9, v12, v13, v14>> /\ v9 \in BOOLEAN
      /\ v6 = "online" /\ v8 # <<>> /\ v8' = Tail(v8)
    BY FlowTypes DEF Sync!Forward, Sync!Free, Sync!host, Sync!store
<1>2. PICK e : e = Head(v8)
    OBVIOUS
<1>3. /\ e \in Sync!Queued /\ e = v8[1] /\ 1 \in DOMAIN v8
      /\ \A i \in DOMAIN v8' : \E j \in DOMAIN v8 : v8[j] = v8'[i]
      /\ \A i \in DOMAIN v8 : v8[i] = e \/ \E j \in DOMAIN v8' : v8'[j] = v8[i]
      /\ Len(v8') <= Backlog
    <2>1. /\ e \in Sync!Queued /\ e = v8[1] /\ 1 \in DOMAIN v8
          /\ \A i \in DOMAIN v8' : \E j \in DOMAIN v8 : v8[j] = v8'[i]
        BY <1>0, <1>1, <1>2, TailOf
    <2>2. ASSUME NEW i \in DOMAIN v8
          PROVE  v8[i] = e \/ \E j \in DOMAIN v8' : v8'[j] = v8[i]
        <3>1. i # 1 => i - 1 \in DOMAIN v8' /\ v8'[i - 1] = v8[i]
            BY <1>0, <1>1, <2>2
        <3>2. QED
            BY <2>1, <3>1
    <2>3. Len(v8') <= Backlog
        BY <1>0, <1>1, SendsAssumption
    <2>4. QED
        BY <2>1, <2>2, <2>3
<1>4. Sync!Accepted' = Sync!Accepted /\ Sync!Gone' = Sync!Gone
    BY <1>1 DEF Sync!Accepted, Sync!Gone
<1>5. ASSUME NEW F, e = Sync!Upsert \/ F = {e}
      PROVE  Passed(F)
    <2>1. ASSUME NEW m \in v3, Sync!Carried(m), e # Sync!Msg(m)
          PROVE  Sync!Carried(m)'
        BY <1>1, <1>3, <2>1, CarriedOn
    <2>2. Sync!Upsert # Sync!Msg(0) /\ \A m : Sync!Upsert # Sync!Msg(m)
        BY DEF Sync!Upsert, Sync!Msg
    <2>3. ASSUME NEW m \in v3
          PROVE  Sync!Carried(m)' \/ ~Sync!Carried(m) \/ \E f \in F : f = Sync!Msg(m)
        BY <1>5, <2>1, <2>2
    <2>4. QED
        BY <1>1, <2>3 DEF Passed
<1>6. CASE e.kind # "upsert"
    <2>1. Sync!Reply(<<e>>) /\ v10' = v10
        BY <1>2, <1>6 DEF Sync!Forward
    <2>2. e \in Sync!ToClient /\ e.kind \in {"msg", "removed"} /\ e # Sync!Upsert
        BY <1>3, <1>6, FramesTyped DEF SyncInv, Sync!Queued, Sync!Upsert
    <2>3. Grows({e}) /\ Passed({e})
        BY <1>5, <2>1, <2>2, ReplyGrows DEF SyncInv
    <2>4. ~Sync!HasThread(e)
        BY <2>2 DEF Sync!HasThread
    <2>5. e.kind = "removed" => e.m \in Sync!Gone'
        BY <1>3, <1>4 DEF SyncInv, Sync!FlowInv, Sync!RemovedIsGone
    <2>6. (\A i \in DOMAIN v8' : v8'[i] # Sync!Upsert) => \A i \in DOMAIN v8 : v8[i] # Sync!Upsert
        BY <1>3, <2>2
    <2>7. QED
        BY <1>0, <1>1, <1>3, <1>4, <2>1, <2>2, <2>3, <2>4, <2>5, <2>6, AnsweringKeepsFlow
<1>7. CASE e.kind = "upsert"
    <2>0. e = Sync!Upsert
        BY <1>3, <1>7 DEF Sync!Queued, Sync!Upsert
    <2>1. CASE \E k \in v10 : v2.rev < k.rev \/ v2 = k
        <3>1. v11' = v11 /\ v10' = v10
            BY <1>2, <1>7, <2>1 DEF Sync!Forward
        <3>2. Grows({}) /\ Passed({})
            BY <1>5, <2>0, <3>1, NothingGrows
        <3>3. QED
            BY <1>0, <1>1, <1>3, <1>4, <2>1, <3>1, <3>2, AnsweringKeepsFlow
    <2>2. CASE ~\E k \in v10 : v2.rev < k.rev \/ v2 = k
        <3>1. PICK f : f = [kind |-> "upsert", thr |-> v2]
            OBVIOUS
        <3>2. Sync!Reply(<<f>>) /\ v10' = {v2}
            BY <1>2, <1>7, <2>2, <3>1 DEF Sync!Forward
        <3>3. f \in Sync!ToClient /\ f.kind = "upsert" /\ f.thr = v2 /\ Sync!Sets(f)
            BY <3>1, FramesTyped DEF SyncInv, Sync!Sets
        <3>4. Grows({f}) /\ Passed({f})
            BY <1>5, <2>0, <3>2, <3>3, ReplyGrows DEF SyncInv
        <3>5. {v2} \subseteq Sync!Row
            BY <1>0
        <3> HIDE <3>1
        <3>6. QED
            BY <1>0, <1>1, <1>3, <1>4, <3>2, <3>3, <3>4, <3>5, AnsweringKeepsFlow
    <2>3. QED
        BY <2>1, <2>2
<1>8. QED
    BY <1>6, <1>7

\* The inbox loses its head.
LEMMA InboxTail ==
    ASSUME SyncInv, NEW kind, Sync!Request(kind)
    PROVE  /\ v6 = "online" /\ v7 # <<>> /\ Head(v7).kind = kind
           /\ \A i \in DOMAIN v7 : v7[i].kind = kind \/ \E j \in DOMAIN v7' : v7'[j] = v7[i]
<1>1. v7 \in Seq(Sync!ToHost) /\ v7 # <<>> /\ v7' = Tail(v7) /\ Head(v7).kind = kind /\ v6 = "online"
    BY SyncTypes DEF SyncInv, Sync!Request, Sync!Free
<1>2. ASSUME NEW i \in DOMAIN v7
      PROVE  v7[i].kind = kind \/ \E j \in DOMAIN v7' : v7'[j] = v7[i]
    <2>1. i # 1 => i - 1 \in DOMAIN v7' /\ v7'[i - 1] = v7[i]
        BY <1>1, <1>2
    <2>2. v7[1] = Head(v7)
        BY <1>1
    <2>3. QED
        BY <1>1, <2>1, <2>2
<1>3. QED
    BY <1>1, <1>2

LEMMA ServeOpenKeepsFlow ==
    ASSUME SyncInv, Sync!ServeOpen, Sync!SendInv'
    PROVE  Sync!FlowInv'
<1>1. PICK f : f = [kind |-> "opened", thr |-> v2, ms |-> v3]
    OBVIOUS
<1>2. /\ UNCHANGED <<v1, v2, v3, v4, v5, v6, v8, v9, v12, v13, v14>> /\ v10' = {}
      /\ Sync!Reply(<<f>>) /\ v9 \in BOOLEAN /\ Len(v8) <= Backlog
    BY <1>1, FlowTypes DEF Sync!ServeOpen, Sync!BeforeOpen, Sync!host, Sync!store
<1>3. f \in Sync!ToClient /\ f.kind = "opened" /\ f.thr = v2 /\ f.ms = v3 /\ ~Sync!Sets(f)
    BY <1>1, FramesTyped DEF SyncInv, Sync!Sets
<1>4. Grows({f}) /\ v6 = "online"
    BY <1>2, <1>3, ReplyGrows, InboxTail DEF SyncInv, Sync!ServeOpen
<1>5. Sync!Accepted' = Sync!Accepted /\ Sync!Gone' = Sync!Gone
    BY <1>2 DEF Sync!Accepted, Sync!Gone
<1>6. Passed({f})
    BY <1>2, CarriedStays
<1> HIDE <1>1
<1>7. QED
    BY <1>2, <1>3, <1>4, <1>5, <1>6, AnsweringKeepsFlow

\* A send is refused, or answered with the message the host has of it.
LEMMA AnswerKeepsFlow ==
    ASSUME SyncInv, Sync!RefuseSend \/ Sync!AnswerAgain, Sync!SendInv'
    PROVE  Sync!FlowInv'
<1>1. /\ UNCHANGED <<v1, v2, v3, v4, v5, v6, v8, v9, v10, v12, v13, v14>>
      /\ v9 \in BOOLEAN /\ Len(v8) <= Backlog /\ v10 \subseteq Sync!Row /\ Sync!Request("send")
    BY FlowTypes DEF Sync!RefuseSend, Sync!AnswerAgain, Sync!host, Sync!store
<1>2. PICK f \in Sync!ToClient : Sync!Reply(<<f>>) /\ f.kind \in {"error", "msg"}
    <2>1. CASE Sync!RefuseSend
        <3>1. Sync!Refusal(Head(v7).s) \in Sync!ToClient
            BY <1>1, InboxTail, SendAtHead, FramesTyped DEF SyncInv
        <3>2. Sync!Reply(<<Sync!Refusal(Head(v7).s)>>) /\ Sync!Refusal(Head(v7).s).kind = "error"
            BY <2>1 DEF Sync!RefuseSend, Sync!Refusal
        <3>3. QED
            BY <3>1, <3>2
    <2>2. CASE Sync!AnswerAgain
        <3>1. PICK m \in v3 : Sync!Reply(<<Sync!Msg(m)>>)
            BY <2>2 DEF Sync!AnswerAgain, Sync!KnownSend, Sync!Live
        <3>2. Sync!Msg(m) \in Sync!ToClient
            BY SyncTypes, FramesTyped DEF SyncInv
        <3>3. QED
            BY <3>1, <3>2, MessageEntries
    <2>3. QED
        BY <2>1, <2>2
<1>3. Grows({f}) /\ ~Sync!HasThread(f)
    BY <1>2, ReplyGrows DEF SyncInv, Sync!HasThread
<1>4. Sync!Accepted' = Sync!Accepted /\ Sync!Gone' = Sync!Gone
    BY <1>1 DEF Sync!Accepted, Sync!Gone
<1>5. Passed({f})
    BY <1>1, CarriedStays
<1>6. v6 = "online" /\ \A i \in DOMAIN v7 : v7[i].kind = "open" => \E j \in DOMAIN v7' : v7'[j].kind = "open"
    BY <1>1, InboxTail
<1>7. QED
    BY <1>1, <1>2, <1>3, <1>4, <1>5, <1>6, AnsweringKeepsFlow

LEMMA AcceptKeepsFlow ==
    ASSUME SyncInv, Sync!AcceptSend, Sync!SendInv'
    PROVE  Sync!FlowInv'
<1>0. v4 \in [Sends -> Nat] /\ v9 \in BOOLEAN /\ Len(v8) <= Backlog /\ v10 \subseteq Sync!Row
    BY SyncTypes, FlowTypes DEF SyncInv
<1>1. PICK s : s = Head(v7).s
    OBVIOUS
<1>2. /\ v4' = [v4 EXCEPT ![s] = @ + 1] /\ v3' = v3 \cup {<<s, v4'[s]>>}
      /\ v5' = v5 \cup {[m |-> <<s, v4'[s]>>, live |-> TRUE, read |-> FALSE]}
      /\ UNCHANGED <<v1, v2, v6, v8, v9, v10, v11, v12, v13, v14>> /\ Sync!Request("send")
    BY <1>1 DEF Sync!AcceptSend, Sync!store
<1>3. s \in Sends
    BY <1>1, <1>2, InboxTail, SendAtHead DEF SyncInv
<1>4. Sync!Accepted \subseteq Sync!Accepted' /\ <<s, v4'[s]>> \notin Sync!Accepted
    <2>1. v4'[s] = v4[s] + 1 /\ \A q \in Sends : v4[q] \in Nat /\ v4'[q] \in Nat /\ v4[q] <= v4'[q]
        BY <1>0, <1>2, <1>3
    <2>2. <<s, v4'[s]>> \notin Sync!Other
        BY <1>3, SendsAssumption DEF Sync!Other
    <2>3. v4'[s] \notin 1 .. v4[s]
        BY <1>3, <2>1
    <2>4. \A q \in Sends : 1 .. v4[q] \subseteq 1 .. v4'[q]
        BY <2>1
    <2>5. QED
        BY <2>2, <2>3, <2>4 DEF Sync!Accepted
<1>5. Sync!Gone \subseteq Sync!Gone'
    BY <1>2, <1>4 DEF Sync!Gone
<1>6. Passed({})
    <2>1. \E y \in v5' : y.m = <<s, v4'[s]>>
        <3>1. PICK y : y = [m |-> <<s, v4'[s]>>, live |-> TRUE, read |-> FALSE]
            OBVIOUS
        <3>2. y.m = <<s, v4'[s]>> /\ y \in v5'
            BY <1>2, <3>1
        <3>3. QED
            BY <3>2
    <2>2. QED
        BY <1>2, <2>1, CarriedStays
<1>7. v6 = "online" /\ \A i \in DOMAIN v7 : v7[i].kind = "open" => \E j \in DOMAIN v7' : v7'[j].kind = "open"
    BY <1>2, InboxTail
<1>8. QED
    BY <1>0, <1>2, <1>4, <1>5, <1>6, <1>7, NothingGrows, AnsweringKeepsFlow

LEMMA ReadKeepsFlow ==
    ASSUME SyncInv, NEW x \in v5, Sync!ReadRequest(x), Sync!SendInv'
    PROVE  Sync!FlowInv'
<1>1. /\ UNCHANGED <<v1, v2, v3, v4, v6, v7, v8, v9, v10, v12, v13, v14>>
      /\ v9 \in BOOLEAN /\ Len(v8) <= Backlog /\ v10 \subseteq Sync!Row
    BY FlowTypes DEF Sync!ReadRequest, Sync!store
<1>2. x \in Served /\ x.m[1] \in Sends
    <2>1. v5 \subseteq Served
        BY SyncTypes DEF SyncInv
    <2>2. QED
        BY <2>1 DEF Served, Sync!Accepted
<1>3. Sync!Accepted' = Sync!Accepted /\ Sync!Gone' = Sync!Gone
    BY <1>1 DEF Sync!Accepted, Sync!Gone
<1>4. /\ \A y \in v5 : y.m \in v3' => \E z \in v5' : z.m = y.m
      /\ \A y \in v5' : \E z \in v5 : y.live = z.live
    <2>1. CASE x.m \in v3
        <3>1. PICK z : z = [x EXCEPT !.read = TRUE]
            OBVIOUS
        <3>2. z.m = x.m /\ z.live = x.live
            BY <1>2, <3>1 DEF Served
        <3>3. v5' = (v5 \ {x}) \cup {z}
            BY <2>1, <3>1 DEF Sync!ReadRequest
        <3> HIDE <3>1
        <3>4. QED
            BY <3>2, <3>3
    <2>2. CASE x.m \notin v3
        BY <1>1, <2>2 DEF Sync!ReadRequest
    <2>3. QED
        BY <2>1, <2>2
<1>5. \A F : Passed(F)
    BY <1>1, <1>4, CarriedStays
<1>6. v6 # "online" => \A y \in v5' : ~y.live
    BY <1>4 DEF SyncInv, Sync!FlowInv, Sync!Connected
<1>7. CASE v11' = v11
    BY <1>1, <1>3, <1>5, <1>6, <1>7, NothingGrows, AnsweringKeepsFlow
<1>8. CASE x.live /\ Sync!Reply(<<Sync!Refusal(x.m[1])>>)
    <2>1. PICK f \in Sync!ToClient : f = Sync!Refusal(x.m[1])
        BY <1>2, FramesTyped DEF SyncInv
    <2>2. f.kind = "error"
        BY <2>1 DEF Sync!Refusal
    <2>3. Grows({f}) /\ ~Sync!HasThread(f)
        BY <1>8, <2>1, <2>2, ReplyGrows DEF SyncInv, Sync!HasThread
    <2>4. v6 = "online"
        BY <1>8 DEF SyncInv, Sync!FlowInv, Sync!Connected
    <2>5. QED
        BY <1>1, <1>3, <1>5, <1>6, <2>2, <2>3, <2>4, AnsweringKeepsFlow
<1>9. QED
    BY <1>7, <1>8 DEF Sync!ReadRequest

LEMMA SubscribeKeepsFlow ==
    ASSUME SyncInv, Sync!Subscribe, Sync!SendInv'
    PROVE  Sync!FlowInv'
<1>1. /\ UNCHANGED <<v1, v2, v3, v4, v5, v7, v8, v9, v10, v11, v12, v13, v14>>
      /\ v6 = "down" /\ v6' = "subscribed"
    BY DEF Sync!Subscribe, Sync!host, Sync!store
<1>2. Sync!Accepted' = Sync!Accepted /\ Sync!Gone' = Sync!Gone
    BY <1>1 DEF Sync!Accepted, Sync!Gone
<1>3. Sync!TypeOK'
    BY <1>1, <1>2, FlowTypes, SyncTyped
<1>4. Sync!Connected'
    BY <1>1 DEF SyncInv, Sync!FlowInv, Sync!Connected
<1>5. Sync!RemovedIsGone'
    BY <1>1, <1>2, NothingGrows, RemovedExtends
<1>6. Sync!OpenedIsCompleted' /\ Sync!MessagesArrive'
    BY <1>1, NothingGrows, MessagesExtend
<1>7. Sync!HistoriesGrow' /\ Sync!RevisionsGrow' /\ Sync!KnownIsLast'
    <2>1. v2.rev <= v2'.rev /\ v2' \in Sync!Row
        BY <1>1, FlowTypes
    <2>2. QED
        BY <1>1, <2>1, NothingGrows, HistoriesExtend, RevisionsExtend, KnownExtends
<1>8. Sync!LastIsCurrent'
    BY <1>1 DEF Sync!LastIsCurrent
<1>9. QED
    BY <1>3, <1>4, <1>5, <1>6, <1>7, <1>8 DEF Sync!FlowInv

LEMMA SendHelloKeepsFlow ==
    ASSUME SyncInv, Sync!SendHello, Sync!SendInv'
    PROVE  Sync!FlowInv'
<1>1. PICK f \in Sync!ToClient : f = Sync!Hello
    BY FramesTyped DEF SyncInv
<1>2. /\ UNCHANGED <<v1, v2, v3, v4, v5, v7, v8, v12, v13, v14>> /\ v9' = FALSE /\ v10' = {v2}
      /\ v6 = "subscribed" /\ v6' = "online" /\ Sync!Reply(<<f>>)
    BY <1>1 DEF Sync!SendHello, Sync!host, Sync!store
<1>3. f.kind = "hello" /\ f.hist = v1 /\ f.thr = v2 /\ Sync!Sets(f)
    BY <1>1 DEF Sync!Hello, Sync!Sets
<1>4. Grows({f})
    BY <1>2, ReplyGrows DEF SyncInv
<1>5. Sync!Accepted' = Sync!Accepted /\ Sync!Gone' = Sync!Gone
    BY <1>2 DEF Sync!Accepted, Sync!Gone
<1> HIDE <1>1
<1>6. Sync!TypeOK'
    <2>1. {v2} \subseteq Sync!Row
        BY FlowTypes
    <2>2. QED
        BY <1>2, <1>5, <2>1, FlowTypes, SyncTyped
<1>7. Sync!Connected'
    BY <1>2 DEF Sync!Connected
<1>8. Sync!RemovedIsGone'
    BY <1>2, <1>3, <1>4, <1>5, RemovedExtends DEF SyncInv, Sync!FlowInv, Sync!RemovedIsGone
<1>9. Sync!OpenedIsCompleted' /\ Sync!MessagesArrive'
    BY <1>2, <1>3, <1>4, MessagesExtend
<1>10. Sync!HistoriesGrow' /\ Sync!RevisionsGrow' /\ Sync!KnownIsLast'
    <2>1. v2.rev <= v2'.rev /\ v2' \in Sync!Row
        BY <1>2, FlowTypes
    <2>2. \A e \in {f} : (e.kind = "hello" => e.hist = v1) /\ (Sync!HasThread(e) => e.thr = v2')
        BY <1>2, <1>3
    <2>3. \E e \in {f} : Sync!Sets(e) /\ v10' = {e.thr}
        BY <1>2, <1>3
    <2>4. QED
        BY <1>2, <1>4, <2>1, <2>2, <2>3, HistoriesExtend, RevisionsExtend, KnownExtends
<1>11. Sync!LastIsCurrent'
    <2>1. \E e \in {f} : Sync!Sets(e) /\ e.thr = v2'
        BY <1>2, <1>3
    <2>2. QED
        BY <1>2, <1>4, <2>1, LastExtends
<1>12. QED
    BY <1>6, <1>7, <1>8, <1>9, <1>10, <1>11 DEF Sync!FlowInv

\* A reset: the client and the frames on their way are of the other history.
LEMMA ResetKeepsFlow ==
    ASSUME SyncInv, Sync!Reset, Sync!SendInv'
    PROVE  Sync!FlowInv'
<1>1. /\ UNCHANGED <<v4, v5, v6, v7, v8, v9, v10, v11, v12, v13, v14>>
      /\ v1 = 1 /\ v1' = 2 /\ v3' = {}
    BY DEF Sync!Reset, Sync!wire, Sync!store
<1>2. Sync!Accepted' = Sync!Accepted /\ Sync!Gone \subseteq Sync!Gone'
    BY <1>1 DEF Sync!Accepted, Sync!Gone
<1>3. Sync!HistoriesGrow /\ v12.hist \in {0, 1, 2}
      /\ \A i \in DOMAIN v11 : v11[i].kind = "hello" => v11[i].hist \in {1, 2}
    BY FlowTypes, FramesAre DEF SyncInv, Sync!FlowInv
<1>4. v12'.hist # v1' /\ \A i \in DOMAIN v11' : v11'[i].kind = "hello" => v11'[i].hist # v1'
    BY <1>1, <1>3 DEF Sync!HistoriesGrow
<1>5. ~Sync!Told' /\ \A i \in DOMAIN v11 : ~Sync!Fresh(i)'
    BY <1>1, <1>4 DEF Sync!Told, Sync!Fresh, Sync!Current
<1>6. Sync!TypeOK'
    BY <1>1, <1>2, FlowTypes, SyncTyped
<1>7. Sync!Connected'
    BY <1>1 DEF SyncInv, Sync!FlowInv, Sync!Connected
<1>8. Sync!RemovedIsGone'
    BY <1>1, <1>2, NothingGrows, RemovedExtends
<1>9. Sync!OpenedIsCompleted' /\ Sync!MessagesArrive'
    BY <1>1 DEF Sync!OpenedIsCompleted, Sync!MessagesArrive
<1>10. Sync!HistoriesGrow'
    BY <1>1, <1>3 DEF Sync!HistoriesGrow
<1>11. Sync!RevisionsGrow' /\ Sync!KnownIsLast' /\ Sync!LastIsCurrent'
    BY <1>1, <1>4, <1>5 DEF Sync!RevisionsGrow, Sync!KnownIsLast, Sync!LastIsCurrent
<1>12. QED
    BY <1>6, <1>7, <1>8, <1>9, <1>10, <1>11 DEF Sync!FlowInv

\* A lost connection takes both directions with it.
LEMMA BreakKeepsFlow ==
    ASSUME SyncInv, Sync!Break, Sync!SendInv'
    PROVE  Sync!FlowInv'
<1>1. /\ UNCHANGED <<v1, v2, v3, v4, v13, v14>> /\ v6' = "down"
      /\ v7' = <<>> /\ v8' = <<>> /\ v9' = FALSE /\ v11' = <<>> /\ v10' = {}
      /\ v5' = {[x EXCEPT !.live = FALSE] : x \in v5}
      /\ v12' = [v12 EXCEPT !.online = FALSE, !.sent = {}]
    BY DEF Sync!Break
<1>2. /\ v12'.hist = v12.hist /\ v12'.thr = v12.thr /\ ~v12'.online
      /\ \A x \in v5' : ~x.live
    <2>1. v12 \in ClientState /\ v5 \subseteq Served
        BY FlowTypes, SyncTypes DEF SyncInv
    <2>2. QED
        BY <1>1, <2>1 DEF ClientState, Served
<1>3. Sync!Accepted' = Sync!Accepted /\ Sync!Gone' = Sync!Gone
    BY <1>1 DEF Sync!Accepted, Sync!Gone
<1>4. DOMAIN v11' = {} /\ DOMAIN v8' = {} /\ Len(v8') = 0
    BY <1>1
<1>5. Sync!TypeOK'
    <2>1. Len(v8') <= Backlog
        BY <1>4, SendsAssumption
    <2>2. QED
        BY <1>1, <1>3, <2>1, FlowTypes, SyncTyped
<1>6. Sync!Connected'
    BY <1>1, <1>2 DEF Sync!Connected
<1>7. Sync!RemovedIsGone'
    BY <1>1, <1>3, <1>4 DEF SyncInv, Sync!FlowInv, Sync!RemovedIsGone
<1>8. Sync!OpenedIsCompleted' /\ Sync!MessagesArrive'
    BY <1>2, <1>4 DEF Sync!OpenedIsCompleted, Sync!MessagesArrive
<1>9. Sync!HistoriesGrow' /\ Sync!RevisionsGrow'
    BY <1>1, <1>2, <1>4 DEF SyncInv, Sync!FlowInv, Sync!HistoriesGrow, Sync!RevisionsGrow
<1>10. Sync!KnownIsLast' /\ Sync!LastIsCurrent'
    BY <1>1 DEF Sync!KnownIsLast, Sync!LastIsCurrent
<1>11. QED
    BY <1>5, <1>6, <1>7, <1>8, <1>9, <1>10 DEF Sync!FlowInv

\* The client writes to its outbox, or asks for the Thread.
LEMMA WritingKeepsFlow ==
    ASSUME SyncInv, Sync!SendInv',
           UNCHANGED <<v1, v2, v3, v4, v5, v6, v8, v9, v10, v11, v13, v14>>,
           v12'.online = v12.online, v12'.hist = v12.hist, v12'.thr = v12.thr, v12'.opened = v12.opened,
           v12'.opening = v12.opening \/ (v12'.opening /\ v12'.framed),
           Sync!OpenIsUnderWay => Sync!OpenIsUnderWay'
    PROVE  Sync!FlowInv'
<1>1. Sync!Accepted' = Sync!Accepted /\ Sync!Gone' = Sync!Gone
    BY DEF Sync!Accepted, Sync!Gone
<1>2. Sync!TypeOK'
    BY <1>1, FlowTypes, SyncTyped
<1>3. Sync!Connected'
    BY DEF SyncInv, Sync!FlowInv, Sync!Connected
<1>4. Sync!RemovedIsGone'
    BY <1>1, NothingGrows, RemovedExtends
<1>5. \A i, m : (Sync!Carried(m) => Sync!Carried(m)') /\ (Sync!AfterOpened(i, m) => Sync!AfterOpened(i, m)')
    BY DEF Sync!Carried, Sync!AfterOpened, Sync!Msg
<1>6. Sync!OpenedIsCompleted'
    BY <1>5 DEF SyncInv, Sync!FlowInv, Sync!OpenedIsCompleted
<1>7. Sync!MessagesArrive'
    <2>1. ~v12.opening /\ v12'.opening => v12'.framed
        OBVIOUS
    <2>2. ~v12.opening /\ v12'.opening => Sync!OpenIsUnderWay'
        BY <2>1 DEF Sync!OpenIsUnderWay
    <2>3. QED
        BY <1>5, <2>2 DEF SyncInv, Sync!FlowInv, Sync!MessagesArrive
<1>8. Sync!HistoriesGrow' /\ Sync!RevisionsGrow' /\ Sync!KnownIsLast' /\ Sync!LastIsCurrent'
    <2>1. v2' \in Sync!Row /\ v2.rev <= v2'.rev
        BY FlowTypes
    <2>2. QED
        BY <2>1, NothingGrows, HistoriesExtend, RevisionsExtend, KnownExtends, LastExtends
<1>9. QED
    BY <1>2, <1>3, <1>4, <1>6, <1>7, <1>8 DEF Sync!FlowInv

LEMMA OwnerKeepsFlow ==
    ASSUME SyncInv, Sync!Owner, Sync!SendInv'
    PROVE  Sync!FlowInv'
<1>0. v12 \in ClientState
    BY FlowTypes
<1>1. UNCHANGED <<v1, v2, v3, v4, v5, v6, v7, v8, v9, v10, v11, v13, v14>>
    BY DEF Sync!Owner, Sync!OpenThread, Sync!Submit, Sync!Retry, Sync!host, Sync!wire
<1>2. /\ v12'.online = v12.online /\ v12'.hist = v12.hist /\ v12'.thr = v12.thr
      /\ v12'.opened = v12.opened
      /\ \/ v12'.opening = v12.opening /\ v12'.framed = v12.framed
         \/ v12'.opening /\ v12'.framed
    BY <1>0 DEF ClientState, Sync!Owner, Sync!OpenThread, Sync!Submit, Sync!Retry
<1>3. Sync!OpenIsUnderWay => Sync!OpenIsUnderWay'
    BY <1>1, <1>2 DEF Sync!OpenIsUnderWay
<1>4. QED
    BY <1>1, <1>2, <1>3, WritingKeepsFlow

LEMMA FlushKeepsFlow ==
    ASSUME SyncInv, Sync!Flush, Sync!SendInv'
    PROVE  Sync!FlowInv'
<1>0. v12 \in ClientState /\ v7 \in Seq(Sync!ToHost)
    BY FlowTypes, SyncTypes DEF SyncInv
<1> DEFINE frames == {[kind |-> "send", s |-> s, hist |-> v15[s]] : s \in Sync!Unsent}
           open == [kind |-> "open"]
           sends == Sync!SetToSeq(frames)
           opens == IF v12.framed THEN <<open>> ELSE <<>>
<1>1. /\ UNCHANGED <<v1, v2, v3, v4, v5, v6, v8, v9, v10, v11, v13, v14>>
      /\ v7' = v7 \o opens \o sends
      /\ v12' = [v12 EXCEPT !.framed = FALSE, !.sent = @ \cup Sync!Unsent]
    BY DEF Sync!Flush, Sync!host
<1>2. /\ v12'.online = v12.online /\ v12'.hist = v12.hist /\ v12'.thr = v12.thr
      /\ v12'.opened = v12.opened /\ v12'.opening = v12.opening
    BY <1>0, <1>1 DEF ClientState
<1>3. sends \in Seq(frames)
    BY SendsOrdered DEF SyncInv
<1> HIDE DEF frames, sends
<1>4. /\ \A i \in DOMAIN v7 : i \in DOMAIN v7' /\ v7'[i] = v7[i]
      /\ v12.framed => \E i \in DOMAIN v7' : v7'[i] = open
    <2>0. open \in Sync!ToHost
        BY DEF Sync!ToHost
    <2>1. opens \in Seq(Sync!ToHost) /\ (v12.framed => \E i \in DOMAIN opens : opens[i] = open)
        <3>1. CASE v12.framed
            <4>1. opens = <<open>>
                BY <3>1
            <4> HIDE DEF open, opens
            <4>2. opens \in Seq(Sync!ToHost) /\ 1 \in DOMAIN opens /\ opens[1] = open
                BY <2>0, <4>1
            <4>3. QED
                BY <4>2
        <3>2. CASE ~v12.framed
            <4>1. opens = <<>>
                BY <3>2
            <4>2. opens \in Seq(Sync!ToHost)
                BY <4>1
            <4>3. QED
                BY <3>2, <4>2
        <3>3. QED
            BY <3>1, <3>2
    <2> HIDE DEF opens, open
    <2>2. /\ v7 \o opens \in Seq(Sync!ToHost)
          /\ \A i \in DOMAIN v7 : i \in DOMAIN (v7 \o opens) /\ (v7 \o opens)[i] = v7[i]
          /\ \A i \in DOMAIN opens : \E j \in DOMAIN (v7 \o opens) : (v7 \o opens)[j] = opens[i]
        BY <1>0, <2>1, ConcatOf, ConcatHas
    <2>3. \A i \in DOMAIN (v7 \o opens) : i \in DOMAIN v7' /\ v7'[i] = (v7 \o opens)[i]
        BY <1>1, <1>3, <2>2, ConcatHas
    <2>4. QED
        BY <2>1, <2>2, <2>3
<1>5. open.kind = "open"
    OBVIOUS
<1> HIDE DEF open
<1>6. Sync!OpenIsUnderWay => Sync!OpenIsUnderWay'
    BY <1>1, <1>2, <1>4, <1>5 DEF Sync!OpenIsUnderWay
<1>7. QED
    BY <1>1, <1>2, <1>6, WritingKeepsFlow

\* The client takes the first frame.
Shifts ==
    /\ 1 \in DOMAIN v11
    /\ \A i \in DOMAIN v11' : i + 1 \in DOMAIN v11 /\ v11'[i] = v11[i + 1] /\ i \in Nat /\ 0 < i
    /\ \A i \in DOMAIN v11 : i = 1 \/ (1 < i /\ i - 1 \in DOMAIN v11' /\ v11'[i - 1] = v11[i])

LEMMA ReceiveShifts ==
    ASSUME Sync!SendInv, v11 # <<>>, v11' = Tail(v11)
    PROVE  Shifts /\ Head(v11) = v11[1]
<1>1. v11 \in Seq(Sync!ToClient)
    BY SyncTypes
<1>2. /\ Len(v11) \in Nat \ {0} /\ DOMAIN v11 = 1 .. Len(v11) /\ Head(v11) = v11[1]
      /\ DOMAIN v11' = 1 .. Len(v11) - 1 /\ \A i \in 1 .. Len(v11) - 1 : v11'[i] = v11[i + 1]
    BY <1>1
<1>3. QED
    BY <1>2 DEF Shifts

\* What of the Thread it takes from the frame: a hello sets it and the history, an
\* upsert of its revision or a later one sets it, an opened frame may.
Takes(f) ==
    \/ f.kind = "hello" /\ v12'.hist = f.hist /\ v12'.thr = f.thr
    \/ /\ f.kind # "hello" /\ v12'.hist = v12.hist
       /\ \/ v12'.thr = v12.thr /\ (f.kind = "upsert" => f.thr.rev < v12.thr.rev)
          \/ Sync!HasThread(f) /\ v12'.thr = f.thr /\ v12.thr.rev <= f.thr.rev

LEMMA HistoriesShift ==
    ASSUME SyncInv, Shifts, v1' = v1, Takes(v11[1])
    PROVE  Sync!HistoriesGrow'
<1>1. /\ Sync!HistoriesGrow /\ v1 \in {1, 2} /\ v12.hist \in {0, 1, 2} /\ 1 \in DOMAIN v11
      /\ \A i \in DOMAIN v11 : v11[i].kind = "hello" => v11[i].hist \in {1, 2}
    BY FlowTypes, FramesAre DEF SyncInv, Sync!FlowInv, Shifts
<1>2. \/ v12'.hist = v12.hist
      \/ v11[1].kind = "hello" /\ v12'.hist = v11[1].hist
    BY DEF Takes
<1>3. ASSUME NEW i \in DOMAIN v11', v11'[i].kind = "hello"
      PROVE  /\ v12'.hist <= v11'[i].hist /\ v11'[i].hist <= v1'
             /\ \A j \in DOMAIN v11' : i <= j /\ v11'[j].kind = "hello" => v11'[i].hist <= v11'[j].hist
    <2>1. i + 1 \in DOMAIN v11 /\ v11'[i] = v11[i + 1] /\ 1 <= i + 1
        BY DEF Shifts
    <2>2. ASSUME NEW j \in DOMAIN v11', i <= j, v11'[j].kind = "hello"
          PROVE  v11'[i].hist <= v11'[j].hist
        <3>1. j + 1 \in DOMAIN v11 /\ v11'[j] = v11[j + 1] /\ i + 1 <= j + 1
            BY <2>2 DEF Shifts
        <3>2. QED
            BY <1>1, <1>3, <2>1, <2>2, <3>1 DEF Sync!HistoriesGrow
    <2>3. QED
        BY <1>1, <1>2, <1>3, <2>1, <2>2 DEF Sync!HistoriesGrow
<1>4. QED
    BY <1>1, <1>2, <1>3 DEF Sync!HistoriesGrow

\* What is fresh was, and so was the first frame if the client is of the history.
LEMMA FreshShifts ==
    ASSUME SyncInv, Shifts, v1' = v1, Takes(v11[1])
    PROVE  /\ \A i \in DOMAIN v11' : Sync!Fresh(i)' => Sync!Fresh(i + 1)
           /\ v12'.hist = v1 => Sync!Fresh(1)
           /\ Sync!Told' => Sync!Told
<1>1. v12'.hist = v1 => v12.hist = v1 \/ Sync!Current(v11[1])
    BY DEF Takes, Sync!Current
<1>2. ASSUME NEW h \in DOMAIN v11', v11'[h].kind = "hello", v11'[h].hist = v1'
      PROVE  h + 1 \in DOMAIN v11 /\ Sync!Current(v11[h + 1])
    BY <1>2 DEF Shifts, Sync!Current
<1>3. ASSUME NEW i \in DOMAIN v11', Sync!Fresh(i)'
      PROVE  Sync!Fresh(i + 1)
    <2>1. CASE v12'.hist = v1
        <3>1. 1 \in DOMAIN v11 /\ 1 <= i + 1
            BY DEF Shifts
        <3>2. QED
            BY <1>1, <2>1, <3>1 DEF Sync!Fresh
    <2>2. CASE \E h \in DOMAIN v11' : h <= i /\ v11'[h].kind = "hello" /\ v11'[h].hist = v1'
        <3>1. PICK h \in DOMAIN v11' : h <= i /\ v11'[h].kind = "hello" /\ v11'[h].hist = v1'
            BY <2>2
        <3>2. h + 1 <= i + 1
            BY <3>1 DEF Shifts
        <3>3. QED
            BY <1>2, <3>1, <3>2 DEF Sync!Fresh
    <2>3. QED
        BY <1>3, <2>1, <2>2 DEF Sync!Fresh, Sync!Current
<1>4. v12'.hist = v1 => Sync!Fresh(1)
    BY <1>1 DEF Sync!Fresh, Shifts
<1>5. Sync!Told' => Sync!Told
    BY <1>1, <1>2 DEF Sync!Told, Sync!Current, Shifts
<1>6. QED
    BY <1>3, <1>4, <1>5

LEMMA RevisionsShift ==
    ASSUME SyncInv, Shifts, UNCHANGED <<v1, v2>>, Takes(v11[1])
    PROVE  Sync!RevisionsGrow'
<1>1. /\ Sync!RevisionsGrow /\ v2.rev \in Nat /\ v12.thr.rev \in Nat /\ 1 \in DOMAIN v11
      /\ \A i \in DOMAIN v11 : Sync!HasThread(v11[i]) => v11[i].thr.rev \in Nat
    BY FlowTypes, FramesAre DEF SyncInv, Sync!FlowInv, Shifts
<1>2. \/ v12'.thr = v12.thr /\ v12'.hist = v12.hist
      \/ Sync!HasThread(v11[1]) /\ v12'.thr = v11[1].thr
    BY DEF Takes, Sync!HasThread
<1>3. v12'.hist = v1 => v12'.thr.rev <= v2.rev
    BY <1>1, <1>2, FreshShifts DEF Sync!RevisionsGrow
<1>4. ASSUME NEW i \in DOMAIN v11', Sync!HasThread(v11'[i])
      PROVE  /\ v12'.hist = v1' => v12'.thr.rev <= v11'[i].thr.rev
             /\ Sync!Fresh(i)' => v11'[i].thr.rev <= v2'.rev
             /\ Sync!Fresh(i)' => \A j \in DOMAIN v11' :
                   i <= j /\ Sync!HasThread(v11'[j]) => v11'[i].thr.rev <= v11'[j].thr.rev
    <2>1. i + 1 \in DOMAIN v11 /\ v11'[i] = v11[i + 1] /\ 1 <= i + 1
        BY DEF Shifts
    <2>2. v12'.hist = v1 => v12'.thr.rev <= v11'[i].thr.rev
        BY <1>1, <1>2, <1>4, <2>1, FreshShifts DEF Sync!RevisionsGrow
    <2>3. Sync!Fresh(i)' => Sync!Fresh(i + 1)
        BY FreshShifts
    <2>4. ASSUME Sync!Fresh(i + 1), NEW j \in DOMAIN v11', i <= j, Sync!HasThread(v11'[j])
          PROVE  v11'[i].thr.rev <= v11'[j].thr.rev
        <3>1. j + 1 \in DOMAIN v11 /\ v11'[j] = v11[j + 1] /\ i + 1 <= j + 1
            BY <2>4 DEF Shifts
        <3>2. QED
            BY <1>1, <1>4, <2>1, <2>4, <3>1 DEF Sync!RevisionsGrow
    <2>5. QED
        BY <1>1, <1>4, <2>1, <2>2, <2>3, <2>4 DEF Sync!RevisionsGrow
<1>5. QED
    BY <1>3, <1>4 DEF Sync!RevisionsGrow

LEMMA KnownShift ==
    ASSUME SyncInv, Shifts, UNCHANGED <<v1, v10>>, Takes(v11[1])
    PROVE  Sync!KnownIsLast'
<1>1. /\ Sync!KnownIsLast /\ Sync!RevisionsGrow /\ v12.thr.rev \in Nat /\ 1 \in DOMAIN v11
      /\ \A i \in DOMAIN v11 : i \in Nat
      /\ \A i \in DOMAIN v11 : Sync!HasThread(v11[i]) => v11[i].thr.rev \in Nat
    BY FlowTypes, FramesAre DEF SyncInv, Sync!FlowInv, Shifts
<1>2. ASSUME NEW k \in v10, Sync!Told
      PROVE  \/ \E i \in DOMAIN v11' :
                   /\ Sync!Sets(v11'[i]) /\ v11'[i].thr = k
                   /\ \A j \in DOMAIN v11' : i < j => ~Sync!HasThread(v11'[j])
             \/ v12'.thr = k /\ \A j \in DOMAIN v11' : ~Sync!HasThread(v11'[j])
    <2>1. CASE \E i \in DOMAIN v11 :
                   /\ Sync!Sets(v11[i]) /\ v11[i].thr = k
                   /\ \A j \in DOMAIN v11 : i < j => ~Sync!HasThread(v11[j])
        <3>1. PICK i \in DOMAIN v11 :
                   /\ Sync!Sets(v11[i]) /\ v11[i].thr = k
                   /\ \A j \in DOMAIN v11 : i < j => ~Sync!HasThread(v11[j])
            BY <2>1
        <3>2. CASE i = 1
            <4>1. \A j \in DOMAIN v11' : ~Sync!HasThread(v11'[j])
                BY <3>1, <3>2 DEF Shifts
            <4>2. CASE v11[1].kind = "hello"
                BY <3>1, <3>2, <4>1, <4>2 DEF Takes
            <4>3. CASE v11[1].kind = "upsert"
                <5>1. v12.hist = v1
                    <6>1. ASSUME NEW h \in DOMAIN v11, Sync!Current(v11[h]) PROVE FALSE
                        <7>1. Sync!HasThread(v11[h]) /\ h # 1
                            BY <4>3, <6>1 DEF Sync!Current, Sync!HasThread
                        <7>2. 1 < h
                            BY <7>1 DEF Shifts
                        <7>3. QED
                            BY <3>1, <3>2, <7>1, <7>2
                    <6>2. QED
                        BY <1>2, <6>1 DEF Sync!Told
                <5>2. v12.thr.rev <= v11[1].thr.rev
                    BY <1>1, <4>3, <5>1 DEF Sync!RevisionsGrow, Sync!HasThread
                <5>3. v12'.thr = v11[1].thr
                    BY <1>1, <4>3, <5>2 DEF Takes, Sync!HasThread
                <5>4. QED
                    BY <3>1, <3>2, <4>1, <5>3
            <4>4. QED
                BY <3>1, <3>2, <4>2, <4>3 DEF Sync!Sets
        <3>3. CASE i # 1
            <4>1. i - 1 \in DOMAIN v11' /\ v11'[i - 1] = v11[i]
                BY <3>3 DEF Shifts
            <4>2. \A j \in DOMAIN v11' : i - 1 < j => ~Sync!HasThread(v11'[j])
                <5>1. ASSUME NEW j \in DOMAIN v11', i - 1 < j PROVE ~Sync!HasThread(v11'[j])
                    <6>1. j + 1 \in DOMAIN v11 /\ v11'[j] = v11[j + 1] /\ j \in Nat /\ i \in Nat
                        BY <1>1 DEF Shifts
                    <6>2. i < j + 1
                        BY <5>1, <6>1
                    <6>3. QED
                        BY <3>1, <6>1, <6>2
                <5>2. QED
                    BY <5>1
            <4>3. QED
                BY <3>1, <4>1, <4>2
        <3>4. QED
            BY <3>2, <3>3
    <2>2. CASE v12.thr = k /\ \A j \in DOMAIN v11 : ~Sync!HasThread(v11[j])
        <3>1. \A j \in DOMAIN v11' : ~Sync!HasThread(v11'[j])
            BY <2>2 DEF Shifts
        <3>2. v12'.thr = v12.thr
            BY <1>1, <2>2 DEF Takes, Sync!HasThread
        <3>3. QED
            BY <2>2, <3>1, <3>2
    <2>3. QED
        BY <1>1, <1>2, <2>1, <2>2 DEF Sync!KnownIsLast
<1>3. QED
    BY <1>2, FreshShifts DEF Sync!KnownIsLast

LEMMA LastShift ==
    ASSUME SyncInv, Shifts, UNCHANGED <<v1, v2, v6, v8, v9>>, Takes(v11[1])
    PROVE  Sync!LastIsCurrent'
<1> SUFFICES ASSUME Sync!Told',
                    \/ \E i \in DOMAIN v11 :
                          /\ Sync!Sets(v11[i])
                          /\ \A j \in DOMAIN v11 : i <= j /\ Sync!HasThread(v11[j]) => v11[j].thr = v2
                    \/ v12.thr = v2 /\ \A j \in DOMAIN v11 : Sync!HasThread(v11[j]) => v11[j].thr = v2
             PROVE  \/ \E i \in DOMAIN v11' :
                          /\ Sync!Sets(v11'[i])
                          /\ \A j \in DOMAIN v11' : i <= j /\ Sync!HasThread(v11'[j]) => v11'[j].thr = v2
                    \/ v12'.thr = v2 /\ \A j \in DOMAIN v11' : Sync!HasThread(v11'[j]) => v11'[j].thr = v2
    BY FreshShifts DEF SyncInv, Sync!FlowInv, Sync!LastIsCurrent
<1>1. /\ Sync!RevisionsGrow /\ v12.thr.rev \in Nat /\ 1 \in DOMAIN v11
      /\ \A i \in DOMAIN v11 : i \in Nat
      /\ \A i \in DOMAIN v11 : Sync!HasThread(v11[i]) => v11[i].thr.rev \in Nat
    BY FlowTypes, FramesAre DEF SyncInv, Sync!FlowInv, Shifts
<1>2. ASSUME NEW i \in DOMAIN v11, i # 1, Sync!Sets(v11[i]),
             \A j \in DOMAIN v11 : i <= j /\ Sync!HasThread(v11[j]) => v11[j].thr = v2
      PROVE  \E h \in DOMAIN v11' :
                /\ Sync!Sets(v11'[h])
                /\ \A j \in DOMAIN v11' : h <= j /\ Sync!HasThread(v11'[j]) => v11'[j].thr = v2
    <2>1. i - 1 \in DOMAIN v11' /\ v11'[i - 1] = v11[i]
        BY <1>2 DEF Shifts
    <2>2. ASSUME NEW j \in DOMAIN v11', i - 1 <= j, Sync!HasThread(v11'[j]) PROVE v11'[j].thr = v2
        <3>1. j + 1 \in DOMAIN v11 /\ v11'[j] = v11[j + 1] /\ j \in Nat /\ i \in Nat
            BY <1>1 DEF Shifts
        <3>2. i <= j + 1
            BY <2>2, <3>1
        <3>3. QED
            BY <1>2, <2>2, <3>1, <3>2
    <2>3. QED
        BY <1>2, <2>1, <2>2
<1>3. ASSUME \A j \in DOMAIN v11 : Sync!HasThread(v11[j]) => v11[j].thr = v2
      PROVE  \A j \in DOMAIN v11' : Sync!HasThread(v11'[j]) => v11'[j].thr = v2
    BY <1>3 DEF Shifts
<1>4. CASE \E i \in DOMAIN v11 :
              /\ Sync!Sets(v11[i])
              /\ \A j \in DOMAIN v11 : i <= j /\ Sync!HasThread(v11[j]) => v11[j].thr = v2
    <2>1. PICK i \in DOMAIN v11 :
              /\ Sync!Sets(v11[i])
              /\ \A j \in DOMAIN v11 : i <= j /\ Sync!HasThread(v11[j]) => v11[j].thr = v2
        BY <1>4
    <2>2. CASE i # 1
        BY <1>2, <2>1, <2>2
    <2>3. CASE i = 1
        <3>1. \A j \in DOMAIN v11 : 1 <= j
            BY <1>1 DEF Shifts
        <3>2. \A j \in DOMAIN v11 : Sync!HasThread(v11[j]) => v11[j].thr = v2
            BY <2>1, <2>3, <3>1
        <3>3. Sync!HasThread(v11[1])
            BY <2>1, <2>3 DEF Sync!Sets, Sync!HasThread
        <3>4. CASE v11[1].kind = "hello"
            BY <1>1, <1>3, <3>2, <3>3, <3>4 DEF Takes
        <3>5. CASE v11[1].kind = "upsert" /\ v12.hist = v1
            <4>1. v12.thr.rev <= v11[1].thr.rev
                BY <1>1, <3>3, <3>5 DEF Sync!RevisionsGrow
            <4>2. v12'.thr = v11[1].thr
                BY <1>1, <3>3, <3>5, <4>1 DEF Takes
            <4>3. QED
                BY <1>1, <1>3, <3>2, <3>3, <4>2
        <3>6. CASE v11[1].kind = "upsert" /\ v12.hist # v1
            <4>1. PICK h \in DOMAIN v11 : Sync!Current(v11[h])
                BY <3>6, FreshShifts DEF Sync!Told
            <4>2. h # 1 /\ Sync!Sets(v11[h])
                BY <3>6, <4>1 DEF Sync!Current, Sync!Sets
            <4>3. QED
                BY <1>2, <3>2, <4>2
        <3>7. QED
            BY <2>1, <2>3, <3>4, <3>5, <3>6 DEF Sync!Sets
    <2>4. QED
        BY <2>2, <2>3
<1>5. CASE v12.thr = v2 /\ \A j \in DOMAIN v11 : Sync!HasThread(v11[j]) => v11[j].thr = v2
    <2>1. v12'.thr = v2
        BY <1>1, <1>5 DEF Takes, Sync!HasThread
    <2>2. QED
        BY <1>3, <1>5, <2>1
<1>6. QED
    BY <1>4, <1>5

\* What the client does with the messages of the frame it takes.
Shows(f) ==
    \/ f.kind = "hello" /\ (v12'.opened \/ v12'.opening => v12'.opening /\ v12'.framed)
    \/ /\ f.kind # "hello"
       /\ v12'.online = v12.online /\ v12'.hist = v12.hist
       /\ \A m \in v3 : m \in v13 \/ f = Sync!Msg(m) => m \in v13'
       /\ \/ /\ v12'.opened = v12.opened /\ v12'.opening = v12.opening
             /\ v12'.framed = v12.framed /\ (f.kind = "opened" => ~v12.opening)
          \/ f.kind = "opened" /\ v12.opening /\ \A m \in v3 : m \in f.ms => m \in v13'

LEMMA MessagesShift ==
    ASSUME SyncInv, Shifts, UNCHANGED <<v1, v3, v5, v7, v8, v9>>, Shows(v11[1])
    PROVE  Sync!OpenedIsCompleted' /\ Sync!MessagesArrive'
<1>1. Sync!OpenedIsCompleted /\ Sync!MessagesArrive /\ \A i \in DOMAIN v11 : i \in Nat
    BY FramesAre DEF SyncInv, Sync!FlowInv
<1>2. \A m : Sync!Carried(m) => Sync!Carried(m)'
    BY DEF Sync!Carried, Sync!Msg
<1>3. ASSUME NEW m, NEW i \in Nat, NEW j \in DOMAIN v11, i + 1 < j,
             v11[j].kind = "hello" \/ v11[j] = Sync!Msg(m)
      PROVE  Sync!AfterOpened(i, m)'
    <2>1. j \in Nat /\ j # 1
        BY <1>1, <1>3
    <2>2. j - 1 \in DOMAIN v11' /\ v11'[j - 1] = v11[j]
        BY <2>1 DEF Shifts
    <2>3. i < j - 1
        BY <1>3, <2>1
    <2>4. QED
        BY <1>3, <2>2, <2>3 DEF Sync!AfterOpened, Sync!Msg
<1>4. Sync!OpenedIsCompleted'
    <2>1. ASSUME NEW i \in DOMAIN v11', v11'[i].kind = "opened", NEW m \in v3 \ v11'[i].ms
          PROVE  Sync!Carried(m)' \/ Sync!AfterOpened(i, m)'
        <3>1. i + 1 \in DOMAIN v11 /\ v11'[i] = v11[i + 1] /\ i \in Nat
            BY DEF Shifts
        <3>2. Sync!Carried(m) \/ Sync!AfterOpened(i + 1, m)
            BY <1>1, <2>1, <3>1 DEF Sync!OpenedIsCompleted
        <3>3. QED
            BY <1>2, <1>3, <3>1, <3>2 DEF Sync!AfterOpened
    <2>2. QED
        BY <2>1 DEF Sync!OpenedIsCompleted
<1>5. ASSUME v12'.online, v12'.hist = v1, v12'.opened \/ v12'.opening, NEW m \in v3
      PROVE  m \in v13' \/ Sync!Carried(m)' \/ Sync!AfterOpened(0, m)' \/ Sync!OpenIsUnderWay'
    <2>1. CASE v11[1].kind = "hello"
        BY <1>5, <2>1 DEF Shows, Sync!OpenIsUnderWay
    <2>2. CASE /\ v11[1].kind # "hello"
               /\ v12'.online = v12.online /\ v12'.hist = v12.hist
               /\ m \in v13 \/ v11[1] = Sync!Msg(m) => m \in v13'
               /\ v12'.opened = v12.opened /\ v12'.opening = v12.opening
               /\ v12'.framed = v12.framed /\ (v11[1].kind = "opened" => ~v12.opening)
        <3>1. m \in v13 \/ Sync!Carried(m) \/ Sync!AfterOpened(0, m) \/ Sync!OpenIsUnderWay
            BY <1>1, <1>5, <2>2 DEF Sync!MessagesArrive
        <3>2. CASE Sync!AfterOpened(0, m)
            <4>1. PICK j \in DOMAIN v11 : v11[j].kind = "hello" \/ v11[j] = Sync!Msg(m)
                BY <3>2 DEF Sync!AfterOpened
            <4>2. CASE j = 1
                BY <2>2, <4>1, <4>2
            <4>3. CASE j # 1
                BY <1>3, <4>1, <4>3 DEF Shifts
            <4>4. QED
                BY <4>2, <4>3
        <3>3. CASE Sync!OpenIsUnderWay
            <4>1. v12.opening
                BY <3>3 DEF Sync!OpenIsUnderWay
            <4>2. ASSUME NEW i \in DOMAIN v11, v11[i].kind = "opened"
                  PROVE  \E h \in DOMAIN v11' : v11'[h].kind = "opened"
                BY <2>2, <4>1, <4>2 DEF Shifts
            <4>3. QED
                BY <2>2, <3>3, <4>1, <4>2 DEF Sync!OpenIsUnderWay
        <3>4. QED
            BY <1>2, <2>2, <3>1, <3>2, <3>3
    <2>3. CASE v11[1].kind = "opened" /\ (m \in v11[1].ms => m \in v13')
        <3>1. 1 \in DOMAIN v11
            BY DEF Shifts
        <3>2. m \in v13' \/ Sync!Carried(m) \/ Sync!AfterOpened(1, m)
            BY <1>1, <2>3, <3>1 DEF Sync!OpenedIsCompleted
        <3>3. QED
            BY <1>2, <1>3, <3>2 DEF Sync!AfterOpened
    <2>4. QED
        BY <2>1, <2>2, <2>3 DEF Shows
<1>6. QED
    BY <1>4, <1>5 DEF Sync!MessagesArrive

\* A frame is taken: what it says of the Thread, of the messages and of removals.
LEMMA TakingKeepsFlow ==
    ASSUME SyncInv, Sync!SendInv', Shifts,
           UNCHANGED <<v1, v2, v3, v4, v5, v6, v7, v8, v9, v10>>,
           Takes(v11[1]), Shows(v11[1]), v13' \subseteq Sync!Accepted,
           v14' \subseteq Sync!Gone, v13' \cap v14' = {}
    PROVE  Sync!FlowInv'
<1>1. Sync!Accepted' = Sync!Accepted /\ Sync!Gone' = Sync!Gone /\ Sync!Gone \subseteq Sync!Accepted
    BY DEF Sync!Accepted, Sync!Gone
<1>2. Sync!TypeOK'
    BY <1>1, FlowTypes, SyncTyped
<1>3. Sync!Connected'
    <2>1. DOMAIN v11 # {}
        BY DEF Shifts
    <2>2. v6 = "online"
        BY <2>1 DEF SyncInv, Sync!FlowInv, Sync!Connected
    <2>3. QED
        BY <2>2 DEF Sync!Connected
<1>4. Sync!RemovedIsGone'
    BY <1>1 DEF SyncInv, Sync!FlowInv, Sync!RemovedIsGone, Shifts
<1>5. Sync!OpenedIsCompleted' /\ Sync!MessagesArrive'
    BY MessagesShift
<1>6. Sync!HistoriesGrow' /\ Sync!RevisionsGrow' /\ Sync!KnownIsLast' /\ Sync!LastIsCurrent'
    BY HistoriesShift, RevisionsShift, KnownShift, LastShift
<1>7. QED
    BY <1>2, <1>3, <1>4, <1>5, <1>6 DEF Sync!FlowInv

\* What is shown of a hello.
LEMMA HelloKeepsFlow ==
    ASSUME SyncInv, Sync!ReceiveHello, Sync!SendInv', Shifts, v11[1].kind = "hello",
           UNCHANGED <<v1, v2, v3, v4, v5, v6, v7, v8, v9, v10>>, Head(v11) = v11[1]
    PROVE  Sync!FlowInv'
<1> DEFINE f == v11[1]
           c == Sync!NewStore(v12, f.hist)
<1>1. /\ v12' = [c EXCEPT !.online = TRUE, !.hist = f.hist, !.thr = f.thr, !.sent = {},
                          !.opening = Sync!Reopen(c), !.framed = Sync!Reopen(c)]
      /\ (v13' = {} /\ v14' = {}) \/ (v13' = v13 /\ v14' = v14)
    BY DEF Sync!ReceiveHello, Sync!SentAfterHello
<1>2. c \in ClientState
    <2>1. CASE c = v12
        BY <2>1, FlowTypes
    <2>2. CASE c = [Sync!NewClient EXCEPT !.drafts = Sync!Drafts(v12)]
        <3>1. v12 \in ClientState /\ Sync!NewClient \in ClientState
            BY FlowTypes DEF Sync!NewClient, ClientState, Sync!NewThread, Sync!Row
        <3>2. Sync!Drafts(v12) \subseteq Sends
            BY <3>1 DEF Sync!Drafts, ClientState
        <3>3. QED
            BY <2>2, <3>1, <3>2 DEF ClientState
    <2>3. QED
        BY <2>1, <2>2 DEF Sync!NewStore
<1> HIDE DEF c
<1>3. /\ v12'.hist = f.hist /\ v12'.thr = f.thr /\ v12'.opened = c.opened
      /\ v12'.opening = Sync!Reopen(c) /\ v12'.framed = Sync!Reopen(c)
    BY <1>1, <1>2 DEF ClientState
<1>4. v12'.opened \/ v12'.opening => v12'.opening /\ v12'.framed
    BY <1>3 DEF Sync!Reopen
<1>5. Takes(f) /\ Shows(f)
    BY <1>3, <1>4 DEF Takes, Shows
<1>6. v13' \subseteq Sync!Accepted /\ v14' \subseteq Sync!Gone /\ v13' \cap v14' = {}
    BY <1>1, FlowTypes DEF SyncInv, Sync!FlowInv, Sync!RemovedIsGone
<1>7. QED
    BY <1>5, <1>6, TakingKeepsFlow

\* What a client that waits for it takes from a Thread it opened.
LEMMA OpenedKeepsFlow ==
    ASSUME SyncInv, Sync!ReceiveOpened, Sync!SendInv', Shifts, v11[1].kind = "opened",
           UNCHANGED <<v1, v2, v3, v4, v5, v6, v7, v8, v9, v10>>, Head(v11) = v11[1]
    PROVE  Sync!FlowInv'
<1> DEFINE f == v11[1]
           c == Sync!Confirm(v12, f.ms)
<1>0. /\ v12 \in ClientState /\ v12.thr.rev \in Nat /\ Sync!SendInv
      /\ Sync!RemovedIsGone /\ v13 \subseteq Sync!Accepted
    BY FlowTypes DEF SyncInv, Sync!FlowInv
<1>1. f.ms \in SUBSET Sync!Accepted /\ f.thr \in Sync!Row /\ f.thr.rev \in Nat
    <2>1. 1 \in DOMAIN v11
        BY DEF Shifts
    <2>2. f \in Sync!ToClient
        BY <1>0, <2>1, FramesAre
    <2>3. QED
        BY <2>2 DEF Sync!ToClient, Sync!Row
<1>2. /\ v14' = v14 /\ v14 \subseteq Sync!Gone
      /\ \A m \in v3 : m \notin v14
    BY <1>0 DEF Sync!ReceiveOpened, Sync!RemovedIsGone, Sync!Gone
<1>3. CASE v12.opening
    <2>1. /\ v12' = [c EXCEPT !.opening = FALSE, !.opened = TRUE, !.thr = Sync!Newer(@, f.thr)]
          /\ v13' = v13 \cup (f.ms \ v14)
        BY <1>3 DEF Sync!ReceiveOpened, Sync!StillShown
    <2>2. c \in ClientState
        BY <1>0, <1>1, ConfirmKeeps
    <2>3. c.online = v12.online /\ c.hist = v12.hist /\ c.thr = v12.thr
        BY <1>0 DEF ClientState, Sync!Confirm
    <2> HIDE DEF c
    <2>4. v12'.online = v12.online /\ v12'.hist = v12.hist /\ v12'.thr = Sync!Newer(v12.thr, f.thr)
        BY <2>1, <2>2, <2>3 DEF ClientState
    <2>5. Takes(f)
        <3>1. \/ v12'.thr = v12.thr
              \/ v12'.thr = f.thr /\ v12.thr.rev <= f.thr.rev
            BY <1>0, <1>1, <2>4 DEF Sync!Newer
        <3>2. QED
            BY <2>4, <3>1 DEF Takes, Sync!HasThread
    <2>6. Shows(f)
        <3>1. \A m \in v3 : f # Sync!Msg(m)
            BY DEF Sync!Msg
        <3>2. QED
            BY <1>2, <1>3, <2>1, <2>4, <3>1 DEF Shows
    <2>7. v13' \subseteq Sync!Accepted /\ v13' \cap v14' = {}
        BY <1>0, <1>1, <1>2, <2>1 DEF Sync!RemovedIsGone
    <2>8. QED
        BY <1>2, <2>5, <2>6, <2>7, TakingKeepsFlow
<1>4. CASE ~v12.opening
    <2>1. v12' = v12 /\ v13' = v13
        BY <1>4 DEF Sync!ReceiveOpened
    <2>2. \A m \in v3 : f # Sync!Msg(m)
        BY DEF Sync!Msg
    <2>3. Takes(f) /\ Shows(f)
        BY <1>4, <2>1, <2>2 DEF Takes, Shows
    <2>4. QED
        BY <1>0, <1>2, <2>1, <2>3, TakingKeepsFlow DEF Sync!RemovedIsGone
<1>5. QED
    BY <1>3, <1>4

\* A message, a removal, an upsert, an error.
LEMMA OtherFrameKeepsFlow ==
    ASSUME SyncInv, Sync!SendInv', Shifts, Head(v11) = v11[1],
           UNCHANGED <<v1, v2, v3, v4, v5, v6, v7, v8, v9, v10>>,
           \/ Sync!ReceiveMsg /\ v11[1].kind = "msg"
           \/ Sync!ReceiveRemoved /\ v11[1].kind = "removed"
           \/ Sync!ReceiveUpsert /\ v11[1].kind = "upsert"
           \/ Sync!ReceiveError /\ v11[1].kind = "error"
    PROVE  Sync!FlowInv'
<1> DEFINE f == v11[1]
<1>0. /\ v12 \in ClientState /\ v12.thr.rev \in Nat
      /\ v14 \subseteq Sync!Gone /\ v13 \cap v14 = {} /\ v13 \subseteq Sync!Accepted
      /\ \A m \in v3 : m \notin v14
    BY FlowTypes DEF SyncInv, Sync!FlowInv, Sync!RemovedIsGone, Sync!Gone
<1>1. f \in Sync!ToClient /\ 1 \in DOMAIN v11
    BY FramesAre DEF SyncInv, Shifts
<1>2. \A m : Sync!Msg(m).kind = "msg" /\ Sync!Msg(m).m = m
    BY DEF Sync!Msg
<1>3. CASE Sync!ReceiveMsg /\ f.kind = "msg"
    <2>1. f.m \in Sync!Accepted /\ v12' = Sync!Confirm(v12, {f.m})
          /\ v13' = v13 \cup ({f.m} \ v14) /\ v14' = v14
        BY <1>1, <1>3 DEF Sync!ReceiveMsg, Sync!StillShown, Sync!ToClient
    <2>2. /\ v12'.online = v12.online /\ v12'.hist = v12.hist /\ v12'.thr = v12.thr
          /\ v12'.opened = v12.opened /\ v12'.opening = v12.opening /\ v12'.framed = v12.framed
        BY <1>0, <2>1 DEF ClientState, Sync!Confirm
    <2>3. \A m \in v3 : m \in v13 \/ f = Sync!Msg(m) => m \in v13'
        BY <1>0, <1>2, <2>1
    <2>4. Takes(f) /\ Shows(f)
        BY <1>3, <2>2, <2>3 DEF Takes, Shows
    <2>5. v13' \subseteq Sync!Accepted /\ v14' \subseteq Sync!Gone /\ v13' \cap v14' = {}
        BY <1>0, <2>1
    <2>6. QED
        BY <2>4, <2>5, TakingKeepsFlow
<1>4. CASE Sync!ReceiveRemoved /\ f.kind = "removed"
    <2>1. v12' = v12 /\ v13' = v13 \ {f.m} /\ v14' = v14 \cup {f.m}
        BY <1>4 DEF Sync!ReceiveRemoved
    <2>2. f.m \in Sync!Gone /\ f.m \notin v3
        BY <1>1, <1>4 DEF SyncInv, Sync!FlowInv, Sync!RemovedIsGone, Sync!Gone
    <2>3. \A m \in v3 : m \in v13 \/ f = Sync!Msg(m) => m \in v13'
        BY <1>2, <1>4, <2>1, <2>2
    <2>4. Takes(f) /\ Shows(f)
        BY <1>4, <2>1, <2>3 DEF Takes, Shows
    <2>5. v13' \subseteq Sync!Accepted /\ v14' \subseteq Sync!Gone /\ v13' \cap v14' = {}
        BY <1>0, <2>1, <2>2
    <2>6. QED
        BY <2>4, <2>5, TakingKeepsFlow
<1>5. CASE Sync!ReceiveUpsert /\ f.kind = "upsert"
    <2>1. /\ f.thr \in Sync!Row /\ f.thr.rev \in Nat /\ v13' = v13 /\ v14' = v14
          /\ v12' = [v12 EXCEPT !.thr = Sync!Newer(@, f.thr)]
        BY <1>1, <1>5 DEF Sync!ReceiveUpsert, Sync!ToClient, Sync!Row
    <2>2. /\ v12'.online = v12.online /\ v12'.hist = v12.hist
          /\ v12'.thr = Sync!Newer(v12.thr, f.thr)
          /\ v12'.opened = v12.opened /\ v12'.opening = v12.opening /\ v12'.framed = v12.framed
        BY <1>0, <2>1 DEF ClientState
    <2>3. \/ v12'.thr = v12.thr /\ f.thr.rev < v12.thr.rev
          \/ v12'.thr = f.thr /\ v12.thr.rev <= f.thr.rev
        BY <1>0, <2>1, <2>2 DEF Sync!Newer
    <2>4. Takes(f)
        BY <1>5, <2>2, <2>3 DEF Takes, Sync!HasThread
    <2>5. Shows(f)
        BY <1>2, <1>5, <2>1, <2>2 DEF Shows
    <2>6. QED
        BY <1>0, <2>1, <2>4, <2>5, TakingKeepsFlow
<1>6. CASE Sync!ReceiveError /\ f.kind = "error"
    <2>1. v13' = v13 /\ v14' = v14
        BY <1>6 DEF Sync!ReceiveError
    <2>2. /\ v12'.online = v12.online /\ v12'.hist = v12.hist /\ v12'.thr = v12.thr
          /\ v12'.opened = v12.opened /\ v12'.opening = v12.opening /\ v12'.framed = v12.framed
        BY <1>0, <1>6 DEF ClientState, Sync!ReceiveError
    <2>3. Takes(f)
        BY <1>6, <2>2 DEF Takes
    <2>4. Shows(f)
        BY <1>2, <1>6, <2>1, <2>2 DEF Shows
    <2>5. QED
        BY <1>0, <2>1, <2>3, <2>4, TakingKeepsFlow
<1>7. QED
    BY <1>3, <1>4, <1>5, <1>6

LEMMA ReceiveKeepsFlow ==
    ASSUME SyncInv, Sync!SendInv',
           Sync!ReceiveHello \/ Sync!ReceiveMsg \/ Sync!ReceiveRemoved \/ Sync!ReceiveUpsert
           \/ Sync!ReceiveOpened \/ Sync!ReceiveError
    PROVE  Sync!FlowInv'
<1>1. /\ UNCHANGED <<v1, v2, v3, v4, v5, v6, v7, v8, v9, v10>>
      /\ v11 # <<>> /\ v11' = Tail(v11)
    BY DEF Sync!ReceiveHello, Sync!ReceiveMsg, Sync!ReceiveRemoved, Sync!ReceiveUpsert,
           Sync!ReceiveOpened, Sync!ReceiveError, Sync!Receive, Sync!host
<1>2. Shifts /\ Head(v11) = v11[1]
    BY <1>1, ReceiveShifts DEF SyncInv
<1>3. /\ Sync!ReceiveHello => v11[1].kind = "hello"
      /\ Sync!ReceiveMsg => v11[1].kind = "msg"
      /\ Sync!ReceiveRemoved => v11[1].kind = "removed"
      /\ Sync!ReceiveUpsert => v11[1].kind = "upsert"
      /\ Sync!ReceiveOpened => v11[1].kind = "opened"
      /\ Sync!ReceiveError => v11[1].kind = "error"
    BY <1>2 DEF Sync!ReceiveHello, Sync!ReceiveMsg, Sync!ReceiveRemoved, Sync!ReceiveUpsert,
                Sync!ReceiveOpened, Sync!ReceiveError, Sync!Receive
<1>4. QED
    BY <1>1, <1>2, <1>3, HelloKeepsFlow, OpenedKeepsFlow, OtherFrameKeepsFlow

\* Every step of the client and the host keeps the invariant.
LEMMA SyncNextKeepsFlow == SyncInv /\ Sync!Next => SyncInv'
<1> SUFFICES ASSUME SyncInv, Sync!Next PROVE Sync!FlowInv' /\ Sync!SendInv'
    BY DEF SyncInv
<1>1. Sync!SendInv'
    BY SyncNextKeepsInv DEF SyncInv
<1>2. CASE Sync!World
    BY <1>1, <1>2, ChangeThreadKeepsFlow, PostOtherKeepsFlow, ResetKeepsFlow, BreakKeepsFlow,
       CancelKeepsFlow DEF Sync!World
<1>3. CASE Sync!Hosts
    BY <1>1, <1>3, SubscribeKeepsFlow, SendHelloKeepsFlow, SnapshotKeepsFlow, ForwardKeepsFlow,
       ServeOpenKeepsFlow, AnswerKeepsFlow, AcceptKeepsFlow, ReadKeepsFlow, PublishKeepsFlow
       DEF Sync!Hosts
<1>4. CASE Sync!Owner
    BY <1>1, <1>4, OwnerKeepsFlow
<1>5. CASE Sync!Clients
    BY <1>1, <1>5, FlushKeepsFlow, ReceiveKeepsFlow DEF Sync!Clients
<1>6. CASE \E x \in v5 : Sync!PublishRefused(x)
    BY <1>1, <1>6, PublishKeepsFlow
<1>7. CASE Sync!ResyncFails
    BY <1>1, <1>7, NoSnapshotKeepsFlow
<1>8. QED
    BY <1>1, <1>2, <1>3, <1>4, <1>5, <1>6, <1>7 DEF Sync!Next

LEMMA SyncInitFlow == Sync!Init => SyncInv
<1> SUFFICES ASSUME Sync!Init PROVE Sync!FlowInv
    BY SyncInitInv DEF SyncInv
<1>1. /\ v1 = 1 /\ v2 = Sync!NewThread /\ v3 = {} /\ v4 = [s \in Sends |-> 0] /\ v5 = {}
      /\ v6 = "down" /\ v8 = <<>> /\ v9 = FALSE /\ v17 = FALSE /\ v10 = {} /\ v11 = <<>> /\ DOMAIN v11 = {}
      /\ DOMAIN v8 = {} /\ Len(v8) = 0 /\ v13 = {} /\ v14 = {}
      /\ v15 = [s \in Sends |-> 0]
    BY DEF Sync!Init
<1>2. v12 = Sync!NewClient
    BY DEF Sync!Init
<1>3. /\ v12.online = FALSE /\ v12.hist = 0 /\ v12.thr = Sync!NewThread
      /\ v12.out = [s \in Sends |-> "no"] /\ v12.sent = {} /\ v12.drafts = {}
      /\ v12.opened = FALSE /\ v12.opening = FALSE /\ v12.framed = FALSE
      /\ Sync!NewThread \in Sync!Row
    BY <1>2 DEF Sync!NewClient, Sync!NewThread, Sync!Row
<1>4. Sync!TypeOK
    <2>1. Backlog \in Nat /\ 0 <= Backlog
        BY SendsAssumption
    <2>2. v4 \in [Sends -> Nat] /\ v15 \in [Sends -> {0} \cup Sync!History]
        BY <1>1
    <2>3. v12.out \in [Sends -> {"no", "pending", "error"}]
        BY <1>3
    <2>4. QED
        BY <1>1, <1>3, <2>1, <2>2, <2>3 DEF Sync!TypeOK, Sync!History
<1>5. Sync!Connected /\ Sync!RemovedIsGone /\ Sync!OpenedIsCompleted /\ Sync!MessagesArrive
    BY <1>1, <1>3 DEF Sync!Connected, Sync!RemovedIsGone, Sync!OpenedIsCompleted, Sync!MessagesArrive
<1>6. Sync!HistoriesGrow /\ Sync!RevisionsGrow /\ Sync!KnownIsLast /\ Sync!LastIsCurrent
    BY <1>1, <1>3 DEF Sync!HistoriesGrow, Sync!RevisionsGrow, Sync!KnownIsLast, Sync!LastIsCurrent
<1>7. QED
    BY <1>4, <1>5, <1>6 DEF Sync!FlowInv

\* A quiet client has what is neither queued nor on its way, which nothing is,
\* nor dropped with no snapshot in its place.
LEMMA FlowImpliesCurrent == SyncInv => Sync!QuietClientIsCurrent
<1> SUFFICES ASSUME SyncInv, Sync!Quiet
             PROVE  /\ ~Sync!Stale => v12.thr = v2 /\ (v12.opened => v3 \subseteq v13)
                    /\ v13 \cap v14 = {}
    BY DEF Sync!QuietClientIsCurrent
<1>1. /\ DOMAIN v8 = {} /\ DOMAIN v11 = {} /\ DOMAIN v7 = {} /\ ~v17 /\ v5 = {} /\ ~v12.framed
      /\ v12.online /\ v6 = "online" /\ v12.hist = v1
    BY DEF Sync!Quiet
<1>2. ASSUME ~Sync!Stale
      PROVE  v12.thr = v2 /\ (v12.opened => v3 \subseteq v13)
    <2>1. ~v9
        BY <1>1, <1>2 DEF Sync!Stale
    <2>2. v12.thr = v2
        BY <1>1, <2>1 DEF SyncInv, Sync!FlowInv, Sync!LastIsCurrent, Sync!Told
    <2>3. \A m : ~Sync!Carried(m) /\ ~Sync!AfterOpened(0, m)
        BY <1>1, <2>1 DEF Sync!Carried, Sync!AfterOpened
    <2>4. ~Sync!OpenIsUnderWay
        BY <1>1 DEF Sync!OpenIsUnderWay
    <2>5. v12.opened => v3 \subseteq v13
        BY <1>1, <2>3, <2>4 DEF SyncInv, Sync!FlowInv, Sync!MessagesArrive
    <2>6. QED
        BY <2>2, <2>5
<1>3. QED
    BY <1>2 DEF SyncInv, Sync!FlowInv, Sync!RemovedIsGone

-----------------------------------------------------------------------------
(* References (RelatedEdits)                                               *)

LEMMA RelatedInitInv == Related!Init => Related!EditInv
<1> SUFFICES ASSUME Related!Init PROVE Related!EditInv
    OBVIOUS
<1>1. \A e \in Related!Edit : v9[e] = Related!NoEdit /\ v7[e] = <<>>
    BY DEF Related!Init
<1>2. QED
    BY <1>1 DEF Related!Init, Related!NoEdit, Related!EditInv, Related!EditShapes,
                Related!HitsHaveReceipts

\* The requests move on; no edit gets another history.
EditsStay ==
    /\ DOMAIN v9' = Related!Edit
    /\ \A e \in Related!Edit :
          /\ v9'[e] = [by |-> v9'[e].by, id |-> v9'[e].id, hist |-> v9'[e].hist, st |-> v9'[e].st]
          /\ v9'[e].hist = v9[e].hist
          /\ v9'[e].st = "no" => v9[e].st = "no"

LEMMA UnchangedEditsStay ==
    ASSUME Related!EditInv, v9' = v9
    PROVE  EditsStay
BY DEF EditsStay, Related!EditInv, Related!EditShapes

LEMMA NewStateStays ==
    ASSUME Related!EditInv, NEW S \in SUBSET Related!Edit, NEW st, st # "no",
           v9' = [e \in Related!Edit |-> IF e \in S THEN [v9[e] EXCEPT !.st = st] ELSE v9[e]]
    PROVE  EditsStay
BY DEF EditsStay, Related!EditInv, Related!EditShapes

LEMMA SettleStays ==
    ASSUME Related!EditInv, NEW e \in Related!Edit, NEW st, st # "no", Related!Settle(e, st)
    PROVE  EditsStay
<1> DEFINE S == {d \in {e} : v9[d].st \in {"queued", "sent"}}
<1>1. S \in SUBSET Related!Edit
    OBVIOUS
<1>2. v9' = [d \in Related!Edit |-> IF d \in S THEN [v9[d] EXCEPT !.st = st] ELSE v9[d]]
    BY DEF Related!Settle, Related!EditInv, Related!EditShapes
<1>3. QED
    BY <1>1, <1>2, NewStateStays

\* A step that makes no edit take effect.
LEMMA NoEffectKeepsInv ==
    ASSUME Related!EditInv, EditsStay, UNCHANGED <<v1, v5, v7>>, v8' \in {0, 1}
    PROVE  Related!EditInv'
BY DEF EditsStay, Related!EditInv, Related!EditShapes, Related!HitsHaveReceipts

LEMMA CreatedIsOne ==
    ASSUME Related!EditInv, Related!Created
    PROVE  v8' \in {0, 1}
BY DEF Related!EditInv, Related!EditShapes, Related!Created, Related!KeyKnown

LEMMA RelatedCommitKeepsInv ==
    ASSUME Related!EditInv, NEW x \in v6, Related!Commit(x)
    PROVE  Related!EditInv'
<1> USE DEF Related!EditInv
<1>1. x.e \in Related!Edit /\ UNCHANGED <<v1, v8>>
    BY DEF Related!Commit
<1>2. CASE v9[x.e].hist # v1
    <2>1. UNCHANGED <<v5, v7>> /\ (v9' = v9 \/ Related!Settle(x.e, "failed"))
        BY <1>2 DEF Related!Commit
    <2>2. EditsStay
        BY <1>1, <2>1, UnchangedEditsStay, SettleStays
    <2>3. QED
        BY <1>1, <2>1, <2>2, NoEffectKeepsInv DEF Related!EditShapes
<1>3. CASE v9[x.e].hist = v1
    <2>1. /\ v5' = v5 \cup {x.e} /\ v9' = v9
          /\ (v7' = v7 \/ (x.e \notin v5 /\ v7' = [v7 EXCEPT ![x.e] = Append(@, v1)]))
        BY <1>3 DEF Related!Commit, Related!Replay
    <2>2. CASE v7' = v7
        BY <1>1, <1>3, <2>1, <2>2 DEF Related!EditShapes, Related!HitsHaveReceipts
    <2>3. CASE x.e \notin v5 /\ v7' = [v7 EXCEPT ![x.e] = Append(@, v1)]
        <3>1. v7[x.e] = <<>>
            BY <1>1, <1>3, <2>3 DEF Related!HitsHaveReceipts
        <3>2. DOMAIN v7' = Related!Edit /\ v7'[x.e] = <<v1>> /\ <<v1>> # <<>>
              /\ \A d \in Related!Edit \ {x.e} : v7'[d] = v7[d]
            BY <1>1, <2>3, <3>1 DEF Related!EditShapes
        <3>3. Related!EditShapes'
            BY <1>1, <2>1, <3>2 DEF Related!EditShapes
        <3>4. ASSUME NEW d \in Related!Edit
              PROVE  /\ v7'[d] \in {<<>>, <<v9'[d].hist>>}
                     /\ v7'[d] # <<>> => d \in v5' \/ (v9'[d].hist = 1 /\ v1' = 2)
                     /\ d \in v5' => v9'[d].hist = v1'
            <4>1. CASE d = x.e
                BY <1>1, <1>3, <2>1, <3>2, <4>1
            <4>2. CASE d # x.e
                BY <1>1, <2>1, <3>2, <4>2 DEF Related!HitsHaveReceipts
            <4>3. QED
                BY <4>1, <4>2
        <3>5. QED
            BY <3>3, <3>4 DEF Related!HitsHaveReceipts
    <2>4. QED
        BY <2>1, <2>2, <2>3
<1>4. QED
    BY <1>2, <1>3

LEMMA RelatedResetKeepsInv ==
    ASSUME Related!EditInv, Related!Reset
    PROVE  Related!EditInv'
BY DEF Related!EditInv, Related!EditShapes, Related!HitsHaveReceipts, Related!Reset

\* The history an edit is asked in is the one its client shows.
LEMMA AskKeepsInv ==
    ASSUME Related!EditInv, NEW c \in Related!Client, NEW e \in Related!Edit, Related!Ask(c, e)
    PROVE  Related!EditInv'
<1> USE DEF Related!EditInv
<1>1. PICK id : v9' = [v9 EXCEPT ![e] = [by |-> c, id |-> id, hist |-> v11[c].hist,
                                         st |-> IF c = "web" THEN "sent" ELSE "queued"]]
    BY DEF Related!Ask
<1>2. UNCHANGED <<v1, v5, v7, v8>> /\ v9[e].st = "no"
    BY DEF Related!Ask, Related!host
<1>3. /\ DOMAIN v9' = Related!Edit /\ \A d \in Related!Edit \ {e} : v9'[d] = v9[d]
      /\ v9'[e] = [by |-> c, id |-> id, hist |-> v11[c].hist,
                   st |-> IF c = "web" THEN "sent" ELSE "queued"]
    BY <1>1 DEF Related!EditShapes
<1>4. v9[e].hist = 0 /\ v7[e] = <<>> /\ e \notin v5
    BY <1>2 DEF Related!EditShapes, Related!HitsHaveReceipts
<1>5. Related!EditShapes'
    BY <1>2, <1>3 DEF Related!EditShapes
<1>6. Related!HitsHaveReceipts'
    BY <1>2, <1>3, <1>4 DEF Related!HitsHaveReceipts
<1>7. QED
    BY <1>5, <1>6

LEMMA RelatedNextKeepsInv ==
    ASSUME Related!EditInv, Related!Next
    PROVE  Related!EditInv'
<1> USE DEF Related!host, Related!wire
<1>0. v8 \in {0, 1} /\ DOMAIN v9 = Related!Edit
    BY DEF Related!EditInv, Related!EditShapes
<1>1. CASE Related!Finish
    <2>1. CASE Related!ServeCreate
        <3>1. UNCHANGED <<v1, v5, v7, v9>> /\ v8' \in {0, 1}
            BY <1>0, <2>1, CreatedIsOne DEF Related!ServeCreate
        <3>2. QED
            BY <3>1, UnchangedEditsStay, NoEffectKeepsInv
    <2>2. CASE Related!SendCreate
        BY <1>0, <2>2, UnchangedEditsStay, NoEffectKeepsInv DEF Related!SendCreate
    <2>3. ASSUME NEW x \in v6, Related!Publish(x)
          PROVE  Related!EditInv'
        <3>1. UNCHANGED <<v1, v5, v7, v8>>
            BY <2>3 DEF Related!Publish
        <3>2. v9' = v9 \/ Related!Settle(x.e, "failed")
            BY <2>3 DEF Related!Publish
        <3>3. EditsStay
            <4>1. CASE v9' = v9
                BY <4>1, UnchangedEditsStay
            <4>2. CASE Related!Settle(x.e, "failed") /\ x.e \in Related!Edit
                BY <4>2, SettleStays
            <4>3. CASE Related!Settle(x.e, "failed") /\ x.e \notin Related!Edit
                <5>1. DOMAIN v9' = Related!Edit /\ \A d \in Related!Edit : v9'[d] = v9[d]
                    BY <1>0, <4>3 DEF Related!Settle
                <5>2. QED
                    BY <5>1 DEF EditsStay, Related!EditInv, Related!EditShapes
            <4>4. QED
                BY <3>2, <4>1, <4>2, <4>3
        <3>4. QED
            BY <1>0, <3>1, <3>3, NoEffectKeepsInv
    <2>4. QED
        BY <1>1, <2>1, <2>2, <2>3, RelatedCommitKeepsInv DEF Related!Finish
<1>2. CASE Related!Agent \/ Related!Touch \/ Related!Create
    <2>1. UNCHANGED <<v1, v5, v7, v8, v9>>
        BY <1>2 DEF Related!Agent, Related!Touch, Related!Create
    <2>2. QED
        BY <1>0, <2>1, UnchangedEditsStay, NoEffectKeepsInv
<1>3. ASSUME NEW c \in Related!Client, Related!Works(c) \/ Related!Receive(c)
      PROVE  Related!EditInv'
    <2>1. UNCHANGED <<v1, v5, v7, v8>>
        BY <1>3 DEF Related!Works, Related!Hello, Related!ServeOpen, Related!ServeEdit, Related!Receive
    <2>2. EditsStay
        <3>1. CASE Related!ServeOpen(c) \/ Related!ServeEdit(c)
            BY <3>1, UnchangedEditsStay DEF Related!ServeOpen, Related!ServeEdit
        <3>2. CASE Related!Receive(c)
            <4>1. v9' = v9 \/ \E e \in Related!Edit : Related!Settle(e, "done")
                BY <3>2 DEF Related!Receive
            <4>2. QED
                BY <4>1, UnchangedEditsStay, SettleStays
        <3>3. CASE Related!Hello(c)
            <4> DEFINE other == v11[c].hist \notin {0, v1}
                       S == {e \in Related!Edit : other /\ v9[e].by = c /\ v9[e].st \in {"queued", "sent"}}
            <4>1. v9' = [e \in Related!Edit |-> IF e \in S THEN [v9[e] EXCEPT !.st = "gone"] ELSE v9[e]]
                BY <3>3 DEF Related!Hello
            <4>2. S \in SUBSET Related!Edit
                OBVIOUS
            <4>3. QED
                BY <4>1, <4>2, NewStateStays
        <3>4. QED
            BY <1>3, <3>1, <3>2, <3>3 DEF Related!Works
    <2>3. QED
        BY <1>0, <2>1, <2>2, NoEffectKeepsInv
<1>4. ASSUME NEW c \in Related!Client, Related!Drop(c)
      PROVE  Related!EditInv'
    <2>1. UNCHANGED <<v1, v5, v7>> /\ v8' \in {0, 1}
        BY <1>0, <1>4, CreatedIsOne DEF Related!Drop
    <2> DEFINE S == {e \in Related!Edit : c = "web" /\ v9[e].by = c /\ v9[e].st = "sent"}
    <2>2. v9' = [e \in Related!Edit |-> IF e \in S THEN [v9[e] EXCEPT !.st = "failed"] ELSE v9[e]]
        BY <1>4 DEF Related!Drop
    <2>3. EditsStay
        BY <2>2, NewStateStays
    <2>4. QED
        BY <2>1, <2>3, NoEffectKeepsInv
<1>5. ASSUME NEW e \in Related!Edit, Related!SendEdit(e)
      PROVE  Related!EditInv'
    <2>1. v9' = [d \in Related!Edit |-> IF d \in {e} THEN [v9[d] EXCEPT !.st = "sent"] ELSE v9[d]]
        BY <1>0, <1>5 DEF Related!SendEdit
    <2>2. EditsStay
        BY <2>1, NewStateStays
    <2>3. UNCHANGED <<v1, v5, v7, v8>>
        BY <1>5 DEF Related!SendEdit
    <2>4. QED
        BY <1>0, <2>2, <2>3, NoEffectKeepsInv
<1>6. QED
    BY <1>1, <1>2, <1>3, <1>4, <1>5, RelatedResetKeepsInv, AskKeepsInv DEF Related!Next

LEMMA EditInvImpliesOnce == Related!EditInv => Related!RequestsActOnce
BY DEF Related!EditInv, Related!EditShapes, Related!HitsHaveReceipts, Related!RequestsActOnce

-----------------------------------------------------------------------------
(* The lists of references (RelatedEdits)                                  *)

EditFrames == [kind : {"edit", "create", "open"}, e : Nat]
ListEntries == [e : Nat, hist : Nat, rev : Nat, item : Nat]
Takings == [e : Nat, by : Related!Client \cup {"agent"}, live : BOOLEAN, done : BOOLEAN, hist : Nat]
ListClients == [on : BOOLEAN, hist : Nat, list : [rev : Nat, item : Nat], opened : BOOLEAN, stale : BOOLEAN]

\* The shapes and the types of the host, of the requests and of the connections.
LEMMA ListTypes ==
    ASSUME Related!ListInv
    PROVE  /\ {v1, v2, v3, v4} \subseteq Nat /\ v1 > 0 /\ v2 > 0
           /\ v6 \subseteq Takings
           /\ v11 \in [Related!Client -> ListClients]
           /\ v12 \in [Related!Client -> Seq(EditFrames)]
           /\ v13 \in [Related!Client -> Seq(ListEntries)]
BY DEF Related!ListInv, Related!ListShapes, EditFrames, ListEntries, Takings, ListClients

LEMMA ListFields ==
    ASSUME Related!ListInv, NEW c \in Related!Client
    PROVE  /\ v11[c] \in ListClients /\ v11[c].hist \in Nat /\ v11[c].list \in [rev : Nat, item : Nat]
           /\ v11[c].list.rev \in Nat
           /\ \A i \in DOMAIN v13[c] : v13[c][i] \in ListEntries
                 /\ v13[c][i].hist \in Nat /\ v13[c][i].rev \in Nat
<1>1. v11[c] \in ListClients /\ v13[c] \in Seq(ListEntries)
    BY ListTypes
<1>2. v11[c].list \in [rev : Nat, item : Nat] /\ v11[c].hist \in Nat
    BY <1>1 DEF ListClients
<1>3. \A i \in DOMAIN v13[c] : v13[c][i] \in ListEntries
    BY <1>1
<1>4. QED
    BY <1>1, <1>2, <1>3 DEF ListEntries

\* The edits keep their states.
LEMMA SettledStates ==
    ASSUME Related!ListInv, Related!EditInv, NEW e, NEW st,
           st \in {"sent", "done", "failed", "gone"}, Related!Settle(e, st)
    PROVE  \A d \in Related!Edit : v9'[d].st \in {"no", "queued", "sent", "done", "failed", "gone"}
<1>1. DOMAIN v9 = Related!Edit
    BY DEF Related!EditInv, Related!EditShapes
<1>2. \A d \in Related!Edit : v9'[d] = v9[d] \/ v9'[d] = [v9[d] EXCEPT !.st = IF @ \in {"queued", "sent"} THEN st ELSE @]
    BY <1>1 DEF Related!Settle
<1>3. QED
    BY <1>2 DEF Related!ListInv, Related!TypeOK, Related!EditInv, Related!EditShapes

\* The host and the lists rest, and nothing on its way is lost.
LEMMA ListsRest ==
    ASSUME Related!ListInv, UNCHANGED <<v1, v2, v3, v11, v13>>,
           Related!ToPublish => Related!ToPublish',
           \A c \in Related!Client : Related!ToOpen(c) => Related!ToOpen(c)'
    PROVE  Related!ListsAreBehind' /\ Related!ListComes'
<1>1. Related!ListsAreBehind'
    BY DEF Related!ListInv, Related!ListsAreBehind, Related!Behind, Related!OfNow, Related!NoList
<1>2. \A c, r : Related!HasSince(c, r) => Related!HasSince(c, r)'
    BY DEF Related!HasSince
<1>3. Related!ListComes'
    BY <1>2 DEF Related!ListInv, Related!ListComes
<1>4. QED
    BY <1>1, <1>3

\* An edit that is still to be published covers what it changed.
LEMMA ListsChanged ==
    ASSUME Related!ListInv, UNCHANGED <<v1, v11, v13>>, Related!ToPublish',
           (v2' = v2 /\ v3' = v3) \/ v2' = v2 + 1
    PROVE  Related!ListsAreBehind' /\ Related!ListComes'
<1>1. Related!ListsAreBehind'
    <2>1. ASSUME NEW p, Related!OfNow(p), p.rev \in Nat PROVE p.rev <= v2' /\ (p.rev = v2' => p.item = v3')
        BY <2>1, ListTypes DEF Related!OfNow
    <2>2. ASSUME NEW c \in Related!Client
          PROVE  /\ v11'[c].hist <= v1' /\ (v11'[c].hist = 0 => v11'[c].list = Related!NoList /\ ~v11'[c].on)
                 /\ v11'[c].hist = v1' => Related!OfNow(v11[c].list)'
                 /\ \A i \in DOMAIN v13'[c] : v13'[c][i].hist <= v1'
                       /\ (v13'[c][i].hist = v1' => Related!OfNow(v13[c][i])')
        <3>1. v11[c].list.rev \in Nat /\ \A i \in DOMAIN v13[c] : v13[c][i].rev \in Nat
            BY ListFields
        <3>2. QED
            BY <2>1, <3>1 DEF Related!ListInv, Related!ListsAreBehind, Related!Behind, Related!OfNow, Related!NoList
    <2>3. QED
        BY <2>2 DEF Related!ListsAreBehind, Related!Behind, Related!OfNow, Related!NoList
<1>2. Related!ListComes'
    BY DEF Related!ListComes
<1>3. QED
    BY <1>1, <1>2

LEMMA CommitKeepsLists ==
    ASSUME Related!ListInv, Related!EditInv, NEW x \in v6, Related!Commit(x)
    PROVE  Related!ListInv'
<1>1. x \in Takings /\ x.e \in Related!Edit /\ ~x.done
      /\ UNCHANGED <<v1, v8, v10, v11, v12, v13, v14>>
    BY ListTypes DEF Related!Commit, Related!wire
<1>2. \A c \in Related!Client : Related!ToOpen(c) => Related!ToOpen(c)'
    BY <1>1 DEF Related!ToOpen
<1>3. CASE v9[x.e].hist # v1
    <2>1. v6' = v6 \ {x} /\ UNCHANGED <<v2, v3, v4, v5, v7>> /\ (v9' = v9 \/ Related!Settle(x.e, "failed"))
        BY <1>3 DEF Related!Commit
    <2>2. Related!ToPublish => Related!ToPublish'
        BY <1>1, <2>1 DEF Related!ToPublish
    <2>3. Related!ListShapes'
        BY <1>1, <2>1 DEF Related!ListInv, Related!ListShapes
    <2>4. \A d \in Related!Edit : v9'[d].st \in {"no", "queued", "sent", "done", "failed", "gone"}
        BY <2>1, SettledStates DEF Related!ListInv, Related!TypeOK
    <2>5. Related!TypeOK'
        BY <1>1, <2>1, <2>4 DEF Related!ListInv, Related!TypeOK
    <2>6. QED
        BY <1>1, <1>2, <2>1, <2>2, <2>3, <2>5, ListsRest DEF Related!ListInv
<1>4. CASE v9[x.e].hist = v1
    <2> DEFINE y == [x EXCEPT !.done = TRUE, !.hist = v1]
    <2>1. /\ v6' = (v6 \ {x}) \cup {y} /\ v5' = v5 \cup {x.e} /\ v9' = v9
          /\ (UNCHANGED <<v2, v3, v4>> \/ Related!Effect(v9[x.e].id))
        BY <1>4 DEF Related!Commit
    <2>2. y \in Takings /\ y.done /\ y.hist = v1 /\ y.live = x.live /\ y.by = x.by
        BY <1>1, ListTypes DEF Takings
    <2>3. /\ v4' \in Nat /\ v3' \in 0 .. v4' /\ v4' <= RefIds
          /\ (v2' = v2 /\ v3' = v3) \/ v2' = v2 + 1
        BY <2>1, ListTypes, SendsAssumption DEF Related!Effect, Related!ListInv, Related!TypeOK
    <2>4. Related!ToPublish'
        BY <1>1, <2>1, <2>2 DEF Related!ToPublish
    <2>5. Related!ListShapes'
        <3>1. v6' \subseteq Takings /\ \A z \in v6' : z.live => z.by \in Related!Client
            BY <1>1, <2>1, <2>2, ListTypes DEF Related!ListInv, Related!ListShapes
        <3>2. v2' \in Nat /\ v2' > 0 /\ v3' \in Nat
            BY <2>3, ListTypes
        <3>3. QED
            BY <1>1, <2>3, <3>1, <3>2 DEF Related!ListInv, Related!ListShapes, Takings
    <2>6. Related!TypeOK'
        <3>1. \A z \in v6' : z.live => v11'[z.by].on
            BY <1>1, <2>1, <2>2 DEF Related!ListInv, Related!TypeOK
        <3>2. QED
            BY <1>1, <2>1, <2>3, <3>1 DEF Related!ListInv, Related!TypeOK
    <2>7. QED
        BY <1>1, <2>3, <2>4, <2>5, <2>6, ListsChanged DEF Related!ListInv
<1>5. QED
    BY <1>3, <1>4

AgentEdit == [e |-> Related!NoId, by |-> "agent", live |-> FALSE, done |-> TRUE, hist |-> v1]

LEMMA AgentKeepsLists ==
    ASSUME Related!ListInv, Related!Agent
    PROVE  Related!ListInv'
<1>1. /\ v6' = v6 \cup {AgentEdit} /\ UNCHANGED <<v1, v5, v9, v10, v11, v12, v13>>
      /\ \E id \in {0, v3} : Related!Effect(id)
    BY DEF Related!Agent, Related!wire, AgentEdit
<1>2. /\ v4' \in Nat /\ v3' \in 0 .. v4' /\ v4' <= RefIds
      /\ (v2' = v2 /\ v3' = v3) \/ v2' = v2 + 1
    BY <1>1, ListTypes, SendsAssumption DEF Related!Effect, Related!ListInv, Related!TypeOK
<1>3. AgentEdit \in Takings /\ AgentEdit.done /\ AgentEdit.hist = v1 /\ ~AgentEdit.live
    BY ListTypes DEF AgentEdit, Takings, Related!NoId
<1>4. Related!ToPublish'
    BY <1>1, <1>3 DEF Related!ToPublish
<1>5. Related!ListShapes'
    BY <1>1, <1>2, <1>3 DEF Related!ListInv, Related!ListShapes, Takings
<1>6. Related!TypeOK'
    BY <1>1, <1>2, <1>3 DEF Related!ListInv, Related!TypeOK
<1>7. QED
    BY <1>1, <1>2, <1>4, <1>5, <1>6, ListsChanged DEF Related!ListInv

\* Another change of the Thread leaves its reference as it is.
LEMMA TouchKeepsLists ==
    ASSUME Related!ListInv, Related!Touch
    PROVE  Related!ListInv'
<1>1. v2' = v2 + 1 /\ UNCHANGED <<v1, v3, v4, v5, v6, v9, v10, v11, v12, v13>>
    BY DEF Related!Touch, Related!wire
<1>2. Related!ListShapes' /\ Related!TypeOK'
    BY <1>1 DEF Related!ListInv, Related!ListShapes, Related!TypeOK
<1>3. Related!ListsAreBehind'
    <2>1. ASSUME NEW p, Related!OfNow(p), p.rev \in Nat PROVE Related!OfNow(p)'
        BY <1>1, <2>1, ListTypes DEF Related!OfNow
    <2>2. \A c \in Related!Client :
             v11[c].list.rev \in Nat /\ \A i \in DOMAIN v13[c] : v13[c][i].rev \in Nat
        BY ListFields
    <2>3. QED
        BY <1>1, <2>1, <2>2 DEF Related!ListInv, Related!ListsAreBehind, Related!Behind, Related!NoList
<1>4. Related!ListComes'
    <2>1. \A c, r : Related!HasSince(c, r) => Related!HasSince(c, r)'
        BY <1>1 DEF Related!HasSince
    <2>2. \A c \in Related!Client : Related!ToOpen(c) => Related!ToOpen(c)'
        BY <1>1 DEF Related!ToOpen
    <2>3. Related!ToPublish => Related!ToPublish'
        BY <1>1 DEF Related!ToPublish
    <2>4. 0 .. v2 \subseteq 0 .. v2'
        BY <1>1, ListTypes
    <2>5. QED
        BY <1>1, <2>1, <2>2, <2>3, <2>4 DEF Related!ListInv, Related!ListComes
<1>5. QED
    BY <1>2, <1>3, <1>4 DEF Related!ListInv

\* No client and no list on its way is of the new history.
LEMMA ResetKeepsLists ==
    ASSUME Related!ListInv, Related!Reset
    PROVE  Related!ListInv'
<1>1. /\ v1 = 1 /\ v1' = 2 /\ v2' = 1 /\ v3' = 0 /\ v4' = 0 /\ v5' = {}
      /\ UNCHANGED <<v6, v9, v10, v11, v12, v13>>
    BY DEF Related!Reset, Related!wire
<1>2. Related!ListShapes' /\ Related!TypeOK'
    BY <1>1, SendsAssumption DEF Related!ListInv, Related!ListShapes, Related!TypeOK
<1>3. \A c \in Related!Client :
         /\ v11[c].hist \in {0, 1} /\ (v11[c].hist = 0 => v11[c].list = Related!NoList /\ ~v11[c].on)
         /\ \A i \in DOMAIN v13[c] : v13[c][i].hist \in {0, 1}
    <2>1. \A c \in Related!Client :
             v11[c].hist \in Nat /\ \A i \in DOMAIN v13[c] : v13[c][i].hist \in Nat
        BY ListFields
    <2>2. QED
        BY <1>1, <2>1 DEF Related!ListInv, Related!ListsAreBehind, Related!Behind
<1>4. Related!ListsAreBehind' /\ Related!ListComes'
    BY <1>1, <1>3 DEF Related!ListsAreBehind, Related!Behind, Related!ListComes, Related!NoList
<1>5. QED
    BY <1>2, <1>4 DEF Related!ListInv

\* What publishing appends to the broadcasts.
ListEntry(e) == [e |-> e, hist |-> v1, rev |-> v2, item |-> v3]

LEMMA PublishKeepsLists ==
    ASSUME Related!ListInv, Related!EditInv, NEW x \in v6, Related!Publish(x)
    PROVE  Related!ListInv'
<1>1. /\ x \in Takings /\ x.done /\ v6' = v6 \ {x}
      /\ UNCHANGED <<v1, v2, v3, v4, v5, v7, v8, v10, v11, v12>>
    BY ListTypes DEF Related!Publish
<1>2. v1 \in Nat /\ v2 \in Nat /\ v3 \in Nat /\ x.e \in Nat
    BY <1>1, ListTypes DEF Takings
<1>3. CASE x.hist # v1
    <2>1. v13' = v13 /\ (v9' = v9 \/ Related!Settle(x.e, "failed"))
        BY <1>3 DEF Related!Publish
    <2>2. /\ Related!ToPublish => Related!ToPublish'
          /\ \A c \in Related!Client : Related!ToOpen(c) => Related!ToOpen(c)'
        BY <1>1, <1>3 DEF Related!ToPublish, Related!ToOpen
    <2>3. Related!ListShapes'
        BY <1>1, <2>1 DEF Related!ListInv, Related!ListShapes
    <2>4. \A d \in Related!Edit : v9'[d].st \in {"no", "queued", "sent", "done", "failed", "gone"}
        BY <2>1, SettledStates DEF Related!ListInv, Related!TypeOK
    <2>5. Related!TypeOK'
        BY <1>1, <2>1, <2>4 DEF Related!ListInv, Related!TypeOK
    <2>6. QED
        BY <1>1, <2>1, <2>2, <2>3, <2>5, ListsRest DEF Related!ListInv
<1>4. CASE x.hist = v1
    <2>1. Related!Tell(x.e) /\ v9' = v9
        BY <1>4 DEF Related!Publish
    <2>2. PICK f : f = ListEntry(x.e)
        OBVIOUS
    <2>3. f \in ListEntries /\ f.hist = v1 /\ f.rev = v2 /\ f.item = v3
        BY <1>2, <2>2 DEF ListEntry, ListEntries
    <2>4. \A c \in Related!Client : v13'[c] = IF v11[c].on THEN Append(v13[c], f) ELSE v13[c]
        BY <2>1, <2>2 DEF Related!Tell, ListEntry
    <2>5. ASSUME NEW c \in Related!Client
          PROVE  /\ v13'[c] \in Seq(ListEntries)
                 /\ \A i \in DOMAIN v13'[c] :
                       (i \in DOMAIN v13[c] /\ v13'[c][i] = v13[c][i]) \/ v13'[c][i] = f
        <3>1. v13[c] \in Seq(ListEntries)
            BY ListTypes
        <3>2. /\ Append(v13[c], f) \in Seq(ListEntries)
              /\ \A i \in DOMAIN Append(v13[c], f) :
                    (i \in DOMAIN v13[c] /\ Append(v13[c], f)[i] = v13[c][i]) \/ Append(v13[c], f)[i] = f
            BY <2>3, <3>1, AppendOf
        <3>3. CASE v11[c].on
            <4>1. v13'[c] = Append(v13[c], f)
                BY <2>4, <3>3
            <4>2. QED
                BY <3>2, <4>1
        <3>4. CASE ~v11[c].on
            <4>1. v13'[c] = v13[c]
                BY <2>4, <3>4
            <4>2. QED
                BY <3>1, <4>1
        <3>5. QED
            BY <3>3, <3>4
    <2>6. v13' \in [Related!Client -> Seq(ListEntries)]
        BY <2>1, <2>5 DEF Related!Tell
    <2>7. Related!ListShapes'
        BY <1>1, <2>6 DEF Related!ListInv, Related!ListShapes, ListEntries
    <2>8. Related!TypeOK'
        <3>1. \A c \in Related!Client : ~v11[c].on => v13'[c] = <<>>
            BY <2>4 DEF Related!ListInv, Related!TypeOK
        <3>2. QED
            BY <1>1, <2>1, <3>1 DEF Related!ListInv, Related!TypeOK
    <2>10. Related!ListsAreBehind'
        <3>1. v2 <= v2 /\ v1 <= v1
            BY <1>2
        <3>2. QED
            BY <1>1, <2>3, <2>5, <3>1 DEF Related!ListInv, Related!ListsAreBehind, Related!Behind, Related!OfNow, Related!NoList
    <2>11. Related!ListComes'
        <3>1. ASSUME NEW c \in Related!Client, v11[c].on, v11[c].hist = v1
              PROVE  Related!HasSince(c, v2)'
            <4>1. Len(v13[c]) + 1 \in DOMAIN v13'[c] /\ v13'[c][Len(v13[c]) + 1] = f
                <5>1. v13[c] \in Seq(ListEntries) /\ v13'[c] = Append(v13[c], f)
                    BY <2>4, <3>1, ListTypes
                <5>2. QED
                    BY <2>3, <5>1, AppendKeeps
            <4>2. v11[c].list.rev >= v2 => v11[c].list.item = v3
                BY <1>2, <3>1, ListFields DEF Related!ListInv, Related!ListsAreBehind, Related!Behind, Related!OfNow
            <4>3. \A i \in DOMAIN v13[c] :
                     v13[c][i].hist = v1 /\ v13[c][i].rev >= v2 => v13[c][i].item = v3
                BY <1>2, ListFields DEF Related!ListInv, Related!ListsAreBehind, Related!Behind, Related!OfNow
            <4>4. v2 >= v2
                BY <1>2
            <4>5. QED
                BY <1>1, <2>3, <2>5, <4>1, <4>2, <4>3, <4>4 DEF Related!HasSince
        <3>2. v2 \in 0 .. v2'
            BY <1>1, <1>2
        <3>3. QED
            BY <1>1, <3>1, <3>2 DEF Related!ListComes
    <2>12. QED
        BY <2>7, <2>8, <2>10, <2>11 DEF Related!ListInv
<1>5. QED
    BY <1>3, <1>4

\* A request taken off an inbox is not the opening of the Thread.
LEMMA TakenKeepsOpens ==
    ASSUME Related!ListInv, NEW c \in Related!Client, NEW k, k # "open", Related!Next1(c, k)
    PROVE  /\ v12[c] \in Seq(EditFrames) /\ v12[c] # <<>> /\ Head(v12[c]) \in EditFrames
           /\ v12' \in [Related!Client -> Seq(EditFrames)]
           /\ \A d \in Related!Client : ~v11[d].on => v12'[d] = <<>>
           /\ \A d \in Related!Client : Related!ToOpen(d) => Related!ToOpen(d)'
<1>1. v12[c] \in Seq(EditFrames) /\ v12[c] # <<>> /\ Head(v12[c]).kind = k /\ v11[c].on
      /\ v12' = [v12 EXCEPT ![c] = Tail(@)]
    BY ListTypes DEF Related!Next1
<1>2. /\ Tail(v12[c]) \in Seq(EditFrames) /\ Head(v12[c]) \in EditFrames
      /\ Head(v12[c]) = v12[c][1]
    BY <1>1, TailOf
<1>3. v12'[c] = Tail(v12[c]) /\ \A d \in Related!Client \ {c} : v12'[d] = v12[d]
    BY <1>1, ListTypes
<1>4. \A i \in DOMAIN v12[c] : i # 1 => i - 1 \in DOMAIN Tail(v12[c]) /\ Tail(v12[c])[i - 1] = v12[c][i]
    BY <1>1, TailKeeps
<1>5. Related!ToOpen(c) => Related!ToOpen(c)'
    <2>1. SUFFICES ASSUME NEW i \in DOMAIN v12[c], v12[c][i].kind = "open"
                   PROVE  Related!ToOpen(c)'
        BY DEF Related!ToOpen
    <2>2. i # 1
        BY <1>1, <1>2, <2>1
    <2>3. i - 1 \in DOMAIN v12'[c] /\ v12'[c][i - 1].kind = "open"
        BY <1>3, <1>4, <2>1, <2>2
    <2>4. QED
        BY <2>3 DEF Related!ToOpen
<1>6. \A d \in Related!Client \ {c} : Related!ToOpen(d) => Related!ToOpen(d)'
    BY <1>3 DEF Related!ToOpen
<1>7. QED
    BY <1>1, <1>2, <1>3, <1>5, <1>6, ListTypes DEF Related!ListInv, Related!TypeOK

LEMMA ServeKeepsLists ==
    ASSUME Related!ListInv, Related!ServeCreate \/ \E c \in Related!Client : Related!ServeEdit(c)
    PROVE  Related!ListInv'
<1>1. CASE Related!ServeCreate
    <2>1. Related!Next1("core", "create") /\ UNCHANGED <<v1, v2, v3, v4, v5, v6, v9, v11, v13>>
          /\ v10' \in {[v10 EXCEPT !.st = "failed"], [v10 EXCEPT !.st = "done"]}
        BY <1>1 DEF Related!ServeCreate
    <2>2. /\ v12' \in [Related!Client -> Seq(EditFrames)]
          /\ \A d \in Related!Client : ~v11[d].on => v12'[d] = <<>>
          /\ \A d \in Related!Client : Related!ToOpen(d) => Related!ToOpen(d)'
        BY <2>1, TakenKeepsOpens DEF Related!Client
    <2>3. Related!ListShapes' /\ Related!TypeOK'
        BY <2>1, <2>2 DEF Related!ListInv, Related!ListShapes, Related!TypeOK, EditFrames
    <2>4. Related!ToPublish => Related!ToPublish'
        BY <2>1 DEF Related!ToPublish
    <2>5. QED
        BY <2>1, <2>2, <2>3, <2>4, ListsRest DEF Related!ListInv
<1>2. ASSUME NEW c \in Related!Client, Related!ServeEdit(c)
      PROVE  Related!ListInv'
    <2>1. /\ Related!Next1(c, "edit") /\ v11[c].on
          /\ v6' = v6 \cup {Related!Taken(c, Head(v12[c]).e, TRUE)}
          /\ UNCHANGED <<v1, v2, v3, v4, v5, v9, v10, v11, v13>>
        BY <1>2 DEF Related!ServeEdit, Related!Next1
    <2>2. /\ Head(v12[c]) \in EditFrames
          /\ v12' \in [Related!Client -> Seq(EditFrames)]
          /\ \A d \in Related!Client : ~v11[d].on => v12'[d] = <<>>
          /\ \A d \in Related!Client : Related!ToOpen(d) => Related!ToOpen(d)'
        BY <2>1, TakenKeepsOpens
    <2>3. PICK y : y = Related!Taken(c, Head(v12[c]).e, TRUE)
        OBVIOUS
    <2>4. y \in Takings /\ y.by = c
        BY <2>2, <2>3 DEF Related!Taken, Takings, EditFrames
    <2>5. Related!ListShapes' /\ Related!TypeOK'
        <3>1. v6' \subseteq Takings
            BY <2>1, <2>3, <2>4, ListTypes
        <3>2. \A z \in v6' : z.live => z.by \in Related!Client /\ v11'[z.by].on
            BY <2>1, <2>3, <2>4 DEF Related!ListInv, Related!ListShapes, Related!TypeOK
        <3>3. QED
            BY <2>1, <2>2, <3>1, <3>2 DEF Related!ListInv, Related!ListShapes, Related!TypeOK, EditFrames, Takings
    <2>6. Related!ToPublish => Related!ToPublish'
        BY <2>1 DEF Related!ToPublish
    <2>7. QED
        BY <2>1, <2>2, <2>5, <2>6, ListsRest DEF Related!ListInv
<1>3. QED
    BY <1>1, <1>2

\* The requests of the clients go behind what is in their inboxes.
LEMMA AskingKeepsLists ==
    ASSUME Related!ListInv, Related!EditInv,
           \/ Related!Create \/ Related!SendCreate
           \/ \E d \in Related!Edit : Related!SendEdit(d)
           \/ \E c \in Related!Client : \E e \in Related!Edit : Related!Ask(c, e)
    PROVE  Related!ListInv'
<1>1. UNCHANGED <<v1, v2, v3, v4, v5, v6, v11, v13>>
    BY DEF Related!Create, Related!SendCreate, Related!SendEdit, Related!Ask, Related!host, Related!wire
<1>2. /\ v10' = [st |-> v10'.st, hist |-> v10'.hist, sent |-> v10'.sent]
      /\ v10'.st \in {"no", "pending", "done", "failed", "gone"}
    BY DEF Related!Create, Related!SendCreate, Related!SendEdit, Related!Ask,
           Related!ListInv, Related!ListShapes, Related!TypeOK
<1>3. \A e \in Related!Edit : v9'[e].st \in {"no", "queued", "sent", "done", "failed", "gone"}
    <2>1. /\ DOMAIN v9 = Related!Edit
          /\ \A e \in Related!Edit : v9[e].st \in {"no", "queued", "sent", "done", "failed", "gone"}
          /\ \A e \in Related!Edit : v9[e] = [by |-> v9[e].by, id |-> v9[e].id,
                                             hist |-> v9[e].hist, st |-> v9[e].st]
        BY DEF Related!EditInv, Related!EditShapes, Related!ListInv, Related!TypeOK
    <2>2. CASE v9' = v9
        BY <2>1, <2>2
    <2>3. ASSUME NEW e \in Related!Edit, Related!SendEdit(e)
          PROVE  \A d \in Related!Edit : v9'[d].st \in {"no", "queued", "sent", "done", "failed", "gone"}
        BY <2>1, <2>3 DEF Related!SendEdit
    <2>4. ASSUME NEW c \in Related!Client, NEW e \in Related!Edit, Related!Ask(c, e)
          PROVE  \A d \in Related!Edit : v9'[d].st \in {"no", "queued", "sent", "done", "failed", "gone"}
        BY <2>1, <2>4 DEF Related!Ask
    <2>5. QED
        BY <2>2, <2>3, <2>4 DEF Related!Create, Related!SendCreate
<1>4. \/ v12' = v12
      \/ \E c \in Related!Client, f \in EditFrames :
            v11[c].on /\ v12' = [v12 EXCEPT ![c] = Append(@, f)]
    <2>1. \A e \in Related!Edit : Related!Frame("edit", e) \in EditFrames
        BY DEF Related!Frame, Related!Edit, EditFrames
    <2>2. Related!Frame("create", Related!NoId) \in EditFrames
        BY DEF Related!Frame, Related!NoId, EditFrames
    <2>3. "core" \in Related!Client
        BY DEF Related!Client
    <2>4. ASSUME NEW c \in Related!Client, NEW e \in Related!Edit, Related!Ask(c, e)
          PROVE  \/ v12' = v12
                 \/ v11[c].on /\ v12' = [v12 EXCEPT ![c] = Append(@, Related!Frame("edit", e))]
        BY <2>4 DEF Related!Ask
    <2>5. QED
        BY <2>1, <2>2, <2>3, <2>4 DEF Related!Create, Related!SendCreate, Related!SendEdit, Related!wire
<1>5. /\ v12' \in [Related!Client -> Seq(EditFrames)]
      /\ \A d \in Related!Client : ~v11[d].on => v12'[d] = <<>>
      /\ \A d \in Related!Client : Related!ToOpen(d) => Related!ToOpen(d)'
    <2>1. CASE v12' = v12
        BY <2>1, ListTypes DEF Related!ListInv, Related!TypeOK, Related!ToOpen
    <2>2. ASSUME NEW c \in Related!Client, NEW f \in EditFrames, v11[c].on,
                 v12' = [v12 EXCEPT ![c] = Append(@, f)]
          PROVE  <1>5!1 /\ <1>5!2 /\ <1>5!3
        <3>1. v12[c] \in Seq(EditFrames) /\ v12'[c] = Append(v12[c], f)
              /\ \A d \in Related!Client \ {c} : v12'[d] = v12[d]
            BY <2>2, ListTypes
        <3>2. v12'[c] \in Seq(EditFrames)
              /\ \A i \in DOMAIN v12[c] : i \in DOMAIN v12'[c] /\ v12'[c][i] = v12[c][i]
            BY <3>1, AppendOf, AppendKeeps
        <3>3. \A d \in Related!Client : Related!ToOpen(d) => Related!ToOpen(d)'
            BY <3>1, <3>2 DEF Related!ToOpen
        <3>4. QED
            BY <2>2, <3>1, <3>2, <3>3, ListTypes DEF Related!ListInv, Related!TypeOK
    <2>3. QED
        BY <1>4, <2>1, <2>2
<1>6. Related!ToPublish => Related!ToPublish'
    BY <1>1 DEF Related!ToPublish
<1>7. Related!ListShapes' /\ Related!TypeOK'
    BY <1>1, <1>2, <1>3, <1>5 DEF Related!ListInv, Related!ListShapes, Related!TypeOK, EditFrames
<1>8. QED
    BY <1>1, <1>5, <1>6, <1>7, ListsRest DEF Related!ListInv

\* What a client holds is of the history it shows, and the rest of it is left.
LEMMA ClientChanges ==
    ASSUME Related!ListInv, NEW c \in Related!Client, NEW k \in ListClients, v11' = [v11 EXCEPT ![c] = k]
    PROVE  /\ v11' \in [Related!Client -> ListClients] /\ v11'[c] = k
           /\ \A d \in Related!Client \ {c} : v11'[d] = v11[d]
BY ListTypes

\* A list of this moment is the newest.
LEMMA OpenedShowsNow ==
    ASSUME Related!ListInv, NEW c \in Related!Client, Related!ServeOpen(c)
    PROVE  Related!ListInv'
<1>1. /\ UNCHANGED <<v1, v2, v3, v4, v5, v6, v9, v10, v13>> /\ v11[c].on
      /\ v12[c] # <<>> /\ v12' = [v12 EXCEPT ![c] = Tail(@)]
      /\ v11' = [v11 EXCEPT ![c].list = Related!Ordered(@, [rev |-> v2, item |-> v3]),
                            ![c].opened = TRUE, ![c].stale = FALSE]
    BY DEF Related!ServeOpen, Related!Next1, Related!host
<1>2. PICK k : k = [v11[c] EXCEPT !.list = Related!Ordered(@, [rev |-> v2, item |-> v3]),
                                 !.opened = TRUE, !.stale = FALSE]
    OBVIOUS
<1>3. PICK new : new = [rev |-> v2, item |-> v3]
    OBVIOUS
<1>4. /\ v1 \in Nat /\ v2 \in Nat /\ v3 \in Nat
      /\ new \in [rev : Nat, item : Nat] /\ new.rev = v2 /\ new.item = v3
    BY <1>3, ListTypes
<1>5. /\ Related!Ordered(v11[c].list, new) \in [rev : Nat, item : Nat]
      /\ v11[c].hist = v1 => Related!Ordered(v11[c].list, new) = new
    BY <1>4, ListFields DEF Related!Ordered, Related!ListInv, Related!ListsAreBehind, Related!Behind, Related!OfNow
<1>6. k \in ListClients /\ k.on /\ k.hist = v11[c].hist /\ k.list = Related!Ordered(v11[c].list, new)
    BY <1>1, <1>2, <1>3, <1>5, ListFields DEF ListClients
<1>7. v11' = [v11 EXCEPT ![c] = k]
    BY <1>1, <1>2, ListTypes
<1>8. /\ v11' \in [Related!Client -> ListClients] /\ v11'[c] = k
      /\ \A d \in Related!Client \ {c} : v11'[d] = v11[d]
    BY <1>6, <1>7, ClientChanges
<1>9. \A d \in Related!Client : v11'[d].on = v11[d].on /\ v11'[d].hist = v11[d].hist
    BY <1>1, <1>6, <1>8
<1>10. /\ v12' \in [Related!Client -> Seq(EditFrames)]
       /\ \A d \in Related!Client \ {c} : v12'[d] = v12[d]
    BY <1>1, ListTypes, TailOf
<1>11. Related!ListShapes'
    BY <1>1, <1>8, <1>10 DEF Related!ListInv, Related!ListShapes, ListClients, EditFrames
<1>12. Related!TypeOK'
    <2>1. \A d \in Related!Client : ~v11'[d].on => v12'[d] = <<>> /\ v13'[d] = <<>>
        BY <1>1, <1>6, <1>8, <1>9, <1>10 DEF Related!ListInv, Related!TypeOK
    <2>2. \A x \in v6' : x.live => v11'[x.by].on
        BY <1>1, <1>9 DEF Related!ListInv, Related!TypeOK, Related!ListShapes
    <2>3. QED
        BY <1>1, <2>1, <2>2 DEF Related!ListInv, Related!TypeOK
<1>13. Related!ListsAreBehind'
    <2>1. k.hist = v1 => Related!OfNow(k.list)
        BY <1>4, <1>5, <1>6 DEF Related!OfNow
    <2>2. k.hist # 0
        BY <1>1, <1>6 DEF Related!ListInv, Related!ListsAreBehind, Related!Behind
    <2>3. QED
        <3>1. Related!Behind(c)'
            BY <1>1, <1>6, <1>8, <2>1, <2>2
               DEF Related!ListInv, Related!ListsAreBehind, Related!Behind, Related!OfNow
        <3>2. ASSUME NEW d \in Related!Client, d # c PROVE Related!Behind(d)'
            BY <1>1, <1>8, <3>2 DEF Related!ListInv, Related!ListsAreBehind, Related!Behind, Related!OfNow, Related!NoList
        <3>3. QED
            BY <3>1, <3>2 DEF Related!ListsAreBehind
<1>14. Related!ListComes'
    <2>1. ASSUME NEW d \in Related!Client, d # c
          PROVE  /\ \A r : Related!HasSince(d, r) => Related!HasSince(d, r)'
                 /\ Related!ToOpen(d) => Related!ToOpen(d)'
        BY <1>1, <1>8, <1>10, <2>1 DEF Related!HasSince, Related!ToOpen
    <2>2. ASSUME v11[c].hist = v1 PROVE Related!HasSince(c, v2)'
        <3>1. \A i \in DOMAIN v13[c] :
                 v13[c][i].hist = v1 /\ v13[c][i].rev >= v2 => v13[c][i].item = v3
            BY <1>4, ListFields DEF Related!ListInv, Related!ListsAreBehind, Related!Behind, Related!OfNow
        <3>2. v11'[c].list = new /\ v2 >= v2
            BY <1>4, <1>5, <1>6, <1>8, <2>2
        <3>3. QED
            BY <1>1, <1>4, <3>1, <3>2 DEF Related!HasSince
    <2>3. Related!ToPublish => Related!ToPublish'
        BY <1>1 DEF Related!ToPublish
    <2>4. v2 \in 0 .. v2'
        BY <1>1, <1>4
    <2>5. QED
        BY <1>1, <1>8, <1>9, <2>1, <2>2, <2>3, <2>4 DEF Related!ListInv, Related!ListComes
<1>15. QED
    BY <1>11, <1>12, <1>13, <1>14 DEF Related!ListInv

\* A list that arrives is shown unless a later one is, and what is passed over
\* leaves the client marked.
LEMMA ReceiveKeepsLists ==
    ASSUME Related!ListInv, Related!EditInv, NEW c \in Related!Client, Related!Receive(c)
    PROVE  Related!ListInv'
<1>1. /\ v13[c] # <<>> /\ v13' = [v13 EXCEPT ![c] = Tail(@)]
      /\ UNCHANGED <<v1, v2, v3, v4, v5, v6, v7, v8, v10, v12>>
    BY DEF Related!Receive, Related!host
<1>2. PICK f : f = Head(v13[c])
    OBVIOUS
<1>3. /\ f \in ListEntries /\ f = v13[c][1] /\ 1 \in DOMAIN v13[c]
      /\ v13'[c] = Tail(v13[c]) /\ v13' \in [Related!Client -> Seq(ListEntries)]
      /\ \A i \in DOMAIN v13'[c] : i + 1 \in DOMAIN v13[c] /\ v13'[c][i] = v13[c][i + 1]
      /\ \A d \in Related!Client \ {c} : v13'[d] = v13[d]
    <2>1. v13[c] \in Seq(ListEntries) /\ v13'[c] = Tail(v13[c])
        BY <1>1, ListTypes
    <2>2. /\ Tail(v13[c]) \in Seq(ListEntries) /\ f \in ListEntries /\ f = v13[c][1] /\ 1 \in DOMAIN v13[c]
          /\ \A i \in DOMAIN Tail(v13[c]) : i + 1 \in DOMAIN v13[c] /\ Tail(v13[c])[i] = v13[c][i + 1]
        BY <1>1, <1>2, <2>1, TailOf
    <2>3. QED
        BY <1>1, <2>1, <2>2, ListTypes
<1>4. \A i \in DOMAIN v13[c] : i # 1 => i - 1 \in DOMAIN v13'[c] /\ v13'[c][i - 1] = v13[c][i]
    <2>1. v13[c] \in Seq(ListEntries)
        BY ListTypes
    <2>2. QED
        BY <1>1, <1>3, <2>1, TailKeeps
<1>5. PICK new : new = [rev |-> f.rev, item |-> f.item]
    OBVIOUS
<1>6. /\ f.hist \in Nat /\ f.rev \in Nat /\ f.item \in Nat /\ f.e \in Nat
      /\ new \in [rev : Nat, item : Nat] /\ new.rev = f.rev /\ new.item = f.item
    BY <1>3, <1>5 DEF ListEntries
<1>7. \E k \in ListClients :
         /\ v11' = [v11 EXCEPT ![c] = k]
         /\ k.on = v11[c].on /\ k.hist = v11[c].hist /\ k.opened = v11[c].opened
         /\ \/ f.hist # v11[c].hist /\ k = v11[c]
            \/ f.hist = v11[c].hist /\ k.list = Related!Ordered(v11[c].list, new)
               /\ k.stale = v11[c].stale
            \/ f.hist = v11[c].hist /\ k.list = v11[c].list
               /\ (~k.stale => ~v11[c].stale /\ ~(f.rev > v11[c].list.rev))
    <2>1. v11[c] \in ListClients /\ v11[c].list \in [rev : Nat, item : Nat]
        BY ListFields
    <2>2. CASE f.hist # v11[c].hist
        <3>1. v11' = v11
            BY <1>2, <2>2 DEF Related!Receive
        <3>2. v11' = [v11 EXCEPT ![c] = v11[c]]
            BY <3>1, ListTypes
        <3>3. QED
            BY <2>1, <2>2, <3>2
    <2>3. CASE f.hist = v11[c].hist /\ Related!Takes(c, f.e)
        <3>1. v11' = [v11 EXCEPT ![c].list = Related!Ordered(@, new)]
            BY <1>2, <1>5, <2>3 DEF Related!Receive, Related!Shown
        <3>2. Related!Ordered(v11[c].list, new) \in [rev : Nat, item : Nat]
            BY <1>6, <2>1 DEF Related!Ordered
        <3>3. PICK k : k = [v11[c] EXCEPT !.list = Related!Ordered(@, new)]
            OBVIOUS
        <3>4. k \in ListClients /\ k.on = v11[c].on /\ k.hist = v11[c].hist /\ k.opened = v11[c].opened
              /\ k.list = Related!Ordered(v11[c].list, new) /\ k.stale = v11[c].stale
            BY <2>1, <3>2, <3>3 DEF ListClients
        <3>5. v11' = [v11 EXCEPT ![c] = k]
            BY <3>1, <3>3, ListTypes
        <3>6. QED
            BY <2>3, <3>4, <3>5
    <2>4. CASE f.hist = v11[c].hist /\ ~Related!Takes(c, f.e)
        <3>1. v11' = [v11 EXCEPT ![c].stale = @ \/ f.rev > v11[c].list.rev]
            BY <1>2, <2>4 DEF Related!Receive
        <3>2. PICK k : k = [v11[c] EXCEPT !.stale = @ \/ f.rev > v11[c].list.rev]
            OBVIOUS
        <3>3. k \in ListClients /\ k.on = v11[c].on /\ k.hist = v11[c].hist /\ k.opened = v11[c].opened
              /\ k.list = v11[c].list /\ (~k.stale => ~v11[c].stale /\ ~(f.rev > v11[c].list.rev))
            BY <2>1, <3>2 DEF ListClients
        <3>4. v11' = [v11 EXCEPT ![c] = k]
            BY <3>1, <3>2, ListTypes
        <3>5. QED
            BY <2>4, <3>3, <3>4
    <2>5. QED
        BY <2>2, <2>3, <2>4
<1>8. PICK k \in ListClients :
         /\ v11' = [v11 EXCEPT ![c] = k]
         /\ k.on = v11[c].on /\ k.hist = v11[c].hist /\ k.opened = v11[c].opened
         /\ \/ f.hist # v11[c].hist /\ k = v11[c]
            \/ f.hist = v11[c].hist /\ k.list = Related!Ordered(v11[c].list, new)
               /\ k.stale = v11[c].stale
            \/ f.hist = v11[c].hist /\ k.list = v11[c].list
               /\ (~k.stale => ~v11[c].stale /\ ~(f.rev > v11[c].list.rev))
    BY <1>7
<1>9. /\ v11' \in [Related!Client -> ListClients] /\ v11'[c] = k
      /\ \A d \in Related!Client \ {c} : v11'[d] = v11[d]
    BY <1>8, ClientChanges
<1>10. \A d \in Related!Client : v11'[d].on = v11[d].on /\ v11'[d].hist = v11[d].hist
    BY <1>8, <1>9
<1>11. v9' = v9 \/ Related!Settle(f.e, "done")
    BY <1>2 DEF Related!Receive
<1>12. Related!ListShapes'
    BY <1>1, <1>3, <1>9 DEF Related!ListInv, Related!ListShapes, ListClients, ListEntries
<1>13. Related!TypeOK'
    <2>1. \A d \in Related!Client : ~v11'[d].on => v12'[d] = <<>> /\ v13'[d] = <<>>
        BY <1>1, <1>3, <1>10 DEF Related!ListInv, Related!TypeOK
    <2>2. \A x \in v6' : x.live => v11'[x.by].on
        BY <1>1, <1>10 DEF Related!ListInv, Related!TypeOK, Related!ListShapes
    <2>3. \A d \in Related!Edit : v9'[d].st \in {"no", "queued", "sent", "done", "failed", "gone"}
        BY <1>11, SettledStates DEF Related!ListInv, Related!TypeOK
    <2>4. QED
        BY <1>1, <2>1, <2>2, <2>3 DEF Related!ListInv, Related!TypeOK
<1>14. Related!ListsAreBehind'
    <2>1. v11[c].hist = v1 => Related!OfNow(k.list)
        BY <1>3, <1>5, <1>6, <1>8 DEF Related!ListInv, Related!ListsAreBehind, Related!Behind, Related!OfNow, Related!Ordered
    <2>2. Related!Behind(c)
        BY DEF Related!ListInv, Related!ListsAreBehind
    <2>3. v11[c].hist # 0
        BY <1>1, <2>2 DEF Related!Behind, Related!ListInv, Related!TypeOK
    <2>4. Related!Behind(c)'
        BY <1>1, <1>3, <1>8, <1>9, <2>1, <2>2, <2>3 DEF Related!Behind, Related!OfNow
    <2>5. ASSUME NEW d \in Related!Client, d # c PROVE Related!Behind(d)'
        BY <1>1, <1>3, <1>9, <2>5 DEF Related!ListInv, Related!ListsAreBehind, Related!Behind, Related!OfNow, Related!NoList
    <2>6. QED
        BY <2>4, <2>5 DEF Related!ListsAreBehind
<1>15. Related!ListComes'
    <2>1. ASSUME NEW d \in Related!Client, d # c, NEW r, Related!HasSince(d, r)
          PROVE  Related!HasSince(d, r)'
        BY <1>1, <1>3, <1>9, <2>1 DEF Related!HasSince
    <2>2. ASSUME NEW r \in Nat, Related!HasSince(c, r), v11[c].hist = v1, ~k.stale
          PROVE  Related!HasSince(c, r)'
        <3>1. v11[c].list.rev \in Nat /\ v11[c].list \in [rev : Nat, item : Nat]
            BY ListFields
        <3>2. \A i \in DOMAIN v13'[c] :
                 v13'[c][i].hist = v1 /\ v13'[c][i].rev >= r => v13'[c][i].item = v3
            BY <1>3, <2>2 DEF Related!HasSince
        <3>3. k.list.rev >= r => k.list.item = v3
            BY <1>3, <1>6, <1>8, <2>2, <3>1 DEF Related!HasSince, Related!Ordered
        <3>4. CASE v11[c].list.rev >= r
            <4>1. k.list.rev >= r
                BY <1>6, <1>8, <2>2, <3>1, <3>4 DEF Related!Ordered
            <4>2. QED
                BY <1>1, <1>9, <3>2, <3>3, <4>1 DEF Related!HasSince
        <3>5. CASE f.hist = v1 /\ f.rev >= r
            <4>1. k.list.rev >= r
                BY <1>6, <1>8, <2>2, <3>1, <3>5 DEF Related!Ordered
            <4>2. QED
                BY <1>1, <1>9, <3>2, <3>3, <4>1 DEF Related!HasSince
        <3>6. ASSUME NEW i \in DOMAIN v13[c], i # 1, v13[c][i].hist = v1, v13[c][i].rev >= r
              PROVE  Related!HasSince(c, r)'
            BY <1>1, <1>4, <1>9, <3>2, <3>3, <3>6 DEF Related!HasSince
        <3>7. QED
            BY <1>3, <2>2, <3>4, <3>5, <3>6 DEF Related!HasSince
    <2>3. ~k.stale => ~v11[c].stale
        BY <1>8
    <2>4. /\ Related!ToPublish => Related!ToPublish'
          /\ \A d \in Related!Client : Related!ToOpen(d) => Related!ToOpen(d)'
        BY <1>1 DEF Related!ToPublish, Related!ToOpen
    <2>5. 0 .. v2' = 0 .. v2 /\ 0 .. v2 \subseteq Nat
        BY <1>1
    <2>6. QED
        BY <1>1, <1>8, <1>9, <1>10, <2>1, <2>2, <2>3, <2>4, <2>5 DEF Related!ListInv, Related!ListComes
<1>16. QED
    BY <1>12, <1>13, <1>14, <1>15 DEF Related!ListInv

\* A client that connects opens the Thread it shows again.
LEMMA HelloKeepsLists ==
    ASSUME Related!ListInv, Related!EditInv, NEW c \in Related!Client, Related!Hello(c)
    PROVE  Related!ListInv'
<1> DEFINE other == v11[c].hist \notin {0, v1}
<1>1. /\ ~v11[c].on /\ UNCHANGED <<v1, v2, v3, v4, v5, v6, v7, v8, v13>>
      /\ v12' = [v12 EXCEPT ![c] = <<Related!Frame("open", Related!NoId)>>]
      /\ v9' = [e \in Related!Edit |-> IF other /\ v9[e].by = c /\ v9[e].st \in {"queued", "sent"}
                                      THEN [v9[e] EXCEPT !.st = "gone"] ELSE v9[e]]
      /\ v10' = v10 \/ v10' = [v10 EXCEPT !.st = "gone"]
      /\ v11' = [v11 EXCEPT ![c] = IF other THEN [Related!Offline EXCEPT !.on = TRUE, !.hist = v1]
                                   ELSE [@ EXCEPT !.on = TRUE, !.hist = v1]]
    BY DEF Related!Hello, Related!Reopened, Related!host
<1>2. PICK k : k = IF other THEN [Related!Offline EXCEPT !.on = TRUE, !.hist = v1]
                   ELSE [v11[c] EXCEPT !.on = TRUE, !.hist = v1]
    OBVIOUS
<1>3. /\ k \in ListClients /\ k.on /\ k.hist = v1
      /\ k.list = Related!NoList \/ (k.list = v11[c].list /\ v11[c].hist \in {0, v1})
    BY <1>2, ListTypes, ListFields DEF ListClients, Related!Offline, Related!NoList
<1>4. v11' = [v11 EXCEPT ![c] = k]
    BY <1>1, <1>2, ListTypes
<1>5. /\ v11' \in [Related!Client -> ListClients] /\ v11'[c] = k
      /\ \A d \in Related!Client \ {c} : v11'[d] = v11[d]
    BY <1>3, <1>4, ClientChanges
<1>6. PICK f : f = Related!Frame("open", Related!NoId)
    OBVIOUS
<1>7. f \in EditFrames /\ f.kind = "open"
    BY <1>6 DEF Related!Frame, Related!NoId, EditFrames
<1>8. /\ <<f>> \in Seq(EditFrames) /\ 1 \in DOMAIN <<f>> /\ <<f>>[1] = f
    BY <1>7
<1>9. /\ v12' \in [Related!Client -> Seq(EditFrames)] /\ v12'[c] = <<f>>
      /\ \A d \in Related!Client \ {c} : v12'[d] = v12[d]
    BY <1>1, <1>6, <1>8, ListTypes
<1>10. Related!ToOpen(c)'
    BY <1>7, <1>8, <1>9 DEF Related!ToOpen
<1>11. Related!ListShapes'
    BY <1>1, <1>5, <1>9 DEF Related!ListInv, Related!ListShapes, ListClients, EditFrames
<1>12. Related!TypeOK'
    <2>1. \A d \in Related!Client : ~v11'[d].on => v12'[d] = <<>> /\ v13'[d] = <<>>
        BY <1>1, <1>3, <1>5, <1>9 DEF Related!ListInv, Related!TypeOK
    <2>2. \A x \in v6' : x.live => v11'[x.by].on
        BY <1>1, <1>3, <1>5 DEF Related!ListInv, Related!TypeOK, Related!ListShapes
    <2>3. \A e \in Related!Edit : v9'[e].st \in {"no", "queued", "sent", "done", "failed", "gone"}
        BY <1>1 DEF Related!ListInv, Related!TypeOK, Related!EditInv, Related!EditShapes
    <2>4. v10'.st \in {"no", "pending", "done", "failed", "gone"}
        BY <1>1 DEF Related!ListInv, Related!TypeOK, Related!ListShapes
    <2>5. QED
        BY <1>1, <2>1, <2>2, <2>3, <2>4 DEF Related!ListInv, Related!TypeOK
<1>13. Related!ListsAreBehind'
    <2>1. v13[c] = <<>> /\ Related!Behind(c)
        BY <1>1 DEF Related!ListInv, Related!TypeOK, Related!ListsAreBehind
    <2>2. v1 \in Nat /\ v1 > 0 /\ v2 \in Nat /\ v2 > 0
        BY ListTypes
    <2>3. Related!OfNow(k.list)
        <3>1. CASE k.list = Related!NoList
            BY <2>2, <3>1 DEF Related!OfNow, Related!NoList
        <3>2. CASE k.list = v11[c].list /\ v11[c].hist = v1
            BY <2>1, <3>2 DEF Related!Behind
        <3>3. QED
            BY <1>3, <2>1, <3>1, <3>2 DEF Related!Behind
    <2>4. Related!Behind(c)'
        <3>1. v11'[c].hist = v1 /\ v11'[c].list = k.list /\ v1' = v1 /\ v2' = v2 /\ v3' = v3
            BY <1>1, <1>3, <1>5
        <3>2. v13'[c] = <<>> /\ DOMAIN v13'[c] = {}
            BY <1>1, <2>1
        <3>3. v1 <= v1
            BY <2>2
        <3>4. k.list.rev <= v2 /\ (k.list.rev = v2 => k.list.item = v3)
            BY <2>3 DEF Related!OfNow
        <3>5. QED
            BY <2>2, <3>1, <3>2, <3>3, <3>4 DEF Related!Behind, Related!OfNow
    <2>5. ASSUME NEW d \in Related!Client, d # c PROVE Related!Behind(d)'
        BY <1>1, <1>5, <2>5 DEF Related!ListInv, Related!ListsAreBehind, Related!Behind, Related!OfNow, Related!NoList
    <2>6. QED
        BY <2>4, <2>5 DEF Related!ListsAreBehind
<1>14. Related!ListComes'
    <2>1. ASSUME NEW d \in Related!Client, d # c
          PROVE  /\ \A r : Related!HasSince(d, r) => Related!HasSince(d, r)'
                 /\ Related!ToOpen(d) => Related!ToOpen(d)'
        BY <1>1, <1>5, <1>9, <2>1 DEF Related!HasSince, Related!ToOpen
    <2>2. Related!ToPublish => Related!ToPublish'
        BY <1>1 DEF Related!ToPublish
    <2>3. QED
        BY <1>1, <1>5, <1>10, <2>1, <2>2 DEF Related!ListInv, Related!ListComes
<1>15. QED
    BY <1>11, <1>12, <1>13, <1>14 DEF Related!ListInv

\* A lost connection takes the frames of one client; what is being handled goes on.
LEMMA DropKeepsLists ==
    ASSUME Related!ListInv, Related!EditInv, NEW c \in Related!Client, Related!Drop(c)
    PROVE  Related!ListInv'
<1>1. /\ UNCHANGED <<v1, v2, v3, v4, v5, v7>>
      /\ v11' = [v11 EXCEPT ![c].on = FALSE]
      /\ v12' = [v12 EXCEPT ![c] = <<>>] /\ v13' = [v13 EXCEPT ![c] = <<>>]
      /\ v9' = [e \in Related!Edit |-> IF c = "web" /\ v9[e].by = c /\ v9[e].st = "sent"
                                      THEN [v9[e] EXCEPT !.st = "failed"] ELSE v9[e]]
      /\ v10' = v10 \/ v10' = [v10 EXCEPT !.sent = FALSE]
    BY DEF Related!Drop, Related!SentForgotten
<1> DEFINE cut == {IF x.by = c THEN [x EXCEPT !.live = FALSE] ELSE x : x \in v6}
<1>2. v6' = cut \/ \E e \in Nat : v6' = cut \cup {Related!Taken(c, e, FALSE)}
    <2>1. \A e \in Related!Edit : Related!Frame("edit", e).e \in Nat
        BY DEF Related!Frame, Related!Edit
    <2>2. v12[c] # <<>> => Head(v12[c]).e \in Nat
        <3>1. v12[c] \in Seq(EditFrames)
            BY ListTypes
        <3>2. v12[c] # <<>> => Head(v12[c]) \in EditFrames
            BY <3>1, TailOf
        <3>3. QED
            BY <3>2 DEF EditFrames
    <2>3. QED
        BY <2>1, <2>2 DEF Related!Drop
<1>3. /\ cut \subseteq Takings
      /\ \A x \in cut : x.live => x.by \in Related!Client \ {c} /\ v11[x.by].on
      /\ \A x \in v6 : \E y \in cut : y.done = x.done /\ y.hist = x.hist
    <2>1. ASSUME NEW x \in v6
          PROVE  /\ x \in Takings /\ (x.live => x.by \in Related!Client /\ v11[x.by].on)
                 /\ [x EXCEPT !.live = FALSE] \in Takings /\ ~[x EXCEPT !.live = FALSE].live
                 /\ [x EXCEPT !.live = FALSE].done = x.done /\ [x EXCEPT !.live = FALSE].hist = x.hist
        BY ListTypes DEF Related!ListInv, Related!ListShapes, Related!TypeOK, Takings
    <2>2. QED
        BY <2>1
<1>4. \A e \in Nat : Related!Taken(c, e, FALSE) \in Takings /\ ~Related!Taken(c, e, FALSE).live
    BY DEF Related!Taken, Takings
<1>5. /\ v6' \subseteq Takings
      /\ \A x \in v6' : x.live => x.by \in Related!Client \ {c} /\ v11[x.by].on
      /\ Related!ToPublish => Related!ToPublish'
    <2>1. cut \subseteq v6'
        BY <1>2
    <2>2. Related!ToPublish => Related!ToPublish'
        <3>1. SUFFICES ASSUME NEW x \in v6, x.done, x.hist = v1
                       PROVE  \E y \in v6' : y.done /\ y.hist = v1
            BY <1>1 DEF Related!ToPublish
        <3>2. QED
            BY <1>3, <2>1, <3>1
    <2>3. QED
        BY <1>2, <1>3, <1>4, <2>2
<1>6. PICK k : k = [v11[c] EXCEPT !.on = FALSE]
    OBVIOUS
<1>7. k \in ListClients /\ ~k.on /\ k.hist = v11[c].hist /\ k.list = v11[c].list
    BY <1>6, ListFields DEF ListClients
<1>8. v11' = [v11 EXCEPT ![c] = k]
    BY <1>1, <1>6, ListTypes
<1>9. /\ v11' \in [Related!Client -> ListClients] /\ v11'[c] = k
      /\ \A d \in Related!Client \ {c} : v11'[d] = v11[d]
    BY <1>7, <1>8, ClientChanges
<1>10. /\ v12' \in [Related!Client -> Seq(EditFrames)] /\ v12'[c] = <<>>
       /\ v13' \in [Related!Client -> Seq(ListEntries)] /\ v13'[c] = <<>>
       /\ \A d \in Related!Client \ {c} : v12'[d] = v12[d] /\ v13'[d] = v13[d]
    <2>1. <<>> \in Seq(EditFrames) /\ <<>> \in Seq(ListEntries)
        OBVIOUS
    <2>2. QED
        BY <1>1, <2>1, ListTypes
<1>11. Related!ListShapes'
    BY <1>1, <1>5, <1>9, <1>10
       DEF Related!ListInv, Related!ListShapes, ListClients, EditFrames, ListEntries, Takings
<1>12. Related!TypeOK'
    <2>1. \A d \in Related!Client : ~v11'[d].on => v12'[d] = <<>> /\ v13'[d] = <<>>
        BY <1>9, <1>10 DEF Related!ListInv, Related!TypeOK
    <2>2. \A x \in v6' : x.live => v11'[x.by].on
        BY <1>5, <1>9
    <2>3. \A e \in Related!Edit : v9'[e].st \in {"no", "queued", "sent", "done", "failed", "gone"}
        BY <1>1 DEF Related!ListInv, Related!TypeOK, Related!EditInv, Related!EditShapes
    <2>4. v10'.st \in {"no", "pending", "done", "failed", "gone"}
        BY <1>1 DEF Related!ListInv, Related!TypeOK, Related!ListShapes
    <2>5. QED
        BY <1>1, <2>1, <2>2, <2>3, <2>4 DEF Related!ListInv, Related!TypeOK
<1>13. Related!ListsAreBehind'
    <2>1. Related!Behind(c)'
        BY <1>1, <1>7, <1>9, <1>10 DEF Related!ListInv, Related!ListsAreBehind, Related!Behind, Related!OfNow, Related!NoList
    <2>2. ASSUME NEW d \in Related!Client, d # c PROVE Related!Behind(d)'
        BY <1>1, <1>9, <1>10, <2>2 DEF Related!ListInv, Related!ListsAreBehind, Related!Behind, Related!OfNow, Related!NoList
    <2>3. QED
        BY <2>1, <2>2 DEF Related!ListsAreBehind
<1>14. Related!ListComes'
    <2>1. ASSUME NEW d \in Related!Client, d # c
          PROVE  /\ \A r : Related!HasSince(d, r) => Related!HasSince(d, r)'
                 /\ Related!ToOpen(d) => Related!ToOpen(d)'
        BY <1>1, <1>9, <1>10, <2>1 DEF Related!HasSince, Related!ToOpen
    <2>2. QED
        BY <1>1, <1>5, <1>7, <1>9, <2>1 DEF Related!ListInv, Related!ListComes
<1>15. QED
    BY <1>11, <1>12, <1>13, <1>14 DEF Related!ListInv

LEMMA RelatedListsKept ==
    ASSUME Related!ListInv, Related!EditInv, Related!Next
    PROVE  Related!ListInv'
BY CommitKeepsLists, AgentKeepsLists, TouchKeepsLists, ResetKeepsLists, PublishKeepsLists,
   ServeKeepsLists, AskingKeepsLists, OpenedShowsNow, ReceiveKeepsLists, HelloKeepsLists,
   DropKeepsLists
   DEF Related!Next, Related!Finish, Related!Works

LEMMA RelatedListsInit == Related!Init => Related!ListInv
<1> SUFFICES ASSUME Related!Init PROVE Related!ListInv
    OBVIOUS
<1>1. \A c \in Related!Client : v11[c] = Related!Offline /\ v12[c] = <<>> /\ v13[c] = <<>>
    BY DEF Related!Init
<1>2. Related!ListShapes
    <2>1. Related!Offline \in ListClients
        BY DEF Related!Offline, Related!NoList, ListClients
    <2>2. <<>> \in Seq(EditFrames) /\ <<>> \in Seq(ListEntries)
        OBVIOUS
    <2>3. /\ v11 \in [Related!Client -> ListClients]
          /\ v12 \in [Related!Client -> Seq(EditFrames)]
          /\ v13 \in [Related!Client -> Seq(ListEntries)]
        BY <2>1, <2>2 DEF Related!Init
    <2>4. QED
        BY <2>3 DEF Related!Init, Related!ListShapes, Related!NoCreate, ListClients, EditFrames, ListEntries
<1>3. Related!TypeOK
    <2>1. \A e \in Related!Edit : v9[e].st = "no"
        BY DEF Related!Init, Related!NoEdit
    <2>2. QED
        BY <1>1, <2>1, SendsAssumption DEF Related!Init, Related!TypeOK, Related!NoCreate
<1>4. Related!ListsAreBehind /\ Related!ListComes
    BY <1>1 DEF Related!Init, Related!ListsAreBehind, Related!Behind, Related!ListComes, Related!Offline, Related!NoList
<1>5. QED
    BY <1>2, <1>3, <1>4 DEF Related!ListInv

LEMMA ListInvImpliesCurrent == Related!ListInv => Related!RelatedIsCurrent
<1> SUFFICES ASSUME Related!ListInv, NEW c \in Related!Client, Related!Quiet(c), ~v11[c].stale
             PROVE  v11[c].list.item = v3
    BY DEF Related!RelatedIsCurrent
<1>1. ~Related!ToPublish /\ ~Related!ToOpen(c) /\ v13[c] = <<>>
    BY DEF Related!Quiet, Related!ToPublish, Related!ToOpen
<1>2. \E r \in 0 .. v2 : Related!HasSince(c, r)
    BY <1>1 DEF Related!Quiet, Related!ListInv, Related!ListComes
<1>3. QED
    BY <1>1, <1>2 DEF Related!HasSince

-----------------------------------------------------------------------------
(* The web client (WebClient)                                              *)

WebUps == [k : {"send", "action", "upload"}, m : Texts \cup {"none"}, h : {0, 1, 2}]
WebDowns == [k : {"hello", "msg", "error", "applied", "refused", "blob"},
             m : Texts \cup {"none"}, h : {0, 1, 2}]
WebHosts == [hist : {1, 2}, accepted : SUBSET Texts, valid : BOOLEAN]
WebStates == [token : BOOLEAN, hist : {0, 1, 2}, request : {"no", "waiting", "applied", "failed"},
              upload : {"no", "queued", "waiting", "done", "failed"}]

LEMMA WebTypes ==
    ASSUME Web!WebInv
    PROVE  /\ v1 \in WebHosts /\ v4 \in Seq(WebUps) /\ v5 \in Seq(WebDowns) /\ v6 \in WebStates
           /\ v1.hist \in {1, 2} /\ v6.hist \in {0, 1, 2}
           /\ v7 \in [Texts -> {"no", "sending", "failed"}] /\ v9 \in [Texts -> {0, 1, 2}]
           /\ v8 \subseteq Texts /\ v2 \in {"none", "opening", "open", "stopped"}
<1>1. /\ v1 \in WebHosts /\ v4 \in Seq(WebUps) /\ v5 \in Seq(WebDowns) /\ v6 \in WebStates
      /\ v7 \in [Texts -> {"no", "sending", "failed"}] /\ v9 \in [Texts -> {0, 1, 2}]
      /\ v8 \subseteq Texts /\ v2 \in {"none", "opening", "open", "stopped"}
    <2>1. {1, 2} \cup {0} = {0, 1, 2}
        OBVIOUS
    <2>2. QED
        BY <2>1 DEF Web!WebInv, Web!WebShapes, Web!TypeOK, Web!History, WebUps, WebDowns, WebHosts, WebStates
<1>2. QED
    BY <1>1 DEF WebHosts, WebStates

\* The shapes and types of the next state from those of its parts.
LEMMA WebTyped ==
    ASSUME v1' \in WebHosts, v4' \in Seq(WebUps), v5' \in Seq(WebDowns), v6' \in WebStates,
           v7' \in [Texts -> {"no", "sending", "failed"}], v9' \in [Texts -> {0, 1, 2}],
           v8' \subseteq Texts, v2' \in {"none", "opening", "open", "stopped"}, v3' \in BOOLEAN,
           v10' \in 0 .. Cuts, v11' \in 0 .. Timeouts
    PROVE  Web!WebShapes' /\ Web!TypeOK'
<1>1. {1, 2} \cup {0} = {0, 1, 2}
    OBVIOUS
<1>2. Web!WebShapes'
    BY <1>1 DEF Web!WebShapes, Web!History, WebUps, WebDowns, WebHosts, WebStates
<1>3. Web!TypeOK'
    BY <1>1 DEF Web!TypeOK, Web!History, WebHosts, WebStates
<1>4. QED
    BY <1>2, <1>3

LEMMA WebCounters ==
    ASSUME Web!WebInv
    PROVE  /\ v10 \in 0 .. Cuts /\ v11 \in 0 .. Timeouts
           /\ Web!Fault => v10' \in 0 .. Cuts
           /\ Web!Tick => v11' \in 0 .. Timeouts
BY TextsAssumption DEF Web!WebInv, Web!TypeOK, Web!Fault, Web!Tick

\* The client's next history: as it was, or that of the hello it takes first.
NextHist(n, at) ==
    \/ v6'.hist = v6.hist
    \/ /\ v5 # <<>> /\ v5[1].k = "hello" /\ v6'.hist = v5[1].h
       /\ \A i \in 1 .. n : at[i] > 1

\* A frame the host may send now.
SaysTrue(e) ==
    /\ e.k = "msg" => /\ e.m \in Texts /\ v9[e.m] # 0
                      /\ e.m \in v1'.accepted \/ v9[e.m] # v1.hist
    /\ e.k = "hello" => e.h = v1.hist

\* The frames to the client that stay keep their order, and a new one comes last.
LEMMA DownStaysTrue ==
    ASSUME Web!WebInv, UNCHANGED v9, v1'.hist = v1.hist, v1.accepted \subseteq v1'.accepted,
           NEW n \in Nat, NEW at \in [1 .. n -> DOMAIN v5],
           \A i, j \in 1 .. n : i < j => at[i] < at[j],
           v5' \in Seq(WebDowns), Len(v5') \in {n, n + 1},
           \A i \in 1 .. n : v5'[i] = v5[at[i]],
           Len(v5') = n + 1 => SaysTrue(v5'[n + 1]),
           NextHist(n, at)
    PROVE  Web!EchoesAreTrue' /\ Web!HistoriesGrow'
<1> DEFINE m == Len(v5')
<1>1. DOMAIN v5' = 1 .. m /\ m \in Nat /\ DOMAIN v5 = 1 .. Len(v5) /\ Len(v5) \in Nat
    <2>1. \A s \in Seq(WebDowns) : DOMAIN s = 1 .. Len(s) /\ Len(s) \in Nat
        OBVIOUS
    <2>2. v5 \in Seq(WebDowns) /\ v5' \in Seq(WebDowns)
        BY WebTypes
    <2>3. QED
        BY <2>1, <2>2
<1>2. \A i \in DOMAIN v5' : i \in 1 .. n \/ (i = n + 1 /\ m = n + 1)
    BY <1>1
<1>3. Web!EchoesAreTrue'
    <2>1. ASSUME NEW i \in DOMAIN v5', v5'[i].k = "msg"
          PROVE  /\ v5'[i].m \in Texts /\ v9'[v5'[i].m] # 0
                 /\ v5'[i].m \in v1'.accepted \/ v9'[v5'[i].m] # v1'.hist
        <3>1. CASE i \in 1 .. n
            <4>1. v5'[i] = v5[at[i]] /\ at[i] \in DOMAIN v5
                BY <3>1
            <4>2. QED
                BY <2>1, <4>1 DEF Web!WebInv, Web!EchoesAreTrue
        <3>2. CASE i = n + 1 /\ m = n + 1
            BY <2>1, <3>2 DEF SaysTrue
        <3>3. QED
            BY <1>2, <3>1, <3>2
    <2>2. QED
        BY <2>1 DEF Web!EchoesAreTrue
<1>4. /\ \A i \in DOMAIN v5 : v5[i] \in WebDowns /\ v5[i].h \in {0, 1, 2}
      /\ v6.hist \in {0, 1, 2} /\ v1.hist \in {1, 2} /\ \A x \in Texts : v9[x] \in {0, 1, 2}
    <2>1. \A i \in DOMAIN v5 : v5[i] \in WebDowns
        BY WebTypes
    <2>2. QED
        BY <2>1, WebTypes DEF WebDowns
<1>5. /\ v6.hist <= v6'.hist /\ v6'.hist <= v1.hist /\ v6'.hist \in {0, 1, 2}
      /\ \A i \in 1 .. n : v5[at[i]].k = "hello" => v6'.hist <= v5[at[i]].h
    <2>1. CASE v6'.hist = v6.hist
        BY <1>4, <2>1 DEF Web!WebInv, Web!HistoriesGrow
    <2>2. CASE v5 # <<>> /\ v5[1].k = "hello" /\ v6'.hist = v5[1].h /\ \A i \in 1 .. n : at[i] > 1
        <3>1. 1 \in DOMAIN v5
            BY <1>1, <2>2, WebTypes
        <3>2. /\ v6.hist <= v5[1].h /\ v5[1].h <= v1.hist
              /\ \A j \in DOMAIN v5 : 1 <= j /\ v5[j].k = "hello" => v5[1].h <= v5[j].h
            BY <2>2, <3>1 DEF Web!WebInv, Web!HistoriesGrow
        <3>3. \A i \in 1 .. n : at[i] \in DOMAIN v5 /\ 1 <= at[i]
            BY <1>1
        <3>4. QED
            BY <1>4, <2>2, <3>1, <3>2, <3>3
    <2>3. QED
        BY <2>1, <2>2 DEF NextHist
<1>6. \A x \in Texts : v9[x] <= v6'.hist
    BY <1>4, <1>5 DEF Web!WebInv, Web!HistoriesGrow
<1>7. ASSUME NEW i \in DOMAIN v5', v5'[i].k = "hello"
      PROVE  /\ v6'.hist <= v5'[i].h /\ v5'[i].h <= v1.hist /\ v5'[i].h # 0
             /\ \A j \in DOMAIN v5' : i <= j /\ v5'[j].k = "hello" => v5'[i].h <= v5'[j].h
    <2>1. CASE i \in 1 .. n
        <3>1. v5'[i] = v5[at[i]] /\ at[i] \in DOMAIN v5
            BY <2>1
        <3>2. /\ v5[at[i]].h <= v1.hist /\ v5[at[i]].h # 0
              /\ \A j \in DOMAIN v5 : at[i] <= j /\ v5[j].k = "hello" => v5[at[i]].h <= v5[j].h
            BY <1>7, <3>1 DEF Web!WebInv, Web!HistoriesGrow
        <3>3. ASSUME NEW j \in DOMAIN v5', i <= j, v5'[j].k = "hello"
              PROVE  v5'[i].h <= v5'[j].h
            <4>1. CASE j \in 1 .. n
                <5>1. at[i] <= at[j] /\ at[j] \in DOMAIN v5 /\ v5'[j] = v5[at[j]]
                    <6>1. at[i] \in Nat /\ at[j] \in Nat /\ at[j] \in DOMAIN v5 /\ v5'[j] = v5[at[j]]
                        <7>1. at[i] \in DOMAIN v5 /\ at[j] \in DOMAIN v5
                            BY <2>1, <4>1
                        <7>2. v5'[j] = v5[at[j]]
                            BY <4>1
                        <7>3. v5 \in Seq(WebDowns)
                            BY WebTypes
                        <7>4. at[i] \in Nat /\ at[j] \in Nat
                            BY <7>1, <7>3, PlaceOf
                        <7>5. QED
                            BY <7>1, <7>2, <7>4
                    <6>2. i = j \/ i < j
                        BY <2>1, <3>3, <4>1
                    <6>3. QED
                        BY <2>1, <4>1, <6>1, <6>2
                <5>2. QED
                    BY <3>1, <3>2, <3>3, <5>1
            <4>2. CASE j = n + 1 /\ m = n + 1
                BY <3>1, <3>2, <3>3, <4>2 DEF SaysTrue
            <4>3. QED
                BY <1>2, <4>1, <4>2
        <3>4. QED
            BY <1>5, <1>7, <2>1, <3>1, <3>2, <3>3
    <2>2. CASE i = n + 1 /\ m = n + 1
        <3>1. v5'[i].h = v1.hist
            BY <1>7, <2>2 DEF SaysTrue
        <3>2. \A j \in DOMAIN v5' : i <= j => j = i
            BY <1>1, <2>2
        <3>3. QED
            BY <1>4, <1>5, <3>1, <3>2
    <2>3. QED
        BY <1>2, <2>1, <2>2
<1>8. QED
    BY <1>3, <1>4, <1>5, <1>6, <1>7 DEF Web!HistoriesGrow

\* One frame is taken off, or a new one is put behind the others, or none of it.
LEMMA TailStaysTrue ==
    ASSUME Web!WebInv, UNCHANGED <<v1, v9>>, v5 # <<>>, v5' = Tail(v5),
           v6'.hist = v6.hist \/ (v5[1].k = "hello" /\ v6'.hist = v5[1].h)
    PROVE  v5' \in Seq(WebDowns) /\ Web!EchoesAreTrue' /\ Web!HistoriesGrow'
<1>1. v5 \in Seq(WebDowns) /\ Len(v5) \in Nat /\ DOMAIN v5 = 1 .. Len(v5) /\ Len(v5) # 0
    BY WebTypes
<1> DEFINE n == Len(v5) - 1
           at == [i \in 1 .. n |-> i + 1]
<1>2. n \in Nat /\ at \in [1 .. n -> DOMAIN v5]
    BY <1>1
<1>3. v5' \in Seq(WebDowns) /\ Len(v5') = n /\ \A i \in 1 .. n : v5'[i] = v5[at[i]]
    BY <1>1
<1>4. \A i, j \in 1 .. n : i < j => at[i] < at[j]
    OBVIOUS
<1>5. n # n + 1
    BY <1>2
<1>6. NextHist(n, at)
    <2>1. \A i \in 1 .. n : at[i] > 1
        OBVIOUS
    <2>2. QED
        BY <2>1 DEF NextHist
<1>7. v1'.hist = v1.hist /\ v1.accepted \subseteq v1'.accepted
    OBVIOUS
<1> HIDE DEF n, at
<1>8. QED
    BY <1>2, <1>3, <1>4, <1>5, <1>6, <1>7, DownStaysTrue

LEMMA AppendStaysTrue ==
    ASSUME Web!WebInv, UNCHANGED v9, v1'.hist = v1.hist, v1.accepted \subseteq v1'.accepted,
           NEW e \in WebDowns, v5' = Append(v5, e), SaysTrue(e), v6'.hist = v6.hist
    PROVE  v5' \in Seq(WebDowns) /\ Web!EchoesAreTrue' /\ Web!HistoriesGrow'
<1>1. v5 \in Seq(WebDowns) /\ Len(v5) \in Nat /\ DOMAIN v5 = 1 .. Len(v5)
    BY WebTypes
<1> DEFINE n == Len(v5)
           at == [i \in 1 .. n |-> i]
<1>2. n \in Nat /\ at \in [1 .. n -> DOMAIN v5] /\ \A i, j \in 1 .. n : i < j => at[i] < at[j]
    BY <1>1
<1>3. v5' \in Seq(WebDowns) /\ Len(v5') = n + 1 /\ v5'[n + 1] = e
      /\ \A i \in 1 .. n : v5'[i] = v5[at[i]]
    BY <1>1
<1>4. NextHist(n, at)
    BY DEF NextHist
<1> HIDE DEF n, at
<1>5. QED
    BY <1>2, <1>3, <1>4, DownStaysTrue

LEMMA SameStaysTrue ==
    ASSUME Web!WebInv, UNCHANGED v9, v1'.hist = v1.hist, v1.accepted \subseteq v1'.accepted,
           v5' \in {v5, <<>>}, v6'.hist = v6.hist
    PROVE  v5' \in Seq(WebDowns) /\ Web!EchoesAreTrue' /\ Web!HistoriesGrow'
<1>1. v5 \in Seq(WebDowns) /\ <<>> \in Seq(WebDowns) /\ DOMAIN <<>> = {}
    BY WebTypes
<1>2. CASE v5' = v5
    BY <1>1, <1>2 DEF Web!WebInv, Web!EchoesAreTrue, Web!HistoriesGrow
<1>3. CASE v5' = <<>>
    BY <1>1, <1>3 DEF Web!WebInv, Web!EchoesAreTrue, Web!HistoriesGrow
<1>4. QED
    BY <1>2, <1>3

LEMMA OneStaysTrue ==
    ASSUME Web!WebInv, UNCHANGED <<v1, v9>>,
           NEW e \in WebDowns, v5' = <<e>>, SaysTrue(e), v6'.hist = v6.hist
    PROVE  v5' \in Seq(WebDowns) /\ Web!EchoesAreTrue' /\ Web!HistoriesGrow'
<1> DEFINE at == [i \in 1 .. 0 |-> i]
<1>1. 0 \in Nat /\ at \in [1 .. 0 -> DOMAIN v5] /\ (\A i, j \in 1 .. 0 : i < j => at[i] < at[j])
      /\ \A i \in 1 .. 0 : v5'[i] = v5[at[i]]
    OBVIOUS
<1>2. v5' \in Seq(WebDowns) /\ Len(v5') = 1 /\ v5'[0 + 1] = e
    OBVIOUS
<1>3. NextHist(0, at)
    BY DEF NextHist
<1>4. v1'.hist = v1.hist /\ v1.accepted \subseteq v1'.accepted /\ 1 = 0 + 1
    OBVIOUS
<1> HIDE DEF at
<1>5. QED
    BY <1>1, <1>2, <1>3, <1>4, DownStaysTrue

\* The receiver lagged: the broadcasts are gone, the other frames stay in order.
LEMMA LagStaysTrue ==
    ASSUME Web!WebInv, Web!Lag
    PROVE  v5' \in Seq(WebDowns) /\ Web!EchoesAreTrue' /\ Web!HistoriesGrow'
<1>1. UNCHANGED <<v1, v6, v9>>
    BY DEF Web!Lag
<1>0. PICK n \in 0 .. Len(v5), e \in {Web!Hello, Web!Error("none")} :
         \E at \in [1 .. n -> DOMAIN v5] :
            Web!Answers(at) /\ v5' = Append([i \in 1 .. n |-> v5[at[i]]], e)
    BY DEF Web!Lag
<1>2. PICK at \in [1 .. n -> DOMAIN v5] :
         Web!Answers(at) /\ v5' = Append([i \in 1 .. n |-> v5[at[i]]], e)
    BY <1>0
<1>3. PICK t : t = [i \in 1 .. n |-> v5[at[i]]]
    OBVIOUS
<1>5. v5 \in Seq(WebDowns) /\ Len(v5) \in Nat /\ n \in Nat
    BY <1>2, WebTypes
<1>6. e \in WebDowns /\ SaysTrue(e)
    <2>1. Web!Hello \in WebDowns /\ SaysTrue(Web!Hello)
        BY WebTypes DEF WebDowns, Web!Hello, SaysTrue
    <2>2. Web!Error("none") \in WebDowns /\ SaysTrue(Web!Error("none"))
        BY DEF WebDowns, Web!Error, SaysTrue
    <2>3. QED
        BY <1>0, <2>1, <2>2
<1>7. t \in Seq(WebDowns) /\ Len(t) = n /\ \A i \in 1 .. n : t[i] = v5[at[i]]
    BY <1>3, <1>5
<1>8. v5' = Append(t, e)
    BY <1>2, <1>3
<1>9. v5' \in Seq(WebDowns) /\ Len(v5') = n + 1 /\ v5'[n + 1] = e
      /\ \A i \in 1 .. n : v5'[i] = v5[at[i]]
    BY <1>6, <1>7, <1>8
<1>10. \A i, j \in 1 .. n : i < j => at[i] < at[j]
    BY <1>2 DEF Web!Answers
<1>11. NextHist(n, at) /\ v1'.hist = v1.hist /\ v1.accepted \subseteq v1'.accepted
    BY <1>1 DEF NextHist
<1>12. QED
    BY <1>1, <1>2, <1>5, <1>6, <1>9, <1>10, <1>11, DownStaysTrue

\* What the client sends carries the history of its message.
Meant(e) == e.k = "send" => e.m \in Texts /\ v9'[e.m] # 0 /\ e.h = v9'[e.m]

LEMMA UpStaysMeant ==
    ASSUME Web!WebInv, v9' \in [Texts -> {0, 1, 2}],
           \A m \in Texts : v9[m] # 0 => v9'[m] = v9[m],
           \A m \in Texts : v7'[m] # "no" => v9'[m] # 0,
           NEW new \in Seq(WebUps), \A i \in DOMAIN new : Meant(new[i]),
           v4' = v4 \o new \/ v4' = new \/ (v4 # <<>> /\ v4' = Tail(v4))
    PROVE  v4' \in Seq(WebUps) /\ Web!SendsAreMeant'
<1>1. v4 \in Seq(WebUps)
    BY WebTypes
<1>2. \A i \in DOMAIN v4 : Meant(v4[i])
    BY DEF Web!WebInv, Web!SendsAreMeant, Meant
<1>3. v4' \in Seq(WebUps) /\ \A i \in DOMAIN v4' : Meant(v4'[i])
    <2>1. CASE v4' = v4 \o new
        BY <1>1, <1>2, <2>1, ConcatOf
    <2>2. CASE v4' = new
        BY <2>2
    <2>3. CASE v4 # <<>> /\ v4' = Tail(v4)
        BY <1>1, <1>2, <2>3, TailOf
    <2>4. QED
        BY <2>1, <2>2, <2>3
<1>4. QED
    BY <1>3 DEF Web!SendsAreMeant, Meant

LEMMA NothingSentStaysMeant ==
    ASSUME Web!WebInv, UNCHANGED v9, \A m \in Texts : v7'[m] # "no" => v7[m] # "no",
           v4' \in {v4, <<>>} \/ (v4 # <<>> /\ v4' = Tail(v4))
    PROVE  v4' \in Seq(WebUps) /\ Web!SendsAreMeant'
<1> DEFINE none == <<>>
<1>1. none \in Seq(WebUps) /\ \A i \in DOMAIN none : Meant(none[i])
    OBVIOUS
<1>2. v4 \in Seq(WebUps) /\ v9' \in [Texts -> {0, 1, 2}]
    BY WebTypes
<1>3. v4' = v4 \o none \/ v4' = none \/ (v4 # <<>> /\ v4' = Tail(v4))
    BY <1>2
<1>4. \A m \in Texts : v7'[m] # "no" => v9'[m] # 0
    BY DEF Web!WebInv, Web!SendsAreMeant
<1> HIDE DEF none
<1>5. QED
    BY <1>1, <1>2, <1>3, <1>4, UpStaysMeant

\* A message leaves the list of pending ones only if the host has it.
LEMMA FaithKept ==
    ASSUME Web!WebInv, UNCHANGED v9, v1'.hist = v1.hist, v1.accepted \subseteq v1'.accepted,
           \A m \in Texts : v7[m] # "no" => v7'[m] # "no" \/ m \in v1'.accepted \/ v9[m] # v1.hist,
           v6'.request = "waiting" => v2' = "open"
    PROVE  Web!WebKeepsFaith'
BY DEF Web!WebInv, Web!WebKeepsFaith

LEMMA RequestFails ==
    ASSUME Web!WebInv
    PROVE  /\ Web!RequestFailed \in WebStates /\ Web!RequestFailed.hist = v6.hist
           /\ Web!RequestFailed.request # "waiting"
BY WebTypes DEF WebStates, Web!RequestFailed

LEMMA SessionKeepsFaith ==
    ASSUME Web!WebInv, Web!SayHello \/ Web!SnapshotFails \/ Web!Lag
    PROVE  Web!WebInv'
<1>1. UNCHANGED <<v1, v2, v4, v6, v7, v8, v9, v11>> /\ v10' \in 0 .. Cuts /\ v3' \in BOOLEAN
    BY WebCounters DEF Web!SayHello, Web!SnapshotFails, Web!Lag, Web!WebInv, Web!TypeOK
<1>2. v5' \in Seq(WebDowns) /\ Web!EchoesAreTrue' /\ Web!HistoriesGrow'
    <2>1. CASE Web!Lag
        BY <2>1, LagStaysTrue
    <2>2. CASE Web!SayHello \/ Web!SnapshotFails
        <3>1. PICK e \in {Web!Hello, Web!Error("none")} : v5' = <<e>>
            BY <2>2 DEF Web!SayHello, Web!SnapshotFails
        <3>2. e \in WebDowns /\ SaysTrue(e)
            BY <3>1, WebTypes DEF Web!Hello, Web!Error, WebDowns, SaysTrue
        <3>3. QED
            BY <1>1, <3>1, <3>2, OneStaysTrue
    <2>3. QED
        BY <2>1, <2>2
<1>3. v4' \in Seq(WebUps) /\ Web!SendsAreMeant'
    BY <1>1, NothingSentStaysMeant
<1>4. Web!WebShapes' /\ Web!TypeOK'
    BY <1>1, <1>2, <1>3, WebTypes, WebTyped, WebCounters
<1>5. Web!WebKeepsFaith'
    BY <1>1 DEF Web!WebInv, Web!WebKeepsFaith
<1>6. QED
    BY <1>2, <1>3, <1>4, <1>5 DEF Web!WebInv

\* The host echoes what it accepted.
LEMMA ServeKeepsFaith ==
    ASSUME Web!WebInv, Web!ServeSend \/ Web!ServeAction \/ Web!ServeUpload
    PROVE  Web!WebInv'
<1>1. /\ UNCHANGED <<v2, v3, v6, v7, v8, v9, v10, v11>> /\ v4 # <<>> /\ v4' = Tail(v4)
      /\ v2 = "open"
    BY DEF Web!ServeSend, Web!ServeAction, Web!ServeUpload, Web!Request
<1>2. Head(v4) \in WebUps /\ Head(v4) = v4[1] /\ 1 \in DOMAIN v4
    BY <1>1, WebTypes, TailOf
<1>3. \E e \in WebDowns :
         /\ v1' \in WebHosts /\ v1'.hist = v1.hist /\ v1.accepted \subseteq v1'.accepted
         /\ v5' = Append(v5, e) /\ SaysTrue(e)
    <2>1. v1 \in WebHosts /\ v1.hist \in {1, 2} /\ v1.accepted \subseteq Texts
        BY WebTypes DEF WebHosts
    <2>2. CASE Web!ServeSend
        <3>1. PICK m : m = Head(v4).m
            OBVIOUS
        <3>2. m \in Texts /\ v9[m] # 0 /\ Head(v4).k = "send"
            BY <1>2, <2>2, <3>1 DEF Web!WebInv, Web!SendsAreMeant, Web!ServeSend, Web!Request
        <3>3. Web!Echo(m) \in WebDowns /\ Web!Error(m) \in WebDowns /\ SaysTrue(Web!Error(m))
              /\ Web!Echo(m).k = "msg" /\ Web!Echo(m).m = m
            BY <3>2 DEF Web!Echo, Web!Error, WebDowns, SaysTrue
        <3>4. CASE v1' = [v1 EXCEPT !.accepted = @ \cup {m}] /\ v5' = Append(v5, Web!Echo(m))
            <4>1. v1' \in WebHosts /\ v1'.hist = v1.hist /\ v1'.accepted = v1.accepted \cup {m}
                BY <2>1, <3>2, <3>4 DEF WebHosts
            <4>2. SaysTrue(Web!Echo(m))
                BY <3>2, <3>3, <4>1 DEF SaysTrue
            <4>3. QED
                BY <3>3, <3>4, <4>1, <4>2
        <3>5. CASE v1' = v1 /\ v5' = Append(v5, Web!Error(m))
            BY <2>1, <3>3, <3>5
        <3>6. QED
            BY <2>2, <3>1, <3>4, <3>5 DEF Web!ServeSend, Web!Replies
    <2>3. CASE Web!ServeAction \/ Web!ServeUpload
        <3>1. PICK k \in {"applied", "refused", "blob"} : v5' = Append(v5, Web!Answer(k)) /\ v1' = v1
            BY <2>3 DEF Web!ServeAction, Web!ServeUpload, Web!Replies
        <3>2. Web!Answer(k) \in WebDowns /\ SaysTrue(Web!Answer(k))
            BY DEF Web!Answer, WebDowns, SaysTrue
        <3>3. QED
            BY <2>1, <3>1, <3>2
    <2>4. QED
        BY <2>2, <2>3
<1>4. v5' \in Seq(WebDowns) /\ Web!EchoesAreTrue' /\ Web!HistoriesGrow'
    BY <1>1, <1>3, AppendStaysTrue
<1>5. v4' \in Seq(WebUps) /\ Web!SendsAreMeant'
    BY <1>1, NothingSentStaysMeant
<1>6. Web!WebShapes' /\ Web!TypeOK'
    <2>1. v3' \in BOOLEAN
        BY <1>1 DEF Web!WebInv, Web!TypeOK
    <2>2. QED
        BY <1>1, <1>3, <1>4, <1>5, <2>1, WebTypes, WebTyped, WebCounters
<1>7. Web!WebKeepsFaith'
    BY <1>1, <1>3, FaithKept
<1>8. QED
    BY <1>4, <1>5, <1>6, <1>7 DEF Web!WebInv

\* After a reset no message is of the host's history.
LEMMA HostKeepsFaith ==
    ASSUME Web!WebInv, Web!Reset \/ Web!Revoke
    PROVE  Web!WebInv'
<1>1. UNCHANGED <<v2, v3, v4, v5, v6, v7, v8, v9, v11>> /\ v10' \in 0 .. Cuts
    BY WebCounters DEF Web!Reset, Web!Revoke
<1>2. v3' \in BOOLEAN
    BY <1>1 DEF Web!WebInv, Web!TypeOK
<1>3. Web!SendsAreMeant' /\ v4' \in Seq(WebUps)
    BY <1>1, NothingSentStaysMeant
<1>4. CASE Web!Revoke
    <2>1. v1' \in WebHosts /\ v1'.hist = v1.hist /\ v1'.accepted = v1.accepted
        BY <1>4, WebTypes DEF Web!Revoke, WebHosts
    <2>2. v5' \in Seq(WebDowns) /\ Web!EchoesAreTrue' /\ Web!HistoriesGrow'
        BY <1>1, <2>1, SameStaysTrue
    <2>3. Web!WebKeepsFaith'
        BY <1>1, <2>1 DEF Web!WebInv, Web!WebKeepsFaith
    <2>4. Web!WebShapes' /\ Web!TypeOK'
        BY <1>1, <1>2, <1>3, <2>1, <2>2, WebTypes, WebTyped, WebCounters
    <2>5. QED
        BY <1>3, <2>2, <2>3, <2>4 DEF Web!WebInv
<1>5. CASE Web!Reset
    <2>1. v1' \in WebHosts /\ v1.hist = 1 /\ v1'.hist = 2 /\ v1'.accepted = {}
        BY <1>5, WebTypes DEF Web!Reset, WebHosts
    <2>2. \A m \in Texts : v9[m] # 2
        <3>1. \A m \in Texts : v9[m] \in {0, 1, 2} /\ v9[m] <= v6.hist /\ v6.hist <= 1
            BY <2>1, WebTypes DEF Web!WebInv, Web!HistoriesGrow
        <3>2. QED
            BY <3>1, WebTypes
    <2>3. Web!EchoesAreTrue' /\ Web!WebKeepsFaith'
        BY <1>1, <2>1, <2>2 DEF Web!WebInv, Web!EchoesAreTrue, Web!WebKeepsFaith
    <2>4. Web!HistoriesGrow'
        <3>1. \A i \in DOMAIN v5 : v5[i].h \in {0, 1, 2}
            <4>1. \A i \in DOMAIN v5 : v5[i] \in WebDowns
                BY WebTypes
            <4>2. QED
                BY <4>1 DEF WebDowns
        <3>2. v6.hist <= 2
            BY WebTypes
        <3>3. \A i \in DOMAIN v5 : v5[i].h <= 2
            BY <3>1
        <3>4. QED
            BY <1>1, <2>1, <3>2, <3>3 DEF Web!WebInv, Web!HistoriesGrow
    <2>5. Web!WebShapes' /\ Web!TypeOK'
        <3>1. v5' \in Seq(WebDowns)
            BY <1>1, WebTypes
        <3>2. QED
            BY <1>1, <1>2, <1>3, <2>1, <3>1, WebTypes, WebTyped, WebCounters
    <2>6. QED
        BY <1>3, <2>3, <2>4, <2>5 DEF Web!WebInv
<1>6. QED
    BY <1>4, <1>5

\* A connection that comes or goes fails what waited on it and keeps the messages.
LEMMA SocketKeepsFaith ==
    ASSUME Web!WebInv, Web!OpenSocket \/ Web!Close \/ Web!Rejected \/ Web!SignIn
    PROVE  Web!WebInv'
<1>1. /\ UNCHANGED <<v7, v9>> /\ v8' \in {v8, {}}
      /\ v4' \in {v4, <<>>} /\ v5' \in {v5, <<>>} /\ v3' \in {v3, FALSE}
      /\ v2' \in {"none", "opening", "stopped"}
      /\ v10' \in 0 .. Cuts /\ v11' \in 0 .. Timeouts
    BY WebCounters DEF Web!OpenSocket, Web!Close, Web!Rejected, Web!SignIn
<1>2. v1' \in WebHosts /\ v1'.hist = v1.hist /\ v1'.accepted = v1.accepted
    BY WebTypes DEF Web!OpenSocket, Web!Close, Web!Rejected, Web!SignIn, WebHosts
<1>3. v6' \in WebStates /\ v6'.hist = v6.hist /\ v6'.request # "waiting"
    <2>1. CASE Web!OpenSocket
        BY <2>1, WebTypes DEF Web!OpenSocket, Web!WebInv, Web!WebKeepsFaith
    <2>2. CASE Web!SignIn
        <3>1. v6.request # "waiting" /\ v6' = [v6 EXCEPT !.token = TRUE]
            BY <2>2 DEF Web!SignIn, Web!WebInv, Web!WebKeepsFaith
        <3>2. QED
            BY <3>1, WebTypes DEF WebStates
    <2>3. CASE Web!Close
        BY <2>3, RequestFails DEF Web!Close
    <2>4. CASE Web!Rejected
        <3>1. PICK w : w = Web!RequestFailed
            OBVIOUS
        <3>2. v6' = [w EXCEPT !.token = FALSE, !.upload = IF @ \in {"queued", "waiting"} THEN "failed" ELSE @]
            BY <2>4, <3>1 DEF Web!Rejected
        <3>3. QED
            BY <3>1, <3>2, RequestFails DEF WebStates
    <2>5. QED
        BY <2>1, <2>2, <2>3, <2>4
<1>4. Web!SendsAreMeant' /\ v4' \in Seq(WebUps)
    BY <1>1, NothingSentStaysMeant
<1>5. v5' \in Seq(WebDowns) /\ Web!EchoesAreTrue' /\ Web!HistoriesGrow'
    BY <1>1, <1>2, <1>3, SameStaysTrue
<1>6. Web!WebKeepsFaith'
    BY <1>1, <1>2, <1>3, FaithKept
<1>7. v3' \in BOOLEAN /\ v8' \subseteq Texts
    BY <1>1, WebTypes DEF Web!WebInv, Web!TypeOK
<1>8. Web!WebShapes' /\ Web!TypeOK'
    BY <1>1, <1>2, <1>3, <1>4, <1>5, <1>7, WebTypes, WebTyped
<1>9. QED
    BY <1>4, <1>5, <1>6, <1>8 DEF Web!WebInv

LEMMA WebCardinality == ASSUME NEW S PROVE Web!Cardinality(S) = Cardinality(S)
BY DEF Web!Cardinality, Cardinality

LEMMA WebSetToSeqOf ==
    ASSUME NEW S, IsFiniteSet(S)
    PROVE  Web!SetToSeq(S) \in Seq(S)
<1>1. Cardinality(S) \in Nat /\ ExistsBijection(1 .. Cardinality(S), S)
    BY FS_CardinalityType
<1>2. \E f \in [1 .. Cardinality(S) -> S] : Web!IsInjective(f)
    BY <1>1 DEF ExistsBijection, Bijection, Injection, IsInjective, Web!IsInjective
<1>3. Web!SetToSeq(S) \in [1 .. Cardinality(S) -> S]
    BY <1>2, WebCardinality DEF Web!SetToSeq
<1>4. QED
    BY <1>1, <1>3

\* Of the known history the client sends again what is unsettled.
LEMMA HelloOkKeepsFaith ==
    ASSUME Web!WebInv, Web!HelloOk
    PROVE  Web!WebInv'
<1>1. /\ UNCHANGED <<v1, v3, v7, v9, v10, v11>> /\ v2' = "open"
      /\ v5 # <<>> /\ v5' = Tail(v5) /\ Head(v5).k = "hello"
      /\ v8' = v8 \cup Web!Unsettled
      /\ v6' = [v6 EXCEPT !.hist = Head(v5).h, !.upload = IF @ = "queued" THEN "waiting" ELSE @]
    BY DEF Web!HelloOk, Web!Receive
<1>2. Head(v5) \in WebDowns /\ Head(v5) = v5[1] /\ v5[1].h \in {0, 1, 2}
    <2>1. Head(v5) \in WebDowns /\ Head(v5) = v5[1]
        BY <1>1, WebTypes, TailOf
    <2>2. QED
        BY <2>1 DEF WebDowns
<1>3. v6' \in WebStates /\ v6'.hist = v5[1].h /\ v6'.request = v6.request
    BY <1>1, <1>2, WebTypes DEF WebStates
<1>4. v5' \in Seq(WebDowns) /\ Web!EchoesAreTrue' /\ Web!HistoriesGrow'
    BY <1>1, <1>2, <1>3, TailStaysTrue
<1>5. Web!Unsettled \subseteq Texts /\ IsFiniteSet(Web!Unsettled)
    BY TextsAssumption, FS_Subset DEF Web!Unsettled
<1>6. v4' \in Seq(WebUps) /\ Web!SendsAreMeant'
    <2> DEFINE frames == {Web!Send(m) : m \in Web!Unsettled}
               T == {e \in WebUps : Meant(e)}
               uploads == IF v6.upload = "queued" THEN <<Web!Upload>> ELSE <<>>
    <2>1. frames \subseteq T
        BY <1>1, <1>5, WebTypes
           DEF Web!WebInv, Web!SendsAreMeant, Web!Unsettled, Web!Send, WebUps, Meant
    <2>2. IsFiniteSet(frames)
        <3> DEFINE f == [m \in Web!Unsettled |-> Web!Send(m)]
        <3>1. f \in Surjection(Web!Unsettled, frames)
            BY DEF Surjection
        <3> HIDE DEF f, frames
        <3>2. QED
            BY <1>5, <3>1, FS_Surjection
    <2>3. uploads \in Seq(T)
        <3>1. Web!Upload \in T
            BY DEF Web!Upload, WebUps, Meant
        <3> HIDE DEF T
        <3>2. QED
            BY <3>1
    <2>4. v4' = (v4 \o Web!SetToSeq(frames)) \o uploads
        BY DEF Web!HelloOk
    <2> HIDE DEF frames, uploads, T
    <2>5. Web!SetToSeq(frames) \in Seq(T)
        BY <2>1, <2>2, WebSetToSeqOf, SeqGrows
    <2>6. T \subseteq WebUps /\ \A e \in T : Meant(e)
        BY DEF T
    <2>7. PICK new \in Seq(T) : v4' = v4 \o new
        <3>1. v4 \in Seq(WebUps)
            BY WebTypes
        <3>2. Web!SetToSeq(frames) \in Seq(WebUps) /\ uploads \in Seq(WebUps)
            BY <2>3, <2>5, <2>6, SeqGrows
        <3>3. (v4 \o Web!SetToSeq(frames)) \o uploads = v4 \o (Web!SetToSeq(frames) \o uploads)
            BY <3>1, <3>2
        <3>4. Web!SetToSeq(frames) \o uploads \in Seq(T)
            BY <2>3, <2>5
        <3>5. QED
            BY <2>4, <3>3, <3>4
    <2>8. new \in Seq(WebUps) /\ \A i \in DOMAIN new : Meant(new[i])
        BY <2>6, <2>7, SeqGrows
    <2>9. v9' \in [Texts -> {0, 1, 2}] /\ \A m \in Texts : v7'[m] # "no" => v9'[m] # 0
        BY <1>1, WebTypes DEF Web!WebInv, Web!SendsAreMeant
    <2>10. QED
        BY <1>1, <2>7, <2>8, <2>9, UpStaysMeant
<1>7. Web!WebKeepsFaith'
    BY <1>1, <1>3, FaithKept
<1>8. v3' \in BOOLEAN /\ v8' \subseteq Texts
    BY <1>1, <1>5, WebTypes DEF Web!WebInv, Web!TypeOK
<1>9. Web!WebShapes' /\ Web!TypeOK'
    BY <1>1, <1>3, <1>4, <1>6, <1>8, WebTypes, WebTyped, WebCounters
<1>10. QED
    BY <1>4, <1>6, <1>7, <1>9 DEF Web!WebInv

\* Of another history it forgets, and no message it has submitted is of that one.
LEMMA HelloOtherKeepsFaith ==
    ASSUME Web!WebInv, Web!HelloOther
    PROVE  Web!WebInv'
<1>1. /\ UNCHANGED <<v1, v3, v4, v9, v10, v11>> /\ v2' = "open"
      /\ v5 # <<>> /\ v5' = Tail(v5) /\ Head(v5).k = "hello" /\ v6.hist \notin {0, Head(v5).h}
      /\ v8' = {} /\ v7' = [m \in Texts |-> "no"]
      /\ v6' = [Web!RequestFailed EXCEPT !.hist = Head(v5).h,
                   !.upload = IF @ \in {"queued", "waiting"} THEN "failed" ELSE @]
    BY DEF Web!HelloOther, Web!Receive
<1>2. Head(v5) \in WebDowns /\ Head(v5) = v5[1] /\ v5[1].h \in {0, 1, 2} /\ 1 \in DOMAIN v5
    <2>1. Head(v5) \in WebDowns /\ Head(v5) = v5[1] /\ 1 \in DOMAIN v5
        BY <1>1, WebTypes, TailOf
    <2>2. QED
        BY <2>1 DEF WebDowns
<1>3. v6' \in WebStates /\ v6'.hist = v5[1].h /\ v6'.request # "waiting"
    <2>1. PICK w : w = Web!RequestFailed
        OBVIOUS
    <2>2. w \in WebStates /\ w.request # "waiting"
        BY <2>1, RequestFails
    <2>3. v6' = [w EXCEPT !.hist = v5[1].h, !.upload = IF @ \in {"queued", "waiting"} THEN "failed" ELSE @]
        BY <1>1, <1>2, <2>1
    <2>4. QED
        BY <1>2, <2>2, <2>3 DEF WebStates
<1>4. v5' \in Seq(WebDowns) /\ Web!EchoesAreTrue' /\ Web!HistoriesGrow'
    BY <1>1, <1>2, <1>3, TailStaysTrue
<1>5. \A m \in Texts : v9[m] # v1.hist
    <2>1. /\ v6.hist <= v5[1].h /\ v5[1].h <= v1.hist /\ \A m \in Texts : v9[m] <= v6.hist
        BY <1>1, <1>2 DEF Web!WebInv, Web!HistoriesGrow
    <2>2. v6.hist # v5[1].h /\ v6.hist \in {0, 1, 2} /\ v1.hist \in {1, 2} /\ \A m \in Texts : v9[m] \in {0, 1, 2}
        BY <1>1, <1>2, WebTypes
    <2>3. QED
        BY <1>2, <2>1, <2>2
<1>6. Web!WebKeepsFaith'
    BY <1>1, <1>3, <1>5 DEF Web!WebKeepsFaith
<1>7. v4' \in Seq(WebUps) /\ Web!SendsAreMeant'
    BY <1>1, NothingSentStaysMeant
<1>8. v3' \in BOOLEAN /\ v7' \in [Texts -> {"no", "sending", "failed"}]
    BY <1>1 DEF Web!WebInv, Web!TypeOK
<1>9. Web!WebShapes' /\ Web!TypeOK'
    <2>1. v1' \in WebHosts /\ v9' \in [Texts -> {0, 1, 2}] /\ v8' \subseteq Texts
          /\ v10' \in 0 .. Cuts /\ v11' \in 0 .. Timeouts
        BY <1>1, WebTypes, WebCounters
    <2>2. QED
        BY <1>1, <1>3, <1>4, <1>7, <1>8, <2>1, WebTyped
<1>10. QED
    BY <1>4, <1>6, <1>7, <1>9 DEF Web!WebInv

\* Messages are submitted in the history the client shows, and stay pending
\* until their echo.
LEMMA SendingKeepsFaith ==
    ASSUME Web!WebInv, NEW m \in Texts, Web!SendMessage(m) \/ Web!RetryMessage(m) \/ Web!AckTimeout(m)
    PROVE  Web!WebInv'
<1>1. /\ UNCHANGED <<v1, v2, v3, v5, v6, v10>> /\ v11' \in 0 .. Timeouts
      /\ v8' \subseteq Texts /\ v3' \in BOOLEAN
      /\ v7' \in [Texts -> {"no", "sending", "failed"}]
      /\ \A n \in Texts : v7[n] # "no" => v7'[n] # "no"
    <2>1. /\ UNCHANGED <<v1, v2, v3, v5, v6, v10>> /\ v3 \in BOOLEAN
        BY DEF Web!SendMessage, Web!RetryMessage, Web!AckTimeout, Web!WebInv, Web!TypeOK
    <2>2. v11' \in 0 .. Timeouts
        BY WebCounters DEF Web!SendMessage, Web!RetryMessage, Web!AckTimeout
    <2>3. v8' \subseteq Texts
        BY WebTypes DEF Web!SendMessage, Web!RetryMessage, Web!AckTimeout
    <2>4. v7' \in [Texts -> {"no", "sending", "failed"}]
        BY WebTypes DEF Web!SendMessage, Web!RetryMessage, Web!AckTimeout
    <2>5. \A n \in Texts : v7[n] # "no" => v7'[n] # "no"
        BY WebTypes DEF Web!SendMessage, Web!RetryMessage, Web!AckTimeout
    <2>6. QED
        BY <2>1, <2>2, <2>3, <2>4, <2>5
<1>2. /\ v9' \in [Texts -> {0, 1, 2}]
      /\ v9' = v9 \/ (v9[m] = 0 /\ v6.hist # 0 /\ v9' = [v9 EXCEPT ![m] = v6.hist] /\ v7'[m] = "sending")
    BY WebTypes DEF Web!SendMessage, Web!RetryMessage, Web!AckTimeout, Web!Ready
<1>3. \A n \in Texts : v7'[n] # "no" => v9'[n] # 0
    <2>1. \A n \in Texts : v7[n] # "no" => v9[n] # 0
        BY DEF Web!WebInv, Web!SendsAreMeant
    <2>2. v7[m] # "no" \/ v9' # v9 => v9'[m] # 0
        BY <1>2, <2>1, WebTypes
    <2>3. \A n \in Texts \ {m} : v7'[n] = v7[n] /\ v9'[n] = v9[n]
        BY <1>2, WebTypes DEF Web!SendMessage, Web!RetryMessage, Web!AckTimeout
    <2>4. v7'[m] # "no" => v9'[m] # 0
        <3>1. CASE Web!SendMessage(m)
            BY <3>1, WebTypes DEF Web!SendMessage, Web!Ready
        <3>2. CASE Web!RetryMessage(m) \/ Web!AckTimeout(m)
            <4>1. v7'[m] # "no" => v7[m] # "no"
                BY <3>2, WebTypes DEF Web!RetryMessage, Web!AckTimeout
            <4>2. QED
                BY <2>1, <3>2, <4>1 DEF Web!RetryMessage, Web!AckTimeout
        <3>3. QED
            BY <3>1, <3>2
    <2>5. QED
        BY <2>1, <2>3, <2>4
<1>4. v4' \in Seq(WebUps) /\ Web!SendsAreMeant'
    <2>1. \E new \in Seq(WebUps) : v4' = v4 \o new /\ \A i \in DOMAIN new : Meant(new[i])
        <3>1. v4 \in Seq(WebUps)
            BY WebTypes
        <3>2. CASE v4' = v4
            <4>1. <<>> \in Seq(WebUps) /\ v4 = v4 \o <<>> /\ DOMAIN <<>> = {}
                BY <3>1
            <4>2. QED
                BY <3>2, <4>1
        <3>3. ASSUME NEW e \in WebUps, Meant(e), v4' = Append(v4, e)
              PROVE  \E new \in Seq(WebUps) : v4' = v4 \o new /\ \A i \in DOMAIN new : Meant(new[i])
            <4>1. <<e>> \in Seq(WebUps) /\ Append(v4, e) = v4 \o <<e>> /\ DOMAIN <<e>> = {1} /\ <<e>>[1] = e
                BY <3>1, <3>3
            <4>2. QED
                BY <3>3, <4>1
        <3>4. CASE Web!SendMessage(m)
            <4>1. PICK e : e = [k |-> "send", m |-> m, h |-> v6.hist]
                OBVIOUS
            <4>2. v4' = Append(v4, e) /\ v9'[m] = v6.hist /\ v6.hist # 0
                BY <3>4, <4>1, WebTypes DEF Web!SendMessage, Web!Ready
            <4>3. e \in WebUps /\ Meant(e)
                BY <4>1, <4>2, WebTypes DEF WebUps, Meant
            <4>4. QED
                BY <3>3, <4>2, <4>3
        <3>5. CASE Web!RetryMessage(m)
            <4>1. PICK e : e = Web!Send(m)
                OBVIOUS
            <4>2. v4' \in {v4, Append(v4, e)} /\ v9' = v9 /\ v7[m] # "no"
                BY <3>5, <4>1 DEF Web!RetryMessage
            <4>3. e \in WebUps /\ Meant(e)
                BY <4>1, <4>2, WebTypes DEF WebUps, Meant, Web!Send, Web!WebInv, Web!SendsAreMeant
            <4>4. QED
                BY <3>2, <3>3, <4>2, <4>3
        <3>6. QED
            BY <3>2, <3>4, <3>5 DEF Web!AckTimeout
    <2>2. \A n \in Texts : v9[n] # 0 => v9'[n] = v9[n]
        BY <1>2, WebTypes
    <2>3. QED
        BY <1>2, <1>3, <2>1, <2>2, UpStaysMeant
<1>5. Web!EchoesAreTrue'
    <2>1. \A n \in Texts : v9[n] # 0 => v9'[n] = v9[n]
        BY <1>2, WebTypes
    <2>2. QED
        BY <1>1, <2>1 DEF Web!WebInv, Web!EchoesAreTrue
<1>6. Web!HistoriesGrow'
    <2>1. \A n \in Texts : v9'[n] <= v6.hist
        BY <1>2, WebTypes DEF Web!WebInv, Web!HistoriesGrow
    <2>2. QED
        BY <1>1, <2>1 DEF Web!WebInv, Web!HistoriesGrow
<1>7. Web!WebKeepsFaith'
    BY <1>1, <1>2, WebTypes DEF Web!WebInv, Web!WebKeepsFaith
<1>8. Web!WebShapes' /\ Web!TypeOK'
    <2>1. v5' \in Seq(WebDowns) /\ v1' \in WebHosts /\ v6' \in WebStates
          /\ v2' \in {"none", "opening", "open", "stopped"} /\ v10' \in 0 .. Cuts
        BY <1>1, WebTypes, WebCounters
    <2>2. QED
        BY <1>1, <1>2, <1>4, <2>1, WebTyped
<1>9. QED
    BY <1>4, <1>5, <1>6, <1>7, <1>8 DEF Web!WebInv

\* An echo settles a message the host has, or one of an earlier history.
LEMMA SettlingKeepsFaith ==
    ASSUME Web!WebInv, Web!Echoed \/ Web!Refused \/ Web!ErrorShown \/ Web!Settles
    PROVE  Web!WebInv'
<1>1. /\ UNCHANGED <<v1, v2, v3, v4, v9, v10, v11>> /\ v5 # <<>> /\ v5' = Tail(v5) /\ v2 = "open"
      /\ v3' \in BOOLEAN
    BY DEF Web!Echoed, Web!Refused, Web!ErrorShown, Web!Settles, Web!Receive, Web!WebInv, Web!TypeOK
<1>2. Head(v5) = v5[1] /\ 1 \in DOMAIN v5
    BY <1>1, WebTypes, TailOf
<1>3. v6' \in WebStates /\ v6'.hist = v6.hist
    <2>1. CASE Web!Echoed \/ Web!Refused \/ Web!ErrorShown
        BY <2>1, WebTypes DEF Web!Echoed, Web!Refused, Web!ErrorShown
    <2>2. CASE Web!Settles
        <3>1. \/ v6' = v6
              \/ \E u \in {"no", "queued", "waiting", "done", "failed"} : v6' = [v6 EXCEPT !.upload = u]
              \/ \E r \in {"applied", "failed"} : v6' = [v6 EXCEPT !.request = r]
            BY <2>2, WebTypes DEF Web!Settles, WebStates
        <3>2. QED
            BY <3>1, WebTypes DEF WebStates
    <2>3. QED
        BY <2>1, <2>2
<1>4. v8' \subseteq Texts /\ v7' \in [Texts -> {"no", "sending", "failed"}]
      /\ \A n \in Texts : v7'[n] # "no" => v7[n] # "no"
    BY WebTypes DEF Web!Echoed, Web!Refused, Web!ErrorShown, Web!Settles
<1>5. \A n \in Texts : v7[n] # "no" => v7'[n] # "no" \/ n \in v1'.accepted \/ v9[n] # v1.hist
    <2>1. CASE Web!Echoed
        <3>1. PICK m : m = v5[1].m
            OBVIOUS
        <3>2. v5[1].k = "msg" /\ v7' = [v7 EXCEPT ![m] = "no"]
            BY <1>2, <2>1, <3>1 DEF Web!Echoed, Web!Receive
        <3>3. m \in v1.accepted \/ v9[m] # v1.hist
            BY <1>2, <3>1, <3>2 DEF Web!WebInv, Web!EchoesAreTrue
        <3>4. QED
            BY <1>1, <3>2, <3>3, WebTypes
    <2>2. CASE Web!Refused \/ Web!ErrorShown \/ Web!Settles
        BY <2>2, WebTypes DEF Web!Refused, Web!ErrorShown, Web!Settles
    <2>3. QED
        BY <2>1, <2>2
<1>6. v5' \in Seq(WebDowns) /\ Web!EchoesAreTrue' /\ Web!HistoriesGrow'
    BY <1>1, <1>3, TailStaysTrue
<1>7. v4' \in Seq(WebUps) /\ Web!SendsAreMeant'
    BY <1>1, <1>4, NothingSentStaysMeant
<1>8. Web!WebKeepsFaith'
    BY <1>1, <1>5, FaithKept
<1>9. Web!WebShapes' /\ Web!TypeOK'
    BY <1>1, <1>3, <1>4, <1>6, <1>7, WebTypes, WebTyped, WebCounters
<1>10. QED
    BY <1>6, <1>7, <1>8, <1>9 DEF Web!WebInv

\* Requests wait on an open connection only; uploads may wait for one.
LEMMA AskingKeepsFaith ==
    ASSUME Web!WebInv, Web!Ask \/ Web!UploadBlob \/ Web!RequestTimeout \/ Web!UploadTimeout
    PROVE  Web!WebInv'
<1>1. /\ UNCHANGED <<v1, v2, v3, v5, v7, v8, v9, v10>> /\ v11' \in 0 .. Timeouts /\ v3' \in BOOLEAN
    BY WebCounters DEF Web!Ask, Web!UploadBlob, Web!RequestTimeout, Web!UploadTimeout, Web!WebInv, Web!TypeOK
<1>2. /\ v6' \in WebStates /\ v6'.hist = v6.hist
      /\ v6'.request = "waiting" => v2' = "open"
    <2>1. v6.request = "waiting" => v2 = "open"
        BY DEF Web!WebInv, Web!WebKeepsFaith
    <2>2. QED
        BY <2>1, WebTypes DEF Web!Ask, Web!UploadBlob, Web!RequestTimeout, Web!UploadTimeout, Web!Ready, WebStates
<1>3. v4' \in Seq(WebUps) /\ Web!SendsAreMeant'
    <2>1. \E new \in Seq(WebUps) : v4' = v4 \o new /\ \A i \in DOMAIN new : Meant(new[i])
        <3>1. v4 \in Seq(WebUps)
            BY WebTypes
        <3>2. CASE v4' = v4
            <4>1. <<>> \in Seq(WebUps) /\ v4 = v4 \o <<>> /\ DOMAIN <<>> = {}
                BY <3>1
            <4>2. QED
                BY <3>2, <4>1
        <3>3. ASSUME NEW e \in {Web!Action, Web!Upload}, v4' = Append(v4, e)
              PROVE  \E new \in Seq(WebUps) : v4' = v4 \o new /\ \A i \in DOMAIN new : Meant(new[i])
            <4>1. e \in WebUps /\ Meant(e)
                BY <3>3, WebTypes DEF Web!Action, Web!Upload, WebUps, Meant
            <4>2. <<e>> \in Seq(WebUps) /\ Append(v4, e) = v4 \o <<e>> /\ DOMAIN <<e>> = {1} /\ <<e>>[1] = e
                BY <3>1, <4>1
            <4>3. QED
                BY <3>3, <4>1, <4>2
        <3>4. QED
            BY <3>2, <3>3 DEF Web!Ask, Web!UploadBlob, Web!RequestTimeout, Web!UploadTimeout
    <2>2. v9' \in [Texts -> {0, 1, 2}] /\ \A m \in Texts : v7'[m] # "no" => v9'[m] # 0
        BY <1>1, WebTypes DEF Web!WebInv, Web!SendsAreMeant
    <2>3. QED
        BY <1>1, <2>1, <2>2, UpStaysMeant
<1>4. v5' \in Seq(WebDowns) /\ Web!EchoesAreTrue' /\ Web!HistoriesGrow'
    BY <1>1, <1>2, SameStaysTrue
<1>5. Web!WebKeepsFaith'
    BY <1>1, <1>2, FaithKept
<1>6. Web!WebShapes' /\ Web!TypeOK'
    BY <1>1, <1>2, <1>3, <1>4, WebTypes, WebTyped, WebCounters
<1>7. QED
    BY <1>3, <1>4, <1>5, <1>6 DEF Web!WebInv

LEMMA WebNextKeepsInv ==
    ASSUME Web!WebInv, Web!Next
    PROVE  Web!WebInv'
BY SessionKeepsFaith, ServeKeepsFaith, HostKeepsFaith, SocketKeepsFaith, HelloOkKeepsFaith,
   HelloOtherKeepsFaith, SendingKeepsFaith, SettlingKeepsFaith, AskingKeepsFaith
   DEF Web!Next, Web!Steady

LEMMA WebInitInv == Web!Init => Web!WebInv
<1> SUFFICES ASSUME Web!Init PROVE Web!WebInv
    OBVIOUS
<1>1. \A m \in Texts : v7[m] = "no" /\ v9[m] = 0
    BY DEF Web!Init
<1>2. v4 = <<>> /\ v5 = <<>> /\ DOMAIN <<>> = {}
    BY DEF Web!Init
<1>3. Web!WebShapes
    BY DEF Web!Init, Web!WebShapes, Web!History
<1>4. Web!TypeOK
    <2>1. v7 \in [Texts -> {"no", "sending", "failed"}]
        BY DEF Web!Init
    <2>2. v9 \in [Texts -> {1, 2} \cup {0}]
        BY DEF Web!Init
    <2>3. v10 \in 0 .. Cuts /\ v11 \in 0 .. Timeouts
        BY TextsAssumption DEF Web!Init
    <2>4. QED
        BY <2>1, <2>2, <2>3 DEF Web!Init, Web!TypeOK, Web!History
<1>5. QED
    BY <1>1, <1>2, <1>3, <1>4
       DEF Web!Init, Web!WebInv, Web!SendsAreMeant, Web!EchoesAreTrue, Web!HistoriesGrow, Web!WebKeepsFaith

=============================================================================
