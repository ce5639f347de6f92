------------------------- MODULE MCServices_proofs -------------------------
(***************************************************************************)
(* Theorems about the services beside a turn and the host's stores: the    *)
(* plugin daemons (Plugins), the coding tools (NativeTools), the uploads    *)
(* (Blobs), the edits of artifacts (Artifacts), the settings (HostConfig)   *)
(* and the tool calls of a CLI turn (ToolBridge). Each has an inductive     *)
(* invariant, which its module states; a behaviour of MCServices is of one  *)
(* part, so that together they are an invariant of MCSpec.                  *)
(***************************************************************************)
EXTENDS MCServices, FiniteSetTheorems, TLAPS

-----------------------------------------------------------------------------
(* Sequences                                                               *)

LEMMA SeqElements ==
    ASSUME NEW S, NEW s \in Seq(S)
    PROVE  Len(s) \in Nat /\ \A i \in 1 .. Len(s) : s[i] \in S
OBVIOUS

LEMMA SeqReplace ==
    ASSUME NEW S, NEW s \in Seq(S), NEW n \in 1 .. Len(s), NEW e \in S
    PROVE  /\ [s EXCEPT ![n] = e] \in Seq(S) /\ Len([s EXCEPT ![n] = e]) = Len(s)
           /\ [s EXCEPT ![n] = e][n] = e
           /\ \A i \in 1 .. Len(s) : i # n => [s EXCEPT ![n] = e][i] = s[i]
OBVIOUS

-----------------------------------------------------------------------------
(* Plugins                                                                 *)

LEMMA DaemonInitInv == Daemon!Init => Daemon!DaemonInv
<1> SUFFICES ASSUME Daemon!Init PROVE Daemon!DaemonInv
    OBVIOUS
<1> USE DEF Daemon!Init, Daemon!Fresh
<1>1. v4 \in Seq([at : {"run", "backoff", "park", "over"}, crashes : Nat, aborted : BOOLEAN])
      /\ Len(v4) = 1
    OBVIOUS
<1>2. v2 = Daemon!Running(1) /\ Daemon!Tasks = {1}
    BY <1>1 DEF Daemon!Tasks
<1>3. QED
    BY <1>1, <1>2
       DEF Daemon!DaemonInv, Daemon!DaemonShapes, Daemon!BodiesAreRun, Daemon!DaemonIsOwned,
           Daemon!TableIsTrue, Daemon!BodiesAreOwned, Daemon!Running

\* What a step of one supervisor does to the list of them.
LEMMA SupervisorMoves ==
    ASSUME Daemon!DaemonShapes, NEW n \in Daemon!Tasks,
           NEW s \in [at : {"run", "backoff", "park", "over"}, crashes : Nat, aborted : BOOLEAN],
           v4' = [v4 EXCEPT ![n] = s]
    PROVE  /\ v4' \in Seq([at : {"run", "backoff", "park", "over"}, crashes : Nat, aborted : BOOLEAN])
           /\ Daemon!Tasks' = Daemon!Tasks /\ v4'[n] = s
           /\ \A k \in Daemon!Tasks : k # n => v4'[k] = v4[k]
BY SeqReplace DEF Daemon!DaemonShapes, Daemon!Tasks

\* The stored choice, the table, the tools and the supervisors stay together.
LEMMA TableStaysTrue ==
    ASSUME Daemon!DaemonShapes, Daemon!TableIsTrue, Daemon!Next
    PROVE  Daemon!DaemonShapes' /\ Daemon!TableIsTrue'
<1> DEFINE Sup == [at : {"run", "backoff", "park", "over"}, crashes : Nat, aborted : BOOLEAN]
<1>0. /\ v4 \in Seq(Sup) /\ Len(v4) \in Nat /\ Daemon!Tasks = 1 .. Len(v4)
      /\ \A n \in Daemon!Tasks : v4[n] \in Sup
    <2>1. v4 \in Seq(Sup)
        BY DEF Daemon!DaemonShapes
    <2>2. QED
        BY <2>1, SeqElements DEF Daemon!Tasks
<1>1. CASE Daemon!Restart
    <2>1. v1' = v1 /\ v1 \in BOOLEAN /\ v3' = v1
        BY <1>1 DEF Daemon!Restart, Daemon!DaemonShapes
    <2>2. CASE v1
        <3>1. v2' = Daemon!Running(1) /\ v4' = <<Daemon!Fresh>> /\ v4' \in Seq(Sup) /\ Len(v4') = 1
            <4>1. v2' = Daemon!Running(1) /\ v4' = <<Daemon!Fresh>>
                BY <1>1, <2>2 DEF Daemon!Restart
            <4>2. Daemon!Fresh \in Sup
                BY DEF Daemon!Fresh
            <4>3. QED
                BY <4>1, <4>2
        <3>2. Daemon!Tasks' = {1} /\ v4'[1] = Daemon!Fresh
            BY <3>1 DEF Daemon!Tasks
        <3>3. QED
            BY <2>1, <2>2, <3>1, <3>2
               DEF Daemon!DaemonShapes, Daemon!TableIsTrue, Daemon!Running
    <2>3. CASE ~v1
        <3>1. v2' = Daemon!Disabled /\ v4' = <<>> /\ v4' \in Seq(Sup) /\ Len(v4') = 0
            BY <1>1, <2>3 DEF Daemon!Restart
        <3>2. Daemon!Tasks' = {}
            BY <3>1 DEF Daemon!Tasks
        <3>3. QED
            BY <2>1, <2>3, <3>1, <3>2
               DEF Daemon!DaemonShapes, Daemon!TableIsTrue, Daemon!Disabled
    <2>4. QED
        BY <2>2, <2>3
<1>2. CASE Daemon!Enable
    <2>1. CASE v2.at = "running"
        <3>1. v1' = TRUE /\ UNCHANGED <<v2, v3, v4>> /\ v1 = TRUE
            BY <1>2, <2>1 DEF Daemon!Enable, Daemon!TableIsTrue, Daemon!DaemonShapes
        <3>2. QED
            BY <3>1 DEF Daemon!DaemonShapes, Daemon!TableIsTrue, Daemon!Tasks
    <2>2. CASE v2.at # "running"
        <3>1. /\ v1' = TRUE /\ v3' = TRUE /\ v4' = Append(v4, Daemon!Fresh)
              /\ v2' = Daemon!Running(Len(v4) + 1)
            BY <1>2, <2>2 DEF Daemon!Enable
        <3>2. Daemon!Fresh \in Sup
            BY DEF Daemon!Fresh
        <3>3. /\ v4' \in Seq(Sup) /\ Len(v4') = Len(v4) + 1
              /\ \A n \in Daemon!Tasks : v4'[n] = v4[n]
            BY <1>0, <3>1, <3>2
        <3>4. Daemon!Tasks' = Daemon!Tasks \cup {Len(v4) + 1}
            BY <1>0, <3>3 DEF Daemon!Tasks
        <3>5. \A n \in Daemon!Tasks : v4[n].at = "over" \/ v4[n].aborted
            BY <2>2 DEF Daemon!TableIsTrue, Daemon!Running
        <3>6. QED
            BY <3>1, <3>3, <3>4, <3>5 DEF Daemon!DaemonShapes, Daemon!TableIsTrue, Daemon!Running
    <2>3. QED
        BY <2>1, <2>2
<1>3. CASE Daemon!Disable
    <2>1. v1' = FALSE /\ v3' = FALSE /\ v2' = Daemon!Disabled /\ v4' = Daemon!SupervisorsAborted
        BY <1>3 DEF Daemon!Disable
    <2>2. CASE v2.at = "running"
        <3>1. PICK t \in Daemon!Tasks : v2 = Daemon!Running(t)
            BY <2>2 DEF Daemon!DaemonShapes, Daemon!Disabled, Daemon!Errored
        <3>2. v2.task = t /\ v4' = [v4 EXCEPT ![t].aborted = TRUE]
            BY <2>1, <2>2, <3>1 DEF Daemon!Running, Daemon!SupervisorsAborted
        <3>3. /\ v4' \in Seq(Sup) /\ Daemon!Tasks' = Daemon!Tasks /\ v4'[t].aborted
              /\ \A n \in Daemon!Tasks \ {t} : v4'[n] = v4[n]
            <4>1. [v4[t] EXCEPT !.aborted = TRUE] \in Sup
                BY <1>0
            <4>2. v4' = [v4 EXCEPT ![t] = [v4[t] EXCEPT !.aborted = TRUE]]
                BY <1>0, <3>2
            <4>3. v4[t].aborted \in BOOLEAN /\ [v4[t] EXCEPT !.aborted = TRUE].aborted
                BY <1>0
            <4>4. /\ v4' \in Seq(Sup) /\ Daemon!Tasks' = Daemon!Tasks
                  /\ v4'[t] = [v4[t] EXCEPT !.aborted = TRUE]
                  /\ \A n \in Daemon!Tasks : n # t => v4'[n] = v4[n]
                BY <4>1, <4>2, SupervisorMoves
            <4>5. QED
                BY <4>3, <4>4
        <3>4. \A n \in Daemon!Tasks \ {t} : v4[n].at = "over" \/ v4[n].aborted
            BY <3>1 DEF Daemon!TableIsTrue, Daemon!Running
        <3>5. QED
            BY <2>1, <3>3, <3>4 DEF Daemon!DaemonShapes, Daemon!TableIsTrue, Daemon!Disabled
    <2>3. CASE v2.at # "running"
        <3>1. v4' = v4 /\ Daemon!Tasks' = Daemon!Tasks
            BY <2>1, <2>3 DEF Daemon!SupervisorsAborted, Daemon!Tasks
        <3>2. \A n \in Daemon!Tasks : v4[n].at = "over" \/ v4[n].aborted
            BY <2>3 DEF Daemon!TableIsTrue, Daemon!Running
        <3>3. QED
            BY <2>1, <3>1, <3>2 DEF Daemon!DaemonShapes, Daemon!TableIsTrue, Daemon!Disabled
    <2>4. QED
        BY <2>2, <2>3
<1>4. ASSUME NEW n \in Daemon!Tasks,
             Daemon!Returns(n) \/ Daemon!Panics(n) \/ Daemon!Retry(n) \/ Daemon!AbortLands(n)
             \/ Daemon!BodyStops(n)
      PROVE  Daemon!DaemonShapes' /\ Daemon!TableIsTrue'
    <2>1. UNCHANGED <<v1, v2, v3>>
        BY <1>4 DEF Daemon!Returns, Daemon!Panics, Daemon!Retry, Daemon!AbortLands, Daemon!BodyStops
    <2>2. \E s \in Sup : /\ v4' = [v4 EXCEPT ![n] = s]
                         /\ s.aborted = v4[n].aborted
                         /\ s.at # "over" => v4[n].at # "over"
        <3>1. CASE Daemon!Panics(n)
            <4>1. PICK count \in 1 .. v4[n].crashes + 1 :
                      v4' = [v4 EXCEPT ![n].crashes = count,
                                       ![n].at = IF count >= Crashes THEN "park" ELSE "backoff"]
                BY <3>1 DEF Daemon!Panics
            <4> DEFINE s == [v4[n] EXCEPT !.crashes = count,
                                         !.at = IF count >= Crashes THEN "park" ELSE "backoff"]
            <4>2. count \in Nat
                BY <1>0, <4>1
            <4>3. s \in Sup /\ s.aborted = v4[n].aborted
                BY <1>0, <4>2
            <4>4. v4' = [v4 EXCEPT ![n] = s]
                BY <1>0, <4>1
            <4>5. v4[n].at = "run"
                BY <3>1 DEF Daemon!Panics
            <4>6. QED
                BY <4>3, <4>4, <4>5
        <3>2. CASE Daemon!BodyStops(n)
            BY <1>0, <3>2 DEF Daemon!BodyStops
        <3>3. CASE Daemon!Returns(n) \/ Daemon!Retry(n) \/ Daemon!AbortLands(n)
            <4>1. PICK at \in {"run", "over"} : /\ v4' = [v4 EXCEPT ![n].at = at]
                                                /\ at = "run" => v4[n].at # "over"
                BY <3>3 DEF Daemon!Returns, Daemon!Retry, Daemon!AbortLands, Daemon!Goes
            <4>2. [v4[n] EXCEPT !.at = at] \in Sup
                BY <1>0
            <4>3. v4' = [v4 EXCEPT ![n] = [v4[n] EXCEPT !.at = at]]
                BY <1>0, <4>1
            <4>4. QED
                BY <1>0, <4>1, <4>2, <4>3
        <3>4. QED
            BY <1>4, <3>1, <3>2, <3>3
    <2>3. PICK s \in Sup : /\ v4' = [v4 EXCEPT ![n] = s]
                           /\ s.aborted = v4[n].aborted
                           /\ s.at # "over" => v4[n].at # "over"
        BY <2>2
    <2>4. /\ v4' \in Seq(Sup) /\ Daemon!Tasks' = Daemon!Tasks /\ v4'[n] = s
          /\ \A k \in Daemon!Tasks : k # n => v4'[k] = v4[k]
        BY <2>3, SupervisorMoves
    <2>5. \A k \in Daemon!Tasks : v4'[k].at # "over" /\ ~v4'[k].aborted
                                  => v4[k].at # "over" /\ ~v4[k].aborted
        <3>1. ASSUME NEW k \in Daemon!Tasks, v4'[k].at # "over", ~v4'[k].aborted
              PROVE  v4[k].at # "over" /\ ~v4[k].aborted
            <4>1. CASE k = n
                BY <2>3, <2>4, <3>1, <4>1
            <4>2. CASE k # n
                BY <2>4, <3>1, <4>2
            <4>3. QED
                BY <4>1, <4>2
        <3>2. QED
            BY <3>1
    <2>6. QED
        BY <2>1, <2>4, <2>5 DEF Daemon!DaemonShapes, Daemon!TableIsTrue
<1>5. ASSUME NEW n \in Daemon!Tasks, Daemon!SetErrored(n)
      PROVE  Daemon!DaemonShapes' /\ Daemon!TableIsTrue'
    <2>1. [v4[n] EXCEPT !.at = "over"] \in Sup /\ v4' = [v4 EXCEPT ![n] = [v4[n] EXCEPT !.at = "over"]]
        BY <1>0, <1>5 DEF Daemon!SetErrored, Daemon!Goes
    <2>2. /\ v4' \in Seq(Sup) /\ Daemon!Tasks' = Daemon!Tasks /\ v4'[n].at = "over"
          /\ \A k \in Daemon!Tasks : k # n => v4'[k] = v4[k]
        BY <1>0, <2>1, SupervisorMoves
    <2>3. v1' = v1 /\ (\/ Daemon!IsCurrent(n) /\ v3' = FALSE /\ v2' = Daemon!Errored
                       \/ UNCHANGED <<v2, v3>>)
        BY <1>5 DEF Daemon!SetErrored
    <2>4. CASE UNCHANGED <<v2, v3>>
        BY <2>2, <2>3, <2>4 DEF Daemon!DaemonShapes, Daemon!TableIsTrue
    <2>5. CASE Daemon!IsCurrent(n) /\ v3' = FALSE /\ v2' = Daemon!Errored
        <3>1. \A k \in Daemon!Tasks \ {n} : v4[k].at = "over" \/ v4[k].aborted
            BY <2>5 DEF Daemon!IsCurrent, Daemon!TableIsTrue, Daemon!Running
        <3>2. v1 = TRUE
            BY <2>5 DEF Daemon!IsCurrent, Daemon!TableIsTrue, Daemon!DaemonShapes, Daemon!Running
        <3>3. QED
            BY <2>2, <2>3, <2>5, <3>1, <3>2 DEF Daemon!DaemonShapes, Daemon!TableIsTrue, Daemon!Errored
    <2>6. QED
        BY <2>3, <2>4, <2>5
<1>6. QED
    BY <1>1, <1>2, <1>3, <1>4, <1>5 DEF Daemon!Next

\* A body is started with its supervisor, and outlives it only after an abort.
LEMMA BodiesStayOwned ==
    ASSUME Daemon!DaemonInv, Daemon!Next
    PROVE  Daemon!BodiesAreRun' /\ Daemon!BodiesAreOwned'
<1> DEFINE Sup == [at : {"run", "backoff", "park", "over"}, crashes : Nat, aborted : BOOLEAN]
<1>0. /\ v4 \in Seq(Sup) /\ Len(v4) \in Nat /\ Daemon!Tasks = 1 .. Len(v4)
      /\ \A n \in Daemon!Tasks : v4[n] \in Sup
    <2>1. v4 \in Seq(Sup)
        BY DEF Daemon!DaemonInv, Daemon!DaemonShapes
    <2>2. QED
        BY <2>1, SeqElements DEF Daemon!Tasks
<1>1. /\ v5 \subseteq Daemon!Tasks
      /\ \A n \in v5 : v4[n].at = "run" \/ v4[n].aborted
      /\ \A n \in v5 : v2 = Daemon!Running(n) \/ v4[n].aborted
      /\ \A n \in Daemon!Tasks : v4[n].at # "over" /\ ~v4[n].aborted => v2 = Daemon!Running(n)
    BY DEF Daemon!DaemonInv, Daemon!BodiesAreRun, Daemon!DaemonIsOwned, Daemon!BodiesAreOwned,
           Daemon!TableIsTrue
<1>2. \A n : Daemon!Running(n).at = "running" /\ Daemon!Running(n).task = n
    BY DEF Daemon!Running
<1>3. CASE Daemon!Restart
    <2>1. CASE v1
        <3>1. v2' = Daemon!Running(1) /\ v4' = <<Daemon!Fresh>> /\ v5' = {1}
            BY <1>3, <2>1 DEF Daemon!Restart
        <3>2. 1 \in Daemon!Tasks' /\ v4'[1].at = "run"
            BY <3>1 DEF Daemon!Tasks, Daemon!Fresh
        <3>3. QED
            BY <3>1, <3>2 DEF Daemon!BodiesAreRun, Daemon!BodiesAreOwned
    <2>2. CASE ~v1
        <3>1. v5' = {}
            BY <1>3, <2>2 DEF Daemon!Restart
        <3>2. QED
            BY <3>1 DEF Daemon!BodiesAreRun, Daemon!BodiesAreOwned
    <2>3. QED
        BY <2>1, <2>2
<1>4. CASE Daemon!Enable
    <2>1. CASE v2.at = "running"
        <3>1. UNCHANGED <<v2, v4, v5>>
            BY <1>4, <2>1 DEF Daemon!Enable
        <3>2. QED
            BY <1>1, <3>1 DEF Daemon!BodiesAreRun, Daemon!BodiesAreOwned, Daemon!Tasks
    <2>2. CASE v2.at # "running"
        <3>1. /\ v4' = Append(v4, Daemon!Fresh) /\ v5' = v5 \cup {Len(v4) + 1}
              /\ v2' = Daemon!Running(Len(v4) + 1)
            BY <1>4, <2>2 DEF Daemon!Enable
        <3>2. Daemon!Fresh \in Sup /\ Daemon!Fresh.at = "run"
            BY DEF Daemon!Fresh
        <3>3. /\ Len(v4') = Len(v4) + 1 /\ v4'[Len(v4) + 1] = Daemon!Fresh
              /\ \A n \in Daemon!Tasks : v4'[n] = v4[n]
            BY <1>0, <3>1, <3>2
        <3>4. Daemon!Tasks' = Daemon!Tasks \cup {Len(v4) + 1}
            BY <1>0, <3>3 DEF Daemon!Tasks
        <3>5. \A n \in v5 : v4'[n].aborted
            BY <1>1, <1>2, <2>2, <3>3
        <3>6. QED
            BY <1>1, <3>1, <3>2, <3>3, <3>4, <3>5 DEF Daemon!BodiesAreRun, Daemon!BodiesAreOwned
    <2>3. QED
        BY <2>1, <2>2
<1>5. CASE Daemon!Disable
    <2>1. v5' = v5 /\ v4' = Daemon!SupervisorsAborted
        BY <1>5 DEF Daemon!Disable
    <2>2. ASSUME NEW n \in v5
          PROVE  n \in Daemon!Tasks' /\ v4'[n].aborted
        <3>1. CASE v2 = Daemon!Running(n)
            <4>1. v4' = [v4 EXCEPT ![n].aborted = TRUE]
                BY <1>2, <2>1, <3>1 DEF Daemon!SupervisorsAborted
            <4>2. v4' = [v4 EXCEPT ![n] = [v4[n] EXCEPT !.aborted = TRUE]]
                  /\ [v4[n] EXCEPT !.aborted = TRUE] \in Sup
                  /\ [v4[n] EXCEPT !.aborted = TRUE].aborted
                BY <1>0, <1>1, <4>1
            <4>3. QED
                BY <1>1, <4>2, SupervisorMoves DEF Daemon!DaemonInv
        <3>2. CASE v2 # Daemon!Running(n)
            <4>1. v4[n].aborted
                BY <1>1, <3>2
            <4>2. CASE v2.at # "running"
                BY <1>1, <2>1, <4>1, <4>2 DEF Daemon!SupervisorsAborted, Daemon!Tasks
            <4>3. CASE v2.at = "running"
                <5>1. PICK t \in Daemon!Tasks : v2 = Daemon!Running(t)
                    BY <4>3 DEF Daemon!DaemonInv, Daemon!DaemonShapes, Daemon!Disabled, Daemon!Errored
                <5>2. v4' = [v4 EXCEPT ![t].aborted = TRUE] /\ t # n
                    BY <1>2, <2>1, <3>2, <4>3, <5>1 DEF Daemon!SupervisorsAborted
                <5>3. v4' = [v4 EXCEPT ![t] = [v4[t] EXCEPT !.aborted = TRUE]]
                      /\ [v4[t] EXCEPT !.aborted = TRUE] \in Sup
                    BY <1>0, <5>2
                <5>4. QED
                    BY <1>1, <4>1, <5>2, <5>3, SupervisorMoves DEF Daemon!DaemonInv
            <4>4. QED
                BY <4>2, <4>3
        <3>3. QED
            BY <3>1, <3>2
    <2>3. QED
        BY <2>1, <2>2 DEF Daemon!BodiesAreRun, Daemon!BodiesAreOwned
<1>6. ASSUME NEW n \in Daemon!Tasks,
             Daemon!Returns(n) \/ Daemon!Panics(n) \/ Daemon!Retry(n) \/ Daemon!SetErrored(n)
             \/ Daemon!AbortLands(n) \/ Daemon!BodyStops(n)
      PROVE  Daemon!BodiesAreRun' /\ Daemon!BodiesAreOwned'
    <2>1. /\ \A k \in Daemon!Tasks : k # n => v4'[k] = v4[k]
          /\ Daemon!Tasks' = Daemon!Tasks /\ v4'[n].aborted = v4[n].aborted
        <3>1. CASE Daemon!BodyStops(n)
            BY <3>1 DEF Daemon!BodyStops, Daemon!Tasks
        <3>2. CASE Daemon!Panics(n)
            <4>1. PICK count \in 1 .. v4[n].crashes + 1 :
                      v4' = [v4 EXCEPT ![n].crashes = count,
                                       ![n].at = IF count >= Crashes THEN "park" ELSE "backoff"]
                BY <3>2 DEF Daemon!Panics
            <4> DEFINE s == [v4[n] EXCEPT !.crashes = count,
                                         !.at = IF count >= Crashes THEN "park" ELSE "backoff"]
            <4>2. count \in Nat
                BY <1>0, <4>1
            <4>3. s \in Sup /\ s.aborted = v4[n].aborted
                BY <1>0, <4>2
            <4>4. v4' = [v4 EXCEPT ![n] = s]
                BY <1>0, <4>1
            <4> HIDE DEF s
            <4>5. QED
                BY <4>3, <4>4, SupervisorMoves DEF Daemon!DaemonInv
        <3>3. CASE ~Daemon!BodyStops(n) /\ ~Daemon!Panics(n)
            <4>1. PICK at \in {"run", "over"} : v4' = [v4 EXCEPT ![n].at = at]
                BY <1>6, <3>3 DEF Daemon!Returns, Daemon!Retry, Daemon!AbortLands, Daemon!SetErrored, Daemon!Goes
            <4> DEFINE s == [v4[n] EXCEPT !.at = at]
            <4>2. s \in Sup /\ s.aborted = v4[n].aborted
                BY <1>0
            <4>3. v4' = [v4 EXCEPT ![n] = s]
                BY <1>0, <4>1
            <4> HIDE DEF s
            <4>4. QED
                BY <4>2, <4>3, SupervisorMoves DEF Daemon!DaemonInv
        <3>4. QED
            BY <3>1, <3>2, <3>3
    <2>2. CASE Daemon!Returns(n) \/ Daemon!Panics(n) \/ Daemon!BodyStops(n)
        <3>1. v5' = v5 \ {n} /\ v2' = v2
            BY <2>2 DEF Daemon!Returns, Daemon!Panics, Daemon!BodyStops
        <3>2. QED
            BY <1>1, <2>1, <3>1 DEF Daemon!BodiesAreRun, Daemon!BodiesAreOwned
    <2>3. CASE Daemon!Retry(n)
        <3>1. /\ ~v4[n].aborted /\ v4[n].at = "backoff" /\ v4' = [v4 EXCEPT ![n].at = "run"]
              /\ v5' = v5 \cup {n} /\ v2' = v2
            BY <2>3 DEF Daemon!Retry, Daemon!Goes
        <3>2. v2 = Daemon!Running(n) /\ v4'[n].at = "run"
            <4>1. v4'[n] = [v4[n] EXCEPT !.at = "run"] /\ v4[n] \in Sup
                BY <1>0, <3>1
            <4>2. QED
                BY <1>1, <3>1, <4>1
        <3>3. QED
            BY <1>1, <2>1, <3>1, <3>2 DEF Daemon!BodiesAreRun, Daemon!BodiesAreOwned
    <2>4. CASE Daemon!AbortLands(n)
        <3>1. v4[n].aborted /\ UNCHANGED <<v2, v5>>
            BY <2>4 DEF Daemon!AbortLands
        <3>2. QED
            BY <1>1, <2>1, <3>1 DEF Daemon!BodiesAreRun, Daemon!BodiesAreOwned
    <2>5. CASE Daemon!SetErrored(n)
        <3>1. v4[n].at = "park" /\ v5' = v5 /\ (v2' = v2 \/ v2 = Daemon!Running(n))
            BY <2>5 DEF Daemon!SetErrored, Daemon!Goes, Daemon!IsCurrent
        <3>2. \A k \in v5 : k # n => v4'[k] = v4[k] /\ (v2' = Daemon!Running(k) \/ v4[k].aborted)
            BY <1>1, <1>2, <2>1, <3>1
        <3>3. n \in v5 => v4'[n].aborted
            BY <1>1, <2>1, <3>1
        <3>4. QED
            BY <1>1, <2>1, <3>1, <3>2, <3>3 DEF Daemon!BodiesAreRun, Daemon!BodiesAreOwned
    <2>6. QED
        BY <1>6, <2>2, <2>3, <2>4, <2>5
<1>7. QED
    BY <1>3, <1>4, <1>5, <1>6 DEF Daemon!Next

LEMMA DaemonNextKeepsInv ==
    ASSUME Daemon!DaemonInv, Daemon!Next
    PROVE  Daemon!DaemonInv'
BY TableStaysTrue, BodiesStayOwned DEF Daemon!DaemonInv, Daemon!DaemonIsOwned

-----------------------------------------------------------------------------
(* Native coding tools                                                     *)

LEMMA ToolsInitInv == Tools!Init => Tools!ToolsInv
BY DEF Tools!Init, Tools!NoGroup, Tools!ToolsInv, Tools!ToolShapes, Tools!OneGroupPerPid,
       Tools!Groups, Tools!GroupsEnd, Tools!KindsOfCalls, Tools!OneEditor, Tools!HeldUntilReaped,
       Tools!AnsweredIsDone, Tools!CommandIsOver, Tools!SignalsStayHome, Tools!EditsLand, Tools!ClosedIsIdle

ToolPc == {"none", "owned", "watching", "killed", "quiet", "reaped", "drained", "locked", "answered"}
Group == [pid : SUBSET Pids, live : SUBSET {"leader", "child"}, doomed : BOOLEAN,
          escaped : BOOLEAN, reaped : BOOLEAN]

\* A call moves on with the processes as they are.
LEMMA CallMoves ==
    ASSUME Tools!ToolsInv, NEW c \in Caller, NEW to \in ToolPc,
           v2' = [v2 EXCEPT ![c] = to], UNCHANGED <<v1, v5, v8, v9, v10, v11>>,
           v7' \in [Caller -> SUBSET {"kill", "group", "reap", "drain"}],
           \A d \in Caller : v7[d] \subseteq v7'[d],
           v2[c] \notin {"none", "locked", "answered"}, to \notin {"none", "owned", "locked"},
           v1[c] = "shell", v2[c] \in {"reaped", "drained"} => to \in {"drained", "answered"},
           to \in {"quiet", "reaped", "drained", "answered"} =>
               v5[c].live = {} \/ v7'[c] \cap {"kill", "group", "reap"} # {}
    PROVE  Tools!ToolsInv'
<1> USE DEF Tools!ToolsInv
<1>1. Tools!ToolShapes' /\ v2' \in [Caller -> ToolPc]
    BY DEF Tools!ToolShapes, ToolPc
<1>2. v2'[c] = to /\ \A d \in Caller \ {c} : v2'[d] = v2[d]
    BY DEF Tools!ToolShapes
<1>3. Tools!OneGroupPerPid'
    BY DEF Tools!OneGroupPerPid, Tools!Groups
<1>4. Tools!GroupsEnd'
    BY <1>2 DEF Tools!GroupsEnd
<1>5. Tools!KindsOfCalls'
    BY <1>2 DEF Tools!KindsOfCalls
<1>6. Tools!OneEditor' /\ Tools!HeldUntilReaped'
    BY <1>2 DEF Tools!OneEditor, Tools!HeldUntilReaped
<1>7. Tools!AnsweredIsDone'
    <2>1. Tools!CommandIsOver'
        BY <1>4 DEF Tools!CommandIsOver, Tools!GroupsEnd
    <2>2. Tools!SignalsStayHome'
        BY DEF Tools!SignalsStayHome, Tools!AnsweredIsDone
    <2>3. Tools!EditsLand'
        BY <1>2 DEF Tools!EditsLand, Tools!AnsweredIsDone
    <2>4. Tools!ClosedIsIdle'
        BY <1>2 DEF Tools!ClosedIsIdle, Tools!AnsweredIsDone
    <2>5. QED
        BY <2>1, <2>2, <2>3, <2>4 DEF Tools!AnsweredIsDone
<1>8. QED
    BY <1>1, <1>3, <1>4, <1>5, <1>6, <1>7

\* A signal reaches the command it is meant for: as long as its leader is not
\* reaped the pid is its own.
LEMMA SignalStaysHome ==
    ASSUME Tools!ToolsInv, NEW c \in Caller, ~v5[c].reaped, Tools!Signal(c)
    PROVE  /\ v5' \in [Caller -> Group]
           /\ v11' \subseteq v11 \cup {<<c, c>>}
           /\ \A d \in Caller : /\ v5'[d].pid = v5[d].pid /\ v5'[d].live = v5[d].live
                                /\ v5'[d].reaped = v5[d].reaped
<1> DEFINE hit == {d \in Caller : v5[d].live # {} /\ v5[c].pid \cap v5[d].pid # {}}
<1>1. /\ v5' = [d \in Caller |-> IF d \in hit THEN [v5[d] EXCEPT !.doomed = TRUE] ELSE v5[d]]
      /\ v11' = v11 \cup ({c} \X hit)
    BY DEF Tools!Signal
<1>2. hit \subseteq {c}
    <2>1. SUFFICES ASSUME NEW d \in hit PROVE d = c
        OBVIOUS
    <2>2. PICK p \in Pids : p \in v5[c].pid /\ p \in v5[d].pid
        BY DEF Tools!ToolsInv, Tools!ToolShapes
    <2>3. c \in Tools!Groups(p) /\ d \in Tools!Groups(p)
        BY <2>2 DEF Tools!Groups
    <2>4. QED
        BY <2>3 DEF Tools!ToolsInv, Tools!OneGroupPerPid
<1>3. \A d \in Caller : v5[d] \in Group
    BY DEF Tools!ToolsInv, Tools!ToolShapes, Group
<1>4. \A d \in Caller : v5'[d] = IF d \in hit THEN [v5[d] EXCEPT !.doomed = TRUE] ELSE v5[d]
    BY <1>1
<1> HIDE DEF hit
<1>5. \A d \in Caller : [v5[d] EXCEPT !.doomed = TRUE] \in Group
    BY <1>3 DEF Group
<1>6. v5' \in [Caller -> Group]
    BY <1>1, <1>3, <1>5
<1>7. \A d \in Caller : /\ v5'[d].pid = v5[d].pid /\ v5'[d].live = v5[d].live
                        /\ v5'[d].reaped = v5[d].reaped
    BY <1>3, <1>4 DEF Group
<1>8. v11' \subseteq v11 \cup {<<c, c>>}
    BY <1>1, <1>2
<1>9. QED
    BY <1>6, <1>7, <1>8

\* Processes come and go below a leader that lives, whatever else holds still.
LEMMA GroupsChange ==
    ASSUME Tools!ToolsInv, UNCHANGED <<v1, v2, v7, v8, v9, v10>>,
           v5' \in [Caller -> Group],
           \A d \in Caller : /\ v5'[d].pid = v5[d].pid /\ v5'[d].reaped = v5[d].reaped
                             /\ v5[d].live = {} => v5'[d].live = {},
           v11' \subseteq v11 \cup {<<d, d>> : d \in Caller}
    PROVE  Tools!ToolsInv'
<1> USE DEF Tools!ToolsInv
<1>1. Tools!ToolShapes'
    BY DEF Tools!ToolShapes, Group
<1>2. \A p \in Pids : Tools!Groups(p)' \subseteq Tools!Groups(p)
    BY DEF Tools!Groups
<1>3. Tools!OneGroupPerPid'
    BY <1>2 DEF Tools!OneGroupPerPid
<1>4. Tools!GroupsEnd'
    BY DEF Tools!GroupsEnd
<1>5. Tools!KindsOfCalls' /\ Tools!OneEditor' /\ Tools!HeldUntilReaped'
    BY DEF Tools!KindsOfCalls, Tools!OneEditor, Tools!HeldUntilReaped
<1>6. Tools!AnsweredIsDone'
    <2>1. Tools!CommandIsOver'
        BY <1>4 DEF Tools!CommandIsOver, Tools!GroupsEnd
    <2>2. Tools!SignalsStayHome'
        BY DEF Tools!SignalsStayHome, Tools!AnsweredIsDone
    <2>3. Tools!EditsLand' /\ Tools!ClosedIsIdle'
        BY DEF Tools!EditsLand, Tools!ClosedIsIdle, Tools!AnsweredIsDone
    <2>4. QED
        BY <2>1, <2>2, <2>3 DEF Tools!AnsweredIsDone
<1>7. QED
    BY <1>1, <1>3, <1>4, <1>5, <1>6

\* Admission: a call is taken or refused; commands are told; shutdown returns.
LEMMA AdmissionKeepsInv ==
    ASSUME Tools!ToolsInv,
           \/ Tools!Shutdown \/ Tools!ShutdownReturns
           \/ \E c \in Caller : Tools!CancelAttempt(c)
    PROVE  Tools!ToolsInv'
<1> USE DEF Tools!ToolsInv, Tools!command, Tools!files
<1>1. /\ UNCHANGED <<v1, v2, v5, v7, v8, v9, v11>>
      /\ v10' = "closed" => v10 = "closed" \/ Tools!Idle
      /\ v10' = "open" => v10 = "open"
    BY DEF Tools!Shutdown, Tools!ShutdownReturns, Tools!CancelAttempt
<1>2. Tools!ToolShapes' /\ Tools!OneGroupPerPid' /\ Tools!GroupsEnd' /\ Tools!KindsOfCalls'
      /\ Tools!OneEditor' /\ Tools!HeldUntilReaped'
    BY <1>1 DEF Tools!ToolShapes, Tools!OneGroupPerPid, Tools!Groups, Tools!GroupsEnd,
                Tools!KindsOfCalls, Tools!OneEditor, Tools!HeldUntilReaped
<1>3. Tools!AnsweredIsDone'
    BY <1>1 DEF Tools!AnsweredIsDone, Tools!CommandIsOver, Tools!SignalsStayHome, Tools!EditsLand,
                Tools!ClosedIsIdle, Tools!Idle
<1>4. QED
    BY <1>2, <1>3

LEMMA StartKeepsInv ==
    ASSUME Tools!ToolsInv, NEW c \in Caller, NEW k \in {"shell", "edit"}, Tools!Start(c, k)
    PROVE  Tools!ToolsInv'
<1> USE DEF Tools!ToolsInv, Tools!command, Tools!files, Tools!Goes
<1>1. /\ UNCHANGED <<v5, v7, v8, v9, v10, v11>> /\ v2[c] = "none"
      /\ v2' = [v2 EXCEPT ![c] = IF v10 = "open" THEN "owned" ELSE "answered"]
      /\ v1' = [v1 EXCEPT ![c] = k]
    BY DEF Tools!Start
<1>2. /\ v2'[c] = (IF v10 = "open" THEN "owned" ELSE "answered") /\ v1'[c] = k
      /\ \A d \in Caller \ {c} : v2'[d] = v2[d] /\ v1'[d] = v1[d]
    BY <1>1 DEF Tools!ToolShapes
<1>3. Tools!ToolShapes'
    BY <1>1 DEF Tools!ToolShapes
<1>4. Tools!OneGroupPerPid'
    BY <1>1 DEF Tools!OneGroupPerPid, Tools!Groups
<1>5. Tools!GroupsEnd'
    BY <1>1, <1>2 DEF Tools!GroupsEnd
<1>6. Tools!KindsOfCalls' /\ Tools!OneEditor' /\ Tools!HeldUntilReaped'
    BY <1>1, <1>2 DEF Tools!KindsOfCalls, Tools!OneEditor, Tools!HeldUntilReaped
<1>7. Tools!AnsweredIsDone'
    <2>1. Tools!CommandIsOver'
        BY <1>5 DEF Tools!CommandIsOver, Tools!GroupsEnd
    <2>2. Tools!SignalsStayHome'
        BY <1>1 DEF Tools!SignalsStayHome, Tools!AnsweredIsDone
    <2>3. Tools!EditsLand'
        BY <1>1, <1>2 DEF Tools!EditsLand, Tools!AnsweredIsDone
    <2>4. Tools!ClosedIsIdle'
        BY <1>1, <1>2 DEF Tools!ClosedIsIdle, Tools!AnsweredIsDone
    <2>5. QED
        BY <2>1, <2>2, <2>3, <2>4 DEF Tools!AnsweredIsDone
<1>8. QED
    BY <1>3, <1>4, <1>5, <1>6, <1>7

\* The lock covers read and write, so that an edit adds to the file.
LEMMA EditKeepsInv ==
    ASSUME Tools!ToolsInv, NEW c \in Caller, Tools!ReadFile(c) \/ Tools!WriteFile(c)
    PROVE  Tools!ToolsInv'
<1> USE DEF Tools!ToolsInv, Tools!command, Tools!files, Tools!Goes
<1>1. UNCHANGED <<v1, v5, v7, v10, v11>>
    BY DEF Tools!ReadFile, Tools!WriteFile
<1>2. CASE Tools!ReadFile(c)
    <2>1. /\ v2' = [v2 EXCEPT ![c] = "locked"] /\ v9' = [v9 EXCEPT ![c] = v8] /\ v8' = v8
          /\ v2[c] = "owned" /\ v1[c] = "edit" /\ \A d \in Caller : v2[d] # "locked"
        BY <1>2 DEF Tools!ReadFile, Tools!LockFree
    <2>2. /\ v2'[c] = "locked" /\ v9'[c] = v8 /\ \A d \in Caller \ {c} : v2'[d] = v2[d]
        BY <2>1 DEF Tools!ToolShapes
    <2>3. v8 \subseteq Caller
        BY DEF Tools!ToolShapes
    <2>4. Tools!ToolShapes'
        BY <1>1, <2>1, <2>3 DEF Tools!ToolShapes
    <2>5. Tools!OneGroupPerPid' /\ Tools!GroupsEnd' /\ Tools!KindsOfCalls'
        BY <1>1, <2>1, <2>2 DEF Tools!OneGroupPerPid, Tools!Groups, Tools!GroupsEnd, Tools!KindsOfCalls
    <2>6. Tools!OneEditor' /\ Tools!HeldUntilReaped'
        BY <1>1, <2>1, <2>2 DEF Tools!OneEditor, Tools!HeldUntilReaped
    <2>7. Tools!AnsweredIsDone'
        BY <1>1, <2>1, <2>2 DEF Tools!AnsweredIsDone, Tools!CommandIsOver, Tools!SignalsStayHome,
           Tools!EditsLand, Tools!ClosedIsIdle
    <2>8. QED
        BY <2>4, <2>5, <2>6, <2>7
<1>3. CASE Tools!WriteFile(c)
    <2>1. /\ v2' = [v2 EXCEPT ![c] = "answered"] /\ v9' = v9 /\ v8' = v9[c] \cup {c}
          /\ v2[c] = "locked"
        BY <1>3 DEF Tools!WriteFile
    <2>2. v2'[c] = "answered" /\ \A d \in Caller \ {c} : v2'[d] = v2[d]
        BY <2>1 DEF Tools!ToolShapes
    <2>3. v9[c] = v8 /\ \A d \in Caller \ {c} : v2'[d] # "locked"
        BY <2>1, <2>2 DEF Tools!OneEditor
    <2>4. Tools!ToolShapes'
        BY <1>1, <2>1 DEF Tools!ToolShapes
    <2>5. Tools!OneGroupPerPid' /\ Tools!GroupsEnd' /\ Tools!KindsOfCalls'
        BY <1>1, <2>1, <2>2 DEF Tools!OneGroupPerPid, Tools!Groups, Tools!GroupsEnd, Tools!KindsOfCalls
    <2>6. Tools!OneEditor' /\ Tools!HeldUntilReaped'
        BY <1>1, <2>1, <2>2, <2>3 DEF Tools!OneEditor, Tools!HeldUntilReaped
    <2>7. Tools!CommandIsOver' /\ Tools!SignalsStayHome' /\ Tools!ClosedIsIdle'
        BY <1>1, <2>1, <2>2, <2>5 DEF Tools!AnsweredIsDone, Tools!CommandIsOver, Tools!GroupsEnd,
           Tools!SignalsStayHome, Tools!ClosedIsIdle
    <2>8. Tools!EditsLand'
        BY <1>1, <2>1, <2>2, <2>3 DEF Tools!AnsweredIsDone, Tools!EditsLand
    <2>9. QED
        BY <2>4, <2>5, <2>6, <2>7, <2>8 DEF Tools!AnsweredIsDone
<1>4. QED
    BY <1>2, <1>3

\* The kernel gives a pid away only when no group goes by it.
LEMMA SpawnKeepsInv ==
    ASSUME Tools!ToolsInv, NEW c \in Caller, NEW p \in Pids, Tools!Spawn(c, p)
    PROVE  Tools!ToolsInv'
<1> USE DEF Tools!ToolsInv, Tools!Goes, Tools!files
<1> DEFINE g == [Tools!NoGroup EXCEPT !.pid = {p}, !.live = {"leader"}]
<1>1. /\ UNCHANGED <<v1, v7, v8, v9, v10, v11>>
      /\ v1[c] = "shell" /\ v2[c] = "owned" /\ Tools!Groups(p) = {}
      /\ v2' = [v2 EXCEPT ![c] = "watching"] /\ v5' = [v5 EXCEPT ![c] = g]
    BY DEF Tools!Spawn
<1>2. g \in Group /\ g.pid = {p} /\ g.live = {"leader"} /\ g.reaped = FALSE
    BY DEF Tools!NoGroup, Group
<1> HIDE DEF g
<1>3. /\ v5' \in [Caller -> Group] /\ v2'[c] = "watching" /\ v5'[c] = g
      /\ \A d \in Caller \ {c} : v2'[d] = v2[d] /\ v5'[d] = v5[d]
    BY <1>1, <1>2 DEF Tools!ToolShapes, Group
<1>4. Tools!ToolShapes'
    BY <1>1, <1>3 DEF Tools!ToolShapes, Group
<1>5. Tools!OneGroupPerPid'
    <2>1. SUFFICES ASSUME NEW q \in Pids, NEW d \in Caller, NEW e \in Caller,
                          d \in Tools!Groups(q)', e \in Tools!Groups(q)', d # c
                   PROVE  d = e
        BY DEF Tools!OneGroupPerPid
    <2>2. d \in Tools!Groups(q)
        BY <1>3, <2>1 DEF Tools!Groups
    <2>3. e # c
        BY <1>1, <1>2, <1>3, <2>1, <2>2 DEF Tools!Groups
    <2>4. e \in Tools!Groups(q)
        BY <1>3, <2>1, <2>3 DEF Tools!Groups
    <2>5. QED
        BY <2>2, <2>4 DEF Tools!OneGroupPerPid
<1>6. Tools!GroupsEnd' /\ Tools!KindsOfCalls' /\ Tools!OneEditor' /\ Tools!HeldUntilReaped'
    BY <1>1, <1>2, <1>3 DEF Tools!GroupsEnd, Tools!KindsOfCalls, Tools!OneEditor, Tools!HeldUntilReaped
<1>7. Tools!AnsweredIsDone'
    <2>1. Tools!CommandIsOver'
        BY <1>6 DEF Tools!CommandIsOver, Tools!GroupsEnd
    <2>2. Tools!SignalsStayHome' /\ Tools!EditsLand' /\ Tools!ClosedIsIdle'
        BY <1>1, <1>3 DEF Tools!AnsweredIsDone, Tools!SignalsStayHome, Tools!EditsLand, Tools!ClosedIsIdle
    <2>3. QED
        BY <2>1, <2>2 DEF Tools!AnsweredIsDone
<1>8. QED
    BY <1>4, <1>5, <1>6, <1>7

\* The steps of a command's end that leave the processes alone.
LEMMA EndStepKeepsInv ==
    ASSUME Tools!ToolsInv, NEW c \in Caller,
           \/ Tools!StartsCancelled(c) \/ Tools!SpawnFails(c) \/ Tools!KillFails(c)
           \/ Tools!GroupEnds(c) \/ Tools!GroupLives(c) \/ Tools!Drain(c)
    PROVE  Tools!ToolsInv'
<1> USE DEF Tools!Goes, Tools!command, Tools!files, Tools!Fails
<1>1. UNCHANGED <<v1, v5, v8, v9, v10, v11>>
    BY DEF Tools!StartsCancelled, Tools!SpawnFails, Tools!KillFails, Tools!GroupEnds,
           Tools!GroupLives, Tools!Drain
<1>2. v7 \in [Caller -> SUBSET {"kill", "group", "reap", "drain"}]
    BY DEF Tools!ToolsInv, Tools!ToolShapes
<1>3. /\ v7' \in [Caller -> SUBSET {"kill", "group", "reap", "drain"}]
      /\ \A d \in Caller : v7[d] \subseteq v7'[d]
    <2>1. v7' = v7 \/ \E step \in {"kill", "group", "drain"} :
                          v7' = [v7 EXCEPT ![c] = @ \cup {step}]
        BY DEF Tools!StartsCancelled, Tools!SpawnFails, Tools!KillFails, Tools!GroupEnds,
               Tools!GroupLives, Tools!Drain
    <2>2. QED
        BY <1>2, <2>1
<1>4. v1[c] = "shell"
    BY DEF Tools!StartsCancelled, Tools!SpawnFails, Tools!KillFails, Tools!GroupEnds,
           Tools!GroupLives, Tools!Drain, Tools!ToolsInv, Tools!KindsOfCalls
<1>5. CASE Tools!StartsCancelled(c) \/ Tools!SpawnFails(c)
    <2>1. v2[c] = "owned" /\ v2' = [v2 EXCEPT ![c] = "answered"] /\ v5[c].live = {}
        BY <1>5 DEF Tools!StartsCancelled, Tools!SpawnFails, Tools!ToolsInv, Tools!GroupsEnd
    <2>2. QED
        BY <1>1, <1>3, <1>4, <2>1, CallMoves DEF ToolPc
<1>6. CASE Tools!KillFails(c) \/ Tools!GroupLives(c)
    <2>1. /\ v2[c] \in {"watching", "killed"} /\ v2' = [v2 EXCEPT ![c] = "quiet"]
          /\ v7'[c] \cap {"kill", "group", "reap"} # {}
        BY <1>2, <1>6 DEF Tools!KillFails, Tools!GroupLives
    <2>2. QED
        BY <1>1, <1>3, <1>4, <2>1, CallMoves DEF ToolPc
<1>7. CASE Tools!GroupEnds(c)
    <2>1. v2[c] = "killed" /\ v2' = [v2 EXCEPT ![c] = "quiet"] /\ v5[c].live = {}
        BY <1>7 DEF Tools!GroupEnds, Tools!GroupGone
    <2>2. QED
        BY <1>1, <1>3, <1>4, <2>1, CallMoves DEF ToolPc
<1>8. CASE Tools!Drain(c)
    <2>1. /\ v2[c] = "reaped" /\ v2' = [v2 EXCEPT ![c] = "drained"]
          /\ v5[c].live = {} \/ v7[c] \cap {"kill", "group", "reap"} # {}
        BY <1>8 DEF Tools!Drain, Tools!ToolsInv, Tools!GroupsEnd
    <2>2. v5[c].live = {} \/ v7'[c] \cap {"kill", "group", "reap"} # {}
        BY <1>3, <2>1
    <2>3. QED
        BY <1>1, <1>3, <1>4, <2>1, <2>2, CallMoves DEF ToolPc
<1>9. QED
    BY <1>5, <1>6, <1>7, <1>8


\* Fork, exit and escape change the members of a group that still has one.
LEMMA ProcessesKeepInv ==
    ASSUME Tools!ToolsInv, NEW c \in Caller,
           Tools!Fork(c) \/ (\E m \in {"leader", "child"} : Tools!Exit(c, m)) \/ Tools!Escape(c)
    PROVE  Tools!ToolsInv'
<1>1. UNCHANGED <<v1, v2, v7, v8, v9, v10, v11>>
    BY DEF Tools!Fork, Tools!Exit, Tools!Escape, Tools!Alone, Tools!files
<1>2. v5 \in [Caller -> Group]
    BY DEF Tools!ToolsInv, Tools!ToolShapes, Group
<1>3. PICK g \in Group : /\ v5' = [v5 EXCEPT ![c] = g] /\ v5[c].live # {}
                         /\ g.pid = v5[c].pid /\ g.reaped = v5[c].reaped
    <2>1. CASE Tools!Fork(c)
        <3> DEFINE g == [v5[c] EXCEPT !.live = @ \cup {"child"}]
        <3>1. v5' = [v5 EXCEPT ![c] = g] /\ v5[c].live # {}
            BY <2>1 DEF Tools!Fork
        <3>2. g \in Group /\ g.pid = v5[c].pid /\ g.reaped = v5[c].reaped
            BY <1>2 DEF Group
        <3>3. QED
            BY <3>1, <3>2
    <2>2. ASSUME NEW m \in {"leader", "child"}, Tools!Exit(c, m)
          PROVE  \E g \in Group : /\ v5' = [v5 EXCEPT ![c] = g] /\ v5[c].live # {}
                                  /\ g.pid = v5[c].pid /\ g.reaped = v5[c].reaped
        <3> DEFINE g == [v5[c] EXCEPT !.live = @ \ {m}]
        <3>1. v5' = [v5 EXCEPT ![c] = g] /\ v5[c].live # {}
            BY <2>2 DEF Tools!Exit
        <3>2. g \in Group /\ g.pid = v5[c].pid /\ g.reaped = v5[c].reaped
            BY <1>2 DEF Group
        <3>3. QED
            BY <3>1, <3>2
    <2>3. CASE Tools!Escape(c)
        <3> DEFINE g == [v5[c] EXCEPT !.live = @ \ {"child"}, !.escaped = TRUE]
        <3>1. v5' = [v5 EXCEPT ![c] = g] /\ v5[c].live # {}
            BY <1>2, <2>3 DEF Tools!Escape
        <3>2. g \in Group /\ g.pid = v5[c].pid /\ g.reaped = v5[c].reaped
            BY <1>2 DEF Group
        <3>3. QED
            BY <3>1, <3>2
    <2>4. QED
        BY <2>1, <2>2, <2>3
<1>4. v5' \in [Caller -> Group] /\ v5'[c] = g /\ \A d \in Caller \ {c} : v5'[d] = v5[d]
    BY <1>2, <1>3
<1>5. \A d \in Caller : /\ v5'[d].pid = v5[d].pid /\ v5'[d].reaped = v5[d].reaped
                        /\ v5[d].live = {} => v5'[d].live = {}
    BY <1>3, <1>4
<1>6. v5' \in [Caller -> Group] /\ v11' \subseteq v11 \cup {<<d, d>> : d \in Caller}
    BY <1>1, <1>4
<1>7. UNCHANGED <<v1, v2, v7, v8, v9, v10>>
    BY <1>1
<1>8. QED
    BY <1>5, <1>6, <1>7, GroupsChange

LEMMA FinishKeepsInv ==
    ASSUME Tools!ToolsInv, NEW c \in Caller, NEW w, Tools!Finish(c, w)
    PROVE  Tools!ToolsInv'
<1>1. UNCHANGED <<v1, v2, v5, v7, v8, v9, v10, v11>>
    BY DEF Tools!Finish, Tools!files
<1>2. v5 \in [Caller -> Group]
    BY DEF Tools!ToolsInv, Tools!ToolShapes, Group
<1>3. v11' \subseteq v11 \cup {<<d, d>> : d \in Caller}
    BY <1>1
<1>4. QED
    BY <1>1, <1>2, <1>3, GroupsChange

\* The owner signals its group, and moves on.
LEMMA SignalKeepsInv ==
    ASSUME Tools!ToolsInv, NEW c \in Caller, Tools!Signal(c), ~v5[c].reaped,
           UNCHANGED <<v1, v7, v8, v9, v10>>,
           \/ v2[c] = "watching" /\ v2' = [v2 EXCEPT ![c] = "killed"]
           \/ v2[c] = "drained" /\ v2' = [v2 EXCEPT ![c] = "answered"]
    PROVE  Tools!ToolsInv'
<1>1. /\ v5' \in [Caller -> Group] /\ v11' \subseteq v11 \cup {<<c, c>>}
      /\ \A d \in Caller : /\ v5'[d].pid = v5[d].pid /\ v5'[d].live = v5[d].live
                           /\ v5'[d].reaped = v5[d].reaped
    BY SignalStaysHome
<1> USE DEF Tools!ToolsInv
<1>2. \A d \in Caller :
          \/ v2'[d] = v2[d]
          \/ d = c /\ v2[d] = "watching" /\ v2'[d] = "killed"
          \/ d = c /\ v2[d] = "drained" /\ v2'[d] = "answered"
    BY DEF Tools!ToolShapes
<1>3. Tools!ToolShapes'
    <2>1. v11 \cup {<<c, c>>} \subseteq Caller \X Caller
        BY DEF Tools!ToolShapes
    <2>2. v11' \subseteq Caller \X Caller
        BY <1>1, <2>1
    <2>3. v2' \in [Caller -> ToolPc]
        BY DEF Tools!ToolShapes, ToolPc
    <2>4. QED
        BY <1>1, <2>2, <2>3 DEF Tools!ToolShapes, Group, ToolPc
<1>4. Tools!OneGroupPerPid'
    BY <1>1 DEF Tools!OneGroupPerPid, Tools!Groups
<1>5. Tools!GroupsEnd'
    BY <1>1, <1>2 DEF Tools!GroupsEnd
<1>6. Tools!KindsOfCalls' /\ Tools!OneEditor' /\ Tools!HeldUntilReaped'
    BY <1>1, <1>2 DEF Tools!KindsOfCalls, Tools!OneEditor, Tools!HeldUntilReaped
<1>7. Tools!CommandIsOver' /\ Tools!SignalsStayHome'
    BY <1>1, <1>5 DEF Tools!CommandIsOver, Tools!GroupsEnd, Tools!SignalsStayHome, Tools!AnsweredIsDone
<1>8. Tools!EditsLand' /\ Tools!ClosedIsIdle'
    BY <1>2 DEF Tools!EditsLand, Tools!ClosedIsIdle, Tools!AnsweredIsDone, Tools!KindsOfCalls
<1>9. QED
    BY <1>3, <1>4, <1>5, <1>6, <1>7, <1>8 DEF Tools!AnsweredIsDone

LEMMA OwnerEndsKeepsInv ==
    ASSUME Tools!ToolsInv, NEW c \in Caller, Tools!Kill(c) \/ Tools!Answer(c)
    PROVE  Tools!ToolsInv'
<1> USE DEF Tools!Goes, Tools!files
<1>1. UNCHANGED <<v1, v7, v8, v9, v10>>
    BY DEF Tools!Kill, Tools!Answer
<1>2. CASE Tools!Kill(c)
    <2>1. ~v5[c].reaped
        BY <1>2 DEF Tools!Kill, Tools!ToolsInv, Tools!HeldUntilReaped
    <2>2. QED
        BY <1>1, <1>2, <2>1, SignalKeepsInv DEF Tools!Kill
<1>3. CASE Tools!Answer(c) /\ ~v5[c].reaped
    BY <1>1, <1>3, SignalKeepsInv DEF Tools!Answer, Tools!PidHeld
<1>4. CASE Tools!Answer(c) /\ v5[c].reaped
    <2>1. /\ v2[c] = "drained" /\ v2' = [v2 EXCEPT ![c] = "answered"]
          /\ UNCHANGED <<v5, v11>>
        BY <1>4 DEF Tools!Answer, Tools!PidHeld
    <2>2. /\ v1[c] = "shell" /\ v7 \in [Caller -> SUBSET {"kill", "group", "reap", "drain"}]
          /\ v5[c].live = {} \/ v7[c] \cap {"kill", "group", "reap"} # {}
        BY <2>1 DEF Tools!ToolsInv, Tools!ToolShapes, Tools!KindsOfCalls, Tools!GroupsEnd
    <2>3. QED
        BY <1>1, <2>1, <2>2, CallMoves DEF ToolPc
<1>5. QED
    BY <1>2, <1>3, <1>4

\* The leader is reaped: from here the pid may be another group's.
LEMMA ReapKeepsInv ==
    ASSUME Tools!ToolsInv, NEW c \in Caller, Tools!Reap(c)
    PROVE  Tools!ToolsInv'
<1> USE DEF Tools!Goes, Tools!files, Tools!Fails
<1>1. /\ UNCHANGED <<v1, v8, v9, v10, v11>>
      /\ v2[c] = "quiet" /\ v2' = [v2 EXCEPT ![c] = "reaped"]
    BY DEF Tools!Reap
<1>2. /\ v1[c] = "shell" /\ v7 \in [Caller -> SUBSET {"kill", "group", "reap", "drain"}]
      /\ v5[c].live = {} \/ v7[c] \cap {"kill", "group", "reap"} # {}
      /\ v5 \in [Caller -> Group] /\ v2 \in [Caller -> ToolPc]
    BY <1>1 DEF Tools!ToolsInv, Tools!ToolShapes, Tools!KindsOfCalls, Tools!GroupsEnd, Group, ToolPc
<1>3. CASE v5' = v5 /\ v7' = [v7 EXCEPT ![c] = @ \cup {"reap"}]
    BY <1>1, <1>2, <1>3, CallMoves DEF ToolPc
<1>4. CASE v5' = [v5 EXCEPT ![c].reaped = TRUE] /\ v7' = v7
    <2> DEFINE g == [v5[c] EXCEPT !.reaped = TRUE]
    <2>1. /\ v5' = [v5 EXCEPT ![c] = g] /\ g \in Group
          /\ g.pid = v5[c].pid /\ g.live = v5[c].live
        BY <1>2, <1>4 DEF Group
    <2> HIDE DEF g
    <2>2. /\ v5' \in [Caller -> Group] /\ v2'[c] = "reaped"
          /\ v5'[c].pid = v5[c].pid /\ v5'[c].live = v5[c].live
          /\ \A d \in Caller \ {c} : v5'[d] = v5[d] /\ v2'[d] = v2[d]
        BY <1>1, <1>2, <2>1
    <2> USE DEF Tools!ToolsInv
    <2>3. Tools!ToolShapes'
        BY <1>1, <1>4, <2>2 DEF Tools!ToolShapes, Group
    <2>4. \A p \in Pids : Tools!Groups(p)' \subseteq Tools!Groups(p)
        <3>1. SUFFICES ASSUME NEW p \in Pids, NEW d \in Tools!Groups(p)' PROVE d \in Tools!Groups(p)
            OBVIOUS
        <3>2. CASE d = c
            <4>1. c \in Caller /\ p \in v5[c].pid
                BY <2>2, <3>1, <3>2 DEF Tools!Groups
            <4>2. ~v5[c].reaped
                BY <1>1 DEF Tools!HeldUntilReaped
            <4>3. QED
                BY <3>2, <4>1, <4>2 DEF Tools!Groups
        <3>3. CASE d # c
            BY <2>2, <3>1, <3>3 DEF Tools!Groups
        <3>4. QED
            BY <3>2, <3>3
    <2>5. Tools!OneGroupPerPid'
        BY <2>4 DEF Tools!OneGroupPerPid
    <2>6. Tools!GroupsEnd'
        BY <1>1, <1>2, <1>4, <2>2 DEF Tools!GroupsEnd
    <2>7. Tools!KindsOfCalls' /\ Tools!OneEditor' /\ Tools!HeldUntilReaped'
        BY <1>1, <1>2, <2>2 DEF Tools!KindsOfCalls, Tools!OneEditor, Tools!HeldUntilReaped
    <2>8. Tools!CommandIsOver' /\ Tools!SignalsStayHome'
        BY <1>1, <2>6 DEF Tools!CommandIsOver, Tools!GroupsEnd, Tools!SignalsStayHome,
           Tools!AnsweredIsDone
    <2>9. Tools!EditsLand' /\ Tools!ClosedIsIdle'
        BY <1>1, <2>2 DEF Tools!EditsLand, Tools!ClosedIsIdle, Tools!AnsweredIsDone
    <2>10. QED
        BY <2>3, <2>5, <2>6, <2>7, <2>8, <2>9 DEF Tools!AnsweredIsDone
<1>5. QED
    BY <1>3, <1>4 DEF Tools!Reap

LEMMA ToolsNextKeepsInv ==
    ASSUME Tools!ToolsInv, Tools!Next
    PROVE  Tools!ToolsInv'
<1>1. CASE Tools!Shutdown \/ Tools!ShutdownReturns
    BY <1>1, AdmissionKeepsInv
<1>2. ASSUME NEW c \in Caller, Tools!CallStep(c)
      PROVE  Tools!ToolsInv'
    <2>1. CASE Tools!Start(c, "shell") \/ Tools!Start(c, "edit")
        BY <2>1, StartKeepsInv
    <2>2. CASE Tools!CancelAttempt(c)
        BY <2>2, AdmissionKeepsInv
    <2>3. CASE Tools!ReadFile(c) \/ Tools!WriteFile(c)
        BY <2>3, EditKeepsInv
    <2>4. CASE \E p \in Pids : Tools!Spawn(c, p)
        BY <2>4, SpawnKeepsInv
    <2>5. CASE \/ Tools!StartsCancelled(c) \/ Tools!SpawnFails(c) \/ Tools!KillFails(c)
               \/ Tools!GroupEnds(c) \/ Tools!GroupLives(c) \/ Tools!Drain(c)
        BY <2>5, EndStepKeepsInv
    <2>6. CASE Tools!Fork(c) \/ (\E m \in {"leader", "child"} : Tools!Exit(c, m)) \/ Tools!Escape(c)
        BY <2>6, ProcessesKeepInv
    <2>7. CASE \E w \in {"cancelled", "exited", "timeout", "failed"} : Tools!Finish(c, w)
        BY <2>7, FinishKeepsInv
    <2>8. CASE Tools!Kill(c) \/ Tools!Answer(c)
        BY <2>8, OwnerEndsKeepsInv
    <2>9. CASE Tools!Reap(c)
        BY <2>9, ReapKeepsInv
    <2>10. QED
        BY <1>2, <2>1, <2>2, <2>3, <2>4, <2>5, <2>6, <2>7, <2>8, <2>9 DEF Tools!CallStep
<1>3. QED
    BY <1>1, <1>2 DEF Tools!Next

-----------------------------------------------------------------------------
(* Blobs                                                                   *)

UploadAttempt == ClientIds \X (1 .. Tries)
BlobPc == {"none", "begun", "written", "cleanup", "gone"}

LEMMA BlobAttempts == Blob!Attempt = UploadAttempt
BY DEF Blob!Attempt, UploadAttempt

LEMMA BlobInitInv == Blob!Init => Blob!BlobInv
<1> SUFFICES ASSUME Blob!Init PROVE Blob!BlobInv
    OBVIOUS
<1>0. /\ v1 = 1 /\ v3 = {} /\ v4 = {} /\ v8 = FALSE
      /\ v5 = [a \in Blob!Attempt |-> "none"] /\ v6 = [a \in Blob!Attempt |-> 0]
      /\ v7 = [a \in Blob!Attempt |-> {}]
    BY DEF Blob!Init
<1>1. /\ v6 \in [Blob!Attempt -> Nat] /\ v7 \in [Blob!Attempt -> SUBSET Blob!Attempt]
      /\ v5 \in [Blob!Attempt -> {"none", "begun", "written", "cleanup", "gone"}]
      /\ \A a \in Blob!Attempt : v5[a] = "none" /\ v6[a] = 0 /\ v7[a] = {}
    BY <1>0
<1>2. Blob!BlobShapes
    <2>1. v8 \in BOOLEAN
        BY <1>0
    <2>2. v1 \in Nat \ {0} /\ v3 \subseteq Blob!Attempt /\ v4 \subseteq Blob!Attempt
        BY <1>0
    <2>3. QED
        BY <1>1, <2>1, <2>2 DEF Blob!BlobShapes
<1>3. Blob!RowsAreOver /\ Blob!FilesStand /\ Blob!ResetIsAlone
    BY <1>0, <1>1 DEF Blob!RowsAreOver, Blob!FilesStand, Blob!ResetIsAlone
<1>4. Blob!RowHasFile
    BY <1>0, <1>1 DEF Blob!RowHasFile
<1>5. QED
    BY <1>2, <1>3, <1>4 DEF Blob!BlobInv

\* What holds of a row or an answer depends on them and the history alone.
LEMMA UploadStepKeepsInv ==
    ASSUME Blob!BlobInv, NEW a \in UploadAttempt, UNCHANGED v8,
           Blob!Begin(a) \/ Blob!WriteFile(a) \/ Blob!WriteFileFails(a) \/ Blob!CommitFails(a)
           \/ Blob!RemoveFile(a)
    PROVE  Blob!BlobInv'
<1> USE BlobAttempts DEF Blob!Goes
<1>1. Blob!BlobShapes /\ Blob!RowsAreOver /\ Blob!FilesStand /\ Blob!ResetIsAlone /\ Blob!RowHasFile
    BY DEF Blob!BlobInv
<1>2. UNCHANGED <<v1, v2, v4, v7>>
    BY DEF Blob!Begin, Blob!WriteFile, Blob!WriteFileFails, Blob!CommitFails, Blob!RemoveFile
<1>3. /\ v5 \in [UploadAttempt -> BlobPc] /\ v6 \in [UploadAttempt -> Nat] /\ v7 \in [UploadAttempt -> SUBSET UploadAttempt]
      /\ v1 \in Nat /\ v3 \subseteq UploadAttempt /\ v4 \subseteq UploadAttempt
    BY <1>1 DEF Blob!BlobShapes, BlobPc
<1>4. \A b \in UploadAttempt : Blob!Twins(b)' = Blob!Twins(b)
    BY <1>2 DEF Blob!Twins
<1>5. CASE Blob!Begin(a)
    <2>1. /\ v5[a] = "none" /\ v5' = [v5 EXCEPT ![a] = "begun"] /\ v6' = [v6 EXCEPT ![a] = v1]
          /\ v3' = v3 /\ ~v8 /\ v7[a] = {} /\ a \notin v4
        BY <1>1, <1>5 DEF Blob!Begin, Blob!Unlocked, Blob!ResetIsAlone, Blob!FilesStand,
           Blob!RowsAreOver, Blob!BlobShapes
    <2>2. /\ v5'[a] = "begun" /\ v6'[a] = v1 /\ v5' \in [UploadAttempt -> BlobPc] /\ v6' \in [UploadAttempt -> Nat]
          /\ \A b \in UploadAttempt \ {a} : v5'[b] = v5[b] /\ v6'[b] = v6[b]
        BY <1>3, <2>1 DEF BlobPc
    <2>3. Blob!BlobShapes' /\ Blob!RowsAreOver' /\ Blob!ResetIsAlone'
        BY <1>1, <1>2, <2>1, <2>2 DEF Blob!BlobShapes, Blob!RowsAreOver, Blob!ResetIsAlone, BlobPc
    <2>4. Blob!FilesStand' /\ Blob!RowHasFile'
        BY <1>1, <1>2, <1>3, <1>4, <2>1, <2>2 DEF Blob!FilesStand, Blob!RowHasFile
    <2>5. QED
        BY <2>3, <2>4 DEF Blob!BlobInv
<1>6. CASE ~Blob!Begin(a)
    <2>1. PICK to \in BlobPc : v5' = [v5 EXCEPT ![a] = to] /\ v5[a] \in {"begun", "written", "cleanup"}
                               /\ to # "none" /\ (to = "written" => v5[a] = "begun")
        BY <1>6 DEF Blob!WriteFile, Blob!WriteFileFails, Blob!CommitFails, Blob!RemoveFile, BlobPc
    <2>2. /\ v6' = v6 /\ v3' \subseteq v3 \cup {a} /\ v3 \ {a} \subseteq v3'
          /\ to = "written" => a \in v3'
        BY <1>6, <1>3, <2>1 DEF Blob!WriteFile, Blob!WriteFileFails, Blob!CommitFails, Blob!RemoveFile
    <2>3. v5'[a] = to /\ v5' \in [UploadAttempt -> BlobPc] /\ \A b \in UploadAttempt \ {a} : v5'[b] = v5[b]
        BY <1>3, <2>1
    <2>4. a \notin v4
        BY <1>1, <2>1 DEF Blob!RowsAreOver
    <2>5. Blob!BlobShapes' /\ Blob!RowsAreOver' /\ Blob!ResetIsAlone'
        BY <1>1, <1>2, <1>3, <2>2, <2>3, <2>4
           DEF Blob!BlobShapes, Blob!RowsAreOver, Blob!ResetIsAlone, BlobPc
    <2>6. Blob!FilesStand'
        BY <1>1, <1>2, <2>1, <2>2, <2>3 DEF Blob!FilesStand
    <2>7. Blob!RowHasFile'
        BY <1>1, <1>2, <1>3, <1>4, <2>2, <2>4 DEF Blob!RowHasFile
    <2>8. QED
        BY <2>5, <2>6, <2>7 DEF Blob!BlobInv
<1>7. QED
    BY <1>5, <1>6

\* A row is committed only in the history of its file, and stands beside it.
LEMMA CommitKeepsInv ==
    ASSUME Blob!BlobInv, NEW a \in UploadAttempt, UNCHANGED v8, Blob!CommitRow(a)
    PROVE  Blob!BlobInv'
<1> USE BlobAttempts DEF Blob!Goes
<1>1. Blob!BlobShapes /\ Blob!RowsAreOver /\ Blob!FilesStand /\ Blob!ResetIsAlone /\ Blob!RowHasFile
    BY DEF Blob!BlobInv
<1>2. UNCHANGED <<v1, v2, v3, v6>> /\ v5[a] = "written" /\ v6[a] = v1 /\ ~v8 /\ a \in v3 /\ a \notin v4
    BY <1>1 DEF Blob!CommitRow, Blob!Unlocked, Blob!SameHistory, Blob!ResetIsAlone, Blob!FilesStand,
       Blob!RowsAreOver, Blob!BlobShapes
<1>3. /\ v5 \in [UploadAttempt -> BlobPc] /\ v6 \in [UploadAttempt -> Nat] /\ v7 \in [UploadAttempt -> SUBSET UploadAttempt]
      /\ v1 \in Nat /\ v3 \subseteq UploadAttempt /\ v4 \subseteq UploadAttempt
    BY <1>1 DEF Blob!BlobShapes, BlobPc
<1>4. CASE Blob!Twins(a) = {}
    <2>1. v4' = v4 \cup {a} /\ v7' = [v7 EXCEPT ![a] = {a}] /\ v5' = [v5 EXCEPT ![a] = "gone"]
        BY <1>4 DEF Blob!CommitRow
    <2>2. /\ v5' \in [UploadAttempt -> BlobPc] /\ v5'[a] = "gone" /\ v7'[a] = {a}
          /\ v7' \in [UploadAttempt -> SUBSET UploadAttempt]
          /\ \A b \in UploadAttempt \ {a} : v5'[b] = v5[b] /\ v7'[b] = v7[b]
        BY <1>3, <2>1 DEF BlobPc
    <2>3. Blob!BlobShapes' /\ Blob!RowsAreOver' /\ Blob!ResetIsAlone' /\ Blob!FilesStand'
        BY <1>1, <1>2, <1>3, <2>1, <2>2
           DEF Blob!BlobShapes, Blob!RowsAreOver, Blob!ResetIsAlone, Blob!FilesStand, BlobPc
    <2>4. ASSUME NEW b \in v4' PROVE Blob!Twins(b)' = {b}
        <3>1. \A d \in v4 : d[1] # a[1]
            BY <1>4 DEF Blob!Twins
        <3>2. CASE b = a
            BY <2>1, <3>1, <3>2 DEF Blob!Twins
        <3>3. CASE b # a
            <4>1. b \in v4 /\ Blob!Twins(b) = {b}
                BY <1>1, <2>1, <2>4, <3>3 DEF Blob!RowHasFile
            <4>2. QED
                BY <2>1, <3>1, <4>1 DEF Blob!Twins
        <3>4. QED
            BY <3>2, <3>3
    <2>5. Blob!RowHasFile'
        BY <1>1, <1>2, <1>3, <2>1, <2>2, <2>4 DEF Blob!RowHasFile
    <2>6. QED
        BY <2>3, <2>5 DEF Blob!BlobInv
<1>5. CASE Blob!Twins(a) # {}
    <2>1. v4' = v4 /\ v7' = [v7 EXCEPT ![a] = Blob!Twins(a)] /\ v5' = [v5 EXCEPT ![a] = "cleanup"]
        BY <1>5 DEF Blob!CommitRow
    <2>2. Blob!Twins(a) \subseteq v4
        BY DEF Blob!Twins
    <2>3. /\ v5' \in [UploadAttempt -> BlobPc] /\ v5'[a] = "cleanup" /\ v7'[a] \subseteq v4
          /\ v7' \in [UploadAttempt -> SUBSET UploadAttempt]
          /\ \A b \in UploadAttempt \ {a} : v5'[b] = v5[b] /\ v7'[b] = v7[b]
        BY <1>3, <2>1, <2>2 DEF BlobPc
    <2>4. Blob!BlobShapes' /\ Blob!RowsAreOver' /\ Blob!ResetIsAlone' /\ Blob!FilesStand'
        BY <1>1, <1>2, <1>3, <2>1, <2>3
           DEF Blob!BlobShapes, Blob!RowsAreOver, Blob!ResetIsAlone, Blob!FilesStand, BlobPc
    <2>5. \A b \in UploadAttempt : Blob!Twins(b)' = Blob!Twins(b)
        BY <2>1 DEF Blob!Twins
    <2>6. Blob!RowHasFile'
        BY <1>1, <1>2, <1>3, <2>1, <2>3, <2>5 DEF Blob!RowHasFile
    <2>7. QED
        BY <2>4, <2>6 DEF Blob!BlobInv
<1>6. QED
    BY <1>4, <1>5

\* A reset takes the rows before the files, and nobody commits in between.
LEMMA ResetKeepsInv ==
    ASSUME Blob!BlobInv, Blob!ResetRows \/ Blob!ResetFiles \/ Blob!Stop
    PROVE  Blob!BlobInv'
<1> USE BlobAttempts
<1>1. Blob!BlobShapes /\ Blob!RowsAreOver /\ Blob!FilesStand /\ Blob!ResetIsAlone /\ Blob!RowHasFile
    BY DEF Blob!BlobInv
<1>3. /\ v5 \in [UploadAttempt -> BlobPc] /\ v6 \in [UploadAttempt -> Nat] /\ v7 \in [UploadAttempt -> SUBSET UploadAttempt]
      /\ v1 \in Nat /\ v3 \subseteq UploadAttempt /\ v4 \subseteq UploadAttempt
      /\ \A a \in UploadAttempt : v6[a] <= v1
    BY <1>1 DEF Blob!BlobShapes, BlobPc, Blob!FilesStand
<1>4. CASE Blob!ResetRows
    <2>1. v4' = {} /\ v1' = v1 + 1 /\ v2' = "reset" /\ v8' = TRUE /\ UNCHANGED <<v3, v5, v6, v7>>
        BY <1>4 DEF Blob!ResetRows, Blob!ResetHolds
    <2>2. \A a \in UploadAttempt : v6'[a] < v1' /\ v6'[a] # v1'
        BY <1>3, <2>1
    <2>3. Blob!BlobShapes' /\ Blob!RowsAreOver' /\ Blob!ResetIsAlone'
        BY <1>1, <1>3, <2>1, <2>2 DEF Blob!BlobShapes, Blob!RowsAreOver, Blob!ResetIsAlone
    <2>4. Blob!FilesStand' /\ Blob!RowHasFile'
        BY <1>1, <1>3, <2>1, <2>2 DEF Blob!FilesStand, Blob!RowHasFile
    <2>5. QED
        BY <2>3, <2>4 DEF Blob!BlobInv
<1>5. CASE Blob!ResetFiles
    <2>1. v8 /\ v8' = FALSE /\ v3' \subseteq v3 /\ UNCHANGED <<v1, v4, v5, v6, v7>> /\ v4 = {}
          /\ \A a \in UploadAttempt : v6[a] < v1
        BY <1>1, <1>5 DEF Blob!ResetFiles, Blob!ResetIsAlone
    <2>2. \A a \in UploadAttempt : v6'[a] # v1'
        BY <1>3, <2>1
    <2>3. Blob!BlobShapes' /\ Blob!RowsAreOver' /\ Blob!ResetIsAlone'
        BY <1>1, <1>3, <2>1 DEF Blob!BlobShapes, Blob!RowsAreOver, Blob!ResetIsAlone
    <2>4. Blob!FilesStand' /\ Blob!RowHasFile'
        BY <1>1, <1>3, <2>1, <2>2 DEF Blob!FilesStand, Blob!RowHasFile
    <2>5. QED
        BY <2>3, <2>4 DEF Blob!BlobInv
<1>6. CASE Blob!Stop
    <2>1. /\ UNCHANGED <<v1, v3, v4, v6, v7>> /\ v8' = FALSE
          /\ v5' = [a \in UploadAttempt |-> IF v5[a] = "none" THEN "none" ELSE "gone"]
        BY <1>6 DEF Blob!Stop
    <2>2. v5' \in [UploadAttempt -> BlobPc]
          /\ \A a \in UploadAttempt : v5'[a] = IF v5[a] = "none" THEN "none" ELSE "gone"
        BY <2>1 DEF BlobPc
    <2>3. Blob!BlobShapes' /\ Blob!RowsAreOver' /\ Blob!ResetIsAlone'
        BY <1>1, <1>3, <2>1, <2>2 DEF Blob!BlobShapes, Blob!RowsAreOver, Blob!ResetIsAlone, BlobPc
    <2>4. Blob!FilesStand'
        BY <1>1, <1>3, <2>1, <2>2 DEF Blob!FilesStand
    <2>5. \A b \in UploadAttempt : Blob!Twins(b)' = Blob!Twins(b)
        BY <2>1 DEF Blob!Twins
    <2>6. Blob!RowHasFile'
        BY <1>1, <1>3, <2>1, <2>5 DEF Blob!RowHasFile
    <2>7. QED
        BY <2>3, <2>4, <2>6 DEF Blob!BlobInv
<1>7. QED
    BY <1>4, <1>5, <1>6

LEMMA BlobNextKeepsInv ==
    ASSUME Blob!BlobInv, Blob!Next
    PROVE  Blob!BlobInv'
<1>1. CASE Blob!ResetRows \/ Blob!ResetFiles \/ Blob!Stop
    BY <1>1, ResetKeepsInv
<1>2. ASSUME NEW a \in UploadAttempt, Blob!Upload(a), UNCHANGED v8
      PROVE  Blob!BlobInv'
    BY <1>2, UploadStepKeepsInv, CommitKeepsInv DEF Blob!Upload
<1>3. QED
    BY <1>1, <1>2, BlobAttempts DEF Blob!Next

-----------------------------------------------------------------------------
(* Artifacts                                                               *)

LEMMA EditsCardinality == ASSUME NEW S PROVE Edits!Cardinality(S) = Cardinality(S)
BY DEF Edits!Cardinality, Cardinality

LEMMA EditsFinite == ASSUME NEW S PROVE Edits!IsFiniteSet(S) <=> IsFiniteSet(S)
BY DEF Edits!IsFiniteSet, IsFiniteSet

EditCall == Caller \X (1 .. Tries)
EditPc == {"none", "looking", "edited", "published", "gone"}

LEMMA EditCalls == Edits!Attempt = EditCall
BY DEF Edits!Attempt, EditCall

LEMMA EditsInitInv == Edits!Init => Edits!EditsInv
<1> SUFFICES ASSUME Edits!Init PROVE Edits!EditsInv
    OBVIOUS
<1> USE DEF Edits!Init
<1>1. Edits!IsFiniteSet({}) /\ Edits!Cardinality({}) = 0
    BY EditsFinite, EditsCardinality, FS_EmptySet
<1>2. v1 = <<>> /\ v1 \in Seq(Caller) /\ DOMAIN v1 = {}
    OBVIOUS
<1>3. Edits!EditShapes
    BY <1>1, <1>2 DEF Edits!EditShapes
<1>4. Edits!ContentIsReceipts
    BY <1>1, <1>2 DEF Edits!ContentIsReceipts
<1>5. Edits!PublishedHasReceipt
    BY DEF Edits!PublishedHasReceipt
<1>6. QED
    BY <1>3, <1>4, <1>5 DEF Edits!EditsInv

\* A call that publishes nothing new.
LEMMA EditCallMoves ==
    ASSUME Edits!EditsInv, UNCHANGED <<v1, v2, v3, v4>>,
           v5' \in [EditCall -> EditPc], v6' \in [EditCall -> Seq(Caller)],
           \A a \in EditCall : v5'[a] = "published" => v5[a] = "published" \/ a[1] \in v3,
           v7' \subseteq v3
    PROVE  Edits!EditsInv'
<1> USE EditCalls DEF Edits!EditsInv
<1>1. Edits!EditShapes'
    BY DEF Edits!EditShapes, EditPc
<1>2. Edits!ContentIsReceipts'
    BY DEF Edits!ContentIsReceipts
<1>3. Edits!PublishedHasReceipt'
    BY DEF Edits!PublishedHasReceipt
<1>4. QED
    BY <1>1, <1>2, <1>3

\* The edit, its card, its receipt and its output: all in one transaction.
LEMMA PublishKeepsInv ==
    ASSUME Edits!EditsInv, NEW a \in EditCall, Edits!Publish(a), a[1] \notin v3
    PROVE  Edits!EditsInv'
<1> USE EditCalls
<1>1. /\ v1 \in Seq(Caller) /\ v3 \subseteq Caller /\ v5 \in [EditCall -> EditPc]
      /\ v6 \in [EditCall -> Seq(Caller)] /\ IsFiniteSet(v3) /\ a[1] \in Caller
    BY EditsFinite DEF Edits!EditsInv, Edits!EditShapes, EditPc, EditCall
<1>2. /\ v1' = Append(v1, a[1]) /\ v2' = v2 + 1 /\ v3' = v3 \cup {a[1]} /\ v4' = v4 \cup {a[1]}
      /\ v5' = [v5 EXCEPT ![a] = "published"] /\ UNCHANGED <<v6, v7>>
    BY DEF Edits!Publish, Edits!Done, Edits!Current, Edits!Goes
<1>3. /\ \A i, j \in DOMAIN v1 : v1[i] = v1[j] => i = j
      /\ {v1[i] : i \in DOMAIN v1} = v3
      /\ v2 = Cardinality(v3) /\ v4 = v3 /\ v7 \subseteq v3
    BY EditsCardinality DEF Edits!EditsInv, Edits!ContentIsReceipts
<1>4. /\ v1' \in Seq(Caller) /\ DOMAIN v1 = 1 .. Len(v1) /\ DOMAIN v1' = 1 .. Len(v1) + 1
      /\ v1'[Len(v1) + 1] = a[1] /\ \A i \in 1 .. Len(v1) : v1'[i] = v1[i]
      /\ Len(v1) \in Nat
    BY <1>1, <1>2
<1>5. IsFiniteSet(v3') /\ Cardinality(v3') = Cardinality(v3) + 1
    BY <1>1, <1>2, FS_AddElement
<1>6. Edits!EditShapes'
    BY <1>1, <1>2, <1>4, <1>5, EditsFinite DEF Edits!EditShapes, EditPc
<1>7. \A i \in 1 .. Len(v1) : v1[i] # a[1]
    BY <1>3, <1>4
<1>8. \A i, j \in DOMAIN v1' : v1'[i] = v1'[j] => i = j
    BY <1>3, <1>4, <1>7
<1>9. {v1'[i] : i \in DOMAIN v1'} = v3'
    <2>1. {v1'[i] : i \in DOMAIN v1'} = {v1[i] : i \in 1 .. Len(v1)} \cup {a[1]}
        <3>1. DOMAIN v1' = (1 .. Len(v1)) \cup {Len(v1) + 1}
            BY <1>4
        <3>2. QED
            BY <1>4, <3>1
    <2>2. QED
        BY <1>2, <1>3, <1>4, <2>1
<1>10. Edits!ContentIsReceipts'
    BY <1>2, <1>3, <1>5, <1>8, <1>9, EditsCardinality DEF Edits!ContentIsReceipts
<1>11. Edits!PublishedHasReceipt'
    BY <1>1, <1>2 DEF Edits!EditsInv, Edits!PublishedHasReceipt
<1>12. QED
    BY <1>6, <1>10, <1>11 DEF Edits!EditsInv

LEMMA EditsNextKeepsInv ==
    ASSUME Edits!EditsInv, Edits!Next
    PROVE  Edits!EditsInv'
<1> USE EditCalls DEF Edits!stored, Edits!Goes
<1>1. /\ v1 \in Seq(Caller) /\ v5 \in [EditCall -> EditPc] /\ v6 \in [EditCall -> Seq(Caller)]
      /\ v7 \subseteq v3 /\ \A a \in EditCall : v5[a] = "published" => a[1] \in v3
    BY DEF Edits!EditsInv, Edits!EditShapes, Edits!ContentIsReceipts, Edits!PublishedHasReceipt, EditPc
<1>2. CASE Edits!Stop
    <2>1. /\ UNCHANGED <<v1, v2, v3, v4, v6, v7>>
          /\ v5' = [a \in EditCall |-> IF v5[a] = "none" THEN "none" ELSE "gone"]
        BY <1>2 DEF Edits!Stop
    <2>2. /\ v5' \in [EditCall -> EditPc]
          /\ \A a \in EditCall : v5'[a] = IF v5[a] = "none" THEN "none" ELSE "gone"
        BY <2>1 DEF EditPc
    <2>3. QED
        BY <1>1, <2>1, <2>2, EditCallMoves
<1>3. ASSUME NEW a \in EditCall, Edits!CallStep(a)
      PROVE  Edits!EditsInv'
    <2>1. CASE Edits!Publish(a) /\ a[1] \notin v3
        BY <2>1, PublishKeepsInv
    <2>2. CASE ~(Edits!Publish(a) /\ a[1] \notin v3)
        <3>1. PICK to \in EditPc : v5' = [v5 EXCEPT ![a] = to] /\ (to = "published" => a[1] \in v3)
            <4>1. CASE Edits!Start(a)
                BY <4>1, Zenon DEF Edits!Start, EditPc
            <4>2. CASE Edits!Replay(a) \/ Edits!ReadContent(a)
                BY <4>2 DEF Edits!Replay, Edits!ReadContent, EditPc
            <4>3. QED
                BY <1>3, <2>2, <4>1, <4>2 DEF Edits!CallStep, Edits!Publish, Edits!Done, Edits!Conflict, Edits!Answer, Edits!Refused, EditPc
        <3>2. UNCHANGED <<v1, v2, v3, v4>>
            BY <1>3, <2>2 DEF Edits!CallStep, Edits!Start, Edits!Replay, Edits!ReadContent,
               Edits!Publish, Edits!Done, Edits!Conflict, Edits!Answer, Edits!Refused
        <3>3. v6' = v6 \/ v6' = [v6 EXCEPT ![a] = v1]
            BY <1>3, <2>2 DEF Edits!CallStep, Edits!Start, Edits!Replay, Edits!ReadContent,
               Edits!Publish, Edits!Done, Edits!Conflict, Edits!Answer, Edits!Refused
        <3>4. v7' = v7 \/ (v5[a] = "published" /\ v7' = v7 \cup {a[1]})
            BY <1>3, <2>2 DEF Edits!CallStep, Edits!Start, Edits!Replay, Edits!ReadContent,
               Edits!Publish, Edits!Done, Edits!Conflict, Edits!Answer, Edits!Refused
        <3>5. v5' \in [EditCall -> EditPc] /\ v6' \in [EditCall -> Seq(Caller)] /\ v7' \subseteq v3
            BY <1>1, <3>1, <3>3, <3>4
        <3>6. \A b \in EditCall : v5'[b] = "published" => v5[b] = "published" \/ b[1] \in v3
            BY <1>1, <3>1
        <3>7. QED
            BY <3>2, <3>5, <3>6, EditCallMoves
    <2>3. QED
        BY <2>1, <2>2
<1>4. QED
    BY <1>2, <1>3 DEF Edits!Next

\* An edit that has its receipt is in the content once.
LEMMA EditsInvImpliesKept == Edits!EditsInv => Edits!EditsAreKept
<1> SUFFICES ASSUME Edits!EditsInv PROVE Edits!EditsAreKept
    OBVIOUS
<1>1. Edits!ContentIsReceipts
    BY DEF Edits!EditsInv
<1>2. ASSUME NEW op \in Caller
      PROVE  Edits!Times(op) = IF op \in v3 THEN 1 ELSE 0
    <2> DEFINE at == {i \in DOMAIN v1 : v1[i] = op}
    <2>1. Edits!Times(op) = Cardinality(at)
        BY EditsCardinality DEF Edits!Times
    <2>2. CASE op \in v3
        <3>1. PICK i \in DOMAIN v1 : v1[i] = op
            BY <1>1, <2>2 DEF Edits!ContentIsReceipts
        <3>2. at = {i}
            BY <1>1, <3>1 DEF Edits!ContentIsReceipts
        <3>3. QED
            BY <2>1, <2>2, <3>2, FS_Singleton
    <2>3. CASE op \notin v3
        <3>1. at = {}
            BY <1>1, <2>3 DEF Edits!ContentIsReceipts
        <3>2. QED
            BY <2>1, <2>3, <3>1, FS_EmptySet
    <2>4. QED
        BY <2>2, <2>3
<1>3. QED
    BY <1>1, <1>2 DEF Edits!EditsAreKept, Edits!ContentIsReceipts

-----------------------------------------------------------------------------
(* Configuration                                                           *)

OpState == [pc : Config!Pc, want : Config!File, doc : Config!File, got : Config!Route,
            before : Config!Route]

\* What is derived of a file is of the roster.
LEMMA FileReads ==
    ASSUME NEW f \in Config!File
    PROVE  /\ Config!Choice(f) \in Providers /\ Config!Selection(f) \in Config!Model
           /\ Config!Surface(f) \in Config!Route
           /\ Config!Routed(f) \in Providers /\ Config!ModelSpec(f) \in Config!Model
           /\ Config!Live(f) \in Config!Route
           /\ f.provider \in Providers /\ f.model \in Config!Model /\ f.prompt \in {0, 1}
           /\ f.added \in Config!Instance
<1>1. f.provider \in Providers /\ f.model \in Config!Model /\ f.prompt \in {0, 1}
      /\ f.added \in Config!Instance /\ Booted \in Providers
    BY ServicesAssumption DEF Config!File
<1>2. \A p \in Providers : <<p, 1>> \in Config!Model
    BY DEF Config!Model
<1>3. Config!Choice(f) \in Providers
    BY <1>1 DEF Config!Choice
<1>4. Config!Selection(f) \in Config!Model
    BY <1>1, <1>2, <1>3 DEF Config!Selection
<1>5. Config!Routed(f) \in Providers /\ Config!ModelSpec(f) \in Config!Model
    BY <1>1, <1>2, <1>3, <1>4 DEF Config!Routed, Config!ModelSpec
<1>6. QED
    BY <1>1, <1>3, <1>4, <1>5 DEF Config!Surface, Config!Live, Config!Route

\* The prompt section decides nothing of it.
LEMMA PromptApart ==
    ASSUME NEW f \in Config!File, NEW q \in {0, 1}
    PROVE  LET g == [f EXCEPT !.prompt = q] IN
           /\ g \in Config!File /\ g.prompt = q
           /\ g.provider = f.provider /\ g.model = f.model /\ g.added = f.added
           /\ Config!Choice(g) = Config!Choice(f) /\ Config!Surface(g) = Config!Surface(f)
           /\ Config!Routed(g) = Config!Routed(f) /\ Config!ModelSpec(g) = Config!ModelSpec(f)
           /\ Config!Live(g) = Config!Live(f)
<1> DEFINE g == [f EXCEPT !.prompt = q]
<1>1. /\ g \in Config!File /\ g.prompt = q
      /\ g.provider = f.provider /\ g.model = f.model /\ g.added = f.added
    BY DEF Config!File
<1> HIDE DEF g
<1>2. Config!Choice(g) = Config!Choice(f)
    BY <1>1 DEF Config!Choice
<1>3. Config!Selection(g) = Config!Selection(f)
    BY <1>1, <1>2 DEF Config!Selection
<1>4. Config!Routed(g) = Config!Routed(f)
    BY <1>1, <1>2 DEF Config!Routed
<1>5. Config!ModelSpec(g) = Config!ModelSpec(f)
    BY <1>1, <1>2, <1>3, <1>4 DEF Config!ModelSpec
<1>6. QED
    BY <1>1, <1>2, <1>3, <1>4, <1>5 DEF Config!Surface, Config!Live, g

LEMMA OpMoves ==
    ASSUME v3 \in [Config!Op -> OpState], NEW o \in Config!Op, NEW r \in OpState,
           v3' = [v3 EXCEPT ![o] = r]
    PROVE  /\ v3' \in [Config!Op -> OpState] /\ v3'[o] = r
           /\ \A x \in Config!Op \ {o} : v3'[x] = v3[x]
OBVIOUS

LEMMA Idles ==
    /\ Config!Idle \in OpState /\ Config!Idle.pc = "idle"
    /\ Config!NoPoll \in [pc : Config!Pc, got : Config!Route] /\ Config!NoPoll.pc = "idle"
<1>1. Config!NoFile \in Config!File
    <2>1. Booted \in Providers /\ <<Booted, 1>> \in Config!Model
        BY ServicesAssumption DEF Config!Model
    <2>2. QED
        BY <2>1 DEF Config!NoFile, Config!Plain, Config!File, Config!Instance
<1>2. Config!Surface(Config!NoFile) \in Config!Route
    BY <1>1, FileReads
<1>3. QED
    BY <1>1, <1>2 DEF Config!Idle, Config!NoPoll, OpState, Config!Pc

LEMMA ConfigInitInv == Config!Init => Config!ConfigInv
<1> SUFFICES ASSUME NEW p \in Providers, Config!InitFrom(Config!Plain(p)) PROVE Config!ConfigInv
    BY DEF Config!Init
<1> DEFINE f == Config!Plain(p)
<1>1. f \in Config!File /\ f.model = <<p, 1>> /\ f.provider = p /\ f.prompt = 0 /\ f.added = "usable"
    <2>1. <<p, 1>> \in Config!Model
        BY DEF Config!Model
    <2>2. QED
        BY <2>1 DEF Config!Plain, Config!File, Config!Instance
<1>2. /\ v1 = f /\ v7 = f /\ v2 = Config!Live(f) /\ v3 = [o \in Config!Op |-> Config!Idle]
      /\ v4 = Config!NoPoll /\ v5 = {} /\ v8 = {}
      /\ v6 = [provider |-> f.provider, model |-> f.model, prompt |-> 0]
      /\ v9 = [ops |-> 0, edits |-> 0, faults |-> 0, clash |-> FALSE]
    BY DEF Config!InitFrom
<1> HIDE DEF f
<1>3. /\ v3 \in [Config!Op -> OpState] /\ \A o \in Config!Op : v3[o].pc = "idle"
    BY <1>2, Idles
<1>4. /\ v9 \in [ops : Nat, edits : Nat, faults : Nat, clash : BOOLEAN] /\ ~v9.clash
    BY <1>2
<1>5. v6 \in [provider : Providers, model : Config!Model, prompt : {0, 1}]
    BY <1>1, <1>2, FileReads
<1>6. Config!ConfigShapes
    BY <1>1, <1>2, <1>3, <1>4, <1>5, FileReads, Idles DEF Config!ConfigShapes, OpState
<1>7. Config!LocksHold /\ Config!RewritesFit
    BY <1>3 DEF Config!LocksHold, Config!RewritesFit, Config!Locked, Config!Op
<1>8. Config!ShownSurface = Config!Surface(v1)
    BY <1>1, <1>2 DEF Config!ShownSurface, Config!Surface, Config!Choice, Config!Selection
<1>9. Config!ClientsTold
    BY <1>1, <1>2, <1>3, <1>8 DEF Config!ClientsTold, Config!Locked, Config!Op
<1>10. Config!DerivedStands
    BY <1>2, <1>3 DEF Config!DerivedStands, Config!Op
<1>11. Config!SettingsAreKept
    BY <1>1, <1>2 DEF Config!SettingsAreKept
<1>12. QED
    BY <1>6, <1>7, <1>9, <1>10, <1>11 DEF Config!ConfigInv

\* An operation moves on with the file, the default and what was told as they are.
LEMMA OperationMoves ==
    ASSUME Config!ConfigInv, NEW o \in Config!Op, NEW r \in OpState,
           v3' = [v3 EXCEPT ![o] = r], UNCHANGED <<v1, v4, v5, v6, v7, v8>>,
           v2' \in Config!Route, v2' # v2 /\ Config!Calm => v2' = Config!Live(v1),
           v9' \in [ops : Nat, edits : Nat, faults : Nat, clash : BOOLEAN],
           v9'.edits = v9.edits, v9'.faults = v9.faults, v9'.clash = v9.clash,
           v3[o].pc = "idle" => \A x \in Config!Locked : o \in Config!Locked => v3[x].pc = "idle",
           o \in {"prompt", "roster"} => r.pc \in {"checked", "captured"},
           r.pc # "idle", r.pc = "captured" => r.doc = v1 /\ \A x \in Config!Op : v3[x].pc # "captured",
           r.pc \in {"checked", "captured"} /\ o \in {"provider", "model"} /\ ~v9.clash =>
               r.want.model[1] = IF o = "model" THEN Config!Choice(v1) ELSE r.want.provider,
           IF v3[o].pc = "idle" THEN r.before = Config!Surface(v1) /\ r.pc = "checked"
           ELSE r.before = v3[o].before,
           v3[o].pc # "applied",
           r.pc \in {"stored", "spec", "routed", "applied"} => v3[o].pc \in {"stored", "spec", "routed"},
           r.pc \in {"checked", "captured"} => v3[o].pc \in {"idle", "checked", "captured"},
           Config!Calm /\ r.pc \in {"spec", "routed"} => r.got.model = Config!ModelSpec(v1),
           Config!Calm /\ r.pc = "routed" => r.got.provider = Config!Routed(v1)
    PROVE  Config!ConfigInv'
<1>1. Config!ConfigShapes /\ Config!LocksHold /\ Config!RewritesFit /\ Config!ClientsTold
      /\ Config!DerivedStands /\ Config!SettingsAreKept
    BY DEF Config!ConfigInv
<1>2. /\ v3' \in [Config!Op -> OpState] /\ v3'[o] = r
      /\ \A x \in Config!Op \ {o} : v3'[x] = v3[x]
    BY <1>1, OpMoves DEF Config!ConfigShapes, OpState
<1>3. Config!Calm' = Config!Calm
    BY DEF Config!Calm
<1>4. Config!ConfigShapes'
    BY <1>1, <1>2 DEF Config!ConfigShapes, OpState
<1>5. Config!LocksHold'
    BY <1>1, <1>2 DEF Config!LocksHold, Config!Locked, Config!Op
<1>6. Config!RewritesFit'
    BY <1>1, <1>2 DEF Config!RewritesFit, Config!Choice, Config!Op
<1>7. Config!ClientsTold'
    <2>1. Config!ShownSurface' = Config!ShownSurface /\ Config!Surface(v1)' = Config!Surface(v1)
        BY DEF Config!ShownSurface
    <2>2. SUFFICES ASSUME Config!Calm PROVE Config!ClientsTold'
        BY <1>3 DEF Config!ClientsTold
    <2>3. CASE v3[o].pc = "idle"
        BY <1>1, <1>2, <2>1, <2>2, <2>3 DEF Config!ClientsTold, Config!Locked, Config!Op
    <2>4. CASE v3[o].pc # "idle"
        <3>1. \A x \in Config!Locked : v3'[x].pc # "idle" => v3'[x].before = Config!ShownSurface
            BY <1>1, <1>2, <2>2, <2>4 DEF Config!ClientsTold, Config!Locked, Config!Op
        <3>2. (\A x \in Config!Locked : v3'[x].pc \in {"idle", "checked", "captured"})
                  => \A x \in Config!Locked : v3[x].pc \in {"idle", "checked", "captured"}
            BY <1>1, <1>2, <2>4 DEF Config!Locked, Config!Op, Config!ConfigShapes, Config!Pc
        <3>3. QED
            BY <1>1, <1>2, <2>1, <2>2, <3>1, <3>2 DEF Config!ClientsTold, Config!Op
    <2>5. QED
        BY <2>3, <2>4
<1>8. Config!DerivedStands'
    BY <1>1, <1>2, <1>3 DEF Config!DerivedStands, Config!ModelSpec, Config!Routed, Config!Selection,
       Config!Choice, Config!Live, Config!Op
<1>9. Config!SettingsAreKept'
    BY <1>1 DEF Config!SettingsAreKept
<1>10. QED
    BY <1>4, <1>5, <1>6, <1>7, <1>8, <1>9 DEF Config!ConfigInv

LEMMA WishFits ==
    ASSUME NEW f \in Config!File, NEW o \in Config!Op, NEW p \in Providers, NEW n \in {1, 2}
    PROVE  /\ Config!Wish(o, f, p, n) \in Config!File
           /\ o = "provider" => Config!Wish(o, f, p, n).model[1] = Config!Wish(o, f, p, n).provider
           /\ o = "model" => Config!Wish(o, f, p, n).model[1] = p
<1>1. <<p, 1>> \in Config!Model /\ <<p, n>> \in Config!Model
    BY DEF Config!Model
<1>2. CASE o = "provider"
    BY <1>1, <1>2 DEF Config!Wish, Config!File
<1>3. CASE o = "model"
    BY <1>1, <1>3 DEF Config!Wish, Config!File
<1>4. CASE o = "prompt"
    <2>1. 1 - f.prompt \in {0, 1}
        BY DEF Config!File
    <2>2. QED
        BY <1>4, <2>1 DEF Config!Wish, Config!File
<1>5. CASE o = "roster"
    BY <1>5 DEF Config!Wish, Config!File, Config!Instance
<1>6. QED
    BY <1>2, <1>3, <1>4, <1>5 DEF Config!Op

LEMMA BeginKeepsInv ==
    ASSUME Config!ConfigInv, NEW o \in Config!Op, NEW p \in Providers, NEW n \in {1, 2},
           Config!Begin(o, p, n)
    PROVE  Config!ConfigInv'
<1>1. v1 \in Config!File /\ v3[o] \in OpState /\ v2 \in Config!Route
    BY DEF Config!ConfigInv, Config!ConfigShapes, OpState
<1> DEFINE w == Config!Wish(o, v1, p, n)
           s == Config!Surface(v1)
           r == [v3[o] EXCEPT !.pc = "checked", !.want = w, !.before = s]
<1>2. /\ w \in Config!File /\ s \in Config!Route /\ "checked" \in Config!Pc
      /\ o = "provider" => w.model[1] = w.provider
      /\ o = "model" => w.model[1] = p
    BY <1>1, WishFits, FileReads DEF Config!Pc
<1>3. /\ UNCHANGED <<v1, v2, v4, v5, v6, v7, v8>> /\ v3' = [v3 EXCEPT ![o] = r]
      /\ o = "model" => Config!Choice(v1) = p
      /\ v9' = [v9 EXCEPT !.ops = @ + 1]
    BY DEF Config!Begin
<1>4. /\ v3[o].pc = "idle"
      /\ o \in Config!Locked => \A x \in Config!Locked : v3[x].pc = "idle"
    BY DEF Config!Begin, Config!LockFree, Config!Locked, Config!Op
<1>5. v9 \in [ops : Nat, edits : Nat, faults : Nat, clash : BOOLEAN]
    BY DEF Config!ConfigInv, Config!ConfigShapes
<1>6. /\ v9' \in [ops : Nat, edits : Nat, faults : Nat, clash : BOOLEAN]
      /\ v9'.edits = v9.edits /\ v9'.faults = v9.faults /\ v9'.clash = v9.clash
    BY <1>3, <1>5
<1> HIDE DEF w, s
<1>7. r \in OpState /\ r.pc = "checked" /\ r.want = w /\ r.before = s
    BY <1>1, <1>2 DEF OpState
<1> HIDE DEF r
<1>8. s = Config!Surface(v1)
    BY DEF s
<1>9. QED
    BY <1>1, <1>2, <1>3, <1>4, <1>6, <1>7, <1>8, OperationMoves

LEMMA CaptureKeepsInv ==
    ASSUME Config!ConfigInv, NEW o \in Config!Op, Config!Capture(o)
    PROVE  Config!ConfigInv'
<1>1. /\ v1 \in Config!File /\ v3[o] \in OpState /\ v2 \in Config!Route
      /\ v9 \in [ops : Nat, edits : Nat, faults : Nat, clash : BOOLEAN]
    BY DEF Config!ConfigInv, Config!ConfigShapes, OpState
<1> DEFINE r == [v3[o] EXCEPT !.pc = "captured", !.doc = v1]
<1>2. /\ UNCHANGED <<v1, v2, v4, v5, v6, v7, v8, v9>> /\ v3' = [v3 EXCEPT ![o] = r]
      /\ v3[o].pc = "checked" /\ \A x \in Config!Op : v3[x].pc # "captured"
    BY DEF Config!Capture, Config!WriteFree
<1>3. /\ r \in OpState /\ r.pc = "captured" /\ r.doc = v1 /\ r.want = v3[o].want
      /\ r.before = v3[o].before
    BY <1>1 DEF OpState, Config!Pc
<1>4. o \in {"provider", "model"} /\ ~v9.clash =>
          v3[o].want.model[1] = IF o = "model" THEN Config!Choice(v1) ELSE v3[o].want.provider
    BY <1>2 DEF Config!ConfigInv, Config!RewritesFit
<1> HIDE DEF r
<1>5. QED
    BY <1>1, <1>2, <1>3, <1>4, OperationMoves

LEMMA RefreshKeepsInv ==
    ASSUME Config!ConfigInv, NEW o \in Config!Op,
           Config!ReadSpec(o) \/ Config!ReadRoute(o) \/ Config!WriteDefault(o)
    PROVE  Config!ConfigInv'
<1>1. /\ v1 \in Config!File /\ v3[o] \in OpState /\ v2 \in Config!Route
      /\ v9 \in [ops : Nat, edits : Nat, faults : Nat, clash : BOOLEAN]
    BY DEF Config!ConfigInv, Config!ConfigShapes, OpState
<1>2. UNCHANGED <<v1, v4, v5, v6, v7, v8, v9>> /\ v3[o].pc \in {"stored", "spec", "routed"}
    BY DEF Config!ReadSpec, Config!ReadRoute, Config!WriteDefault, Config!Goes
<1>3. o \in {"provider", "model"}
    BY <1>2 DEF Config!ConfigInv, Config!LocksHold, Config!Op
<1>4. /\ Config!Calm /\ v3[o].pc \in {"spec", "routed"} => v3[o].got.model = Config!ModelSpec(v1)
      /\ Config!Calm /\ v3[o].pc = "routed" => v3[o].got.provider = Config!Routed(v1)
    BY <1>3 DEF Config!ConfigInv, Config!DerivedStands
<1>5. CASE Config!ReadSpec(o)
    <2> DEFINE r == [v3[o] EXCEPT !.pc = "spec", !.got.model = Config!ModelSpec(v1)]
    <2>1. v2' = v2 /\ v3' = [v3 EXCEPT ![o] = r]
        BY <1>5 DEF Config!ReadSpec
    <2>2. Config!ModelSpec(v1) \in Config!Model
        BY <1>1, FileReads
    <2>3. [v3[o].got EXCEPT !.model = Config!ModelSpec(v1)] \in Config!Route
        BY <1>1, <2>2 DEF OpState, Config!Route
    <2>4. /\ r \in OpState /\ r.pc = "spec" /\ r.got.model = Config!ModelSpec(v1)
          /\ r.before = v3[o].before
        BY <1>1, <2>3 DEF OpState, Config!Pc, Config!Route
    <2> HIDE DEF r
    <2>5. QED
        BY <1>1, <1>2, <1>3, <2>1, <2>4, OperationMoves
<1>6. CASE Config!ReadRoute(o)
    <2> DEFINE r == [v3[o] EXCEPT !.pc = "routed", !.got.provider = Config!Routed(v1)]
    <2>1. v2' = v2 /\ v3' = [v3 EXCEPT ![o] = r] /\ v3[o].pc = "spec"
        BY <1>6 DEF Config!ReadRoute
    <2>2. Config!Routed(v1) \in Providers
        BY <1>1, FileReads
    <2>3. [v3[o].got EXCEPT !.provider = Config!Routed(v1)] \in Config!Route
        BY <1>1, <2>2 DEF OpState, Config!Route
    <2>4. /\ r \in OpState /\ r.pc = "routed" /\ r.got.provider = Config!Routed(v1)
          /\ r.got.model = v3[o].got.model /\ r.before = v3[o].before
        BY <1>1, <2>3 DEF OpState, Config!Pc, Config!Route
    <2> HIDE DEF r
    <2>5. QED
        BY <1>1, <1>2, <1>3, <1>4, <2>1, <2>4, OperationMoves
<1>7. CASE Config!WriteDefault(o)
    <2> DEFINE r == [v3[o] EXCEPT !.pc = "applied"]
    <2>1. v2' = v3[o].got /\ v3' = [v3 EXCEPT ![o] = r] /\ v3[o].pc = "routed"
        BY <1>7 DEF Config!WriteDefault, Config!Goes
    <2>2. r \in OpState /\ r.pc = "applied" /\ r.before = v3[o].before
        BY <1>1 DEF OpState, Config!Pc
    <2>3. v3[o].got \in Config!Route
        BY <1>1 DEF OpState
    <2>4. Config!Calm => v3[o].got = Config!Live(v1)
        BY <1>4, <2>1, <2>3 DEF Config!Live, Config!Route
    <2> HIDE DEF r
    <2>5. QED
        BY <1>1, <1>2, <1>3, <2>1, <2>2, <2>3, <2>4, OperationMoves
<1>8. QED
    BY <1>5, <1>6, <1>7

\* A rewrite of the file by an operation that read it under the write lock.
LEMMA PersistKeepsInv ==
    ASSUME Config!ConfigInv, NEW o \in Config!Op, Config!Persist(o)
    PROVE  Config!ConfigInv'
<1>1. Config!ConfigShapes /\ Config!LocksHold /\ Config!RewritesFit /\ Config!ClientsTold
      /\ Config!DerivedStands /\ Config!SettingsAreKept
    BY DEF Config!ConfigInv
<1>2. /\ v1 \in Config!File /\ v7 \in Config!File /\ v3 \in [Config!Op -> OpState] /\ v3[o] \in OpState
      /\ v3[o].want \in Config!File /\ v3[o].doc \in Config!File /\ v3[o].before \in Config!Route
      /\ v9 \in [ops : Nat, edits : Nat, faults : Nat, clash : BOOLEAN]
      /\ v9.clash => ~Config!Calm
    BY <1>1 DEF Config!ConfigShapes, OpState, Config!Calm
<1> DEFINE doc == v3[o].doc
           want == v3[o].want
           to == IF o \in {"prompt", "roster"} THEN "applied" ELSE "stored"
           r == [Config!Idle EXCEPT !.before = v3[o].before, !.pc = to]
<1>3. /\ UNCHANGED <<v2, v4, v5, v6, v9>> /\ v3[o].pc = "captured" /\ v3' = [v3 EXCEPT ![o] = r]
      /\ v8' = v8 \cup {v1} /\ v1' = Config!Written(o, doc, want)
      /\ v7' = Config!Written(o, v7, want)
    BY DEF Config!Persist
<1>4. r \in OpState /\ r.pc = to /\ r.before = v3[o].before
    BY <1>2, Idles DEF OpState, Config!Pc
<1> HIDE DEF r
<1>5. /\ v3' \in [Config!Op -> OpState] /\ v3'[o].pc = to /\ v3'[o].before = v3[o].before
      /\ \A x \in Config!Op \ {o} : v3'[x] = v3[x]
    BY <1>2, <1>3, <1>4, OpMoves
<1>6. \A f \in Config!File : Config!Written(o, f, want) \in Config!File
    BY <1>2 DEF Config!Written, Config!File, Config!Op
<1>7. ~v9.clash => doc = v1 /\ v7 = v1
    BY <1>1, <1>3 DEF Config!RewritesFit, Config!SettingsAreKept
<1>8. \A x \in Config!Op \ {o} : v3[x].pc # "captured"
    BY <1>1, <1>3 DEF Config!LocksHold
<1>9. o \in Config!Locked => \A x \in Config!Locked \ {o} : v3[x].pc = "idle"
    BY <1>1, <1>3 DEF Config!LocksHold
<1>10. Config!ConfigShapes'
    <2>1. v1' \in Config!File /\ v7' \in Config!File
        BY <1>2, <1>3, <1>6
    <2>2. QED
        BY <1>1, <1>3, <1>5, <2>1 DEF Config!ConfigShapes, OpState
<1>11. Config!LocksHold'
    BY <1>1, <1>3, <1>5 DEF Config!LocksHold, Config!Locked, Config!Op
<1>12. /\ o = "prompt" /\ ~v9.clash => v1' = [v1 EXCEPT !.prompt = want.prompt]
       /\ o = "provider" /\ ~v9.clash => v1' = [v1 EXCEPT !.provider = want.provider, !.model = want.model]
       /\ o = "model" /\ ~v9.clash => v1' = [v1 EXCEPT !.model = want.model]
       /\ o = "roster" /\ ~v9.clash => v1' = [v1 EXCEPT !.added = want.added]
    BY <1>3, <1>7 DEF Config!Written
<1>13. o = "prompt" /\ ~v9.clash =>
          /\ v1'.provider = v1.provider /\ v1'.model = v1.model /\ v1'.added = v1.added
          /\ Config!Choice(v1') = Config!Choice(v1) /\ Config!Surface(v1') = Config!Surface(v1)
          /\ Config!Routed(v1') = Config!Routed(v1) /\ Config!ModelSpec(v1') = Config!ModelSpec(v1)
    <2>1. want.prompt \in {0, 1}
        BY <1>2 DEF Config!File
    <2>2. QED
        BY <1>2, <1>12, <2>1, PromptApart
<1>14. Config!RewritesFit'
    <2>1. SUFFICES ASSUME ~v9.clash PROVE Config!RewritesFit'
        BY <1>3 DEF Config!RewritesFit
    <2>2. \A x \in Config!Op : v3'[x].pc # "captured"
        BY <1>5, <1>8
    <2>3. \A x \in {"provider", "model"} : v3'[x].pc \in {"checked", "captured"} =>
             x # o /\ o = "prompt" /\ v3[x].pc \in {"checked", "captured"} /\ v3'[x] = v3[x]
        BY <1>5, <1>9 DEF Config!Locked, Config!Op
    <2>4. QED
        BY <1>1, <1>13, <2>1, <2>2, <2>3 DEF Config!RewritesFit
<1>15. Config!Calm' = Config!Calm /\ (Config!Calm => ~v9.clash)
       /\ Config!ShownSurface' = Config!ShownSurface
    BY <1>2, <1>3 DEF Config!Calm, Config!ShownSurface
<1>16. Config!ClientsTold'
    <2>1. SUFFICES ASSUME Config!Calm, ~v9.clash PROVE Config!ClientsTold'
        BY <1>15 DEF Config!ClientsTold
    <2>2. \A x \in Config!Locked : v3'[x].pc # "idle" => v3'[x].before = Config!ShownSurface'
        BY <1>1, <1>3, <1>5, <1>15, <2>1 DEF Config!ClientsTold, Config!Locked, Config!Op
    <2>3. (\A x \in Config!Locked : v3'[x].pc \in {"idle", "checked", "captured"})
              => Config!ShownSurface' = Config!Surface(v1')
        BY <1>1, <1>3, <1>5, <1>13, <1>15, <2>1 DEF Config!ClientsTold, Config!Locked, Config!Op
    <2>4. v3'["prompt"].pc # "applied" => v6'.prompt = v1'.prompt
        <3>1. CASE o = "prompt"
            BY <1>5, <3>1
        <3>2. CASE o # "prompt"
            <4>1. v1'.prompt = v1.prompt
                BY <1>2, <1>12, <2>1, <3>2 DEF Config!File, Config!Op
            <4>2. v3'["prompt"] = v3["prompt"]
                BY <1>5, <3>2 DEF Config!Op
            <4>3. QED
                BY <1>1, <1>3, <2>1, <4>1, <4>2 DEF Config!ClientsTold
        <3>3. QED
            BY <3>1, <3>2
    <2>5. QED
        BY <2>2, <2>3, <2>4 DEF Config!ClientsTold
<1>17. Config!DerivedStands'
    <2>1. SUFFICES ASSUME Config!Calm, ~v9.clash PROVE Config!DerivedStands'
        BY <1>15 DEF Config!DerivedStands
    <2>2. \A x \in {"provider", "model"} : v3'[x].pc \in {"spec", "routed"} =>
             x # o /\ o = "prompt" /\ v3'[x] = v3[x]
        BY <1>5, <1>9 DEF Config!Locked, Config!Op
    <2>3. ~(v5' = {v1'} /\ v1' \notin v8')
        BY <1>1, <1>3 DEF Config!ConfigShapes
    <2>4. QED
        BY <1>1, <1>13, <2>1, <2>2, <2>3 DEF Config!DerivedStands
<1>18. Config!SettingsAreKept'
    <2>1. SUFFICES ASSUME ~v9.clash PROVE Config!SettingsAreKept'
        BY <1>3 DEF Config!SettingsAreKept
    <2>2. v1' = v7'
        BY <1>3, <1>7, <2>1
    <2>3. ASSUME \A f \in v8' \cup {v1'} : f.added # "absent"
          PROVE  v1'.model[1] = v1'.provider
        <3>1. v1.added # "absent" /\ v1.model[1] = v1.provider
            BY <1>1, <1>3, <2>1, <2>3 DEF Config!SettingsAreKept
        <3>2. CASE o = "provider"
            <4>1. want.model[1] = want.provider
                BY <1>1, <1>3, <2>1, <3>2 DEF Config!RewritesFit
            <4>2. QED
                BY <1>2, <1>12, <2>1, <3>2, <4>1 DEF Config!File
        <3>3. CASE o = "model"
            <4>1. want.model[1] = v1.provider
                BY <1>1, <1>3, <2>1, <3>1, <3>3 DEF Config!RewritesFit, Config!Choice
            <4>2. QED
                BY <1>2, <1>12, <2>1, <3>3, <4>1 DEF Config!File
        <3>4. CASE o \in {"prompt", "roster"}
            BY <1>2, <1>12, <2>1, <3>1, <3>4 DEF Config!File
        <3>5. QED
            BY <3>2, <3>3, <3>4 DEF Config!Op
    <2>4. QED
        BY <1>3, <2>2, <2>3 DEF Config!SettingsAreKept
<1>19. QED
    BY <1>10, <1>11, <1>14, <1>16, <1>17, <1>18 DEF Config!ConfigInv

\* The lock is given back: by the broadcast, or by a failure.
LEMMA BroadcastKeepsInv ==
    ASSUME Config!ConfigInv, NEW o \in Config!Op, Config!Broadcast(o) \/ Config!WriteDefaultFails(o)
    PROVE  Config!ConfigInv'
<1>1. Config!ConfigShapes /\ Config!LocksHold /\ Config!RewritesFit /\ Config!ClientsTold
      /\ Config!DerivedStands /\ Config!SettingsAreKept
    BY DEF Config!ConfigInv
<1>2. /\ v1 \in Config!File /\ v3 \in [Config!Op -> OpState]
      /\ v6 \in [provider : Providers, model : Config!Model, prompt : {0, 1}]
      /\ v9 \in [ops : Nat, edits : Nat, faults : Nat, clash : BOOLEAN]
    BY <1>1 DEF Config!ConfigShapes, OpState
<1>3. /\ UNCHANGED <<v1, v2, v4, v5, v7, v8>> /\ v3' = [v3 EXCEPT ![o] = Config!Idle]
      /\ v3[o].pc \in {"applied", "routed"}
    BY DEF Config!Broadcast, Config!WriteDefaultFails
<1>4. /\ v3' \in [Config!Op -> OpState] /\ v3'[o].pc = "idle"
      /\ \A x \in Config!Op \ {o} : v3'[x] = v3[x]
    BY <1>2, <1>3, Idles, OpMoves
<1>5. /\ v9' \in [ops : Nat, edits : Nat, faults : Nat, clash : BOOLEAN]
      /\ v9'.clash = v9.clash /\ v9'.edits = v9.edits
      /\ v9' = v9 \/ v9'.faults = v9.faults + 1
    BY <1>2 DEF Config!Broadcast, Config!WriteDefaultFails, Config!Fault
<1>6. /\ Config!Calm' => Config!Calm /\ Config!Broadcast(o) /\ v9' = v9
    BY <1>2, <1>5 DEF Config!Calm, Config!WriteDefaultFails, Config!Fault
<1>7. /\ v6' \in [provider : Providers, model : Config!Model, prompt : {0, 1}]
      /\ Config!Broadcast(o) /\ o = "prompt" => v6'.prompt = v1.prompt
            /\ v6'.provider = v6.provider /\ v6'.model = v6.model
      /\ Config!Broadcast(o) /\ o # "prompt" => v6'.prompt = v6.prompt
            /\ IF Config!Surface(v1) = v3[o].before THEN v6' = v6
               ELSE v6'.provider = Config!Choice(v1) /\ v6'.model = Config!Selection(v1)
    <2>1. v6' = v6 \/ v6' = [v6 EXCEPT !.prompt = v1.prompt]
          \/ v6' = [v6 EXCEPT !.provider = Config!Choice(v1), !.model = Config!Selection(v1)]
        BY DEF Config!Broadcast, Config!WriteDefaultFails
    <2>2. v6' \in [provider : Providers, model : Config!Model, prompt : {0, 1}]
        BY <1>2, <2>1, FileReads
    <2>3. Config!Broadcast(o) /\ o = "prompt" => v6' = [v6 EXCEPT !.prompt = v1.prompt]
        BY DEF Config!Broadcast
    <2>4. Config!Broadcast(o) /\ o # "prompt" =>
             v6' = IF Config!Surface(v1) = v3[o].before THEN v6
                   ELSE [v6 EXCEPT !.provider = Config!Choice(v1), !.model = Config!Selection(v1)]
        BY DEF Config!Broadcast
    <2>5. QED
        BY <1>2, <2>2, <2>3, <2>4
<1>8. Config!ConfigShapes'
    BY <1>1, <1>3, <1>4, <1>5, <1>7 DEF Config!ConfigShapes, OpState
<1>9. Config!LocksHold' /\ Config!RewritesFit'
    BY <1>1, <1>3, <1>4, <1>5 DEF Config!LocksHold, Config!RewritesFit, Config!Locked, Config!Op
<1>10. Config!ClientsTold'
    <2>1. SUFFICES ASSUME Config!Calm, Config!Broadcast(o) PROVE Config!ClientsTold'
        BY <1>6 DEF Config!ClientsTold
    <2>2. v3[o].pc = "applied"
        BY <2>1 DEF Config!Broadcast
    <2>3. CASE o = "prompt"
        <3>1. Config!ShownSurface' = Config!ShownSurface
            BY <1>7, <2>1, <2>3 DEF Config!ShownSurface
        <3>2. \A x \in Config!Locked : v3'[x] = v3[x]
            BY <1>4, <2>3 DEF Config!Locked, Config!Op
        <3>3. QED
            BY <1>1, <1>3, <1>7, <2>1, <2>3, <3>1, <3>2 DEF Config!ClientsTold
    <2>4. CASE o # "prompt"
        <3>1. o \in Config!Locked /\ \A x \in Config!Locked : v3'[x].pc = "idle"
            BY <1>1, <1>4, <2>2, <2>4 DEF Config!LocksHold, Config!Locked, Config!Op
        <3>2. v3[o].before = Config!ShownSurface
            BY <1>1, <2>1, <2>2, <3>1 DEF Config!ClientsTold
        <3>3. Config!ShownSurface' = Config!Surface(v1)
            BY <1>7, <2>1, <2>4, <3>2 DEF Config!ShownSurface, Config!Surface
        <3>4. v3'["prompt"] = v3["prompt"] /\ v6'.prompt = v6.prompt
            BY <1>4, <1>7, <2>1, <2>4 DEF Config!Op
        <3>5. QED
            BY <1>1, <1>3, <2>1, <3>1, <3>3, <3>4 DEF Config!ClientsTold
    <2>5. QED
        BY <2>3, <2>4
<1>11. Config!DerivedStands'
    BY <1>1, <1>3, <1>4, <1>6 DEF Config!DerivedStands, Config!Op
<1>12. Config!SettingsAreKept'
    BY <1>1, <1>3, <1>5 DEF Config!SettingsAreKept
<1>13. QED
    BY <1>8, <1>9, <1>10, <1>11, <1>12 DEF Config!ConfigInv

\* The poll; what it derives stands as long as the file is the one it saw.
LEMMA PollKeepsInv ==
    ASSUME Config!ConfigInv,
           Config!PollStart \/ Config!PollSpec \/ Config!PollRoute \/ Config!PollWrite \/ Config!PollFails
    PROVE  Config!ConfigInv'
<1>1. Config!ConfigShapes /\ Config!LocksHold /\ Config!RewritesFit /\ Config!ClientsTold
      /\ Config!DerivedStands /\ Config!SettingsAreKept
    BY DEF Config!ConfigInv
<1>2. /\ v1 \in Config!File /\ v4 \in [pc : Config!Pc, got : Config!Route]
      /\ v9 \in [ops : Nat, edits : Nat, faults : Nat, clash : BOOLEAN]
    BY <1>1 DEF Config!ConfigShapes
<1>3. /\ UNCHANGED <<v1, v3, v6, v7, v8>>
      /\ v9' = v9 \/ (Config!PollFails /\ v9' = [v9 EXCEPT !.faults = @ + 1])
    BY DEF Config!PollStart, Config!PollSpec, Config!PollRoute, Config!PollWrite, Config!PollFails,
           Config!Fault
<1>4. /\ v9' \in [ops : Nat, edits : Nat, faults : Nat, clash : BOOLEAN]
      /\ v9'.clash = v9.clash /\ v9'.edits = v9.edits
      /\ Config!Calm' => Config!Calm /\ v9' = v9
    BY <1>2, <1>3 DEF Config!Calm
<1>5. Config!LocksHold' /\ Config!RewritesFit' /\ Config!SettingsAreKept'
    BY <1>1, <1>3, <1>4 DEF Config!LocksHold, Config!RewritesFit, Config!SettingsAreKept
<1>6. Config!ClientsTold'
    BY <1>1, <1>3, <1>4 DEF Config!ClientsTold, Config!ShownSurface
<1>7. Config!ModelSpec(v1) \in Config!Model /\ Config!Routed(v1) \in Providers
    BY <1>2, FileReads
<1>8. Config!Calm' => \A o \in {"provider", "model"} :
          /\ v3'[o].pc \in {"spec", "routed"} => v3'[o].got.model = Config!ModelSpec(v1')
          /\ v3'[o].pc = "routed" => v3'[o].got.provider = Config!Routed(v1')
    BY <1>1, <1>3, <1>4 DEF Config!DerivedStands
<1>9. CASE Config!PollStart
    <2>1. v4' = [v4 EXCEPT !.pc = "stored"] /\ v5' = {v1} /\ v2' = v2
        BY <1>9 DEF Config!PollStart
    <2>2. v4' \in [pc : Config!Pc, got : Config!Route] /\ v4'.pc = "stored"
        BY <1>2, <2>1 DEF Config!Pc
    <2>3. Config!ConfigShapes'
        BY <1>1, <1>3, <1>4, <2>1, <2>2 DEF Config!ConfigShapes
    <2>4. Config!DerivedStands'
        BY <1>8, <2>2 DEF Config!DerivedStands
    <2>5. QED
        BY <1>5, <1>6, <2>3, <2>4 DEF Config!ConfigInv
<1>10. CASE Config!PollSpec
    <2>1. v4' = [v4 EXCEPT !.pc = "spec", !.got.model = Config!ModelSpec(v1)] /\ v5' = v5 /\ v2' = v2
        BY <1>10 DEF Config!PollSpec
    <2>2. [v4.got EXCEPT !.model = Config!ModelSpec(v1)] \in Config!Route
        BY <1>2, <1>7 DEF Config!Route
    <2>3. /\ v4' \in [pc : Config!Pc, got : Config!Route] /\ v4'.pc = "spec"
          /\ v4'.got.model = Config!ModelSpec(v1)
        BY <1>2, <2>1, <2>2 DEF Config!Pc, Config!Route
    <2>4. Config!ConfigShapes'
        BY <1>1, <1>3, <1>4, <2>1, <2>3 DEF Config!ConfigShapes
    <2>5. Config!DerivedStands'
        BY <1>3, <1>8, <2>3 DEF Config!DerivedStands
    <2>6. QED
        BY <1>5, <1>6, <2>4, <2>5 DEF Config!ConfigInv
<1>11. CASE Config!PollRoute
    <2>1. v4' = [v4 EXCEPT !.pc = "routed", !.got.provider = Config!Routed(v1)] /\ v5' = v5 /\ v2' = v2
          /\ v4.pc = "spec"
        BY <1>11 DEF Config!PollRoute
    <2>2. [v4.got EXCEPT !.provider = Config!Routed(v1)] \in Config!Route
        BY <1>2, <1>7 DEF Config!Route
    <2>3. /\ v4' \in [pc : Config!Pc, got : Config!Route] /\ v4'.pc = "routed"
          /\ v4'.got.provider = Config!Routed(v1) /\ v4'.got.model = v4.got.model
        BY <1>2, <2>1, <2>2 DEF Config!Pc, Config!Route
    <2>4. Config!ConfigShapes'
        BY <1>1, <1>3, <1>4, <2>1, <2>3 DEF Config!ConfigShapes
    <2>5. Config!DerivedStands'
        BY <1>1, <1>3, <1>4, <1>8, <2>1, <2>3 DEF Config!DerivedStands
    <2>6. QED
        BY <1>5, <1>6, <2>4, <2>5 DEF Config!ConfigInv
<1>12. CASE Config!PollWrite
    <2>1. v4' = Config!NoPoll /\ v2' = v4.got /\ v5' = v5 /\ v4.pc = "routed" /\ v9' = v9
        BY <1>12 DEF Config!PollWrite, Config!Seen
    <2>2. v4.got \in Config!Route
        BY <1>2
    <2>3. Config!ConfigShapes'
        BY <1>1, <1>3, <1>4, <2>1, <2>2, Idles DEF Config!ConfigShapes
    <2>4. v4.got.model = Config!ModelSpec(v1) /\ v4.got.provider = Config!Routed(v1) =>
              v4.got = Config!Live(v1)
        BY <2>2 DEF Config!Live, Config!Route
    <2>5. Config!DerivedStands'
        BY <1>1, <1>3, <1>4, <1>8, <2>1, <2>4, Idles DEF Config!DerivedStands
    <2>6. QED
        BY <1>5, <1>6, <2>3, <2>5 DEF Config!ConfigInv
<1>13. CASE Config!PollFails
    <2>1. v4' = Config!NoPoll /\ UNCHANGED <<v2, v5>> /\ v9' = [v9 EXCEPT !.faults = @ + 1]
        BY <1>13 DEF Config!PollFails, Config!Fault
    <2>2. Config!ConfigShapes'
        BY <1>1, <1>3, <1>4, <2>1, Idles DEF Config!ConfigShapes
    <2>3. ~Config!Calm'
        BY <1>2, <2>1 DEF Config!Calm
    <2>4. Config!DerivedStands'
        BY <2>3 DEF Config!DerivedStands
    <2>5. QED
        BY <1>5, <1>6, <2>2, <2>4 DEF Config!ConfigInv
<1>14. QED
    BY <1>9, <1>10, <1>11, <1>12, <1>13

LEMMA CountsMove ==
    ASSUME NEW B, NEW n \in [ops : Nat, edits : Nat, faults : Nat, clash : B], NEW clash \in B
    PROVE  LET m == [n EXCEPT !.edits = @ + 1, !.clash = clash] IN
           /\ m \in [ops : Nat, edits : Nat, faults : Nat, clash : B]
           /\ m.edits = n.edits + 1 /\ m.clash = clash
<1> DEFINE m == [n EXCEPT !.edits = n.edits + 1, !.clash = clash]
<1>1. n.edits + 1 \in Nat /\ n.ops \in Nat /\ n.faults \in Nat
    OBVIOUS
<1>2. m.edits = n.edits + 1
    OBVIOUS
<1>3. m.clash = clash
    OBVIOUS
<1>4. m \in [ops : Nat, edits : Nat, faults : Nat, clash : B]
    BY <1>1
<1>5. QED
    BY <1>2, <1>3, <1>4

\* An edit by hand in the middle of a rewrite is a clash, elsewhere it is kept.
LEMMA HandEditKeepsInv ==
    ASSUME Config!ConfigInv, NEW p \in Providers, Config!HandEdit(p)
    PROVE  Config!ConfigInv'
<1>1. Config!ConfigShapes /\ Config!LocksHold /\ Config!RewritesFit /\ Config!ClientsTold
      /\ Config!DerivedStands /\ Config!SettingsAreKept
    BY DEF Config!ConfigInv
<1>2. /\ v1 \in Config!File /\ v7 \in Config!File /\ <<p, 1>> \in Config!Model
      /\ v9 \in [ops : Nat, edits : Nat, faults : Nat, clash : BOOLEAN]
    BY <1>1 DEF Config!ConfigShapes, Config!Model
<1> DEFINE at == \E o \in Config!Op : v3[o].pc \in {"checked", "captured"}
<1>3. /\ UNCHANGED <<v2, v3, v4, v5, v6>> /\ v8' = v8 \cup {v1}
      /\ v1' = [v1 EXCEPT !.provider = p, !.model = <<p, 1>>]
      /\ v7' = [v7 EXCEPT !.provider = p, !.model = <<p, 1>>]
      /\ v9' = [v9 EXCEPT !.edits = @ + 1, !.clash = @ \/ at]
    BY DEF Config!HandEdit
<1>4. at \in BOOLEAN
    OBVIOUS
<1> HIDE DEF at
<1>5. PICK clash \in BOOLEAN : clash = (v9.clash \/ at)
    BY <1>2, <1>4
<1>6. /\ v9' \in [ops : Nat, edits : Nat, faults : Nat, clash : BOOLEAN]
      /\ v9'.edits = v9.edits + 1 /\ (v9'.clash <=> v9.clash \/ at)
    <2>1. v9' = [v9 EXCEPT !.edits = @ + 1, !.clash = clash]
        BY <1>3, <1>5
    <2>2. QED
        BY <1>2, <1>5, <2>1, CountsMove
<1>7. ~Config!Calm'
    BY <1>2, <1>6 DEF Config!Calm
<1>8. /\ v1' \in Config!File /\ v7' \in Config!File /\ v1'.model[1] = v1'.provider
    BY <1>2, <1>3 DEF Config!File
<1>9. v9'.clash => v9'.edits > 0
    BY <1>2, <1>6
<1>10. Config!ConfigShapes'
    BY <1>1, <1>3, <1>6, <1>8, <1>9 DEF Config!ConfigShapes
<1>11. Config!LocksHold'
    BY <1>1, <1>3 DEF Config!LocksHold
<1>12. Config!RewritesFit'
    BY <1>3, <1>6 DEF Config!RewritesFit, Config!Op, at
<1>13. Config!SettingsAreKept'
    BY <1>1, <1>3, <1>6, <1>8 DEF Config!SettingsAreKept
<1>14. QED
    BY <1>7, <1>10, <1>11, <1>12, <1>13
       DEF Config!ConfigInv, Config!ClientsTold, Config!DerivedStands

LEMMA ConfigNextKeepsInv ==
    ASSUME Config!ConfigInv, Config!Next
    PROVE  Config!ConfigInv'
<1>1. ASSUME NEW o \in Config!Op, Config!OpStep(o)
      PROVE  Config!ConfigInv'
    BY <1>1, BeginKeepsInv, CaptureKeepsInv, PersistKeepsInv, RefreshKeepsInv, BroadcastKeepsInv
       DEF Config!OpStep
<1>2. QED
    BY <1>1, PollKeepsInv, HandEditKeepsInv DEF Config!Next

\* A settled host has no operation, so its clients were told and the default stands.
LEMMA ConfigInvImpliesStands == Config!ConfigInv => Config!SettingsStand
<1> SUFFICES ASSUME Config!ConfigInv PROVE Config!SettingsStand
    OBVIOUS
<1>1. Config!ClientsTold /\ Config!DerivedStands /\ Config!SettingsAreKept
    BY DEF Config!ConfigInv
<1>2. Config!SettledIsCurrent
    <2>1. SUFFICES ASSUME Config!Quiet, Config!Calm
                   PROVE  /\ Config!ShownSurface = Config!Surface(v1)
                          /\ v6.prompt = v1.prompt
                          /\ v1 \notin v8 => v2 = Config!Live(v1)
        BY DEF Config!SettledIsCurrent, Config!Calm, Config!ShownSurface
    <2>2. QED
        BY <1>1, <2>1 DEF Config!Quiet, Config!ClientsTold, Config!DerivedStands, Config!Locked,
           Config!Op
<1>3. QED
    BY <1>1, <1>2 DEF Config!SettingsStand

-----------------------------------------------------------------------------
(* The tool bridge                                                         *)

LEMMA BridgeCardinality == ASSUME NEW S PROVE Bridge!Cardinality(S) = Cardinality(S)
BY DEF Bridge!Cardinality, Cardinality

LEMMA AtMostOne ==
    ASSUME NEW S, \A m, n \in S : m = n
    PROVE  Cardinality(S) <= 1
<1>1. CASE S = {}
    BY <1>1, FS_EmptySet
<1>2. CASE S # {}
    <2>1. PICK m \in S : S = {m}
        BY <1>2
    <2>2. QED
        BY <2>1, FS_Singleton
<1>3. QED
    BY <1>1, <1>2

LEMMA BridgeInitInv == Bridge!Init => Bridge!BridgeInv
<1> SUFFICES ASSUME Bridge!Init PROVE Bridge!BridgeInv
    OBVIOUS
<1> USE DEF Bridge!Init
<1>1. v7 \in Seq([key : Bridge!Key, at : Bridge!Where]) /\ DOMAIN v7 = {}
    OBVIOUS
<1>2. v12 \in Seq(Bridge!Event) /\ DOMAIN v12 = {}
    OBVIOUS
<1>3. \A k \in Bridge!Key : Bridge!Starts(k) = {} /\ Bridge!Ends(k) = {}
    BY <1>2 DEF Bridge!Starts, Bridge!Ends
<1>4. Bridge!BridgeShapes
    BY <1>1, <1>2 DEF Bridge!BridgeShapes, Bridge!Bridge
<1>5. Bridge!OneHandler /\ Bridge!StartedOnce /\ Bridge!EndedOnce /\ Bridge!LossIsKnown
    BY <1>1, <1>3 DEF Bridge!OneHandler, Bridge!StartedOnce, Bridge!EndedOnce, Bridge!LossIsKnown,
                      Bridge!Working
<1>6. QED
    BY <1>4, <1>5 DEF Bridge!BridgeInv

LEMMA Connections ==
    ASSUME Bridge!BridgeShapes
    PROVE  /\ v7 \in Seq([key : Bridge!Key, at : Bridge!Where])
           /\ Len(v7) \in Nat /\ DOMAIN v7 = 1 .. Len(v7)
           /\ \A i \in DOMAIN v7 : /\ v7[i] \in [key : Bridge!Key, at : Bridge!Where]
                                   /\ Bridge!KeyOf(i) \in Bridge!Key
<1> DEFINE Place == [key : Bridge!Key, at : Bridge!Where]
<1>1. v7 \in Seq(Place)
    BY DEF Bridge!BridgeShapes
<1>2. /\ Len(v7) \in Nat /\ DOMAIN v7 = 1 .. Len(v7)
      /\ \A i \in DOMAIN v7 : v7[i] \in Place
    <2> HIDE DEF Place
    <2>1. QED
        BY <1>1, SeqElements
<1>3. QED
    BY <1>1, <1>2 DEF Bridge!KeyOf

\* What a step of one handler does to the list of the connections.
LEMMA HandlerMoves ==
    ASSUME Bridge!BridgeShapes, NEW i \in DOMAIN v7, NEW place \in Bridge!Where,
           Bridge!Goes(i, place)
    PROVE  /\ v7' \in Seq([key : Bridge!Key, at : Bridge!Where]) /\ DOMAIN v7' = DOMAIN v7
           /\ v7'[i].at = place
           /\ \A j \in DOMAIN v7 : v7'[j].key = v7[j].key
           /\ \A j \in DOMAIN v7 \ {i} : v7'[j] = v7[j]
           /\ \A j \in DOMAIN v7 : v7[j].key \in Bridge!Key
<1> DEFINE Place == [key : Bridge!Key, at : Bridge!Where]
<1>1. /\ v7 \in Seq(Place) /\ Len(v7) \in Nat /\ DOMAIN v7 = 1 .. Len(v7)
      /\ \A j \in DOMAIN v7 : v7[j] \in Place
    BY Connections
<1>2. [v7[i] EXCEPT !.at = place] \in Place /\ v7' = [v7 EXCEPT ![i] = [v7[i] EXCEPT !.at = place]]
    BY <1>1 DEF Bridge!Goes
<1>3. /\ v7' \in Seq(Place) /\ Len(v7') = Len(v7) /\ v7'[i] = [v7[i] EXCEPT !.at = place]
      /\ \A j \in 1 .. Len(v7) : j # i => v7'[j] = v7[j]
    <2> HIDE DEF Place
    <2>1. QED
        BY <1>1, <1>2, SeqReplace
<1>4. DOMAIN v7' = DOMAIN v7
    BY <1>1, <1>3
<1>5. QED
    BY <1>1, <1>3, <1>4

\* An event is appended to the timeline.
LEMMA TableGrows ==
    ASSUME Bridge!BridgeShapes, NEW e \in Bridge!Event, v12' = Append(v12, e)
    PROVE  /\ v12' \in Seq(Bridge!Event)
           /\ \A n \in DOMAIN v12 : v12'[n] = v12[n] /\ n < Len(v12) + 1
           /\ v12'[Len(v12) + 1] = e
           /\ \A k \in Bridge!Key :
                 /\ Bridge!Starts(k)' = Bridge!Starts(k) \cup
                       (IF e = <<"start", k>> THEN {Len(v12) + 1} ELSE {})
                 /\ Bridge!Ends(k)' = Bridge!Ends(k) \cup
                       (IF e \in {<<"done", k>>, <<"interrupted", k>>} THEN {Len(v12) + 1} ELSE {})
<1>1. v12 \in Seq(Bridge!Event)
    BY DEF Bridge!BridgeShapes
<1>2. /\ v12' \in Seq(Bridge!Event) /\ v12'[Len(v12) + 1] = e
      /\ \A n \in DOMAIN v12 : v12'[n] = v12[n] /\ n < Len(v12) + 1
      /\ DOMAIN v12' = DOMAIN v12 \cup {Len(v12) + 1}
    <2> HIDE DEF Bridge!Event
    <2>1. QED
        BY <1>1
<1>3. QED
    BY <1>2 DEF Bridge!Starts, Bridge!Ends

\* The timeline as it was.
LEMMA TableRests ==
    ASSUME Bridge!BridgeShapes, v12' = v12
    PROVE  /\ v12' \in Seq(Bridge!Event)
           /\ \A k \in Bridge!Key : Bridge!Starts(k)' = Bridge!Starts(k) /\ Bridge!Ends(k)' = Bridge!Ends(k)
BY DEF Bridge!BridgeShapes, Bridge!Starts, Bridge!Ends

\* What a failed write leaves behind.
LEMMA WriteFailsIsKnown ==
    ASSUME Bridge!BridgeInv, Bridge!WriteFails
    PROVE  Bridge!LossIsKnown' /\ v17' \in Nat /\ v12' = v12
BY DEF Bridge!BridgeInv, Bridge!BridgeShapes, Bridge!WriteFails, Bridge!FailTurn,
       Bridge!LossIsKnown, Bridge!timeline

\* Nothing starts or takes effect: what has started stays so.
LEMMA StartedStays ==
    ASSUME Bridge!BridgeShapes, Bridge!StartedOnce, v15' = v15, v10 \subseteq v10', \A b \in Bridge!Bridge : v8 = {b} => v8' = {b},
           \A k \in Bridge!Key : Bridge!Starts(k)' = Bridge!Starts(k),
           Bridge!Quiet => Bridge!Quiet',
           \A i \in Bridge!Working :
              \/ Bridge!Quiet' \/ Bridge!KeyOf(i) \in v10'
              \/ i \in Bridge!Working' /\ Bridge!KeyOf(i)' = Bridge!KeyOf(i)
                 /\ (v7[i].at # "started" => v7'[i].at # "started")
    PROVE  Bridge!StartedOnce'
<1>1. ASSUME NEW k \in Bridge!Key, Bridge!Starts(k) # {}
      PROVE  k \in v10' \/ Bridge!Quiet' \/ \E i \in Bridge!Working' : Bridge!KeyOf(i)' = k
    BY <1>1 DEF Bridge!StartedOnce
<1>2. ASSUME NEW c \in CallIds, v15[c] > 0
      PROVE  \E b \in Bridge!Bridge :
                /\ v8' = {b}
                /\ \/ <<b, c>> \in v10' \/ Bridge!Quiet'
                   \/ \E i \in Bridge!Working' : Bridge!KeyOf(i)' = <<b, c>> /\ v7'[i].at # "started"
    <2>1. PICK b \in Bridge!Bridge :
              /\ v8 = {b}
              /\ \/ <<b, c>> \in v10 \/ Bridge!Quiet
                 \/ \E i \in Bridge!Working : Bridge!KeyOf(i) = <<b, c>> /\ v7[i].at # "started"
        BY <1>2 DEF Bridge!StartedOnce
    <2>2. v8' = {b}
        BY <2>1
    <2>3. CASE \E i \in Bridge!Working : Bridge!KeyOf(i) = <<b, c>> /\ v7[i].at # "started"
        <3>1. PICK i \in Bridge!Working : Bridge!KeyOf(i) = <<b, c>> /\ v7[i].at # "started"
            BY <2>3
        <3>2. QED
            BY <2>2, <3>1
    <2>4. QED
        BY <2>1, <2>2, <2>3
<1>3. \A c \in CallIds : v15'[c] <= 1
    BY DEF Bridge!StartedOnce
<1>4. QED
    BY <1>1, <1>2, <1>3 DEF Bridge!StartedOnce

\* A step of the turn or of the driver: no handler moves.
LEMMA HandlersRest ==
    ASSUME Bridge!BridgeInv, UNCHANGED <<v7, v8, v9, v10, v11, v15, v16>>,
           v12' \in Seq(Bridge!Event),
           \A n \in DOMAIN v12 : v12'[n] = v12[n],
           \A k \in Bridge!Key : Bridge!Starts(k)' = Bridge!Starts(k) /\ Bridge!Ends(k)' = Bridge!Ends(k),
           v6' \in [inst : Bridge!Bridge, tries : 0 .. 2, of : Nat], v6'.tries > 0 => v6'.of \in DOMAIN v7,
           v5 # "open" => v5' # "open", v5' = "closed" => Bridge!AllGone,
           v17' \in Nat, Bridge!LossIsKnown'
    PROVE  Bridge!BridgeInv'
<1> USE DEF Bridge!BridgeInv
<1>1. Bridge!BridgeShapes'
    BY DEF Bridge!BridgeShapes
<1>2. Bridge!Working' = Bridge!Working /\ (Bridge!AllGone' <=> Bridge!AllGone)
      /\ (Bridge!Quiet => Bridge!Quiet')
    BY DEF Bridge!Working, Bridge!AllGone, Bridge!Quiet
<1>3. \A i \in DOMAIN v7 : Bridge!KeyOf(i)' = Bridge!KeyOf(i)
    BY DEF Bridge!KeyOf
<1>4. \A i \in Bridge!Working : i \in DOMAIN v7 /\ Bridge!KeyOf(i) \in Bridge!Key
    BY Connections DEF Bridge!Working
<1>5. Bridge!OneHandler'
    BY <1>2, <1>3, <1>4 DEF Bridge!OneHandler
<1>6. Bridge!StartedOnce'
    BY <1>2, <1>3, <1>4, StartedStays
<1>7. Bridge!EndedOnce'
    <2>1. \A k \in Bridge!Key : \A n \in Bridge!Ends(k) : v12'[n] = v12[n]
        BY DEF Bridge!Ends
    <2>2. QED
        BY <1>2, <2>1 DEF Bridge!EndedOnce
<1>8. QED
    BY <1>1, <1>5, <1>6, <1>7

LEMMA TurnKeepsInv ==
    ASSUME Bridge!BridgeInv,
           Bridge!Say \/ Bridge!Expose \/ Bridge!Stop \/ Bridge!Finish \/ Bridge!Closed
           \/ Bridge!Complete \/ Bridge!RestartStdio \/ Bridge!Answered
    PROVE  Bridge!BridgeInv'
<1> USE DEF Bridge!agent, Bridge!calls, Bridge!timeline, Bridge!turns, Bridge!ghosts
<1>0. /\ Bridge!BridgeShapes /\ Bridge!LossIsKnown /\ Bridge!OneHandler
      /\ v6 \in [inst : Bridge!Bridge, tries : 0 .. 2, of : Nat] /\ (v6.tries > 0 => v6.of \in DOMAIN v7) /\ v17 \in Nat
    BY DEF Bridge!BridgeInv, Bridge!BridgeShapes
<1>1. CASE Bridge!Say
    <2>0. UNCHANGED <<v6, v7, v8, v9, v10, v11, v15, v16>> /\ v5 = "open"
        BY <1>1 DEF Bridge!Say
    <2>1. CASE /\ v12' = Append(v12, <<"text", 0>>) /\ UNCHANGED <<v1, v4, v5, v17>>
        <3>1. <<"text", 0>> \in Bridge!Event
            BY DEF Bridge!Event
        <3>2. /\ v12' \in Seq(Bridge!Event) /\ \A n \in DOMAIN v12 : v12'[n] = v12[n]
              /\ \A k \in Bridge!Key : Bridge!Starts(k)' = Bridge!Starts(k) /\ Bridge!Ends(k)' = Bridge!Ends(k)
            BY <1>0, <2>1, <3>1, TableGrows
        <3>3. Bridge!LossIsKnown'
            BY <1>0, <2>1 DEF Bridge!LossIsKnown
        <3>4. QED
            BY <1>0, <2>0, <2>1, <3>2, <3>3, HandlersRest
    <2>2. CASE Bridge!WriteFails /\ v5' = "closing"
        <3>1. Bridge!LossIsKnown' /\ v17' \in Nat /\ v12' = v12
            BY <2>2, WriteFailsIsKnown
        <3>2. QED
            BY <1>0, <2>0, <2>2, <3>1, TableRests, HandlersRest
    <2>3. QED
        BY <1>1, <2>1, <2>2 DEF Bridge!Say
<1>2. CASE Bridge!Expose \/ Bridge!Stop \/ Bridge!Finish \/ Bridge!Closed
           \/ Bridge!Complete \/ Bridge!RestartStdio \/ Bridge!Answered
    <2>1. UNCHANGED <<v7, v8, v9, v10, v11, v12, v15, v16, v17>>
        BY <1>2 DEF Bridge!Expose, Bridge!Stop, Bridge!Finish, Bridge!Closed, Bridge!Complete,
                    Bridge!RestartStdio, Bridge!Answered
    <2>2. v6' \in [inst : Bridge!Bridge, tries : 0 .. 2, of : Nat] /\ (v6'.tries > 0 => v6'.of \in DOMAIN v7)
        <3>1. CASE Bridge!RestartStdio
            BY <3>1 DEF Bridge!RestartStdio, Bridge!Bridge
        <3>2. CASE Bridge!Answered
            BY <1>0, <3>2 DEF Bridge!Answered
        <3>3. CASE ~Bridge!RestartStdio /\ ~Bridge!Answered
            BY <1>0, <1>2, <3>3 DEF Bridge!Expose, Bridge!Stop, Bridge!Finish, Bridge!Closed, Bridge!Complete
        <3>4. QED
            BY <3>1, <3>2, <3>3
    <2>3. (v5 # "open" => v5' # "open") /\ (v5' = "closed" => Bridge!AllGone)
        BY <1>0, <1>2 DEF Bridge!Expose, Bridge!Stop, Bridge!Finish, Bridge!Closed, Bridge!Complete,
                    Bridge!RestartStdio, Bridge!Answered, Bridge!OneHandler
    <2>4. Bridge!LossIsKnown'
        BY <1>0, <1>2, <2>1 DEF Bridge!Expose, Bridge!Stop, Bridge!Finish, Bridge!Closed, Bridge!Complete,
                    Bridge!RestartStdio, Bridge!Answered, Bridge!LossIsKnown
    <2>5. QED
        BY <1>0, <2>1, <2>2, <2>3, <2>4, TableRests, HandlersRest
<1>3. QED
    BY <1>1, <1>2

LEMMA ConnectKeepsInv ==
    ASSUME Bridge!BridgeInv, NEW n \in {1, 2}, NEW c \in CallIds, v5 = "open", Bridge!Connect(n, c)
    PROVE  Bridge!BridgeInv'
<1> DEFINE Place == [key : Bridge!Key, at : Bridge!Where]
<1> DEFINE new == [key |-> <<v6.inst, c>>, at |-> "asked"]
<1> USE DEF Bridge!BridgeInv
<1>0. /\ v7 \in Seq(Place) /\ Len(v7) \in Nat /\ DOMAIN v7 = 1 .. Len(v7)
      /\ \A i \in DOMAIN v7 : v7[i] \in Place /\ Bridge!KeyOf(i) \in Bridge!Key
    BY Connections
<1>1. /\ UNCHANGED <<v1, v2, v3, v4, v5, v8, v9, v10, v11, v12, v15, v16, v17>>
      /\ v7' = Append(v7, new) /\ v6' = [v6 EXCEPT !.tries = n, !.of = Len(v7) + 1]
    BY DEF Bridge!Connect, Bridge!turns, Bridge!timeline, Bridge!ghosts
<1>2. new \in Place
    <2>1. v6.inst \in Bridge!Bridge
        BY DEF Bridge!BridgeShapes
    <2>2. QED
        BY <2>1 DEF Bridge!Key, Bridge!Where
<1>3. /\ v7' \in Seq(Place) /\ DOMAIN v7' = DOMAIN v7 \cup {Len(v7) + 1}
      /\ v7'[Len(v7) + 1].at = "asked"
      /\ \A i \in DOMAIN v7 : v7'[i] = v7[i] /\ i # Len(v7) + 1
    <2> HIDE DEF Place, new
    <2>1. /\ v7' \in Seq(Place) /\ DOMAIN v7' = DOMAIN v7 \cup {Len(v7) + 1}
          /\ v7'[Len(v7) + 1] = new
          /\ \A i \in DOMAIN v7 : v7'[i] = v7[i] /\ i # Len(v7) + 1
        BY <1>0, <1>1, <1>2
    <2>2. new.at = "asked"
        BY DEF new
    <2>3. QED
        BY <2>1, <2>2
<1>4. /\ Bridge!Working' = Bridge!Working
      /\ \A i \in DOMAIN v7 : Bridge!KeyOf(i)' = Bridge!KeyOf(i)
      /\ ~Bridge!Quiet
    BY <1>3 DEF Bridge!Working, Bridge!KeyOf, Bridge!Quiet
<1>5. \A k \in Bridge!Key : Bridge!Starts(k)' = Bridge!Starts(k) /\ Bridge!Ends(k)' = Bridge!Ends(k)
    BY <1>1, TableRests
<1>6. Bridge!BridgeShapes'
    <2>1. v6 \in [inst : Bridge!Bridge, tries : 0 .. 2, of : Nat]
        BY DEF Bridge!BridgeShapes
    <2>2. v6' \in [inst : Bridge!Bridge, tries : 0 .. 2, of : Nat] /\ v6'.of = Len(v7) + 1
        <3>1. Len(v7) + 1 \in Nat /\ n \in 0 .. 2
            BY <1>0
        <3>2. v6' = [v6 EXCEPT !.tries = n, !.of = Len(v7) + 1]
            BY <1>1
        <3> HIDE DEF Place
        <3>3. QED
            BY <2>1, <3>1, <3>2
    <2>3. QED
        BY <1>1, <1>3, <2>2 DEF Bridge!BridgeShapes
<1>7. Bridge!OneHandler'
    <2>1. \A i \in Bridge!Working : i \in DOMAIN v7 /\ Bridge!KeyOf(i) \in Bridge!Key
        BY <1>0 DEF Bridge!Working
    <2>2. QED
        BY <1>1, <1>3, <1>4, <1>5, <2>1 DEF Bridge!OneHandler
<1>8. Bridge!StartedOnce'
    <2>1. \A i \in Bridge!Working : i \in DOMAIN v7
        BY DEF Bridge!Working
    <2>2. QED
        BY <1>1, <1>3, <1>4, <1>5, <2>1, StartedStays
<1>9. Bridge!EndedOnce'
    BY <1>1, <1>4, <1>5 DEF Bridge!EndedOnce
<1>10. Bridge!LossIsKnown'
    BY <1>1 DEF Bridge!LossIsKnown
<1>11. QED
    BY <1>6, <1>7, <1>8, <1>9, <1>10

\* A handler that has not started its call, or not yet ended it, goes on with
\* the table, the registry and the history as they are.
LEMMA HandlerEndsKeepsInv ==
    ASSUME Bridge!BridgeInv, NEW i \in DOMAIN v7, NEW place \in {"queued", "done", "gone"},
           Bridge!Goes(i, place), v7[i].at \in {"asked", "queued"},
           UNCHANGED <<v5, v6, v9, v10, v11, v12, v15, v16>>,
           v8' = v8 \/ (v8 = {} /\ v8' = {Bridge!KeyOf(i)[1]}),
           place = "gone" \/ v8' = {Bridge!KeyOf(i)[1]},
           v17' \in Nat, Bridge!LossIsKnown'
    PROVE  Bridge!BridgeInv'
<1> USE DEF Bridge!BridgeInv
<1>0. \A j \in DOMAIN v7 : Bridge!KeyOf(j) \in Bridge!Key
    BY Connections
<1>1. /\ v7' \in Seq([key : Bridge!Key, at : Bridge!Where]) /\ DOMAIN v7' = DOMAIN v7
      /\ v7'[i].at = place
      /\ \A j \in DOMAIN v7 : v7'[j].key = v7[j].key
      /\ \A j \in DOMAIN v7 \ {i} : v7'[j] = v7[j]
    <2>1. place \in Bridge!Where
        BY DEF Bridge!Where
    <2>2. QED
        BY <2>1, HandlerMoves
<1>2. /\ Bridge!Working' = Bridge!Working
      /\ \A j \in DOMAIN v7 : Bridge!KeyOf(j)' = Bridge!KeyOf(j)
      /\ ~Bridge!Quiet
    BY <1>1 DEF Bridge!Working, Bridge!KeyOf, Bridge!Quiet, Bridge!AllGone
<1>3. \A k \in Bridge!Key : Bridge!Starts(k)' = Bridge!Starts(k) /\ Bridge!Ends(k)' = Bridge!Ends(k)
    BY TableRests
<1>4. Bridge!BridgeShapes'
    BY <1>1 DEF Bridge!BridgeShapes
<1>5. Bridge!OneHandler'
    <2>1. \A j \in Bridge!Working : j \in DOMAIN v7
        BY DEF Bridge!Working
    <2>2. v5' # "closed"
        BY DEF Bridge!OneHandler, Bridge!AllGone
    <2>3. ASSUME NEW j \in DOMAIN v7, v7'[j].at \notin {"asked", "gone"}
          PROVE  v8' = {Bridge!KeyOf(j)[1]}
        BY <1>1, <2>3 DEF Bridge!OneHandler
    <2>4. QED
        BY <1>0, <1>1, <1>2, <1>3, <2>1, <2>2, <2>3 DEF Bridge!OneHandler
<1>6. Bridge!StartedOnce'
    <2>1. \A j \in Bridge!Working : j \in DOMAIN v7 \ {i}
        BY DEF Bridge!Working
    <2>2. \A b \in Bridge!Bridge : v8 = {b} => v8' = {b}
        OBVIOUS
    <2>3. QED
        BY <1>1, <1>2, <1>3, <2>1, <2>2, StartedStays
<1>7. Bridge!EndedOnce'
    BY <1>2, <1>3 DEF Bridge!EndedOnce
<1>8. QED
    BY <1>4, <1>5, <1>6, <1>7

LEMMA AskedKeepsInv ==
    ASSUME Bridge!BridgeInv, NEW i \in 1 .. Sockets, Bridge!Admit(i) \/ Bridge!Replay(i)
    PROVE  Bridge!BridgeInv'
<1> USE DEF Bridge!agent, Bridge!timeline, Bridge!turns, Bridge!ghosts
<1>0. v17 \in Nat /\ Bridge!LossIsKnown /\ Bridge!OneHandler
    BY DEF Bridge!BridgeInv, Bridge!BridgeShapes
<1>1. /\ i \in DOMAIN v7 /\ v7[i].at \in {"asked", "queued"}
      /\ UNCHANGED <<v1, v4, v5, v6, v9, v10, v11, v12, v15, v16, v17>>
    BY DEF Bridge!Admit, Bridge!Replay, Bridge!At
<1>2. Bridge!LossIsKnown'
    BY <1>0, <1>1 DEF Bridge!LossIsKnown
<1>3. CASE Bridge!Admit(i)
    <2>1. PICK place \in {"queued", "gone"} : Bridge!Goes(i, place) /\
              \/ place = "gone" /\ v8' = v8
              \/ v8' = {Bridge!KeyOf(i)[1]} /\ v8 \in {{}, {Bridge!KeyOf(i)[1]}}
        BY <1>3 DEF Bridge!Admit, Bridge!OtherInvoker
    <2>2. place \in {"queued", "done", "gone"}
        OBVIOUS
    <2>3. v8' = v8 \/ (v8 = {} /\ v8' = {Bridge!KeyOf(i)[1]})
        BY <2>1
    <2>4. place = "gone" \/ v8' = {Bridge!KeyOf(i)[1]}
        BY <2>1
    <2>5. Bridge!Goes(i, place)
        BY <2>1
    <2>6. QED
        BY <1>0, <1>1, <1>2, <2>2, <2>3, <2>4, <2>5, HandlerEndsKeepsInv
<1>4. CASE Bridge!Replay(i)
    <2>1. v8' = v8 /\ v8 = {Bridge!KeyOf(i)[1]}
        BY <1>0, <1>4 DEF Bridge!Replay, Bridge!At, Bridge!OneHandler
    <2>2. PICK place \in {"done", "gone"} : Bridge!Goes(i, place)
        BY <1>4 DEF Bridge!Replay
    <2>3. QED
        BY <1>0, <1>1, <1>2, <2>1, <2>2, HandlerEndsKeepsInv
<1>5. QED
    BY <1>3, <1>4

\* What holds of a queued handler that finds the receipts free and its key
\* without one: its call has never started.
LEMMA FreshCall ==
    ASSUME Bridge!BridgeInv, NEW i \in DOMAIN v7, v7[i].at = "queued", Bridge!Free, ~Bridge!Known(i)
    PROVE  /\ Bridge!Working = {} /\ ~Bridge!Quiet
           /\ Bridge!Starts(Bridge!KeyOf(i)) = {} /\ Bridge!Ends(Bridge!KeyOf(i)) = {}
           /\ Bridge!KeyOf(i) \in Bridge!Key \ (v10 \cup v11 \cup v16)
           /\ v8 = {Bridge!KeyOf(i)[1]}
<1> USE DEF Bridge!BridgeInv
<1>1. Bridge!Working = {}
    BY DEF Bridge!OneHandler, Bridge!Free
<1>2. ~Bridge!Quiet
    BY DEF Bridge!Quiet, Bridge!AllGone
<1>3. Bridge!KeyOf(i) \in Bridge!Key
    BY Connections
<1>4. Bridge!KeyOf(i) \notin v10
    BY DEF Bridge!Known
<1>5. Bridge!Starts(Bridge!KeyOf(i)) = {}
    BY <1>1, <1>2, <1>3, <1>4 DEF Bridge!StartedOnce
<1>6. Bridge!Ends(Bridge!KeyOf(i)) = {} /\ Bridge!KeyOf(i) \notin v11 \cup v16
    BY <1>3, <1>5 DEF Bridge!EndedOnce
<1>7. v8 = {Bridge!KeyOf(i)[1]}
    BY DEF Bridge!OneHandler
<1>8. QED
    BY <1>1, <1>2, <1>3, <1>4, <1>5, <1>6, <1>7

LEMMA StartKeepsBridgeInv ==
    ASSUME Bridge!BridgeInv, NEW i \in 1 .. Sockets, Bridge!Start(i)
    PROVE  Bridge!BridgeInv'
<1> USE DEF Bridge!BridgeInv
<1>a. PICK k : k = Bridge!KeyOf(i)
    OBVIOUS
<1>0. /\ i \in DOMAIN v7 /\ v7[i].at = "queued" /\ Bridge!Free /\ ~Bridge!Known(i)
      /\ v17 \in Nat
      /\ UNCHANGED <<v5, v6, v8, v10, v15, v16>>
    BY DEF Bridge!Start, Bridge!At, Bridge!agent, Bridge!BridgeShapes
<1>1. /\ Bridge!Working = {} /\ ~Bridge!Quiet /\ Bridge!Starts(k) = {} /\ Bridge!Ends(k) = {}
      /\ k \in Bridge!Key \ (v10 \cup v11 \cup v16) /\ v8 = {k[1]}
    BY <1>0, <1>a, FreshCall
<1>2. CASE Bridge!Goes(i, "gone") /\ UNCHANGED <<v9, v11>> /\
           (Bridge!WriteFails \/ UNCHANGED <<v1, v4, v12, v17>>)
    <2>1. Bridge!LossIsKnown' /\ v17' \in Nat /\ v12' = v12
        <3>1. CASE Bridge!WriteFails
            BY <3>1, WriteFailsIsKnown
        <3>2. CASE UNCHANGED <<v1, v4, v12, v17>>
            BY <1>0, <3>2 DEF Bridge!LossIsKnown
        <3>3. QED
            BY <1>2, <3>1, <3>2
    <2>2. Bridge!Goes(i, "gone") /\ UNCHANGED <<v5, v6, v8, v9, v10, v11, v12, v15, v16>>
        BY <1>0, <1>2, <2>1
    <2>3. "gone" \in {"queued", "done", "gone"} /\ v7[i].at \in {"asked", "queued"}
        BY <1>0
    <2>4. QED
        BY <1>0, <2>1, <2>2, <2>3, HandlerEndsKeepsInv
<1>3. CASE Bridge!Publish(<<"start", k>>) /\ v11' = v11 \cup {k} /\ Bridge!Goes(i, "started")
           /\ v9' = {i} /\ UNCHANGED <<v1, v4, v17>>
    <2>1. /\ v7' \in Seq([key : Bridge!Key, at : Bridge!Where]) /\ DOMAIN v7' = DOMAIN v7
          /\ v7'[i].at = "started"
          /\ \A j \in DOMAIN v7 : v7'[j].key = v7[j].key
          /\ \A j \in DOMAIN v7 \ {i} : v7'[j] = v7[j]
        <3>1. "started" \in Bridge!Where
            BY DEF Bridge!Where
        <3>2. QED
            BY <1>0, <1>3, <3>1, HandlerMoves
    <2>2. /\ Bridge!Working' = {i} /\ ~Bridge!Quiet' /\ v5' # "closed"
          /\ \A j \in DOMAIN v7 : Bridge!KeyOf(j)' = Bridge!KeyOf(j)
        <3>1. Bridge!Working' = {i} /\ \A j \in DOMAIN v7 : Bridge!KeyOf(j)' = Bridge!KeyOf(j)
            BY <1>0, <1>1, <2>1 DEF Bridge!Working, Bridge!KeyOf
        <3>2. ~Bridge!AllGone' /\ ~Bridge!AllGone
            BY <1>0, <2>1 DEF Bridge!AllGone
        <3>3. QED
            BY <1>0, <3>1, <3>2 DEF Bridge!Quiet, Bridge!OneHandler
    <2>3. /\ v12' \in Seq(Bridge!Event)
          /\ Bridge!Starts(k)' = {Len(v12) + 1} /\ Bridge!Ends(k)' = {}
          /\ \A q \in Bridge!Key \ {k} : Bridge!Starts(q)' = Bridge!Starts(q)
          /\ \A q \in Bridge!Key : Bridge!Ends(q)' = Bridge!Ends(q)
          /\ \A n \in DOMAIN v12 : v12'[n] = v12[n]
        <3>1. <<"start", k>> \in Bridge!Event /\ v12' = Append(v12, <<"start", k>>)
            BY <1>1, <1>3 DEF Bridge!Event, Bridge!Publish
        <3>2. /\ v12' \in Seq(Bridge!Event) /\ \A n \in DOMAIN v12 : v12'[n] = v12[n]
              /\ \A q \in Bridge!Key :
                    /\ Bridge!Starts(q)' = Bridge!Starts(q) \cup
                          (IF <<"start", k>> = <<"start", q>> THEN {Len(v12) + 1} ELSE {})
                    /\ Bridge!Ends(q)' = Bridge!Ends(q) \cup
                          (IF <<"start", k>> \in {<<"done", q>>, <<"interrupted", q>>}
                           THEN {Len(v12) + 1} ELSE {})
            BY <3>1, TableGrows
        <3>3. \A q \in Bridge!Key : /\ <<"start", k>> = <<"start", q>> <=> k = q
                                     /\ <<"start", k>> \notin {<<"done", q>>, <<"interrupted", q>>}
            OBVIOUS
        <3>4. \A q \in Bridge!Key : Bridge!Ends(q)' = Bridge!Ends(q)
            BY <3>2, <3>3
        <3>5. \A q \in Bridge!Key \ {k} : Bridge!Starts(q)' = Bridge!Starts(q)
            BY <3>2, <3>3
        <3>6. Bridge!Starts(k)' = {Len(v12) + 1}
            BY <1>1, <3>2
        <3>7. QED
            BY <1>1, <3>2, <3>4, <3>5, <3>6
    <2>4. Bridge!BridgeShapes'
        BY <1>0, <1>1, <1>3, <2>1, <2>3 DEF Bridge!BridgeShapes
    <2>5. Bridge!OneHandler'
        <3>1. ASSUME NEW j \in DOMAIN v7, v7'[j].at \notin {"asked", "gone"}
              PROVE  v8' = {Bridge!KeyOf(j)[1]}
            BY <1>0, <1>1, <2>1, <3>1 DEF Bridge!OneHandler
        <3>2. k \notin v10' /\ Bridge!Starts(k)' # {} /\ Bridge!KeyOf(i)' = k
            BY <1>0, <1>1, <1>a, <2>2, <2>3
        <3>3. \A j \in Bridge!Working' : /\ v9' = {j} /\ Bridge!KeyOf(j)' \notin v10'
                                          /\ Bridge!Starts(Bridge!KeyOf(j))' # {}
            <4>1. Bridge!Starts(Bridge!KeyOf(i))' = Bridge!Starts(k)'
                BY <3>2 DEF Bridge!Starts
            <4>2. v9' = {i}
                BY <1>3
            <4>3. QED
                BY <2>2, <3>2, <4>1, <4>2
        <3>4. \A j \in DOMAIN v7' : v7'[j].at \notin {"asked", "gone"} => v8' = {Bridge!KeyOf(j)'[1]}
            BY <2>1, <2>2, <3>1
        <3>5. QED
            BY <2>2, <3>3, <3>4 DEF Bridge!OneHandler
    <2>6. Bridge!StartedOnce'
        <3>1. \A q \in Bridge!Key : Bridge!Starts(q)' # {} =>
                 q \in v10' \/ \E j \in Bridge!Working' : Bridge!KeyOf(j)' = q
            <4>1. Bridge!KeyOf(i)' = k
                BY <1>0, <1>a, <2>2
            <4>2. QED
                BY <1>0, <1>1, <2>2, <2>3, <4>1 DEF Bridge!StartedOnce
        <3>2. \A c \in CallIds : v15'[c] > 0 => \E b \in Bridge!Bridge : v8' = {b} /\ <<b, c>> \in v10'
            BY <1>0, <1>1 DEF Bridge!StartedOnce
        <3>3. \A c \in CallIds : v15'[c] <= 1
            BY <1>0 DEF Bridge!StartedOnce
        <3>4. QED
            BY <3>1, <3>2, <3>3 DEF Bridge!StartedOnce
    <2>7. Bridge!EndedOnce'
        <3>1. \A q \in Bridge!Key : \A n \in Bridge!Ends(q) : v12'[n] = v12[n]
            BY <2>3 DEF Bridge!Ends
        <3>2. ASSUME NEW q \in Bridge!Key \ {k}
              PROVE  /\ \A m, n \in Bridge!Starts(q)' : m = n
                     /\ \A m, n \in Bridge!Ends(q)' : m = n
                     /\ \A e \in Bridge!Ends(q)' : \E b \in Bridge!Starts(q)' : b < e
                     /\ q \in v16' => Bridge!Starts(q)' # {} /\ \A e \in Bridge!Ends(q)' : v12'[e] = <<"done", q>>
                     /\ q \in v11' => Bridge!Starts(q)' # {} /\ Bridge!Ends(q)' = {} /\ q \notin v16'
                     /\ Bridge!Ends(q)' # {} => q \in v10' \/ Bridge!Quiet'
            BY <1>0, <1>1, <1>3, <2>3, <3>1 DEF Bridge!EndedOnce
        <3>3. /\ \A m, n \in Bridge!Starts(k)' : m = n
              /\ Bridge!Ends(k)' = {} /\ Bridge!Starts(k)' # {} /\ k \notin v16'
            BY <1>0, <1>1, <2>3
        <3>4. ASSUME NEW q \in Bridge!Key
              PROVE  /\ \A m, n \in Bridge!Starts(q)' : m = n
                     /\ \A m, n \in Bridge!Ends(q)' : m = n
                     /\ \A e \in Bridge!Ends(q)' : \E b \in Bridge!Starts(q)' : b < e
                     /\ q \in v16' => Bridge!Starts(q)' # {} /\ \A e \in Bridge!Ends(q)' : v12'[e] = <<"done", q>>
                     /\ q \in v11' => Bridge!Starts(q)' # {} /\ Bridge!Ends(q)' = {} /\ q \notin v16'
                     /\ Bridge!Ends(q)' # {} => q \in v10' \/ Bridge!Quiet'
            <4>1. CASE q = k
                <5>1. /\ \A m, n \in Bridge!Starts(q)' : m = n
                      /\ Bridge!Ends(q)' = {} /\ Bridge!Starts(q)' # {} /\ q \notin v16'
                    BY <3>3, <4>1
                <5>2. QED
                    BY <5>1
            <4>2. CASE q # k
                BY <3>2, <4>2
            <4>3. QED
                BY <4>1, <4>2
        <3>5. QED
            BY <3>4 DEF Bridge!EndedOnce
    <2>8. Bridge!LossIsKnown'
        BY <1>3 DEF Bridge!LossIsKnown
    <2>9. QED
        BY <2>4, <2>5, <2>6, <2>7, <2>8
<1>4. QED
    BY <1>2, <1>3, <1>a DEF Bridge!Start, Bridge!timeline

\* A handler at work goes on, or its call ends.
LEMMA WorkMoves ==
    ASSUME Bridge!BridgeInv, NEW i \in Bridge!Working, NEW place \in {"ran", "settling", "done"},
           Bridge!Goes(i, place)
    PROVE  /\ v7' \in Seq([key : Bridge!Key, at : Bridge!Where]) /\ DOMAIN v7' = DOMAIN v7
           /\ \A j \in DOMAIN v7 : Bridge!KeyOf(j)' = Bridge!KeyOf(j) /\ Bridge!KeyOf(j) \in Bridge!Key
           /\ Bridge!Working = {i} /\ v9 = {i} /\ Bridge!Working' = IF place = "done" THEN {} ELSE {i}
           /\ v7'[i].at = place /\ i \in DOMAIN v7
           /\ Bridge!KeyOf(i) \in Bridge!Key \ v10 /\ Bridge!Starts(Bridge!KeyOf(i)) # {}
           /\ Bridge!Ends(Bridge!KeyOf(i)) = {}
           /\ v8 = {Bridge!KeyOf(i)[1]}
           /\ \A j \in DOMAIN v7 : v7'[j].at \notin {"asked", "gone"} => v7[j].at \notin {"asked", "gone"}
           /\ ~Bridge!Quiet /\ v5 # "closed"
<1> USE DEF Bridge!BridgeInv
<1>1. i \in DOMAIN v7 /\ v7[i].at \in {"started", "ran", "settling"}
    BY DEF Bridge!Working
<1>2. /\ v7' \in Seq([key : Bridge!Key, at : Bridge!Where]) /\ DOMAIN v7' = DOMAIN v7
      /\ v7'[i].at = place
      /\ \A j \in DOMAIN v7 : v7'[j].key = v7[j].key
      /\ \A j \in DOMAIN v7 \ {i} : v7'[j] = v7[j]
    <2>1. place \in Bridge!Where
        BY DEF Bridge!Where
    <2>2. QED
        BY <1>1, <2>1, HandlerMoves
<1>3. \A j \in DOMAIN v7 : Bridge!KeyOf(j)' = Bridge!KeyOf(j) /\ Bridge!KeyOf(j) \in Bridge!Key
    BY <1>2, Connections DEF Bridge!KeyOf
<1>4. /\ Bridge!Working = {i} /\ v9 = {i} /\ Bridge!KeyOf(i) \notin v10
      /\ Bridge!Starts(Bridge!KeyOf(i)) # {} /\ v8 = {Bridge!KeyOf(i)[1]}
    BY <1>1 DEF Bridge!OneHandler
<1>5. Bridge!Working' = IF place = "done" THEN {} ELSE {i}
    <2>1. \A j \in DOMAIN v7 : j # i => v7'[j].at \notin {"started", "ran", "settling"}
        BY <1>2, <1>4 DEF Bridge!Working
    <2>2. QED
        BY <1>1, <1>2, <2>1 DEF Bridge!Working
<1>6. ~Bridge!AllGone
    BY <1>1 DEF Bridge!AllGone
<1>7. ~Bridge!Quiet /\ v5 # "closed"
    BY <1>6 DEF Bridge!Quiet, Bridge!OneHandler
<1>8. Bridge!Ends(Bridge!KeyOf(i)) = {}
    BY <1>1, <1>3, <1>4, <1>7 DEF Bridge!EndedOnce
<1>9. \A j \in DOMAIN v7 : v7'[j].at \notin {"asked", "gone"} => v7[j].at \notin {"asked", "gone"}
    BY <1>1, <1>2
<1>10. QED
    BY <1>1, <1>2, <1>3, <1>4, <1>5, <1>7, <1>8, <1>9

\* Only the first invoker's handler gets here, and its key is at work: no
\* other key of the same call has taken effect.
LEMMA ExecuteKeepsInv ==
    ASSUME Bridge!BridgeInv, NEW i \in 1 .. Sockets, Bridge!Execute(i)
    PROVE  Bridge!BridgeInv'
<1> USE DEF Bridge!BridgeInv
<1>a. PICK k : k = Bridge!KeyOf(i)
    OBVIOUS
<1>0. /\ i \in Bridge!Working /\ v7[i].at = "started" /\ Bridge!Goes(i, "ran")
      /\ UNCHANGED <<v1, v4, v5, v6, v8, v9, v10, v11, v12, v16, v17>>
    BY DEF Bridge!Execute, Bridge!At, Bridge!Working, Bridge!agent, Bridge!turns, Bridge!timeline
<1>1. /\ v7' \in Seq([key : Bridge!Key, at : Bridge!Where]) /\ DOMAIN v7' = DOMAIN v7
      /\ \A j \in DOMAIN v7 : Bridge!KeyOf(j)' = Bridge!KeyOf(j) /\ Bridge!KeyOf(j) \in Bridge!Key
      /\ Bridge!Working = {i} /\ v9 = {i} /\ Bridge!Working' = {i} /\ v7'[i].at = "ran"
      /\ i \in DOMAIN v7 /\ k \in Bridge!Key \ v10 /\ v8 = {k[1]}
      /\ \A j \in DOMAIN v7 : v7'[j].at \notin {"asked", "gone"} => v7[j].at \notin {"asked", "gone"}
      /\ ~Bridge!Quiet /\ v5 # "closed"
    BY <1>0, <1>a, WorkMoves
<1>2. k = <<k[1], k[2]>> /\ k[1] \in Bridge!Bridge /\ k[2] \in CallIds
    BY <1>1 DEF Bridge!Key
<1>3. \A q \in Bridge!Key : Bridge!Starts(q)' = Bridge!Starts(q) /\ Bridge!Ends(q)' = Bridge!Ends(q)
    BY <1>0, TableRests
<1>4. v15 \in [CallIds -> Nat]
    BY DEF Bridge!BridgeShapes
<1>5. v15[k[2]] = 0
    <2>1. SUFFICES ASSUME v15[k[2]] > 0 PROVE FALSE
        BY <1>2, <1>4
    <2>2. PICK b \in Bridge!Bridge :
              /\ v8 = {b}
              /\ \/ <<b, k[2]>> \in v10 \/ Bridge!Quiet
                 \/ \E j \in Bridge!Working : Bridge!KeyOf(j) = <<b, k[2]>> /\ v7[j].at # "started"
        BY <1>2, <2>1 DEF Bridge!StartedOnce
    <2>3. b = k[1]
        BY <1>1, <2>2
    <2>4. <<b, k[2]>> \notin v10
        BY <1>1, <1>2, <2>3
    <2>5. QED
        BY <1>0, <1>1, <2>2, <2>4
<1>6. /\ v15' \in [CallIds -> Nat] /\ v15'[k[2]] \in {0, 1}
      /\ \A c \in CallIds \ {k[2]} : v15'[c] = v15[c]
    <2>1. v15' = [v15 EXCEPT ![k[2]] = @ + (IF Bridge!Authority THEN 1 ELSE 0)]
        BY <1>a DEF Bridge!Execute
    <2>2. QED
        BY <1>2, <1>4, <1>5, <2>1
<1>7. Bridge!BridgeShapes'
    BY <1>0, <1>1, <1>6 DEF Bridge!BridgeShapes
<1>8. Bridge!OneHandler'
    BY <1>0, <1>1, <1>3 DEF Bridge!OneHandler
<1>9. Bridge!StartedOnce'
    <2>1. Bridge!KeyOf(i)' = k
        BY <1>1, <1>a
    <2>2. \A q \in Bridge!Key : Bridge!Starts(q)' # {} =>
             q \in v10' \/ \E j \in Bridge!Working' : Bridge!KeyOf(j)' = q
        BY <1>0, <1>1, <1>3 DEF Bridge!StartedOnce
    <2>3. ASSUME NEW c \in CallIds, v15'[c] > 0
          PROVE  \E b \in Bridge!Bridge :
                    /\ v8' = {b}
                    /\ \/ <<b, c>> \in v10'
                       \/ \E j \in Bridge!Working' : Bridge!KeyOf(j)' = <<b, c>> /\ v7'[j].at # "started"
        <3>1. CASE c = k[2]
            BY <1>0, <1>1, <1>2, <2>1, <3>1
        <3>2. CASE c # k[2]
            <4>1. PICK b \in Bridge!Bridge :
                      /\ v8 = {b}
                      /\ \/ <<b, c>> \in v10 \/ Bridge!Quiet
                         \/ \E j \in Bridge!Working : Bridge!KeyOf(j) = <<b, c>> /\ v7[j].at # "started"
                BY <1>6, <2>3, <3>2 DEF Bridge!StartedOnce
            <4>2. <<b, c>> \in v10
                BY <1>0, <1>1, <4>1
            <4>3. QED
                BY <1>0, <4>1, <4>2
        <3>3. QED
            BY <3>1, <3>2
    <2>4. ASSUME NEW c \in CallIds PROVE v15'[c] <= 1
        <3>1. CASE c = k[2]
            BY <1>6, <3>1
        <3>2. CASE c # k[2]
            BY <1>6, <3>2 DEF Bridge!StartedOnce
        <3>3. QED
            BY <3>1, <3>2
    <2>5. QED
        BY <2>2, <2>3, <2>4 DEF Bridge!StartedOnce
<1>10. Bridge!EndedOnce'
    BY <1>0, <1>1, <1>3 DEF Bridge!EndedOnce
<1>11. Bridge!LossIsKnown'
    BY <1>0 DEF Bridge!LossIsKnown
<1>12. QED
    BY <1>7, <1>8, <1>9, <1>10, <1>11

LEMMA SettleKeepsInv ==
    ASSUME Bridge!BridgeInv, NEW i \in 1 .. Sockets, Bridge!Settle(i)
    PROVE  Bridge!BridgeInv'
<1> USE DEF Bridge!BridgeInv
<1>a. PICK k : k = Bridge!KeyOf(i)
    OBVIOUS
<1>0. /\ i \in Bridge!Working /\ v7[i].at = "ran" /\ Bridge!Goes(i, "settling")
      /\ v11' = v11 \ {k} /\ v16' = v16 \cup {k}
      /\ UNCHANGED <<v1, v4, v5, v6, v8, v9, v10, v12, v15, v17>>
    BY <1>a DEF Bridge!Settle, Bridge!StillPending, Bridge!At, Bridge!Working, Bridge!agent,
                Bridge!turns, Bridge!timeline
<1>1. /\ v7' \in Seq([key : Bridge!Key, at : Bridge!Where]) /\ DOMAIN v7' = DOMAIN v7
      /\ \A j \in DOMAIN v7 : Bridge!KeyOf(j)' = Bridge!KeyOf(j) /\ Bridge!KeyOf(j) \in Bridge!Key
      /\ Bridge!Working = {i} /\ v9 = {i} /\ Bridge!Working' = {i} /\ v7'[i].at = "settling"
      /\ i \in DOMAIN v7 /\ k \in Bridge!Key \ v10 /\ Bridge!Starts(k) # {} /\ Bridge!Ends(k) = {}
      /\ \A j \in DOMAIN v7 : v7'[j].at \notin {"asked", "gone"} => v7[j].at \notin {"asked", "gone"}
      /\ ~Bridge!Quiet /\ v5 # "closed"
    BY <1>0, <1>a, WorkMoves
<1>2. \A q \in Bridge!Key : Bridge!Starts(q)' = Bridge!Starts(q) /\ Bridge!Ends(q)' = Bridge!Ends(q)
    BY <1>0, TableRests
<1>3. Bridge!BridgeShapes'
    BY <1>0, <1>1 DEF Bridge!BridgeShapes
<1>4. Bridge!OneHandler'
    BY <1>0, <1>1, <1>2 DEF Bridge!OneHandler
<1>5. Bridge!StartedOnce'
    BY <1>0, <1>1, <1>2, StartedStays
<1>6. Bridge!EndedOnce'
    BY <1>0, <1>1, <1>2 DEF Bridge!EndedOnce
<1>7. Bridge!LossIsKnown'
    BY <1>0 DEF Bridge!LossIsKnown
<1>8. QED
    BY <1>3, <1>4, <1>5, <1>6, <1>7

\* The end of a call is published: the table, the registry and the receipts
\* still tell the same.
LEMMA EndsOnce ==
    ASSUME Bridge!BridgeInv, NEW k \in Bridge!Key, NEW how \in {"done", "interrupted"},
           Bridge!Publish(<<how, k>>), v11' = v11 \ {k}, v16' = v16, v10 \subseteq v10',
           Bridge!Quiet => Bridge!Quiet',
           Bridge!Starts(k) # {}, Bridge!Ends(k) = {},
           how = "done" \/ k \notin v16, k \in v10' \/ Bridge!Quiet'
    PROVE  /\ Bridge!EndedOnce' /\ v12' \in Seq(Bridge!Event)
           /\ \A q \in Bridge!Key : Bridge!Starts(q)' = Bridge!Starts(q)
<1> USE DEF Bridge!BridgeInv
<1>1. <<how, k>> \in Bridge!Event /\ v12' = Append(v12, <<how, k>>)
    BY DEF Bridge!Event, Bridge!Publish
<1>2. /\ v12' \in Seq(Bridge!Event)
      /\ \A n \in DOMAIN v12 : v12'[n] = v12[n] /\ n < Len(v12) + 1
      /\ v12'[Len(v12) + 1] = <<how, k>>
      /\ \A q \in Bridge!Key :
            /\ Bridge!Starts(q)' = Bridge!Starts(q) \cup
                  (IF <<how, k>> = <<"start", q>> THEN {Len(v12) + 1} ELSE {})
            /\ Bridge!Ends(q)' = Bridge!Ends(q) \cup
                  (IF <<how, k>> \in {<<"done", q>>, <<"interrupted", q>>} THEN {Len(v12) + 1} ELSE {})
    BY <1>1, TableGrows
<1>3. \A q \in Bridge!Key : /\ <<how, k>> # <<"start", q>>
                            /\ <<how, k>> \in {<<"done", q>>, <<"interrupted", q>>} <=> k = q
    OBVIOUS
<1>4. /\ \A q \in Bridge!Key : Bridge!Starts(q)' = Bridge!Starts(q)
      /\ \A q \in Bridge!Key \ {k} : Bridge!Ends(q)' = Bridge!Ends(q)
      /\ Bridge!Ends(k)' = {Len(v12) + 1}
    <2>1. \A q \in Bridge!Key : Bridge!Starts(q)' = Bridge!Starts(q)
        BY <1>2, <1>3
    <2>2. \A q \in Bridge!Key \ {k} : Bridge!Ends(q)' = Bridge!Ends(q)
        BY <1>2, <1>3
    <2>3. Bridge!Ends(k)' = {Len(v12) + 1}
        BY <1>2, <1>3
    <2>4. QED
        BY <2>1, <2>2, <2>3
<1>5. \A q \in Bridge!Key : Bridge!Starts(q) \subseteq DOMAIN v12 /\ Bridge!Ends(q) \subseteq DOMAIN v12
    BY DEF Bridge!Starts, Bridge!Ends
<1>6. ASSUME NEW q \in Bridge!Key
      PROVE  /\ \A m, n \in Bridge!Starts(q)' : m = n
             /\ \A m, n \in Bridge!Ends(q)' : m = n
             /\ \A e \in Bridge!Ends(q)' : \E b \in Bridge!Starts(q)' : b < e
             /\ q \in v16' => Bridge!Starts(q)' # {} /\ \A e \in Bridge!Ends(q)' : v12'[e] = <<"done", q>>
             /\ q \in v11' => Bridge!Starts(q)' # {} /\ Bridge!Ends(q)' = {} /\ q \notin v16'
             /\ Bridge!Ends(q)' # {} => q \in v10' \/ Bridge!Quiet'
    <2>1. CASE q = k
        <3>1. PICK b \in Bridge!Starts(k) : b < Len(v12) + 1
            BY <1>2, <1>5
        <3>2. /\ \A m, n \in Bridge!Starts(q)' : m = n
              /\ Bridge!Starts(q)' # {} /\ b \in Bridge!Starts(q)'
            BY <1>4, <2>1 DEF Bridge!EndedOnce
        <3>3. QED
            BY <1>2, <1>4, <2>1, <3>1, <3>2
    <2>2. CASE q # k
        <3>1. \A e \in Bridge!Ends(q) : v12'[e] = v12[e]
            BY <1>2, <1>5
        <3>2. Bridge!Starts(q)' = Bridge!Starts(q) /\ Bridge!Ends(q)' = Bridge!Ends(q)
            BY <1>4, <2>2
        <3>3. QED
            BY <2>2, <3>1, <3>2 DEF Bridge!EndedOnce
    <2>3. QED
        BY <2>1, <2>2
<1>7. QED
    BY <1>2, <1>4, <1>6 DEF Bridge!EndedOnce

LEMMA DoneKeepsInv ==
    ASSUME Bridge!BridgeInv, NEW i \in 1 .. Sockets, Bridge!Done(i)
    PROVE  Bridge!BridgeInv'
<1> USE DEF Bridge!BridgeInv
<1>a. PICK k : k = Bridge!KeyOf(i)
    OBVIOUS
<1>0. /\ i \in Bridge!Working /\ v7[i].at = "settling" /\ Bridge!Goes(i, "done")
      /\ v11' = v11 \ {k} /\ v10' = v10 \cup {k} /\ v9' = {}
      /\ (Bridge!Publish(<<"done", k>>) /\ UNCHANGED <<v1, v4, v17>>) \/ Bridge!WriteFails
      /\ UNCHANGED <<v5, v6, v8, v15, v16>> /\ v17 \in Nat
    BY <1>a DEF Bridge!Done, Bridge!At, Bridge!Working, Bridge!agent, Bridge!BridgeShapes
<1>1. /\ v7' \in Seq([key : Bridge!Key, at : Bridge!Where]) /\ DOMAIN v7' = DOMAIN v7
      /\ \A j \in DOMAIN v7 : Bridge!KeyOf(j)' = Bridge!KeyOf(j) /\ Bridge!KeyOf(j) \in Bridge!Key
      /\ Bridge!Working = {i} /\ Bridge!Working' = {}
      /\ i \in DOMAIN v7 /\ k \in Bridge!Key \ v10 /\ Bridge!Starts(k) # {} /\ Bridge!Ends(k) = {}
      /\ \A j \in DOMAIN v7 : v7'[j].at \notin {"asked", "gone"} => v7[j].at \notin {"asked", "gone"}
      /\ ~Bridge!Quiet /\ v5 # "closed"
    BY <1>0, <1>a, WorkMoves
<1>2. v12' \in Seq(Bridge!Event) /\ Bridge!EndedOnce' /\ v17' \in Nat /\ Bridge!LossIsKnown'
      /\ \A q \in Bridge!Key : Bridge!Starts(q)' = Bridge!Starts(q)
    <2>1. CASE Bridge!Publish(<<"done", k>>) /\ UNCHANGED <<v1, v4, v17>>
        <3>1. Bridge!LossIsKnown' /\ v17' \in Nat
            BY <1>0, <2>1 DEF Bridge!LossIsKnown
        <3>2. QED
            BY <1>0, <1>1, <2>1, <3>1, EndsOnce
    <2>2. CASE Bridge!WriteFails
        <3>1. Bridge!LossIsKnown' /\ v17' \in Nat /\ v12' = v12
            BY <2>2, WriteFailsIsKnown
        <3>2. /\ v12' \in Seq(Bridge!Event)
              /\ \A q \in Bridge!Key : Bridge!Starts(q)' = Bridge!Starts(q) /\ Bridge!Ends(q)' = Bridge!Ends(q)
            BY <3>1, TableRests
        <3>3. Bridge!EndedOnce'
            BY <1>0, <1>1, <3>1, <3>2 DEF Bridge!EndedOnce
        <3>4. QED
            BY <3>1, <3>2, <3>3
    <2>3. QED
        BY <1>0, <2>1, <2>2
<1>3. Bridge!BridgeShapes'
    BY <1>0, <1>1, <1>2 DEF Bridge!BridgeShapes
<1>4. Bridge!OneHandler'
    BY <1>0, <1>1 DEF Bridge!OneHandler
<1>5. Bridge!StartedOnce'
    BY <1>0, <1>1, <1>2, <1>a, StartedStays
<1>6. QED
    BY <1>2, <1>3, <1>4, <1>5

\* The registry is emptied when no handler runs any more.
LEMMA InterruptedKeepsInv ==
    ASSUME Bridge!BridgeInv, NEW k \in Bridge!Key, Bridge!Interrupted(k)
    PROVE  Bridge!BridgeInv'
<1> USE DEF Bridge!BridgeInv
<1>0. /\ Bridge!Quiet /\ k \in v11 /\ v11' = v11 \ {k}
      /\ (Bridge!Publish(<<"interrupted", k>>) /\ UNCHANGED <<v1, v4, v17>>) \/ Bridge!WriteFails
      /\ UNCHANGED <<v5, v6, v7, v8, v9, v10, v15, v16>> /\ v17 \in Nat
    BY DEF Bridge!Interrupted, Bridge!Quiet, Bridge!agent, Bridge!BridgeShapes
<1>1. /\ Bridge!Working' = Bridge!Working /\ Bridge!Quiet' /\ Bridge!AllGone' /\ Bridge!Working = {}
      /\ \A j \in DOMAIN v7 : Bridge!KeyOf(j)' = Bridge!KeyOf(j)
    BY <1>0 DEF Bridge!Working, Bridge!Quiet, Bridge!AllGone, Bridge!KeyOf
<1>2. Bridge!Starts(k) # {} /\ Bridge!Ends(k) = {} /\ k \notin v16
    BY <1>0 DEF Bridge!EndedOnce
<1>3. v12' \in Seq(Bridge!Event) /\ Bridge!EndedOnce' /\ v17' \in Nat /\ Bridge!LossIsKnown'
      /\ \A q \in Bridge!Key : Bridge!Starts(q)' = Bridge!Starts(q)
    <2>1. CASE Bridge!Publish(<<"interrupted", k>>) /\ UNCHANGED <<v1, v4, v17>>
        <3>1. Bridge!LossIsKnown' /\ v17' \in Nat
            BY <1>0, <2>1 DEF Bridge!LossIsKnown
        <3>2. QED
            BY <1>0, <1>1, <1>2, <2>1, <3>1, EndsOnce
    <2>2. CASE Bridge!WriteFails
        <3>1. Bridge!LossIsKnown' /\ v17' \in Nat /\ v12' = v12
            BY <2>2, WriteFailsIsKnown
        <3>2. /\ v12' \in Seq(Bridge!Event)
              /\ \A q \in Bridge!Key : Bridge!Starts(q)' = Bridge!Starts(q) /\ Bridge!Ends(q)' = Bridge!Ends(q)
            BY <3>1, TableRests
        <3>3. Bridge!EndedOnce'
            BY <1>0, <1>1, <3>1, <3>2 DEF Bridge!EndedOnce
        <3>4. QED
            BY <3>1, <3>2, <3>3
    <2>3. QED
        BY <1>0, <2>1, <2>2
<1>4. Bridge!BridgeShapes'
    BY <1>0, <1>3 DEF Bridge!BridgeShapes
<1>5. Bridge!OneHandler'
    BY <1>0, <1>1 DEF Bridge!OneHandler
<1>6. Bridge!StartedOnce'
    BY <1>0, <1>1, <1>3, StartedStays
<1>7. QED
    BY <1>3, <1>4, <1>5, <1>6

LEMMA AbortKeepsInv ==
    ASSUME Bridge!BridgeInv, Bridge!Abort
    PROVE  Bridge!BridgeInv'
<1> DEFINE Place == [key : Bridge!Key, at : Bridge!Where]
<1> USE DEF Bridge!BridgeInv
<1>0. /\ v7' = [i \in DOMAIN v7 |-> [v7[i] EXCEPT !.at = IF @ = "done" THEN @ ELSE "gone"]]
      /\ UNCHANGED <<v1, v4, v5, v6, v8, v10, v11, v12, v15, v16, v17>> /\ v5 = "closing"
    BY DEF Bridge!Abort, Bridge!turns, Bridge!agent, Bridge!timeline, Bridge!ghosts
<1>1. /\ Len(v7) \in Nat /\ DOMAIN v7 = 1 .. Len(v7) /\ \A i \in DOMAIN v7 : v7[i] \in Place
    BY Connections
<1>2. \A i \in DOMAIN v7 : /\ v7'[i] \in Place
                           /\ v7'[i].at \in {"done", "gone"} /\ (v7'[i].at = "done" => v7[i].at = "done")
                           /\ v7'[i].key = v7[i].key
    BY <1>0, <1>1 DEF Bridge!Where
<1>3. v7' \in Seq(Place) /\ DOMAIN v7' = DOMAIN v7
    <2>1. v7' = [i \in 1 .. Len(v7) |-> v7'[i]] /\ \A i \in 1 .. Len(v7) : v7'[i] \in Place
        BY <1>0, <1>1, <1>2
    <2> HIDE DEF Place
    <2>2. v7' \in [1 .. Len(v7) -> Place]
        BY <2>1
    <2>3. v7' \in Seq(Place)
        BY <1>1, <2>2
    <2>4. QED
        BY <1>0, <2>3
<1>4. Bridge!AllGone' /\ Bridge!Quiet' /\ Bridge!Working' = {}
    BY <1>0, <1>2, <1>3 DEF Bridge!AllGone, Bridge!Quiet, Bridge!Working
<1>5. \A q \in Bridge!Key : Bridge!Starts(q)' = Bridge!Starts(q) /\ Bridge!Ends(q)' = Bridge!Ends(q)
    BY <1>0, TableRests
<1>6. Bridge!BridgeShapes'
    BY <1>0, <1>3 DEF Bridge!BridgeShapes
<1>7. Bridge!OneHandler'
    <2>1. \A i \in DOMAIN v7' : v7'[i].at \notin {"asked", "gone"} => v8' = {Bridge!KeyOf(i)'[1]}
        BY <1>0, <1>2, <1>3 DEF Bridge!OneHandler, Bridge!KeyOf
    <2>2. QED
        BY <1>4, <2>1 DEF Bridge!OneHandler
<1>8. Bridge!StartedOnce'
    BY <1>0, <1>4, <1>5, StartedStays
<1>9. Bridge!EndedOnce'
    BY <1>0, <1>4, <1>5 DEF Bridge!EndedOnce
<1>10. Bridge!LossIsKnown'
    BY <1>0 DEF Bridge!LossIsKnown
<1>11. QED
    BY <1>6, <1>7, <1>8, <1>9, <1>10

LEMMA BridgeNextKeepsInv ==
    ASSUME Bridge!BridgeInv, Bridge!Next
    PROVE  Bridge!BridgeInv'
<1>1. CASE Bridge!Agent
    <2>1. CASE Bridge!RestartStdio \/ Bridge!Answered
        BY <2>1, TurnKeepsInv
    <2>2. ASSUME NEW c \in CallIds, Bridge!Invoke(c)
          PROVE  Bridge!BridgeInv'
        BY <2>2, ConnectKeepsInv DEF Bridge!Invoke
    <2>3. CASE Bridge!InvokeAgain
        <3>1. v6.of \in DOMAIN v7
            BY <2>3 DEF Bridge!InvokeAgain, Bridge!BridgeInv, Bridge!BridgeShapes
        <3>2. v7[v6.of].key \in Bridge!Key
            BY <3>1, Connections DEF Bridge!BridgeInv, Bridge!KeyOf
        <3>3. PICK c \in CallIds : c = v7[v6.of].key[2]
            BY <3>2 DEF Bridge!Key
        <3>4. v5 = "open" /\ Bridge!Connect(2, c)
            BY <2>3, <3>3 DEF Bridge!InvokeAgain
        <3>5. QED
            BY <3>4, ConnectKeepsInv
    <2>4. QED
        BY <1>1, <2>1, <2>2, <2>3 DEF Bridge!Agent
<1>2. CASE Bridge!End
    BY <1>2, TurnKeepsInv, AbortKeepsInv, InterruptedKeepsInv DEF Bridge!End
<1>3. CASE \E i \in Bridge!Conn : Bridge!Handler(i)
    <2>1. PICK i \in 1 .. Sockets : Bridge!Handler(i)
        BY <1>3 DEF Bridge!Conn
    <2>2. QED
        BY <2>1, AskedKeepsInv, StartKeepsBridgeInv, ExecuteKeepsInv, SettleKeepsInv, DoneKeepsInv
           DEF Bridge!Handler
<1>4. QED
    BY <1>1, <1>2, <1>3, TurnKeepsInv DEF Bridge!Next

LEMMA BridgeInvImpliesHonest ==
    Bridge!BridgeInv => Bridge!EffectOnce /\ Bridge!OneHonestEnd /\ Bridge!LostEventFailsTurn
<1> SUFFICES ASSUME Bridge!BridgeInv
             PROVE  Bridge!EffectOnce /\ Bridge!OneHonestEnd /\ Bridge!LostEventFailsTurn
    OBVIOUS
<1> USE DEF Bridge!BridgeInv
<1>1. Bridge!EffectOnce
    BY DEF Bridge!EffectOnce, Bridge!StartedOnce
<1>2. Bridge!LostEventFailsTurn
    BY DEF Bridge!LossIsKnown, Bridge!LostEventFailsTurn
<1>3. ASSUME NEW k \in Bridge!Key
      PROVE  /\ Bridge!Cardinality(Bridge!Starts(k)) <= 1 /\ Bridge!Cardinality(Bridge!Ends(k)) <= 1
             /\ \A e \in Bridge!Ends(k) : \E s \in Bridge!Starts(k) : s < e
             /\ k \in v16 => \A e \in Bridge!Ends(k) : v12[e][1] = "done"
    <2>1. /\ \A m, n \in Bridge!Starts(k) : m = n
          /\ \A m, n \in Bridge!Ends(k) : m = n
          /\ \A e \in Bridge!Ends(k) : \E s \in Bridge!Starts(k) : s < e
          /\ k \in v16 => \A e \in Bridge!Ends(k) : v12[e] = <<"done", k>>
        BY DEF Bridge!EndedOnce
    <2>2. Cardinality(Bridge!Starts(k)) <= 1 /\ Cardinality(Bridge!Ends(k)) <= 1
        BY <2>1, AtMostOne
    <2>3. Bridge!Cardinality(Bridge!Starts(k)) <= 1 /\ Bridge!Cardinality(Bridge!Ends(k)) <= 1
        BY <2>2, BridgeCardinality
    <2>4. QED
        BY <2>1, <2>3
<1>4. Bridge!OneHonestEnd
    BY <1>3 DEF Bridge!OneHonestEnd
<1>5. QED
    BY <1>1, <1>2, <1>4

-----------------------------------------------------------------------------
(* The parts together                                                      *)

PartsInv ==
    /\ part = "plugins" => Daemon!DaemonInv
    /\ part = "tools" => Tools!ToolsInv
    /\ part = "blobs" => Blob!BlobInv
    /\ part = "edits" => Edits!EditsInv
    /\ part = "config" => Config!ConfigInv
    /\ part = "bridge" => Bridge!BridgeInv

LEMMA PartsInitInv == MCInit => PartsInv
<1> SUFFICES ASSUME MCInit PROVE PartsInv
    OBVIOUS
<1>1. /\ part = "plugins" => Daemon!Init
      /\ part = "tools" => Tools!Init
      /\ part = "blobs" => Blob!Init
      /\ part = "edits" => Edits!Init
      /\ part = "config" => Config!Init
      /\ part = "bridge" => Bridge!Init
    BY DEF MCInit
<1>2. QED
    BY <1>1, DaemonInitInv, ToolsInitInv, BlobInitInv, EditsInitInv, ConfigInitInv, BridgeInitInv
       DEF PartsInv

LEMMA PartsNextInv ==
    ASSUME PartsInv, [MCNext]_mcvars
    PROVE  PartsInv'
<1>1. CASE DaemonStep
    <2>1. part = "plugins" /\ part' = "plugins" /\ Daemon!Next
        BY <1>1 DEF DaemonStep, Apart
    <2>2. Daemon!DaemonInv'
        BY <2>1, DaemonNextKeepsInv DEF PartsInv
    <2>3. QED
        BY <2>1, <2>2 DEF PartsInv
<1>2. CASE ToolsStep
    <2>1. part = "tools" /\ part' = "tools" /\ Tools!Next
        BY <1>2 DEF ToolsStep, Apart
    <2>2. Tools!ToolsInv'
        BY <2>1, ToolsNextKeepsInv DEF PartsInv
    <2>3. QED
        BY <2>1, <2>2 DEF PartsInv
<1>3. CASE BlobStep
    <2>1. part = "blobs" /\ part' = "blobs" /\ Blob!Next
        BY <1>3 DEF BlobStep, Apart
    <2>2. Blob!BlobInv'
        BY <2>1, BlobNextKeepsInv DEF PartsInv
    <2>3. QED
        BY <2>1, <2>2 DEF PartsInv
<1>4. CASE EditsStep
    <2>1. part = "edits" /\ part' = "edits" /\ Edits!Next
        BY <1>4 DEF EditsStep, Apart
    <2>2. Edits!EditsInv'
        BY <2>1, EditsNextKeepsInv DEF PartsInv
    <2>3. QED
        BY <2>1, <2>2 DEF PartsInv
<1>5. CASE ConfigStep
    <2>1. part = "config" /\ part' = "config" /\ Config!Next
        BY <1>5 DEF ConfigStep, Apart
    <2>2. Config!ConfigInv'
        BY <2>1, ConfigNextKeepsInv DEF PartsInv
    <2>3. QED
        BY <2>1, <2>2 DEF PartsInv
<1>6. CASE CallsStep
    <2>1. part = "bridge" /\ part' = "bridge" /\ Bridge!Next
        BY <1>6 DEF CallsStep, Apart
    <2>2. Bridge!BridgeInv'
        BY <2>1, BridgeNextKeepsInv DEF PartsInv
    <2>3. QED
        BY <2>1, <2>2 DEF PartsInv
<1>7. CASE ScopeStep \/ PagesStep \/ ReadsStep \/ RowsStep \/ HeadsStep
           \/ TreeStep \/ ViewStep \/ CodexStep \/ EventsStep \/ ClaudeStep \/ WordsStep
    <2>1. /\ part' = part
          /\ part \in {"scope", "pages", "reads", "rows", "headlines", "threads", "views",
                       "codex", "codex tools", "claude", "claude text"}
        BY <1>7 DEF ScopeStep, PagesStep, ReadsStep, RowsStep, HeadsStep, TreeStep, ViewStep,
           CodexStep, EventsStep, ClaudeStep, WordsStep, Apart
    <2>2. QED
        BY <2>1 DEF PartsInv
<1>8. CASE UNCHANGED mcvars
    <2>1. /\ part' = part
          /\ UNCHANGED <<v1, v2, v3, v4, v5, v6, v7, v8, v9, v10, v11, v12, v15, v16, v17>>
        BY <1>8 DEF mcvars
    <2>2. Daemon!DaemonInv => Daemon!DaemonInv'
        BY <2>1 DEF Daemon!DaemonInv, Daemon!DaemonShapes, Daemon!BodiesAreRun, Daemon!DaemonIsOwned,
           Daemon!TableIsTrue, Daemon!BodiesAreOwned, Daemon!Tasks, Daemon!Running
    <2>3. Tools!ToolsInv => Tools!ToolsInv'
        BY <2>1 DEF Tools!ToolsInv, Tools!ToolShapes, Tools!OneGroupPerPid, Tools!Groups,
           Tools!GroupsEnd, Tools!KindsOfCalls, Tools!OneEditor, Tools!HeldUntilReaped,
           Tools!AnsweredIsDone, Tools!CommandIsOver, Tools!SignalsStayHome, Tools!EditsLand,
           Tools!ClosedIsIdle
    <2>4. Blob!BlobInv => Blob!BlobInv'
        BY <2>1 DEF Blob!BlobInv, Blob!BlobShapes, Blob!RowsAreOver, Blob!FilesStand,
           Blob!ResetIsAlone, Blob!RowHasFile, Blob!Twins
    <2>5. Edits!EditsInv => Edits!EditsInv'
        BY <2>1 DEF Edits!EditsInv, Edits!EditShapes, Edits!ContentIsReceipts, Edits!PublishedHasReceipt
    <2>6. Config!ConfigInv => Config!ConfigInv'
        BY <2>1 DEF Config!ConfigInv, Config!ConfigShapes, Config!LocksHold, Config!RewritesFit,
           Config!ClientsTold, Config!ShownSurface, Config!DerivedStands, Config!Calm,
           Config!SettingsAreKept
    <2>7. Bridge!BridgeInv => Bridge!BridgeInv'
        <3>1. SUFFICES ASSUME Bridge!BridgeInv PROVE Bridge!BridgeInv'
            OBVIOUS
        <3>2. /\ v12' \in Seq(Bridge!Event) /\ Bridge!LossIsKnown' /\ v17' \in Nat
              /\ \A k \in Bridge!Key :
                    Bridge!Starts(k)' = Bridge!Starts(k) /\ Bridge!Ends(k)' = Bridge!Ends(k)
            BY <2>1, <3>1, TableRests DEF Bridge!BridgeInv, Bridge!BridgeShapes, Bridge!LossIsKnown
        <3>3. /\ v6' \in [inst : Bridge!Bridge, tries : 0 .. 2, of : Nat]
              /\ v6'.tries > 0 => v6'.of \in DOMAIN v7
              /\ v5' = "closed" => Bridge!AllGone
            BY <2>1, <3>1 DEF Bridge!BridgeInv, Bridge!BridgeShapes, Bridge!OneHandler
        <3>4. QED
            BY <2>1, <3>1, <3>2, <3>3, HandlersRest
    <2>8. QED
        BY <2>1, <2>2, <2>3, <2>4, <2>5, <2>6, <2>7 DEF PartsInv
<1>9. QED
    BY <1>1, <1>2, <1>3, <1>4, <1>5, <1>6, <1>7, <1>8 DEF MCNext

\* In every behaviour of a part its invariant holds.
LEMMA PartsHold == MCSpec => []PartsInv
<1>1. MCInit => PartsInv
    BY PartsInitInv
<1>2. PartsInv /\ [MCNext]_mcvars => PartsInv'
    BY PartsNextInv
<1>3. QED
    BY <1>1, <1>2, PTL DEF MCSpec

\* What was answered or stopped is over, for any number of calls, pids, faults,
\* toggles, panics and starts: no process of an answered command runs, no signal
\* leaves its group, no answered edit is lost, a shut host runs no call
\* (native_coding_tools), and a daemon whose body runs is the one the plugin's row
\* names, or its supervisor was aborted (plugins).
THEOREM AnsweredOperationsAreDone == MCSpec => []AnsweredIsDone
<1>1. PartsInv => AnsweredIsDone
    BY DEF PartsInv, AnsweredIsDone, Tools!ToolsInv, Daemon!DaemonInv
<1>2. QED
    BY <1>1, PartsHold, PTL

\* What is stored in two places agrees, for any number of uploads, edits, attempts,
\* resets, stops and providers: a row and its file (blobs.rs), an artifact's content,
\* its cards and the receipts of its edits (artifact_tools.rs), hirsel.toml, what
\* clients were told and the default execution (host_config).
THEOREM StoresStayTogether == MCSpec => []StoresAgree
<1>1. PartsInv => StoresAgree
    BY EditsInvImpliesKept, ConfigInvImpliesStands DEF PartsInv, StoresAgree, Blob!BlobInv
<1>2. QED
    BY <1>1, PartsHold, PTL

\* A tool call of a CLI turn, for any number of calls, connections and failed
\* writes: it takes effect once, though its answer is lost, it is sent again or the
\* bridge is restarted; it has one start and at most one end, and what returned is
\* never reported as interrupted; a turn that lost an event of its timeline does not
\* end as completed (thread_tool_bridge.rs, telemetry.rs).
THEOREM CallsStayHonest == MCSpec => []CallsAreHonest
<1>1. PartsInv => CallsAreHonest
    BY BridgeInvImpliesHonest DEF PartsInv, CallsAreHonest
<1>2. QED
    BY <1>1, PartsHold, PTL

=============================================================================
