--------------------------- MODULE MCThreadTurns ---------------------------
(***************************************************************************)
(* Instances of ThreadTurns for TLC. All of them use a root Thread p with  *)
(* one child c; what differs is which turns may be accepted, on which      *)
(* executor each was captured, and the budget of environment events.       *)
(***************************************************************************)
EXTENDS ThreadTurns, TLC

\* po, po2   Owner messages in p      co   an Owner message in c
\* cd        work p delegates to c    cw   a process wake of c
\* cr        the report of the one turn of c to p
\* pb        a background turn of p
CONSTANTS p, c, po, po2, co, cd, cw, cr, pb

Family == {p, c}
FamilyParent == p :> None @@ c :> p

ThreadOfName == po :> p @@ po2 :> p @@ co :> c @@ cd :> c @@ cw :> c
                @@ cr :> p @@ pb :> p
KindOfName == po :> "owner" @@ po2 :> "owner" @@ co :> "owner" @@ cd :> "delegated"
              @@ cw :> "wake" @@ cr :> "report" @@ pb :> "background"
On(S, names) == [t \in S |-> names[t]]
ReportsIn(S) == [t \in S |-> IF ThreadOfName[t] = c THEN cr ELSE None]
All(S, exec) == [t \in S |-> exec]

\* Two Owner messages in p are interchangeable: same Thread, kind and executor.
\* Only runs of safety properties use it.
OwnerMessages == Permutations({po, po2})

Only(f) == [e \in Events |-> IF e \in DOMAIN f THEN f[e] ELSE 0]

\* Native: an Owner turn in each Thread, the report, a background turn.
NativeTurns == {po, co, cr, pb}
NativeThreadOf == On(NativeTurns, ThreadOfName)
NativeKindOf == On(NativeTurns, KindOfName)
NativeReportOf == ReportsIn(NativeTurns)
NativeExecOf == All(NativeTurns, "native")
NativeBudget == Only("drop" :> 1 @@ "command" :> 1 @@ "empty" :> 1 @@ "crash" :> 1)

\* Native with two requests in one lane and a report among them.
HeldTurns == {po, po2, cd, cr}
HeldThreadOf == On(HeldTurns, ThreadOfName)
HeldKindOf == On(HeldTurns, KindOfName)
HeldReportOf == ReportsIn(HeldTurns)
HeldExecOf == All(HeldTurns, "native")
HeldBudget == Only("archive" :> 1 @@ "snooze" :> 1)
SnoozeBudget == Only("snooze" :> 1 @@ "crash" :> 1)
StopBudget == Only("stop" :> 1)
ArchiveBudget == Only("archive" :> 1)

\* CLI: two messages in one Thread, a wake in the other and its report.
CliTurns == {po, po2, cw, cr}
CliThreadOf == On(CliTurns, ThreadOfName)
CliKindOf == On(CliTurns, KindOfName)
CliReportOf == ReportsIn(CliTurns)
CliExecOf == All(CliTurns, "cli")
CliBudget == Only("stop" :> 1 @@ "drop" :> 1)

\* Mixed: the Owner moved p from CLI to Native between two messages.
MixedTurns == {po, po2, pb}
MixedThreadOf == On(MixedTurns, ThreadOfName)
MixedKindOf == On(MixedTurns, KindOfName)
MixedReportOf == ReportsIn(MixedTurns)
MixedExecOf == po :> "cli" @@ po2 :> "native" @@ pb :> "native"
MixedBudget == Only("stop" :> 1 @@ "drop" :> 1 @@ "command" :> 1 @@ "fault" :> 1
                    @@ "crash" :> 1)
CommandBudget == Only("command" :> 1)

\* Three turns for the temporal properties.
SmallTurns == {po, co, cr}
SmallThreadOf == On(SmallTurns, ThreadOfName)
SmallKindOf == On(SmallTurns, KindOfName)
SmallReportOf == ReportsIn(SmallTurns)
SmallNative == All(SmallTurns, "native")
SmallCli == All(SmallTurns, "cli")
RetryBudget == Only("empty" :> 1 @@ "crash" :> 1)
LostBudget == Only("drop" :> 1 @@ "crash" :> 1 @@ "empty" :> 1 @@ "snooze" :> 1)
MarkBudget == Only("mark" :> 1)
=============================================================================
