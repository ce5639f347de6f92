SPECIFICATION Spec
CONSTANTS
  None = None
  p = p
  c = c
  po = po
  po2 = po2
  co = co
  cd = cd
  cw = cw
  cr = cr
  pb = pb
  Thread <- Family
  Parent <- FamilyParent
  Turn <- NativeTurns
  ThreadOf <- NativeThreadOf
  KindOf <- NativeKindOf
  ReportOf <- NativeReportOf
  ExecOf <- NativeExecOf
  Capacity = 1
  Budget <- NativeBudget
INVARIANTS TypeOK DrainedTurnRuns AcceptedIsHeld
PROPERTIES NoReplay
