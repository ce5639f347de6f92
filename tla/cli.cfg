SPECIFICATION Spec
CONSTANTS
  None = None
  p = p
  c = c
  po = po
  po2 = po2
  co = co
  cd = cd
  cw = cw
  cr = cr
  pb = pb
  Thread <- Family
  Parent <- FamilyParent
  Turn <- CliTurns
  ThreadOf <- CliThreadOf
  KindOf <- CliKindOf
  ReportOf <- CliReportOf
  ExecOf <- CliExecOf
  Capacity = 1
  Budget <- CliBudget
INVARIANTS CancelIsAddressed EndedDriverIsSignalled AcceptedIsHeld
PROPERTIES FailsOnlyIfRun LedgerSpec
SYMMETRY OwnerMessages
