SPECIFICATION Spec
CONSTANTS
  None = None
  p = p
  c = c
  po = po
  po2 = po2
  co = co
  cd = cd
  cw = cw
  cr = cr
  pb = pb
  Thread <- Family
  Parent <- FamilyParent
  Turn <- MixedTurns
  ThreadOf <- MixedThreadOf
  KindOf <- MixedKindOf
  ReportOf <- MixedReportOf
  ExecOf <- MixedExecOf
  Capacity = 2
  Budget <- CommandBudget
PROPERTIES FailsOnlyIfRun
