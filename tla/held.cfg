SPECIFICATION Spec
CONSTANTS
  None = None
  p = p
  c = c
  po = po
  po2 = po2
  co = co
  cd = cd
  cw = cw
  cr = cr
  pb = pb
  Thread <- Family
  Parent <- FamilyParent
  Turn <- HeldTurns
  ThreadOf <- HeldThreadOf
  KindOf <- HeldKindOf
  ReportOf <- HeldReportOf
  ExecOf <- HeldExecOf
  Capacity = 1
  Budget <- HeldBudget
INVARIANTS ReportedOnce OneAdmittedInput
PROPERTIES FifoStart
SYMMETRY OwnerMessages
