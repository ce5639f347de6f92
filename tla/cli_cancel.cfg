SPECIFICATION EndlessSpec
CONSTANTS
  None = None
  p = p
  c = c
  po = po
  po2 = po2
  co = co
  cd = cd
  cw = cw
  cr = cr
  pb = pb
  Thread <- Family
  Parent <- FamilyParent
  Turn <- SmallTurns
  ThreadOf <- SmallThreadOf
  KindOf <- SmallKindOf
  ReportOf <- SmallReportOf
  ExecOf <- SmallCli
  Capacity = 1
  Budget <- MarkBudget
PROPERTIES CancelEnds
