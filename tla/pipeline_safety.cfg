SPECIFICATION Spec
CONSTANTS
  c1 = c1
  c2 = c2
  n1 = n1
  n2 = n2
  Callers <- TwoCallers
  Notes <- OneNote
  Deep <- OneNote
  QueueMax = 1
  MinNotes = 1
  NerEnabled = TRUE
  Limit <- SafetyLimit
  NoJob = NoJob
INVARIANTS TypeOK OneOwner NoRowForgotten UnfinishedExact RowTruth
PROPERTIES FlushBarrier DrainLeavesOnlyInFlight LedgerSpec
SYMMETRY CallerSymmetry
CHECK_DEADLOCK FALSE
