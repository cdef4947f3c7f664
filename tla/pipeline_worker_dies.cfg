SPECIFICATION Spec
CONSTANTS
  c1 = c1
  c2 = c2
  n1 = n1
  n2 = n2
  Callers <- TwoCallers
  Notes <- OneNote
  Deep <- OneNote
  QueueMax = 2
  MinNotes = 2
  NerEnabled = FALSE
  Limit <- WorkerDiesLimit
  NoJob = NoJob
INVARIANT WorkerLivesUntilExit
CHECK_DEADLOCK FALSE
