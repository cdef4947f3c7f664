SPECIFICATION FairSpec
CONSTANTS
  c1 = c1
  c2 = c2
  n1 = n1
  n2 = n2
  Callers <- TwoCallers
  Notes <- OneNote
  Deep = {}
  QueueMax = 1
  MinNotes = 1
  NerEnabled = FALSE
  Limit <- LivenessLimit
  NoJob = NoJob
PROPERTIES EveryJobSettles FlushReturns
CHECK_DEADLOCK FALSE
