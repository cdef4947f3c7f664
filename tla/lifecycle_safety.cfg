SPECIFICATION Spec
CONSTANTS
  Writers = {w1, w2}
  MaxNotes = 3
  Entities <- MCEntities
  Mentions <- MCMentions
  LlmMentions <- MCLlmMentions
  Background = {"worker", "consolidator"}
  Limits <- SafetyLimits
SYMMETRY WriterSymmetry
INVARIANT TypeOK LinksHaveEdges OlderOnlyInRaces NeverSupersededIsIndexed
CHECK_DEADLOCK FALSE
