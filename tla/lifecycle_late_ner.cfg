SPECIFICATION Spec
CONSTANTS
  Writers = {w1}
  MaxNotes = 2
  Entities <- MCEntities
  Mentions <- MCMentions
  LlmMentions <- MCLlmMentions
  Background = {"worker"}
  Limits <- RememberLimits
INVARIANT SupersededNotIndexed
CHECK_DEADLOCK FALSE
