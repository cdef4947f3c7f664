SPECIFICATION Spec
CONSTANTS
  Writers = {w1, w2}
  MaxNotes = 2
  Entities <- MCEntities
  Mentions <- MCMentions
  LlmMentions <- MCLlmMentions
  Background = {}
  Limits <- RememberLimits
INVARIANT SupersededByNewer
CHECK_DEADLOCK FALSE
