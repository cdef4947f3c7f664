SPECIFICATION Spec
CONSTANTS
  Writers = {w1}
  MaxNotes = 2
  Entities <- MCEntities
  Mentions <- MCMentions
  LlmMentions <- MCLlmMentions
  Background = {"worker"}
  Limits <- EvolveLimits
INVARIANT MarksLast
CHECK_DEADLOCK FALSE
