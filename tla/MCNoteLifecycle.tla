----------------------------- MODULE MCNoteLifecycle -----------------------------
EXTENDS NoteLifecycle, TLC

MCEntities == {"actor", "person"}
MCMentions == [n \in 1..MaxNotes |-> {"actor"}]
MCLlmMentions == [n \in 1..MaxNotes |-> IF n = 1 THEN {"person"} ELSE {}]
WriterSymmetry == Permutations(Writers)

Budget(n, e, f, r, d) ==
  [notes |-> n, extractions |-> e, faults |-> f, rewrites |-> r, discoveries |-> d]
\* Everything at once between two notes; among three, one or two of the rare events.
SafetyLimits == {Budget(2, 1, 1, 1, 1), Budget(3, 1, 0, 0, 1), Budget(3, 0, 1, 0, 1), Budget(3, 0, 0, 1, 0)}
\* One evolution job, or nothing but remember() and NER.
EvolveLimits == {Budget(2, 0, 0, 1, 0)}
RememberLimits == {Budget(2, 0, 0, 0, 1)}
=============================================================================
