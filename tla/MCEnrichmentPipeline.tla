-------------------------- MODULE MCEnrichmentPipeline --------------------------
(* Small instances of EnrichmentPipeline for TLC. *)
EXTENDS EnrichmentPipeline, TLC

CONSTANTS c1, c2, n1, n2

TwoCallers == {c1, c2}
TwoNotes == {n1, n2}
OneNote == {n1}
CallerSymmetry == Permutations({c1, c2})

\* How often each bounded event happens, per run.
SafetyLimit == [faults |-> 2, timeouts |-> 1, deletes |-> 1, evolves |-> 1, stops |-> 1]
LivenessLimit == [faults |-> 1, timeouts |-> 0, deletes |-> 1, evolves |-> 1, stops |-> 1]
CleanExitLimit == [faults |-> 0, timeouts |-> 0, deletes |-> 0, evolves |-> 0, stops |-> 1]
WorkerDiesLimit == [faults |-> 2, timeouts |-> 0, deletes |-> 0, evolves |-> 0, stops |-> 0]
=============================================================================
