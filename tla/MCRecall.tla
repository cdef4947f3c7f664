------------------------------- MODULE MCRecall -------------------------------
(* Recall over three notes, for TLC. *)
EXTENDS Recall, TLC

\* What the indexes hold for a query: a temporal one without a graph, a causal one whose graph
\* disagrees with the vectors.  One note of notes.jsonl has been in it since it was current, one
\* was superseded there already; one has no row in LanceDB.
SomeWorlds ==
  {[sim |-> [a |-> 3, b |-> 2, c |-> 1], rows |-> {"a", "b"}, boosted |-> IF graph = <<>> THEN {} ELSE {"b"},
    related |-> [a |-> <<"c">>, b |-> <<"c">>, c |-> <<>>],
    held |-> {"a", "b"}, old |-> [n \in Note |-> [superseded |-> n = "b", related |-> <<"c", "b">>]],
    graph |-> graph, causal |-> <<"b", "c">>, indexed |-> <<"c", "a">>, weights |-> <<2, 5>>,
    isCausal |-> graph # <<>>, dated |-> IF graph = <<>> THEN {"c"} ELSE {}] :
      graph \in {<<>>, <<<<"b", 1>>, <<"c", 2>>>>}}
=============================================================================
