------------------------------ MODULE MCSynthesis ------------------------------
(* Synthesis over two questions and three notes, for TLC. *)
EXTENDS Synthesis, TLC

\* Notes by entity and by search; enough of them by entity for the first question only.
EntityHitsOf == [a |-> <<"s1", "s2">>, b |-> <<"s2">>] @@ ("" :> <<>>)
SearchHitsOf == [a |-> <<"s3">>, b |-> <<"s2", "s3">>] @@ ("" :> <<>>)
=============================================================================
