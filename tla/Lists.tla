--------------------------------- MODULE Lists ---------------------------------
(***************************************************************************)
(* Python's filters, slices and sorts of lists, with a set where Python    *)
(* takes a function: which entries pass, which pairs may stand in order.   *)
(***************************************************************************)
EXTENDS Integers, Sequences, SequencesExt, FiniteSets

\* The entries of s that are in S, in the order they have in s.
Only(s, S) == FoldLeft(LAMBDA kept, x : IF x \in S THEN Append(kept, x) ELSE kept, <<>>, s)

\* The first n entries of s, or all there are: Python's s[:n].
Take(s, n) == SubSeq(s, 1, IF n < Len(s) THEN n ELSE Len(s))

\* The members of S, each once, in an order that the pairs R allow.
Arranged(S, R) ==
  CHOOSE p \in [1..Cardinality(S) -> S] :
    IsInjective(p) /\ \A i, j \in DOMAIN p : i < j => <<p[i], p[j]>> \in R

\* The list s with its entries in descending order of their keys; equal ones keep their order.
Descending(s, key) ==
  LET D == DOMAIN s
      order == Arranged(D, {p \in D \X D : \/ key[p[1]] > key[p[2]]
                                           \/ key[p[1]] = key[p[2]] /\ p[1] < p[2]})
  IN [i \in D |-> s[order[i]]]
=============================================================================
