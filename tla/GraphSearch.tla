----------------------------- MODULE GraphSearch -----------------------------
(***************************************************************************)
(* The three searches of the knowledge graph: traverse_kg (depth first),   *)
(* GraphRetriever (breadth first from each entity of a query, for notes)   *)
(* and the causal search (breadth first along causal edges, either way,    *)
(* for edges).  All of them read the edges of one node at a time and hold  *)
(* no lock in between, while remember() and the enrichment worker go on    *)
(* adding edges; no code deletes one.                                      *)
(***************************************************************************)
EXTENDS Integers, Sequences, SequencesExt, FiniteSets, FiniteSetsExt

CONSTANTS Entity, NoteNode,      \* the nodes, by type
          CausalPairs,           \* the edges whose edge_type is "causal"
          PossibleEdges,         \* bound: the edges the graph may have
          TraverseDepths, HopLimit, CausalDepth, MaxVisited,   \* 2 and below; 2; 3; 50
          MaxGrowth              \* bound: edges added while a search runs

ASSUME SearchConstants ==
  /\ Entity \cap NoteNode = {} /\ PossibleEdges \subseteq (Entity \cup NoteNode) \X (Entity \cup NoteNode)
  /\ IsFiniteSet(Entity) /\ IsFiniteSet(NoteNode)
  /\ HopLimit \in Nat /\ CausalDepth \in Nat /\ MaxVisited \in Nat /\ TraverseDepths \subseteq Nat

VARIABLES edges,    \* pairs of nodes
          before,   \* the edges when the search began
          search    \* the search under way
searchVars == <<edges, before, search>>

Vertex == Entity \cup NoteNode
SearchKinds == {"traverse", "notes", "causal", "incoming"}
NotFound == -1

Ready == [kind |-> "none", depth |-> 0, starts |-> <<>>, turn |-> 1, queue |-> <<>>, visited |-> <<>>,
          hops |-> [n \in NoteNode |-> NotFound], found |-> <<>>, stack |-> <<>>, done |-> FALSE]

SearchTypeOK ==
  /\ edges \subseteq PossibleEdges /\ before \subseteq edges
  /\ search.kind \in SearchKinds \cup {"none"}
  /\ \A i \in DOMAIN search.queue :
       search.queue[i] \in Vertex \X (0..IF search.kind = "notes" THEN HopLimit ELSE CausalDepth + 1)
  /\ \A i \in DOMAIN search.stack : search.stack[i].node \in Vertex /\ search.stack[i].todo \subseteq Vertex
  /\ search.kind = "traverse" =>
       /\ search.depth \in 0..2 /\ search.queue = <<>>
       /\ search.visited # <<>> => Len(search.stack) <= search.depth
  /\ ToSet(search.visited) \subseteq Vertex
  /\ search.hops \in [NoteNode -> NotFound..HopLimit]

SearchInit ==
  /\ edges \in SUBSET PossibleEdges
  /\ before = {} /\ search = Ready

\* Another thread's add_kg_edge.
Grow(e) ==
  /\ Cardinality(edges) < Cardinality(before) + MaxGrowth
  /\ e \notin edges /\ search.kind # "none"
  /\ edges' = edges \cup {e}
  /\ UNCHANGED <<before, search>>

\* What one SELECT returns for a node, in no particular order.
From(v) == {e[2] : e \in {p \in edges : p[1] = v}}
CausalFrom(v) ==
  IF search.kind = "causal" THEN {p \in edges \cap CausalPairs : p[1] = v}
  ELSE {p \in edges \cap CausalPairs : p[2] = v}
OtherEnd(p) == IF search.kind = "causal" THEN p[2] ELSE p[1]
Visited(v) == v \in ToSet(search.visited)

-----------------------------------------------------------------------------
\* Mutation of Traverse: the depth is not capped.
TraverseUncapped(v, depth) ==
  /\ search = Ready
  /\ before' = edges
  /\ search' = [Ready EXCEPT !.kind = "traverse", !.depth = depth,
                             !.stack = <<[node |-> v, todo |-> {}]>>, !.starts = <<v>>]
  /\ UNCHANGED edges

\* traverse_graph caps the depth it is asked for at two; the search starts at depth one.
Traverse(v, depth) ==
  /\ search = Ready
  /\ before' = edges
  /\ search' = [Ready EXCEPT !.kind = "traverse", !.depth = IF depth > 2 THEN 2 ELSE depth,
                             !.stack = <<[node |-> v, todo |-> {}]>>, !.starts = <<v>>]
  /\ UNCHANGED edges

Top == Last(search.stack)
PathTo(v) == [i \in 1..Len(search.stack) |-> search.stack[i].node] \o <<v>>
\* Entering a node, at the depth of the frame it gets: back out, or read its edges.
Enter(stack, v, depth) ==
  IF depth > search.depth \/ Visited(v) THEN stack ELSE Append(stack, [node |-> v, todo |-> From(v)])
Mark(v, depth) ==
  IF depth > search.depth \/ Visited(v) THEN search.visited ELSE Append(search.visited, v)

Begin ==
  /\ search.kind = "traverse" /\ search.visited = <<>> /\ ~search.done
  /\ search' = [search EXCEPT !.stack = Enter(<<>>, Top.node, 1), !.visited = Mark(Top.node, 1),
                              !.done = search.depth = 0]
  /\ UNCHANGED <<edges, before>>

Descend(v) ==
  /\ search.kind = "traverse" /\ search.visited # <<>> /\ ~search.done
  /\ v \in Top.todo
  /\ LET depth == Len(search.stack) + 1
         rest == Append(Front(search.stack), [Top EXCEPT !.todo = @ \ {v}]) IN
     search' = [search EXCEPT !.found = Append(@, PathTo(v)), !.stack = Enter(rest, v, depth),
                              !.visited = Mark(v, depth)]
  /\ UNCHANGED <<edges, before>>

Ascend ==
  /\ search.kind = "traverse" /\ search.visited # <<>> /\ ~search.done
  /\ Top.todo = {}
  /\ search' = [search EXCEPT !.stack = Front(@), !.done = Len(search.stack) = 1]
  /\ UNCHANGED <<edges, before>>

-----------------------------------------------------------------------------
\* retrieve_note_ids: one breadth first search for each entity of the query.
RetrieveNotes(starts) ==
  /\ search = Ready
  /\ before' = edges
  /\ search' = [Ready EXCEPT !.kind = "notes", !.starts = starts, !.queue = <<<<Head(starts), 0>>>>]
  /\ UNCHANGED edges

CausalSearch(v, kind) ==
  /\ search = Ready
  /\ before' = edges
  /\ search' = [Ready EXCEPT !.kind = kind, !.starts = <<v>>, !.queue = <<<<v, 0>>>>]
  /\ UNCHANGED edges

\* Mutation of Nearer: the last search that meets a note decides.
NearerLatest(v, hops) == IF v \in NoteNode THEN [search.hops EXCEPT ![v] = hops] ELSE search.hops

\* score > best.score, for the score 1 / (1 + hops)
Nearer(v, hops) ==
  IF v \in NoteNode /\ (search.hops[v] = NotFound \/ hops < search.hops[v])
  THEN [search.hops EXCEPT ![v] = hops] ELSE search.hops
Unseen(S, v) == {x \in S : ~Visited(x) /\ x # v}
AtDepth(S, d) == SetToSeq({<<x, d>> : x \in S})

\* Mutation of Dequeue: neighbors of the last hop are queued too.
DequeueTooDeep ==
  /\ search.kind = "notes" /\ search.queue # <<>>
  /\ LET v == Head(search.queue)[1]
         d == Head(search.queue)[2] IN
     search' =
       IF Visited(v) THEN [search EXCEPT !.queue = Tail(@)]
       ELSE [search EXCEPT !.queue = Tail(@) \o (IF d > HopLimit THEN <<>> ELSE AtDepth(Unseen(From(v), v), d + 1)),
                           !.visited = Append(@, v), !.hops = Nearer(v, d)]
  /\ UNCHANGED <<edges, before>>

Dequeue ==
  /\ search.kind = "notes" /\ search.queue # <<>>
  /\ LET v == Head(search.queue)[1]
         d == Head(search.queue)[2] IN
     search' =
       IF Visited(v) THEN [search EXCEPT !.queue = Tail(@)]
       ELSE [search EXCEPT !.queue = Tail(@) \o (IF d >= HopLimit THEN <<>> ELSE AtDepth(Unseen(From(v), v), d + 1)),
                           !.visited = Append(@, v), !.hops = Nearer(v, d)]
  /\ UNCHANGED <<edges, before>>

NextStart ==
  /\ search.kind = "notes" /\ search.queue = <<>> /\ ~search.done
  /\ search' = IF search.turn = Len(search.starts) THEN [search EXCEPT !.done = TRUE]
               ELSE [search EXCEPT !.turn = @ + 1, !.visited = <<>>,
                                   !.queue = <<<<search.starts[search.turn + 1], 0>>>>]
  /\ UNCHANGED <<edges, before>>

\* Mutation of Expand: pop() in place of popleft(), a depth first search.
ExpandLatest ==
  /\ search.kind \in {"causal", "incoming"} /\ ~search.done
  /\ search.queue # <<>> /\ Len(search.visited) < MaxVisited
  /\ LET v == Head(search.queue)[1]
         d == Head(search.queue)[2] IN
     search' =
       IF d > CausalDepth \/ Visited(v) THEN [search EXCEPT !.queue = Tail(@)]
       ELSE [search EXCEPT
               !.queue = AtDepth(Unseen({OtherEnd(p) : p \in CausalFrom(v)}, v), d + 1) \o Tail(@),
               !.visited = Append(@, v), !.found = @ \o SetToSeq(CausalFrom(v))]
  /\ UNCHANGED <<edges, before>>

\* A node is expanded at any depth up to the limit, so that its edges may lead one further.
Expand ==
  /\ search.kind \in {"causal", "incoming"} /\ ~search.done
  /\ search.queue # <<>> /\ Len(search.visited) < MaxVisited
  /\ LET v == Head(search.queue)[1]
         d == Head(search.queue)[2] IN
     search' =
       IF d > CausalDepth \/ Visited(v) THEN [search EXCEPT !.queue = Tail(@)]
       ELSE [search EXCEPT
               !.queue = Tail(@) \o AtDepth(Unseen({OtherEnd(p) : p \in CausalFrom(v)}, v), d + 1),
               !.visited = Append(@, v), !.found = @ \o SetToSeq(CausalFrom(v))]
  /\ UNCHANGED <<edges, before>>

CausalDone ==
  /\ search.kind \in {"causal", "incoming"} /\ ~search.done
  /\ search.queue = <<>> \/ Len(search.visited) >= MaxVisited
  /\ search' = [search EXCEPT !.done = TRUE]
  /\ UNCHANGED <<edges, before>>

SearchNext ==
  \/ \E v \in Entity : \/ \E d \in TraverseDepths : Traverse(v, d)
                       \/ \E kind \in {"causal", "incoming"} : CausalSearch(v, kind)
                       \/ \E w \in Entity : RetrieveNotes(<<v, w>>)
  \/ Begin \/ Ascend \/ (\E v \in Vertex : Descend(v)) \/ Dequeue \/ NextStart \/ Expand \/ CausalDone
  \/ \E e \in PossibleEdges : Grow(e)
SearchSpec == SearchInit /\ [][SearchNext]_searchVars

-----------------------------------------------------------------------------
\* The nodes within n steps of S along the edges E.
Step(E, S) == S \cup {e[2] : e \in {p \in E : p[1] \in S}}
Within(E, S, n) ==
  LET reached[i \in 0..n] == IF i = 0 THEN S ELSE Step(E, reached[i - 1]) IN reached[n]

\* A note of the graph as it was is found, no further away than it was; and what is found is
\* as near as it is said to be in the graph as it is: scores are 1 / (1 + distance) although
\* edges arrive while the search runs (graph_retriever.py:98, one read per node).
HopsExact ==
  search.kind = "notes" /\ search.done =>
    \A n \in NoteNode :
      LET starts == ToSet(search.starts)
          near(E, d) == n \in Within(E, starts, d) IN
      /\ near(before, HopLimit) => search.hops[n] # NotFound
      /\ \A d \in 0..HopLimit : near(before, d) /\ search.hops[n] # NotFound => search.hops[n] <= d
      /\ search.hops[n] # NotFound => near(edges, search.hops[n])

\* traverse_graph returns walks of the graph from the start, none longer than the depth, and
\* reaches whatever was within the depth when it began, its visited set notwithstanding: true
\* for the depths that traverse_graph lets through (memory_manager.py:1762).
WalksExact ==
  search.kind = "traverse" =>
    /\ \A i \in DOMAIN search.found :
         LET walk == search.found[i] IN
         /\ Head(walk) = search.starts[1] /\ Len(walk) - 1 \in 1..search.depth
         /\ \A j \in 1..Len(walk) - 1 : <<walk[j], walk[j + 1]>> \in edges
    /\ search.done => Within(before, ToSet(search.starts), search.depth) \subseteq
         ToSet(search.starts) \cup {Last(w) : w \in ToSet(search.found)}

Along(E) == IF search.kind = "causal" THEN E \cap CausalPairs ELSE {<<e[2], e[1]>> : e \in E \cap CausalPairs}

\* The causal search reports no edge twice, and when max_visited stops it, what it has expanded
\* is what was nearest: nothing expanded is further away than something it left out.
CausalNearestFirst ==
  search.kind \in {"causal", "incoming"} /\ search.done =>
    LET within(E, d) == Within(Along(E), ToSet(search.starts), d)
        expanded == ToSet(search.visited) IN
    /\ IsInjective(search.found)
    /\ ToSet(search.found) \subseteq edges
    /\ Len(search.visited) < MaxVisited => within(before, CausalDepth) \subseteq expanded
    /\ \A d \in 0..CausalDepth : within(before, d) \subseteq expanded \/ expanded \subseteq within(edges, d)
=============================================================================
