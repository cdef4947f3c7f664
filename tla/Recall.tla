------------------------------- MODULE Recall -------------------------------
(***************************************************************************)
(* MemoryManager.recall: vector search with boosts and links, the graph    *)
(* search, their blend, the causal and the entity stage, reranking, and    *)
(* the filters at the end, each stage reading the store on its own while   *)
(* other threads supersede and delete notes; with recall_timeout_seconds   *)
(* all of that runs on a pool thread the caller waits for.  The vector     *)
(* stage also reads notes.jsonl, the file of older versions that nobody    *)
(* writes any more: for a note the notes table does not have, and when     *)
(* LanceDB finds nothing.  Similarities, graph distances and what the      *)
(* indexes hold for the query are a given world; scores are integers,      *)
(* divisions round down.                                                   *)
(***************************************************************************)
EXTENDS Lists, FiniteSetsExt

CONSTANTS Note, K,               \* notes; the k of the call
          RerankMax, EntityK,    \* rerank_max_candidates (8); 3
          Worlds,                \* what the indexes hold: see World
          MaxStoreChanges        \* bound: changes by others during the call

World == [sim : [Note -> 0..6],               \* similarity to the query; 0: below the threshold
          rows : SUBSET Note,                 \* found by the searches of LanceDB's tables, until one raises
          boosted : SUBSET Note,              \* notes that share an entity with the query
          related : [Note -> Seq(Note)],      \* links.related
          held : SUBSET Note,                 \* notes that notes.jsonl still holds, as they were
          old : [Note -> [superseded : BOOLEAN, related : Seq(Note)]],
          graph : Seq(Note \X (0..2)),        \* found by the graph search, with the hops, nearest first
          causal : Seq(Note),                 \* notes that causal edges of the entities lead to
          indexed : Seq(Note),                \* the entity index, per entity, concatenated
          weights : (0..10) \X (0..10),       \* the policy of the intent: vector, graph
          isCausal : BOOLEAN,
          dated : SUBSET Note]                \* temporal query: notes with one of its dates; else {}
ASSUME RecallConstants ==
  /\ IsFiniteSet(Note) /\ Worlds \subseteq World
  /\ K \in Nat \ {0} /\ RerankMax \in Nat /\ EntityK \in Nat /\ MaxStoreChanges \in Nat

VARIABLES world, options,
          present, superseded, expired,   \* the notes table, and the clock
          recall,                         \* the call: stage, lists
          caller,                         \* the thread that called recall()
          storeChanges
recallVars == <<world, options, present, superseded, expired, recall, caller, storeChanges>>

Stages == {"idle", "vector", "blend", "causal", "augment", "rerank", "filter", "done"}
\* An entry of a result list is a note as it was read: was it superseded then, is it a copy?
Entry(n) == [id |-> n, superseded |-> n \in superseded, copy |-> FALSE]
Copy(n) == [id |-> n, superseded |-> world.old[n].superseded, copy |-> TRUE]
Ids(list) == {list[i].id : i \in DOMAIN list}

RecallTypeOK ==
  /\ present \subseteq Note /\ superseded \subseteq Note /\ expired \subseteq Note
  /\ recall.stage \in Stages /\ recall.inMemory \in BOOLEAN
  /\ Ids(recall.results) \cup Ids(recall.scored) \cup recall.accessed \subseteq Note
  /\ caller \in {"idle", "waiting", "timed_out", "returned"}
  /\ storeChanges \in 0..MaxStoreChanges

RecallInit ==
  /\ world \in Worlds
  /\ options \in [exclude_superseded : BOOLEAN, include_expired : BOOLEAN, timeout : BOOLEAN]
  /\ present \in SUBSET Note
  /\ superseded \in SUBSET present /\ expired \in SUBSET (Note \ superseded)
  /\ recall = [stage |-> "idle", scored |-> <<>>, results |-> <<>>, stale |-> {}, accessed |-> {},
               inMemory |-> FALSE]
  /\ caller = "idle" /\ storeChanges = 0

\* Other threads.
ChangeStore(n) ==
  /\ storeChanges < MaxStoreChanges /\ recall.stage \notin {"idle", "done"}
  /\ storeChanges' = storeChanges + 1
  /\ \/ present' = present \ {n} /\ UNCHANGED <<superseded, expired>>
     \/ superseded' = superseded \cup {n} /\ UNCHANGED <<present, expired>>
     \/ expired' = expired \cup {n} /\ UNCHANGED <<present, superseded>>
  /\ UNCHANGED <<world, options, recall, caller>>

Stage(from, to, results) ==
  /\ recall.stage = from
  /\ recall' = [recall EXCEPT !.stage = to, !.results = results]
  /\ UNCHANGED <<world, options, present, superseded, expired, caller, storeChanges>>

-----------------------------------------------------------------------------
\* recall(): directly, or on a pool of one thread that the caller leaves only when it is done.
Call ==
  /\ caller = "idle"
  /\ caller' = "waiting"
  /\ recall' = [recall EXCEPT !.stage = "vector",
                              !.stale = (IF options.exclude_superseded THEN superseded ELSE {})
                                        \cup (Note \ present)]
  /\ UNCHANGED <<world, options, present, superseded, expired, storeChanges>>

TimeOut ==
  /\ caller = "waiting" /\ options.timeout
  /\ recall.stage # "done"
  /\ caller' = "timed_out"
  /\ UNCHANGED <<world, options, present, superseded, expired, recall, storeChanges>>

\* The result, or [] after a timeout: pool.__exit__ joins the worker either way.
ReturnFromRecall ==
  /\ caller \in {"waiting", "timed_out"}
  /\ recall.stage = "done"
  /\ caller' = "returned"
  /\ UNCHANGED <<world, options, present, superseded, expired, recall, storeChanges>>

-----------------------------------------------------------------------------
\* Vector stage: the k nearest rows whose note is found, boosted, then their links at half the
\* score, up to 2k.  A note that the notes table does not have may be found in notes.jsonl.
ByScore(list) == Descending(list, [i \in DOMAIN list |-> list[i].score])
Scored(e, s) == [id |-> e.id, superseded |-> e.superseded, copy |-> e.copy, score |-> s]
Findable == present \cup world.held
\* Mutation of NoteRead: the copy is preferred.
ReadCopyFirst(n) == IF n \in world.held THEN Copy(n) ELSE Entry(n)

NoteRead(n) == IF n \in present THEN Entry(n) ELSE Copy(n)
Boost(hit) == IF hit.id \in world.boosted THEN [hit EXCEPT !.score = 3 * @] ELSE hit
Boosted(hits) == [i \in DOMAIN hits |-> Boost(hits[i])]

Hits ==
  LET rows == SetToSeq(world.rows \cap Findable) IN
  Take(ByScore([i \in DOMAIN rows |-> Scored(NoteRead(rows[i]), 4 * world.sim[rows[i]])]), K)
Links(hit) == IF hit.copy THEN world.old[hit.id].related ELSE world.related[hit.id]
Expand1(expanded, hit) ==
  FoldLeft(LAMBDA acc, n : IF Len(acc) >= 2 * K \/ n \notin Findable \/ n \in Ids(acc) THEN acc
                           ELSE Append(acc, Scored(NoteRead(n), hit.score \div 2)),
           expanded, Links(hit))
ExpandViaLinks(hits) == FoldLeft(Expand1, hits, hits)
VectorSearch == ExpandViaLinks(ByScore(Boosted(Hits)))

\* The search in memory goes through notes.jsonl alone, its copies of notes that are in the notes
\* table included; it is taken when LanceDB finds nothing or raises.
InMemorySearch ==
  LET near == SetToSeq({n \in world.held : world.sim[n] > 0}) IN
  ExpandViaLinks(Take(ByScore(Boosted([i \in DOMAIN near |-> Scored(Copy(near[i]), 4 * world.sim[near[i]])])), K))

\* A temporal query puts the notes with one of its dates first.
DatedFirst(list) ==
  LET first == {e \in ToSet(list) : e.id \in world.dated} IN
  Only(list, first) \o Only(list, ToSet(list) \ first)

VectorStage(fails) ==
  /\ recall.stage = "vector"
  /\ LET inMemory == fails \/ VectorSearch = <<>> IN
     recall' = [recall EXCEPT !.stage = "blend", !.inMemory = inMemory,
                              !.scored = DatedFirst(IF inMemory THEN InMemorySearch ELSE VectorSearch)]
  /\ UNCHANGED <<world, options, present, superseded, expired, caller, storeChanges>>

\* Min-max normalisation, in parts of Unit; all equal: one half.
Unit == 27720
Normal(scores, s) ==
  LET lo == Min(ToSet(scores))
      hi == Max(ToSet(scores)) IN
  IF hi = lo THEN Unit \div 2 ELSE ((s - lo) * Unit) \div (hi - lo)
GraphScore(hops) == 6 \div (1 + hops)

\* The blend: vector notes with their weighted score, graph notes added to it, or looked up.
Blend ==
  LET vs == [i \in DOMAIN recall.scored |-> recall.scored[i].score]
      gs == [i \in DOMAIN world.graph |-> GraphScore(world.graph[i][2])]
      vector == [i \in DOMAIN vs |->
                   [recall.scored[i] EXCEPT !.score = Normal(vs, @) * world.weights[1]]]
      Add(acc, i) ==
        LET n == world.graph[i][1]
            more == Normal(gs, gs[i]) * world.weights[2] IN
        IF n \in Ids(acc)
        THEN [j \in DOMAIN acc |-> IF acc[j].id = n THEN [acc[j] EXCEPT !.score = @ + more] ELSE acc[j]]
        ELSE IF n \in present THEN Append(acc, Scored(Entry(n), more)) ELSE acc
      all == FoldLeft(Add, vector, [i \in DOMAIN world.graph |-> i])
      top == Take(ByScore(all), K) IN
  \* "Fallback: if blending produced fewer results than vector alone"
  IF Len(top) < Len(recall.scored) THEN Take(recall.scored, K) ELSE top

BlendStage == Stage("blend", "causal", Blend)

\* Notes that exist and are not in the list yet.
AppendNotes(list, ids) ==
  FoldLeft(LAMBDA acc, n : IF n \in Ids(acc) \/ n \notin present THEN acc ELSE Append(acc, Entry(n)),
           list, ids)
CausalStage ==
  Stage("causal", "augment",
        IF world.isCausal THEN AppendNotes(recall.results, world.causal) ELSE recall.results)
AugmentStage == Stage("augment", "rerank", AppendNotes(recall.results, Take(world.indexed, EntityK)))

\* The head in any order the cross-encoder gives it; its failure keeps the order.
RerankStage ==
  LET head == Take(recall.results, RerankMax)
      tail == SubSeq(recall.results, Len(head) + 1, Len(recall.results)) IN
  \E order \in {p \in [DOMAIN head -> DOMAIN head] : IsInjective(p)} :
    Stage("rerank", "filter", [i \in DOMAIN head |-> head[order[i]]] \o tail)

\* The superseded, then the expired ones out; at most k; the access to each is counted.
FilterStage ==
  LET current == {e \in ToSet(recall.results) : /\ options.exclude_superseded => ~e.superseded
                                                /\ options.include_expired \/ e.id \notin expired}
      kept == Take(Only(recall.results, current), K) IN
  /\ recall.stage = "filter"
  /\ recall' = [recall EXCEPT !.stage = "done", !.results = kept, !.accessed = Ids(kept)]
  /\ UNCHANGED <<world, options, present, superseded, expired, caller, storeChanges>>

ClientNext == Call \/ TimeOut \/ ReturnFromRecall
WorkerStage ==
  \/ \E fails \in BOOLEAN : VectorStage(fails)
  \/ BlendStage \/ CausalStage \/ AugmentStage \/ RerankStage \/ FilterStage
RecallNext == ClientNext \/ WorkerStage \/ \E n \in Note : ChangeStore(n)

RecallSpec == RecallInit /\ [][RecallNext]_recallVars
\* The caller's own steps happen; a search may take as long as it likes.
ImpatientSpec == RecallSpec /\ WF_recallVars(ClientNext)

-----------------------------------------------------------------------------
\* Nothing stale comes back from the store: a note that was superseded, or not in the notes table,
\* when the call began is in the result only as a copy in notes.jsonl that was not superseded yet,
\* and only if the table did not have the note when the vector stage asked for it, or if that
\* stage searched in memory (memory_manager.py:946 comes after all four sources, but looks at what
\* was read); and every note comes at most once, although only the blend keeps its notes in a
\* dictionary (memory_manager.py:878, :910), and at most k of them.
NothingStaleReturned ==
  recall.stage = "done" =>
    /\ \A e \in ToSet(recall.results) : e.id \in recall.stale =>
         /\ e.copy /\ e.id \in world.held
         /\ options.exclude_superseded => ~world.old[e.id].superseded
         /\ recall.inMemory \/ e.id \notin present
    /\ IsInjective([i \in DOMAIN recall.results |-> recall.results[i].id])
    /\ Len(recall.results) <= K

\* "the retrieval pipeline is capped by a wall-clock timeout" (memory_manager.py:721): once
\* the timeout has passed, the call returns, however long the search takes.
TimeoutCapsTheCall == (caller = "timed_out") ~> (caller = "returned")
=============================================================================
