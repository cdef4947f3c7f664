------------------------------ MODULE OsintRuns ------------------------------
(***************************************************************************)
(* run_osint_collection: for a seed entity, every registered collector     *)
(* that takes its type returns tuples; each tuple is validated against the *)
(* ontology and the collector's declaration, its endpoints derived, and    *)
(* its nodes and its edge written, one call of the graph after another.    *)
(* What a collector returns is a choice: the services it asks are outside. *)
(***************************************************************************)
EXTENDS Integers, Sequences, FiniteSets, SequencesExt

CONSTANTS SeedTypes,    \* SUPPORTED_SEED_TYPES
          Seeds,        \* values a caller may ask about
          Spelling,     \* value -> its canonical form; a value outside the domain has none
          Invalid,      \* pairs <<type, canonical value>> that the ontology refuses
          RelationTypes,\* relation -> [from, to]: the types it may join
          Collectors,   \* name -> [inputs, outputs, maybe]: what the registry holds, and tuples
                        \* the collector may return
          MaxReturned, MaxRuns, MaxStoreErrors

ASSUME CanonicalSpellings == \A v \in DOMAIN Spelling : Spelling[v] \in DOMAIN Spelling
ASSUME OsintBounds ==
  /\ IsFiniteSet(DOMAIN Collectors)
  /\ MaxReturned \in Nat /\ MaxRuns \in Nat /\ MaxStoreErrors \in Nat

VARIABLES osNodes, osEdges,  \* the graph, a KnowledgeGraph or a scoped StorageBackend
          run,               \* the run under way and its result
          runs, storeErrors,
          seeded,            \* nodes of the seeds of all runs that got past their checks, and what of
          accepted, cutShort \* tuples had to be written, or was when the graph raised (history)
osintVars == <<osNodes, osEdges, run, runs, storeErrors, seeded, accepted, cutShort>>

NoRun == [at |-> "idle", type |-> "", seed |-> "", persist |-> FALSE, todo |-> <<>>, collector |-> "",
          tuples |-> <<>>, writing |-> 0, collected |-> 0, persisted |-> <<>>, refused |-> 0]

-----------------------------------------------------------------------------
\* canonicalise_value raises for a value it cannot read; canonicalising twice changes nothing.
CanonicalNode(type, v) == <<type, Spelling[v]>>
Readable(v) == v \in DOMAIN Spelling
ValidEntity(type, v) == Readable(v) /\ CanonicalNode(type, v) \notin Invalid

\* _derive_endpoint_value: the seed, the output or a property of the tuple.  When a collector
\* links two entities of the seed's type, the edge starts at the seed and ends at the output.
FromValue(t) ==
  CASE t.from = run.type -> run.seed
    [] t.from # run.type /\ t.from = t.outType -> t.out
    [] OTHER -> t.extra
ToValue(t) ==
  CASE t.to = t.outType -> t.out
    [] t.to # t.outType /\ t.to = run.type -> run.seed
    [] OTHER -> t.extra

\* _validate_tuple
Accepted(t) ==
  /\ ValidEntity(t.outType, t.out)
  /\ t.edge \in DOMAIN RelationTypes
  /\ <<t.outType, t.edge>> \in Collectors[run.collector].outputs
  /\ t.from \in RelationTypes[t.edge].from /\ t.to \in RelationTypes[t.edge].to
  /\ ValidEntity(t.from, FromValue(t)) /\ ValidEntity(t.to, ToValue(t))

EdgeOf(t) == [from |-> CanonicalNode(t.from, FromValue(t)), rel |-> t.edge, to |-> CanonicalNode(t.to, ToValue(t))]
\* _persist_tuple: the output's node, the nodes of the two endpoints, then the edge
NodesOf(t) == <<CanonicalNode(t.outType, t.out), EdgeOf(t).from, EdgeOf(t).to>>
\* PersistedOSINTTuple: what the result says is in the graph.
Persisted(t) == [edge |-> EdgeOf(t), nodes |-> Range(NodesOf(t))]

OsintTypeOK ==
  /\ \A e \in osEdges : {e.from, e.to} \subseteq osNodes
  /\ run.at \in {"idle", "seed", "collect", "tuples", "returned", "raised"} /\ run.writing \in 0..4
  /\ run.collected \in Nat /\ run.refused \in Nat /\ runs \in 0..MaxRuns
  /\ Range(run.persisted) \cup cutShort \subseteq accepted
  /\ storeErrors \in 0..MaxStoreErrors

OsintInit ==
  /\ osNodes = {} /\ osEdges = {} /\ run = NoRun /\ runs = 0 /\ storeErrors = 0
  /\ seeded = {} /\ accepted = {} /\ cutShort = {}

GraphUnchanged == UNCHANGED <<osNodes, osEdges>>

\* The seed is checked first, and the collectors are those that take its type and, with an
\* allow-list, are on it, in the order of their registration.
Run(type, seed, persist, allowed) ==
  /\ run.at \in {"idle", "returned", "raised"} /\ runs < MaxRuns
  /\ runs' = runs + 1
  /\ run' = IF type \in SeedTypes /\ ValidEntity(type, seed)
            THEN [NoRun EXCEPT !.at = IF persist THEN "seed" ELSE "collect", !.type = type, !.persist = persist,
                               !.seed = Spelling[seed],
                               !.todo = SetToSeq({c \in allowed : type \in Collectors[c].inputs})]
            ELSE [NoRun EXCEPT !.at = "raised"]
  /\ seeded' = IF run'.at = "seed" THEN seeded \cup {CanonicalNode(type, seed)} ELSE seeded
  /\ GraphUnchanged /\ UNCHANGED <<storeErrors, accepted, cutShort>>

WriteSeed ==
  /\ run.at = "seed"
  /\ osNodes' = osNodes \cup {<<run.type, run.seed>>}
  /\ run' = [run EXCEPT !.at = "collect"]
  /\ UNCHANGED <<osEdges, runs, storeErrors, seeded, accepted, cutShort>>

Collect(tuples) ==
  /\ run.at = "collect" /\ run.todo # <<>>
  /\ Range(tuples) \subseteq Collectors[Head(run.todo)].maybe
  /\ run' = [run EXCEPT !.at = "tuples", !.collector = Head(run.todo), !.todo = Tail(@),
                        !.tuples = tuples, !.collected = @ + Len(tuples)]
  /\ GraphUnchanged /\ UNCHANGED <<runs, storeErrors, seeded, accepted, cutShort>>

\* A collector that raises is one error, and the next collector runs.
CollectorRaises ==
  /\ run.at = "collect" /\ run.todo # <<>>
  /\ run' = [run EXCEPT !.todo = Tail(@)]
  /\ GraphUnchanged /\ UNCHANGED <<runs, storeErrors, seeded, accepted, cutShort>>

\* ValueError: the tuple is refused and the next one is taken.  Without persist, it is only checked.
TakeTuple ==
  LET t == Head(run.tuples)
      goes == Accepted(t) /\ run.persist IN
  /\ run.at = "tuples" /\ run.tuples # <<>> /\ run.writing = 0
  /\ run' = IF goes THEN [run EXCEPT !.writing = 1]
            ELSE [run EXCEPT !.tuples = Tail(@), !.refused = IF Accepted(t) THEN @ ELSE @ + 1]
  /\ accepted' = IF goes THEN accepted \cup {Persisted(t)} ELSE accepted
  /\ GraphUnchanged /\ UNCHANGED <<runs, storeErrors, seeded, cutShort>>

WriteNode ==
  /\ run.writing \in 1..3
  /\ osNodes' = osNodes \cup {NodesOf(Head(run.tuples))[run.writing]}
  /\ run' = [run EXCEPT !.writing = @ + 1]
  /\ UNCHANGED <<osEdges, runs, storeErrors, seeded, accepted, cutShort>>

\* Mutation of WriteEdge: an edge of the same start and relation is taken to be there already.
WriteEdgeIfNew ==
  LET t == Head(run.tuples) IN
  /\ run.writing = 4
  /\ osEdges' = IF \E e \in osEdges : e.from = EdgeOf(t).from /\ e.rel = EdgeOf(t).rel THEN osEdges
                ELSE osEdges \cup {EdgeOf(t)}
  /\ run' = [run EXCEPT !.writing = 0, !.tuples = Tail(@), !.persisted = Append(@, Persisted(t))]
  /\ UNCHANGED <<osNodes, runs, storeErrors, seeded, accepted, cutShort>>

WriteEdge ==
  LET t == Head(run.tuples) IN
  /\ run.writing = 4
  /\ osEdges' = osEdges \cup {EdgeOf(t)}
  /\ run' = [run EXCEPT !.writing = 0, !.tuples = Tail(@), !.persisted = Append(@, Persisted(t))]
  /\ UNCHANGED <<osNodes, runs, storeErrors, seeded, accepted, cutShort>>

\* Any other exception of the graph ends the run; the caller gets no result.
GraphRaises ==
  /\ run.at = "seed" \/ run.writing # 0
  /\ storeErrors < MaxStoreErrors /\ storeErrors' = storeErrors + 1
  /\ cutShort' = IF run.writing = 0 THEN cutShort ELSE cutShort \cup {Persisted(Head(run.tuples))}
  /\ run' = [NoRun EXCEPT !.at = "raised"]
  /\ UNCHANGED <<osNodes, osEdges, runs, seeded, accepted>>

NextCollector ==
  /\ run.at = "tuples" /\ run.tuples = <<>>
  /\ run' = [run EXCEPT !.at = "collect"]
  /\ GraphUnchanged /\ UNCHANGED <<runs, storeErrors, seeded, accepted, cutShort>>

ReturnResult ==
  /\ run.at = "collect" /\ run.todo = <<>>
  /\ run' = [run EXCEPT !.at = "returned"]
  /\ GraphUnchanged /\ UNCHANGED <<runs, storeErrors, seeded, accepted, cutShort>>

OsintNext ==
  \/ \E type \in {"other"} \cup SeedTypes, seed \in Seeds, persist \in BOOLEAN, allowed \in SUBSET DOMAIN Collectors :
       Run(type, seed, persist, allowed)
  \/ \E n \in 0..MaxReturned :
       \E tuples \in [1..n -> UNION {Collectors[c].maybe : c \in DOMAIN Collectors}] : Collect(tuples)
  \/ WriteSeed \/ CollectorRaises \/ TakeTuple \/ WriteNode \/ WriteEdge \/ GraphRaises \/ NextCollector \/ ReturnResult

OsintSpec == OsintInit /\ [][OsintNext]_osintVars

-----------------------------------------------------------------------------
\* The tuple that is being written; only its edge, and the last of its nodes, may be missing.
BeingWritten == IF run.writing = 0 THEN {} ELSE {Persisted(Head(run.tuples))}

\* A tuple is written whole or not at all: every tuple a result counts as persisted is in the
\* graph with its edge, the ends of the edge and the node of its output, now and after later runs
\* and errors; one that was accepted lacks its edge only while it is written, or if the graph
\* raised at it; no node and no edge is from anything else, so that a refused tuple leaves nothing
\* behind, whichever of its checks refuses it; and the result a caller gets accounts for every
\* tuple the collectors returned (executor.py:200-244).
TuplesWholeAndCounted ==
  /\ \A r \in Range(run.persisted) : r.edge \in osEdges /\ r.nodes \subseteq osNodes
  /\ \A r \in accepted :
       \/ r.edge \in osEdges /\ r.nodes \subseteq osNodes
       \/ r \in cutShort \cup BeingWritten
  /\ osEdges \subseteq {r.edge : r \in accepted}
  /\ osNodes \subseteq seeded \cup UNION {r.nodes : r \in accepted}
  /\ \A e \in osEdges : e.from \notin Invalid /\ e.to \notin Invalid
  /\ run.at = "returned" /\ run.persist => run.collected = Len(run.persisted) + run.refused
=============================================================================
