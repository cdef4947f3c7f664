-------------------------- MODULE KnowledgeGraphLog --------------------------
(***************************************************************************)
(* KnowledgeGraph: nodes and edges in memory, every change appended to a   *)
(* JSONL file, and the file replayed at the next start.  Temporal edges    *)
(* are also listed in a timeline, which is not stored: replaying the edge  *)
(* lines has to give it back.  The lock covers add_edge; add_temporal_edge *)
(* lists its edge after it.                                                *)
(***************************************************************************)
EXTENDS Integers, Sequences, FiniteSetsExt

CONSTANTS TemporalEdges, OtherEdges,   \* <<from, to, relationship>> keys
          GraphThreads,                \* threads in add_temporal_edge
          Stamps,                      \* timestamps a caller can give; 0 stands for created_at
          OldLogs,                     \* edge files of earlier versions to start from
          MaxLines, MaxAppendErrors, MaxRestarts   \* bounds of the search

ASSUME GraphLogConstants == 0 \notin Stamps /\ TemporalEdges \cap OtherEdges = {}

VARIABLES edges,       \* edges in memory: absent, or their latest timestamp and edge_type
          log,         \* kg_edges.jsonl
          timeline,    \* the points of the timeline: an edge at a timestamp
          entities, entityFile,   \* nodes in memory and in kg_nodes.jsonl
          indexing,    \* <<thread, edge>>: add_temporal_edge between add_edge and the timeline
          outrun,      \* points whose edge got another timestamp before its call listed it
          torn,        \* an append raised: memory has what the file has not
          appendErrors, restarts
graphVars == <<edges, log, timeline, entities, entityFile, indexing, outrun, torn, appendErrors, restarts>>

Keys == TemporalEdges \cup OtherEdges
Ends(k) == {k[1], k[2]}
NoEdge == [stamp |-> -1, type |-> "none"]
EdgeData == [stamp : Stamps \cup {0}, type : {"heuristic", "causal"}]
Line(k, e) == [key |-> k, edge |-> e, shape |-> "canonical"]
LogLine == [key : Keys, edge : EdgeData, shape : {"canonical", "legacy", "malformed"}]

ASSUME GraphLogBounds ==
  /\ OldLogs \subseteq Seq(LogLine)
  /\ MaxLines \in Nat /\ MaxAppendErrors \in Nat /\ MaxRestarts \in Nat

GraphLogTypeOK ==
  /\ edges \in [Keys -> EdgeData \cup {NoEdge}]
  /\ log \in Seq(LogLine)
  /\ timeline \subseteq TemporalEdges \X (Stamps \cup {0})
  /\ entityFile \subseteq UNION {Ends(k) : k \in Keys} /\ entities \subseteq UNION {Ends(k) : k \in Keys}
  /\ indexing \subseteq GraphThreads \X {k \in TemporalEdges : edges[k] # NoEdge}
  /\ outrun \subseteq TemporalEdges \X (Stamps \cup {0})
  /\ torn \in BOOLEAN
  /\ appendErrors \in 0..MaxAppendErrors /\ restarts \in 0..MaxRestarts

-----------------------------------------------------------------------------
\* _load_all: _normalize_edge_schema renames the keys of legacy lines and drops what it cannot
\* complete; a later line of an edge replaces an earlier one; each temporal line is indexed.

Readable(l) == {i \in DOMAIN l : l[i].shape # "malformed"}
LinesOf(l, k) == {i \in Readable(l) : l[i].key = k}
Replayed(l) == [k \in Keys |-> IF LinesOf(l, k) = {} THEN NoEdge ELSE l[Max(LinesOf(l, k))].edge]
ReplayedTimeline(l) ==
  {<<l[i].key, l[i].edge.stamp>> : i \in {j \in Readable(l) : l[j].key \in TemporalEdges}}

Load(l) ==
  /\ edges' = Replayed(l)
  /\ timeline' = ReplayedTimeline(l)
  /\ entities' = entityFile
  /\ indexing' = {} /\ outrun' = {} /\ torn' = FALSE

GraphLogInit ==
  /\ log \in OldLogs
  /\ edges = Replayed(log) /\ timeline = ReplayedTimeline(log)
  /\ entityFile = UNION {Ends(log[i].key) : i \in DOMAIN log} /\ entities = entityFile
  /\ indexing = {} /\ outrun = {} /\ torn = FALSE /\ appendErrors = 0 /\ restarts = 0

-----------------------------------------------------------------------------
\* add_edge: create the missing nodes, then create the edge or, if there are properties,
\* update it; memory first, then the line.  The result: what the edge is afterwards.
Updated(k, stamp, type) ==
  IF edges[k] = NoEdge THEN [stamp |-> stamp, type |-> type]
  ELSE [stamp |-> IF stamp # 0 THEN stamp ELSE edges[k].stamp,
        type |-> IF edges[k].type = "heuristic" THEN type ELSE edges[k].type]

Point(k) == <<k, edges[k].stamp>>
Unlisted == {Point(c[2]) : c \in indexing}

\* The part under the lock; an edge that is new is listed there.
Store(k, e, listed) ==
  /\ Len(log) < MaxLines
  /\ edges' = [edges EXCEPT ![k] = e]
  /\ log' = Append(log, Line(k, e))
  /\ entities' = entities \cup Ends(k)
  /\ entityFile' = entityFile \cup (Ends(k) \ entities)
  /\ timeline' = IF listed THEN timeline \cup {<<k, e.stamp>>} ELSE timeline
  /\ outrun' = outrun \cup {Point(c[2]) : c \in {d \in indexing : d[2] = k /\ e.stamp # edges[k].stamp}}
  /\ UNCHANGED <<torn, appendErrors, restarts>>

NewTemporal(k) == edges[k] = NoEdge /\ k \in TemporalEdges

\* Properties other than a timestamp, with or without an edge_type.
\* Without any an existing edge is left alone.
AddEdge(k, type) == Store(k, Updated(k, 0, type), NewTemporal(k)) /\ UNCHANGED indexing

AddTemporalEdge(t, k, stamp) ==
  /\ \A c \in indexing : c[1] # t
  /\ Store(k, Updated(k, stamp, "heuristic"), NewTemporal(k))
  /\ indexing' = indexing \cup {<<t, k>>}

\* Mutation of IndexTimeline: the timeline is left to add_edge.
IndexTimelineNever(c) ==
  /\ indexing' = indexing \ {c}
  /\ UNCHANGED <<edges, log, timeline, entities, entityFile, outrun, torn, appendErrors, restarts>>

\* The lock is released: the edge is listed at the timestamp it has by now.
IndexTimeline(c) ==
  /\ timeline' = timeline \cup {Point(c[2])}
  /\ indexing' = indexing \ {c}
  /\ UNCHANGED <<edges, log, entities, entityFile, outrun, torn, appendErrors, restarts>>

\* An append raises: at the node file the edge is not reached, at the edge file memory already
\* has the edge; either way nothing is indexed.
AppendRaises(k, stamp, type) ==
  LET e == Updated(k, stamp, type) IN
  /\ appendErrors < MaxAppendErrors
  /\ appendErrors' = appendErrors + 1
  /\ torn' = TRUE
  /\ \/ \E x \in Ends(k) \ entities :
          entities' = entities \cup {x} /\ UNCHANGED <<edges, entityFile>>
     \/ /\ edges' = [edges EXCEPT ![k] = e]
        /\ entities' = entities \cup Ends(k)
        /\ entityFile' = entityFile \cup (Ends(k) \ entities)
  /\ UNCHANGED <<log, timeline, indexing, outrun, restarts>>

Restart ==
  /\ restarts < MaxRestarts
  /\ restarts' = restarts + 1
  /\ Load(log)
  /\ UNCHANGED <<log, entityFile, appendErrors>>

GraphLogNext ==
  \/ \E k \in Keys : \/ \E type \in {"heuristic", "causal"} : AddEdge(k, type)
                     \/ \E s \in Stamps \cup {0} : AppendRaises(k, s, "heuristic")
  \/ \E t \in GraphThreads, k \in TemporalEdges, s \in Stamps : AddTemporalEdge(t, k, s)
  \/ \E c \in indexing : IndexTimeline(c)
  \/ Restart

GraphLogSpec == GraphLogInit /\ [][GraphLogNext]_graphVars

-----------------------------------------------------------------------------
\* As long as no append raised, the next start finds the edges, their types and timestamps as
\* memory has them, and a timeline with every point memory lists: what add_edge, add_temporal_edge
\* and the replay index at different times (knowledge_graph.py:328, :238 and :108) differs only in
\* how often a point is listed.  The replay has a point more only for a call that has still to
\* list its edge, and for one whose edge another call gave a new timestamp first (:233-238).
RestartAgrees ==
  ~torn => /\ Replayed(log) = edges
           /\ timeline \subseteq ReplayedTimeline(log)
           /\ ReplayedTimeline(log) \subseteq timeline \cup Unlisted \cup outrun
=============================================================================
