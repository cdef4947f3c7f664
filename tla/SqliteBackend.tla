---------------------------- MODULE SqliteBackend ----------------------------
(***************************************************************************)
(* SQLiteBackend: one connection, every call under one reentrant lock.     *)
(* A call executes its statements and commits; commit() may raise, and     *)
(* nothing in the class rolls back, so SQLite either keeps the transaction *)
(* open (a later call's commit then includes it) or has undone it itself.  *)
(* iterate_notes() is the one operation that lets go of the lock: it steps *)
(* a live cursor over notes in rowid order, ChunkSize rows at a time.      *)
(***************************************************************************)
EXTENDS Integers, FiniteSets, FiniteSetsExt

CONSTANTS Notes, Versions,   \* note ids; the contents a row can have
          Nodes, EdgeKeys,   \* graph nodes; <<from, to, note>> triples
          Scanners,          \* threads inside iterate_notes
          ChunkSize,         \* fetchmany(100)
          MaxRowid, MaxFailures, MaxCloses   \* bounds of the search

ASSUME SqliteConstants ==
  /\ EdgeKeys \subseteq Nodes \X Nodes \X Notes
  /\ ChunkSize \in Nat \ {0} /\ MaxRowid \in Nat
  /\ MaxFailures \in Nat /\ MaxCloses \in Nat

VARIABLES conn,      \* self._conn: is it open?
          live,      \* the tables as the connection sees them
          durable,   \* the tables as of the last commit
          adding,    \* the add_kg_edge call that holds the lock, between two of its commits
          scan,      \* cursors of iterate_notes
          returned,  \* content the last call on a note left, if it returned
          raised,    \* contents of the calls on it that raised since
          failures, closes
sqliteVars == <<conn, live, durable, adding, scan, returned, raised, failures, closes>>

Gone == "gone"
NoCall == "none"
Row == [rowid : 0..MaxRowid, content : Versions \cup {Gone}]
Tables == [row : [Notes -> Row], nodes : SUBSET Nodes, edges : SUBSET EdgeKeys]
Cursor == [on : BOOLEAN, pos : 0..MaxRowid, seen : SUBSET Notes, stay : SUBSET Notes]
Idle == [on |-> FALSE, pos |-> 0, seen |-> {}, stay |-> {}]

SqliteTypeOK ==
  /\ conn \in BOOLEAN
  /\ live \in Tables /\ durable \in Tables
  /\ adding \in EdgeKeys \cup {NoCall}
  /\ scan \in [Scanners -> Cursor]
  /\ returned \in [Notes -> Versions \cup {Gone}]
  /\ raised \in [Notes -> SUBSET (Versions \cup {Gone})]
  /\ failures \in 0..MaxFailures /\ closes \in 0..MaxCloses

Present(db) == {n \in Notes : db.row[n].rowid # 0}
Rowids(db) == {db.row[n].rowid : n \in Present(db)}

SqliteInit ==
  /\ conn = TRUE
  /\ live = [row |-> [n \in Notes |-> [rowid |-> 0, content |-> Gone]], nodes |-> {}, edges |-> {}]
  /\ durable = live
  /\ adding = NoCall
  /\ scan = [s \in Scanners |-> Idle]
  /\ returned = [n \in Notes |-> Gone]
  /\ raised = [n \in Notes |-> {}]
  /\ failures = 0 /\ closes = 0

-----------------------------------------------------------------------------
\* A call: take the lock, check the connection, run the statements, commit.

Locked == conn /\ adding = NoCall

\* The statements run on the connection, under its open cursors.
Execute(new) ==
  /\ live' = new
  /\ scan' = [s \in Scanners |-> [scan[s] EXCEPT !.stay = @ \cap Present(new)]]

\* Mutation of CommitReturns: the commit is missing.
CommitForgotten(new) ==
  /\ Execute(new)
  /\ UNCHANGED <<conn, durable, failures, closes>>

CommitReturns(new) ==
  /\ Execute(new)
  /\ durable' = new
  /\ UNCHANGED <<conn, failures, closes>>

\* Kept open, or undone by SQLite: then the next step of an open cursor fails as well.
CommitRaises(new) ==
  /\ failures < MaxFailures
  /\ failures' = failures + 1
  /\ UNCHANGED <<conn, durable, closes>>
  /\ \/ Execute(new)
     \/ live' = durable /\ scan' = [s \in Scanners |-> Idle]

NoteCall(n, new, content) ==
  \/ /\ CommitReturns(new)
     /\ returned' = [returned EXCEPT ![n] = content]
     /\ raised' = [raised EXCEPT ![n] = {}]
     /\ UNCHANGED adding
  \/ /\ CommitRaises(new)
     /\ raised' = [raised EXCEPT ![n] = @ \cup {content}]
     /\ UNCHANGED <<returned, adding>>

\* Mutation of NextRowid: the lowest free rowid is used again.
LowestFreeRowid(db) ==
  CHOOSE r \in 1..MaxRowid + 1 : r \notin Rowids(db) /\ 1..(r - 1) \subseteq Rowids(db)

\* INSERT OR REPLACE gives the row a rowid above every other (the table has no integer key).
NextRowid(db) == Max(Rowids(db) \cup {0}) + 1

\* write_note and rewrite_note are the same statement.
WriteNote(n, v) ==
  /\ Locked
  /\ NextRowid(live) <= MaxRowid
  /\ NoteCall(n, [live EXCEPT !.row[n] = [rowid |-> NextRowid(live), content |-> v]], v)

\* mark_access_dirty and reindex_vector update columns of the row where it is.
UpdateColumns(n, v) ==
  /\ Locked
  /\ n \in Present(live)
  /\ NoteCall(n, [live EXCEPT !.row[n].content = v], v)

DeleteNote(n) ==
  /\ Locked
  /\ NoteCall(n, [live EXCEPT !.row[n] = [rowid |-> 0, content |-> Gone]], Gone)

-----------------------------------------------------------------------------
\* add_kg_edge holds the lock over two add_kg_node calls and its own insert; each commits.

BeginEdge(k) ==
  /\ Locked
  /\ k \notin live.edges
  /\ adding' = k
  /\ UNCHANGED <<conn, live, durable, scan, returned, raised, failures, closes>>

\* Mutation of NextInsert: the edge before its second node.
EdgeBeforeNode(k) ==
  IF k[1] \notin live.nodes THEN [live EXCEPT !.nodes = @ \cup {k[1]}]
  ELSE [live EXCEPT !.edges = @ \cup {k}]

\* What the call still has to insert: its nodes in order, then the edge.
NextInsert(k) ==
  IF k[1] \notin live.nodes THEN [live EXCEPT !.nodes = @ \cup {k[1]}]
  ELSE IF k[2] \notin live.nodes THEN [live EXCEPT !.nodes = @ \cup {k[2]}]
  ELSE [live EXCEPT !.edges = @ \cup {k}]

AddKgEdge ==
  LET new == NextInsert(adding) IN
  /\ conn /\ adding # NoCall
  /\ UNCHANGED <<returned, raised>>
  /\ \/ /\ CommitReturns(new)
        /\ adding' = IF adding \in new.edges THEN NoCall ELSE adding
     \/ CommitRaises(new) /\ adding' = NoCall

-----------------------------------------------------------------------------
\* iterate_notes: SELECT under the lock, then one locked fetchmany after another.

ScanStart(s) ==
  /\ Locked
  /\ ~scan[s].on
  /\ scan' = [scan EXCEPT ![s] = [on |-> TRUE, pos |-> 0, seen |-> {}, stay |-> Present(live)]]
  /\ UNCHANGED <<conn, live, durable, adding, returned, raised, failures, closes>>

Ahead(c) == {r \in Rowids(live) : r > c.pos}
\* The rows the cursor stands on after the next fetchmany: the ChunkSize nearest.
Chunk(c) == {r \in Ahead(c) : Cardinality({q \in Ahead(c) : q < r}) < ChunkSize}

ScanFetch(s) ==
  /\ Locked
  /\ scan[s].on
  /\ LET c == scan[s] IN
     scan' = [scan EXCEPT ![s] =
       IF Chunk(c) = {} THEN Idle
       ELSE [c EXCEPT !.pos = Max(Chunk(c)),
                      !.seen = @ \cup {n \in Present(live) : live.row[n].rowid \in Chunk(c)}]]
  /\ UNCHANGED <<conn, live, durable, adding, returned, raised, failures, closes>>

-----------------------------------------------------------------------------
\* close() drops an open transaction; the next step of a scan raises BackendClosedError.
Shut ==
  /\ conn' = FALSE
  /\ live' = durable
  /\ adding' = NoCall
  /\ scan' = [s \in Scanners |-> Idle]
  /\ closes' = closes + 1
  /\ UNCHANGED <<durable, returned, raised, failures>>

Close == Locked /\ closes < MaxCloses /\ Shut
\* The process dies at any point, also between two commits of one call.
Crash == conn /\ closes < MaxCloses /\ Shut

Initialize ==
  /\ ~conn
  /\ conn' = TRUE
  /\ UNCHANGED <<live, durable, adding, scan, returned, raised, failures, closes>>

SqliteNext ==
  \/ \E n \in Notes : DeleteNote(n) \/ \E v \in Versions : WriteNote(n, v) \/ UpdateColumns(n, v)
  \/ \E k \in EdgeKeys : BeginEdge(k)
  \/ AddKgEdge
  \/ \E s \in Scanners : ScanStart(s) \/ ScanFetch(s)
  \/ Close \/ Crash \/ Initialize

SqliteSpec == SqliteInit /\ [][SqliteNext]_sqliteVars

-----------------------------------------------------------------------------
\* What a note is in the database after the process ends is what the last call on it that
\* returned left there, or what a later call that raised had already executed: a raised call
\* may land with somebody else's commit, a returned one is never undone (sqlite_backend.py
\* has no rollback).
DurableExplained ==
  \A n \in Notes : durable.row[n].content \in {returned[n]} \cup raised[n]

\* No edge is committed before its two nodes, wherever a commit fails or the process stops.
EdgesHaveNodes ==
  \A k \in durable.edges : {k[1], k[2]} \subseteq durable.nodes

\* A scan never passes over a note that is in the table from its start on: a rewrite moves the
\* row ahead of every cursor (so that iterate_notes can yield it twice, never not at all).
ScanMissesNothing ==
  \A s \in Scanners : scan[s].on =>
    \A n \in scan[s].stay : n \in scan[s].seen \/ live.row[n].rowid > scan[s].pos
=============================================================================
